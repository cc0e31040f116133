------------------------------ MODULE SessionScopes ------------------------------
(* The two places where the scope of an EVM session key is enforced: on the     *)
(* device before it signs (checkScopeAgainstTx in SessionKeyManager.ts, for     *)
(* transactions, payments by typed data and redemptions), and on the chain by   *)
(* the caveats of the owner's delegation (caveatsFromScope in                   *)
(* delegation-framework.ts), which hold also for what the key signs elsewhere.  *)
(* One token, one chain; gas, which the key pays itself, is left out.           *)
EXTENDS ConnectLib, Functions

CONSTANTS Scopes,   \* scopes a caller may ask for
          MaxRuns, MaxScopeClock \* bounds

VARIABLES scope,    \* the key's scope, or None when createSessionKey refused it
          caveats,  \* the owner's delegation, or None
          scopeClock,
          ran       \* what was signed on the device, or executed on the chain
scopeVars == <<scope, caveats, scopeClock, ran>>

Recipients == {"payee", "stranger"}
\* Calldata: a selector, and for a token transfer its recipient and amount.
Plain(m) == [method |-> m, to |-> None, amount |-> 0]
Calls == {Plain("none"), Plain("call"), Plain("approve")} \union
         {[method |-> "transfer", to |-> r, amount |-> n] : r \in Recipients, n \in 1..2} \union
         {[method |-> "transferFrom", to |-> r, amount |-> 1] : r \in Recipients}
Executions == [target : {"token", "dapp", "payee", "owner"}, value : 0..1, data : Calls]
Forbidden == {"approve"}
Within(n, limit) == limit # None => n <= limit

\* SessionKeyScope: a limit that was not asked for is None.
Limit == Nat \union {None}
PeriodLimit == [asset : {"token", "native"}, amount : Nat]
ScopeRecord ==
  [mode : {"offchain", "eip7702"}, rails : SUBSET {"transfer", "x402-exact"},
   contracts : SUBSET {"token", "dapp", "payee", "owner"},
   methods : SUBSET {"none", "call", "approve", "transfer", "transferFrom"},
   recipients : SUBSET Recipients, nativeTransfer : BOOLEAN, allowance : Limit, tokenMaxPerTx : Limit,
   maxValuePerTx : Limit, maxTotalValue : Limit, maxTxCount : Limit, period : PeriodLimit \union {None}]
ASSUME ScopesAssumption ==
  /\ Scopes \subseteq ScopeRecord /\ MaxScopeClock \in Nat
  /\ None \notin Nat \union Recipients \union ScopeRecord \union PeriodLimit

(* ------------------------------------------------------------ createSessionKey *)
\* validateScopeInput.
ScopeValid(s) ==
  /\ s.rails # {}
  /\ s.tokenMaxPerTx # None => s.allowance # None /\ s.tokenMaxPerTx <= s.allowance
  /\ s.period # None => LET cumulative == IF s.period.asset = "native" THEN s.maxTotalValue ELSE s.allowance
                        IN cumulative # None /\ s.period.amount \in 1..cumulative
  /\ s.nativeTransfer => s.recipients # {}

(* ------------------------------------------------------------------ the device *)
\* decodeScopedTokenSpend: calldata for the token must be a transfer once it has
\* an allowance.
IsToken(s, x) == s.allowance # None /\ x.target = "token"
Decoded(s, x) == IsToken(s, x) => x.data.method \in {"transfer", "transferFrom"}
NativeToRecipient(s, x) ==
  s.nativeTransfer /\ x.value > 0 /\ x.data.method = "none" /\ x.target \in s.recipients
ContractAllowed(s, x) ==
  \/ NativeToRecipient(s, x)
  \/ IF s.contracts = {} THEN ~s.nativeTransfer ELSE x.target \in s.contracts
RecipientAllowed(s, x) ==
  s.recipients = {} \/
  (IF IsToken(s, x) THEN x.data.to ELSE IF x.data.method = "none" THEN x.target ELSE None) \in s.recipients
MethodAllowed(s, x) ==
  \/ s.methods = {} \/ x.data.method \in s.methods
  \/ x.data.method = "none" /\ NativeToRecipient(s, x)

\* The stored accumulators, after the operations in h.
TokenSpends(s, h) == {i \in DOMAIN h : IsToken(s, h[i])}
TokenSpent(s, h) == SumFunction([i \in TokenSpends(s, h) |-> h[i].data.amount])
ValueSpent(h) == SumFunction([i \in DOMAIN h |-> h[i].value])
\* periodUsageFor: a token spend counts for the token, anything else for the
\* native asset; a period is one time unit.
InPeriod(s, x) == s.period # None /\ s.period.asset = (IF IsToken(s, x) THEN "token" ELSE "native")
PeriodAmount(s, x) == IF IsToken(s, x) THEN x.data.amount ELSE x.value
PeriodUsed(s, h, t) ==
  SumFunction([i \in {j \in DOMAIN h : InPeriod(s, h[j]) /\ h[j].at = t} |-> PeriodAmount(s, h[i])])

\* checkScopeAgainstTx, with the usage that h leaves.
DeviceAccepts(s, h, x) ==
  /\ ContractAllowed(s, x) /\ x.data.method \notin Forbidden /\ Decoded(s, x)
  /\ IsToken(s, x) => /\ Within(x.data.amount, s.tokenMaxPerTx)
                      /\ TokenSpent(s, h) + x.data.amount <= s.allowance
  /\ InPeriod(s, x) => PeriodUsed(s, h, x.at) + PeriodAmount(s, x) <= s.period.amount
  /\ RecipientAllowed(s, x) /\ MethodAllowed(s, x)
  /\ Within(x.value, s.maxValuePerTx) /\ Within(ValueSpent(h) + x.value, s.maxTotalValue)
  /\ s.maxTxCount # None => Len(h) < s.maxTxCount

\* refuseRawDigestForRecipientScope: a digest is not bound to the transaction it
\* comes with.
RawDigestAllowed(s) == s.mode # "eip7702" /\ s.recipients = {} /\ s.rails = {"transfer"}
\* typedDataToScopedTransaction: a payment rail, and a budget to count against.
TypedDataAllowed(s, x) ==
  /\ s.mode # "eip7702" /\ "x402-exact" \in s.rails /\ IsToken(s, x)
  /\ x.value = 0 /\ x.data.method = "transfer"

(* ------------------------------------------------------------------- the chain *)
\* A mutant of Caveats: the recipient is left to the device.
Bad_Caveats(s) ==
  [targets |-> s.contracts, methods |-> s.methods, calls |-> s.maxTxCount,
   token |-> s.allowance, valueLte |-> IF s.allowance # None THEN 0 ELSE s.maxValuePerTx,
   total |-> IF s.allowance # None THEN None ELSE s.maxTotalValue,
   period |-> s.period, recipient |-> None]
Caveats(s) ==
  [targets |-> s.contracts, methods |-> s.methods, calls |-> s.maxTxCount,
   token |-> s.allowance, valueLte |-> IF s.allowance # None THEN 0 ELSE s.maxValuePerTx,
   total |-> IF s.allowance # None THEN None ELSE s.maxTotalValue,
   period |-> s.period,
   recipient |-> IF s.recipients = {} THEN None ELSE CHOOSE r \in s.recipients : TRUE]
\* caveatsFromScope refuses what it cannot express.
Expressible(s) ==
  /\ s.mode = "eip7702" /\ "transfer" \in s.rails /\ s.tokenMaxPerTx = None
  /\ s.contracts # {} /\ "owner" \notin s.contracts /\ s.methods # {} /\ s.methods \intersect Forbidden = {}
  /\ Cardinality(s.recipients) <= 1 /\ (s.recipients # {} => s.allowance # None)
  /\ IF s.allowance # None
     THEN /\ s.contracts = {"token"} /\ s.methods = {"transfer"} /\ s.allowance > 0
          /\ s.period # None => s.period.asset = "token"
     ELSE /\ s.maxValuePerTx # None \/ s.maxTotalValue # None
          /\ s.period # None => s.period.asset = "native"
\* The enforcers, with what the chain has counted for this delegation.
ChainAccepts(c, h, x) ==
  LET moved == SumFunction([i \in DOMAIN h |-> h[i].data.amount])
      amount(y) == IF c.period.asset = "token" THEN y.data.amount ELSE y.value
      used == SumFunction([i \in {j \in DOMAIN h : h[j].at = x.at} |-> amount(h[i])])
  IN /\ x.target \in c.targets /\ x.data.method \in c.methods
     /\ Within(x.value, c.valueLte) /\ Within(ValueSpent(h) + x.value, c.total)
     /\ Within(Len(h) + 1, c.calls)
     /\ c.token # None => x.data.method = "transfer" /\ moved + x.data.amount <= c.token
     /\ c.recipient # None => x.data.to = c.recipient
     /\ c.period # None => used + amount(x) <= c.period.amount

(* ---------------------------------------------------------------------- steps *)
ScopeInit ==
  /\ scope \in {IF ScopeValid(s) THEN s ELSE None : s \in Scopes}
  /\ caveats = None /\ scopeClock = 0 /\ ran = <<>>
\* prepareDelegation, signed by the owner, and attachDelegation.
Delegate ==
  /\ scope # None /\ Expressible(scope) /\ caveats' = Caveats(scope)
  /\ UNCHANGED <<scope, scopeClock, ran>>
Now(x) == [target |-> x.target, value |-> x.value, data |-> x.data, at |-> scopeClock]
\* signWithSessionKey and signTypedDataWithSessionKey.
DeviceSigns ==
  /\ scope # None /\ Len(ran) < MaxRuns
  /\ \E x \in Executions :
       /\ RawDigestAllowed(scope) \/ TypedDataAllowed(scope, x)
       /\ DeviceAccepts(scope, ran, Now(x)) /\ ran' = Append(ran, Now(x))
  /\ UNCHANGED <<scope, caveats, scopeClock>>
\* A redemption the chain executes: signDelegationRedemption signed it, or the
\* key did so elsewhere.
ChainRuns ==
  /\ caveats # None /\ Len(ran) < MaxRuns
  /\ \E x \in Executions : ChainAccepts(caveats, ran, Now(x)) /\ ran' = Append(ran, Now(x))
  /\ UNCHANGED <<scope, caveats, scopeClock>>
ScopeTick ==
  /\ scopeClock < MaxScopeClock /\ scopeClock' = scopeClock + 1 /\ UNCHANGED <<scope, caveats, ran>>
ScopeNext == Delegate \/ DeviceSigns \/ ChainRuns \/ ScopeTick

ScopeTypeOK ==
  /\ scope # None => ScopeValid(scope)
  /\ caveats # None => scope # None
  /\ \A i \in DOMAIN ran : ran[i].at \in 0..scopeClock

\* "Building the delegation without it would hand the delegate more authority on
\* chain": what the caveats let the chain execute, the device would have let the
\* key sign, with the same usage behind it (caveatsFromScope).
ChainWithinScope ==
  \A i \in DOMAIN ran : DeviceAccepts(scope, SubSeq(ran, 1, i - 1), ran[i])
\* Whoever enforced it: tokens, native value, payees and periods of everything
\* that was signed or executed, added up, stay in the scope.
SpentWithinScope ==
  ran # <<>> =>
    /\ Within(TokenSpent(scope, ran), scope.allowance) /\ Within(ValueSpent(ran), scope.maxTotalValue)
    /\ Within(Len(ran), scope.maxTxCount)
    /\ scope.period # None => \A t \in 0..scopeClock : PeriodUsed(scope, ran, t) <= scope.period.amount
    /\ scope.recipients # {} /\ scope.allowance # None =>
         \A i \in TokenSpends(scope, ran) : ran[i].data.to \in scope.recipients
==================================================================================
