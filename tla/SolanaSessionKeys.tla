---------------------------- MODULE SolanaSessionKeys ----------------------------
(* SolanaSessionKeyManager (core/src/session-keys/solana-session-keys.ts): a   *)
(* key spends an owner's tokens as the SPL delegate the owner approved, within *)
(* a scope the manager keeps, in storage that several tabs share and that may  *)
(* refuse a write. Owner, mint and cluster are one; a blockhash is left out.   *)
EXTENDS ConnectLib, Functions

CONSTANTS SolSessionKeyIds,     \* session keys for the owner and the mint
          SolTabs,     \* signPayment calls running at a time
          SolBudget, SolMaxPerPayment, SolMaxCount,
          SolPeriod,   \* amount allowed in a period of one time unit
          SolExpiry, MaxSolClock

VARIABLES solClock,
          solKeys,     \* the stored records, or None
          solTabs,     \* running calls
          solSigned,   \* history: payments whose signature was returned
          solInFlight, \* approvals, revocations and payments not landed
          delegate     \* on chain: the token account's delegate and what is left
solKeyVars == <<solClock, solKeys, solTabs, solSigned, solInFlight, delegate>>

SolRecord ==
  [status : {"pending", "active", "revoked"}, spent : Nat, useCount : Nat,
   periodIndex : Nat \union {None}, periodSpent : Nat]
ASSUME SolAssumption ==
  /\ {SolBudget, SolMaxPerPayment, SolMaxCount, SolPeriod, SolExpiry, MaxSolClock} \subseteq Nat
  /\ None \notin Nat \union SolRecord

SolAmounts == 1..SolBudget
FreshKey == [status |-> "pending", spent |-> 0, useCount |-> 0, periodIndex |-> None, periodSpent |-> 0]

SolKeyInit ==
  /\ solClock = 0 /\ solKeys = [k \in SolSessionKeyIds |-> None]
  /\ solTabs = [c \in SolTabs |-> Idle] /\ solSigned = <<>> /\ solInFlight = {} /\ delegate = None

Stored(k) == solKeys[k] # None
Update(k, r) == solKeys' = [solKeys EXCEPT ![k] = r]

(* ---------------------------------------------------------------- lifecycle *)
CreateSolKey(k) ==
  /\ ~Stored(k) /\ solClock < SolExpiry /\ Update(k, FreshKey)
  /\ UNCHANGED <<solClock, solTabs, solSigned, solInFlight, delegate>>
\* prepareApproval and the owner's signature, then attachApproval: this approval
\* replaces any other delegate of the account, so the others are retired.
AttachApproval(k) ==
  /\ Stored(k) /\ solKeys[k].status = "pending"
  /\ solKeys' = [j \in SolSessionKeyIds |->
       CASE j = k -> [solKeys[k] EXCEPT !.status = "active"]
         [] j # k /\ Stored(j) /\ solKeys[j].status \in {"active", "pending"} ->
              [solKeys[j] EXCEPT !.status = "revoked"]
         [] OTHER -> solKeys[j]]
  /\ solInFlight' = solInFlight \union {[kind |-> "approve", key |-> k]}
  /\ UNCHANGED <<solClock, solTabs, solSigned, delegate>>
\* revoke(), and prepareRevocation() with the owner's signature.
RevokeSolKey(k) ==
  /\ Stored(k) /\ Update(k, [solKeys[k] EXCEPT !.status = "revoked"])
  /\ solInFlight' \in {solInFlight, solInFlight \union {[kind |-> "revoke", key |-> k]}}
  /\ UNCHANGED <<solClock, solTabs, solSigned, delegate>>

(* ------------------------------------------------------------------- signing *)
\* periodState(): what the current period has spent. A usage from a later period
\* is malformed.
PeriodMalformed(r) == r.periodIndex # None /\ r.periodIndex > solClock
PeriodSpent(r) == IF r.periodIndex = solClock THEN r.periodSpent ELSE 0
\* check(): every limit of the scope.
SolCheck(r, n) ==
  /\ r.status = "active" /\ solClock < SolExpiry
  /\ n <= SolMaxPerPayment /\ r.spent + n <= SolBudget
  /\ ~PeriodMalformed(r) /\ PeriodSpent(r) + n <= SolPeriod
  /\ r.useCount < SolMaxCount
Accounted(r, n) ==
  [r EXCEPT !.spent = @ + n, !.useCount = @ + 1,
            !.periodIndex = solClock, !.periodSpent = PeriodSpent(r) + n]

\* signPayment(): a first check, then the cluster and a blockhash are fetched.
SignPaymentBegins(c) ==
  /\ solTabs[c] = Idle
  /\ \E k \in SolSessionKeyIds, n \in SolAmounts :
       /\ Stored(k) /\ SolCheck(solKeys[k], n)
       /\ solTabs' = [solTabs EXCEPT ![c] = [pc |-> "fetching", key |-> k, amount |-> n]]
  /\ UNCHANGED <<solClock, solKeys, solSigned, solInFlight, delegate>>
\* A mutant of Rechecked: the check before the awaits is enough.
Bad_Rechecked(r, n) == TRUE
Rechecked(r, n) == SolCheck(r, n)
\* Under the lock: checked again, signed, recorded, and only then returned. A
\* save that fails withholds the signature.
SignPaymentEnds(c) ==
  /\ solTabs[c] # Idle /\ solTabs' = [solTabs EXCEPT ![c] = Idle]
  /\ LET k == solTabs[c].key
         n == solTabs[c].amount
     IN \/ /\ Rechecked(solKeys[k], n)
           /\ Update(k, Accounted(solKeys[k], n))
           /\ solSigned' = Append(solSigned, [key |-> k, amount |-> n, at |-> solClock])
           /\ solInFlight' = solInFlight \union {[kind |-> "pay", key |-> k, n |-> Len(solSigned) + 1]}
        \/ UNCHANGED <<solKeys, solSigned, solInFlight>>
  /\ UNCHANGED <<solClock, delegate>>

(* ------------------------------------------------------------- environment *)
\* The chain runs transactions in any order: an approval sets the delegate, a
\* revocation clears it, a payment needs its key to be the delegate.
SolLands ==
  /\ \E x \in solInFlight :
       /\ solInFlight' = solInFlight \ {x}
       /\ CASE x.kind = "approve" -> delegate' = [key |-> x.key, left |-> SolBudget]
            [] x.kind = "revoke" -> delegate' = None
            [] OTHER -> LET n == solSigned[x.n].amount
                        IN /\ delegate # None /\ delegate.key = x.key /\ n <= delegate.left
                           /\ delegate' = [delegate EXCEPT !.left = @ - n]
  /\ UNCHANGED <<solClock, solKeys, solTabs, solSigned>>
SolTick ==
  /\ solClock < MaxSolClock /\ solClock' = solClock + 1
  /\ UNCHANGED <<solKeys, solTabs, solSigned, solInFlight, delegate>>

SolKeyNext ==
  \/ SolTick \/ SolLands
  \/ \E k \in SolSessionKeyIds : CreateSolKey(k) \/ AttachApproval(k) \/ RevokeSolKey(k)
  \/ \E c \in SolTabs : SignPaymentBegins(c) \/ SignPaymentEnds(c)

SolKeyTypeOK ==
  /\ \A k \in SolSessionKeyIds : Stored(k) => solKeys[k].spent \in Nat /\ solKeys[k].useCount \in Nat
  /\ delegate = None \/ (delegate.key \in SolSessionKeyIds /\ delegate.left \in 0..SolBudget)

SignedSum(S) == SumFunction([i \in S |-> solSigned[i].amount])

\* Whatever two tabs sign at a time: the signatures a key has given out stay
\* within its budget, its payment count and, in each period, its period amount,
\* and so within what the owner's approval lets it spend on chain.
SignedWithinScope ==
  \A k \in SolSessionKeyIds :
    LET mine == {i \in DOMAIN solSigned : solSigned[i].key = k}
    IN /\ SignedSum(mine) <= SolBudget /\ Cardinality(mine) <= SolMaxCount
       /\ \A t \in 0..solClock : SignedSum({i \in mine : solSigned[i].at = t}) <= SolPeriod
==================================================================================
