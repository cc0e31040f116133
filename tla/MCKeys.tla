------------------------------- MODULE MCKeys -------------------------------
(* The suite of the delegated keys of core: EVM session keys, their scopes   *)
(* on the device and on the chain, spend authorizations, Solana session keys *)
(* and the accounts behind an EntryPoint. A behaviour is one of its subject; *)
(* the variables of the other parts keep one state.                          *)
EXTENDS SessionKeys, Authorizations, SolanaSessionKeys, UserOperations, BatchEncoding, TLC

CONSTANTS c1, c2, c3, \* calls that sign with an EVM session key
          k1,         \* that key
          o1, o2,     \* calls of the Solana manager
          s1, s2,     \* Solana session keys, user operations
          t1, t2      \* targets of a batch

VARIABLE subject
suiteVars == <<subject, vars, scopeVars, authVars, solKeyVars, opVars, abiVars>>

\* A key may sign twice, for two units in all and one in each period of one
\* second; it expires one second before the clock stops.
MCScope ==
  [k \in Keys |-> [maxTxCount |-> 2, maxTotalValue |-> 2, periodLimit |-> 1, expiry |-> 2]]

\* Scopes with each limit absent and present: a contract list that holds the token,
\* another contract, the owner or nothing, and methods with and without a transfer.
MCScopes ==
  [mode : {"offchain", "eip7702"}, rails : {{"transfer"}, {"transfer", "x402-exact"}},
   contracts : {{}, {"token"}, {"token", "dapp"}, {"owner"}},
   methods : {{}, {"transfer"}, {"call", "transfer"}},
   recipients : {{}, {"payee"}}, nativeTransfer : BOOLEAN, allowance : {None, 2},
   tokenMaxPerTx : {None, 1}, maxValuePerTx : {None, 0}, maxTotalValue : {None, 1},
   maxTxCount : {None, 1},
   period : {None, [asset |-> "native", amount |-> 1], [asset |-> "token", amount |-> 1]}]

\* Grants of the token with every rail, and of the native asset, alone or together.
Grants(asset, payees, per, total, counts, periods, rails) ==
  [asset : {asset}, recipients : payees, maxPer : per, maxTotal : total,
   maxCount : counts, period : periods, rails : rails]
TokenGrants ==
  Grants("token", {{"payee"}, {"payee", "stranger"}}, 1..2, 2..3, {None, 1}, {None, 1, 2},
         {{"transfer"}, {"x402-exact"}, {"transfer", "x402-exact"}, {"mpp-session"}})
NativeGrants == Grants("native", {{"payee"}}, {1}, {2}, {None}, {None, 1}, {{"transfer"}, {"x402-exact"}})
MCAuthorized ==
  {{g} : g \in TokenGrants \union NativeGrants}
  \union {{g, n} : g \in {h \in TokenGrants : h.maxPer = 1}, n \in NativeGrants}

Symmetry == Permutations(Callers) \union Permutations({s1, s2})

SuiteInit ==
  /\ subject \in {"keys", "scopes", "authorizations", "solana", "operations", "batches"}
  /\ Init /\ SolKeyInit
  /\ IF subject = "scopes" THEN ScopeInit
     ELSE scope = None /\ caveats = None /\ scopeClock = 0 /\ ran = <<>>
  /\ IF subject = "authorizations" THEN AuthInit
     ELSE grants = {} /\ target = "mpp" /\ payClockOf = 0 /\ paid = <<>>
  /\ IF subject = "operations" THEN OpInit
     ELSE OpInit /\ aaVersion = "0.7" /\ ~account.deployed
  /\ IF subject = "batches" THEN AbiInit ELSE abiVersion = "0.7" /\ abiCalls = <<>>

\* Only the calls that sign with EVM keys must never be stuck.
SuiteNext ==
  /\ UNCHANGED subject
  /\ \/ subject # "keys" /\ UNCHANGED suiteVars
     \/ subject = "keys" /\ Next
        /\ UNCHANGED <<scopeVars, authVars, solKeyVars, opVars, abiVars>>
     \/ subject = "scopes" /\ ScopeNext
        /\ UNCHANGED <<vars, authVars, solKeyVars, opVars, abiVars>>
     \/ subject = "authorizations" /\ AuthNext
        /\ UNCHANGED <<vars, scopeVars, solKeyVars, opVars, abiVars>>
     \/ subject = "solana" /\ SolKeyNext
        /\ UNCHANGED <<vars, scopeVars, authVars, opVars, abiVars>>
     \/ subject = "operations" /\ OpNext
        /\ UNCHANGED <<vars, scopeVars, authVars, solKeyVars, abiVars>>
     \/ subject = "batches" /\ AbiNext
        /\ UNCHANGED <<vars, scopeVars, authVars, solKeyVars, opVars>>
SuiteSpec == SuiteInit /\ [][SuiteNext]_suiteVars

\* The types of the variables of the part a behaviour is of.
SuiteTypeOK ==
  CASE subject = "keys" -> TypeOK
    [] subject = "scopes" -> ScopeTypeOK
    [] subject = "authorizations" -> AuthTypeOK
    [] subject = "solana" -> SolKeyTypeOK
    [] subject = "operations" -> OpTypeOK
    [] subject = "batches" -> AbiTypeOK

\* What an EVM session key signs on the device, what the chain executes for it, and
\* what two tabs sign with a Solana session key: each stays within what the owner
\* granted (checkScopeAgainstTx, caveatsFromScope, the signPayment of Solana keys).
ScopesEnforced ==
  /\ subject = "scopes" => ChainWithinScope /\ SpentWithinScope
  /\ SignedWithinScope

\* What is reported of a user operation is what became of it, and none that a
\* paymaster sponsors has more gas than the policy allows (user-operation.ts).
OperationsKept == ReportedWasExecuted /\ WithinGasPolicy

\* For every authorization and a payment of either asset on any rail, what the
\* preview says of it is what the compiled enforcer does with it; but an EVM key
\* enforced on the device signs no transfer and nothing native, and a Solana key
\* asks for no rail (evaluateSpend and the compilers).
PreviewsAgree == subject = "authorizations" => VerdictsAgree
=============================================================================
