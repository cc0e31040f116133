------------------------------- MODULE Authorizations -------------------------------
(* Spend authorizations (core/src/authorization): one declaration of what a delegate *)
(* may spend, a pure evaluator for previews (evaluateSpend), compilers to the scopes  *)
(* of the three enforcers, and the listing that reads the scopes back. The enforcers  *)
(* are those of SessionScopes (device and chain), a Solana session key and a voucher  *)
(* key, here with the usage their payments leave. One chain, one token, one delegate. *)
EXTENDS SessionScopes

CONSTANTS Authorized,   \* authorizations: sets of grants that validateAuthorization accepts
          MaxPayments

VARIABLES grants, target, \* the authorization; the enforcer it was compiled for
          payClockOf,     \* the clock; a period is one unit of it
          paid            \* payments signed: asset, to, amount, rail, at
authVars == <<grants, target, payClockOf, paid>>

EnforcerTargets == {"offchain", "eip7702", "solana", "mpp"}
Rails == {"transfer", "mpp-charge", "x402-exact", "mpp-session"}
Grant ==
  [asset : {"token", "native"}, recipients : SUBSET Recipients, maxPer : Nat, maxTotal : Nat,
   maxCount : Limit, period : Limit, rails : SUBSET Rails]
ASSUME AuthorizedAssumption == \A a \in Authorized : a \subseteq Grant /\ IsFiniteSet(a)

(* -------------------------------------------------- validation and the evaluator *)
GrantValid(g) ==
  /\ g.recipients # {} /\ g.rails # {} /\ g.maxPer \in 1..g.maxTotal
  /\ g.period # None => g.period \in 1..g.maxTotal /\ "mpp-session" \notin g.rails
\* A request matches at most one grant.
GrantsOverlap(f, g) == f.asset = g.asset /\ f.recipients \intersect g.recipients # {} /\ f.rails \intersect g.rails # {}
AuthorizationValid(a) == a # {} /\ (\A g \in a : GrantValid(g)) /\ \A f \in a, g \in a : f = g \/ ~GrantsOverlap(f, g)

\* The enforcer's usage record of an asset, handed to the evaluator.
AmountSpent(h, asset) == SumFunction([i \in {j \in DOMAIN h : h[j].asset = asset} |-> h[i].amount])
SpentAt(h, asset, t) == SumFunction([i \in {j \in DOMAIN h : h[j].asset = asset /\ h[j].at = t} |-> h[i].amount])
Covers(g, h, p) ==
  /\ g.asset = p.asset /\ p.rail \in g.rails /\ p.to \in g.recipients /\ p.amount <= g.maxPer
  /\ AmountSpent(h, p.asset) + p.amount <= g.maxTotal
  /\ g.maxCount # None => Len(h) < g.maxCount
\* A mutant of Evaluate: the period is forgotten.
Bad_Evaluate(a, h, p) == \E g \in a : Covers(g, h, p)
Evaluate(a, h, p) ==
  \E g \in a : Covers(g, h, p) /\ (g.period # None => SpentAt(h, p.asset, p.at) + p.amount <= g.period)

(* ---------------------------------------------------------------------- compilers *)
Only(asset, a) == {g \in a : g.asset = asset}
One(S) == CHOOSE x \in S : TRUE
Least(m, n) == IF m < n THEN m ELSE n
EvmExpressible(a, mode) ==
  /\ \A g \in a : g.rails \subseteq {"transfer", "x402-exact"}
  /\ \A f \in a, g \in a : f.recipients = g.recipients /\ f.maxCount = g.maxCount /\ (f.asset = g.asset => f = g)
  /\ mode = "eip7702" =>
       /\ Only("native", a) = {}
       /\ LET g == One(a) IN /\ Cardinality(g.recipients) = 1 /\ g.rails = {"transfer"}
                             /\ g.maxPer >= Least(g.maxTotal, Given(g.period, g.maxTotal))
\* compileEvmSessionScope(): the scope names the rails of the token grant.
EvmScope(a, mode) ==
  LET token == Only("token", a)  native == Only("native", a)
      g == One(token)  n == One(native)
      period(x, asset) == IF x.period = None THEN None ELSE [asset |-> asset, amount |-> x.period]
  IN [contracts |-> IF token = {} THEN {} ELSE {"token"}, methods |-> IF token = {} THEN {} ELSE {"transfer"},
      recipients |-> One(a).recipients, maxTxCount |-> One(a).maxCount, mode |-> mode,
      rails |-> IF token = {} THEN n.rails ELSE g.rails, nativeTransfer |-> native # {},
      maxValuePerTx |-> IF native = {} THEN 0 ELSE n.maxPer, maxTotalValue |-> IF native = {} THEN 0 ELSE n.maxTotal,
      allowance |-> IF token = {} THEN None ELSE g.maxTotal,
      tokenMaxPerTx |-> IF token # {} /\ mode = "offchain" /\ g.maxPer < g.maxTotal THEN g.maxPer ELSE None,
      period |-> IF token = {} THEN period(n, "native") ELSE period(g, "token")]
\* compileSolanaSessionScope() and compileMppSession(): one token grant.
SimpleExpressible(a, to) ==
  /\ Cardinality(a) = 1 /\ One(a).asset = "token"
  /\ LET g == One(a)
     IN IF to = "solana" THEN g.rails \subseteq {"transfer", "mpp-charge", "x402-exact"}
        ELSE g.rails = {"mpp-session"} /\ Cardinality(g.recipients) = 1 /\ g.maxCount = None
SimpleScope(a) ==
  LET g == One(a)
  IN [budget |-> g.maxTotal, maxPerPayment |-> g.maxPer, recipients |-> g.recipients, maxTxCount |-> g.maxCount, period |-> g.period]
Compiles(a, to) ==
  IF to \in {"solana", "mpp"} THEN SimpleExpressible(a, to) ELSE EvmExpressible(a, to)

(* ----------------------------------------------------- the enforcers' verdicts *)
AsExecution(p) ==
  IF p.asset = "native"
  THEN [target |-> p.to, value |-> p.amount, data |-> Plain("none"), at |-> p.at]
  ELSE [target |-> "token", value |-> 0, data |-> [method |-> "transfer", to |-> p.to, amount |-> p.amount], at |-> p.at]
\* The device's check, and with it a redemption under the caveats, typed data of a
\* payment rail, or the digest of a transaction, of either asset.
EvmSigns(s, h, p) ==
  LET x == AsExecution(p)  before == [i \in DOMAIN h |-> AsExecution(h[i])]
  IN /\ ScopeValid(s) /\ DeviceAccepts(s, before, x)
     /\ \/ p.rail = "transfer" /\ Expressible(s) /\ ChainAccepts(Caveats(s), before, x)
        \/ p.rail = "x402-exact" /\ TypedDataAllowed(s, x)
        \/ p.rail = "transfer" /\ RawDigestAllowed(s)
\* check() of a Solana key; the policy of a voucher key, which signs for one payee.
\* Neither has rails: these are what they can be asked to sign.
RailsOf(to) == IF to = "solana" THEN {"transfer", "mpp-charge", "x402-exact"} ELSE {"mpp-session"}
SimpleSigns(s, h, p) ==
  /\ p.asset = "token" /\ p.rail \in RailsOf(target)
  /\ p.amount <= s.maxPerPayment /\ AmountSpent(h, "token") + p.amount <= s.budget /\ p.to \in s.recipients
  /\ s.period # None => SpentAt(h, "token", p.at) + p.amount <= s.period
  /\ s.maxTxCount # None => Len(h) < s.maxTxCount
Signs(p) ==
  IF target \in {"solana", "mpp"} THEN SimpleSigns(SimpleScope(grants), paid, p)
  ELSE EvmSigns(EvmScope(grants, target), paid, p)

AuthInit ==
  /\ grants \in {a \in Authorized : AuthorizationValid(a)} /\ target \in EnforcerTargets /\ Compiles(grants, target)
  /\ payClockOf = 0 /\ paid = <<>>
Requests == {[asset |-> asset, to |-> r, amount |-> n, rail |-> rail, at |-> payClockOf] :
               asset \in {"token", "native"}, r \in Recipients, n \in 1..2, rail \in Rails}
AuthPays ==
  /\ Len(paid) < MaxPayments /\ UNCHANGED <<grants, target, payClockOf>>
  /\ \E p \in Requests : Signs(p) /\ paid' = Append(paid, p)
AuthTick ==
  /\ payClockOf < MaxScopeClock /\ payClockOf' = payClockOf + 1 /\ UNCHANGED <<grants, target, paid>>
AuthNext == AuthPays \/ AuthTick

(* ------------------------------------------------------------------------ listing *)
\* decompileEvm, decompileSolana and decompileMppVoucher: the token grant of a
\* scope as listAuthorizations() shows it.
Listed ==
  IF target \in {"solana", "mpp"}
  THEN LET s == SimpleScope(grants)
       IN {[asset |-> "token", recipients |-> s.recipients, maxPer |-> s.maxPerPayment, maxTotal |-> s.budget,
            maxCount |-> s.maxTxCount, period |-> None, rails |-> RailsOf(target)]}
  ELSE LET s == EvmScope(grants, target)
       IN IF s.allowance = None THEN {}
          ELSE {[asset |-> "token", recipients |-> s.recipients, maxPer |-> Given(s.tokenMaxPerTx, s.allowance),
                 maxTotal |-> s.allowance, maxCount |-> s.maxTxCount, period |-> None, rails |-> s.rails]}

(* --------------------------------------------------------------------- properties *)
AuthTypeOK ==
  /\ AuthorizationValid(grants) /\ target \in EnforcerTargets /\ payClockOf \in 0..MaxScopeClock
  /\ \A i \in DOMAIN paid : paid[i].asset = "token" /\ paid[i].rail \in Rails /\ paid[i].at <= payClockOf

\* A payment an EVM key that is enforced on the device has no way to sign: it signs
\* typed data of a token on a payment rail, and a digest for anything else, which it
\* refuses as every compiled scope names its recipients
\* (refuseRawDigestForRecipientScope).
NoWayToSign(p) == target = "offchain" /\ (p.asset = "native" \/ p.rail = "transfer")

\* "The evaluator's verdict must equal the compiled enforcer's verdict", after
\* whatever the delegate has already spent (authorization-model.md), for a payment
\* of either asset on any rail; but where the key has no way to sign it refuses
\* whatever the verdict (PreviewIsVerdict), and a Solana key does not tell the
\* rails it pays on apart (RailKept).
VerdictsAgree ==
  \A p \in Requests :
    LET rail == IF target = "solana" /\ p.rail \in RailsOf(target) THEN One(One(grants).rails) ELSE p.rail
    IN Signs(p) <=> Evaluate(grants, paid, [p EXCEPT !.rail = rail]) /\ ~NoWayToSign(p)

\* Not so for a device-enforced key: what the evaluator allows, the enforcer signs.
PreviewIsVerdict == \A p \in Requests : Evaluate(grants, paid, p) => Signs(p)

\* The delegate pays on the rails of a grant only: a compiler "never silently
\* widens" (authorization-model.md).
RailKept == \A i \in DOMAIN paid : Evaluate(grants, SubSeq(paid, 1, i - 1), paid[i])

\* The listing shows no limit looser than the one the key enforces (decompileEvm).
ListedNotLooser == \A p \in Requests : Evaluate(Listed, paid, p) => Signs(p)
=====================================================================================
