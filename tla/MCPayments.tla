----------------------------- MODULE MCPayments -----------------------------
(* The suite of the payment packages: an MPP metered session, x402, MPP      *)
(* charges and the checks of Solana transfers. They share no state, so a     *)
(* behaviour is one of its subject; the variables of the others keep a state *)
(* they can start in.                                                        *)
EXTENDS MppSession, X402, MppCharges, SolanaTransfers, TLC

CONSTANTS c1, c2, x1, x2, \* calls of the session, requests a server handles
          o1, o2, e1,     \* what is paid on or for: channels, charges
          payer, payee, sponsor

VARIABLE subject
suiteVars == <<subject, mppVars, payVars, chargeVars, splVars>>

\* Rails in the order a 402 offers them: one the client has no scheme for, EVM, and
\* Solana with a memo that is the server's or fresh for each payment.
Offer(rail, fixed) == [rail |-> rail, fixedMemo |-> fixed]
MCChallenges ==
  {<<Offer("other", FALSE), Offer("evm", FALSE)>>, <<Offer("svm", FALSE)>>,
   <<Offer("svm", TRUE)>>, <<Offer("other", FALSE)>>}

\* The parts share the model values, so that one symmetry serves them all.
Symmetry == Permutations({c1, c2}) \cup Permutations({o1, o2})

SuiteInit ==
  /\ subject \in {"session", "x402", "charges", "transfers"}
  /\ MppInit /\ PayInit /\ ChargeInit /\ verdicts = {}
  /\ splTx \in IF subject = "transfers" THEN Transactions ELSE {CHOOSE tx \in Transactions : TRUE}

\* Only the session must never be stuck; the others stop at their bounds.
SuiteNext ==
  \/ subject = "session" /\ MppNext /\ UNCHANGED <<subject, payVars, chargeVars, splVars>>
  \/ subject = "x402" /\ PayNext /\ UNCHANGED <<subject, mppVars, chargeVars, splVars>>
  \/ subject = "charges" /\ ChargeNext /\ UNCHANGED <<subject, mppVars, payVars, splVars>>
  \/ subject = "transfers" /\ SplNext /\ UNCHANGED <<subject, mppVars, payVars, chargeVars>>
  \/ subject # "session" /\ UNCHANGED suiteVars
SuiteSpec == SuiteInit /\ [][SuiteNext]_suiteVars

\* The types of the four modules' variables.
TypeOK ==
  CASE subject = "session" -> MppTypeOK
    [] subject = "x402" -> PayTypeOK
    [] subject = "charges" -> ChargeTypeOK
    [] subject = "transfers" -> SplTypeOK

\* One payment is settled once and serves one request, and so does the proof of one
\* charge, whichever rail it is on and however often a client, a retry or a second
\* request presents it (settlement of x402, verification of an MPP charge).
PaidOnce == PaymentSettledOnce /\ ChargeServedOnce
=============================================================================
