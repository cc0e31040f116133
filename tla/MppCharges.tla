------------------------------- MODULE MppCharges -------------------------------
(* MPP charges (payments-mpp): a challenge bound to its parameters, a client   *)
(* that answers one with a credential, and the server that verifies it, uses   *)
(* it up in the replay store, settles and answers with a receipt. A challenge  *)
(* is its id; challenges may carry one externalId, which then is the memo of   *)
(* the Solana transfers that pay them.                                         *)
EXTENDS ConnectLib

CONSTANTS EvmCharges, SolanaCharges, \* challenge ids, by method
          SharedExternalId,          \* Solana charges sold under one externalId
          ChargeRequests,            \* requests the server handles at a time
          ChargeLife,                \* how long a challenge lasts
          MessageLife,               \* how long a blockhash lasts
          Retention,                 \* SIGNATURE_RETENTION_MS
          MaxChargeClock             \* bound: time units
ASSUME RetentionAssumption == Retention \in Nat /\ MessageLife \in 0..Retention /\ ChargeLife \in Nat
ASSUME ChargeClockAssumption == MaxChargeClock \in Nat
ASSUME ChargesAssumption == None \notin EvmCharges

VARIABLES chargeClock, issued, \* issued: when each challenge was sent, or None
          credentials,         \* what clients have signed
          used,                \* MppReplayStore
          chargeTasks,
          flying, executed,    \* transfers sent and transfers made
          receipts             \* history: the settled credentials, in order
chargeVars == <<chargeClock, issued, credentials, used, chargeTasks, flying, executed, receipts>>

Charges == EvmCharges \union SolanaCharges
ChargeExpires(c) == issued[c] + ChargeLife
Over(c) == ChargeExpires(c) <= chargeClock

ChargeInit ==
  /\ chargeClock = 0 /\ issued = [c \in Charges |-> None] /\ credentials = {} /\ used = {}
  /\ chargeTasks = [r \in ChargeRequests |-> Idle] /\ flying = {} /\ executed = {} /\ receipts = <<>>

\* What a credential's signature commits to: the nonce that challengeNonce() takes
\* from the challenge, or the memo (the externalId, if any) and the blockhash.
EvmProof(c) == [memo |-> c, born |-> issued[c]]
SolanaProof(c) == [memo |-> IF c \in SharedExternalId THEN None ELSE c, born |-> chargeClock]
Proof(c) == IF c \in EvmCharges THEN EvmProof(c) ELSE SolanaProof(c)
ProofDies(c, p) == IF c \in EvmCharges THEN Over(c) ELSE p.born + MessageLife <= chargeClock

\* createChallenge(): the id is a function of the parameters, and binds them.
IssueChallenge(c) ==
  /\ issued[c] = None /\ issued' = [issued EXCEPT ![c] = chargeClock]
  /\ UNCHANGED <<chargeClock, credentials, used, chargeTasks, flying, executed, receipts>>
\* selectCharge() skips a challenge that has expired.
Selectable(c) == issued[c] # None /\ ~Over(c)
\* createMppFetch: one credential for the challenge that was selected.
PayCharge(c) ==
  /\ Selectable(c) /\ \A d \in credentials : d.ch # c
  /\ credentials' = credentials \union {[ch |-> c, proof |-> Proof(c)]}
  /\ UNCHANGED <<chargeClock, issued, used, chargeTasks, flying, executed, receipts>>

(* -------------------------------------------------------------- replay store *)
InUse(k) == \E u \in used : u.key = k /\ u.until > chargeClock
Consumes(k, until) ==
  used' = {u \in used : u.until > chargeClock} \union {[key |-> k, until |-> until]}

(* ------------------------------------------------------------------ server *)
ChargeAt(r, pc) == chargeTasks[r].pc = pc
Moves(r, t) == chargeTasks' = [chargeTasks EXCEPT ![r] = t]
Goes(r, pc) == Moves(r, [chargeTasks[r] EXCEPT !.pc = pc])
Cred(r) == chargeTasks[r].cred

\* verifyEvmAuthorization(): a signature has one form, and the token says that
\* the authorization is unused.
EvmChargeVerifies(d, sig) == sig = 1 /\ d.proof \notin executed
\* verifyCredential(): bound, of this resource, not expired and not used.
VerifyCredential(r) ==
  /\ ChargeAt(r, "idle")
  /\ \E d \in credentials, sig \in 1..2 :
       /\ ~Over(d.ch) /\ ~InUse(<<"challenge", d.ch>>)
       /\ d.ch \in EvmCharges => EvmChargeVerifies(d, sig)
       /\ Moves(r, [pc |-> "verified", cred |-> d, sig |-> sig])
  /\ UNCHANGED <<chargeClock, issued, credentials, used, flying, executed, receipts>>
\* settle(): the challenge is consumed before anything is sent.
ConsumeChallenge(r) ==
  /\ ChargeAt(r, "verified")
  /\ IF Over(Cred(r).ch) \/ InUse(<<"challenge", Cred(r).ch>>)
     THEN Moves(r, Idle) /\ UNCHANGED used
     ELSE Goes(r, "consumed") /\ Consumes(<<"challenge", Cred(r).ch>>, ChargeExpires(Cred(r).ch))
  /\ UNCHANGED <<chargeClock, issued, credentials, flying, executed, receipts>>
\* A mutant of ProofKey: the payer's signature is the replay token.
Bad_ProofKey(r) == <<"proof", Cred(r).proof, chargeTasks[r].sig>>
ProofKey(r) == <<"proof", Cred(r).proof>>
ProofRetained(c) == ChargeExpires(c) + (IF c \in EvmCharges THEN 0 ELSE Retention)
ConsumeProof(r) ==
  /\ ChargeAt(r, "consumed")
  /\ IF InUse(ProofKey(r)) THEN Moves(r, Idle) /\ UNCHANGED used
     ELSE /\ Goes(r, IF Cred(r).ch \in EvmCharges THEN "sending" ELSE "simulating")
          /\ Consumes(ProofKey(r), ProofRetained(Cred(r).ch))
  /\ UNCHANGED <<chargeClock, issued, credentials, flying, executed, receipts>>
\* settleSolanaTransaction: a usable mint, the fee payer's signature on the
\* same message, then a simulation.
SimulateCharge(r) ==
  /\ ChargeAt(r, "simulating")
  /\ IF Cred(r).proof \in executed \/ ProofDies(Cred(r).ch, Cred(r).proof)
     THEN Moves(r, Idle) ELSE Goes(r, "sending")
  /\ UNCHANGED <<chargeClock, issued, credentials, used, flying, executed, receipts>>
SendCharge(r) ==
  /\ ChargeAt(r, "sending") /\ Goes(r, "confirming")
  /\ flying' \in {flying, flying \union {[of |-> Cred(r), by |-> r]}}
  /\ UNCHANGED <<chargeClock, issued, credentials, used, executed, receipts>>
\* submit and confirmTransaction answer once the transfer has executed.
ChargeSettled(r) ==
  /\ ChargeAt(r, "confirming") /\ Cred(r).proof \in executed
  /\ Moves(r, Idle) /\ receipts' = Append(receipts, Cred(r))
  /\ UNCHANGED <<chargeClock, issued, credentials, used, flying, executed>>
\* Any failure leaves the challenge used.
ChargeFails(r) ==
  /\ ~ChargeAt(r, "idle") /\ Moves(r, Idle)
  /\ UNCHANGED <<chargeClock, issued, credentials, used, flying, executed, receipts>>

(* ------------------------------------------------------------- environment *)
ChargeLands ==
  /\ \E f \in flying :
       /\ f.of.proof \notin executed /\ ~ProofDies(f.of.ch, f.of.proof)
       /\ executed' = executed \union {f.of.proof} /\ flying' = flying \ {f}
  /\ UNCHANGED <<chargeClock, issued, credentials, used, chargeTasks, receipts>>
ChargeTick ==
  /\ chargeClock < MaxChargeClock /\ chargeClock' = chargeClock + 1
  /\ UNCHANGED <<issued, credentials, used, chargeTasks, flying, executed, receipts>>

ChargeNext ==
  \/ ChargeTick \/ ChargeLands
  \/ \E c \in Charges : IssueChallenge(c) \/ PayCharge(c)
  \/ \E r \in ChargeRequests :
       \/ VerifyCredential(r) \/ ConsumeChallenge(r) \/ ConsumeProof(r) \/ SimulateCharge(r)
       \/ SendCharge(r) \/ ChargeSettled(r) \/ ChargeFails(r)

ChargeTypeOK ==
  /\ chargeClock \in 0..MaxChargeClock
  /\ \A c \in Charges : issued[c] \in 0..MaxChargeClock \union {None}
  /\ \A d \in credentials : d.ch \in Charges /\ d.proof.born \in Nat
  /\ \A r \in ChargeRequests : chargeTasks[r] # Idle => Cred(r) \in credentials

\* A challenge is served once, and one transfer serves one challenge: not two
\* sold under the same externalId, not the same message signed twice, not a
\* credential settled by two requests (replay.ts, settle in server/verify.ts).
ChargeServedOnce ==
  /\ \A i \in DOMAIN receipts : receipts[i].proof \in executed
  /\ \A i, j \in DOMAIN receipts :
       receipts[i].ch = receipts[j].ch \/ receipts[i].proof = receipts[j].proof => i = j
=================================================================================
