---------------------------- MODULE PaymentsProofs ----------------------------
(* Proofs about the suite of the payment packages, for any number of payments,  *)
(* requests, challenges and lifetimes: a payment of x402 is settled once, and   *)
(* so is the proof of an MPP charge. Both rest on a store whose entries last as *)
(* long as what they guard can still be made on the chain.                      *)
EXTENDS MCPayments, MppSessionProofs, SequenceTheorems, TLAPS

Listed(history) == {history[i] : i \in DOMAIN history}

(* ------------------------------------------------------------------ x402 *)
SettlingSteps == {"claimed", "signed", "sending", "confirming"}
SentSteps == {"sending", "confirming"}
PayTaskTypes(pays) ==
  {Idle} \cup [pc : {"verified"}, pay : pays, sig : 1..2]
         \cup [pc : SettlingSteps, pay : pays, sig : 1..2, ttl : Nat]

PayTypes ==
  /\ payClock \in Nat /\ \A p \in signedPays : p.born \in 0..payClock
  /\ \A c \in claims : c.until \in Nat
  /\ payTasks \in [PayRequests -> PayTaskTypes(signedPays)]
  /\ servedFor \in Seq(signedPays) /\ broadcasts \in Seq(signedPays)

Settling(r, p) == payTasks[r].pc \in SettlingSteps /\ payTasks[r].pay = p
Sent(r, p) == payTasks[r].pc \in SentSteps /\ payTasks[r].pay = p

\* A payment that is claimed stays so until it can no longer be made.
Covers(c, p) == c.key = p /\ c.until >= Expiry(p)
Covered(p) == Expired(p) \/ \E c \in claims : Covers(c, p)
CoveredFor(p, r) == Expired(p) \/ \E c \in claims : Covers(c, p) /\ c.holder = r

OneClaim == \A c, d \in LiveClaims : c.key = d.key => c = d
SettlingIsClaimed ==
  \A r \in PayRequests, p \in signedPays : Settling(r, p) => CoveredFor(p, r)
\* An authorization goes from its claim to its broadcast in one step.
ClaimedIsSvm ==
  \A r \in PayRequests : payTasks[r].pc \in {"claimed", "signed"} => payTasks[r].pay.rail # "evm"
OneSender ==
  \A r, s \in PayRequests, p \in signedPays : Sent(r, p) /\ Sent(s, p) => r = s
SentIsUnserved ==
  \A r \in PayRequests, p \in signedPays : Sent(r, p) => p \notin Listed(servedFor)
\* The token's word that an authorization is unused may be old.
VerifiedIsCovered ==
  \A r \in PayRequests :
    payTasks[r].pc = "verified" /\ payTasks[r].pay.rail = "evm" /\ payTasks[r].pay \in Listed(servedFor) =>
      Covered(payTasks[r].pay)
ServedOnce == Once(servedFor) /\ \A p \in Listed(servedFor) : Executed(p)
BroadcastOnce ==
  ~forgot =>
    /\ Once(broadcasts) /\ \A p \in Listed(broadcasts) : Covered(p)
    /\ \A r \in PayRequests, p \in Listed(broadcasts) :
         /\ payTasks[r].pc = "sending" => payTasks[r].pay # p
         /\ payTasks[r].pc \in {"claimed", "signed"} /\ payTasks[r].pay = p => Expired(p)
SettledInv ==
  OneClaim /\ SettlingIsClaimed /\ ClaimedIsSvm /\ OneSender /\ SentIsUnserved
  /\ VerifiedIsCovered /\ ServedOnce /\ BroadcastOnce

(* --------------------------------------------------------------- MPP charges *)
ConsumedSteps == {"consumed", "simulating", "sending", "confirming"}
ProvedSteps == {"simulating", "sending", "confirming"}
ChargeTaskTypes(creds) ==
  {Idle} \cup [pc : {"verified"} \cup ConsumedSteps, cred : creds, sig : 1..2]

\* What a proof commits to, by the method of its challenge.
ProofsFit ==
  \A d \in credentials :
    /\ d.ch \in Charges /\ issued[d.ch] \in Nat \ {None} /\ d.proof.born \in Nat
    /\ d.ch \in EvmCharges => d.proof.memo = d.ch
    /\ d.ch \notin EvmCharges => d.proof.memo \notin EvmCharges /\ d.proof.born < ChargeExpires(d.ch)
ChargeTypes ==
  /\ chargeClock \in Nat /\ issued \in [Charges -> Nat \cup {None}] /\ ProofsFit
  /\ \A u \in used : u.until \in Nat
  /\ chargeTasks \in [ChargeRequests -> ChargeTaskTypes(credentials)]
  /\ receipts \in Seq(credentials)

Consumed(r, d) == chargeTasks[r].pc \in ConsumedSteps /\ Cred(r) = d
Proved(r, d) == chargeTasks[r].pc \in ProvedSteps /\ Cred(r) = d
SentCharge(r, d) == chargeTasks[r].pc \in SentSteps /\ Cred(r) = d

\* A key of the replay store is kept for as long as it guards something.
KeptUntil(k, end) == end <= chargeClock \/ \E u \in used : u.key = k /\ u.until >= end
ChallengeSpent(c) == KeptUntil(<<"challenge", c>>, ChargeExpires(c))
ProofSpent(d) == d.ch \notin EvmCharges => KeptUntil(<<"proof", d.proof>>, d.proof.born + MessageLife)
Dead(d) == d.ch \notin EvmCharges /\ ProofDies(d.ch, d.proof)

ChallengesSpent ==
  \A d \in credentials :
    d \in Listed(receipts) \/ (\E r \in ChargeRequests : Consumed(r, d)) => ChallengeSpent(d.ch)
OneConsumer ==
  \A d, e \in credentials : d.ch = e.ch =>
    /\ \A r, s \in ChargeRequests : Consumed(r, d) /\ Consumed(s, e) => r = s
    /\ \A r \in ChargeRequests : Consumed(r, d) => e \notin Listed(receipts)
ProofsSpent ==
  \A d \in credentials :
    d \in Listed(receipts) \/ (\E r \in ChargeRequests : Proved(r, d)) => ProofSpent(d)
\* A second request comes to the same message only after it can no longer land.
ProvedAgainIsDead ==
  \A d, e \in credentials : d.proof = e.proof =>
    /\ \A r, s \in ChargeRequests : Proved(r, d) /\ Proved(s, e) /\ r # s => Dead(d)
    /\ \A r \in ChargeRequests : Proved(r, d) /\ e \in Listed(receipts) => Dead(d)
OneChargeSender ==
  \A d, e \in credentials : d.proof = e.proof =>
    /\ \A r, s \in ChargeRequests : SentCharge(r, d) /\ SentCharge(s, e) => r = s
    /\ \A r \in ChargeRequests : SentCharge(r, d) => e \notin Listed(receipts)
ReceiptsOnce ==
  /\ \A d \in Listed(receipts) : d.proof \in executed
  /\ \A i, j \in DOMAIN receipts :
       receipts[i].ch = receipts[j].ch \/ receipts[i].proof = receipts[j].proof => i = j
ChargeInv ==
  ChallengesSpent /\ OneConsumer /\ ProofsSpent /\ ProvedAgainIsDead /\ OneChargeSender /\ ReceiptsOnce

PaidInv == PayTypes /\ SettledInv /\ ChargeTypes /\ ChargeInv

(* ------------------------------------------------------------------- lemmas *)
LEMMA AppendListed ==
  ASSUME NEW S, NEW h \in Seq(S), NEW p \in S
  PROVE  /\ Append(h, p) \in Seq(S) /\ Listed(Append(h, p)) = Listed(h) \cup {p}
         /\ Once(h) /\ p \notin Listed(h) => Once(Append(h, p))
<1>1. /\ Append(h, p) \in Seq(S) /\ Len(h) \in Nat /\ DOMAIN h = 1..Len(h)
      /\ DOMAIN Append(h, p) = 1..(Len(h) + 1)
      /\ \A i \in 1..Len(h) : Append(h, p)[i] = h[i]
      /\ Append(h, p)[Len(h) + 1] = p
  OBVIOUS
<1>2. Listed(Append(h, p)) = Listed(h) \cup {p}
  <2>1. ASSUME NEW q \in Listed(Append(h, p)) PROVE q \in Listed(h) \cup {p}
    <3>1. PICK i \in 1..(Len(h) + 1) : q = Append(h, p)[i]  BY <1>1 DEF Listed
    <3>2. CASE i = Len(h) + 1  BY <1>1, <3>1, <3>2
    <3>3. CASE i \in 1..Len(h)  BY <1>1, <3>1, <3>3 DEF Listed
    <3> QED  BY <1>1, <3>2, <3>3
  <2>2. ASSUME NEW q \in Listed(h) PROVE q \in Listed(Append(h, p))
    <3>1. PICK i \in 1..Len(h) : q = h[i]  BY <1>1 DEF Listed
    <3>2. i \in DOMAIN Append(h, p) /\ Append(h, p)[i] = q  BY <1>1, <3>1
    <3> QED  BY <3>2 DEF Listed
  <2>3. p \in Listed(Append(h, p))
    <3>1. Len(h) + 1 \in DOMAIN Append(h, p)  BY <1>1
    <3> QED  BY <1>1, <3>1 DEF Listed
  <2> QED  BY <2>1, <2>2, <2>3
<1>3. ASSUME Once(h), p \notin Listed(h) PROVE Once(Append(h, p))
  <2> SUFFICES ASSUME NEW i \in 1..(Len(h) + 1), NEW j \in 1..(Len(h) + 1), Append(h, p)[i] = Append(h, p)[j]
               PROVE  i = j
    BY <1>1 DEF Once
  <2>1. \A k \in 1..Len(h) : h[k] # p  BY <1>1, <1>3 DEF Listed
  <2> QED  BY <1>1, <1>3, <2>1 DEF Once
<1> QED  BY <1>1, <1>2, <1>3

LEMMA ExpiryIsNat ==
  ASSUME PayTypes, NEW p \in signedPays
  PROVE  /\ Expiry(p) \in Nat /\ SettleTtl \in Nat /\ payClock \in Nat
         /\ p.rail # "evm" => Expiry(p) <= payClock + SettleTtl
BY SettleTtlAssumption DEF PayTypes, Expiry

\* What a request has captured.
LEMMA TaskForm ==
  ASSUME PayTypes, NEW r \in PayRequests
  PROVE  /\ payTasks[r].pc \in {"idle", "verified"} \cup SettlingSteps
         /\ payTasks[r].pc = "idle" => payTasks[r] = Idle
         /\ payTasks[r].pc # "idle" => payTasks[r].pay \in signedPays /\ payTasks[r].sig \in 1..2
         /\ payTasks[r].pc = "verified" =>
              payTasks[r] = [pc |-> "verified", pay |-> payTasks[r].pay, sig |-> payTasks[r].sig]
         /\ payTasks[r].pc \in SettlingSteps =>
              payTasks[r].ttl \in Nat /\ payTasks[r] \in [pc : SettlingSteps, pay : signedPays, sig : 1..2, ttl : Nat]
BY DEF PayTypes, PayTaskTypes, Idle, SettlingSteps

LEMMA PayTypesGrow ==
  ASSUME NEW old, NEW new, old \subseteq new
  PROVE  /\ PayTaskTypes(old) \subseteq PayTaskTypes(new)
         /\ \A h \in Seq(old) : h \in Seq(new)
BY DEF PayTaskTypes

LEMMA ClaimTtlIsNat ==
  ASSUME PayTypes, NEW r \in PayRequests, payTasks[r].pc # "idle"
  PROVE  /\ ClaimTtl(payTasks[r]) \in Nat
         /\ payTasks[r].pay.rail # "evm" \/ ~Expired(payTasks[r].pay) =>
              payClock + ClaimTtl(payTasks[r]) >= Expiry(payTasks[r].pay)
<1>1. payTasks[r].pay \in signedPays  BY TaskForm
<1> QED  BY <1>1, ExpiryIsNat DEF ClaimTtl, Expired

\* The code's changes of the store leave the live claims of other payments.
Keeps(k) == \A c \in claims : c.until > payClock /\ c.key # k => c \in claims'
LEMMA StoreChanges ==
  ASSUME NEW r, NEW t
  PROVE  /\ claims' = claims \/ claims' = Claim(r, t) \/ claims' = Released(r, ClaimKey(t))
              \/ claims' = Committed(r, t) => Keeps(ClaimKey(t))
BY DEF Keeps, Claim, Released, Committed, LiveClaims, HeldClaims

LEMMA OthersCovered ==
  ASSUME PayTypes, NEW k, Keeps(k), payClock' = payClock, NEW p \in signedPays, p # k
  PROVE  /\ Covered(p) => Covered(p)'
         /\ \A r : CoveredFor(p, r) => CoveredFor(p, r)'
<1>1. Expiry(p) \in Nat /\ payClock \in Nat /\ \A c \in claims : c.until \in Nat  BY ExpiryIsNat DEF PayTypes
<1>2. \A c \in claims : Covers(c, p) /\ ~Expired(p) => c \in claims'  BY <1>1 DEF Covers, Expired, Keeps
<1>3. Expired(p)' <=> Expired(p)  BY DEF Expired
<1> QED  BY <1>2, <1>3 DEF Covered, CoveredFor, Covers

(* ------------------------------------------------------------- x402: types *)
LEMMA PayTypesStep ==
  ASSUME PayTypes, [PayNext]_payVars
  PROVE  PayTypes'
<1> USE DEF server, client
<1>0. payClock \in Nat /\ \A p \in signedPays : p.born \in 0..payClock  BY DEF PayTypes
<1>1. ASSUME UNCHANGED payVars PROVE PayTypes'
  BY <1>1 DEF PayTypes, payVars
<1>2. ASSUME PayTick PROVE PayTypes'
  <2>1. payClock' \in Nat /\ \A p \in signedPays : p.born \in 0..payClock'
    BY <1>0, <1>2 DEF PayTick
  <2> QED  BY <1>2, <2>1 DEF PayTick, PayTypes
<1>3. ASSUME Lands \/ ServerRestarts PROVE PayTypes'
  BY <1>3 DEF PayTypes, Lands, ServerRestarts, PayTaskTypes
<1>4. ASSUME NEW f \in PayFetches, Challenged(f) \/ SignPayment(f) PROVE PayTypes'
  <2>1. CASE Challenged(f)  BY <2>1 DEF PayTypes, Challenged
  <2>2. CASE SignPayment(f)
    <3>1. signedPays \subseteq signedPays' /\ \A p \in signedPays' : p.born \in 0..payClock
      BY <1>0, <2>2 DEF SignPayment
    <3>2. UNCHANGED server /\ payClock' = payClock  BY <2>2 DEF SignPayment
    <3>3. PayTaskTypes(signedPays) \subseteq PayTaskTypes(signedPays')
          /\ \A h \in Seq(signedPays) : h \in Seq(signedPays')
      BY <3>1, PayTypesGrow
    <3> QED  BY <3>1, <3>2, <3>3 DEF PayTypes
  <2> QED  BY <1>4, <2>1, <2>2
<1>5. ASSUME NEW r \in PayRequests, VerifyPayment(r) \/ FeePayerSigns(r) \/ Simulates(r)
      PROVE  PayTypes'
  <2>1. \E t \in PayTaskTypes(signedPays) : payTasks' = [payTasks EXCEPT ![r] = t]
    <3>1. CASE VerifyPayment(r)  BY <3>1 DEF VerifyPayment, Becomes, PayTaskTypes
    <3>2. CASE FeePayerSigns(r) \/ Simulates(r)
      <4>1. payTasks[r].pc \in SettlingSteps
        BY <3>2 DEF FeePayerSigns, Simulates, Handling, SettlingSteps
      <4> QED  BY <3>2, <4>1, TaskForm DEF FeePayerSigns, Simulates, Becomes, PayTaskTypes, SettlingSteps
    <3> QED  BY <1>5, <3>1, <3>2
  <2> QED  BY <1>5, <2>1 DEF PayTypes, VerifyPayment, FeePayerSigns, Simulates
<1>6. ASSUME NEW r \in PayRequests, SettleBegins(r) PROVE PayTypes'
  <2>1. payTasks[r].pc = "verified" /\ payTasks[r].pay \in signedPays /\ payTasks[r].sig \in 1..2
        /\ ClaimTtl(payTasks[r]) \in Nat
    BY <1>6, TaskForm, ClaimTtlIsNat DEF SettleBegins, Handling
  <2>2. \E t \in PayTaskTypes(signedPays) : payTasks' = [payTasks EXCEPT ![r] = t]
    BY <1>6, <2>1 DEF SettleBegins, Becomes, PayTaskTypes, SettlingSteps
  <2>3. \A c \in claims' : c.until \in Nat
    BY <1>0, <1>6, <2>1 DEF SettleBegins, Claim, LiveClaims, PayTypes
  <2> QED  BY <1>6, <2>2, <2>3 DEF PayTypes, SettleBegins
<1>7. ASSUME NEW r \in PayRequests, SettleRefused(r) \/ Unknown(r) PROVE PayTypes'
  <2>1. payTasks' = [payTasks EXCEPT ![r] = Idle]  BY <1>7 DEF SettleRefused, Refused, Unknown, Becomes
  <2>2. claims' \subseteq claims
    BY <1>7 DEF SettleRefused, Refused, Unknown, KeepsClaim, Released, LiveClaims
  <2> QED  BY <1>7, <2>1, <2>2 DEF PayTypes, PayTaskTypes, SettleRefused, Unknown
<1>8. ASSUME NEW r \in PayRequests, Broadcast(r) PROVE PayTypes'
  <2>1. payTasks[r].pc \in SettlingSteps  BY <1>8 DEF Broadcast, Handling, SettlingSteps
  <2>2. payTasks' = [payTasks EXCEPT ![r] = [payTasks[r] EXCEPT !.pc = "confirming"]]
        /\ [payTasks[r] EXCEPT !.pc = "confirming"] \in PayTaskTypes(signedPays)
    BY <1>8, <2>1, TaskForm DEF Broadcast, Becomes, PayTaskTypes, SettlingSteps
  <2>3. payTasks[r].pay \in signedPays  BY <2>1, TaskForm DEF SettlingSteps
  <2>4. broadcasts' \in Seq(signedPays)  BY <1>8, <2>3, AppendListed DEF Broadcast, PayTypes
  <2> QED  BY <1>8, <2>2, <2>4 DEF PayTypes, Broadcast
<1>9. ASSUME NEW r \in PayRequests, Confirmed(r) PROVE PayTypes'
  <2>1. payTasks[r].pc \in SettlingSteps  BY <1>9 DEF Confirmed, Handling, SettlingSteps
  <2>2. payTasks[r].pay \in signedPays /\ payTasks[r].ttl \in Nat  BY <2>1, TaskForm DEF SettlingSteps
  <2>3. servedFor' \in Seq(signedPays)  BY <1>9, <2>2, AppendListed DEF Confirmed, Served, PayTypes
  <2>4. \A c \in claims' : c.until \in Nat
    <3>1. CASE claims' = claims  BY <3>1 DEF PayTypes
    <3>2. CASE claims' = Committed(r, payTasks[r])
      <4>1. payClock + payTasks[r].ttl \in Nat  BY <1>0, <2>2
      <4>2. \A c \in LiveClaims : c.until \in Nat  BY DEF LiveClaims, PayTypes
      <4>3. \A h \in SUBSET LiveClaims : (\E c \in h : TRUE) => (CHOOSE c \in h : TRUE) \in LiveClaims
        OBVIOUS
      <4> QED  BY <3>2, <4>1, <4>2, <4>3 DEF Committed, HeldClaims
    <3> QED  BY <1>9, <3>1, <3>2 DEF Confirmed, Served
  <2> QED  BY <1>9, <2>3, <2>4 DEF PayTypes, PayTaskTypes, Confirmed, Served, Becomes
<1> QED  BY <1>1, <1>2, <1>3, <1>4, <1>5, <1>6, <1>7, <1>8, <1>9 DEF PayNext

(* ------------------------------------------------------ x402: settled once *)
\* While a payment can still be made its claim is held, by one request.
LEMMA CoveredIsHeld ==
  ASSUME PayTypes, NEW p \in signedPays, ~Expired(p)
  PROVE  /\ Covered(p) => HeldClaims(p) # {}
         /\ \A r : CoveredFor(p, r) => \E c \in HeldClaims(p) : Covers(c, p) /\ c.holder = r
<1>1. \A c \in claims : Covers(c, p) => c \in HeldClaims(p)
  BY ExpiryIsNat DEF Covers, Expired, HeldClaims, LiveClaims, PayTypes
<1> QED  BY <1>1 DEF Covered, CoveredFor
LEMMA OneSettles ==
  ASSUME PayTypes, OneClaim, SettlingIsClaimed, NEW p \in signedPays, ~Expired(p),
         NEW r \in PayRequests, NEW s \in PayRequests, Settling(r, p), Settling(s, p)
  PROVE  r = s
<1>1. PICK c \in HeldClaims(p) : c.holder = r  BY CoveredIsHeld DEF SettlingIsClaimed
<1>2. PICK d \in HeldClaims(p) : d.holder = s  BY CoveredIsHeld DEF SettlingIsClaimed
<1>3. c = d  BY DEF OneClaim, HeldClaims
<1> QED  BY <1>1, <1>2, <1>3

\* A step that leaves the store, the clock and the histories alone.
SameStore == UNCHANGED <<payClock, claims, landed, servedFor, broadcasts, forgot>>
LEMMA SameStoreCovers ==
  ASSUME SameStore
  PROVE  /\ OneClaim <=> OneClaim'
         /\ \A p : (Covered(p) <=> Covered(p)') /\ (Expired(p) <=> Expired(p)')
                   /\ \A r : CoveredFor(p, r) <=> CoveredFor(p, r)'
BY DEF SameStore, OneClaim, LiveClaims, Covered, CoveredFor, Expired, Covers

LEMMA ClientSettles ==
  ASSUME PayTypes, SettledInv, NEW f \in PayFetches, Challenged(f) \/ SignPayment(f)
  PROVE  SettledInv'
<1>1. SameStore /\ UNCHANGED payTasks  BY DEF Challenged, SignPayment, server, SameStore
<1>2. \A r \in PayRequests : payTasks[r].pc \in SettlingSteps => payTasks[r].pay \in signedPays
  BY TaskForm DEF SettlingSteps
<1>3. SettlingIsClaimed'  BY <1>1, <1>2, SameStoreCovers DEF SettledInv, SettlingIsClaimed, Settling
<1>4. OneSender' /\ SentIsUnserved'
  BY <1>1, <1>2 DEF SettledInv, OneSender, SentIsUnserved, Sent, SentSteps, SettlingSteps, SameStore
<1>5. OneClaim' /\ ClaimedIsSvm' /\ VerifiedIsCovered'
  BY <1>1, SameStoreCovers DEF SettledInv, ClaimedIsSvm, VerifiedIsCovered, SameStore
<1>6. ServedOnce' /\ BroadcastOnce'
  BY <1>1, SameStoreCovers DEF SettledInv, ServedOnce, BroadcastOnce, Executed, SameStore
<1> QED  BY <1>3, <1>4, <1>5, <1>6 DEF SettledInv

LEMMA VerifyPaymentSettles ==
  ASSUME PayTypes, SettledInv, NEW r \in PayRequests, VerifyPayment(r)
  PROVE  SettledInv'
<1>1. SameStore /\ UNCHANGED signedPays  BY DEF VerifyPayment, client, SameStore
<1>2. PICK p \in signedPays, sig \in 1..2 :
        /\ p.rail = "evm" => EvmVerifies(p, sig)
        /\ payTasks' = [payTasks EXCEPT ![r] = [pc |-> "verified", pay |-> p, sig |-> sig]]
  BY DEF VerifyPayment, Becomes
<1>3. /\ \A s \in PayRequests : payTasks'[s].pc # "verified" => payTasks'[s] = payTasks[s]
      /\ \A s \in PayRequests : payTasks'[s] = payTasks[s] \/ payTasks'[s].pay = p
  BY <1>2 DEF PayTypes
<1>4. SettlingIsClaimed'
  BY <1>1, <1>3, SameStoreCovers DEF SettledInv, SettlingIsClaimed, Settling, SettlingSteps
<1>5. OneSender' /\ SentIsUnserved' /\ ClaimedIsSvm'
  BY <1>1, <1>3 DEF SettledInv, OneSender, SentIsUnserved, ClaimedIsSvm, Sent, SentSteps, SameStore
<1>6. VerifiedIsCovered'
  <2>1. p.rail = "evm" => p \notin Listed(servedFor)
    BY <1>2 DEF EvmVerifies, SettledInv, ServedOnce
  <2> QED  BY <1>1, <1>3, <2>1, SameStoreCovers DEF SettledInv, VerifiedIsCovered, SameStore
<1>7. OneClaim'  BY <1>1, SameStoreCovers DEF SettledInv
<1>8. ServedOnce'  BY <1>1 DEF SettledInv, ServedOnce, Executed, SameStore
<1>9. BroadcastOnce'
  BY <1>1, <1>3, SameStoreCovers DEF SettledInv, BroadcastOnce, SameStore
<1> QED  BY <1>4, <1>5, <1>6, <1>7, <1>8, <1>9 DEF SettledInv

LEMMA SolanaStepSettles ==
  ASSUME PayTypes, SettledInv, NEW r \in PayRequests, FeePayerSigns(r) \/ Simulates(r)
  PROVE  SettledInv'
<1> DEFINE p == payTasks[r].pay
<1>1. SameStore /\ UNCHANGED signedPays  BY DEF FeePayerSigns, Simulates, client, SameStore
<1>2. /\ payTasks[r].pc \in {"claimed", "signed"} /\ payTasks[r].pc \in SettlingSteps /\ p \in signedPays
      /\ payTasks' = [payTasks EXCEPT ![r].pc = payTasks'[r].pc]
      /\ payTasks'[r].pc \in {"signed", "sending"} /\ payTasks'[r].pay = p
      /\ payTasks'[r].pc = "sending" => ~Executed(p) /\ ~Expired(p)
  BY TaskForm DEF FeePayerSigns, Simulates, Handling, Becomes, SettlingSteps, PayTypes
<1>3. \A s \in PayRequests : s # r => payTasks'[s] = payTasks[s]
  BY <1>2 DEF PayTypes
<1>4. SettlingIsClaimed'
  BY <1>1, <1>2, <1>3, SameStoreCovers DEF SettledInv, SettlingIsClaimed, Settling, SettlingSteps
<1>5. ClaimedIsSvm' /\ VerifiedIsCovered'
  BY <1>1, <1>2, <1>3, SameStoreCovers DEF SettledInv, ClaimedIsSvm, VerifiedIsCovered, SameStore
<1>6. OneSender'
  <2>1. payTasks'[r].pc = "sending" => \A s \in PayRequests : s # r => ~Sent(s, p)
    BY <1>2, OneSettles DEF Settling, Sent, SentSteps, SettlingSteps, SettledInv
  <2> QED  BY <1>1, <1>2, <1>3, <2>1 DEF SettledInv, OneSender, Sent, SentSteps
<1>7. SentIsUnserved'
  BY <1>1, <1>2, <1>3 DEF SettledInv, SentIsUnserved, ServedOnce, Sent, SentSteps, SameStore
<1>8. OneClaim' /\ ServedOnce'
  BY <1>1, SameStoreCovers DEF SettledInv, ServedOnce, Executed, SameStore
<1>9. BroadcastOnce'
  BY <1>1, <1>2, <1>3, SameStoreCovers DEF SettledInv, BroadcastOnce, SameStore
<1> QED  BY <1>4, <1>5, <1>6, <1>7, <1>8, <1>9 DEF SettledInv

\* A settlement begins with a claim that nobody holds.
LEMMA SettleBeginsSettles ==
  ASSUME PayTypes, SettledInv, NEW r \in PayRequests, SettleBegins(r)
  PROVE  SettledInv'
<1> DEFINE p == payTasks[r].pay
<1>1. /\ payTasks[r].pc = "verified" /\ p \in signedPays
      /\ UNCHANGED <<payClock, landed, servedFor, broadcasts, forgot, signedPays>>
  BY TaskForm DEF SettleBegins, Handling, client
<1>2. CASE payTasks' = [payTasks EXCEPT ![r] = Idle] /\ claims' = claims
  <2>1. SameStore  BY <1>1, <1>2 DEF SameStore
  <2>2. \A s \in PayRequests : payTasks'[s].pc # "idle" => payTasks'[s] = payTasks[s]
    BY <1>2 DEF PayTypes, Idle
  <2>3. SettlingIsClaimed' /\ OneSender' /\ SentIsUnserved'
    BY <1>1, <2>1, <2>2, SameStoreCovers
    DEF SettledInv, SettlingIsClaimed, OneSender, SentIsUnserved, Settling, SettlingSteps, Sent, SentSteps
  <2>4. OneClaim' /\ ClaimedIsSvm' /\ VerifiedIsCovered'
    BY <1>1, <2>1, <2>2, SameStoreCovers DEF SettledInv, ClaimedIsSvm, VerifiedIsCovered
  <2>5. ServedOnce' /\ BroadcastOnce'
    BY <1>1, <2>1, <2>2, SameStoreCovers DEF SettledInv, ServedOnce, BroadcastOnce, Executed
  <2> QED  BY <2>3, <2>4, <2>5 DEF SettledInv
<1>3. CASE ~(payTasks' = [payTasks EXCEPT ![r] = Idle] /\ claims' = claims)
  <2> DEFINE t == payTasks'[r]
  <2>1. /\ HeldClaims(p) = {} /\ (p.rail = "evm" => ~Expired(p)) /\ claims' = Claim(r, payTasks[r])
        /\ t.pay = p /\ t.pc = IF p.rail = "evm" THEN "sending" ELSE "claimed"
        /\ \A s \in PayRequests : s # r => payTasks'[s] = payTasks[s]
    BY <1>3 DEF SettleBegins, Becomes, PayTypes, ClaimKey
  <2> DEFINE n == [key |-> p, until |-> payClock + ClaimTtl(payTasks[r]), holder |-> r]
  <2>2. claims' = LiveClaims \cup {n} /\ n.until >= Expiry(p)
    BY <1>1, <2>1, ClaimTtlIsNat DEF Claim, ClaimKey
  <2>3. Keeps(p) /\ \A c \in claims : c.until > payClock => c \in claims'
    BY <2>2 DEF Keeps, LiveClaims
  <2>4. /\ \A q \in signedPays : Covered(q) => Covered(q)'
        /\ \A q \in signedPays, s \in PayRequests : CoveredFor(q, s) => CoveredFor(q, s)'
    <3>1. ASSUME NEW q \in signedPays, NEW c \in claims, Covers(c, q), ~Expired(q) PROVE c \in claims'
      BY <2>3, <3>1, ExpiryIsNat DEF Covers, Expired, PayTypes
    <3> QED  BY <1>1, <3>1 DEF Covered, CoveredFor, Covers, Expired
  <2>5. CoveredFor(p, r)' /\ Covered(p)'
    <3>1. n \in claims' /\ n.key = p /\ n.holder = r  BY <2>2
    <3>2. \E c \in claims' : c.key = t.pay /\ c.until >= Expiry(t.pay) /\ c.holder = r
      BY <2>1, <2>2, <3>1
    <3> QED  BY <3>2 DEF Covered, CoveredFor, Covers, Expiry
  <2>6. \A q \in signedPays, s \in PayRequests : Settling(s, q) /\ q = p => Expired(p)
    BY <1>1, <2>1, CoveredIsHeld DEF SettledInv, SettlingIsClaimed
  <2>7. SettlingIsClaimed'
    BY <1>1, <2>1, <2>4, <2>5 DEF SettledInv, SettlingIsClaimed, Settling
  <2>8. OneClaim'
    <3>1. LiveClaims' \subseteq LiveClaims \cup {n}  BY <2>2 DEF LiveClaims
    <3>2. \A c \in LiveClaims : c.key # p  BY <2>1 DEF HeldClaims
    <3> QED  BY <3>1, <3>2 DEF SettledInv, OneClaim
  <2>9. ClaimedIsSvm' /\ OneSender'
    <3>1. t.pc = "sending" => \A s \in PayRequests : s # r => ~Sent(s, p)
      BY <1>1, <2>1, <2>6 DEF Settling, Sent, SentSteps, SettlingSteps
    <3> QED  BY <1>1, <2>1, <3>1 DEF SettledInv, ClaimedIsSvm, OneSender, Sent, SentSteps
  <2>10. SentIsUnserved'
    <3>1. t.pc = "sending" => p \notin Listed(servedFor)
      BY <1>1, <2>1, CoveredIsHeld DEF SettledInv, VerifiedIsCovered
    <3> QED  BY <1>1, <2>1, <3>1 DEF SettledInv, SentIsUnserved, Sent, SentSteps
  <2>11. VerifiedIsCovered' /\ ServedOnce'
    <3>1. \A q \in Listed(servedFor) : q \in signedPays  BY DEF PayTypes, Listed
    <3> QED  BY <1>1, <2>1, <2>4, <3>1 DEF SettledInv, VerifiedIsCovered, ServedOnce, Executed
  <2>12. BroadcastOnce'
    <3>1. \A q \in Listed(broadcasts) : q \in signedPays  BY DEF PayTypes, Listed
    <3>2. ~forgot /\ p \in Listed(broadcasts) => Expired(p)
      BY <1>1, <2>1, CoveredIsHeld DEF SettledInv, BroadcastOnce
    <3>3. \A q : Expired(q)' <=> Expired(q)  BY <1>1 DEF Expired
    <3> QED  BY <1>1, <2>1, <2>4, <3>1, <3>2, <3>3 DEF SettledInv, BroadcastOnce
  <2> QED  BY <2>7, <2>8, <2>9, <2>10, <2>11, <2>12 DEF SettledInv
<1> QED  BY <1>2, <1>3

\* Only what was not broadcast is released, and only by its holder.
LEMMA EndsSettles ==
  ASSUME PayTypes, SettledInv, NEW r \in PayRequests, SettleRefused(r) \/ Unknown(r)
  PROVE  SettledInv'
<1> DEFINE p == payTasks[r].pay
<1>1. /\ payTasks[r].pc \in SettlingSteps /\ p \in signedPays
      /\ UNCHANGED <<payClock, landed, servedFor, broadcasts, forgot, signedPays>>
      /\ claims' # claims => payTasks[r].pc \in {"claimed", "signed"} /\ claims' = Released(r, p)
      /\ \A s \in PayRequests : payTasks'[s].pc # "idle" => payTasks'[s] = payTasks[s] /\ s # r
  <2>1. payTasks[r].pc \in SettlingSteps /\ p \in signedPays
    BY TaskForm DEF SettleRefused, Unknown, Handling, SettlingSteps
  <2>2. payTasks' = [payTasks EXCEPT ![r] = Idle]
    BY DEF SettleRefused, Unknown, Refused, Becomes
  <2>3. UNCHANGED <<payClock, landed, servedFor, broadcasts, forgot, signedPays>>
    BY DEF SettleRefused, Unknown, client
  <2>4. claims' # claims => payTasks[r].pc \in {"claimed", "signed"} /\ claims' = Released(r, p)
    BY DEF SettleRefused, Unknown, Refused, KeepsClaim, ClaimKey
  <2>5. \A s \in PayRequests : payTasks'[s].pc # "idle" => payTasks'[s] = payTasks[s] /\ s # r
    BY <2>2 DEF PayTypes, Idle
  <2> QED  BY <2>1, <2>3, <2>4, <2>5
<1>2. Keeps(p) /\ LiveClaims' \subseteq LiveClaims /\ payClock' = payClock
  BY <1>1 DEF Keeps, Released, LiveClaims, HeldClaims
<1>3. \A q : Expired(q)' <=> Expired(q)  BY <1>1 DEF Expired
\* If p can still be made, no other request settles it and nobody has sent it.
<1>4. ASSUME claims' # claims, ~Expired(p)
      PROVE  /\ \A s \in PayRequests : s # r => ~Settling(s, p)
             /\ ~forgot => p \notin Listed(broadcasts)
             /\ p.rail # "evm"
  BY <1>1, <1>4, OneSettles DEF SettledInv, BroadcastOnce, ClaimedIsSvm, Settling
<1>5. \A q \in signedPays, s \in PayRequests :
        Settling(s, q) /\ s # r => CoveredFor(q, s)'
  <2> SUFFICES ASSUME NEW q \in signedPays, NEW s \in PayRequests, Settling(s, q), s # r
               PROVE  CoveredFor(q, s)'
    OBVIOUS
  <2>1. CoveredFor(q, s)  BY DEF SettledInv, SettlingIsClaimed
  <2>2. CASE q # p  BY <1>2, <2>1, <2>2, OthersCovered
  <2>3. CASE claims' = claims  BY <1>1, <2>1, <2>3 DEF CoveredFor, Covers, Expired
  <2>4. CASE Expired(q)  BY <1>3, <2>4 DEF CoveredFor
  <2> QED  BY <1>4, <2>2, <2>3, <2>4
<1>6. \A q \in signedPays : (q # p \/ claims' = claims \/ Expired(q)) /\ Covered(q) => Covered(q)'
  <2> SUFFICES ASSUME NEW q \in signedPays, q # p \/ claims' = claims \/ Expired(q), Covered(q) PROVE Covered(q)'
    OBVIOUS
  <2>1. CASE q # p  BY <1>2, <2>1, OthersCovered
  <2>2. CASE claims' = claims  BY <1>1, <2>2 DEF Covered, Covers, Expired
  <2>3. CASE Expired(q)  BY <1>3, <2>3 DEF Covered
  <2> QED  BY <2>1, <2>2, <2>3
<1>7. SettlingIsClaimed'  BY <1>1, <1>5 DEF SettlingIsClaimed, Settling, SettlingSteps
<1>8. OneClaim'  BY <1>2 DEF SettledInv, OneClaim
<1>9. OneSender' /\ SentIsUnserved' /\ ClaimedIsSvm'
  BY <1>1 DEF SettledInv, OneSender, SentIsUnserved, ClaimedIsSvm, Sent, SentSteps
<1>10. VerifiedIsCovered' /\ ServedOnce'
  <2>1. \A q \in Listed(servedFor) : q \in signedPays  BY DEF PayTypes, Listed
  <2> QED  BY <1>1, <1>4, <1>6, <2>1 DEF SettledInv, VerifiedIsCovered, ServedOnce, Executed
<1>11. BroadcastOnce'
  <2>1. \A q \in Listed(broadcasts) : q \in signedPays  BY DEF PayTypes, Listed
  <2> QED  BY <1>1, <1>3, <1>4, <1>6, <2>1 DEF SettledInv, BroadcastOnce
<1> QED  BY <1>7, <1>8, <1>9, <1>10, <1>11 DEF SettledInv

LEMMA BroadcastSettles ==
  ASSUME PayTypes, SettledInv, NEW r \in PayRequests, Broadcast(r)
  PROVE  SettledInv'
<1> DEFINE p == payTasks[r].pay
<1>1. /\ payTasks[r].pc = "sending" /\ p \in signedPays /\ payTasks[r].pc \in SettlingSteps
      /\ UNCHANGED <<payClock, claims, landed, servedFor, forgot, signedPays>>
  BY TaskForm DEF Broadcast, Handling, client, SettlingSteps
<1>2. /\ payTasks'[r].pc = "confirming" /\ payTasks'[r].pay = p
      /\ \A s \in PayRequests : s # r => payTasks'[s] = payTasks[s]
  BY TaskForm, <1>1 DEF Broadcast, Becomes, PayTypes
<1>3. /\ Listed(broadcasts') = Listed(broadcasts) \cup {p}
      /\ Once(broadcasts) /\ p \notin Listed(broadcasts) => Once(broadcasts')
  BY <1>1, AppendListed DEF Broadcast, PayTypes
<1>4. \A q : /\ Covered(q)' <=> Covered(q)
             /\ Expired(q)' <=> Expired(q)
             /\ \A s : CoveredFor(q, s)' <=> CoveredFor(q, s)
  BY <1>1 DEF Covered, CoveredFor, Expired, Covers
<1>5. SettlingIsClaimed'
  BY <1>1, <1>2, <1>4 DEF SettledInv, SettlingIsClaimed, Settling, SettlingSteps
<1>6. OneSender' /\ SentIsUnserved' /\ ClaimedIsSvm'
  BY <1>1, <1>2 DEF SettledInv, OneSender, SentIsUnserved, ClaimedIsSvm, Sent, SentSteps
<1>7. VerifiedIsCovered' /\ OneClaim' /\ ServedOnce'
  BY <1>1, <1>2, <1>4 DEF SettledInv, VerifiedIsCovered, OneClaim, LiveClaims, ServedOnce, Executed
<1>8. BroadcastOnce'
  <2> SUFFICES ASSUME ~forgot PROVE BroadcastOnce'
    BY <1>1 DEF BroadcastOnce
  <2>1. Covered(p)  BY <1>1 DEF SettledInv, SettlingIsClaimed, Settling, Covered, CoveredFor
  <2>2. Once(broadcasts') /\ \A q \in Listed(broadcasts') : Covered(q)'
    BY <1>1, <1>3, <1>4, <2>1 DEF SettledInv, BroadcastOnce
  <2>3. \A s \in PayRequests : s # r => ~Sent(s, p)
    BY <1>1 DEF SettledInv, OneSender, Sent, SentSteps
  <2>4. \A s \in PayRequests : payTasks[s].pc \in {"claimed", "signed"} /\ payTasks[s].pay = p => Expired(p)
    <3> SUFFICES ASSUME NEW s \in PayRequests, Settling(s, p), ~Expired(p) PROVE s = r
      BY <1>1 DEF Settling, SettlingSteps
    <3> QED  BY <1>1, OneSettles DEF SettledInv, Settling
  <2> QED  BY <1>1, <1>2, <1>3, <1>4, <2>2, <2>3, <2>4 DEF SettledInv, BroadcastOnce, Sent, SentSteps
<1> QED  BY <1>5, <1>6, <1>7, <1>8 DEF SettledInv

\* commit() lengthens the claim of the request that has served.
LEMMA ConfirmedSettles ==
  ASSUME PayTypes, SettledInv, NEW r \in PayRequests, Confirmed(r)
  PROVE  SettledInv'
<1> DEFINE p == payTasks[r].pay
<1>1. /\ payTasks[r].pc = "confirming" /\ p \in signedPays /\ payTasks[r].pc \in SettlingSteps
      /\ payTasks[r].ttl \in Nat
      /\ UNCHANGED <<payClock, landed, broadcasts, forgot, signedPays>> /\ Executed(p)
  BY TaskForm DEF Confirmed, Handling, client, SettlingSteps, Executed
<1>2. \A s \in PayRequests : payTasks'[s].pc # "idle" => payTasks'[s] = payTasks[s] /\ s # r
  BY DEF Confirmed, Served, Becomes, PayTypes, Idle
<1>3. /\ Listed(servedFor') = Listed(servedFor) \cup {p}
      /\ Once(servedFor) /\ p \notin Listed(servedFor) => Once(servedFor')
  BY <1>1, AppendListed DEF Confirmed, Served, PayTypes
<1>4. claims' = claims \/ claims' = Committed(r, payTasks[r])
  BY DEF Confirmed, Served
<1>5. Keeps(p)  BY <1>4, StoreChanges DEF ClaimKey
<1>6. CoveredFor(p, r)  BY <1>1 DEF SettledInv, SettlingIsClaimed, Settling
<1>7. \A q : Expired(q)' <=> Expired(q)  BY <1>1 DEF Expired
<1>8. ASSUME ~Expired(p), claims' # claims
      PROVE  \E c \in claims' : Covers(c, p)
  <2>1. PICK c \in HeldClaims(p) : Covers(c, p) /\ c.holder = r  BY <1>1, <1>6, <1>8, CoveredIsHeld
  <2>2. HeldClaims(p) = {c}  BY <2>1 DEF SettledInv, OneClaim, HeldClaims
  <2> DEFINE now == payClock + payTasks[r].ttl
             n == [key |-> p, holder |-> None,
                   until |-> IF \E d \in HeldClaims(p) : d.until > now
                             THEN (CHOOSE d \in HeldClaims(p) : TRUE).until ELSE now]
  <2>3. claims' = (LiveClaims \ HeldClaims(p)) \cup {n}
    BY <1>4, <1>8, <2>1, <2>2 DEF Committed, ClaimKey
  <2>4. (CHOOSE d \in HeldClaims(p) : TRUE) = c  BY <2>2
  <2>5. n.key = p /\ n.until >= c.until
    <3>1. now \in Nat /\ c.until \in Nat  BY <1>1, <2>1 DEF PayTypes, HeldClaims, LiveClaims
    <3> QED  BY <2>2, <2>4, <3>1
  <2>6. n.until >= Expiry(p)
    <3>1. now \in Nat /\ c.until \in Nat /\ Expiry(p) \in Nat
      BY <1>1, <2>1, ExpiryIsNat DEF PayTypes, HeldClaims, LiveClaims
    <3>2. n.until = c.until \/ n.until = now  BY <2>4
    <3> QED  BY <2>1, <2>5, <3>1, <3>2 DEF Covers
  <2>7. n \in claims'  BY <2>3
  <2>8. n.key = p  OBVIOUS
  <2> HIDE DEF n
  <2> QED  BY <2>6, <2>7, <2>8 DEF Covers
<1>9. \A q \in signedPays : Covered(q) => Covered(q)'
  <2> SUFFICES ASSUME NEW q \in signedPays, Covered(q) PROVE Covered(q)'
    OBVIOUS
  <2>1. CASE q # p  BY <1>1, <1>5, <2>1, OthersCovered
  <2>2. CASE claims' = claims  BY <1>1, <2>2 DEF Covered, Covers, Expired
  <2>3. CASE Expired(q)  BY <1>7, <2>3 DEF Covered
  <2>4. CASE q = p /\ claims' # claims /\ ~Expired(q)
    BY <1>8, <2>4 DEF Covered, Covers
  <2> QED  BY <2>1, <2>2, <2>3, <2>4
<1>10. Covered(p)  BY <1>6 DEF Covered, CoveredFor
<1>11. SettlingIsClaimed'
  <2> SUFFICES ASSUME NEW s \in PayRequests, NEW q \in signedPays, Settling(s, q), s # r
               PROVE  CoveredFor(q, s)'
    BY <1>1, <1>2 DEF SettlingIsClaimed, Settling, SettlingSteps
  <2>1. CoveredFor(q, s)  BY DEF SettledInv, SettlingIsClaimed
  <2>2. CASE q # p  BY <1>1, <1>5, <2>1, <2>2, OthersCovered
  <2>3. CASE q = p
    <3>1. Expired(q)  BY <1>1, <2>3, OneSettles DEF SettledInv, Settling
    <3> QED  BY <1>7, <3>1 DEF CoveredFor
  <2> QED  BY <2>2, <2>3
<1>12. OneClaim'
  <2>1. CASE claims' = claims  BY <1>1, <2>1 DEF SettledInv, OneClaim, LiveClaims
  <2>2. CASE claims' = LiveClaims  BY <1>1, <2>2 DEF SettledInv, OneClaim, LiveClaims
  <2>3. CASE \E n : n.key = p /\ claims' = (LiveClaims \ HeldClaims(p)) \cup {n}
    <3>1. PICK n : n.key = p /\ claims' = (LiveClaims \ HeldClaims(p)) \cup {n}  BY <2>3
    <3>2. LiveClaims' \subseteq (LiveClaims \ HeldClaims(p)) \cup {n}  BY <3>1 DEF LiveClaims
    <3>3. \A c \in LiveClaims \ HeldClaims(p) : c.key # p  BY DEF HeldClaims
    <3> QED  BY <3>1, <3>2, <3>3 DEF SettledInv, OneClaim
  <2> QED  BY <1>4, <2>1, <2>2, <2>3 DEF Committed, ClaimKey
<1>13. OneSender' /\ SentIsUnserved' /\ ClaimedIsSvm'
  <2>1. \A s \in PayRequests : s # r => ~Sent(s, p)
    BY <1>1 DEF SettledInv, OneSender, Sent, SentSteps
  <2> QED  BY <1>1, <1>2, <1>3, <2>1 DEF SettledInv, OneSender, SentIsUnserved, ClaimedIsSvm, Sent, SentSteps
<1>14. VerifiedIsCovered' /\ ServedOnce'
  <2>1. \A q \in Listed(servedFor) : q \in signedPays  BY DEF PayTypes, Listed
  <2>2. p \notin Listed(servedFor)  BY <1>1 DEF SettledInv, SentIsUnserved, Sent, SentSteps
  <2>3. VerifiedIsCovered'
    BY <1>1, <1>2, <1>3, <1>9, <1>10, <2>1 DEF SettledInv, VerifiedIsCovered
  <2> QED  BY <1>1, <1>3, <2>2, <2>3 DEF SettledInv, ServedOnce, Executed
<1>15. BroadcastOnce'
  <2>1. \A q \in Listed(broadcasts) : q \in signedPays  BY DEF PayTypes, Listed
  <2> QED  BY <1>1, <1>2, <1>7, <1>9, <2>1 DEF SettledInv, BroadcastOnce
<1> QED  BY <1>11, <1>12, <1>13, <1>14, <1>15 DEF SettledInv

\* Time lets a claim go only with what it covers; a restart forgets the claims
\* and every request that relied on them.
LEMMA EnvironmentSettles ==
  ASSUME PayTypes, SettledInv, PayTick \/ Lands \/ ServerRestarts
  PROVE  SettledInv'
<1>1. CASE PayTick
  <2>1. payClock' >= payClock /\ payClock \in Nat /\ payClock' \in Nat
        /\ UNCHANGED <<signedPays, claims, payTasks, landed, servedFor, broadcasts, forgot>>
    BY <1>1 DEF PayTick, PayTypes, client
  <2>2. \A q \in signedPays : Expired(q) => Expired(q)'
    BY <2>1, ExpiryIsNat DEF Expired
  <2>3. \A q \in signedPays : /\ Covered(q) => Covered(q)'
                              /\ \A s : CoveredFor(q, s) => CoveredFor(q, s)'
    BY <2>1, <2>2 DEF Covered, CoveredFor, Covers
  <2>4. LiveClaims' \subseteq LiveClaims  BY <2>1 DEF LiveClaims, PayTypes
  <2>5. (\A q \in Listed(servedFor) : q \in signedPays) /\ \A q \in Listed(broadcasts) : q \in signedPays
    BY DEF PayTypes, Listed
  <2>6. OneClaim' /\ SettlingIsClaimed' /\ ClaimedIsSvm'
    BY <2>1, <2>3, <2>4 DEF SettledInv, OneClaim, SettlingIsClaimed, ClaimedIsSvm, Settling
  <2>7. OneSender' /\ SentIsUnserved' /\ VerifiedIsCovered' /\ ServedOnce'
    BY <2>1, <2>3, <2>5 DEF SettledInv, OneSender, SentIsUnserved, VerifiedIsCovered, ServedOnce, Sent, Executed
  <2>8. BroadcastOnce'
    BY <2>1, <2>2, <2>3, <2>5 DEF SettledInv, BroadcastOnce
  <2> QED  BY <2>6, <2>7, <2>8 DEF SettledInv
<1>2. CASE Lands
  <2>1. /\ UNCHANGED <<payClock, signedPays, claims, payTasks, servedFor, broadcasts, forgot>>
        /\ landed \subseteq landed'
    BY <1>2 DEF Lands, client
  <2>2. \A q : /\ Covered(q)' <=> Covered(q)
               /\ Expired(q)' <=> Expired(q)
               /\ \A s : CoveredFor(q, s)' <=> CoveredFor(q, s)
    BY <2>1 DEF Covered, CoveredFor, Expired, Covers
  <2>3. OneClaim' /\ SettlingIsClaimed' /\ ClaimedIsSvm'
    BY <2>1, <2>2 DEF SettledInv, OneClaim, LiveClaims, SettlingIsClaimed, ClaimedIsSvm, Settling
  <2>4. OneSender' /\ SentIsUnserved' /\ VerifiedIsCovered' /\ ServedOnce'
    BY <2>1, <2>2 DEF SettledInv, OneSender, SentIsUnserved, VerifiedIsCovered, ServedOnce, Sent, Executed
  <2>5. BroadcastOnce'
    BY <2>1, <2>2 DEF SettledInv, BroadcastOnce
  <2> QED  BY <2>3, <2>4, <2>5 DEF SettledInv
<1>3. CASE ServerRestarts
  <2>1. /\ claims' = {} /\ forgot' /\ UNCHANGED <<signedPays, landed, servedFor>>
        /\ \A r \in PayRequests : payTasks'[r].pc = "idle"
    BY <1>3 DEF ServerRestarts, client, Idle
  <2> QED  BY <2>1 DEF SettledInv, OneClaim, LiveClaims, SettlingIsClaimed, Settling, SettlingSteps, ClaimedIsSvm,
               OneSender, SentIsUnserved, Sent, SentSteps, VerifiedIsCovered, ServedOnce, Executed, BroadcastOnce
<1> QED  BY <1>1, <1>2, <1>3

LEMMA SettledStep ==
  ASSUME PayTypes, SettledInv, [PayNext]_payVars
  PROVE  SettledInv'
<1>1. CASE UNCHANGED payVars
  <2>1. SameStore /\ UNCHANGED <<signedPays, payTasks>>  BY <1>1 DEF payVars, SameStore
  <2>2. OneClaim' /\ SettlingIsClaimed' /\ ClaimedIsSvm'
    BY <2>1, SameStoreCovers DEF SettledInv, SettlingIsClaimed, ClaimedIsSvm, Settling
  <2>3. OneSender' /\ SentIsUnserved' /\ VerifiedIsCovered' /\ ServedOnce' /\ BroadcastOnce'
    BY <2>1, SameStoreCovers DEF SettledInv, OneSender, SentIsUnserved, VerifiedIsCovered, ServedOnce, BroadcastOnce,
       Sent, Executed, SameStore
  <2> QED  BY <2>2, <2>3 DEF SettledInv
<1>2. CASE PayNext
  BY <1>2, ClientSettles, VerifyPaymentSettles, SolanaStepSettles, SettleBeginsSettles, EndsSettles,
     BroadcastSettles, ConfirmedSettles, EnvironmentSettles DEF PayNext
<1> QED  BY <1>1, <1>2

(* ---------------------------------------------------------- charges: types *)
LEMMA ChargeTaskForm ==
  ASSUME ChargeTypes, NEW r \in ChargeRequests
  PROVE  /\ chargeTasks[r].pc \in {"idle", "verified"} \cup ConsumedSteps
         /\ chargeTasks[r].pc = "idle" => chargeTasks[r] = Idle
         /\ chargeTasks[r].pc # "idle" =>
              /\ Cred(r) \in credentials /\ chargeTasks[r].sig \in 1..2
              /\ chargeTasks[r] = [pc |-> chargeTasks[r].pc, cred |-> Cred(r), sig |-> chargeTasks[r].sig]
BY DEF ChargeTypes, ChargeTaskTypes, Idle, ConsumedSteps, Cred

LEMMA CredentialForm ==
  ASSUME ChargeTypes, NEW d \in credentials
  PROVE  /\ d.ch \in Charges /\ issued[d.ch] \in Nat /\ d.proof.born \in Nat
         /\ ChargeExpires(d.ch) \in Nat /\ d.proof.born + MessageLife \in Nat
         /\ d.ch \notin EvmCharges => d.proof.born + MessageLife <= ProofRetained(d.ch)
         /\ ProofRetained(d.ch) \in Nat
<1>1. /\ d.ch \in Charges /\ issued[d.ch] \in Nat /\ d.proof.born \in Nat
      /\ d.ch \notin EvmCharges => d.proof.born < issued[d.ch] + ChargeLife
  BY DEF ChargeTypes, ProofsFit, ChargeExpires
<1>2. MessageLife \in Nat /\ Retention \in Nat /\ MessageLife <= Retention /\ ChargeLife \in Nat
  BY RetentionAssumption
<1> QED  BY <1>1, <1>2 DEF ChargeExpires, ProofRetained

\* A proof tells its challenge on EVM; elsewhere it tells how long it lasts.
LEMMA SameProof ==
  ASSUME ChargeTypes, NEW d \in credentials, NEW e \in credentials, d.proof = e.proof
  PROVE  /\ d.ch \in EvmCharges => d.ch = e.ch
         /\ d.ch \in EvmCharges <=> e.ch \in EvmCharges
         /\ Dead(d) <=> Dead(e)
BY DEF ChargeTypes, ProofsFit, Dead, ProofDies

LEMMA ChargeTypesStep ==
  ASSUME ChargeTypes, [ChargeNext]_chargeVars
  PROVE  ChargeTypes'
<1>1. ASSUME UNCHANGED chargeVars PROVE ChargeTypes'
  BY <1>1 DEF chargeVars, ChargeTypes, ProofsFit, ChargeExpires
<1>2. ASSUME ChargeTick PROVE ChargeTypes'
  BY <1>2 DEF ChargeTick, ChargeTypes, ProofsFit, ChargeExpires
<1>3. ASSUME ChargeLands PROVE ChargeTypes'
  BY <1>3 DEF ChargeLands, ChargeTypes, ProofsFit, ChargeExpires
<1>4. ASSUME NEW c \in Charges, IssueChallenge(c) PROVE ChargeTypes'
  <2>1. issued' \in [Charges -> Nat \cup {None}]
    BY <1>4 DEF IssueChallenge, ChargeTypes
  <2>2. \A d \in credentials : issued'[d.ch] = issued[d.ch]
    BY <1>4 DEF IssueChallenge, ChargeTypes, ProofsFit
  <2>3. ProofsFit'
    BY <1>4, <2>2 DEF IssueChallenge, ChargeTypes, ProofsFit, ChargeExpires
  <2> QED  BY <1>4, <2>1, <2>3 DEF IssueChallenge, ChargeTypes
<1>5. ASSUME NEW c \in Charges, PayCharge(c) PROVE ChargeTypes'
  <2> DEFINE d == [ch |-> c, proof |-> Proof(c)]
  <2>1. /\ credentials' = credentials \cup {d} /\ issued[c] \in Nat \ {None} /\ ~Over(c)
        /\ UNCHANGED <<chargeClock, issued, used, chargeTasks, receipts>> /\ chargeClock \in Nat
    BY <1>5 DEF PayCharge, Selectable, ChargeTypes
  <2>2. /\ d.ch \in Charges /\ d.proof.born \in Nat
        /\ d.ch \in EvmCharges => d.proof.memo = d.ch
        /\ d.ch \notin EvmCharges => d.proof.memo \notin EvmCharges /\ d.proof.born < ChargeExpires(d.ch)
    BY <2>1, ChargesAssumption, RetentionAssumption DEF Proof, EvmProof, SolanaProof, Over, ChargeExpires
  <2> HIDE DEF d
  <2>3. ProofsFit'
    <3>1. d.ch = c  BY DEF d
    <3> QED  BY <2>1, <2>2, <3>1 DEF ChargeTypes, ProofsFit, ChargeExpires
  <2>4. ChargeTaskTypes(credentials) \subseteq ChargeTaskTypes(credentials')
        /\ \A h \in Seq(credentials) : h \in Seq(credentials')
    BY <2>1 DEF ChargeTaskTypes
  <2> QED  BY <2>1, <2>3, <2>4 DEF ChargeTypes
<1>6. ASSUME NEW r \in ChargeRequests,
             \/ VerifyCredential(r) \/ ConsumeChallenge(r) \/ ConsumeProof(r)
             \/ SimulateCharge(r) \/ SendCharge(r) \/ ChargeSettled(r) \/ ChargeFails(r)
      PROVE  ChargeTypes'
  <2>1. \E t \in ChargeTaskTypes(credentials) : chargeTasks' = [chargeTasks EXCEPT ![r] = t]
    <3>1. CASE VerifyCredential(r)  BY <3>1 DEF VerifyCredential, Moves, ChargeTaskTypes
    <3>2. CASE chargeTasks' = [chargeTasks EXCEPT ![r] = Idle]  BY <3>2 DEF ChargeTaskTypes
    <3>3. CASE \E pc \in ConsumedSteps : ~ChargeAt(r, "idle") /\ Goes(r, pc)
      <4>1. PICK pc \in ConsumedSteps : chargeTasks[r].pc # "idle" /\ Goes(r, pc)  BY <3>3 DEF ChargeAt
      <4>2. chargeTasks[r] \in [pc : {"verified"} \cup ConsumedSteps, cred : credentials, sig : 1..2]
        BY <4>1 DEF ChargeTypes, ChargeTaskTypes, Idle
      <4>3. [chargeTasks[r] EXCEPT !.pc = pc] \in ChargeTaskTypes(credentials)
        BY <4>2 DEF ChargeTaskTypes
      <4> QED  BY <4>1, <4>3 DEF Goes, Moves
    <3> QED
      BY <1>6, <3>1, <3>2, <3>3 DEF ConsumeChallenge, ConsumeProof, SimulateCharge, SendCharge, ChargeSettled,
         ChargeFails, ChargeAt, Moves, ConsumedSteps
  <2>2. chargeTasks[r].pc # "idle" => Cred(r) \in credentials  BY ChargeTaskForm
  <2>3. UNCHANGED <<chargeClock, issued, credentials>>
    BY <1>6 DEF VerifyCredential, ConsumeChallenge, ConsumeProof, SimulateCharge, SendCharge, ChargeSettled,
       ChargeFails
  <2>4. \A u \in used' : u.until \in Nat
    <3>1. CASE used' = used  BY <3>1 DEF ChargeTypes
    <3>2. CASE ConsumeChallenge(r) /\ used' # used
      BY <2>2, <3>2, CredentialForm DEF ConsumeChallenge, Consumes, ChargeAt, ChargeTypes
    <3>3. CASE ConsumeProof(r) /\ used' # used
      BY <2>2, <3>3, CredentialForm DEF ConsumeProof, Consumes, ChargeAt, ChargeTypes
    <3> QED  BY <1>6, <3>1, <3>2, <3>3
             DEF VerifyCredential, SimulateCharge, SendCharge, ChargeSettled, ChargeFails
  <2>5. receipts' \in Seq(credentials)
    <3>1. CASE receipts' = receipts  BY <3>1 DEF ChargeTypes
    <3>2. CASE ChargeSettled(r)
      BY <2>2, <3>2, AppendListed DEF ChargeSettled, ChargeAt, ChargeTypes
    <3> QED  BY <1>6, <3>1, <3>2
             DEF VerifyCredential, ConsumeChallenge, ConsumeProof, SimulateCharge, SendCharge, ChargeFails
  <2> QED  BY <2>1, <2>3, <2>4, <2>5 DEF ChargeTypes, ProofsFit, ChargeExpires
<1> QED  BY <1>1, <1>2, <1>3, <1>4, <1>5, <1>6 DEF ChargeNext

(* -------------------------------------------------- charges: served once *)
LEMMA InPlay ==
  ASSUME ChargeTypes
  PROVE  /\ \A r \in ChargeRequests : \A d : Consumed(r, d) => d \in credentials
         /\ \A r \in ChargeRequests : \A d : Proved(r, d) => Consumed(r, d)
         /\ \A r \in ChargeRequests : \A d : SentCharge(r, d) => Proved(r, d)
         /\ \A d \in Listed(receipts) : d \in credentials
<1>1. \A r \in ChargeRequests : chargeTasks[r].pc \in ConsumedSteps => Cred(r) \in credentials
  BY ChargeTaskForm DEF ConsumedSteps
<1> QED  BY <1>1 DEF Consumed, Proved, SentCharge, ConsumedSteps, ProvedSteps, SentSteps, Listed, ChargeTypes

\* The store only drops keys that guard nothing any more.
StoreKeeps ==
  /\ UNCHANGED <<chargeClock, issued, credentials>>
  /\ \A u \in used : u.until > chargeClock => u \in used'
LEMMA SpentStays ==
  ASSUME ChargeTypes, StoreKeeps, NEW d \in credentials
  PROVE  /\ ChallengeSpent(d.ch) => ChallengeSpent(d.ch)'
         /\ ProofSpent(d) => ProofSpent(d)'
         /\ Dead(d) <=> Dead(d)'
<1>1. /\ chargeClock \in Nat /\ ChargeExpires(d.ch) \in Nat /\ d.proof.born + MessageLife \in Nat
      /\ \A u \in used : u.until \in Nat
  BY CredentialForm DEF ChargeTypes
<1>2. ASSUME NEW k, NEW end \in Nat, KeptUntil(k, end) PROVE KeptUntil(k, end)'
  BY <1>1, <1>2 DEF KeptUntil, StoreKeeps
<1>3. ChargeExpires(d.ch)' = ChargeExpires(d.ch)  BY DEF ChargeExpires, StoreKeeps
<1>4. ChallengeSpent(d.ch) => ChallengeSpent(d.ch)'
  <2>1. PICK n \in Nat : n = ChargeExpires(d.ch)  BY <1>1
  <2>2. KeptUntil(<<"challenge", d.ch>>, n) => KeptUntil(<<"challenge", d.ch>>, n)'  BY <1>2
  <2> QED  BY <1>3, <2>1, <2>2 DEF ChallengeSpent, KeptUntil
<1>5. ProofSpent(d) => ProofSpent(d)'  BY <1>1, <1>2 DEF ProofSpent
<1>6. Dead(d) <=> Dead(d)'  BY <1>3 DEF Dead, ProofDies, Over, StoreKeeps
<1> QED  BY <1>4, <1>5, <1>6

LEMMA ConsumesKeeps ==
  ASSUME ChargeTypes, UNCHANGED <<chargeClock, issued, credentials>>, NEW k, NEW end \in Nat, Consumes(k, end)
  PROVE  StoreKeeps /\ KeptUntil(k, end)'
<1>1. [key |-> k, until |-> end] \in used' /\ \A u \in used : u.until > chargeClock => u \in used'
  BY DEF Consumes
<1>2. \E u \in used' : u.key = k /\ u.until >= end
  <2> DEFINE n == [key |-> k, until |-> end]
  <2>1. n \in used' /\ n.key = k /\ n.until >= end  BY <1>1
  <2> QED  BY <2>1
<1> QED  BY <1>1, <1>2 DEF StoreKeeps, KeptUntil

LEMMA SpentIsInUse ==
  ASSUME ChargeTypes, NEW k, NEW end \in Nat, KeptUntil(k, end), end > chargeClock
  PROVE  InUse(k)
BY DEF ChargeTypes, KeptUntil, InUse

\* A step of one request that neither consumes, proves nor sends anything new
\* leaves what the requests guard: r is where it was, or idle, or not yet there.
LEMMA GuardsStay ==
  ASSUME ChargeTypes, ChargeInv, StoreKeeps, executed \subseteq executed', receipts' = receipts,
         \A s \in ChargeRequests : \A d :
           /\ Consumed(s, d)' => Consumed(s, d)
           /\ Proved(s, d)' => Proved(s, d)
           /\ SentCharge(s, d)' => SentCharge(s, d)
  PROVE  ChargeInv'
<1>1. credentials' = credentials  BY DEF StoreKeeps
<1>2. ChallengesSpent'  BY <1>1, SpentStays DEF ChargeInv, ChallengesSpent
<1>3. ProofsSpent'  BY <1>1, SpentStays DEF ChargeInv, ProofsSpent
<1>4. OneConsumer' /\ OneChargeSender'  BY <1>1 DEF ChargeInv, OneConsumer, OneChargeSender
<1>5. ProvedAgainIsDead'  BY <1>1, SpentStays DEF ChargeInv, ProvedAgainIsDead
<1>6. ReceiptsOnce'  BY DEF ChargeInv, ReceiptsOnce
<1> QED  BY <1>2, <1>3, <1>4, <1>5, <1>6 DEF ChargeInv

LEMMA IssueServes ==
  ASSUME ChargeTypes, ChargeInv, NEW c \in Charges, IssueChallenge(c)
  PROVE  ChargeInv'
<1>1. \A d \in credentials : issued'[d.ch] = issued[d.ch]
  BY DEF IssueChallenge, ChargeTypes, ProofsFit
<1>2. UNCHANGED <<chargeClock, credentials, used, chargeTasks, executed, receipts>>  BY DEF IssueChallenge
<1>3. \A d \in credentials : /\ ChallengeSpent(d.ch) <=> ChallengeSpent(d.ch)'
                             /\ ProofSpent(d) <=> ProofSpent(d)'
                             /\ Dead(d) <=> Dead(d)'
  BY <1>1, <1>2 DEF ChallengeSpent, ProofSpent, KeptUntil, ChargeExpires, Dead, ProofDies, Over
<1>4. ChallengesSpent'  BY <1>2, <1>3 DEF ChargeInv, ChallengesSpent, Consumed, Cred
<1>5. ProofsSpent' /\ ProvedAgainIsDead'
  BY <1>2, <1>3 DEF ChargeInv, ProofsSpent, ProvedAgainIsDead, Proved, Cred
<1>6. OneConsumer'  BY <1>2 DEF ChargeInv, OneConsumer, Consumed, Cred
<1>7. OneChargeSender' /\ ReceiptsOnce'
  BY <1>2 DEF ChargeInv, OneChargeSender, ReceiptsOnce, SentCharge, Cred
<1> QED  BY <1>4, <1>5, <1>6, <1>7 DEF ChargeInv

LEMMA PayChargeServes ==
  ASSUME ChargeTypes, ChargeInv, NEW c \in Charges, PayCharge(c)
  PROVE  ChargeInv'
<1>1. UNCHANGED <<chargeClock, issued, used, chargeTasks, executed, receipts>> /\ credentials \subseteq credentials'
  BY DEF PayCharge
<1>2. \A r \in ChargeRequests : \A d :
        /\ Consumed(r, d)' <=> Consumed(r, d)
        /\ Proved(r, d)' <=> Proved(r, d)
        /\ SentCharge(r, d)' <=> SentCharge(r, d)
  BY <1>1 DEF Consumed, Proved, SentCharge, Cred
<1>3. \A d : /\ ChallengeSpent(d.ch) <=> ChallengeSpent(d.ch)'
             /\ ProofSpent(d) <=> ProofSpent(d)'
             /\ Dead(d) <=> Dead(d)'
  BY <1>1 DEF ChallengeSpent, ProofSpent, KeptUntil, ChargeExpires, Dead, ProofDies, Over
<1>4. ChallengesSpent' /\ ProofsSpent'
  BY <1>1, <1>2, <1>3, InPlay DEF ChargeInv, ChallengesSpent, ProofsSpent
<1>5. OneConsumer' /\ OneChargeSender'
  BY <1>1, <1>2, InPlay DEF ChargeInv, OneConsumer, OneChargeSender
<1>6. ProvedAgainIsDead'
  BY <1>1, <1>2, <1>3, InPlay DEF ChargeInv, ProvedAgainIsDead
<1>7. ReceiptsOnce'  BY <1>1 DEF ChargeInv, ReceiptsOnce
<1> QED  BY <1>4, <1>5, <1>6, <1>7 DEF ChargeInv

LEMMA TickServes ==
  ASSUME ChargeTypes, ChargeInv, ChargeTick
  PROVE  ChargeInv'
<1>1. /\ UNCHANGED <<credentials, issued, used, chargeTasks, executed, receipts>>
      /\ chargeClock' = chargeClock + 1 /\ chargeClock \in Nat
  BY DEF ChargeTick, ChargeTypes
<1>2. \A r \in ChargeRequests : \A d :
        /\ Consumed(r, d)' <=> Consumed(r, d)
        /\ Proved(r, d)' <=> Proved(r, d)
        /\ SentCharge(r, d)' <=> SentCharge(r, d)
  BY <1>1 DEF Consumed, Proved, SentCharge, Cred
<1>3. \A d \in credentials : /\ ChallengeSpent(d.ch) => ChallengeSpent(d.ch)'
                             /\ ProofSpent(d) => ProofSpent(d)'
                             /\ Dead(d) => Dead(d)'
  <2> SUFFICES ASSUME NEW d \in credentials
               PROVE  /\ ChallengeSpent(d.ch) => ChallengeSpent(d.ch)'
                      /\ ProofSpent(d) => ProofSpent(d)'
                      /\ Dead(d) => Dead(d)'
    OBVIOUS
  <2>1. /\ ChargeExpires(d.ch) \in Nat /\ d.proof.born + MessageLife \in Nat
        /\ ChargeExpires(d.ch)' = ChargeExpires(d.ch)
    BY <1>1, CredentialForm DEF ChargeExpires
  <2>2. ASSUME NEW k, NEW end \in Nat, KeptUntil(k, end) PROVE KeptUntil(k, end)'
    BY <1>1, <2>2 DEF KeptUntil
  <2>3. ChallengeSpent(d.ch) => ChallengeSpent(d.ch)'
    <3>1. PICK n \in Nat : n = ChargeExpires(d.ch)  BY <2>1
    <3>2. KeptUntil(<<"challenge", d.ch>>, n) => KeptUntil(<<"challenge", d.ch>>, n)'  BY <2>2
    <3> QED  BY <2>1, <3>1, <3>2 DEF ChallengeSpent, KeptUntil
  <2>4. ProofSpent(d) => ProofSpent(d)'  BY <2>1, <2>2 DEF ProofSpent
  <2>5. Dead(d) => Dead(d)'  BY <1>1, <2>1 DEF Dead, ProofDies, Over
  <2> QED  BY <2>3, <2>4, <2>5
<1>4. ChallengesSpent' /\ ProofsSpent'
  BY <1>1, <1>2, <1>3 DEF ChargeInv, ChallengesSpent, ProofsSpent
<1>5. OneConsumer' /\ OneChargeSender'  BY <1>1, <1>2 DEF ChargeInv, OneConsumer, OneChargeSender
<1>6. ProvedAgainIsDead'  BY <1>1, <1>2, <1>3 DEF ChargeInv, ProvedAgainIsDead
<1>7. ReceiptsOnce'  BY <1>1 DEF ChargeInv, ReceiptsOnce
<1> QED  BY <1>4, <1>5, <1>6, <1>7 DEF ChargeInv

\* What a request that moved to step pc guards, and what the others still do.
LEMMA MovedTo ==
  ASSUME ChargeTypes, NEW r \in ChargeRequests, NEW pc, chargeTasks[r].pc # "idle", Goes(r, pc)
  PROVE  /\ \A s \in ChargeRequests : \A d : s # r =>
              /\ Consumed(s, d)' <=> Consumed(s, d)
              /\ Proved(s, d)' <=> Proved(s, d)
              /\ SentCharge(s, d)' <=> SentCharge(s, d)
         /\ \A d : /\ Consumed(r, d)' <=> pc \in ConsumedSteps /\ d = Cred(r)
                   /\ Proved(r, d)' <=> pc \in ProvedSteps /\ d = Cred(r)
                   /\ SentCharge(r, d)' <=> pc \in SentSteps /\ d = Cred(r)
<1>1. chargeTasks'[r].pc = pc /\ chargeTasks'[r].cred = Cred(r)
  BY ChargeTaskForm DEF Goes, Moves, ChargeTypes
<1>2. \A s \in ChargeRequests : s # r => chargeTasks'[s] = chargeTasks[s]
  BY DEF Goes, Moves, ChargeTypes
<1> QED  BY <1>1, <1>2 DEF Consumed, Proved, SentCharge, Cred

\* A request that is refused, begins or gives up guards nothing more.
LEMMA FreeOf ==
  ASSUME ChargeTypes, NEW r \in ChargeRequests, NEW t, t.pc \notin ConsumedSteps, Moves(r, t)
  PROVE  \A s \in ChargeRequests : \A d :
           /\ Consumed(s, d)' => Consumed(s, d)
           /\ Proved(s, d)' => Proved(s, d)
           /\ SentCharge(s, d)' => SentCharge(s, d)
<1>1. \A s \in ChargeRequests : chargeTasks'[s].pc \in ConsumedSteps => chargeTasks'[s] = chargeTasks[s]
  BY DEF Moves, ChargeTypes
<1> QED  BY <1>1 DEF Consumed, Proved, SentCharge, Cred, ConsumedSteps, ProvedSteps, SentSteps

LEMMA QuietServes ==
  ASSUME ChargeTypes, ChargeInv, NEW r \in ChargeRequests,
         \/ VerifyCredential(r) \/ ChargeFails(r) \/ SendCharge(r)
         \/ /\ ConsumeChallenge(r) \/ ConsumeProof(r) \/ SimulateCharge(r)
            /\ Moves(r, Idle) /\ used' = used
  PROVE  ChargeInv'
<1>1. StoreKeeps /\ executed' = executed /\ receipts' = receipts
  BY DEF VerifyCredential, ChargeFails, SendCharge, ConsumeChallenge, ConsumeProof, SimulateCharge, StoreKeeps
<1>2. \A s \in ChargeRequests : \A d :
        /\ Consumed(s, d)' => Consumed(s, d)
        /\ Proved(s, d)' => Proved(s, d)
        /\ SentCharge(s, d)' => SentCharge(s, d)
  <2>1. CASE \E d, sig : Moves(r, [pc |-> "verified", cred |-> d, sig |-> sig])
    <3>1. PICK d, sig : Moves(r, [pc |-> "verified", cred |-> d, sig |-> sig])  BY <2>1
    <3>2. [pc |-> "verified", cred |-> d, sig |-> sig].pc \notin ConsumedSteps  BY DEF ConsumedSteps
    <3> QED  BY <3>1, <3>2, FreeOf
  <2>2. CASE Moves(r, Idle)
    <3>1. Idle.pc \notin ConsumedSteps  BY DEF Idle, ConsumedSteps
    <3> QED  BY <2>2, <3>1, FreeOf
  <2>3. CASE SendCharge(r)
    <3>1. chargeTasks[r].pc = "sending" /\ Goes(r, "confirming")  BY <2>3 DEF SendCharge, ChargeAt
    <3>2. \A d : /\ Consumed(r, d) <=> d = Cred(r)
                 /\ Proved(r, d) <=> d = Cred(r)
                 /\ SentCharge(r, d) <=> d = Cred(r)
      BY <3>1 DEF Consumed, Proved, SentCharge, ConsumedSteps, ProvedSteps, SentSteps
    <3> QED  BY <3>1, <3>2, MovedTo
  <2> QED  BY <2>1, <2>2, <2>3 DEF VerifyCredential, ChargeFails
<1> QED  BY <1>1, <1>2, GuardsStay

\* The first request that consumes a challenge is the only one.
LEMMA ConsumeChallengeServes ==
  ASSUME ChargeTypes, ChargeInv, NEW r \in ChargeRequests, ConsumeChallenge(r)
  PROVE  ChargeInv'
<1>1. CASE Over(Cred(r).ch) \/ InUse(<<"challenge", Cred(r).ch>>)
  BY <1>1, QuietServes DEF ConsumeChallenge
<1>2. CASE ~(Over(Cred(r).ch) \/ InUse(<<"challenge", Cred(r).ch>>))
  <2>1. PICK c \in credentials : c = Cred(r)  BY ChargeTaskForm DEF ConsumeChallenge, ChargeAt
  <2>2. PICK end \in Nat : end = ChargeExpires(c.ch)  BY CredentialForm
  <2>3. /\ chargeTasks[r].pc = "verified" /\ Goes(r, "consumed") /\ Consumes(<<"challenge", c.ch>>, end)
        /\ UNCHANGED <<chargeClock, issued, credentials, executed, receipts>>
    BY <1>2, <2>1, <2>2 DEF ConsumeChallenge, ChargeAt
  <2>4. StoreKeeps /\ KeptUntil(<<"challenge", c.ch>>, end)'  BY <2>3, ConsumesKeeps
  <2>5. ChallengeSpent(c.ch)'
    <3>1. ChargeExpires(c.ch)' = end  BY <2>2, <2>3 DEF ChargeExpires
    <3> QED  BY <2>4, <3>1 DEF ChallengeSpent, KeptUntil
  <2>6. \A s \in ChargeRequests : \A d :
          /\ Consumed(s, d)' <=> Consumed(s, d) \/ (s = r /\ d = c)
          /\ Proved(s, d)' <=> Proved(s, d)
          /\ SentCharge(s, d)' <=> SentCharge(s, d)
    BY <2>1, <2>3, MovedTo DEF Consumed, Proved, SentCharge, ConsumedSteps, ProvedSteps, SentSteps
  <2>7. ~ChallengeSpent(c.ch)
    <3>1. end > chargeClock  BY <1>2, <2>1, <2>2 DEF Over, ChargeTypes
    <3>2. ~KeptUntil(<<"challenge", c.ch>>, end)  BY <1>2, <2>1, <3>1, SpentIsInUse
    <3> QED  BY <2>2, <3>2 DEF ChallengeSpent
  <2>8. \A d \in credentials : d.ch = c.ch =>
          d \notin Listed(receipts) /\ \A s \in ChargeRequests : ~Consumed(s, d)
    BY <2>7 DEF ChargeInv, ChallengesSpent
  <2>9. ChallengesSpent'
    BY <2>3, <2>4, <2>5, <2>6, SpentStays DEF ChargeInv, ChallengesSpent
  <2>10. OneConsumer'  BY <2>1, <2>3, <2>6, <2>8 DEF ChargeInv, OneConsumer
  <2>11. ProofsSpent' /\ ProvedAgainIsDead'
    BY <2>3, <2>4, <2>6, SpentStays DEF ChargeInv, ProofsSpent, ProvedAgainIsDead
  <2>12. OneChargeSender' /\ ReceiptsOnce'
    BY <2>3, <2>6 DEF ChargeInv, OneChargeSender, ReceiptsOnce
  <2> QED  BY <2>9, <2>10, <2>11, <2>12 DEF ChargeInv
<1> QED  BY <1>1, <1>2

\* A message that is in nobody's use was never seen, or can no longer land.
LEMMA ConsumeProofServes ==
  ASSUME ChargeTypes, ChargeInv, NEW r \in ChargeRequests, ConsumeProof(r)
  PROVE  ChargeInv'
<1>1. CASE InUse(ProofKey(r))
  BY <1>1, QuietServes DEF ConsumeProof
<1>2. CASE ~InUse(ProofKey(r))
  <2>1. PICK c \in credentials : c = Cred(r)  BY ChargeTaskForm DEF ConsumeProof, ChargeAt
  <2>2. PICK end \in Nat : end = ProofRetained(c.ch)  BY CredentialForm
  <2>3. PICK pc \in {"sending", "simulating"} :
          /\ chargeTasks[r].pc = "consumed" /\ Goes(r, pc) /\ Consumes(<<"proof", c.proof>>, end)
          /\ UNCHANGED <<chargeClock, issued, credentials, executed, receipts>>
          /\ pc = "sending" <=> c.ch \in EvmCharges
    BY <1>2, <2>1, <2>2 DEF ConsumeProof, ChargeAt, ProofKey
  <2>4. StoreKeeps /\ KeptUntil(<<"proof", c.proof>>, end)'  BY <2>3, ConsumesKeeps
  <2>5. c.proof.born + MessageLife \in Nat /\ \A u \in used' : u.until \in Nat
    BY <2>3, CredentialForm DEF Consumes, ChargeTypes
  <2>6. ProofSpent(c)'
    <3>1. c.ch \notin EvmCharges => c.proof.born + MessageLife <= end  BY <2>2, CredentialForm
    <3>2. chargeClock' \in Nat  BY <2>3 DEF ChargeTypes
    <3> QED  BY <2>4, <2>5, <3>1, <3>2 DEF ProofSpent, KeptUntil
  <2>7. \A s \in ChargeRequests : \A d :
          /\ Consumed(s, d)' <=> Consumed(s, d)
          /\ Proved(s, d)' <=> Proved(s, d) \/ (s = r /\ d = c)
          /\ SentCharge(s, d)' <=> SentCharge(s, d) \/ (s = r /\ d = c /\ c.ch \in EvmCharges)
    BY <2>1, <2>3, MovedTo DEF Consumed, Proved, SentCharge, ConsumedSteps, ProvedSteps, SentSteps
  <2>8. \A d \in credentials :
          /\ d.proof = c.proof /\ c.ch \notin EvmCharges
          /\ d \in Listed(receipts) \/ \E s \in ChargeRequests : Proved(s, d)
          => Dead(d)
    <3> SUFFICES ASSUME NEW d \in credentials, d.proof = c.proof, c.ch \notin EvmCharges,
                        d \in Listed(receipts) \/ (\E s \in ChargeRequests : Proved(s, d))
                 PROVE  Dead(d)
      OBVIOUS
    <3>1. d.ch \notin EvmCharges  BY <2>1, SameProof
    <3>2. KeptUntil(<<"proof", d.proof>>, d.proof.born + MessageLife)
      BY <3>1 DEF ChargeInv, ProofsSpent, ProofSpent
    <3>3. PICK n \in Nat : n = d.proof.born + MessageLife  BY CredentialForm
    <3>4. ~(n > chargeClock)  BY <1>2, <2>1, <3>2, <3>3, SpentIsInUse DEF ProofKey
    <3> QED  BY <3>1, <3>3, <3>4 DEF Dead, ProofDies, ChargeTypes
  <2>9. \A d \in credentials : d.proof = c.proof /\ c.ch \in EvmCharges =>
          d \notin Listed(receipts) /\ \A s \in ChargeRequests : s # r => ~Proved(s, d)
    <3>1. Consumed(r, c)  BY <2>1, <2>3 DEF Consumed, ConsumedSteps
    <3> QED  BY <2>1, <3>1, SameProof, InPlay DEF ChargeInv, OneConsumer
  <2>10. ChallengesSpent' /\ OneConsumer'
    BY <2>3, <2>4, <2>7, SpentStays DEF ChargeInv, ChallengesSpent, OneConsumer
  <2>11. ProofsSpent'
    BY <2>3, <2>4, <2>6, <2>7, SpentStays DEF ChargeInv, ProofsSpent
  <2>12. ProvedAgainIsDead'
    <3>1. \A d, e \in credentials : d.proof = e.proof => (Dead(d) <=> Dead(e))  BY SameProof
    <3>2. ~\E d : Proved(r, d)  BY <2>3 DEF Proved, ProvedSteps
    <3>3. \A d \in credentials : Dead(d) <=> Dead(d)'  BY <2>4, SpentStays
    <3>4. \A d, e \in credentials : d.proof = e.proof =>
            /\ \A s, q \in ChargeRequests : Proved(s, d)' /\ Proved(q, e)' /\ s # q => Dead(d)
            /\ \A s \in ChargeRequests : Proved(s, d)' /\ e \in Listed(receipts) => Dead(d)
      BY <2>1, <2>7, <2>8, <2>9, <3>1, <3>2 DEF ChargeInv, ProvedAgainIsDead
    <3> QED  BY <2>3, <3>3, <3>4 DEF ProvedAgainIsDead
  <2>13. OneChargeSender'
    <3>1. \A d \in credentials : \A s \in ChargeRequests : SentCharge(s, d) => Proved(s, d)  BY InPlay
    <3> QED  BY <2>1, <2>3, <2>7, <2>9, <3>1 DEF ChargeInv, OneChargeSender
  <2>14. ReceiptsOnce'  BY <2>3 DEF ChargeInv, ReceiptsOnce
  <2> QED  BY <2>10, <2>11, <2>12, <2>13, <2>14 DEF ChargeInv
<1> QED  BY <1>1, <1>2

\* Only a message that can still land passes the simulation.
LEMMA SimulateServes ==
  ASSUME ChargeTypes, ChargeInv, NEW r \in ChargeRequests, SimulateCharge(r)
  PROVE  ChargeInv'
<1>1. CASE Moves(r, Idle)
  BY <1>1, QuietServes DEF SimulateCharge
<1>2. CASE ~Moves(r, Idle)
  <2>1. PICK c \in credentials : c = Cred(r)  BY ChargeTaskForm DEF SimulateCharge, ChargeAt
  <2>2. /\ chargeTasks[r].pc = "simulating" /\ Goes(r, "sending") /\ ~Dead(c)
        /\ UNCHANGED <<chargeClock, issued, credentials, used, executed, receipts>>
    BY <1>2, <2>1 DEF SimulateCharge, ChargeAt, Dead
  <2>3. StoreKeeps  BY <2>2 DEF StoreKeeps
  <2>4. \A s \in ChargeRequests : \A d :
          /\ Consumed(s, d)' <=> Consumed(s, d)
          /\ Proved(s, d)' <=> Proved(s, d)
          /\ SentCharge(s, d)' <=> SentCharge(s, d) \/ (s = r /\ d = c)
    BY <2>1, <2>2, MovedTo DEF Consumed, Proved, SentCharge, ConsumedSteps, ProvedSteps, SentSteps
  <2>5. Proved(r, c)  BY <2>1, <2>2 DEF Proved, ProvedSteps
  <2>6. \A d \in credentials : d.proof = c.proof =>
          d \notin Listed(receipts) /\ \A s \in ChargeRequests : s # r => ~Proved(s, d)
    BY <2>1, <2>2, <2>5 DEF ChargeInv, ProvedAgainIsDead
  <2>7. ChallengesSpent' /\ OneConsumer'
    BY <2>2, <2>3, <2>4, SpentStays DEF ChargeInv, ChallengesSpent, OneConsumer
  <2>8. ProofsSpent' /\ ProvedAgainIsDead'
    BY <2>2, <2>3, <2>4, SpentStays DEF ChargeInv, ProofsSpent, ProvedAgainIsDead
  <2>9. OneChargeSender'
    <3>1. \A d \in credentials : \A s \in ChargeRequests : SentCharge(s, d) => Proved(s, d)  BY InPlay
    <3> QED  BY <2>1, <2>2, <2>4, <2>6, <3>1 DEF ChargeInv, OneChargeSender
  <2>10. ReceiptsOnce'  BY <2>2 DEF ChargeInv, ReceiptsOnce
  <2> QED  BY <2>7, <2>8, <2>9, <2>10 DEF ChargeInv
<1> QED  BY <1>1, <1>2

LEMMA SettledServes ==
  ASSUME ChargeTypes, ChargeInv, NEW r \in ChargeRequests, ChargeSettled(r)
  PROVE  ChargeInv'
<1>1. PICK c \in credentials : c = Cred(r)  BY ChargeTaskForm DEF ChargeSettled, ChargeAt
<1>2. /\ chargeTasks[r].pc = "confirming" /\ Moves(r, Idle) /\ c.proof \in executed
      /\ receipts' = Append(receipts, c)
      /\ UNCHANGED <<chargeClock, issued, credentials, used, executed>>
  BY <1>1 DEF ChargeSettled, ChargeAt
<1>3. StoreKeeps  BY <1>2 DEF StoreKeeps
<1>4. Consumed(r, c) /\ Proved(r, c) /\ SentCharge(r, c)
  BY <1>1, <1>2 DEF Consumed, Proved, SentCharge, ConsumedSteps, ProvedSteps, SentSteps
<1>5. \A s \in ChargeRequests : \A d :
        /\ Consumed(s, d)' => Consumed(s, d) /\ s # r
        /\ Proved(s, d)' => Proved(s, d) /\ s # r
        /\ SentCharge(s, d)' => SentCharge(s, d) /\ s # r
  <2>1. \A s \in ChargeRequests : chargeTasks'[s].pc \in ConsumedSteps => chargeTasks'[s] = chargeTasks[s] /\ s # r
    BY <1>2 DEF Moves, ChargeTypes, Idle, ConsumedSteps
  <2> QED  BY <2>1 DEF Consumed, Proved, SentCharge, Cred, ConsumedSteps, ProvedSteps, SentSteps
<1>6. Listed(receipts') = Listed(receipts) \cup {c}  BY <1>2, AppendListed DEF ChargeTypes
<1>7. ChallengesSpent' /\ ProofsSpent'
  BY <1>2, <1>3, <1>4, <1>5, <1>6, SpentStays DEF ChargeInv, ChallengesSpent, ProofsSpent
<1>8. OneConsumer' /\ OneChargeSender'
  BY <1>2, <1>4, <1>5, <1>6 DEF ChargeInv, OneConsumer, OneChargeSender
<1>9. ProvedAgainIsDead'
  BY <1>2, <1>3, <1>4, <1>5, <1>6, SpentStays DEF ChargeInv, ProvedAgainIsDead
<1>10. ReceiptsOnce'
  <2>1. \A d \in Listed(receipts') : d.proof \in executed'
    BY <1>2, <1>6 DEF ChargeInv, ReceiptsOnce
  <2>2. \A d \in Listed(receipts) : d.ch # c.ch /\ d.proof # c.proof
    BY <1>4, InPlay DEF ChargeInv, OneConsumer, OneChargeSender
  <2>3. /\ Len(receipts) \in Nat /\ DOMAIN receipts = 1..Len(receipts)
        /\ DOMAIN receipts' = 1..(Len(receipts) + 1) /\ receipts'[Len(receipts) + 1] = c
        /\ \A i \in 1..Len(receipts) : receipts'[i] = receipts[i] /\ receipts[i] \in Listed(receipts)
    BY <1>2 DEF ChargeTypes, Listed
  <2>4. ASSUME NEW i \in 1..(Len(receipts) + 1), NEW j \in 1..(Len(receipts) + 1),
               receipts'[i].ch = receipts'[j].ch \/ receipts'[i].proof = receipts'[j].proof
        PROVE  i = j
    <3>1. CASE i = Len(receipts) + 1  BY <2>2, <2>3, <2>4, <3>1
    <3>2. CASE j = Len(receipts) + 1  BY <2>2, <2>3, <2>4, <3>2
    <3>3. CASE i \in 1..Len(receipts) /\ j \in 1..Len(receipts)
      BY <2>3, <2>4, <3>3 DEF ChargeInv, ReceiptsOnce
    <3> QED  BY <2>3, <3>1, <3>2, <3>3
  <2> QED  BY <2>1, <2>3, <2>4 DEF ReceiptsOnce
<1> QED  BY <1>7, <1>8, <1>9, <1>10 DEF ChargeInv

LEMMA ChargeStep ==
  ASSUME ChargeTypes, ChargeInv, [ChargeNext]_chargeVars
  PROVE  ChargeInv'
<1>1. CASE ChargeLands \/ UNCHANGED chargeVars
  <2>1. /\ StoreKeeps /\ executed \subseteq executed'
        /\ UNCHANGED <<receipts, chargeTasks>>
    BY <1>1 DEF ChargeLands, chargeVars, StoreKeeps
  <2> QED  BY <2>1, GuardsStay DEF Consumed, Proved, SentCharge, Cred
<1>2. CASE ChargeNext /\ ~ChargeLands
  BY <1>2, TickServes, IssueServes, PayChargeServes, QuietServes, ConsumeChallengeServes, ConsumeProofServes,
     SimulateServes, SettledServes DEF ChargeNext
<1> QED  BY <1>1, <1>2

-----------------------------------------------------------------------------
(* Solana transfers: what a transaction moves. *)

LEMMA SumOfOne ==
  ASSUME NEW x, NEW n \in Nat
  PROVE  SumFunction([y \in {x} |-> n]) = n
<1> DEFINE g == [y \in {} |-> n]
           h == [y \in {} \cup {x} |-> n]
<1>1. IsFiniteSet({})
  BY FS_EmptySet
<1>2. g \in [{} -> Nat] /\ h \in [{} \cup {x} -> Nat] /\ h[x] = n /\ DOMAIN g = {}
  OBVIOUS
<1>3. SumFunction(h) = SumFunction(g) + h[x]
  <2>1. x \notin {} /\ \A y \in {} : h[y] = g[y]
    OBVIOUS
  <2> HIDE DEF g, h
  <2> QED
    BY <1>1, <1>2, <2>1, SumAdds
<1>4. SumFunction(g) = 0
  <2> HIDE DEF g
  <2> QED
    BY <1>2, SumEmpty
<1>5. [y \in {x} |-> n] = h
  OBVIOUS
<1> HIDE DEF g, h
<1> QED
  BY <1>2, <1>3, <1>4, <1>5

LEMMA NothingMoves ==
  ASSUME NEW tx, NEW account, Movements(tx) = {}
  PROVE  Gains(tx, account) = 0
<1>1. {i \in Movements(tx) : tx.ixs[i].to = account} = {} /\ {i \in Movements(tx) : tx.ixs[i].from = account} = {}
  OBVIOUS
<1>2. SumFunction([i \in {} |-> tx.ixs[i].amount]) = 0
  BY SumEmpty
<1> QED
  BY <1>1, <1>2 DEF Gains

\* A transaction that moves tokens once, from one account to another.
MovesOnly(tx, n, from, to) ==
  /\ Movements(tx) = {n} /\ tx.ixs[n].amount = Amount
  /\ tx.ixs[n].from = from /\ tx.ixs[n].to = to /\ from # to

LEMMA OneMoves ==
  ASSUME NEW tx, NEW n, NEW from, NEW to, MovesOnly(tx, n, from, to), NEW account
  PROVE  Gains(tx, account) = IF account = to THEN Amount ELSE IF account = from THEN -Amount ELSE 0
<1> DEFINE In(S) == SumFunction([i \in S |-> tx.ixs[i].amount])
           into == {i \in Movements(tx) : tx.ixs[i].to = account}
           outof == {i \in Movements(tx) : tx.ixs[i].from = account}
<1>1. In({}) = 0
  BY SumEmpty
<1>2. In({n}) = Amount
  <2>1. [i \in {n} |-> tx.ixs[i].amount] = [i \in {n} |-> Amount]
    BY DEF MovesOnly
  <2> QED
    BY <2>1, SumOfOne, AmountAssumption
<1>3. into = (IF account = to THEN {n} ELSE {}) /\ outof = (IF account = from THEN {n} ELSE {}) /\ from # to
  BY DEF MovesOnly
<1>4. Gains(tx, account) = In(into) - In(outof)
  BY DEF Gains
<1> HIDE DEF In, into, outof
<1> QED
  BY <1>1, <1>2, <1>3, <1>4, AmountAssumption

\* It pays the recipient, and takes nothing from whoever does not own its source.
LEMMA OnePays ==
  ASSUME NEW tx, NEW n, NEW from, MovesOnly(tx, n, from, Ata(Recipient))
  PROVE  /\ OwnerGains(tx, Recipient) = Amount
         /\ from.owner # Sponsor => OwnerGains(tx, Sponsor) = 0
         /\ from = Ata(Payer) => OwnerGains(tx, Payer) = -Amount
<1> DEFINE other(w) == [owner |-> w, assoc |-> FALSE]
<1>1. OwnerGains(tx, Recipient) = Gains(tx, Ata(Recipient)) + 0 /\ Gains(tx, Ata(Recipient)) = Amount
  BY OneMoves DEF OwnerGains
<1>2. \A w : w # Recipient => Ata(w) # Ata(Recipient) /\ other(w) # Ata(Recipient)
  BY DEF Ata
<1>3. \A w : Ata(w).owner = w /\ other(w).owner = w /\ Ata(w) # other(w)
  BY DEF Ata
<1>4. \A w : w # Recipient => OwnerGains(tx, w) = Gains(tx, Ata(w)) + Gains(tx, other(w))
  BY DEF OwnerGains
<1> HIDE DEF other
<1>5. ASSUME from.owner # Sponsor
      PROVE  OwnerGains(tx, Sponsor) = 0
  <2>1. Gains(tx, Ata(Sponsor)) = 0
    BY <1>2, <1>3, <1>5, OneMoves, WalletsAssumption
  <2>2. Gains(tx, other(Sponsor)) = 0
    BY <1>2, <1>3, <1>5, OneMoves, WalletsAssumption
  <2> QED
    BY <1>4, <2>1, <2>2, WalletsAssumption
<1>6. ASSUME from = Ata(Payer)
      PROVE  OwnerGains(tx, Payer) = -Amount
  <2>1. Gains(tx, Ata(Payer)) = -Amount
    BY <1>2, <1>6, OneMoves, WalletsAssumption
  <2>2. Gains(tx, other(Payer)) = 0
    BY <1>2, <1>3, <1>6, OneMoves, WalletsAssumption
  <2> QED
    BY <1>4, <2>1, <2>2, WalletsAssumption, AmountAssumption
<1> QED
  BY <1>1, <1>5, <1>6, AmountAssumption
-----------------------------------------------------------------------------
(* Solana transfers: the instructions of a transaction. *)

Instructions == {Limit, Price(TRUE), Price(FALSE), Memo(TRUE), Memo(FALSE), Lighthouse, Stranger, Asked(Payer)}
                \cup Transfers \cup Approvals \cup ChannelOpens

LEMMA ShortSequences ==
  ASSUME NEW S, NEW a \in S, NEW b \in S
  PROVE  <<>> \in Seq(S) /\ <<a>> \in Seq(S) /\ <<a, b>> \in Seq(S)
OBVIOUS

LEMMA InstructionsListed ==
  ASSUME NEW tx \in Transactions
  PROVE  tx.ixs \in Seq(Instructions) /\ Len(tx.ixs) > 0
<1> DEFINE Lists == {Body(p, t, s) : p \in Prefixes, t \in Transfers \cup Approvals \cup ChannelOpens, s \in Suffixes}
<1>0. tx.ixs \in Lists
  <2> HIDE DEF Lists
  <2>1. Transactions = [feePayer : {Payer, Sponsor}, signers : {{Payer}, {Sponsor}, {Payer, Sponsor}}, ixs : Lists]
    BY DEF Transactions, Lists
  <2> QED
    BY <2>1
<1>1. PICK p \in Prefixes, t \in Transfers \cup Approvals \cup ChannelOpens, s \in Suffixes : tx.ixs = Body(p, t, s)
  BY <1>0, SMTT(30)
<1>2. p \in Seq(Instructions)
  <2>1. Limit \in Instructions /\ Price(TRUE) \in Instructions /\ Price(FALSE) \in Instructions
    BY DEF Instructions
  <2>2. p \in {<<Limit, Price(FALSE)>>, <<Limit, Price(TRUE)>>, <<Price(FALSE), Limit>>, <<Limit>>, <<>>}
    BY DEF Prefixes
  <2> QED
    BY <2>1, <2>2, ShortSequences
<1>3. <<t>> \in Seq(Instructions)
  <2>1. t \in Instructions
    BY DEF Instructions
  <2> QED
    BY <2>1
<1>4. s \in Seq(Instructions)
  <2>1. Extras \subseteq Instructions /\ Lighthouse \in Instructions
    BY DEF Instructions, Extras
  <2>2. s \in {<<>>} \cup {<<a>> : a \in Extras} \cup {<<a, b>> : a \in Extras, b \in Extras}
    BY DEF Suffixes
  <2>3. s = <<>> \/ (\E a \in Extras : s = <<a>>) \/ \E a, b \in Extras : s = <<a, b>>
    BY <2>2, SMTT(30)
  <2> QED
    BY <2>1, <2>3, ShortSequences
<1>5. p \o <<t>> \in Seq(Instructions) /\ Len(p \o <<t>>) = Len(p) + 1
  BY <1>2, <1>3, ConcatProperties
<1>6. Body(p, t, s) \in Seq(Instructions) /\ Len(Body(p, t, s)) = Len(p) + 1 + Len(s)
  BY <1>4, <1>5, ConcatProperties DEF Body
<1> QED
  BY <1>1, <1>2, <1>4, <1>6

LEMMA OneOf ==
  ASSUME NEW tx \in Transactions, NEW prog, Cardinality(Of(tx, prog)) = 1
  PROVE  \E n \in DOMAIN tx.ixs : Of(tx, prog) = {n}
<1>1. IsFiniteSet(Of(tx, prog))
  <2>1. Len(tx.ixs) \in Nat /\ DOMAIN tx.ixs = 1..Len(tx.ixs)
    BY InstructionsListed
  <2>2. Of(tx, prog) \subseteq 1..Len(tx.ixs)
    BY <2>1 DEF Of
  <2>3. \A n \in Nat : IsFiniteSet(1..n)
    BY FS_Interval
  <2>4. IsFiniteSet(1..Len(tx.ixs))
    BY <2>1, <2>3
  <2> QED
    BY <2>2, <2>4, FS_Subset
<1>2. \E n : Of(tx, prog) = {n}
  BY <1>1, FS_Singleton
<1> QED
  BY <1>2 DEF Of

LEMMA FirstThree ==
  ASSUME NEW S, NEW s \in Seq(S), Len(s) \in 3..6, NEW a, NEW b, NEW c, SubSeq(s, 1, 3) = <<a, b, c>>
  PROVE  s[1] = a /\ s[2] = b /\ s[3] = c
<1> DEFINE t == SubSeq(s, 1, 3)
<1>1. \A i \in 1..3 : s[i] \in S
  OBVIOUS
<1>2. \A i \in 1..(3 - 1 + 1) : t[i] = s[1 + i - 1]
  BY <1>1, SubSeqProperties
<1>3. t = <<a, b, c>>
  OBVIOUS
<1> HIDE DEF t
<1>4. \A i \in 1..3 : t[i] = s[i]
  BY <1>2
<1>5. t[1] = s[1] /\ t[2] = s[2] /\ t[3] = s[3]
  BY <1>4
<1>6. t[1] = a /\ t[2] = b /\ t[3] = c
  BY <1>3
<1> QED
  BY <1>5, <1>6

\* Every other instruction moves nothing.
LEMMA OthersMoveNothing ==
  ASSUME NEW ix, ix \in {Limit, Price(TRUE), Price(FALSE), Memo(TRUE), Memo(FALSE), Lighthouse}
  PROVE  ix.prog \notin {"token", "channel"}
BY DEF Limit, Price, Memo, Lighthouse

LEMMA ClientMoves ==
  ASSUME NEW tx \in Transactions, NEW allow, ClientAccepts(tx, allow)
  PROVE  MovesOnly(tx, 3, Ata(Payer), Ata(Recipient)) /\ Spends(tx) = {3}
<1>0. SubSeq(tx.ixs, 1, 3) = <<Limit, Price(FALSE), Asked(Payer)>>
  BY DEF ClientAccepts
<1>1. Len(tx.ixs) \in 3..6 /\ \A i \in 4..Len(tx.ixs) : tx.ixs[i] \in {Memo(TRUE), Lighthouse}
  BY DEF ClientAccepts
<1>2. DOMAIN tx.ixs = 1..Len(tx.ixs) /\ tx.ixs \in Seq(Instructions)
  BY InstructionsListed
<1>3. tx.ixs[1] = Limit /\ tx.ixs[2] = Price(FALSE) /\ tx.ixs[3] = Asked(Payer)
  <2>1. Len(tx.ixs) \in 3..6
    BY DEF ClientAccepts
  <2> QED
    BY <1>0, <1>2, <2>1, FirstThree
<1>4. \A i \in DOMAIN tx.ixs : i # 3 => tx.ixs[i].prog \notin {"token", "channel"}
  <2> SUFFICES ASSUME NEW i \in DOMAIN tx.ixs, i # 3 PROVE tx.ixs[i].prog \notin {"token", "channel"}
    OBVIOUS
  <2>1. tx.ixs[i] \in {Limit, Price(FALSE), Memo(TRUE), Lighthouse}
    <3>1. i = 1 \/ i = 2 \/ i \in 4..Len(tx.ixs)
      BY <1>1, <1>2
    <3> QED
      BY <1>1, <1>3, <3>1
  <2> QED
    BY <2>1, OthersMoveNothing
<1>5. tx.ixs[3].prog = "token" /\ tx.ixs[3].op = "transfer" /\ 3 \in DOMAIN tx.ixs
  BY <1>1, <1>2, <1>3 DEF Asked, Transfer
<1>6. Spends(tx) = {3}
  BY <1>4, <1>5 DEF Spends, Of
<1>7. Movements(tx) = {3}
  BY <1>5, <1>6 DEF Movements
<1> QED
  BY <1>3, <1>6, <1>7, WalletsAssumption DEF MovesOnly, Asked, Transfer, Ata

LEMMA X402Moves ==
  ASSUME NEW tx \in Transactions, VerifiesSvm(tx)
  PROVE  MovesOnly(tx, 3, tx.ixs[3].from, Ata(Recipient)) /\ tx.ixs[3].from.owner # Sponsor
<1>1. /\ Len(tx.ixs) \in 3..6 /\ tx.ixs[1] = Limit /\ tx.ixs[2] = Price(FALSE)
      /\ tx.ixs[3].prog = "token" /\ tx.ixs[3].op = "transfer"
      /\ tx.ixs[3].to = Ata(Recipient) /\ tx.ixs[3].amount = Amount /\ tx.ixs[3].from # tx.ixs[3].to
      /\ \A i \in 4..Len(tx.ixs) : tx.ixs[i] \in {Memo(TRUE), Lighthouse}
      /\ tx.ixs[3].from.owner # Sponsor
  BY DEF VerifiesSvm, X402Accepts
<1>2. DOMAIN tx.ixs = 1..Len(tx.ixs)
  BY InstructionsListed
<1>3. \A i \in DOMAIN tx.ixs : i # 3 => tx.ixs[i].prog \notin {"token", "channel"}
  <2> SUFFICES ASSUME NEW i \in DOMAIN tx.ixs, i # 3 PROVE tx.ixs[i].prog \notin {"token", "channel"}
    OBVIOUS
  <2>1. i = 1 \/ i = 2 \/ i \in 4..Len(tx.ixs)
    BY <1>1, <1>2
  <2>2. tx.ixs[i] \in {Limit, Price(FALSE), Memo(TRUE), Lighthouse}
    BY <1>1, <2>1
  <2> QED
    BY <2>2, OthersMoveNothing
<1>4. Movements(tx) = {3}
  BY <1>1, <1>2, <1>3 DEF Movements, Spends, Of
<1> QED
  BY <1>1, <1>4 DEF MovesOnly

LEMMA MppMoves ==
  ASSUME NEW tx \in Transactions, NEW sponsored, MppAccepts(tx, sponsored)
  PROVE  \E n : MovesOnly(tx, n, tx.ixs[n].from, Ata(Recipient))
<1>1. /\ Programs(tx) \subseteq {"limit", "price", "memo", "token"} /\ Cardinality(Of(tx, "token")) = 1
      /\ \A i \in Of(tx, "token") : /\ tx.ixs[i].op = "transfer" /\ tx.ixs[i].to = Ata(Recipient)
                                    /\ tx.ixs[i].amount = Amount /\ tx.ixs[i].from # tx.ixs[i].to
  BY DEF MppAccepts
<1>2. PICK n \in DOMAIN tx.ixs : Of(tx, "token") = {n}
  BY <1>1, OneOf
<1>3. Of(tx, "channel") = {}
  BY <1>1 DEF Programs, Of
<1>4. Movements(tx) = {n}
  BY <1>1, <1>2, <1>3 DEF Movements, Spends
<1> QED
  BY <1>1, <1>2, <1>4 DEF MovesOnly

\* In a sponsored one it is the payer, whose account pays no fee, that authorizes the
\* transfer.
LEMMA MppAuthorized ==
  ASSUME NEW tx \in Transactions, MppAccepts(tx, TRUE)
  PROVE  \A i \in Movements(tx) : tx.ixs[i].authority # Sponsor
<1>1. /\ Programs(tx) \subseteq {"limit", "price", "memo", "token"}
      /\ \A i \in Of(tx, "token") : tx.ixs[i].authority = Payer
  BY DEF MppAccepts
<1>2. Of(tx, "channel") = {}
  BY <1>1 DEF Programs, Of
<1>3. Movements(tx) \subseteq Of(tx, "token")
  BY <1>2 DEF Movements, Spends
<1> QED
  BY <1>1, <1>3, WalletsAssumption

LEMMA OwnerMoves ==
  ASSUME NEW tx \in Transactions, OwnerAccepts(tx)
  PROVE  Movements(tx) = {} /\ \A i \in Of(tx, "token") : tx.ixs[i] = AskedApproval
<1>1. /\ Programs(tx) \subseteq {"limit", "price", "lighthouse", "token"}
      /\ {tx.ixs[i] : i \in Of(tx, "token")} = {AskedApproval}
  BY DEF OwnerAccepts
<1>2. \A i \in Of(tx, "token") : tx.ixs[i] = AskedApproval
  BY <1>1
<1>3. Of(tx, "channel") = {}
  BY <1>1 DEF Programs, Of
<1>4. AskedApproval.prog = "token" /\ AskedApproval.op = "approve"
  BY DEF AskedApproval, Approve
<1> QED
  BY <1>2, <1>3, <1>4 DEF Movements, Spends

LEMMA OpenMoves ==
  ASSUME NEW tx \in Transactions, OpenAccepts(tx)
  PROVE  MovesOnly(tx, 1, Ata(Payer), Ata(Recipient))
<1>1. tx.ixs[1] = Open(Amount) /\ \A i \in 2..Len(tx.ixs) : tx.ixs[i] = Lighthouse
  BY DEF OpenAccepts
<1>2. tx.ixs \in Seq(Instructions) /\ DOMAIN tx.ixs = 1..Len(tx.ixs) /\ Len(tx.ixs) \in Nat
  BY InstructionsListed
<1>3. 1 \in DOMAIN tx.ixs
  <2>1. Len(tx.ixs) # 0
    BY InstructionsListed
  <2> QED
    BY <1>2, <2>1
<1>4. \A i \in DOMAIN tx.ixs : i # 1 => tx.ixs[i].prog \notin {"token", "channel"}
  <2>1. \A i \in DOMAIN tx.ixs : i # 1 => i \in 2..Len(tx.ixs)
    BY <1>2
  <2> QED
    BY <1>1, <2>1, OthersMoveNothing
<1>5. /\ Open(Amount).prog = "channel" /\ Open(Amount).amount = Amount
      /\ Open(Amount).from = Ata(Payer) /\ Open(Amount).to = Ata(Recipient)
  BY DEF Open
<1>6. Movements(tx) = {1}
  BY <1>1, <1>3, <1>4, <1>5 DEF Movements, Spends, Of
<1> QED
  BY <1>1, <1>5, <1>6, WalletsAssumption DEF MovesOnly, Ata

\* What the MPP client sends is the asked transfer, with our memo after it.
LEMMA SentIsTaken ==
  ASSUME NEW tx \in Transactions, ClientAccepts(tx, FALSE), Sponsor \notin tx.signers
  PROVE  VerifiesSvm(tx) /\ MppAccepts(tx, TRUE) /\ SettlementVerified(tx)
<1>1. MovesOnly(tx, 3, Ata(Payer), Ata(Recipient)) /\ Spends(tx) = {3}
  BY ClientMoves
<1>0. SubSeq(tx.ixs, 1, 3) = <<Limit, Price(FALSE), Asked(Payer)>>
  BY DEF ClientAccepts
<1>2. /\ Len(tx.ixs) \in 3..6 /\ \A i \in 4..Len(tx.ixs) : tx.ixs[i] = Memo(TRUE)
      /\ tx.feePayer = Sponsor /\ Payer \in tx.signers /\ Cardinality(Required(tx)) = 2
      /\ Cardinality(Of(tx, "memo")) = 1
  BY DEF ClientAccepts
<1>3. DOMAIN tx.ixs = 1..Len(tx.ixs) /\ tx.ixs \in Seq(Instructions)
  BY InstructionsListed
<1>4. tx.ixs[1] = Limit /\ tx.ixs[2] = Price(FALSE) /\ tx.ixs[3] = Asked(Payer)
  <2>1. Len(tx.ixs) \in 3..6
    BY DEF ClientAccepts
  <2> QED
    BY <1>0, <1>3, <2>1, FirstThree
<1>5. /\ tx.ixs[3].prog = "token" /\ tx.ixs[3].op = "transfer" /\ tx.ixs[3].to = Ata(Recipient)
      /\ tx.ixs[3].amount = Amount /\ tx.ixs[3].from = Ata(Payer) /\ tx.ixs[3].authority = Payer
      /\ Ata(Payer) # Ata(Recipient) /\ Ata(Payer) # Ata(Sponsor) /\ Ata(Payer).owner = Payer
  BY <1>4, WalletsAssumption DEF Asked, Transfer, Ata
<1>6. VerifiesSvm(tx)
  <2>1. ~DrainsSponsor(tx.ixs[3])
    BY <1>5, WalletsAssumption DEF DrainsSponsor
  <2> QED
    BY <1>0, <1>2, <1>4, <1>5, <2>1, WalletsAssumption DEF VerifiesSvm, X402Accepts
<1>7. \A i \in DOMAIN tx.ixs :
        \/ i = 1 /\ tx.ixs[i].prog = "limit"
        \/ i = 2 /\ tx.ixs[i].prog = "price" /\ tx.ixs[i] # Price(TRUE)
        \/ i = 3 /\ tx.ixs[i].prog = "token"
        \/ i \in 4..Len(tx.ixs) /\ tx.ixs[i].prog = "memo" /\ tx.ixs[i] = Memo(TRUE)
  <2> SUFFICES ASSUME NEW i \in DOMAIN tx.ixs
               PROVE  \/ i = 1 /\ tx.ixs[i].prog = "limit"
                      \/ i = 2 /\ tx.ixs[i].prog = "price" /\ tx.ixs[i] # Price(TRUE)
                      \/ i = 3 /\ tx.ixs[i].prog = "token"
                      \/ i \in 4..Len(tx.ixs) /\ tx.ixs[i].prog = "memo" /\ tx.ixs[i] = Memo(TRUE)
    OBVIOUS
  <2>1. i = 1 \/ i = 2 \/ i = 3 \/ i \in 4..Len(tx.ixs)
    BY <1>2, <1>3
  <2> QED
    BY <1>2, <1>4, <1>5, <2>1 DEF Limit, Price, Memo
<1>8. MppAccepts(tx, TRUE)
  <2>1. Of(tx, "limit") = {1} /\ Of(tx, "price") = {2} /\ Of(tx, "token") = {3}
    <3>1. 1 \in DOMAIN tx.ixs /\ 2 \in DOMAIN tx.ixs /\ 3 \in DOMAIN tx.ixs
      <4> DEFINE n == Len(tx.ixs)
      <4>1. n \in 3..6
        BY DEF ClientAccepts
      <4>2. DOMAIN tx.ixs = 1..n
        BY <1>3
      <4> HIDE DEF n
      <4> QED
        BY <4>1, <4>2
    <3>2. \A i \in DOMAIN tx.ixs : i \in 4..Len(tx.ixs) => i # 1 /\ i # 2 /\ i # 3
      BY <1>3
    <3>3. tx.ixs[1].prog = "limit" /\ tx.ixs[2].prog = "price" /\ tx.ixs[3].prog = "token"
      BY <1>4 DEF Limit, Price, Asked, Transfer
    <3> QED
      BY <1>7, <3>1, <3>2, <3>3 DEF Of
  <2>2. \A n : Cardinality({n}) = 1
    BY FS_Singleton
  <2>3. \A prog \in {"limit", "price", "memo"} : Cardinality(Of(tx, prog)) <= 1
    <3>1. Cardinality(Of(tx, "limit")) = 1 /\ Cardinality(Of(tx, "price")) = 1
      BY <2>1, <2>2
    <3> QED
      BY <1>2, <3>1
  <2>4. Cardinality(Of(tx, "token")) = 1
    BY <2>1, <2>2
  <2>5. Programs(tx) \subseteq {"limit", "price", "memo", "token"}
    BY <1>7 DEF Programs
  <2>6. \A i \in Of(tx, "memo") : tx.ixs[i] = Memo(TRUE)
    BY <1>7 DEF Of
  <2>7. Price(TRUE) \notin {tx.ixs[i] : i \in DOMAIN tx.ixs}
    <3>1. Price(TRUE).prog = "price"
      BY DEF Price
    <3> QED
      BY <1>7, <3>1
  <2>8. Required(tx) = {Sponsor, Payer}
    BY <1>1, <1>2, <1>5 DEF Required
  <2> QED
    BY <1>2, <1>5, <2>1, <2>3, <2>4, <2>5, <2>6, <2>7, <2>8 DEF MppAccepts
<1>9. SettlementVerified(tx)
  <2>1. Runs(tx)
    BY <1>7 DEF Runs, Programs
  <2>2. OwnerGains(tx, Recipient) = Amount /\ OwnerGains(tx, Payer) = -Amount
    BY <1>1, OnePays
  <2> QED
    BY <2>1, <2>2, AmountAssumption DEF SettlementVerified
<1> QED
  BY <1>6, <1>8, <1>9

-----------------------------------------------------------------------------
(* The types of the suite. *)

\* What x402Fetch pays is a requirement that it has a scheme for.
PayBounds ==
  /\ PayTypeOK
  /\ \A f \in PayFetches : fetches[f].pc = "approving" => fetches[f].req.rail \in {"evm", "svm"}

LEMMA SelectedIsPayable ==
  ASSUME NEW accepts \in Challenges, Payable(accepts) # {}
  PROVE  Selected(accepts).rail \in {"evm", "svm"}
<1>1. Payable(accepts) \subseteq Nat
  BY ChallengesAssumption DEF Payable
<1>2. \E i \in Payable(accepts) : \A j \in Payable(accepts) : i <= j
  BY <1>1, LeastNat
<1>3. \E i \in Payable(accepts) : Selected(accepts) = accepts[i]
  BY <1>2 DEF Selected
<1> QED
  BY <1>3 DEF Payable, EvmSupported, SvmSupported

LEMMA ClientBounds ==
  ASSUME PayTypes, PayBounds, NEW f \in PayFetches, Challenged(f) \/ SignPayment(f)
  PROVE  PayBounds'
<1>1. UNCHANGED <<payClock, claims, pool, landed>>
  BY DEF Challenged, SignPayment, server
<1>2. CASE Challenged(f)
  <2>1. PICK t : /\ fetches' = [fetches EXCEPT ![f] = t]
                 /\ t.pc = "approving" => t.req.rail \in {"evm", "svm"}
    <3>1. PICK redirected \in BOOLEAN, own \in BOOLEAN, accepts \in Challenges :
             fetches' = [fetches EXCEPT ![f] =
               IF redirected \/ ~own \/ Payable(accepts) = {} THEN [pc |-> "refused"]
               ELSE [pc |-> "approving", req |-> Selected(accepts)]]
      BY <1>2 DEF Challenged
    <3> DEFINE refused == [pc |-> "refused"]
               approving == [pc |-> "approving", req |-> Selected(accepts)]
    <3>2. CASE redirected \/ ~own \/ Payable(accepts) = {}
      <4>1. fetches' = [fetches EXCEPT ![f] = refused] /\ refused.pc # "approving"
        BY <3>1, <3>2
      <4> HIDE DEF refused
      <4> QED
        BY <4>1
    <3>3. CASE ~(redirected \/ ~own \/ Payable(accepts) = {})
      <4>1. Selected(accepts).rail \in {"evm", "svm"}
        BY <3>3, SelectedIsPayable
      <4>2. fetches' = [fetches EXCEPT ![f] = approving] /\ approving.req = Selected(accepts)
        BY <3>1, <3>3
      <4> HIDE DEF approving
      <4> QED
        BY <4>1, <4>2
    <3> QED
      BY <3>2, <3>3
  <2>2. UNCHANGED signedPays
    BY <1>2 DEF Challenged
  <2> QED
    BY <1>1, <2>1, <2>2 DEF PayBounds, PayTypeOK
<1>3. CASE SignPayment(f)
  <2> DEFINE req == fetches[f].req
             p == [rail |-> req.rail, born |-> payClock, unique |-> IF req.rail = "svm" /\ req.fixedMemo THEN None ELSE f]
  <2>1. /\ fetches[f].pc = "approving"
        /\ \E t \in {[pc |-> "refused"], [pc |-> "paying"]} : fetches' = [fetches EXCEPT ![f] = t]
        /\ signedPays' \subseteq signedPays \cup {p}
    BY <1>3 DEF SignPayment
  <2>2. p \in Payments
    BY <2>1 DEF PayBounds, PayTypeOK, Payments
  <2>3. signedPays' \subseteq Payments
    BY <2>1, <2>2 DEF PayBounds, PayTypeOK
  <2>4. \A g \in PayFetches : fetches'[g].pc = "approving" => fetches'[g].req.rail \in {"evm", "svm"}
    BY <2>1 DEF PayBounds
  <2> QED
    BY <1>1, <2>3, <2>4 DEF PayBounds, PayTypeOK
<1> QED
  BY <1>2, <1>3

LEMMA ServerBounds ==
  ASSUME PayTypes, PayTypes', PayBounds, NEW r \in PayRequests,
         \/ VerifyPayment(r) \/ SettleBegins(r) \/ FeePayerSigns(r) \/ Simulates(r)
         \/ SettleRefused(r) \/ Broadcast(r) \/ Confirmed(r) \/ Unknown(r)
  PROVE  PayBounds'
<1>1. UNCHANGED <<payClock, fetches, signedPays, landed>>
  BY DEF VerifyPayment, SettleBegins, FeePayerSigns, Simulates, SettleRefused, Broadcast, Confirmed, Unknown, client
<1>2. \A c \in claims' : c.holder \in PayRequests \cup {None}
  <2>1. \/ claims' = claims
        \/ \E t : claims' = Claim(r, t) \/ claims' = Released(r, ClaimKey(t)) \/ claims' = Committed(r, t)
    BY DEF VerifyPayment, SettleBegins, FeePayerSigns, Simulates, SettleRefused, Broadcast, Confirmed, Unknown,
           Refused, Served, KeepsClaim
  <2>2. \A c \in claims : c.holder \in PayRequests \cup {None}
    BY DEF PayBounds, PayTypeOK
  <2> QED
    BY <2>1, <2>2 DEF Claim, Released, Committed, LiveClaims, HeldClaims
<1>3. \A c \in claims' : c.until \in Nat
  BY DEF PayTypes
<1>4. \A b \in pool' : b.pay \in Payments /\ b.by \in PayRequests
  <2>1. CASE Broadcast(r)
    <3>1. pool' \subseteq pool \cup {[pay |-> payTasks[r].pay, by |-> r]} /\ payTasks[r].pc = "sending"
      BY <2>1 DEF Broadcast, Handling
    <3>2. payTasks[r].pay \in Payments
      BY <3>1, TaskForm DEF PayBounds, PayTypeOK
    <3> QED
      BY <3>1, <3>2 DEF PayBounds, PayTypeOK
  <2>2. CASE UNCHANGED pool
    BY <2>2 DEF PayBounds, PayTypeOK
  <2> QED
    BY <2>1, <2>2 DEF VerifyPayment, SettleBegins, FeePayerSigns, Simulates, SettleRefused, Confirmed, Unknown
<1> QED
  BY <1>1, <1>2, <1>3, <1>4 DEF PayBounds, PayTypeOK

LEMMA PayBoundsStep ==
  ASSUME PayTypes, PayTypes', PayBounds, [PayNext]_payVars
  PROVE  PayBounds'
<1>1. CASE UNCHANGED payVars
  BY <1>1 DEF payVars, PayBounds, PayTypeOK
<1>2. CASE PayTick
  <2>1. payClock' \in 0..MaxPayClock
    BY <1>2, PayClockAssumption DEF PayTick, PayBounds, PayTypeOK
  <2>2. pool' \subseteq pool /\ UNCHANGED <<fetches, signedPays, claims, landed>>
    BY <1>2 DEF PayTick, client
  <2> QED
    BY <2>1, <2>2 DEF PayBounds, PayTypeOK
<1>3. CASE Lands
  <2>1. pool' \cup landed' \subseteq pool \cup landed /\ UNCHANGED <<payClock, fetches, signedPays, claims>>
    BY <1>3 DEF Lands, client
  <2> QED
    BY <2>1 DEF PayBounds, PayTypeOK
<1>4. CASE ServerRestarts
  BY <1>4 DEF ServerRestarts, PayBounds, PayTypeOK, client
<1> QED
  BY <1>1, <1>2, <1>3, <1>4, ClientBounds, ServerBounds DEF PayNext

LEMMA ChargeBoundsStep ==
  ASSUME ChargeTypes, ChargeTypes', ChargeTypeOK, [ChargeNext]_chargeVars
  PROVE  ChargeTypeOK'
<1>1. chargeClock' \in 0..MaxChargeClock
  <2>1. CASE ChargeTick
    BY <2>1, ChargeClockAssumption DEF ChargeTypeOK, ChargeTick
  <2>2. CASE UNCHANGED chargeClock
    BY <2>2 DEF ChargeTypeOK
  <2> QED
    BY <2>1, <2>2 DEF ChargeNext, chargeVars, ChargeLands, IssueChallenge, PayCharge,
       VerifyCredential, ConsumeChallenge, ConsumeProof, SimulateCharge, SendCharge, ChargeSettled, ChargeFails
<1>2. \A c \in Charges : issued'[c] \in 0..MaxChargeClock \cup {None}
  <2>1. CASE \E c \in Charges : IssueChallenge(c)
    BY <2>1 DEF IssueChallenge, ChargeTypeOK
  <2>2. CASE UNCHANGED issued
    BY <2>2 DEF ChargeTypeOK
  <2> QED
    BY <2>1, <2>2 DEF ChargeNext, chargeVars, ChargeTick, ChargeLands, PayCharge, VerifyCredential,
       ConsumeChallenge, ConsumeProof, SimulateCharge, SendCharge, ChargeSettled, ChargeFails
<1>3. \A d \in credentials' : d.ch \in Charges /\ d.proof.born \in Nat
  BY DEF ChargeTypes, ProofsFit
<1>4. \A r \in ChargeRequests : chargeTasks'[r] # Idle => Cred(r)' \in credentials'
  BY DEF ChargeTypes, ChargeTaskTypes, Cred
<1> QED
  BY <1>1, <1>2, <1>3, <1>4 DEF ChargeTypeOK

SplInv ==
  /\ splTx \in Transactions
  /\ verdicts = {} \/ verdicts = {who \in Checkers : Accepts(who, splTx)} \cup {"checked"}

LEMMA SplStep ==
  ASSUME SplInv, [SplNext]_splVars
  PROVE  SplInv'
<1>1. CASE SplNext
  BY <1>1 DEF SplNext, CheckTransfer, SplInv
<1>2. CASE UNCHANGED splVars
  BY <1>2 DEF splVars, SplInv
<1> QED
  BY <1>1, <1>2

LEMMA SplInitHolds ==
  ASSUME SuiteInit
  PROVE  SplInv
<1>1. verdicts = {} /\ splTx \in IF subject = "transfers" THEN Transactions ELSE {CHOOSE tx \in Transactions : TRUE}
  BY DEF SuiteInit
<1>2. \E tx : tx \in Transactions
  <2> DEFINE ixs == Body(<<>>, Open(Amount), <<>>)
             tx == [feePayer |-> Payer, signers |-> {Payer}, ixs |-> ixs]
  <2>1. Open(Amount) \in ChannelOpens /\ <<>> \in Prefixes /\ <<>> \in Suffixes
    BY DEF ChannelOpens, Prefixes, Suffixes
  <2>2. ixs \in {Body(p, t, s) : p \in Prefixes, t \in Transfers \cup Approvals \cup ChannelOpens, s \in Suffixes}
    BY <2>1
  <2> HIDE DEF ixs
  <2>3. tx \in Transactions
    BY <2>2 DEF Transactions
  <2> QED
    BY <2>3
<1>3. (CHOOSE tx \in Transactions : TRUE) \in Transactions
  BY <1>2
<1> QED
  BY <1>1, <1>3 DEF SplInv

PaymentsInv ==
  /\ subject \in {"session", "x402", "charges", "transfers"}
  /\ ChannelsInv /\ PaidInv /\ PayBounds /\ ChargeTypeOK /\ SplInv

-----------------------------------------------------------------------------
(* The suite. *)

LEMMA PaidInitHolds == SuiteInit => PaidInv
<1> SUFFICES ASSUME SuiteInit PROVE PaidInv
  OBVIOUS
<1>1. /\ payClock = 0 /\ signedPays = {} /\ claims = {} /\ servedFor = <<>> /\ broadcasts = <<>>
      /\ payTasks = [r \in PayRequests |-> Idle]
  BY DEF SuiteInit, PayInit
<1>2. /\ chargeClock = 0 /\ issued = [c \in Charges |-> None] /\ credentials = {} /\ used = {}
      /\ chargeTasks = [r \in ChargeRequests |-> Idle] /\ receipts = <<>>
  BY DEF SuiteInit, ChargeInit
<1>3. Listed(<<>>) = {} /\ Once(<<>>)  BY DEF Listed, Once
<1>4. PayTypes  BY <1>1 DEF PayTypes, PayTaskTypes
<1>5. SettledInv
  BY <1>1, <1>3 DEF SettledInv, OneClaim, LiveClaims, SettlingIsClaimed, Settling, SettlingSteps, ClaimedIsSvm,
     OneSender, SentIsUnserved, Sent, SentSteps, VerifiedIsCovered, ServedOnce, BroadcastOnce, Idle
<1>6. ChargeTypes  BY <1>2 DEF ChargeTypes, ChargeTaskTypes, ProofsFit
<1>7. ChargeInv
  BY <1>2, <1>3 DEF ChargeInv, ChallengesSpent, OneConsumer, ProofsSpent, ProvedAgainIsDead, OneChargeSender,
     ReceiptsOnce
<1> QED  BY <1>4, <1>5, <1>6, <1>7 DEF PaidInv

LEMMA PaidStep == PaidInv /\ [SuiteNext]_suiteVars => PaidInv'
<1> SUFFICES ASSUME PaidInv, [SuiteNext]_suiteVars PROVE PaidInv'
  OBVIOUS
<1>1. [PayNext]_payVars /\ [ChargeNext]_chargeVars  BY DEF SuiteNext, suiteVars
<1> QED  BY <1>1, PayTypesStep, SettledStep, ChargeTypesStep, ChargeStep DEF PaidInv

LEMMA PaymentsInitHold == SuiteInit => PaymentsInv
<1> SUFFICES ASSUME SuiteInit PROVE PaymentsInv
  OBVIOUS
<1>1. subject \in {"session", "x402", "charges", "transfers"} /\ MppInit /\ PayInit /\ ChargeInit
  BY DEF SuiteInit
<1>2. PayBounds
  BY <1>1, PayClockAssumption DEF PayInit, PayBounds, PayTypeOK, Idle
<1>3. ChargeTypeOK
  BY <1>1, ChargeClockAssumption DEF ChargeInit, ChargeTypeOK
<1> QED
  BY <1>1, <1>2, <1>3, MppInitInv, PaidInitHolds, SplInitHolds DEF PaymentsInv

LEMMA PaymentsStep == PaymentsInv /\ [SuiteNext]_suiteVars => PaymentsInv'
<1> SUFFICES ASSUME PaymentsInv, [SuiteNext]_suiteVars PROVE PaymentsInv'
  OBVIOUS
<1>1. ChannelsInv /\ PaidInv /\ PayBounds /\ ChargeTypeOK /\ SplInv
  BY DEF PaymentsInv
<1>2. subject' = subject /\ [MppNext]_mppVars /\ [PayNext]_payVars /\ [ChargeNext]_chargeVars /\ [SplNext]_splVars
  BY DEF SuiteNext, suiteVars
<1>3. ChannelsInv'
  BY <1>1, <1>2, ChannelsStep
<1>4. PaidInv'
  BY <1>1, PaidStep
<1>5. PayTypes /\ PayTypes' /\ ChargeTypes /\ ChargeTypes'
  BY <1>1, <1>4 DEF PaidInv
<1>6. PayBounds' /\ ChargeTypeOK'
  BY <1>1, <1>2, <1>5, PayBoundsStep, ChargeBoundsStep
<1>7. SplInv'
  BY <1>1, <1>2, SplStep
<1> QED
  BY <1>2, <1>3, <1>4, <1>6, <1>7 DEF PaymentsInv

(* ---------------------------------------------------------------- theorems *)
\* The inductive invariant of the suite: the channels of a session, what a claim and
\* a used challenge still guard, and who has accepted a transaction.
THEOREM PaymentsInvariance == SuiteSpec => []PaymentsInv
BY PaymentsInitHold, PaymentsStep, PTL DEF SuiteSpec

\* The type invariant of the suite.
THEOREM PaymentsTypeCorrect == SuiteSpec => []TypeOK
<1>1. PaymentsInv => TypeOK
  <2> SUFFICES ASSUME PaymentsInv PROVE TypeOK
    OBVIOUS
  <2>1. MppTypeOK /\ PayTypeOK /\ ChargeTypeOK
    BY DEF PaymentsInv, ChannelsInv, PayBounds
  <2>2. SplTypeOK
    BY DEF PaymentsInv, SplInv, SplTypeOK
  <2>3. subject \in {"session", "x402", "charges", "transfers"}
    BY DEF PaymentsInv
  <2> QED
    BY <2>1, <2>2, <2>3 DEF TypeOK
<1> QED
  BY <1>1, PaymentsInvariance, PTL

\* A payment of x402 serves one request and only once it was made, and so does
\* the proof of an MPP charge (payments-x402: the settlement store; payments-mpp:
\* the replay store): whatever is presented again, overlaps, is signed again or
\* lands late.
THEOREM SuitePaysOnce == SuiteSpec => []PaidOnce
<1>1. PaymentsInv => PaidOnce
  BY DEF PaymentsInv, PaidInv, PaidOnce, SettledInv, ServedOnce, BroadcastOnce, PaymentSettledOnce, ChargeInv,
     ReceiptsOnce, ChargeServedOnce, Listed
<1> QED
  BY <1>1, PaymentsInvariance, PTL

\* Whoever accepts a signed Solana transaction, the wallet's client, the x402 facilitator,
\* the MPP server or the later check by balances (verifySignedSplTransfer,
\* verifySignedOwnerTransaction, verifySignedChannelOpen, checkTransaction,
\* verifySvmPayload, verifySolanaTransaction, verifySolanaTransferSettlement), has accepted
\* one that pays the recipient exactly the amount, and for an approval moves nothing. What
\* the clients and the facilitator take leaves the sponsor's tokens alone; what the
\* sponsored MPP server takes is not authorized by the sponsor, though its tokens may be
\* the source. What the MPP client sends, its server takes.
THEOREM AcceptedTransfersPay == SuiteSpec => []AcceptedPays
<1>1. ASSUME PaymentsInv
      PROVE  AcceptedPays
  <2>1. splTx \in Transactions
    BY <1>1 DEF PaymentsInv, SplInv
  <2>2. \A who \in Checkers : who \in verdicts => Accepts(who, splTx)
    <3>1. "checked" \notin Checkers
      BY DEF Checkers
    <3> QED
      BY <1>1, <3>1 DEF PaymentsInv, SplInv
  <2>3. ASSUME NEW who \in Checkers \ {"owner"}, Accepts(who, splTx)
        PROVE  /\ OwnerGains(splTx, Recipient) = Amount
               /\ who \in {"client", "mppClient", "channel", "x402"} => OwnerGains(splTx, Sponsor) = 0
    <3>1. CASE who \in {"client", "mppClient"}
      <4>1. \E allow : ClientAccepts(splTx, allow)
        BY <2>3, <3>1 DEF Accepts
      <4>2. MovesOnly(splTx, 3, Ata(Payer), Ata(Recipient)) /\ Ata(Payer).owner # Sponsor
        BY <2>1, <4>1, ClientMoves, WalletsAssumption DEF Ata
      <4> QED
        BY <4>2, OnePays
    <3>2. CASE who = "channel"
      <4>1. OpenAccepts(splTx)
        BY <2>3, <3>2 DEF Accepts
      <4>2. MovesOnly(splTx, 1, Ata(Payer), Ata(Recipient)) /\ Ata(Payer).owner # Sponsor
        BY <2>1, <4>1, OpenMoves, WalletsAssumption DEF Ata
      <4> QED
        BY <4>2, OnePays
    <3>3. CASE who = "x402"
      <4>1. VerifiesSvm(splTx)
        BY <2>3, <3>3 DEF Accepts
      <4> QED
        BY <2>1, <4>1, X402Moves, OnePays
    <3>4. CASE who \in {"mpp", "mppSponsored"}
      <4>1. \E sponsored : MppAccepts(splTx, sponsored)
        BY <2>3, <3>4 DEF Accepts
      <4> QED
        BY <2>1, <3>4, <4>1, MppMoves, OnePays
    <3>5. CASE who = "settlement"
      BY <2>3, <3>5 DEF Accepts, SettlementVerified
    <3> QED
      BY <3>1, <3>2, <3>3, <3>4, <3>5 DEF Checkers
  <2>4. ASSUME "owner" \in verdicts
        PROVE  /\ \A w \in {Payer, Recipient, Sponsor} : OwnerGains(splTx, w) = 0
               /\ \A i \in Of(splTx, "token") : splTx.ixs[i] = AskedApproval
    <3>1. OwnerAccepts(splTx)
      BY <2>2, <2>4 DEF Accepts, Checkers
    <3>2. Movements(splTx) = {} /\ \A i \in Of(splTx, "token") : splTx.ixs[i] = AskedApproval
      BY <2>1, <3>1, OwnerMoves
    <3>3. \A account : Gains(splTx, account) = 0
      BY <3>2, NothingMoves
    <3> QED
      BY <3>2, <3>3 DEF OwnerGains
  <2>5. ASSUME "mppClient" \in verdicts, Sponsor \notin splTx.signers
        PROVE  {"mppSponsored", "x402", "settlement"} \subseteq verdicts
    <3>1. ClientAccepts(splTx, FALSE)
      BY <2>2, <2>5 DEF Accepts, Checkers
    <3>2. VerifiesSvm(splTx) /\ MppAccepts(splTx, TRUE) /\ SettlementVerified(splTx)
      BY <2>1, <2>5, <3>1, SentIsTaken
    <3>3. Accepts("x402", splTx) /\ Accepts("mppSponsored", splTx) /\ Accepts("settlement", splTx)
      BY <3>2 DEF Accepts
    <3>4. {"mppSponsored", "x402", "settlement"} \subseteq {who \in Checkers : Accepts(who, splTx)}
      BY <3>3 DEF Checkers
    <3> QED
      BY <1>1, <2>5, <3>4 DEF PaymentsInv, SplInv
  <2>6. verdicts \cap (Checkers \ {"owner"}) # {} => OwnerGains(splTx, Recipient) = Amount
    BY <2>2, <2>3
  <2>7. verdicts \cap {"client", "mppClient", "channel", "x402"} # {} => OwnerGains(splTx, Sponsor) = 0
    BY <2>2, <2>3 DEF Checkers
  <2>8. ASSUME "mppSponsored" \in verdicts
        PROVE  \A i \in Movements(splTx) : splTx.ixs[i].authority # Sponsor
    <3>1. MppAccepts(splTx, TRUE)
      BY <2>2, <2>8 DEF Accepts, Checkers
    <3> QED
      BY <2>1, <3>1, MppAuthorized
  <2> QED
    BY <2>4, <2>5, <2>6, <2>7, <2>8 DEF AcceptedPays
<1> QED
  BY <1>1, PaymentsInvariance, PTL
===============================================================================
