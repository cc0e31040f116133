---------------------------------- MODULE X402 ----------------------------------
(* x402 payments (payments-x402): a fetch that pays a 402 challenge once, and  *)
(* the server that verifies, claims, broadcasts and serves. A payment is what  *)
(* its signature commits to: an EIP-3009 authorization with its random nonce,  *)
(* or a Solana message with its memo and blockhash. Requests are repeated and  *)
(* overlap, broadcasts land late, and the server may be restarted.             *)
EXTENDS ConnectLib

CONSTANTS PayFetches,    \* calls of x402Fetch
          PayRequests,   \* requests the server handles at a time
          Challenges,    \* what a 402 may offer: sequences of requirements
          SettleTtl,     \* X402_SETTLEMENT_TTL_SECONDS, in time units
          AuthLife,      \* maxTimeoutSeconds
          BlockhashLife, \* how long a Solana message may land
          MaxPayClock    \* bound: time units
ASSUME PayClockAssumption == MaxPayClock \in Nat
ASSUME SettleTtlAssumption == SettleTtl \in Nat /\ BlockhashLife \in 0..SettleTtl /\ AuthLife \in Nat

VARIABLES payClock, fetches,
          signedPays, \* payments a client has signed
          claims,     \* the duplicate-settlement store
          payTasks,   \* the server's requests
          pool,       \* broadcasts not landed: [pay, by]
          landed,     \* broadcasts that executed
          servedFor,  \* history: the payments served for, in order
          broadcasts, \* history: the payments broadcast, in order
          forgot      \* history: an in-process store was lost in a restart
payVars == <<payClock, fetches, signedPays, claims, payTasks, pool, landed, servedFor, broadcasts, forgot>>

Requirements == [rail : {"evm", "svm", "other"}, fixedMemo : BOOLEAN]
ASSUME ChallengesAssumption == Challenges \subseteq Seq(Requirements)
Payments == [rail : {"evm", "svm"}, unique : PayFetches \union {None}, born : 0..MaxPayClock]
Expiry(p) == p.born + (IF p.rail = "evm" THEN AuthLife ELSE BlockhashLife)
Expired(p) == Expiry(p) <= payClock
Executed(p) == \E l \in landed : l.pay = p

PayInit ==
  /\ payClock = 0 /\ signedPays = {} /\ claims = {} /\ pool = {} /\ landed = {}
  /\ servedFor = <<>> /\ broadcasts = <<>> /\ forgot = FALSE
  /\ fetches = [f \in PayFetches |-> Idle] /\ payTasks = [r \in PayRequests |-> Idle]

server == <<claims, payTasks, pool, landed, servedFor, broadcasts, forgot>>
client == <<fetches, signedPays>>

(* ------------------------------------------------------------------ client *)
\* selectRequirement(): the first one this client can pay.
EvmSupported(req) == req.rail = "evm"
SvmSupported(req) == req.rail = "svm"
Payable(accepts) == {i \in DOMAIN accepts : EvmSupported(accepts[i]) \/ SvmSupported(accepts[i])}
Selected(accepts) == accepts[CHOOSE i \in Payable(accepts) : \A j \in Payable(accepts) : i <= j]

\* x402Fetch: a 402 of the requested origin, without a redirect and for a
\* resource there, is put to approve(); any other is refused.
Challenged(f) ==
  /\ fetches[f] = Idle
  /\ \E redirected \in BOOLEAN, own \in BOOLEAN, accepts \in Challenges :
       fetches' = [fetches EXCEPT ![f] =
         IF redirected \/ ~own \/ Payable(accepts) = {} THEN [pc |-> "refused"]
         ELSE [pc |-> "approving", req |-> Selected(accepts)]]
  /\ UNCHANGED <<payClock, signedPays, server>>
\* A nonce or memo is random unless the seller fixes the memo; the payload is
\* sent once.
SignPayment(f) ==
  /\ fetches[f].pc = "approving"
  /\ LET req == fetches[f].req
         p == [rail |-> req.rail, born |-> payClock,
               unique |-> IF req.rail = "svm" /\ req.fixedMemo THEN None ELSE f]
     IN \/ fetches' = [fetches EXCEPT ![f] = [pc |-> "refused"]] /\ UNCHANGED signedPays
        \/ fetches' = [fetches EXCEPT ![f] = [pc |-> "paying"]] /\ signedPays' = signedPays \union {p}
  /\ UNCHANGED <<payClock, server>>

(* ---------------------------------------------- the duplicate-settlement store *)
\* A mutant of ClaimKey: the key covers the payer's signature.
Bad_ClaimKey(t) == <<t.pay, t.sig>>
ClaimKey(t) == t.pay
ClaimTtl(t) ==
  IF t.pay.rail = "evm" /\ Expiry(t.pay) - payClock > SettleTtl
  THEN Expiry(t.pay) - payClock ELSE SettleTtl
LiveClaims == {c \in claims : c.until > payClock}
HeldClaims(key) == {c \in LiveClaims : c.key = key}
Claim(r, t) == LiveClaims \union {[key |-> ClaimKey(t), until |-> payClock + ClaimTtl(t), holder |-> r]}
Released(r, key) == LiveClaims \ {c \in HeldClaims(key) : c.holder = r}
\* commit(): a key another reservation took after ours expired stays its own.
Committed(r, t) ==
  LET held == HeldClaims(ClaimKey(t))
      now == payClock + t.ttl
  IN IF \E c \in held : c.holder \notin {r, None} THEN LiveClaims
     ELSE (LiveClaims \ held) \union
          {[key |-> ClaimKey(t), holder |-> None,
            until |-> IF \E c \in held : c.until > now THEN (CHOOSE c \in held : TRUE).until ELSE now]}

(* ------------------------------------------------------------------ server *)
Handling(r, pc) == payTasks[r].pc = pc
Becomes(r, t) == payTasks' = [payTasks EXCEPT ![r] = t]
\* settlePayment's catch: before a broadcast the claim is released, quietly.
Refused(r) ==
  /\ Becomes(r, Idle)
  /\ claims' \in {claims, Released(r, ClaimKey(payTasks[r]))}
Served(r) ==
  /\ Becomes(r, Idle) /\ servedFor' = Append(servedFor, payTasks[r].pay)
  /\ claims' \in {claims, Committed(r, payTasks[r])}

\* verifyEvmPayload(): a signature has one form, and the token says that the
\* authorization is neither used nor out of its time.
EvmVerifies(p, sig) == sig = 1 /\ ~Executed(p) /\ ~Expired(p)
\* verifyPayment(): the payload as it came, however often, checked against the
\* chain at this moment. A Solana payer can sign one message in several ways.
VerifyPayment(r) ==
  /\ Handling(r, "idle")
  /\ \E p \in signedPays, sig \in 1..2 :
       /\ p.rail = "evm" => EvmVerifies(p, sig)
       /\ Becomes(r, [pc |-> "verified", pay |-> p, sig |-> sig])
  /\ UNCHANGED <<payClock, client, claims, pool, landed, servedFor, broadcasts, forgot>>
\* settleEvm and settleSvm: an authorization must still be valid, and the claim
\* must be the first.
SettleBegins(r) ==
  /\ Handling(r, "verified")
  /\ LET t == payTasks[r]
     IN IF (t.pay.rail = "evm" /\ Expired(t.pay)) \/ HeldClaims(ClaimKey(t)) # {}
        THEN Becomes(r, Idle) /\ UNCHANGED claims
        ELSE /\ claims' = Claim(r, t)
             /\ Becomes(r, [pc |-> IF t.pay.rail = "evm" THEN "sending" ELSE "claimed",
                            pay |-> t.pay, sig |-> t.sig, ttl |-> ClaimTtl(t)])
  /\ UNCHANGED <<payClock, client, pool, landed, servedFor, broadcasts, forgot>>
\* The fee payer signs, then the message is simulated (one that landed or whose
\* blockhash is old does not simulate); the cluster is asked before each.
FeePayerSigns(r) ==
  /\ Handling(r, "claimed") /\ Becomes(r, [payTasks[r] EXCEPT !.pc = "signed"])
  /\ UNCHANGED <<payClock, client, claims, pool, landed, servedFor, broadcasts, forgot>>
Simulates(r) ==
  /\ Handling(r, "signed") /\ ~Executed(payTasks[r].pay) /\ ~Expired(payTasks[r].pay)
  /\ Becomes(r, [payTasks[r] EXCEPT !.pc = "sending"])
  /\ UNCHANGED <<payClock, client, claims, pool, landed, servedFor, broadcasts, forgot>>
SettleRefused(r) ==
  /\ payTasks[r].pc \in {"claimed", "signed"} /\ Refused(r)
  /\ UNCHANGED <<payClock, client, pool, landed, servedFor, broadcasts, forgot>>
\* submit and sendTransaction, with `broadcast` set before: the call may have
\* reached the network whatever it answers.
Broadcast(r) ==
  /\ Handling(r, "sending") /\ Becomes(r, [payTasks[r] EXCEPT !.pc = "confirming"])
  /\ pool' \in {pool, pool \union {[pay |-> payTasks[r].pay, by |-> r]}}
  /\ broadcasts' = Append(broadcasts, payTasks[r].pay)
  /\ UNCHANGED <<payClock, client, claims, landed, servedFor, forgot>>
\* submit resolves once its own call has succeeded, confirmSolana once the
\* message has: only then the resource is served.
Confirmed(r) ==
  /\ Handling(r, "confirming")
  /\ LET p == payTasks[r].pay
     IN IF p.rail = "evm" THEN [pay |-> p, by |-> r] \in landed ELSE Executed(p)
  /\ Served(r)
  /\ UNCHANGED <<payClock, client, pool, landed, broadcasts, forgot>>
\* A mutant of KeepsClaim.
Bad_KeepsClaim(r) == Released(r, ClaimKey(payTasks[r]))
\* An unknown outcome: neither release nor commit.
KeepsClaim(r) == claims
Unknown(r) ==
  /\ Handling(r, "confirming") /\ Becomes(r, Idle) /\ claims' = KeepsClaim(r)
  /\ UNCHANGED <<payClock, client, pool, landed, servedFor, broadcasts, forgot>>

(* ------------------------------------------------------------- environment *)
\* The chain runs a broadcast while it is valid, once per nonce or message.
Lands ==
  /\ \E b \in pool :
       /\ ~Executed(b.pay) /\ ~Expired(b.pay)
       /\ landed' = landed \union {b} /\ pool' = pool \ {b}
  /\ UNCHANGED <<payClock, client, claims, payTasks, servedFor, broadcasts, forgot>>
PayTick ==
  /\ payClock < MaxPayClock /\ payClock' = payClock + 1
  /\ pool' = {b \in pool : Expiry(b.pay) > payClock'}
  /\ UNCHANGED <<client, claims, payTasks, landed, servedFor, broadcasts, forgot>>
\* defaultSettlementStore is lost with the process; bound: once.
ServerRestarts ==
  /\ ~forgot /\ claims' = {} /\ payTasks' = [r \in PayRequests |-> Idle] /\ forgot' = TRUE
  /\ UNCHANGED <<payClock, client, pool, landed, servedFor, broadcasts>>

PayNext ==
  \/ PayTick \/ Lands \/ ServerRestarts
  \/ \E f \in PayFetches : Challenged(f) \/ SignPayment(f)
  \/ \E r \in PayRequests :
       \/ VerifyPayment(r) \/ SettleBegins(r) \/ FeePayerSigns(r) \/ Simulates(r)
       \/ SettleRefused(r) \/ Broadcast(r) \/ Confirmed(r) \/ Unknown(r)

PayTypeOK ==
  /\ payClock \in 0..MaxPayClock /\ signedPays \subseteq Payments
  /\ \A c \in claims : c.holder \in PayRequests \union {None} /\ c.until \in Nat
  /\ \A b \in pool \union landed : b.pay \in Payments /\ b.by \in PayRequests

\* Whatever is presented again, under whatever signature, overlaps or lands
\* late: a payment is served to at most one request, and only once it was made;
\* and while its store lives, at most one attempt ever broadcasts it.
Once(history) == \A i, j \in DOMAIN history : history[i] = history[j] => i = j
PaymentSettledOnce ==
  /\ Once(servedFor) /\ \A i \in DOMAIN servedFor : Executed(servedFor[i])
  /\ ~forgot => Once(broadcasts)
=================================================================================
