---------------------------------- MODULE Siwx ----------------------------------
(* Sign-in with a wallet (siwx): SiwxSessionManager with its calls, its storage *)
(* and the generation that decides which of them may still publish, and the     *)
(* server's verification that uses up a nonce. The storages of                  *)
(* session-storage.ts act when they are called and answer later.                *)
EXTENDS ConnectLib

CONSTANTS SiwxCalls,    \* calls of signIn, refresh and restore that run at a time
          Verifiers,    \* verifications that run at a time
          MaxSigned, MaxGeneration  \* bounds: messages signed, lifecycle decisions

ASSUME LifecycleAssumption == MaxGeneration \in Nat

VARIABLES siwxNow,      \* 0, and 1 once what was signed at 0 has expired
          session, timer, generation, \* SiwxSessionManager
          siwxStored,   \* what the storage holds
          siwxCalls,    \* running calls
          signedMsgs,   \* history: messages signed, a message's nonce is its index
          siwxOvertaken,    \* history: sessions whose call threw supersededError
          nonces,       \* the nonce storage; removed is history
          verifying, accepted  \* verifications, and the messages found valid
siwxVars == <<siwxNow, session, timer, generation, siwxStored, siwxCalls, signedMsgs, siwxOvertaken,
              nonces, verifying, accepted>>

SiwxInit ==
  /\ siwxNow = 0 /\ session = None /\ timer = None /\ generation = 0 /\ siwxStored = None
  /\ siwxCalls = [c \in SiwxCalls |-> Idle] /\ signedMsgs = <<>> /\ siwxOvertaken = {}
  /\ nonces = [issued |-> {}, consumed |-> {}, removed |-> {}]
  /\ verifying = [v \in Verifiers |-> Idle] /\ accepted = <<>>

SessionExpired(s) == s.born < siwxNow
\* What get() answers: an expired session has been removed.
Get == IF siwxStored # None /\ SessionExpired(siwxStored) THEN None ELSE siwxStored
Publish(s) == session' = s
Watch(s) == timer' = s
SiwxAt(c, pc) == siwxCalls[c].pc = pc
Step(c, t) == siwxCalls' = [siwxCalls EXCEPT ![c] = t]
server == <<nonces, verifying, accepted>>

(* -------------------------------------------------- signIn, refresh, signOut *)
\* The wallet signs a message of its own nonce for the session.
Sign(c, id, gen) ==
  /\ Len(signedMsgs) < MaxSigned
  /\ LET n == Len(signedMsgs) + 1
     IN /\ signedMsgs' = Append(signedMsgs, [born |-> siwxNow])
        /\ Step(c, [pc |-> "signing", gen |-> gen,
                    s |-> [id |-> IF id = None THEN n ELSE id.id, signature |-> n, born |-> siwxNow,
                           messageNonce |-> IF id = None THEN n ELSE id.messageNonce]])
Decides == generation < MaxGeneration
SignIn(c) ==
  /\ SiwxAt(c, "idle") /\ Decides /\ generation' = generation + 1 /\ Sign(c, None, generation + 1)
  /\ UNCHANGED <<siwxNow, session, timer, siwxStored, siwxOvertaken, server>>
\* refresh() signs with a new nonce and keeps the rest of the message record.
Refresh(c) ==
  /\ SiwxAt(c, "idle") /\ session # None /\ Sign(c, session, generation)
  /\ UNCHANGED <<siwxNow, session, timer, generation, siwxStored, siwxOvertaken, server>>
SignOut ==
  /\ Decides /\ generation' = generation + 1 /\ session' = None /\ timer' = None /\ siwxStored' = None
  /\ UNCHANGED <<siwxNow, siwxCalls, signedMsgs, siwxOvertaken, server>>

(* --------------------------------------------------------- persistIfCurrent *)
SiwxSuperseded(c) == Step(c, Idle) /\ siwxOvertaken' = siwxOvertaken \union {siwxCalls[c].s.signature}
Current(c) == siwxCalls[c].gen = generation
Persist(c) ==
  /\ SiwxAt(c, "signing")
  /\ IF Current(c)
     THEN Step(c, [siwxCalls[c] EXCEPT !.pc = "stored"]) /\ siwxStored' = siwxCalls[c].s /\ UNCHANGED siwxOvertaken
     ELSE SiwxSuperseded(c) /\ UNCHANGED siwxStored
  /\ UNCHANGED <<siwxNow, session, timer, generation, signedMsgs, server>>
\* Overtaken while it wrote: what is there now decides whether to undo.
Persisted(c) ==
  /\ SiwxAt(c, "stored")
  /\ IF Current(c)
     THEN Step(c, [siwxCalls[c] EXCEPT !.pc = "publishing"]) /\ UNCHANGED siwxStored
     ELSE Step(c, [pc |-> "undoing", gen |-> siwxCalls[c].gen, s |-> siwxCalls[c].s, found |-> Get]) /\ siwxStored' = Get
  /\ UNCHANGED <<siwxNow, session, timer, generation, signedMsgs, siwxOvertaken, server>>
\* A mutant of Mine: nothing is undone.
Bad_Mine(c) == FALSE
Mine(c) == siwxCalls[c].found # None /\ siwxCalls[c].found.signature = siwxCalls[c].s.signature
Undo(c) ==
  /\ SiwxAt(c, "undoing") /\ SiwxSuperseded(c)
  /\ siwxStored' = IF Mine(c) THEN None ELSE siwxStored
  /\ UNCHANGED <<siwxNow, session, timer, generation, signedMsgs, server>>
\* The caller of persistIfCurrent resumes, and does not look again.
Published(c) ==
  /\ SiwxAt(c, "publishing") /\ Step(c, Idle)
  /\ Publish(siwxCalls[c].s) /\ Watch(siwxCalls[c].s)
  /\ UNCHANGED <<siwxNow, generation, siwxStored, signedMsgs, siwxOvertaken, server>>
\* The wallet refuses to sign, or the storage to write.
SignFails(c) ==
  /\ SiwxAt(c, "signing") /\ Step(c, Idle)
  /\ UNCHANGED <<siwxNow, session, timer, generation, siwxStored, signedMsgs, siwxOvertaken, server>>

(* ------------------------------------------------------------------ restore *)
RestoreBegins(c) ==
  /\ SiwxAt(c, "idle") /\ Decides /\ siwxStored' = Get
  /\ Step(c, [pc |-> "reading", gen |-> generation, found |-> Get])
  /\ UNCHANGED <<siwxNow, session, timer, generation, signedMsgs, siwxOvertaken, server>>
\* Obsolete if the generation moved; an expired session is removed; any other
\* answer is published, and supersedes what is pending.
RestoreEnds(c) ==
  /\ SiwxAt(c, "reading")
  /\ LET found == siwxCalls[c].found
     IN IF siwxCalls[c].gen # generation
        THEN Step(c, Idle) /\ UNCHANGED <<session, timer, generation, siwxStored>>
        ELSE /\ generation' = generation + 1
             /\ IF found # None /\ SessionExpired(found)
                THEN /\ siwxStored' = None /\ UNCHANGED <<session, timer>>
                     /\ Step(c, [pc |-> "clearing", gen |-> generation + 1])
                ELSE /\ Publish(found) /\ Step(c, Idle) /\ UNCHANGED siwxStored
                     /\ timer' = IF found = None THEN timer ELSE found
  /\ UNCHANGED <<siwxNow, signedMsgs, siwxOvertaken, server>>
RestoreCleared(c) ==
  /\ SiwxAt(c, "clearing") /\ Step(c, Idle)
  /\ IF siwxCalls[c].gen = generation THEN Publish(None) /\ Watch(None) ELSE UNCHANGED <<session, timer>>
  /\ UNCHANGED <<siwxNow, generation, siwxStored, signedMsgs, siwxOvertaken, server>>

(* ------------------------------------------------------------- verification *)
IssueNonce(n) ==
  /\ n \notin nonces.issued \union nonces.removed /\ nonces' = [nonces EXCEPT !.issued = @ \union {n}]
  /\ UNCHANGED <<siwxNow, session, timer, generation, siwxStored, siwxCalls, signedMsgs, siwxOvertaken, verifying, accepted>>
RemoveNonce(n) ==
  /\ n \in nonces.issued
  /\ nonces' = [issued |-> nonces.issued \ {n}, consumed |-> nonces.consumed \ {n}, removed |-> nonces.removed \union {n}]
  /\ UNCHANGED <<siwxNow, session, timer, generation, siwxStored, siwxCalls, signedMsgs, siwxOvertaken, verifying, accepted>>
\* verifySiwxMessage: the constraints, then the signature, then the nonce.
VerifyBegins(v) ==
  /\ verifying[v] = Idle
  /\ \E n \in DOMAIN signedMsgs :
       /\ signedMsgs[n].born >= siwxNow /\ verifying' = [verifying EXCEPT ![v] = [pc |-> "recovering", nonce |-> n]]
  /\ UNCHANGED <<siwxNow, session, timer, generation, siwxStored, siwxCalls, signedMsgs, siwxOvertaken, nonces, accepted>>
\* A mutant of ConsumeIfValid: an issued nonce is good.
Bad_ConsumeIfValid(n) == n \in nonces.issued
ConsumeIfValid(n) == n \in nonces.issued \ nonces.consumed
VerifyEnds(v) ==
  /\ verifying[v] # Idle /\ verifying' = [verifying EXCEPT ![v] = Idle]
  /\ LET n == verifying[v].nonce
     IN IF ConsumeIfValid(n)
        THEN /\ nonces' = [nonces EXCEPT !.consumed = @ \union {n}]
             /\ accepted' = Append(accepted, n)
        ELSE UNCHANGED <<nonces, accepted>>
  /\ UNCHANGED <<siwxNow, session, timer, generation, siwxStored, siwxCalls, signedMsgs, siwxOvertaken>>

(* -------------------------------------------------------------- environment *)
SiwxTick ==
  /\ siwxNow = 0 /\ siwxNow' = 1
  /\ UNCHANGED <<session, timer, generation, siwxStored, siwxCalls, signedMsgs, siwxOvertaken, server>>

SiwxNext ==
  \/ SignOut \/ SiwxTick
  \/ \E c \in SiwxCalls :
       \/ SignIn(c) \/ Refresh(c) \/ Persist(c) \/ Persisted(c) \/ Undo(c) \/ Published(c) \/ SignFails(c)
       \/ RestoreBegins(c) \/ RestoreEnds(c) \/ RestoreCleared(c)
  \/ \E n \in 1..MaxSigned : IssueNonce(n) \/ RemoveNonce(n)
  \/ \E v \in Verifiers : VerifyBegins(v) \/ VerifyEnds(v)

SiwxTypeOK ==
  /\ generation \in 0..2 * MaxGeneration /\ siwxNow \in 0..1
  /\ \A s \in {session, timer, siwxStored} : s = None \/ s.signature \in DOMAIN signedMsgs
  /\ siwxOvertaken \subseteq DOMAIN signedMsgs /\ nonces.consumed \subseteq nonces.issued

\* A call that reports it was superseded by a newer signIn or signOut has left
\* nothing in the storage once every call is over (persistIfCurrent).
OvertakenNotStored ==
  (\A c \in SiwxCalls : SiwxAt(c, "idle")) /\ siwxStored # None => siwxStored.signature \notin siwxOvertaken
\* A nonce signs in once, however many verifications of its message run at a
\* time (verifySiwxMessage, consumeIfValid).
NonceAcceptedOnce == \A i, j \in DOMAIN accepted : accepted[i] = accepted[j] => i = j

\* What the comment at persistIfCurrent says: "a newer write is left alone".
NewerWriteKept ==
  [][\A c \in SiwxCalls :
       SiwxAt(c, "undoing") /\ siwxCalls'[c] = Idle /\ siwxStored # None
         /\ siwxStored.signature # siwxCalls[c].s.signature => siwxStored' = siwxStored]_siwxVars
\* What SiwxSession says of message, "The parsed SIWx message": its nonce is the
\* one that was signed.
MessageIsParsed == session # None => session.messageNonce = session.signature
=================================================================================
