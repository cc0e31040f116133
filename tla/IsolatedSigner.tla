---------------------------- MODULE IsolatedSigner ----------------------------
(* IsolatedSigner and its worker (wallet-engine/src/signers): requests are    *)
(* posted to a thread of their own, answered in order, matched by an id, and  *)
(* given up after a timeout, a failed load or a new key. A signature is the   *)
(* key that made it.                                                          *)
EXTENDS ConnectLib

CONSTANTS SignerKeys, \* private keys
          MaxSeq      \* bound: requests posted
ASSUME SeqAssumption == MaxSeq \in Nat
ASSUME SignerKeysAssumption == SignerKeys \intersect {None, "ready", "cleared", "rejected"} = {}

VARIABLES thread,  \* the worker: its key, its inbox and its unread replies; or None
          waiting, \* pending: ids whose promise is open
          seq,     \* last id used
          asked,   \* history: the key each signing request was meant for
          answers  \* what each settled request resolved to, "rejected" included
signerVars == <<thread, waiting, seq, asked, answers>>

Ids == 1..MaxSeq
SignerInit ==
  /\ thread = None /\ waiting = {} /\ seq = 0
  /\ asked = [i \in Ids |-> None] /\ answers = [i \in Ids |-> None]

\* The key the worker will hold once it has read what was posted so far.
Loaded == LET keyed == {i \in DOMAIN thread.inbox : thread.inbox[i].type # "sign"}
          IN IF keyed = {} THEN thread.key
             ELSE thread.inbox[CHOOSE i \in keyed : \A j \in keyed : j <= i].key

\* Every promise of the map is rejected (terminate, failAll).
Rejected(ids) == [i \in Ids |-> IF i \in ids THEN "rejected" ELSE answers[i]]

\* A mutant of NextId: ids are the places in the map.
Bad_NextId == Cardinality(waiting) + 1
\* send(): a number no request had before.
NextId == seq + 1
Posts(t, r, open) ==
  /\ seq < MaxSeq /\ NextId \in Ids
  /\ seq' = seq + 1 /\ waiting' = open \union {NextId}
  /\ thread' = [t EXCEPT !.inbox = Append(@, r)]

\* initWithKey() terminates the worker with everything it was asked.
InitWithKey(k) ==
  /\ Posts([key |-> None, inbox |-> <<>>, replies |-> <<>>],
           [type |-> "init", key |-> k, id |-> NextId], {})
  /\ answers' = Rejected(waiting) /\ UNCHANGED asked
\* signMessage, signTransaction, signTypedData and signAuthorization.
SignInThread ==
  /\ thread # None
  /\ Posts(thread, [type |-> "sign", key |-> None, id |-> NextId], waiting)
  /\ asked' = [asked EXCEPT ![NextId] = Loaded] /\ answers' = [answers EXCEPT ![NextId] = None]
ClearThread ==
  /\ thread # None
  /\ Posts(thread, [type |-> "clear", key |-> None, id |-> NextId], waiting)
  /\ UNCHANGED <<asked, answers>>

\* The worker reads its next message and answers it under its id; it refuses
\* to sign without a key.
ThreadReads ==
  /\ thread # None /\ thread.inbox # <<>>
  /\ LET r == Head(thread.inbox)
         key == IF r.type = "sign" THEN thread.key ELSE r.key
         said == CASE r.type = "init" -> "ready"
                   [] r.type = "clear" -> "cleared"
                   [] OTHER -> IF key = None THEN "rejected" ELSE key
     IN thread' = [key |-> key, inbox |-> Tail(thread.inbox),
                   replies |-> Append(thread.replies, [id |-> r.id, said |-> said])]
  /\ UNCHANGED <<waiting, seq, asked, answers>>

\* onMessage(): a reply settles the promise with its id, if that is still open;
\* clear() then terminates the worker and rejects what is left.
ReplyRead ==
  /\ thread # None /\ thread.replies # <<>>
  /\ LET r == Head(thread.replies)
         open == r.id \in waiting
         ends == open /\ r.said = "cleared"
     IN /\ thread' = IF ends THEN None ELSE [thread EXCEPT !.replies = Tail(@)]
        /\ waiting' = IF ends THEN {} ELSE waiting \ {r.id}
        /\ answers' = [IF ends THEN Rejected(waiting) ELSE answers
                         EXCEPT ![r.id] = IF open THEN r.said ELSE @]
  /\ UNCHANGED <<seq, asked>>

\* The 30 s timer of one request; a worker that does not load or whose message
\* cannot be read fails every open request and stays in place.
RequestTimesOut(i) ==
  /\ i \in waiting /\ waiting' = waiting \ {i} /\ answers' = Rejected({i})
  /\ UNCHANGED <<thread, seq, asked>>
ThreadFails ==
  /\ thread # None /\ waiting # {} /\ waiting' = {} /\ answers' = Rejected(waiting)
  /\ UNCHANGED <<thread, seq, asked>>

SignerNext ==
  \/ \E k \in SignerKeys : InitWithKey(k)
  \/ SignInThread \/ ClearThread \/ ThreadReads \/ ReplyRead \/ ThreadFails
  \/ \E i \in Ids : RequestTimesOut(i)

SignerTypeOK ==
  /\ waiting \subseteq Ids /\ seq \in 0..MaxSeq
  /\ thread # None => thread.key \in SignerKeys \union {None}

\* However late a reply is read, and whatever key was loaded, cleared or given
\* up meanwhile: a signature is made by the key that was loaded when it was
\* asked for, and belongs to the request it answers (send, onMessage).
SignatureOfTheRequest ==
  \A i \in Ids : answers[i] \in SignerKeys => answers[i] = asked[i]
===============================================================================
