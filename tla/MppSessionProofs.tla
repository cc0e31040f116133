---------------------------- MODULE MppSessionProofs ----------------------------
(* Proofs about MppSession, for any number of calls, channels and units.         *)
(* What the client does between two awaits is undone by no other call, because   *)
(* a channel belongs to the fetch that opens it until its open is settled.       *)
EXTENDS MppSession, SumLemmas, TLAPS

\* The steps of a call, and the steps at which it works on a channel.
FetchSteps == {"idle", "await", "resume", "first", "check", "create", "wallet", "open", "bind",
               "undo", "sign", "paid"}
OwnerSteps == {"wallet", "open", "bind", "undo"}
OpeningSteps == {"first", "check", "create"} \cup OwnerSteps
TargetSteps == OwnerSteps \cup {"sign", "paid", "closing", "revoking", "forcing", "forceRevoking"}

Targets ==
  /\ \A f \in Fetches : mppPc[f] \in FetchSteps
  /\ \A c \in Closers : mppPc[c] \in {"idle", "closing", "revoking"}
  /\ \A c \in Forcers : mppPc[c] \in {"idle", "forcing", "forceRevoking"}
  /\ \A c \in Calls : IF mppPc[c] \in TargetSteps THEN target[c] \in Channels ELSE target[c] = None

Owns(f, ch) == mppPc[f] \in OwnerSteps /\ target[f] = ch

\* Nobody but f knows the channel yet.
Unused(f, ch) ==
  /\ active # ch /\ ~session[ch].hasKey /\ ch \notin ClosedChannels
  /\ \A c \in Calls : c # f => target[c] # ch

\* A channel whose key is still to be made is nowhere.
AbsentIsUnused ==
  \A ch \in Channels : keys[ch].state = "absent" =>
    /\ active # ch /\ ~session[ch].hasKey /\ ch \notin ClosedChannels
    /\ \A c \in Calls : target[c] # ch

\* A channel that is being opened is known to the other calls only as one that
\* has its key, so that a forceClose of it revokes the key.
OpenedByOne ==
  \A f \in Fetches : mppPc[f] \in OwnerSteps =>
    /\ \A g \in Fetches : g # f => ~Owns(g, target[f])
    /\ mppPc[f] = "wallet" => Unused(f, target[f])
    /\ mppPc[f] \in {"open", "bind"} => session[target[f]].hasKey
    /\ mppPc[f] = "undo" => session[target[f]].hasKey \/ Unused(f, target[f])

\* A key is bound when its open is settled, and for good only with the session.
OwnedIsUnbound ==
  \A f \in Fetches : mppPc[f] \in OwnerSteps => keys[target[f]].state # "bound"
UnkeyedIsUnbound ==
  \A ch \in Channels : ~session[ch].hasKey => keys[ch].state # "bound"
ClosedIsRevoked ==
  \A ch \in ClosedChannels :
    \/ keys[ch].state = "revoked"
    \/ keys[ch].state = "unbound" /\ \A f \in Fetches : ~Owns(f, ch)

KeyInv == OwnedIsUnbound /\ UnkeyedIsUnbound /\ ClosedIsRevoked

\* With payment asked for and no forceClose, the opening promise is the only
\* opening, and nobody else knows its channel.
Flight(f) ==
  /\ mppPc[f] \in OpeningSteps <=> opening = f
  /\ mppPc[f] \in {"first", "check", "create", "wallet"} => active = None
  /\ mppPc[f] \in {"open", "bind"} => active = target[f]
  /\ mppPc[f] = "undo" => active \in {None, target[f]}
  /\ mppPc[f] \in OwnerSteps =>
       /\ \A c \in Calls : c # f => target[c] # target[f]
       /\ active = target[f] => session[active].last = None
  /\ mppPc[f] = "await" => opening # None
  /\ mppPc[f] = "resume" => active # None /\ opening = None
  /\ mppPc[f] = "sign" => active = target[f] \/ keys[target[f]].state = "revoked"

SingleFlight ==
  /\ \A f \in Fetches : Flight(f)
  /\ listed = IF active = None THEN {} ELSE {active}
  /\ LastVoucherBelongs

--------------------------------------------------------------------------------
(* What the shared parts of the actions do. *)

LEMMA CallsDisjoint ==
  /\ Fetches \subseteq Calls /\ Closers \subseteq Calls /\ Forcers \subseteq Calls
  /\ \A f \in Fetches : f \notin Closers /\ f \notin Forcers
  /\ \A c \in Closers : c \notin Forcers
BY MppConstantsAssumption DEF Calls

LEMMA GotoMoves ==
  ASSUME MppTypeOK, NEW c \in Calls, NEW step \in MppSteps, Goto(c, step)
  PROVE  /\ mppPc' \in [Calls -> MppSteps]
         /\ mppPc'[c] = step
         /\ \A d \in Calls : d # c => mppPc'[d] = mppPc[d]
BY DEF MppTypeOK, Goto

LEMMA AskMoves ==
  ASSUME MppTypeOK, NEW c \in Calls, NEW step \in MppSteps, AskManager(c, step)
  PROVE  /\ queue' \in Seq(Calls)
         /\ mppPc' \in [Calls -> MppSteps]
         /\ mppPc'[c] = step
         /\ \A d \in Calls : d # c => mppPc'[d] = mppPc[d]
<1>1. queue' \in Seq(Calls)
  BY DEF MppTypeOK, AskManager
<1> QED
  BY <1>1, GotoMoves DEF AskManager

LEMMA ServedQueue ==
  ASSUME MppTypeOK, NEW c, NEW step, MppServed(c, step)
  PROVE  queue' \in Seq(Calls) /\ mppPc[c] = step
BY DEF MppTypeOK, MppServed, At

\* A call that ends leaves its channel; nobody else starts to work on one.
LEMMA EndsMoves ==
  ASSUME MppTypeOK, NEW c \in Calls, NEW ok \in BOOLEAN, Ends(c, ok)
  PROVE  /\ mppPc' \in [Calls -> MppSteps]
         /\ mppPc'[c] = "idle"
         /\ \A d \in Calls : d # c =>
              \/ mppPc'[d] = mppPc[d]
              \/ mppPc[d] = "await" /\ opening = c
                 /\ mppPc'[d] = IF ok THEN "resume" ELSE "idle"
         /\ opening' \in Fetches \cup {None}
         /\ target' \in [Calls -> Channels \cup {None}]
         /\ target'[c] = None
         /\ \A d \in Calls : d # c => target'[d] = target[d]
         /\ UNCHANGED <<passed, metered, final>>
BY DEF MppTypeOK, Ends, MppSteps

KeyStates == {"absent", "unbound", "bound", "revoked"}

\* A call that ends leaves the rest of the types to what else the step does.
LEMMA EndsType ==
  ASSUME MppTypeOK, NEW c \in Calls, NEW ok \in BOOLEAN, Ends(c, ok),
         pending' \in Nat, session' \in [Channels -> Session], active' \in Channels \cup {None},
         listed' \subseteq Channels, keys' \in [Channels -> [state: KeyStates, spent: Nat]],
         queue' \in Seq(Calls), handed' \subseteq Channels,
         bindings' \subseteq [channel: Channels, expected: Nat], reported' \in Nat
  PROVE  MppTypeOK'
<1>1. /\ mppPc' \in [Calls -> MppSteps] /\ opening' \in Fetches \cup {None}
      /\ target' \in [Calls -> Channels \cup {None}]
  BY EndsMoves
<1>2. /\ passed' \in [Fetches -> Nat] /\ metered' \in [Fetches -> Nat]
      /\ final' \in [Closers \cup Forcers -> Nat]
  BY DEF Ends, MppTypeOK
<1> QED
  BY <1>1, <1>2 DEF MppTypeOK, KeyStates

LEMMA EndsKeeps ==
  ASSUME MppTypeOK, NEW c \in Calls, NEW ok \in BOOLEAN, Ends(c, ok),
         UNCHANGED <<pending, active, session, listed, outside>>,
         queue' \in Seq(Calls), keys' \in [Channels -> [state: KeyStates, spent: Nat]]
  PROVE  MppTypeOK'
<1>1. /\ pending' \in Nat /\ session' \in [Channels -> Session] /\ active' \in Channels \cup {None}
      /\ listed' \subseteq Channels /\ handed' \subseteq Channels
      /\ bindings' \subseteq [channel: Channels, expected: Nat] /\ reported' \in Nat
  BY DEF MppTypeOK, outside
<1> QED
  BY <1>1, EndsType

LEMMA SetKeyKeeps ==
  ASSUME MppTypeOK, NEW ch \in Channels, NEW state \in KeyStates, SetKey(ch, state)
  PROVE  /\ keys' \in [Channels -> [state: KeyStates, spent: Nat]]
         /\ keys'[ch].state = state
         /\ \A d \in Channels : keys'[d].spent = keys[d].spent
         /\ \A d \in Channels : d # ch => keys'[d] = keys[d]
<1> DEFINE k == [keys[ch] EXCEPT !.state = state]
<1>1. keys \in [Channels -> [state: KeyStates, spent: Nat]]
  BY DEF MppTypeOK, KeyStates
<1>2. k \in [state: KeyStates, spent: Nat] /\ k.state = state /\ k.spent = keys[ch].spent
  BY <1>1
<1>3. keys' = [keys EXCEPT ![ch] = k]
  BY DEF SetKey
<1> HIDE DEF k
<1> QED
  BY <1>1, <1>2, <1>3

LEMMA SignKeeps ==
  ASSUME MppTypeOK, NEW f \in Fetches, target[f] \in Channels, Sign(f)
  PROVE  /\ keys' \in [Channels -> [state: KeyStates, spent: Nat]]
         /\ keys'[target[f]].spent = keys[target[f]].spent + metered[f]
         /\ keys'[target[f]].state = keys[target[f]].state
         /\ \A d \in Channels : d # target[f] => keys'[d] = keys[d]
<1> DEFINE ch == target[f]
           n == keys[ch].spent + metered[f]
           k == [keys[ch] EXCEPT !.spent = n]
<1>1. keys \in [Channels -> [state: KeyStates, spent: Nat]] /\ metered[f] \in Nat
  BY DEF MppTypeOK, KeyStates
<1>2. n \in Nat
  BY <1>1
<1>3. keys' = [keys EXCEPT ![ch] = k]
  BY DEF Sign
<1> HIDE DEF n
<1>4. k \in [state: KeyStates, spent: Nat] /\ k.spent = n /\ k.state = keys[ch].state
  BY <1>1, <1>2
<1> HIDE DEF k
<1> QED
  BY <1>1, <1>3, <1>4 DEF n

LEMMA SessionRecords ==
  ASSUME MppTypeOK, NEW ch \in Channels
  PROVE  /\ session[ch] \in Session
         /\ session[ch].hasKey \in BOOLEAN
         /\ session[ch].last # None =>
              session[ch].last.channel \in Channels /\ session[ch].last.amount \in Nat
         /\ keys[ch].state \in KeyStates /\ keys[ch].spent \in Nat
<1>1. session[ch] \in Session /\ keys[ch] \in [state: KeyStates, spent: Nat]
  BY DEF MppTypeOK, KeyStates
<1>2. session[ch].last \in SessionVoucher \cup {None}
  BY <1>1 DEF Session
<1> QED
  BY <1>1, <1>2 DEF Session, SessionVoucher

--------------------------------------------------------------------------------
(* The steps of MppNext, grouped. *)

\* A call of the fetch begins, or goes on after the opening it waited for.
Meters(f) ==
  Resume(f) \/ \E u \in Passed : CallFetch(f, u) \/ WaitForOpening(f, u)

\* performFetch opens a channel.
Opens(f) ==
  \/ FirstAnswer(f) \/ Checked(f) \/ Created(f) \/ WalletRefuses(f) \/ SendOpen(f)
  \/ SendOpenThrows(f) \/ OpenAnswer(f) \/ KeyBound(f) \/ BindFails(f) \/ Undone(f)

\* performFetch pays on a channel.
Pays(f) == MppSigned(f) \/ SignFails(f) \/ PaidAnswer(f)

\* close() or forceClose().
Closes(c) ==
  \/ c \in Closers /\ (Close(c) \/ CloserStep(c))
  \/ c \in Forcers /\ (ForceClose(c) \/ ForcerStep(c))

LEMMA MppNextCases ==
  ASSUME [MppNext]_mppVars
  PROVE  \/ Add
         \/ \E f \in Fetches : Meters(f) \/ Opens(f) \/ Pays(f)
         \/ \E c \in Closers \cup Forcers : Closes(c)
         \/ UNCHANGED mppVars
<1>1. ASSUME NEW f \in Fetches, FetchStep(f)
      PROVE  Meters(f) \/ Opens(f) \/ Pays(f)
  BY <1>1 DEF FetchStep, Meters, Opens, Pays
<1>2. ASSUME NEW f \in Fetches, NEW u \in Passed, CallFetch(f, u) \/ WaitForOpening(f, u)
      PROVE  Meters(f)
  BY <1>2 DEF Meters
<1>3. ASSUME NEW c \in Closers, Close(c) \/ CloserStep(c)
      PROVE  c \in Closers \cup Forcers /\ Closes(c)
  BY <1>3 DEF Closes
<1>4. ASSUME NEW c \in Forcers, ForceClose(c) \/ ForcerStep(c)
      PROVE  c \in Closers \cup Forcers /\ Closes(c)
  BY <1>4 DEF Closes
<1> QED
  BY <1>1, <1>2, <1>3, <1>4 DEF MppNext

--------------------------------------------------------------------------------
(* Types. *)

LEMMA MetersType ==
  ASSUME MppTypeOK, Targets, NEW f \in Fetches, Meters(f)
  PROVE  MppTypeOK'
<1> USE CallsDisjoint DEF mppClient, locals, outside
<1>2. ASSUME NEW u \in Nat, StartVoucher(f, u)
      PROVE  MppTypeOK'
  <2>1. mppPc' \in [Calls -> MppSteps] /\ queue' \in Seq(Calls)
    BY <1>2, AskMoves DEF StartVoucher, MppSteps
  <2> QED
    BY <1>2, <2>1 DEF MppTypeOK, StartVoucher, Metered
<1>3. ASSUME NEW u, StartOpen(f, u), opening' \in {opening, f}
      PROVE  MppTypeOK'
  <2>1. mppPc' \in [Calls -> MppSteps]
    BY <1>3, GotoMoves DEF StartOpen, MppSteps
  <2> QED
    BY <1>3, <2>1 DEF MppTypeOK, StartOpen
<1>4. ASSUME NEW u \in Passed, WaitForOpening(f, u)
      PROVE  MppTypeOK'
  <2>1. mppPc' \in [Calls -> MppSteps]
    BY <1>4, GotoMoves DEF WaitForOpening, MppSteps
  <2>2. u \in Nat
    BY MppConstantsAssumption
  <2> QED
    BY <1>4, <2>1, <2>2 DEF MppTypeOK, WaitForOpening
<1>5. ASSUME NEW u \in Passed, CallFetch(f, u)
      PROVE  MppTypeOK'
  <2>1. u \in Nat
    BY MppConstantsAssumption
  <2> QED
    BY <1>2, <1>3, <1>5, <2>1 DEF CallFetch, mppVars, MppTypeOK
<1>6. CASE Resume(f)
  <2>1. passed[f] \in Nat
    BY DEF MppTypeOK
  <2>2. Goto(f, "idle") => mppPc' \in [Calls -> MppSteps]
    BY GotoMoves DEF MppSteps
  <2> QED
    BY <1>2, <1>3, <1>6, <2>1, <2>2 DEF Resume, MppTypeOK
<1> QED
  BY <1>4, <1>5, <1>6 DEF Meters

LEMMA OpensType ==
  ASSUME MppTypeOK, Targets, NEW f \in Fetches, Opens(f)
  PROVE  MppTypeOK'
<1> USE CallsDisjoint DEF mppClient, locals, outside
<1>1. ASSUME NEW ok \in BOOLEAN, OpenStops(f, ok), queue' \in Seq(Calls)
      PROVE  MppTypeOK'
  <2>1. Ends(f, ok) /\ UNCHANGED <<pending, active, session, listed, keys, outside>>
    BY <1>1 DEF OpenStops
  <2> QED
    BY <1>1, <2>1, EndsKeeps DEF MppTypeOK, KeyStates
<1>2. ASSUME NEW step \in MppSteps, Goto(f, step) \/ AskManager(f, step)
      PROVE  mppPc' \in [Calls -> MppSteps] /\ (AskManager(f, step) => queue' \in Seq(Calls))
  BY <1>2, GotoMoves, AskMoves
<1>3. mppPc[f] \in TargetSteps => target[f] \in Channels
  BY DEF Targets
<1>4. {"first", "check", "create", "open", "bind", "undo", "wallet"} \subseteq MppSteps
  BY DEF MppSteps
<1>5. CASE FirstAnswer(f)
  BY <1>1, <1>2, <1>4, <1>5 DEF FirstAnswer, MppTypeOK
<1>6. CASE Checked(f)
  BY <1>1, <1>2, <1>4, <1>6 DEF Checked, MppTypeOK
<1>7. CASE Created(f)
  <2>1. queue' \in Seq(Calls)
    BY <1>7, ServedQueue DEF Created
  <2>2. ASSUME NEW ch \in Channels, SetKey(ch, "unbound")
        PROVE  keys' \in [Channels -> [state: KeyStates, spent: Nat]]
    BY <2>2, SetKeyKeeps DEF KeyStates
  <2>3. ASSUME NEW ch \in Channels, target' = [target EXCEPT ![f] = ch]
        PROVE  target' \in [Calls -> Channels \cup {None}]
    BY <2>3 DEF MppTypeOK
  <2>4. CASE OpenStops(f, FALSE)
    BY <1>1, <2>1, <2>4
  <2>5. CASE ~OpenStops(f, FALSE)
    <3>1. PICK ch \in Channels : /\ SetKey(ch, "unbound")
                                 /\ target' = [target EXCEPT ![f] = ch]
                                 /\ Goto(f, "wallet")
                                 /\ UNCHANGED <<mppClient, passed, metered, final, outside>>
      BY <1>7, <2>5 DEF Created
    <3>2. mppPc' \in [Calls -> MppSteps]
      BY <1>2, <1>4, <3>1
    <3> QED
      BY <2>1, <2>2, <2>3, <3>1, <3>2 DEF MppTypeOK, KeyStates
  <2> QED
    BY <2>4, <2>5
<1>8. CASE WalletRefuses(f) \/ OpenAnswer(f)
  BY <1>2, <1>4, <1>8 DEF WalletRefuses, OpenAnswer, MppTypeOK
<1>9. CASE SendOpen(f) \/ SendOpenThrows(f)
  <2>1. target[f] \in Channels
    BY <1>3, <1>9 DEF SendOpen, SendOpenThrows, At, TargetSteps, OwnerSteps
  <2>2. [hasKey |-> TRUE, last |-> None] \in Session
    BY DEF Session
  <2>3. active' \in Channels /\ session' \in [Channels -> Session] /\ listed' \subseteq Channels
    BY <1>9, <2>1, <2>2 DEF SendOpen, SendOpenThrows, Activate, MppTypeOK
  <2> QED
    BY <1>2, <1>4, <1>9, <2>1, <2>3 DEF SendOpen, SendOpenThrows, MppTypeOK
<1>10. CASE KeyBound(f) \/ BindFails(f)
  <2> DEFINE state == IF keys[target[f]].state = "revoked" THEN "revoked" ELSE "bound"
  <2>1. target[f] \in Channels /\ state \in KeyStates
    BY <1>3, <1>10 DEF KeyBound, BindFails, MppServed, At, TargetSteps, OwnerSteps, KeyStates
  <2>2. SetKey(target[f], state) \/ UNCHANGED keys
    BY <1>10 DEF KeyBound, BindFails, SetKeyOrNot
  <2> HIDE DEF state
  <2>3. keys' \in [Channels -> [state: KeyStates, spent: Nat]]
    BY <2>1, <2>2, SetKeyKeeps DEF MppTypeOK, KeyStates
  <2>4. CASE KeyBound(f)
    <3>1. Ends(f, TRUE) /\ queue' \in Seq(Calls) /\ UNCHANGED <<pending, active, session, listed, outside>>
      BY <2>4, ServedQueue DEF KeyBound
    <3> QED
      BY <2>3, <3>1, EndsKeeps
  <2>5. CASE BindFails(f)
    <3>1. mppPc' \in [Calls -> MppSteps] /\ queue' \in Seq(Calls)
      BY <1>2, <1>4, <2>5 DEF BindFails, MppTypeOK
    <3> QED
      BY <2>3, <2>5, <3>1 DEF BindFails, MppTypeOK, KeyStates
  <2> QED
    BY <1>10, <2>4, <2>5
<1>11. CASE Undone(f)
  <2> DEFINE ch == target[f]
             r == [session[ch] EXCEPT !.hasKey = FALSE]
  <2>1. ch \in Channels
    BY <1>3, <1>11 DEF Undone, MppServed, At, TargetSteps, OwnerSteps
  <2>2. keys' \in [Channels -> [state: KeyStates, spent: Nat]]
    BY <1>11, <2>1, SetKeyKeeps DEF Undone, MppTypeOK, KeyStates
  <2>3. session[ch] \in Session
    BY <2>1 DEF MppTypeOK
  <2>4. r \in Session
    BY <2>3 DEF Session
  <2>5. UNCHANGED session \/ session' = [session EXCEPT ![ch] = r]
    BY <1>11 DEF Undone
  <2> HIDE DEF r
  <2>6. session' \in [Channels -> Session]
    BY <2>1, <2>4, <2>5 DEF MppTypeOK
  <2>7. queue' \in Seq(Calls)
    BY <1>11, ServedQueue DEF Undone
  <2>8. Ends(f, FALSE) /\ active' \in Channels \cup {None} /\ listed' \subseteq Channels
    BY <1>11 DEF Undone, MppTypeOK
  <2>9. pending' \in Nat /\ handed' \subseteq Channels /\ reported' \in Nat
        /\ bindings' \subseteq [channel: Channels, expected: Nat]
    BY <1>11 DEF Undone, MppTypeOK
  <2> QED
    BY <2>2, <2>6, <2>7, <2>8, <2>9, EndsType
<1> QED
  BY <1>5, <1>6, <1>7, <1>8, <1>9, <1>10, <1>11 DEF Opens

LEMMA PaysType ==
  ASSUME MppTypeOK, Targets, NEW f \in Fetches, Pays(f)
  PROVE  MppTypeOK'
<1> USE CallsDisjoint DEF mppClient, locals, outside
<1>1. mppPc[f] \in TargetSteps => target[f] \in Channels
  BY DEF Targets
<1>2. passed[f] \in Nat /\ metered[f] \in Nat
  BY DEF MppTypeOK
<1>3. CASE MppSigned(f)
  <2> DEFINE v == [channel |-> target[f], amount |-> keys[target[f]].spent + metered[f]]
             r == [session[active] EXCEPT !.last = v]
  <2>1. target[f] \in Channels
    BY <1>1, <1>3 DEF MppSigned, MppServed, At, TargetSteps
  <2>2. v \in SessionVoucher
    BY <1>2, <2>1, SessionRecords DEF SessionVoucher
  <2>3. keys' \in [Channels -> [state: KeyStates, spent: Nat]]
    BY <1>3, <2>1, SignKeeps DEF MppSigned
  <2>4. active # None => active \in Channels /\ session[active] \in Session
    BY DEF MppTypeOK
  <2>5. UNCHANGED session \/ (active # None /\ session' = [session EXCEPT ![active] = r])
    BY <1>3 DEF MppSigned
  <2> HIDE DEF v
  <2>6. active # None => r \in Session
    BY <2>2, <2>4 DEF Session
  <2> HIDE DEF r
  <2>7. session' \in [Channels -> Session]
    BY <2>4, <2>5, <2>6 DEF MppTypeOK
  <2>8. reported' \in Nat /\ queue' \in Seq(Calls)
    BY <1>2, <1>3, ServedQueue DEF MppSigned, Report, MppTypeOK
  <2>9. Goto(f, "paid") => mppPc' \in [Calls -> MppSteps]
    BY GotoMoves DEF MppSteps
  <2>10. /\ pending' \in Nat /\ active' \in Channels \cup {None} /\ listed' \subseteq Channels
         /\ handed' \subseteq Channels /\ bindings' \subseteq [channel: Channels, expected: Nat]
    BY <1>3 DEF MppSigned, MppTypeOK
  <2>11. CASE Ends(f, FALSE)
    BY <2>3, <2>7, <2>8, <2>10, <2>11, EndsType
  <2>12. CASE Goto(f, "paid") /\ UNCHANGED <<opening, locals>>
    BY <2>3, <2>7, <2>8, <2>9, <2>10, <2>12 DEF MppTypeOK, KeyStates
  <2> QED
    BY <1>3, <2>11, <2>12 DEF MppSigned
<1>4. CASE SignFails(f)
  <2>1. target[f] \in Channels
    BY <1>1, <1>4 DEF SignFails, MppServed, At, TargetSteps
  <2>2. keys' \in [Channels -> [state: KeyStates, spent: Nat]]
    BY <1>4, <2>1, SignKeeps DEF SignFails, MppTypeOK, KeyStates
  <2>3. pending' \in Nat /\ queue' \in Seq(Calls)
    BY <1>2, <1>4, ServedQueue DEF SignFails, MppTypeOK
  <2>4. Ends(f, FALSE) /\ UNCHANGED <<active, session, listed, outside>>
    BY <1>4 DEF SignFails
  <2>5. /\ session' \in [Channels -> Session] /\ active' \in Channels \cup {None} /\ listed' \subseteq Channels
        /\ handed' \subseteq Channels /\ bindings' \subseteq [channel: Channels, expected: Nat] /\ reported' \in Nat
    BY <2>4 DEF MppTypeOK
  <2> QED
    BY <2>2, <2>3, <2>4, <2>5, EndsType
<1>5. CASE PaidAnswer(f)
  <2>1. Ends(f, TRUE) /\ UNCHANGED <<pending, active, session, listed, keys, queue, outside>>
    BY <1>5 DEF PaidAnswer
  <2>2. keys' \in [Channels -> [state: KeyStates, spent: Nat]] /\ queue' \in Seq(Calls)
    BY <2>1 DEF MppTypeOK, KeyStates
  <2> QED
    BY <2>1, <2>2, EndsKeeps
<1> QED
  BY <1>3, <1>4, <1>5 DEF Pays

LEMMA ClosesType ==
  ASSUME MppTypeOK, Targets, NEW c \in Closers \cup Forcers, Closes(c)
  PROVE  MppTypeOK'
<1> USE CallsDisjoint DEF mppClient, locals, outside
<1>1. c \in Calls /\ (mppPc[c] \in TargetSteps => target[c] \in Channels)
  BY DEF Targets
<1>2. ASSUME NEW step \in MppSteps, Goto(c, step) \/ AskManager(c, step)
      PROVE  mppPc' \in [Calls -> MppSteps] /\ (AskManager(c, step) => queue' \in Seq(Calls))
  BY <1>1, <1>2, GotoMoves, AskMoves
<1>3. {"closing", "revoking", "forcing", "forceRevoking"} \subseteq MppSteps \cap TargetSteps
  BY DEF MppSteps, TargetSteps
<1>4. active # None => active \in Channels
  BY DEF MppTypeOK
<1>5. CASE Close(c) \/ ForceClose(c)
  <2>1. final' \in [Closers \cup Forcers -> Nat]
    BY <1>4, <1>5, SessionRecords DEF Close, ForceClose, MppTypeOK
  <2>2. target' \in [Calls -> Channels \cup {None}]
    BY <1>1, <1>4, <1>5 DEF Close, ForceClose, MppTypeOK
  <2>3. mppPc' \in [Calls -> MppSteps]
    BY <1>2, <1>3, <1>5 DEF Close, ForceClose
  <2> QED
    BY <1>5, <2>1, <2>2, <2>3 DEF Close, ForceClose, MppTypeOK
<1>6. CASE CloseAnswer(c) \/ ForceCloseFails(c)
  <2>1. CASE AskManager(c, "revoking") /\ UNCHANGED <<mppClient, locals, keys, outside>>
    BY <1>2, <1>3, <2>1 DEF MppTypeOK
  <2>2. CASE Ends(c, FALSE) /\ UNCHANGED <<pending, active, session, listed, queue, keys, outside>>
    <3>1. mppPc' \in [Calls -> MppSteps] /\ opening' \in Fetches \cup {None} /\ target' \in [Calls -> Channels \cup {None}]
      BY <1>1, <2>2, EndsMoves
    <3>2. UNCHANGED <<passed, metered, final>>
      BY <2>2 DEF Ends
    <3> QED
      BY <2>2, <3>1, <3>2 DEF MppTypeOK
  <2> QED
    BY <1>6, <2>1, <2>2 DEF CloseAnswer, ForceCloseFails
<1>7. ASSUME target[c] \in Channels, Forget(target[c]), Return(c)
      PROVE  /\ active' \in Channels \cup {None} /\ listed' \subseteq Channels
             /\ bindings' \subseteq [channel: Channels, expected: Nat]
  BY <1>7 DEF Forget, Return, MppTypeOK
<1>8. CASE ForceCloseSent(c)
  <2>1. target[c] \in Channels
    BY <1>1, <1>3, <1>8 DEF ForceCloseSent, At
  <2>2. CASE AskManager(c, "forceRevoking") /\ UNCHANGED <<mppClient, locals, bindings, keys, handed, reported>>
    BY <1>2, <1>3, <2>2 DEF MppTypeOK
  <2>3. CASE Forget(target[c]) /\ Return(c) /\ Ends(c, TRUE) /\ UNCHANGED <<pending, session, queue, keys, handed, reported>>
    <3>1. /\ pending' \in Nat /\ session' \in [Channels -> Session] /\ handed' \subseteq Channels
          /\ reported' \in Nat /\ queue' \in Seq(Calls) /\ keys' \in [Channels -> [state: KeyStates, spent: Nat]]
      BY <2>3 DEF MppTypeOK, KeyStates
    <3> QED
      BY <1>1, <1>7, <2>1, <2>3, <3>1, EndsType
  <2> QED
    BY <1>8, <2>2, <2>3 DEF ForceCloseSent
<1>9. CASE Closed(c) \/ ForceClosed(c)
  <2>1. target[c] \in Channels /\ queue' \in Seq(Calls)
    BY <1>1, <1>3, <1>9, ServedQueue DEF Closed, ForceClosed, MppServed, At
  <2>2. keys' \in [Channels -> [state: KeyStates, spent: Nat]]
    BY <1>9, <2>1, SetKeyKeeps DEF Closed, ForceClosed, KeyStates
  <2>3. /\ active' \in Channels \cup {None} /\ listed' \subseteq Channels
        /\ bindings' \subseteq [channel: Channels, expected: Nat]
    BY <1>7, <1>9, <2>1 DEF Closed, ForceClosed
  <2>4. Ends(c, TRUE) /\ UNCHANGED <<pending, session, handed, reported>>
    BY <1>9 DEF Closed, ForceClosed
  <2>5. /\ pending' \in Nat /\ session' \in [Channels -> Session] /\ handed' \subseteq Channels
        /\ reported' \in Nat
    BY <2>4 DEF MppTypeOK
  <2> QED
    BY <1>1, <2>1, <2>2, <2>3, <2>4, <2>5, EndsType
<1>10. CASE RevokeFails(c)
  <2>1. target[c] \in Channels /\ queue' \in Seq(Calls)
    BY <1>1, <1>3, <1>10, ServedQueue DEF RevokeFails, MppServed, At
  <2>2. keys' \in [Channels -> [state: KeyStates, spent: Nat]]
    BY <1>10, <2>1, SetKeyKeeps DEF RevokeFails, SetKeyOrNot, MppTypeOK, KeyStates
  <2>3. Ends(c, FALSE) /\ UNCHANGED <<pending, active, session, listed, outside>>
    BY <1>10 DEF RevokeFails
  <2>4. /\ pending' \in Nat /\ session' \in [Channels -> Session] /\ handed' \subseteq Channels
        /\ reported' \in Nat /\ active' \in Channels \cup {None} /\ listed' \subseteq Channels
        /\ bindings' \subseteq [channel: Channels, expected: Nat]
    BY <2>3 DEF MppTypeOK
  <2> QED
    BY <1>1, <2>1, <2>2, <2>3, <2>4, EndsType
<1> QED
  BY <1>5, <1>6, <1>8, <1>9, <1>10 DEF Closes, CloserStep, ForcerStep

LEMMA MppTypeStep ==
  ASSUME MppTypeOK, Targets, [MppNext]_mppVars
  PROVE  MppTypeOK'
<1>1. CASE UNCHANGED mppVars
  BY <1>1 DEF mppVars, mppClient, locals, outside, MppTypeOK
<1>2. CASE Add
  BY <1>2 DEF Add, MppTypeOK, locals
<1> QED
  BY <1>1, <1>2, MetersType, OpensType, PaysType, ClosesType, MppNextCases

--------------------------------------------------------------------------------
(* Which call works on which channel. *)

\* A call that moves within its own steps.
LEMMA TargetsMove ==
  ASSUME MppTypeOK, Targets, NEW c \in Calls, NEW step,
         mppPc'[c] = step, \A d \in Calls : d # c => mppPc'[d] = mppPc[d],
         IF step \in TargetSteps THEN target'[c] \in Channels ELSE target'[c] = None,
         \A d \in Calls : d # c => target'[d] = target[d],
         \/ c \in Fetches /\ step \in FetchSteps
         \/ c \in Closers /\ step \in {"idle", "closing", "revoking"}
         \/ c \in Forcers /\ step \in {"idle", "forcing", "forceRevoking"}
  PROVE  Targets'
BY CallsDisjoint DEF Targets

LEMMA TargetsEnd ==
  ASSUME MppTypeOK, Targets, NEW c \in Calls, NEW ok \in BOOLEAN, Ends(c, ok)
  PROVE  Targets'
BY EndsMoves, CallsDisjoint
   DEF Targets, FetchSteps, TargetSteps, OwnerSteps

LEMMA TargetsStep ==
  ASSUME MppTypeOK, Targets, [MppNext]_mppVars
  PROVE  Targets'
<1> USE CallsDisjoint DEF mppClient, locals, outside
<1>1. CASE UNCHANGED mppVars \/ Add
  BY <1>1 DEF mppVars, Add, Targets
<1>2. active # None => active \in Channels
  BY DEF MppTypeOK
<1>3. ASSUME NEW f \in Fetches, Meters(f)
      PROVE  Targets'
  <2>1. mppPc[f] \in {"idle", "resume"} => target[f] = None
    BY DEF Targets, TargetSteps, OwnerSteps
  <2>2. ASSUME NEW u, StartVoucher(f, u)
        PROVE  Targets'
    <3>1. target'[f] = active /\ \A d \in Calls : d # f => target'[d] = target[d]
      BY <2>2 DEF StartVoucher, MppTypeOK
    <3>2. mppPc'[f] = "sign" /\ \A d \in Calls : d # f => mppPc'[d] = mppPc[d]
      BY <2>2, AskMoves DEF StartVoucher, MppSteps
    <3>3. active \in Channels /\ "sign" \in TargetSteps /\ "sign" \in FetchSteps
      BY <1>2, <2>2 DEF StartVoucher, TargetSteps, FetchSteps
    <3> QED
      BY <3>1, <3>2, <3>3, TargetsMove
  <2>3. ASSUME NEW step \in {"first", "await", "idle"}, Goto(f, step), UNCHANGED target,
               mppPc[f] \in {"idle", "resume"}
        PROVE  Targets'
    <3>1. mppPc'[f] = step /\ \A d \in Calls : d # f => mppPc'[d] = mppPc[d]
      BY <2>3, GotoMoves DEF MppSteps
    <3>2. step \notin TargetSteps /\ step \in FetchSteps
      BY DEF TargetSteps, OwnerSteps, FetchSteps
    <3> QED
      BY <2>1, <2>3, <3>1, <3>2, TargetsMove
  <2>4. CASE Resume(f)
    BY <2>2, <2>3, <2>4 DEF Resume, StartOpen
  <2>5. ASSUME NEW u \in Passed, CallFetch(f, u) \/ WaitForOpening(f, u)
        PROVE  Targets'
    BY <1>1, <2>2, <2>3, <2>5 DEF CallFetch, WaitForOpening, StartOpen, At
  <2> QED
    BY <1>3, <2>4, <2>5 DEF Meters
<1>4. ASSUME NEW f \in Fetches, Opens(f) \/ Pays(f), ~(\E ok \in BOOLEAN : Ends(f, ok)),
             ~Created(f)
      PROVE  Targets'
  <2>1. PICK step \in {"check", "create", "undo", "open", "bind", "paid"} :
          /\ Goto(f, step) /\ UNCHANGED target
          /\ step \in {"check", "create"} => mppPc[f] \in {"first", "check"}
          /\ step \notin {"check", "create"} => mppPc[f] \in OwnerSteps \cup {"sign"}
    BY <1>4 DEF Opens, Pays, FirstAnswer, Checked, OpenStops, WalletRefuses, SendOpen,
       SendOpenThrows, OpenAnswer, KeyBound, BindFails, Undone, MppSigned, SignFails,
       PaidAnswer, AskManager, MppServed, At, OwnerSteps
  <2>2. mppPc'[f] = step /\ \A d \in Calls : d # f => mppPc'[d] = mppPc[d]
    BY <2>1, GotoMoves DEF MppSteps
  <2>3. /\ step \in FetchSteps
        /\ step \in {"check", "create"} => step \notin TargetSteps /\ target[f] = None
        /\ step \notin {"check", "create"} => step \in TargetSteps /\ target[f] \in Channels
    BY <2>1 DEF Targets, TargetSteps, OwnerSteps, FetchSteps
  <2> QED
    BY <2>1, <2>2, <2>3, TargetsMove
<1>5. ASSUME NEW f \in Fetches, Created(f), ~Ends(f, FALSE)
      PROVE  Targets'
  <2>1. PICK ch \in Channels : target' = [target EXCEPT ![f] = ch] /\ Goto(f, "wallet")
    BY <1>5 DEF Created, OpenStops
  <2>2. mppPc'[f] = "wallet" /\ \A d \in Calls : d # f => mppPc'[d] = mppPc[d]
    BY <2>1, GotoMoves DEF MppSteps
  <2>3. target'[f] = ch /\ \A d \in Calls : d # f => target'[d] = target[d]
    BY <2>1 DEF MppTypeOK
  <2> QED
    BY <2>2, <2>3, TargetsMove DEF FetchSteps, TargetSteps, OwnerSteps
<1>6. ASSUME NEW c \in Closers \cup Forcers, Closes(c), ~(\E ok \in BOOLEAN : Ends(c, ok))
      PROVE  Targets'
  <2>1. CASE Close(c) \/ ForceClose(c)
    <3>1. PICK step \in {"closing", "forcing"} :
            /\ Goto(c, step) /\ target' = [target EXCEPT ![c] = active] /\ active # None
            /\ c \in Closers => step = "closing"
            /\ c \in Forcers => step = "forcing"
      BY <1>6, <2>1 DEF Closes, Close, ForceClose, CloserStep, ForcerStep, CloseAnswer, Closed,
         RevokeFails, ForceCloseSent, ForceCloseFails, ForceClosed, MppServed, At
    <3>2. mppPc'[c] = step /\ \A d \in Calls : d # c => mppPc'[d] = mppPc[d]
      BY <3>1, GotoMoves DEF MppSteps
    <3>3. target'[c] = active /\ \A d \in Calls : d # c => target'[d] = target[d]
      BY <3>1 DEF MppTypeOK
    <3> QED
      BY <1>2, <3>1, <3>2, <3>3, TargetsMove DEF TargetSteps
  <2>2. CASE ~(Close(c) \/ ForceClose(c))
    <3>1. PICK step \in {"revoking", "forceRevoking"} :
            /\ Goto(c, step) /\ UNCHANGED target /\ mppPc[c] \in TargetSteps
            /\ c \in Closers => step = "revoking"
            /\ c \in Forcers => step = "forceRevoking"
      BY <1>6, <2>2 DEF Closes, CloserStep, ForcerStep, CloseAnswer, Closed, RevokeFails,
         ForceCloseSent, ForceCloseFails, ForceClosed, AskManager, At, TargetSteps
    <3>2. mppPc'[c] = step /\ \A d \in Calls : d # c => mppPc'[d] = mppPc[d]
      BY <3>1, GotoMoves DEF MppSteps
    <3>3. target[c] \in Channels /\ step \in TargetSteps
      BY <3>1 DEF Targets, TargetSteps
    <3> QED
      BY <3>1, <3>2, <3>3, TargetsMove
  <2> QED
    BY <2>1, <2>2
<1> QED
  BY <1>1, <1>3, <1>4, <1>5, <1>6, TargetsEnd, MppNextCases

--------------------------------------------------------------------------------
(* Who knows a channel. *)

LEMMA ReturnCloses ==
  ASSUME NEW c, Return(c)
  PROVE  ClosedChannels' = ClosedChannels \cup {target[c]}
<1> DEFINE b == [channel |-> target[c], expected |-> final[c]]
<1>1. bindings' = bindings \cup {b} /\ b.channel = target[c]
  BY DEF Return
<1> HIDE DEF b
<1> QED
  BY <1>1 DEF ClosedChannels

\* Steps that make no channel known: a call takes the active channel, or leaves
\* its channel, and what is closed is the channel of a call.
KeepsChannels ==
  /\ active' \in {active, None}
  /\ ClosedChannels' \subseteq ClosedChannels \cup {target[c] : c \in Closers \cup Forcers}
  /\ \A ch \in Channels :
       /\ session'[ch].hasKey => session[ch].hasKey
       /\ keys'[ch].state = "absent" => keys[ch].state = "absent"
  /\ \A c \in Calls : target'[c] \in {target[c], active, None}
  /\ \A f \in Fetches : mppPc'[f] \in OwnerSteps =>
       /\ mppPc[f] \in OwnerSteps /\ target'[f] = target[f]
       /\ session'[target[f]].hasKey = session[target[f]].hasKey
       /\ mppPc'[f] = "wallet" => mppPc[f] = "wallet"
       /\ mppPc'[f] \in {"open", "bind"} => mppPc[f] \in {"open", "bind"}

ChannelsInv == MppTypeOK /\ Targets /\ AbsentIsUnused /\ OpenedByOne

LEMMA KeptUnknown ==
  ASSUME ChannelsInv, KeepsChannels
  PROVE  AbsentIsUnused' /\ OpenedByOne'
<1> USE CallsDisjoint DEF ChannelsInv
<1>1. ASSUME NEW ch \in Channels, active # ch, ~session[ch].hasKey, ch \notin ClosedChannels,
             \A c \in Closers \cup Forcers : target[c] # ch
      PROVE  active' # ch /\ ~session'[ch].hasKey /\ ch \notin ClosedChannels'
  BY <1>1, MppConstantsAssumption DEF KeepsChannels
<1>2. AbsentIsUnused'
  <2> SUFFICES ASSUME NEW ch \in Channels, keys'[ch].state = "absent"
      PROVE  /\ active' # ch /\ ~session'[ch].hasKey /\ ch \notin ClosedChannels'
             /\ \A c \in Calls : target'[c] # ch
    BY DEF AbsentIsUnused
  <2>1. /\ active # ch /\ ~session[ch].hasKey /\ ch \notin ClosedChannels
        /\ \A c \in Calls : target[c] # ch
    BY DEF AbsentIsUnused, KeepsChannels
  <2> QED
    BY <1>1, <2>1, MppConstantsAssumption DEF KeepsChannels
<1>3. ASSUME NEW f \in Fetches, mppPc[f] \in OwnerSteps, mppPc'[f] \in OwnerSteps,
             Unused(f, target[f])
      PROVE  Unused(f, target[f])'
  <2>1. target[f] \in Channels /\ target'[f] = target[f]
    BY <1>3 DEF Targets, TargetSteps, KeepsChannels
  <2>2. active' # target[f] /\ ~session'[target[f]].hasKey /\ target[f] \notin ClosedChannels'
    BY <1>1, <1>3, <2>1 DEF Unused
  <2>3. \A c \in Calls : c # f => target'[c] # target[f]
    BY <1>3, <2>1, MppConstantsAssumption DEF Unused, KeepsChannels
  <2> QED
    BY <2>1, <2>2, <2>3 DEF Unused, ClosedChannels
<1>4. OpenedByOne'
  <2> SUFFICES ASSUME NEW f \in Fetches, mppPc'[f] \in OwnerSteps
      PROVE  /\ \A g \in Fetches : g # f => ~Owns(g, target[f])'
             /\ mppPc'[f] = "wallet" => Unused(f, target[f])'
             /\ mppPc'[f] \in {"open", "bind"} => session'[target'[f]].hasKey
             /\ mppPc'[f] = "undo" => session'[target'[f]].hasKey \/ Unused(f, target[f])'
    BY DEF OpenedByOne
  <2>1. /\ mppPc[f] \in OwnerSteps /\ target'[f] = target[f]
        /\ session'[target[f]].hasKey = session[target[f]].hasKey
        /\ mppPc'[f] = "wallet" => mppPc[f] = "wallet"
        /\ mppPc'[f] \in {"open", "bind"} => mppPc[f] \in {"open", "bind"}
    BY DEF KeepsChannels
  <2>2. session[target[f]].hasKey \/ Unused(f, target[f])
    BY <2>1 DEF OpenedByOne, OwnerSteps
  <2>3. \A g \in Fetches : g # f => ~Owns(g, target[f])'
    BY <2>1 DEF OpenedByOne, KeepsChannels, Owns
  <2> QED
    BY <1>3, <2>1, <2>2, <2>3 DEF OpenedByOne
<1> QED
  BY <1>2, <1>4

\* A call that ends leaves what it worked on.
LEMMA EndsKeepsOwners ==
  ASSUME ChannelsInv, NEW c \in Calls, NEW ok \in BOOLEAN, Ends(c, ok)
  PROVE  /\ \A d \in Calls : target'[d] \in {target[d], None}
         /\ \A f \in Fetches : mppPc'[f] \in OwnerSteps =>
              f # c /\ mppPc'[f] = mppPc[f] /\ target'[f] = target[f]
BY EndsMoves, CallsDisjoint DEF ChannelsInv, OwnerSteps

LEMMA MetersKeepsChannels ==
  ASSUME ChannelsInv, NEW f \in Fetches, Meters(f)
  PROVE  KeepsChannels
<1> USE CallsDisjoint DEF ChannelsInv
<1>1. UNCHANGED <<active, session, bindings>>
  BY DEF Meters, Resume, CallFetch, WaitForOpening, StartVoucher, StartOpen, mppVars,
     mppClient, outside
<1>2. UNCHANGED keys
  BY DEF Meters, Resume, CallFetch, WaitForOpening, StartVoucher, StartOpen, mppVars
<1>3. ASSUME NEW u, StartVoucher(f, u)
      PROVE  KeepsChannels
  <2>1. mppPc'[f] = "sign" /\ \A d \in Calls : d # f => mppPc'[d] = mppPc[d]
    BY <1>3, AskMoves DEF StartVoucher, MppSteps
  <2>2. target'[f] = active /\ \A d \in Calls : d # f => target'[d] = target[d]
    BY <1>3 DEF StartVoucher, MppTypeOK
  <2> QED
    BY <1>1, <1>2, <2>1, <2>2 DEF KeepsChannels, OwnerSteps, ClosedChannels
<1>4. ASSUME NEW step \in {"first", "await", "idle"}, Goto(f, step), UNCHANGED target
      PROVE  KeepsChannels
  <2>1. mppPc'[f] = step /\ \A d \in Calls : d # f => mppPc'[d] = mppPc[d]
    BY <1>4, GotoMoves DEF MppSteps
  <2> QED
    BY <1>1, <1>2, <1>4, <2>1 DEF KeepsChannels, OwnerSteps, ClosedChannels
<1>5. CASE UNCHANGED mppVars
  BY <1>5 DEF mppVars, mppClient, locals, outside, KeepsChannels, ClosedChannels
<1> QED
  BY <1>3, <1>4, <1>5 DEF Meters, Resume, CallFetch, WaitForOpening, StartOpen, locals

LEMMA PaysKeepsChannels ==
  ASSUME ChannelsInv, NEW f \in Fetches, Pays(f)
  PROVE  KeepsChannels
<1> USE CallsDisjoint DEF ChannelsInv
<1>1. UNCHANGED <<active, bindings>>
  BY DEF Pays, MppSigned, SignFails, PaidAnswer, outside
<1>2. \A ch \in Channels : keys'[ch].state = keys[ch].state
  <2>1. CASE Sign(f)
    <3>1. target[f] \in Channels
      BY <2>1 DEF Pays, MppSigned, SignFails, PaidAnswer, MppServed, At, Targets, TargetSteps
    <3> QED
      BY <2>1, <3>1, SignKeeps
  <2> QED
    BY <2>1 DEF Pays, MppSigned, SignFails, PaidAnswer
<1>3. \A ch \in Channels : session'[ch].hasKey = session[ch].hasKey
  <2>1. ASSUME active # None, NEW v, session' = [session EXCEPT ![active].last = v]
        PROVE  \A ch \in Channels : session'[ch].hasKey = session[ch].hasKey
    <3>1. active \in Channels /\ session[active] \in Session
      BY <2>1 DEF MppTypeOK
    <3>2. [session[active] EXCEPT !.last = v].hasKey = session[active].hasKey
      BY <3>1 DEF Session
    <3>3. session' = [session EXCEPT ![active] = [session[active] EXCEPT !.last = v]]
      BY <2>1
    <3> QED
      BY <3>1, <3>2, <3>3 DEF MppTypeOK
  <2> QED
    BY <2>1 DEF Pays, MppSigned, SignFails, PaidAnswer
<1>4. ClosedChannels' = ClosedChannels
  BY <1>1 DEF ClosedChannels
<1>5. \A g \in Fetches : mppPc[g] \in OwnerSteps => target[g] \in Channels
  BY DEF Targets, TargetSteps
<1>6. ASSUME NEW ok \in BOOLEAN, Ends(f, ok)
      PROVE  KeepsChannels
  BY <1>1, <1>2, <1>3, <1>4, <1>5, <1>6, EndsKeepsOwners DEF KeepsChannels
<1>7. ASSUME Goto(f, "paid"), UNCHANGED target
      PROVE  KeepsChannels
  <2>1. mppPc'[f] = "paid" /\ \A d \in Calls : d # f => mppPc'[d] = mppPc[d]
    BY <1>7, GotoMoves DEF MppSteps
  <2> QED
    BY <1>1, <1>2, <1>3, <1>4, <1>5, <1>7, <2>1 DEF KeepsChannels, OwnerSteps
<1> QED
  BY <1>6, <1>7 DEF Pays, MppSigned, SignFails, PaidAnswer, locals

LEMMA ClosesKeepsChannels ==
  ASSUME ChannelsInv, NEW c \in Closers \cup Forcers, Closes(c)
  PROVE  KeepsChannels
<1> USE CallsDisjoint DEF ChannelsInv
<1>1. UNCHANGED session
  BY DEF Closes, CloserStep, ForcerStep, Close, CloseAnswer, Closed, ForceClose,
     ForceCloseSent, ForceCloseFails, ForceClosed, RevokeFails, mppClient
<1>2. mppPc[c] \in TargetSteps => target[c] \in Channels
  BY DEF Targets
<1>3. \A ch \in Channels : keys'[ch].state = "absent" => keys[ch].state = "absent"
  <2>1. ASSUME SetKey(target[c], "revoked"), mppPc[c] \in TargetSteps
        PROVE  \A ch \in Channels : keys'[ch].state = "absent" => keys[ch].state = "absent"
    BY <1>2, <2>1, SetKeyKeeps DEF KeyStates
  <2> QED
    BY <2>1 DEF Closes, CloserStep, ForcerStep, Close, CloseAnswer, Closed, ForceClose,
       ForceCloseSent, ForceCloseFails, ForceClosed, RevokeFails, MppServed, At, SetKeyOrNot,
       TargetSteps
<1>4. active' \in {active, None} /\ (UNCHANGED bindings \/ Return(c))
  BY DEF Closes, CloserStep, ForcerStep, Close, CloseAnswer, Closed, ForceClose,
     ForceCloseSent, ForceCloseFails, ForceClosed, RevokeFails, Forget, mppClient, outside
<1>5. ClosedChannels' \subseteq ClosedChannels \cup {target[d] : d \in Closers \cup Forcers}
  BY <1>4, ReturnCloses DEF ClosedChannels
<1>6. ASSUME NEW ok \in BOOLEAN, Ends(c, ok)
      PROVE  KeepsChannels
  BY <1>1, <1>3, <1>4, <1>5, <1>6, EndsKeepsOwners DEF KeepsChannels
<1>7. ASSUME NEW step \in {"closing", "forcing", "revoking", "forceRevoking"}, Goto(c, step),
             UNCHANGED target \/ target' = [target EXCEPT ![c] = active]
      PROVE  KeepsChannels
  <2>1. mppPc'[c] = step /\ \A d \in Calls : d # c => mppPc'[d] = mppPc[d]
    BY <1>7, GotoMoves DEF MppSteps
  <2>2. \A d \in Calls : target'[d] \in {target[d], active} /\ (d # c => target'[d] = target[d])
    BY <1>7 DEF MppTypeOK
  <2> QED
    BY <1>1, <1>3, <1>4, <1>5, <2>1, <2>2 DEF KeepsChannels, OwnerSteps
<1> QED
  BY <1>6, <1>7 DEF Closes, CloserStep, ForcerStep, Close, CloseAnswer, Closed, ForceClose,
     ForceCloseSent, ForceCloseFails, ForceClosed, RevokeFails, AskManager, locals

\* The steps of an opening that is settled, or goes on with a channel it has.
LEMMA OpensKeepsChannels ==
  ASSUME ChannelsInv, NEW f \in Fetches, Opens(f),
         ~SendOpen(f), ~SendOpenThrows(f), Created(f) => OpenStops(f, FALSE)
  PROVE  KeepsChannels
<1> USE CallsDisjoint DEF ChannelsInv
<1>1. active' \in {active, None} /\ ClosedChannels' = ClosedChannels
  BY DEF Opens, FirstAnswer, Checked, OpenStops, Created, WalletRefuses, OpenAnswer, KeyBound,
     BindFails, Undone, mppClient, outside, ClosedChannels
<1>2. \A g \in Fetches : mppPc[g] \in OwnerSteps => target[g] \in Channels
  BY DEF Targets, TargetSteps
<1>3. \A ch \in Channels : keys'[ch].state = "absent" => keys[ch].state = "absent"
  <2>1. ASSUME NEW state \in {"bound", "revoked"}, SetKey(target[f], state),
               mppPc[f] \in OwnerSteps
        PROVE  \A ch \in Channels : keys'[ch].state = "absent" => keys[ch].state = "absent"
    BY <1>2, <2>1, SetKeyKeeps DEF KeyStates
  <2> QED
    BY <2>1 DEF Opens, FirstAnswer, Checked, OpenStops, Created, WalletRefuses, OpenAnswer,
       KeyBound, BindFails, Undone, MppServed, At, SetKeyOrNot, OwnerSteps
<1>4. \/ UNCHANGED session
      \/ Undone(f) /\ session' = [session EXCEPT ![target[f]].hasKey = FALSE]
  <2>1. CASE Undone(f)
    BY <2>1 DEF Undone
  <2>2. OpenStops(f, TRUE) \/ OpenStops(f, FALSE) \/ UNCHANGED mppClient
        => UNCHANGED session
    BY DEF OpenStops, mppClient
  <2>4. FirstAnswer(f) \/ Checked(f) \/ Created(f) => UNCHANGED session
    BY <2>2, Zenon DEF FirstAnswer, Checked, Created
  <2>3. WalletRefuses(f) \/ OpenAnswer(f) \/ KeyBound(f) \/ BindFails(f) => UNCHANGED session
    BY DEF WalletRefuses, OpenAnswer, KeyBound, BindFails, mppClient
  <2> QED
    BY <2>1, <2>3, <2>4 DEF Opens
<1>5. CASE Undone(f) /\ ~(UNCHANGED session)
  <2> DEFINE ch == target[f]
             r == [session[ch] EXCEPT !.hasKey = FALSE]
  <2>1. ch \in Channels /\ mppPc[f] \in OwnerSteps
    BY <1>2, <1>5 DEF Undone, MppServed, At, OwnerSteps
  <2>2. session[ch] \in Session /\ r.hasKey = FALSE
    BY <2>1 DEF MppTypeOK, Session
  <2>3. session' = [session EXCEPT ![ch] = r]
    BY <1>4, <1>5
  <2> HIDE DEF r
  <2>4. ~session'[ch].hasKey /\ \A d \in Channels : d # ch => session'[d] = session[d]
    BY <2>1, <2>2, <2>3 DEF MppTypeOK
  <2>5. \A g \in Fetches : g # f /\ mppPc[g] \in OwnerSteps => target[g] # ch
    BY <2>1 DEF OpenedByOne, Owns
  <2>6. Ends(f, FALSE)
    BY <1>5 DEF Undone
  <2> QED
    BY <1>1, <1>2, <1>3, <2>1, <2>4, <2>5, <2>6, EndsKeepsOwners DEF KeepsChannels
<1>6. ASSUME UNCHANGED session, NEW ok \in BOOLEAN, Ends(f, ok)
      PROVE  KeepsChannels
  BY <1>1, <1>2, <1>3, <1>6, EndsKeepsOwners DEF KeepsChannels
<1>7. ASSUME UNCHANGED <<session, target>>, NEW step \in MppSteps, Goto(f, step),
             step \in OwnerSteps =>
               /\ mppPc[f] \in OwnerSteps /\ step # "wallet"
               /\ step \in {"open", "bind"} => mppPc[f] \in {"open", "bind"}
      PROVE  KeepsChannels
  <2>1. mppPc'[f] = step /\ \A d \in Calls : d # f => mppPc'[d] = mppPc[d]
    BY <1>7, GotoMoves
  <2> QED
    BY <1>1, <1>2, <1>3, <1>7, <2>1 DEF KeepsChannels
<1>8. {"check", "create", "undo", "bind"} \subseteq MppSteps
  BY DEF MppSteps
<1>9. CASE FirstAnswer(f) \/ Checked(f) \/ Created(f)
  BY <1>6, <1>7, <1>8, <1>9 DEF FirstAnswer, Checked, Created, OpenStops, AskManager, mppClient,
     locals, OwnerSteps
<1>10. CASE WalletRefuses(f) \/ OpenAnswer(f) \/ BindFails(f)
  BY <1>7, <1>8, <1>10 DEF WalletRefuses, OpenAnswer, BindFails, AskManager, At, mppClient,
     locals, OwnerSteps
<1>11. CASE KeyBound(f) \/ (Undone(f) /\ UNCHANGED session)
  BY <1>6, <1>11 DEF KeyBound, Undone
<1> QED
  BY <1>5, <1>9, <1>10, <1>11 DEF Opens

LEMMA CreatedIsUnused ==
  ASSUME ChannelsInv, NEW f \in Fetches, Created(f), ~OpenStops(f, FALSE)
  PROVE  AbsentIsUnused' /\ OpenedByOne'
<1> USE CallsDisjoint DEF ChannelsInv
<1>1. PICK ch \in Channels : /\ keys[ch].state = "absent" /\ SetKey(ch, "unbound")
                             /\ target' = [target EXCEPT ![f] = ch] /\ Goto(f, "wallet")
                             /\ UNCHANGED <<active, session, bindings>>
  BY DEF Created, mppClient, outside
<1>2. mppPc'[f] = "wallet" /\ \A d \in Calls : d # f => mppPc'[d] = mppPc[d]
  BY <1>1, GotoMoves DEF MppSteps
<1>3. target'[f] = ch /\ \A d \in Calls : d # f => target'[d] = target[d]
  BY <1>1 DEF MppTypeOK
<1>4. ClosedChannels' = ClosedChannels
  BY <1>1 DEF ClosedChannels
<1>5. /\ active # ch /\ ~session[ch].hasKey /\ ch \notin ClosedChannels
      /\ \A c \in Calls : target[c] # ch
  BY <1>1 DEF AbsentIsUnused
<1>6. AbsentIsUnused'
  <2>1. \A d \in Channels : keys'[d].state = "absent" => d # ch /\ keys[d].state = "absent"
    BY <1>1, SetKeyKeeps DEF KeyStates
  <2> QED
    BY <1>1, <1>3, <1>4, <2>1 DEF AbsentIsUnused
<1>7. ASSUME NEW g \in Fetches, g # f, mppPc[g] \in OwnerSteps
      PROVE  Unused(g, target[g]) => Unused(g, target[g])'
  BY <1>1, <1>3, <1>4, <1>5, <1>7 DEF Unused
<1>8. OpenedByOne'
  BY <1>1, <1>2, <1>3, <1>4, <1>5, <1>7 DEF OpenedByOne, Owns, Unused, OwnerSteps
<1> QED
  BY <1>6, <1>8

LEMMA SentIsKnown ==
  ASSUME ChannelsInv, NEW f \in Fetches, SendOpen(f) \/ SendOpenThrows(f)
  PROVE  AbsentIsUnused' /\ OpenedByOne'
<1> USE CallsDisjoint DEF ChannelsInv
<1> DEFINE ch == target[f]
<1>1. mppPc[f] = "wallet" /\ ch \in Channels
  BY DEF SendOpen, SendOpenThrows, At, Targets, TargetSteps, OwnerSteps
<1>2. /\ active' = ch /\ session' = [session EXCEPT ![ch] = [hasKey |-> TRUE, last |-> None]]
      /\ UNCHANGED <<target, keys, bindings>>
  BY DEF SendOpen, SendOpenThrows, Activate, locals, outside
<1>3. mppPc'[f] \in {"open", "undo"} /\ \A d \in Calls : d # f => mppPc'[d] = mppPc[d]
  BY GotoMoves, AskMoves DEF SendOpen, SendOpenThrows, MppSteps
<1> HIDE DEF ch
<1>4. session'[ch].hasKey /\ \A d \in Channels : d # ch => session'[d] = session[d]
  BY <1>1, <1>2 DEF MppTypeOK
<1>5. ClosedChannels' = ClosedChannels
  BY <1>2 DEF ClosedChannels
<1>6. \A g \in Fetches : g # f /\ mppPc[g] \in OwnerSteps => target[g] # ch /\ target[g] \in Channels
  BY <1>1 DEF OpenedByOne, Owns, OwnerSteps, Targets, TargetSteps, ch
<1>7. AbsentIsUnused'
  <2>1. keys[ch].state # "absent"
    BY <1>1 DEF AbsentIsUnused, ch
  <2> QED
    BY <1>2, <1>4, <1>5, <2>1 DEF AbsentIsUnused
<1>8. ASSUME NEW g \in Fetches, g # f, mppPc[g] \in OwnerSteps
      PROVE  Unused(g, target[g]) => Unused(g, target[g])'
  BY <1>2, <1>4, <1>5, <1>6, <1>8 DEF Unused
<1>9. OpenedByOne'
  <2>1. target'[f] = ch /\ session'[ch].hasKey
    BY <1>2, <1>4 DEF ch
  <2>2. \A g \in Fetches : g # f /\ mppPc[g] \in OwnerSteps =>
          session'[target[g]].hasKey = session[target[g]].hasKey
    BY <1>4, <1>6
  <2>3. \A g \in Fetches : g # f => mppPc'[g] = mppPc[g] /\ target'[g] = target[g]
    BY <1>2, <1>3
  <2> QED
    BY <1>3, <1>6, <1>8, <2>1, <2>2, <2>3 DEF OpenedByOne, Owns, OwnerSteps
<1> QED
  BY <1>7, <1>9

LEMMA ChannelsStep ==
  ASSUME ChannelsInv, [MppNext]_mppVars
  PROVE  ChannelsInv'
<1>1. MppTypeOK' /\ Targets'
  BY MppTypeStep, TargetsStep DEF ChannelsInv
<1>2. CASE UNCHANGED mppVars \/ Add
  <2>1. UNCHANGED <<active, session, bindings, keys, target, mppPc>>
    BY <1>2 DEF mppVars, mppClient, locals, outside, Add
  <2> QED
    BY <1>1, <2>1 DEF ChannelsInv, AbsentIsUnused, OpenedByOne, Owns, Unused, ClosedChannels
<1>3. ASSUME NEW f \in Fetches, Opens(f)
      PROVE  AbsentIsUnused' /\ OpenedByOne'
  BY <1>3, KeptUnknown, OpensKeepsChannels, CreatedIsUnused, SentIsKnown
<1> QED
  BY <1>1, <1>2, <1>3, KeptUnknown, MetersKeepsChannels, PaysKeepsChannels, ClosesKeepsChannels,
     MppNextCases DEF ChannelsInv

--------------------------------------------------------------------------------
(* Escrows. *)

LEMMA EscrowsStep ==
  ASSUME ChannelsInv, EscrowsListed, [MppNext]_mppVars
  PROVE  EscrowsListed'
<1> USE CallsDisjoint DEF ChannelsInv
<1>1. CASE UNCHANGED <<handed, listed, bindings>>
  BY <1>1 DEF EscrowsListed, ClosedChannels
<1>2. ASSUME NEW f \in Fetches, SendOpen(f) \/ SendOpenThrows(f)
      PROVE  EscrowsListed'
  <2>1. /\ listed' = listed \cup {target[f]} /\ UNCHANGED bindings
        /\ handed' \subseteq handed \cup {target[f]}
    BY <1>2 DEF SendOpen, SendOpenThrows, Activate, outside
  <2> QED
    BY <2>1 DEF EscrowsListed, ClosedChannels
<1>3. ASSUME NEW f \in Fetches, Undone(f)
      PROVE  EscrowsListed'
  BY <1>3 DEF Undone, EscrowsListed, ClosedChannels, outside
<1>4. ASSUME NEW c, Forget(target[c]), Return(c), UNCHANGED handed
      PROVE  EscrowsListed'
  <2>1. ClosedChannels' = ClosedChannels \cup {target[c]}
    BY <1>4, ReturnCloses
  <2>2. listed' = listed \ {target[c]}
    BY <1>4 DEF Forget
  <2> QED
    BY <1>4, <2>1, <2>2 DEF EscrowsListed
<1>5. ASSUME NEW c \in Closers \cup Forcers, Closes(c)
      PROVE  \/ UNCHANGED <<handed, listed, bindings>>
             \/ Forget(target[c]) /\ Return(c) /\ UNCHANGED handed
  BY <1>5 DEF Closes, CloserStep, ForcerStep, Close, CloseAnswer, Closed, ForceClose,
     ForceCloseSent, ForceCloseFails, ForceClosed, RevokeFails, mppClient, outside
<1>6. ASSUME NEW f \in Fetches, Meters(f) \/ Pays(f)
      PROVE  UNCHANGED <<handed, listed, bindings>>
  BY <1>6 DEF Meters, Pays, Resume, CallFetch, WaitForOpening, StartVoucher, StartOpen,
     MppSigned, SignFails, PaidAnswer, mppVars, mppClient, outside
<1>7. ASSUME NEW f \in Fetches, Opens(f), ~SendOpen(f), ~SendOpenThrows(f), ~Undone(f)
      PROVE  UNCHANGED <<handed, listed, bindings>>
  BY <1>7 DEF Opens, FirstAnswer, Checked, OpenStops, Created, WalletRefuses, OpenAnswer,
     KeyBound, BindFails, mppClient, outside
<1>8. CASE Add \/ UNCHANGED mppVars
  BY <1>1, <1>8 DEF Add, mppVars, mppClient, outside
<1> QED
  BY <1>1, <1>2, <1>3, <1>4, <1>5, <1>6, <1>7, <1>8, MppNextCases

LEMMA MppInitInv ==
  ASSUME MppInit
  PROVE  ChannelsInv /\ EscrowsListed
<1>1. MppTypeOK
  BY DEF MppInit, MppTypeOK, MppSteps, Session
<1>2. Targets
  BY CallsDisjoint DEF MppInit, Targets, FetchSteps, TargetSteps, OwnerSteps
<1>3. ClosedChannels = {}
  BY DEF MppInit, ClosedChannels
<1>4. AbsentIsUnused
  BY <1>3, MppConstantsAssumption DEF MppInit, AbsentIsUnused
<1>5. OpenedByOne
  BY CallsDisjoint DEF MppInit, OpenedByOne, OwnerSteps
<1>6. EscrowsListed
  BY DEF MppInit, EscrowsListed
<1> QED
  BY <1>1, <1>2, <1>4, <1>5, <1>6 DEF ChannelsInv

\* The inductive invariant: a channel is known to the call that opens it alone,
\* until it is active and has its key.
THEOREM SessionInvariance == MppSpec => [](ChannelsInv /\ EscrowsListed)
<1>1. MppInit => ChannelsInv /\ EscrowsListed
  BY MppInitInv
<1>2. ChannelsInv /\ EscrowsListed /\ [MppNext]_mppVars => (ChannelsInv /\ EscrowsListed)'
  BY ChannelsStep, EscrowsStep
<1> QED
  BY <1>1, <1>2, PTL DEF MppSpec

\* The variables of createMppSessionFetch keep their types.
THEOREM MppTypeCorrect == MppSpec => []MppTypeOK
<1>1. ChannelsInv => MppTypeOK
  BY DEF ChannelsInv
<1> QED
  BY <1>1, SessionInvariance, PTL

\* A channel whose open transaction was handed to the server stays in channels
\* until a close of it returns: no failed open, delayed close() or forceClose()
\* of an earlier channel takes a channel out that may hold an escrow.
THEOREM NoEscrowIsLost == MppSpec => []EscrowsListed
BY SessionInvariance, PTL

--------------------------------------------------------------------------------
(* Keys, when a rejected write of the key store has had no effect. *)

KeysOnlyRevoked == \A ch \in Channels : keys'[ch].state \in {keys[ch].state, "revoked"}

ClosedFinally(ch) ==
  \/ keys[ch].state = "revoked"
  \/ keys[ch].state = "unbound" /\ \A f \in Fetches : ~Owns(f, ch)

\* Steps that at most revoke keys.
LEMMA RevokingKeepsKeys ==
  ASSUME ChannelsInv, KeyInv, KeepsChannels, KeysOnlyRevoked,
         \A ch \in Channels : session[ch].hasKey /\ ~session'[ch].hasKey => keys[ch].state # "bound",
         \A ch \in ClosedChannels' \ ClosedChannels : ch \in Channels /\ ClosedFinally(ch)'
  PROVE  KeyInv'
<1>1. OwnedIsUnbound'
  <2> SUFFICES ASSUME NEW f \in Fetches, mppPc'[f] \in OwnerSteps
      PROVE  keys'[target'[f]].state # "bound"
    BY DEF OwnedIsUnbound
  <2>1. mppPc[f] \in OwnerSteps /\ target'[f] = target[f]
    BY DEF KeepsChannels
  <2>2. target[f] \in Channels /\ keys[target[f]].state # "bound"
    BY <2>1, CallsDisjoint DEF KeyInv, OwnedIsUnbound, ChannelsInv, Targets, TargetSteps
  <2> QED
    BY <2>1, <2>2 DEF KeysOnlyRevoked
<1>2. UnkeyedIsUnbound'
  BY DEF KeyInv, UnkeyedIsUnbound, KeysOnlyRevoked
<1>3. ASSUME NEW ch \in ClosedChannels'
      PROVE  ClosedFinally(ch)'
  <2>1. CASE ch \in ClosedChannels
    <3>1. ch \in Channels
      BY <2>1 DEF ClosedChannels, ChannelsInv, MppTypeOK
    <3>2. ClosedFinally(ch)
      BY <2>1 DEF KeyInv, ClosedIsRevoked, ClosedFinally
    <3> QED
      BY <3>1, <3>2 DEF ClosedFinally, KeysOnlyRevoked, KeepsChannels, Owns
  <2> QED
    BY <1>3, <2>1
<1> QED
  BY <1>1, <1>2, <1>3 DEF KeyInv, ClosedIsRevoked, ClosedFinally

\* A forceClose knows a channel without its key only once its open has failed.
LEMMA UnkeyedIsClosedFinally ==
  ASSUME ChannelsInv, KeyInv, NEW c \in Forcers, target[c] \in Channels,
         ~session[target[c]].hasKey
  PROVE  ClosedFinally(target[c])
<1> USE CallsDisjoint DEF ChannelsInv
<1>1. keys[target[c]].state \in {"unbound", "revoked"}
  BY SessionRecords DEF KeyInv, UnkeyedIsUnbound, AbsentIsUnused, KeyStates
<1>2. ASSUME NEW f \in Fetches, Owns(f, target[c])
      PROVE  FALSE
  BY <1>2 DEF OpenedByOne, Owns, Unused, OwnerSteps
<1> QED
  BY <1>1, <1>2 DEF ClosedFinally

LEMMA PaysKeepsKeys ==
  ASSUME ChannelsInv, KeyInv, NEW f \in Fetches, Meters(f) \/ Pays(f)
  PROVE  KeyInv'
<1>1. KeepsChannels /\ UNCHANGED bindings
  BY MetersKeepsChannels, PaysKeepsChannels
     DEF Meters, Pays, Resume, CallFetch, WaitForOpening, StartVoucher, StartOpen,
     MppSigned, SignFails, PaidAnswer, mppVars, outside
<1>2. KeysOnlyRevoked
  <2>1. CASE Sign(f)
    <3>1. CASE Pays(f)
      <4>1. target[f] \in Channels
        BY <3>1, CallsDisjoint DEF Pays, MppSigned, SignFails, PaidAnswer, MppServed, At, Targets,
           TargetSteps, ChannelsInv
      <4> QED
        BY <2>1, <4>1, SignKeeps DEF KeysOnlyRevoked, ChannelsInv
    <3>2. CASE Meters(f)
      BY <3>2 DEF Meters, Resume, CallFetch, WaitForOpening, StartVoucher, StartOpen, mppVars,
         KeysOnlyRevoked
    <3> QED
      BY <3>1, <3>2
  <2> QED
    BY <2>1 DEF Meters, Pays, Resume, CallFetch, WaitForOpening, StartVoucher, StartOpen,
       MppSigned, SignFails, PaidAnswer, mppVars, KeysOnlyRevoked
<1>3. \A ch \in Channels : session'[ch].hasKey = session[ch].hasKey
  <2>1. CASE UNCHANGED session
    BY <2>1
  <2>2. ASSUME active # None, NEW v, session' = [session EXCEPT ![active].last = v]
        PROVE  \A ch \in Channels : session'[ch].hasKey = session[ch].hasKey
    <3>1. active \in Channels /\ session[active] \in Session
      BY <2>2 DEF MppTypeOK, ChannelsInv
    <3>2. [session[active] EXCEPT !.last = v].hasKey = session[active].hasKey
      BY <3>1 DEF Session
    <3>3. session' = [session EXCEPT ![active] = [session[active] EXCEPT !.last = v]]
      BY <2>2
    <3> QED
      BY <3>1, <3>2, <3>3 DEF MppTypeOK, ChannelsInv
  <2> QED
    BY <2>1, <2>2 DEF Meters, Pays, Resume, CallFetch, WaitForOpening, StartVoucher, StartOpen,
       MppSigned, SignFails, PaidAnswer, mppVars, mppClient
<1>4. ClosedChannels' = ClosedChannels
  BY <1>1 DEF ClosedChannels
<1> QED
  BY <1>1, <1>2, <1>3, <1>4, RevokingKeepsKeys

LEMMA ClosesKeepsKeys ==
  ASSUME ChannelsInv, KeyInv, ~FailedWritesLand, NEW c \in Closers \cup Forcers, Closes(c)
  PROVE  KeyInv'
<1> USE CallsDisjoint
<1>1. KeepsChannels /\ UNCHANGED session
  BY ClosesKeepsChannels
     DEF Closes, CloserStep, ForcerStep, Close, CloseAnswer, Closed, ForceClose,
     ForceCloseSent, ForceCloseFails, ForceClosed, RevokeFails, mppClient
<1>2. mppPc[c] \in TargetSteps => target[c] \in Channels
  BY DEF Targets, ChannelsInv
<1>3. CASE Closed(c) \/ ForceClosed(c)
  <2>1. SetKey(target[c], "revoked") /\ Return(c) /\ target[c] \in Channels
    BY <1>2, <1>3 DEF Closed, ForceClosed, MppServed, At, TargetSteps
  <2>2. KeysOnlyRevoked /\ keys'[target[c]].state = "revoked"
    BY <2>1, SetKeyKeeps DEF KeysOnlyRevoked, ChannelsInv, KeyStates
  <2>3. ClosedChannels' = ClosedChannels \cup {target[c]}
    BY <2>1, ReturnCloses
  <2> QED
    BY <1>1, <2>1, <2>2, <2>3, RevokingKeepsKeys DEF ClosedFinally
<1>4. CASE c \in Forcers /\ ForceCloseSent(c) /\ ~session[target[c]].hasKey
  <2>1. Return(c) /\ UNCHANGED keys /\ target[c] \in Channels
    BY <1>2, <1>4 DEF ForceCloseSent, At, TargetSteps
  <2>2. ClosedFinally(target[c])
    BY <1>4, <2>1, UnkeyedIsClosedFinally
  <2>3. ASSUME NEW ch \in Channels, ch = target[c]
        PROVE  ClosedFinally(ch)'
    BY <1>1, <2>1, <2>2, <2>3 DEF ClosedFinally, Owns, KeepsChannels
  <2>4. ClosedChannels' = ClosedChannels \cup {target[c]}
    BY <2>1, ReturnCloses
  <2> QED
    BY <1>1, <2>1, <2>3, <2>4, RevokingKeepsKeys DEF KeysOnlyRevoked
<1>5. CASE UNCHANGED keys /\ UNCHANGED bindings
  <2>1. ClosedChannels' = ClosedChannels
    BY <1>5 DEF ClosedChannels
  <2> QED
    BY <1>1, <1>5, <2>1, RevokingKeepsKeys DEF KeysOnlyRevoked
<1> QED
  BY <1>3, <1>4, <1>5 DEF Closes, CloserStep, ForcerStep, Close, CloseAnswer, ForceClose,
     ForceCloseSent, ForceCloseFails, RevokeFails, SetKeyOrNot, outside

LEMMA UndoneKeepsKeys ==
  ASSUME ChannelsInv, KeyInv, ~FailedWritesLand, NEW f \in Fetches, Opens(f),
         ~SendOpen(f), ~SendOpenThrows(f), Created(f) => OpenStops(f, FALSE), ~KeyBound(f)
  PROVE  KeyInv'
<1>1. KeepsChannels
  BY OpensKeepsChannels
<1>2. UNCHANGED bindings
  BY DEF Opens, FirstAnswer, Checked, OpenStops, Created, WalletRefuses, OpenAnswer,
     BindFails, Undone, outside
<1>3. ClosedChannels' = ClosedChannels
  BY <1>2 DEF ClosedChannels
<1>4. CASE Undone(f)
  <2> DEFINE ch == target[f]
             r == [session[ch] EXCEPT !.hasKey = FALSE]
  <2>1. ch \in Channels /\ mppPc[f] \in OwnerSteps
    BY <1>4, CallsDisjoint DEF Undone, MppServed, At, OwnerSteps, Targets, TargetSteps, ChannelsInv
  <2>2. keys[ch].state # "bound"
    BY <2>1 DEF KeyInv, OwnedIsUnbound
  <2>3. KeysOnlyRevoked
    BY <1>4, <2>1, SetKeyKeeps DEF Undone, KeysOnlyRevoked, KeyStates, ChannelsInv
  <2>4. UNCHANGED session \/ session' = [session EXCEPT ![ch] = r]
    BY <1>4 DEF Undone
  <2> HIDE DEF r
  <2>5. \A d \in Channels : d # ch => session'[d] = session[d]
    BY <2>1, <2>4 DEF MppTypeOK, ChannelsInv
  <2> QED
    BY <1>1, <1>3, <2>2, <2>3, <2>5, RevokingKeepsKeys
<1>5. CASE UNCHANGED <<keys, session>>
  BY <1>1, <1>3, <1>5, RevokingKeepsKeys DEF KeysOnlyRevoked
<1>6. OpenStops(f, TRUE) \/ OpenStops(f, FALSE) => UNCHANGED <<keys, session>>
  BY DEF OpenStops
<1>7. CASE FirstAnswer(f) \/ Checked(f) \/ Created(f)
  BY <1>5, <1>6, <1>7 DEF FirstAnswer, Checked, Created, mppClient
<1>8. CASE WalletRefuses(f) \/ OpenAnswer(f) \/ BindFails(f)
  BY <1>5, <1>8 DEF WalletRefuses, OpenAnswer, BindFails, SetKeyOrNot, mppClient
<1> QED
  BY <1>4, <1>7, <1>8 DEF Opens

\* The key is bound when nothing but this open works on the channel.
LEMMA KeyBoundKeepsKeys ==
  ASSUME ChannelsInv, KeyInv, NEW f \in Fetches, KeyBound(f)
  PROVE  KeyInv'
<1> USE CallsDisjoint
<1> DEFINE ch == target[f]
           state == IF keys[ch].state = "revoked" THEN "revoked" ELSE "bound"
<1>1. ch \in Channels /\ mppPc[f] \in OwnerSteps /\ session[ch].hasKey
  BY DEF KeyBound, MppServed, At, OwnerSteps, Targets, TargetSteps, ChannelsInv, OpenedByOne
<1>2. SetKey(ch, state) /\ Ends(f, TRUE) /\ UNCHANGED <<session, bindings>>
  BY DEF KeyBound, outside
<1>3. /\ keys'[ch].state = state
      /\ \A d \in Channels : d # ch => keys'[d] = keys[d]
  BY <1>1, <1>2, SetKeyKeeps DEF ChannelsInv, KeyStates
<1>4. \A g \in Fetches : mppPc'[g] \in OwnerSteps =>
        g # f /\ mppPc[g] \in OwnerSteps /\ target'[g] = target[g]
  BY <1>2, EndsKeepsOwners
<1>5. \A g \in Fetches : g # f /\ mppPc[g] \in OwnerSteps =>
        target[g] # ch /\ target[g] \in Channels
  BY <1>1 DEF ChannelsInv, OpenedByOne, Owns, Targets, TargetSteps
<1>6. ch \in ClosedChannels => state = "revoked"
  BY <1>1 DEF KeyInv, ClosedIsRevoked, Owns
<1>7. ClosedChannels' = ClosedChannels /\ ClosedChannels \subseteq Channels
  BY <1>2 DEF ClosedChannels, ChannelsInv, MppTypeOK
<1> HIDE DEF ch, state
<1>8. OwnedIsUnbound'
  BY <1>3, <1>4, <1>5 DEF KeyInv, OwnedIsUnbound
<1>9. UnkeyedIsUnbound'
  BY <1>1, <1>2, <1>3 DEF KeyInv, UnkeyedIsUnbound
<1>10. ClosedIsRevoked'
  BY <1>3, <1>4, <1>6, <1>7 DEF KeyInv, ClosedIsRevoked, Owns
<1> QED
  BY <1>8, <1>9, <1>10 DEF KeyInv

LEMMA CreatedKeepsKeys ==
  ASSUME ChannelsInv, KeyInv, NEW f \in Fetches, Created(f), ~OpenStops(f, FALSE)
  PROVE  KeyInv'
<1> USE CallsDisjoint
<1>1. PICK ch \in Channels : /\ keys[ch].state = "absent" /\ SetKey(ch, "unbound")
                             /\ target' = [target EXCEPT ![f] = ch] /\ Goto(f, "wallet")
                             /\ UNCHANGED <<session, bindings>>
  BY DEF Created, mppClient, outside
<1>2. mppPc'[f] = "wallet" /\ \A d \in Calls : d # f => mppPc'[d] = mppPc[d]
  BY <1>1, GotoMoves DEF MppSteps, ChannelsInv
<1>3. target'[f] = ch /\ \A d \in Calls : d # f => target'[d] = target[d]
  BY <1>1 DEF MppTypeOK, ChannelsInv
<1>4. keys'[ch].state = "unbound" /\ \A d \in Channels : d # ch => keys'[d] = keys[d]
  BY <1>1, SetKeyKeeps DEF ChannelsInv, KeyStates
<1>5. ClosedChannels' = ClosedChannels /\ ClosedChannels \subseteq Channels
  BY <1>1 DEF ClosedChannels, ChannelsInv, MppTypeOK
<1>6. ch \notin ClosedChannels
  BY <1>1 DEF ChannelsInv, AbsentIsUnused
<1>7. \A g \in Fetches : mppPc[g] \in OwnerSteps => target[g] \in Channels
  BY DEF ChannelsInv, Targets, TargetSteps
<1>8. OwnedIsUnbound'
  BY <1>2, <1>3, <1>4, <1>7 DEF KeyInv, OwnedIsUnbound
<1>9. UnkeyedIsUnbound'
  BY <1>1, <1>4 DEF KeyInv, UnkeyedIsUnbound
<1>10. ClosedIsRevoked'
  BY <1>2, <1>3, <1>4, <1>5, <1>6 DEF KeyInv, ClosedIsRevoked, Owns
<1> QED
  BY <1>8, <1>9, <1>10 DEF KeyInv

LEMMA SentKeepsKeys ==
  ASSUME ChannelsInv, KeyInv, NEW f \in Fetches, SendOpen(f) \/ SendOpenThrows(f)
  PROVE  KeyInv'
<1> USE CallsDisjoint
<1>1. mppPc[f] = "wallet" /\ target[f] \in Channels
  BY DEF SendOpen, SendOpenThrows, At, ChannelsInv, Targets, TargetSteps, OwnerSteps
<1>2. /\ session' = [session EXCEPT ![target[f]] = [hasKey |-> TRUE, last |-> None]]
      /\ UNCHANGED <<target, keys, bindings>>
  BY DEF SendOpen, SendOpenThrows, Activate, locals, outside
<1>3. mppPc'[f] \in {"open", "undo"} /\ \A d \in Calls : d # f => mppPc'[d] = mppPc[d]
  BY GotoMoves, AskMoves DEF SendOpen, SendOpenThrows, MppSteps, ChannelsInv
<1>4. \A ch \in Channels : session[ch].hasKey => session'[ch].hasKey
  BY <1>1, <1>2 DEF ChannelsInv, MppTypeOK
<1>5. ClosedChannels' = ClosedChannels
  BY <1>2 DEF ClosedChannels
<1>6. OwnedIsUnbound'
  BY <1>1, <1>2, <1>3 DEF KeyInv, OwnedIsUnbound, OwnerSteps
<1>7. UnkeyedIsUnbound'
  BY <1>2, <1>4 DEF KeyInv, UnkeyedIsUnbound
<1>8. ClosedIsRevoked'
  BY <1>1, <1>2, <1>3, <1>5 DEF KeyInv, ClosedIsRevoked, Owns, OwnerSteps
<1> QED
  BY <1>6, <1>7, <1>8 DEF KeyInv

LEMMA KeysStep ==
  ASSUME ChannelsInv, KeyInv, ~FailedWritesLand, [MppNext]_mppVars
  PROVE  KeyInv'
<1>1. CASE UNCHANGED mppVars \/ Add
  <2>1. UNCHANGED <<session, bindings, keys, target, mppPc>>
    BY <1>1 DEF mppVars, mppClient, locals, outside, Add
  <2> QED
    BY <2>1 DEF KeyInv, OwnedIsUnbound, UnkeyedIsUnbound, ClosedIsRevoked, Owns, ClosedChannels
<1>2. ASSUME NEW f \in Fetches, Opens(f)
      PROVE  KeyInv'
  BY <1>2, UndoneKeepsKeys, KeyBoundKeepsKeys, CreatedKeepsKeys, SentKeepsKeys
<1> QED
  BY <1>1, <1>2, PaysKeepsKeys, ClosesKeepsKeys, MppNextCases

\* Nothing is spent from the key of a closed channel.
LEMMA ClosedNeverSigns ==
  ASSUME ChannelsInv, KeyInv, ~FailedWritesLand, [MppNext]_mppVars, NEW ch \in ClosedChannels
  PROVE  keys'[ch].spent = keys[ch].spent
<1> USE CallsDisjoint DEF ChannelsInv
<1>1. ch \in Channels /\ keys[ch].state # "bound"
  BY DEF ClosedChannels, MppTypeOK, KeyInv, ClosedIsRevoked
<1>2. \A c \in Calls : mppPc[c] \in TargetSteps => target[c] \in Channels
  BY DEF Targets
<1>3. CASE UNCHANGED keys
  BY <1>3
<1>4. ASSUME NEW d \in Channels, NEW state \in KeyStates, SetKey(d, state)
      PROVE  keys'[ch].spent = keys[ch].spent
  BY <1>1, <1>4, SetKeyKeeps
<1>5. ASSUME NEW f \in Fetches, Pays(f)
      PROVE  keys'[ch].spent = keys[ch].spent
  <2>1. CASE MppSigned(f)
    <3>1. target[f] \in Channels /\ target[f] # ch
      BY <1>1, <1>2, <2>1 DEF MppSigned, MppServed, At, TargetSteps, MaySignFor
    <3> QED
      BY <1>1, <2>1, <3>1, SignKeeps DEF MppSigned
  <2> QED
    BY <1>3, <1>5, <2>1 DEF Pays, SignFails, PaidAnswer
<1>6. ASSUME NEW f \in Fetches, Opens(f)
      PROVE  keys'[ch].spent = keys[ch].spent
  <2>1. OpenStops(f, TRUE) \/ OpenStops(f, FALSE) => UNCHANGED keys
    BY DEF OpenStops
  <2>2. CASE Created(f)
    BY <1>3, <1>4, <2>1, <2>2 DEF Created, KeyStates
  <2>3. CASE FirstAnswer(f) \/ Checked(f)
    BY <1>3, <2>1, <2>3 DEF FirstAnswer, Checked
  <2>4. CASE KeyBound(f) \/ Undone(f)
    <3>1. target[f] \in Channels
      BY <1>2, <2>4 DEF KeyBound, Undone, MppServed, At, TargetSteps, OwnerSteps
    <3> QED
      BY <1>3, <1>4, <2>4, <3>1 DEF KeyBound, Undone, KeyStates
  <2>5. CASE WalletRefuses(f) \/ SendOpen(f) \/ SendOpenThrows(f) \/ OpenAnswer(f) \/ BindFails(f)
    BY <1>3, <2>5 DEF WalletRefuses, SendOpen, SendOpenThrows, OpenAnswer, BindFails, SetKeyOrNot
  <2> QED
    BY <1>6, <2>2, <2>3, <2>4, <2>5 DEF Opens
<1>7. ASSUME NEW c \in Closers \cup Forcers, Closes(c)
      PROVE  keys'[ch].spent = keys[ch].spent
  <2>1. CASE Closed(c) \/ ForceClosed(c)
    <3>1. target[c] \in Channels
      BY <1>2, <2>1 DEF Closed, ForceClosed, MppServed, At, TargetSteps
    <3> QED
      BY <1>4, <2>1, <3>1 DEF Closed, ForceClosed, KeyStates
  <2> QED
    BY <1>3, <1>7, <2>1 DEF Closes, CloserStep, ForcerStep, Close, CloseAnswer, ForceClose,
       ForceCloseSent, ForceCloseFails, RevokeFails, SetKeyOrNot
<1>8. ASSUME NEW f \in Fetches, Meters(f)
      PROVE  UNCHANGED keys
  BY <1>8 DEF Meters, Resume, CallFetch, WaitForOpening, StartVoucher, StartOpen, mppVars
<1>9. CASE Add \/ UNCHANGED mppVars
  BY <1>3, <1>9 DEF Add, mppVars
<1> QED
  BY <1>3, <1>5, <1>6, <1>7, <1>8, <1>9, MppNextCases

\* When a key-store write that rejects has had no effect, the key of a channel
\* that close() or forceClose() has returned for never signs again, whatever
\* calls of the fetch were in flight: each revokes the key before it returns,
\* but for a forceClose() of a channel whose open failed, whose key was never
\* bound.
THEOREM NoVoucherAfterCloseHolds ==
  ASSUME ~FailedWritesLand
  PROVE  MppSpec => NoVoucherAfterClose
<1> DEFINE IInv == ChannelsInv /\ KeyInv
<1>1. MppInit => IInv
  <2>1. MppInit => ClosedChannels = {}
    BY DEF MppInit, ClosedChannels
  <2> QED
    BY <2>1, MppInitInv, CallsDisjoint
       DEF MppInit, KeyInv, OwnedIsUnbound, UnkeyedIsUnbound, ClosedIsRevoked, OwnerSteps
<1>2. IInv /\ [MppNext]_mppVars => IInv'
  BY ChannelsStep, KeysStep
<1>3. IInv /\ [MppNext]_mppVars
      => [\A ch \in ClosedChannels : keys'[ch].spent = keys[ch].spent]_mppVars
  BY ClosedNeverSigns
<1> QED
  BY <1>1, <1>2, <1>3, PTL DEF MppSpec, NoVoucherAfterClose

--------------------------------------------------------------------------------
(* One opening at a time, when the server asks for payment and there is no       *)
(* forceClose.                                                                   *)

LEMMA LastKept ==
  ASSUME MppTypeOK, LastVoucherBelongs,
         \A ch \in Channels : session'[ch].last \in {session[ch].last, None},
         \A ch \in Channels : keys'[ch].spent \in Nat /\ keys'[ch].spent >= keys[ch].spent
  PROVE  LastVoucherBelongs'
<1> SUFFICES ASSUME NEW ch \in Channels, session'[ch].last # None
    PROVE  session'[ch].last.channel = ch /\ session'[ch].last.amount <= keys'[ch].spent
  BY DEF LastVoucherBelongs
<1>1. session'[ch].last = session[ch].last
  OBVIOUS
<1>2. session[ch].last.amount \in Nat /\ keys[ch].spent \in Nat
  BY <1>1, SessionRecords
<1> QED
  BY <1>1, <1>2 DEF LastVoucherBelongs

\* A revoked key stays revoked, and no voucher is taken back.
KeysKept ==
  \A ch \in Channels :
    /\ keys[ch].state = "revoked" => keys'[ch].state = "revoked"
    /\ keys'[ch].spent \in Nat /\ keys'[ch].spent >= keys[ch].spent

LEMMA SameKeysKept ==
  ASSUME MppTypeOK, UNCHANGED keys
  PROVE  KeysKept
BY SessionRecords DEF KeysKept

LEMMA SetKeyKeepsKeys ==
  ASSUME MppTypeOK, NEW ch \in Channels, NEW state \in KeyStates, SetKey(ch, state),
         keys[ch].state = "revoked" => state = "revoked"
  PROVE  KeysKept
<1>1. \A d \in Channels : keys[d].spent \in Nat
  BY SessionRecords
<1> QED
  BY <1>1, SetKeyKeeps DEF KeysKept

LEMMA SignKeepsKeys ==
  ASSUME MppTypeOK, NEW f \in Fetches, target[f] \in Channels, Sign(f)
  PROVE  KeysKept
<1>1. metered[f] \in Nat /\ \A d \in Channels : keys[d].spent \in Nat
  BY SessionRecords DEF MppTypeOK
<1> QED
  BY <1>1, SignKeeps DEF KeysKept

\* Steps of a call that leave the opening, the active channel and the session.
LEMMA MoveKeepsFlight ==
  ASSUME ChannelsInv, SingleFlight, NEW f \in Calls, NEW step \in MppSteps,
         mppPc'[f] = step, \A d \in Calls : d # f => mppPc'[d] = mppPc[d],
         UNCHANGED <<active, listed, opening, session>>, KeysKept,
         \A c \in Calls : target'[c] \in {target[c], None} /\ (c # f => target'[c] = target[c]),
         step \in OpeningSteps <=> mppPc[f] \in OpeningSteps,
         step \in OwnerSteps => mppPc[f] \in OwnerSteps /\ UNCHANGED target,
         step \in {"check", "create"} => mppPc[f] \in {"first", "check"},
         step \notin {"first", "wallet", "sign", "resume"},
         step \in {"open", "bind"} => mppPc[f] \in {"open", "bind"},
         step = "undo" => mppPc[f] \in {"wallet", "open", "bind", "undo"},
         step = "await" => opening # None
  PROVE  SingleFlight'
<1>1. LastVoucherBelongs'
  BY LastKept DEF SingleFlight, KeysKept, ChannelsInv
<1>2. ASSUME NEW g \in Fetches
      PROVE  Flight(g)'
  <2>1. g \in Calls
    BY CallsDisjoint
  <2>2. \A c \in Calls : mppPc'[g] \in OwnerSteps /\ c # g => target'[c] # target'[g]
    BY <2>1, MppConstantsAssumption, CallsDisjoint
       DEF SingleFlight, Flight, ChannelsInv, Targets, TargetSteps
  <2>3. g # f => target'[g] = target[g]
    BY <2>1
  <2>4. Flight(g) /\ (mppPc[g] = "sign" => target[g] \in Channels)
    BY <2>1 DEF SingleFlight, ChannelsInv, Targets, TargetSteps
  <2>5. CASE g # f
    BY <2>1, <2>2, <2>3, <2>4, <2>5 DEF Flight, KeysKept
  <2>6. CASE g = f
    BY <2>2, <2>4, <2>6 DEF Flight, OpeningSteps, OwnerSteps
  <2> QED
    BY <2>5, <2>6
<1> QED
  BY <1>1, <1>2 DEF SingleFlight

LEMMA MetersKeepsFlight ==
  ASSUME ChannelsInv, SingleFlight, NEW f \in Fetches, Meters(f)
  PROVE  SingleFlight'
<1> USE CallsDisjoint
<1>1. UNCHANGED <<active, session, listed, keys>>
  BY DEF Meters, Resume, CallFetch, WaitForOpening, StartVoucher, StartOpen, mppVars, mppClient
<1>2. LastVoucherBelongs' /\ listed' = IF active' = None THEN {} ELSE {active'}
  BY <1>1 DEF SingleFlight, LastVoucherBelongs
<1>3. \A g \in Fetches : Flight(g) /\ g \in Calls
  BY DEF SingleFlight
<1>4. mppPc[f] \in {"idle", "resume"} => target[f] = None
  BY DEF ChannelsInv, Targets, TargetSteps, OwnerSteps
<1>5. active # None => active \in Channels
  BY DEF ChannelsInv, MppTypeOK
<1>6. ASSUME NEW u, StartVoucher(f, u), opening = None, UNCHANGED opening
      PROVE  SingleFlight'
  <2>1. mppPc'[f] = "sign" /\ \A d \in Calls : d # f => mppPc'[d] = mppPc[d]
    BY <1>6, AskMoves DEF StartVoucher, MppSteps, ChannelsInv
  <2>2. target'[f] = active /\ \A d \in Calls : d # f => target'[d] = target[d]
    BY <1>6 DEF StartVoucher, MppTypeOK, ChannelsInv
  <2>3. \A g \in Fetches : mppPc[g] \notin OpeningSteps
    BY <1>3, <1>6, MppConstantsAssumption DEF Flight
  <2>4. ASSUME NEW g \in Fetches
        PROVE  Flight(g)'
    BY <1>1, <1>3, <1>6, <2>1, <2>2, <2>3 DEF Flight, OpeningSteps, OwnerSteps
  <2> QED
    BY <1>2, <2>4 DEF SingleFlight
<1>7. ASSUME NEW u, StartOpen(f, u), opening = None, opening' = f, active = None,
             Quiet
      PROVE  SingleFlight'
  <2>1. mppPc'[f] = "first" /\ \A d \in Calls : d # f => mppPc'[d] = mppPc[d]
    BY <1>7, GotoMoves DEF StartOpen, MppSteps, ChannelsInv
  <2>2. UNCHANGED target
    BY <1>7 DEF StartOpen, locals
  <2>3. \A g \in Fetches : mppPc[g] \notin OpeningSteps /\ mppPc[g] # "resume"
    BY <1>3, <1>7, MppConstantsAssumption DEF Flight, Quiet
  <2>4. ASSUME NEW g \in Fetches
        PROVE  Flight(g)'
    BY <1>1, <1>3, <1>7, <2>1, <2>2, <2>3, MppConstantsAssumption
       DEF Flight, OpeningSteps, OwnerSteps
  <2> QED
    BY <1>2, <2>4 DEF SingleFlight
<1>8. ASSUME NEW step \in {"idle", "await"}, Goto(f, step), UNCHANGED <<opening, target>>,
             step = "await" => opening # None, mppPc[f] \in {"idle", "resume"}
      PROVE  SingleFlight'
  <2>1. mppPc'[f] = step /\ \A d \in Calls : d # f => mppPc'[d] = mppPc[d]
    BY <1>8, GotoMoves DEF MppSteps, ChannelsInv
  <2>2. step \in MppSteps /\ step \notin OpeningSteps /\ mppPc[f] \notin OpeningSteps
    BY <1>8 DEF MppSteps, OpeningSteps, OwnerSteps
  <2> QED
    BY <1>1, <1>8, <2>1, <2>2, MoveKeepsFlight, SameKeysKept DEF OpeningSteps, ChannelsInv
<1>9. CASE Resume(f)
  <2>1. active # None /\ opening = None
    BY <1>3, <1>9 DEF Flight, Resume
  <2> QED
    BY <1>6, <1>8, <1>9, <2>1 DEF Resume, StartVoucher, StartOpen, mppClient, locals
<1>10. ASSUME NEW u \in Passed, CallFetch(f, u) \/ WaitForOpening(f, u)
       PROVE  SingleFlight'
  <2>1. CASE WaitForOpening(f, u)
    BY <1>8, <2>1 DEF WaitForOpening, At, mppClient
  <2>2. CASE UNCHANGED mppVars
    <3>1. UNCHANGED <<mppPc, target, opening>>
      BY <2>2 DEF mppVars, mppClient, locals
    <3> QED
      BY <1>1, <1>2, <1>3, <3>1 DEF SingleFlight, Flight
  <2> QED
    BY <1>6, <1>7, <1>10, <2>1, <2>2 DEF CallFetch, StartVoucher, StartOpen, At
<1> QED
  BY <1>9, <1>10 DEF Meters

\* The opening ends without a channel, and rejects those that await it.
LEMMA FailedOpeningKeepsFlight ==
  ASSUME ChannelsInv, SingleFlight, NEW f \in Fetches, mppPc[f] \in OpeningSteps,
         Ends(f, FALSE), KeysKept, active' \in {active, None},
         active' # active => mppPc[f] \in OwnerSteps /\ active = target[f],
         listed' = IF active' = None THEN {} ELSE {active'},
         \A ch \in Channels : session'[ch].last \in {session[ch].last, None}
  PROVE  SingleFlight'
<1> USE CallsDisjoint
<1>1. LastVoucherBelongs'
  BY LastKept DEF SingleFlight, KeysKept, ChannelsInv
<1>2. \A g \in Fetches : Flight(g)
  BY DEF SingleFlight
<1>3. opening = f /\ opening' = None
  BY <1>2 DEF Flight, Ends
<1>4. \A g \in Fetches : g # f => mppPc[g] \notin OpeningSteps
  BY <1>2, <1>3 DEF Flight
<1>5. ASSUME NEW g \in Fetches
      PROVE  Flight(g)'
  <2>1. CASE g = f
    <3>1. mppPc'[f] = "idle"
      BY EndsMoves DEF ChannelsInv
    <3> QED
      BY <1>3, <2>1, <3>1, MppConstantsAssumption DEF Flight, OpeningSteps, OwnerSteps
  <2>2. CASE g # f
    <3>1. /\ mppPc'[g] \in {mppPc[g], "idle"} /\ target'[g] = target[g]
          /\ mppPc[g] = "await" => mppPc'[g] = "idle"
      BY <1>3, <2>2 DEF Ends, ChannelsInv, MppTypeOK
    <3>2. mppPc'[g] \notin OpeningSteps /\ mppPc'[g] \notin {"await", "resume"}
      BY <1>2, <1>3, <1>4, <2>2, <3>1, MppConstantsAssumption DEF Flight, OpeningSteps, OwnerSteps
    <3>3. ASSUME mppPc'[g] = "sign"
          PROVE  active' = target'[g] \/ keys'[target'[g]].state = "revoked"
      <4>1. target[g] \in Channels /\ mppPc[g] = "sign"
        BY <3>1, <3>3 DEF ChannelsInv, Targets, TargetSteps
      <4>2. active = target[g] \/ keys[target[g]].state = "revoked"
        BY <1>2, <4>1 DEF Flight
      <4>3. mppPc[f] \in OwnerSteps => target[g] # target[f]
        BY <1>2, <2>2 DEF Flight
      <4> QED
        BY <3>1, <4>1, <4>2, <4>3 DEF KeysKept
    <3> QED
      BY <1>3, <2>2, <3>2, <3>3, MppConstantsAssumption DEF Flight, OpeningSteps, OwnerSteps
  <2> QED
    BY <2>1, <2>2
<1> QED
  BY <1>1, <1>5 DEF SingleFlight

LEMMA CreatedKeepsFlight ==
  ASSUME ChannelsInv, SingleFlight, NEW f \in Fetches, Created(f), ~OpenStops(f, FALSE)
  PROVE  SingleFlight'
<1> USE CallsDisjoint
<1>1. PICK ch \in Channels : /\ keys[ch].state = "absent" /\ SetKey(ch, "unbound")
                             /\ target' = [target EXCEPT ![f] = ch] /\ Goto(f, "wallet")
                             /\ UNCHANGED <<active, session, opening, listed>>
  BY DEF Created, mppClient
<1>2. mppPc'[f] = "wallet" /\ \A d \in Calls : d # f => mppPc'[d] = mppPc[d]
  BY <1>1, GotoMoves DEF MppSteps, ChannelsInv
<1>3. target'[f] = ch /\ \A d \in Calls : d # f => target'[d] = target[d]
  BY <1>1 DEF MppTypeOK, ChannelsInv
<1>4. KeysKept
  BY <1>1, SetKeyKeepsKeys DEF ChannelsInv, KeyStates
<1>5. LastVoucherBelongs'
  BY <1>1, <1>4, LastKept DEF SingleFlight, KeysKept, ChannelsInv
<1>6. active # ch /\ \A c \in Calls : target[c] # ch
  BY <1>1 DEF ChannelsInv, AbsentIsUnused
<1>7. mppPc[f] = "create" /\ \A g \in Fetches : Flight(g)
  BY DEF Created, MppServed, At, SingleFlight
<1>8. ASSUME NEW g \in Fetches
      PROVE  Flight(g)'
  <2>1. mppPc[g] = "sign" => target[g] \in Channels
    BY DEF ChannelsInv, Targets, TargetSteps
  <2>2. CASE g = f
    BY <1>1, <1>2, <1>3, <1>6, <1>7, <2>2 DEF Flight, OpeningSteps, OwnerSteps
  <2>3. CASE g # f
    BY <1>1, <1>2, <1>3, <1>4, <1>6, <1>7, <2>1, <2>3 DEF Flight, OpeningSteps, OwnerSteps, KeysKept
  <2> QED
    BY <2>2, <2>3
<1> QED
  BY <1>1, <1>5, <1>8 DEF SingleFlight

LEMMA SentKeepsFlight ==
  ASSUME ChannelsInv, SingleFlight, NEW f \in Fetches, SendOpen(f) \/ SendOpenThrows(f)
  PROVE  SingleFlight'
<1> USE CallsDisjoint
<1>1. mppPc[f] = "wallet" /\ target[f] \in Channels
  BY DEF SendOpen, SendOpenThrows, At, ChannelsInv, Targets, TargetSteps, OwnerSteps
<1>2. /\ session' = [session EXCEPT ![target[f]] = [hasKey |-> TRUE, last |-> None]]
      /\ active' = target[f] /\ listed' = listed \cup {target[f]}
      /\ UNCHANGED <<target, keys, opening>>
  BY DEF SendOpen, SendOpenThrows, Activate, locals, outside
<1>3. mppPc'[f] \in {"open", "undo"} /\ \A d \in Calls : d # f => mppPc'[d] = mppPc[d]
  BY GotoMoves, AskMoves DEF SendOpen, SendOpenThrows, MppSteps, ChannelsInv
<1>4. session'[target[f]].last = None /\ \A d \in Channels : d # target[f] => session'[d] = session[d]
  BY <1>1, <1>2 DEF ChannelsInv, MppTypeOK
<1>5. LastVoucherBelongs'
  BY <1>2, <1>4, LastKept, SameKeysKept DEF SingleFlight, KeysKept, ChannelsInv
<1>6. \A g \in Fetches : Flight(g)
  BY DEF SingleFlight
<1>7. active = None /\ listed' = {target[f]}
  BY <1>1, <1>2, <1>6 DEF Flight, SingleFlight
<1>8. \A g \in Fetches : g # f => mppPc[g] \notin OpeningSteps
  BY <1>1, <1>6 DEF Flight, OpeningSteps, OwnerSteps
<1>9. ASSUME NEW g \in Fetches
      PROVE  Flight(g)'
  <2>1. mppPc[g] = "sign" => target[g] \in Channels /\ target[g] # active
    BY <1>7, MppConstantsAssumption DEF ChannelsInv, Targets, TargetSteps
  <2>2. CASE g = f
    BY <1>1, <1>2, <1>3, <1>4, <1>6, <2>2 DEF Flight, OpeningSteps, OwnerSteps
  <2>3. CASE g # f
    BY <1>1, <1>2, <1>3, <1>6, <1>8, <2>1, <2>3, MppConstantsAssumption
       DEF Flight, OpeningSteps, OwnerSteps
  <2> QED
    BY <2>2, <2>3
<1> QED
  BY <1>1, <1>2, <1>5, <1>7, <1>9, MppConstantsAssumption DEF SingleFlight

\* The opening succeeds: its channel is active, and those that await it resume.
LEMMA KeyBoundKeepsFlight ==
  ASSUME ChannelsInv, SingleFlight, NEW f \in Fetches, KeyBound(f)
  PROVE  SingleFlight'
<1> USE CallsDisjoint
<1>1. mppPc[f] = "bind" /\ target[f] \in Channels
  BY DEF KeyBound, MppServed, At, ChannelsInv, Targets, TargetSteps, OwnerSteps
<1>2. Ends(f, TRUE) /\ UNCHANGED <<active, session, listed>>
  BY DEF KeyBound
<1>3. KeysKept
  BY <1>1, SetKeyKeepsKeys DEF KeyBound, ChannelsInv, KeyStates
<1>4. LastVoucherBelongs'
  BY <1>2, <1>3, LastKept DEF SingleFlight, KeysKept, ChannelsInv
<1>5. \A g \in Fetches : Flight(g)
  BY DEF SingleFlight
<1>6. opening = f /\ opening' = None /\ active = target[f] /\ active # None
  BY <1>1, <1>2, <1>5, MppConstantsAssumption DEF Flight, Ends, OpeningSteps, OwnerSteps
<1>7. \A g \in Fetches : g # f => mppPc[g] \notin OpeningSteps
  BY <1>5, <1>6 DEF Flight
<1>8. ASSUME NEW g \in Fetches
      PROVE  Flight(g)'
  <2>1. mppPc[g] = "sign" => target[g] \in Channels
    BY DEF ChannelsInv, Targets, TargetSteps
  <2>2. CASE g = f
    <3>1. mppPc'[f] = "idle"
      BY <1>2, EndsMoves DEF ChannelsInv
    <3> QED
      BY <1>6, <2>2, <3>1, MppConstantsAssumption DEF Flight, OpeningSteps, OwnerSteps
  <2>3. CASE g # f
    <3>1. /\ mppPc'[g] \in {mppPc[g], "resume"} /\ target'[g] = target[g]
          /\ mppPc[g] = "await" => mppPc'[g] = "resume"
      BY <1>2, <1>6, <2>3 DEF Ends, ChannelsInv, MppTypeOK
    <3> QED
      BY <1>2, <1>3, <1>5, <1>6, <1>7, <2>1, <2>3, <3>1, MppConstantsAssumption
         DEF Flight, OpeningSteps, OwnerSteps, KeysKept
  <2> QED
    BY <2>2, <2>3
<1> QED
  BY <1>2, <1>4, <1>8 DEF SingleFlight

LEMMA OpensKeepsFlight ==
  ASSUME ChannelsInv, SingleFlight, ~FreeResource, NEW f \in Fetches, Opens(f)
  PROVE  SingleFlight'
<1> USE CallsDisjoint
<1>1. \A g \in Fetches : Flight(g)
  BY DEF SingleFlight
<1>2. mppPc[f] \in OwnerSteps => target[f] \in Channels
  BY DEF ChannelsInv, Targets, TargetSteps
<1>3. ASSUME OpenStops(f, FALSE), mppPc[f] \in {"first", "check", "create"}
      PROVE  SingleFlight'
  <2>1. UNCHANGED <<active, listed, session>> /\ Ends(f, FALSE) /\ KeysKept
    BY <1>3, SameKeysKept DEF OpenStops, ChannelsInv
  <2> QED
    BY <1>3, <2>1, FailedOpeningKeepsFlight DEF SingleFlight, OpeningSteps
<1>4. ASSUME NEW step \in {"check", "create", "bind", "undo"}, Goto(f, step),
             UNCHANGED mppClient, UNCHANGED target, KeysKept,
             mppPc[f] \in IF step \in {"check", "create"} THEN {"first", "check"}
                          ELSE IF step = "bind" THEN {"open"} ELSE {"wallet", "open", "bind"}
      PROVE  SingleFlight'
  <2>1. mppPc'[f] = step /\ \A d \in Calls : d # f => mppPc'[d] = mppPc[d]
    BY <1>4, GotoMoves DEF MppSteps, ChannelsInv
  <2>2. /\ step \in MppSteps
        /\ step \in OpeningSteps /\ mppPc[f] \in OpeningSteps
        /\ step \in OwnerSteps => mppPc[f] \in OwnerSteps
    BY <1>4 DEF MppSteps, OpeningSteps, OwnerSteps
  <2> QED
    BY <1>4, <2>1, <2>2, MoveKeepsFlight DEF mppClient
<1>5. UNCHANGED keys => KeysKept
  BY SameKeysKept DEF ChannelsInv
<1>6. CASE FirstAnswer(f)
  BY <1>3, <1>4, <1>5, <1>6 DEF FirstAnswer, At, locals
<1>7. CASE Checked(f)
  BY <1>3, <1>4, <1>5, <1>7 DEF Checked, AskManager, At, locals
<1>8. CASE Created(f)
  BY <1>3, <1>8, CreatedKeepsFlight DEF Created, MppServed, At
<1>9. CASE WalletRefuses(f) \/ OpenAnswer(f)
  BY <1>4, <1>5, <1>9 DEF WalletRefuses, OpenAnswer, AskManager, At, locals
<1>10. CASE SendOpen(f) \/ SendOpenThrows(f)
  BY <1>10, SentKeepsFlight
<1>11. CASE KeyBound(f)
  BY <1>11, KeyBoundKeepsFlight
<1>12. CASE BindFails(f)
  <2>1. mppPc[f] = "bind" /\ target[f] \in Channels
    BY <1>2, <1>12 DEF BindFails, At, OwnerSteps
  <2>2. KeysKept
    BY <1>5, <1>12, <2>1, SetKeyKeepsKeys DEF BindFails, SetKeyOrNot, ChannelsInv, KeyStates
  <2> QED
    BY <1>4, <1>12, <2>1, <2>2 DEF BindFails, locals
<1>13. CASE Undone(f)
  <2> DEFINE ch == target[f]
             r == [session[ch] EXCEPT !.hasKey = FALSE]
  <2>1. mppPc[f] = "undo" /\ ch \in Channels /\ Ends(f, FALSE)
    BY <1>2, <1>13 DEF Undone, MppServed, At, OwnerSteps
  <2>2. KeysKept
    BY <1>5, <1>13, <2>1, SetKeyKeepsKeys DEF Undone, ChannelsInv, KeyStates
  <2>3. UNCHANGED session \/ session' = [session EXCEPT ![ch] = r]
    BY <1>13 DEF Undone
  <2>4. session[ch] \in Session /\ r.last = session[ch].last
    BY <2>1 DEF ChannelsInv, MppTypeOK, Session
  <2> HIDE DEF r
  <2>5. \A d \in Channels : session'[d].last = session[d].last
    BY <2>1, <2>3, <2>4 DEF ChannelsInv, MppTypeOK
  <2>6. /\ active' \in {active, None}
        /\ active' # active => active = ch
        /\ listed' = IF active' = None THEN {} ELSE {active'}
    BY <1>13, <2>1, MppConstantsAssumption DEF Undone, SingleFlight
  <2> QED
    BY <2>1, <2>2, <2>5, <2>6, FailedOpeningKeepsFlight DEF OpeningSteps, OwnerSteps
<1> QED
  BY <1>6, <1>7, <1>8, <1>9, <1>10, <1>11, <1>12, <1>13 DEF Opens

LEMMA PaysKeepsFlight ==
  ASSUME ChannelsInv, SingleFlight, NEW f \in Fetches, Pays(f)
  PROVE  SingleFlight'
<1> USE CallsDisjoint
<1>1. \A g \in Fetches : Flight(g)
  BY DEF SingleFlight
<1>2. mppPc[f] \in {"sign", "paid"}
  BY DEF Pays, MppSigned, SignFails, PaidAnswer, MppServed, At
<1>3. target[f] \in Channels /\ mppPc[f] \notin OpeningSteps /\ opening # f
  BY <1>1, <1>2 DEF ChannelsInv, Targets, TargetSteps, Flight, OpeningSteps, OwnerSteps
<1>4. CASE SignFails(f) \/ PaidAnswer(f)
  <2>1. PICK ok \in BOOLEAN : Ends(f, ok)
    BY <1>4 DEF SignFails, PaidAnswer
  <2>2. /\ mppPc'[f] = "idle" /\ \A d \in Calls : d # f => mppPc'[d] = mppPc[d]
        /\ target'[f] = None /\ \A d \in Calls : d # f => target'[d] = target[d]
        /\ opening' = opening
    BY <1>3, <2>1, EndsMoves DEF ChannelsInv, Ends
  <2>3. KeysKept
    <3>1. UNCHANGED keys \/ Sign(f)
      BY <1>4 DEF SignFails, PaidAnswer
    <3> QED
      BY <1>3, <3>1, SameKeysKept, SignKeepsKeys DEF ChannelsInv
  <2>4. UNCHANGED <<active, listed, session>>
    BY <1>4 DEF SignFails, PaidAnswer
  <2>5. "idle" \in MppSteps /\ "idle" \notin OpeningSteps /\ "idle" \notin OwnerSteps
    BY DEF MppSteps, OpeningSteps, OwnerSteps
  <2> QED
    BY <1>2, <1>3, <2>2, <2>3, <2>4, <2>5, MoveKeepsFlight
<1>5. CASE MppSigned(f)
  <2> DEFINE n == keys[target[f]].spent + metered[f]
             v == [channel |-> target[f], amount |-> n]
             r == [session[active] EXCEPT !.last = v]
  <2>1. active = target[f] /\ active # None
    BY <1>1, <1>3, <1>5, MppConstantsAssumption
       DEF MppSigned, MppServed, At, MaySignFor, Flight
  <2>2. /\ session' = [session EXCEPT ![active] = r] /\ Goto(f, "paid")
        /\ UNCHANGED <<opening, target, active, listed>>
    BY <1>5, <2>1 DEF MppSigned, locals
  <2>3. mppPc'[f] = "paid" /\ \A d \in Calls : d # f => mppPc'[d] = mppPc[d]
    BY <2>2, GotoMoves DEF MppSteps, ChannelsInv
  <2>4. KeysKept /\ keys'[target[f]].spent = n
    BY <1>3, <1>5, SignKeepsKeys, SignKeeps DEF MppSigned, ChannelsInv
  <2>5. session[active] \in Session
    BY <1>3, <2>1 DEF ChannelsInv, MppTypeOK
  <2>6. n \in Nat
    BY <1>3, SessionRecords DEF ChannelsInv, MppTypeOK
  <2>7. v.channel = target[f] /\ v.amount = n
    OBVIOUS
  <2> HIDE DEF n, v
  <2>8. r.last = v
    BY <2>5 DEF Session
  <2> HIDE DEF r
  <2>9. session'[active].last = v /\ \A d \in Channels : d # active => session'[d] = session[d]
    BY <1>3, <2>1, <2>2, <2>8 DEF ChannelsInv, MppTypeOK
  <2>10. LastVoucherBelongs'
    <3> SUFFICES ASSUME NEW ch \in Channels, session'[ch].last # None
        PROVE  session'[ch].last.channel = ch /\ session'[ch].last.amount <= keys'[ch].spent
      BY DEF LastVoucherBelongs
    <3>1. CASE ch = active
      BY <2>1, <2>4, <2>6, <2>7, <2>9, <3>1
    <3>2. CASE ch # active
      <4>1. session'[ch].last = session[ch].last
        BY <2>9, <3>2
      <4>2. session[ch].last.amount \in Nat /\ keys[ch].spent \in Nat
        BY <4>1, SessionRecords DEF ChannelsInv
      <4> QED
        BY <2>4, <4>1, <4>2 DEF SingleFlight, LastVoucherBelongs, KeysKept
    <3> QED
      BY <3>1, <3>2
  <2>11. ASSUME NEW g \in Fetches
         PROVE  Flight(g)'
    <3>1. mppPc[g] = "sign" => target[g] \in Channels
      BY DEF ChannelsInv, Targets, TargetSteps
    <3>2. mppPc[g] \in OwnerSteps => g # f /\ target[g] # active
      BY <1>1, <1>2, <2>1 DEF Flight, OwnerSteps
    <3> QED
      BY <1>1, <1>2, <1>3, <2>2, <2>3, <2>4, <3>1, <3>2
         DEF Flight, KeysKept, OpeningSteps, OwnerSteps
  <2> QED
    BY <2>2, <2>10, <2>11 DEF SingleFlight
<1> QED
  BY <1>4, <1>5 DEF Pays

LEMMA ClosesKeepsFlight ==
  ASSUME ChannelsInv, SingleFlight, NEW c \in Closers, Closes(c)
  PROVE  SingleFlight'
<1> USE CallsDisjoint
<1>1. \A g \in Fetches : Flight(g)
  BY DEF SingleFlight
<1>2. /\ c \in Calls /\ opening # c
      /\ mppPc[c] \in TargetSteps => target[c] \in Channels
      /\ mppPc[c] \in {"idle", "closing", "revoking"}
  BY MppConstantsAssumption DEF ChannelsInv, MppTypeOK, Targets
<1>3. {"idle", "closing", "revoking"} \subseteq MppSteps \ OpeningSteps
  BY DEF MppSteps, OpeningSteps, OwnerSteps
<1>4. \A step \in {"idle", "closing", "revoking"} : step \notin OwnerSteps
  BY DEF OwnerSteps
<1>5. ASSUME NEW ok \in BOOLEAN, Ends(c, ok)
      PROVE  /\ mppPc'[c] = "idle" /\ \A d \in Calls : d # c => mppPc'[d] = mppPc[d]
             /\ target'[c] = None /\ \A d \in Calls : d # c => target'[d] = target[d]
             /\ opening' = opening
  BY <1>2, <1>5, EndsMoves DEF ChannelsInv, Ends
<1>6. CASE Close(c)
  <2>1. active \in Channels /\ session[active].last # None
    BY <1>6 DEF Close, ChannelsInv, MppTypeOK
  <2>2. /\ mppPc'[c] = "closing" /\ \A d \in Calls : d # c => mppPc'[d] = mppPc[d]
        /\ target'[c] = active /\ \A d \in Calls : d # c => target'[d] = target[d]
        /\ UNCHANGED <<active, listed, opening, session, keys>>
    BY <1>2, <1>3, <1>6, GotoMoves DEF Close, ChannelsInv, MppTypeOK, mppClient
  <2>3. \A g \in Fetches : mppPc[g] \in OwnerSteps => target[g] # active
    BY <1>1, <2>1 DEF Flight
  <2>4. LastVoucherBelongs'
    BY <2>2 DEF SingleFlight, LastVoucherBelongs
  <2>5. ASSUME NEW g \in Fetches
        PROVE  Flight(g)'
    BY <1>1, <2>2, <2>3 DEF Flight
  <2> QED
    BY <2>2, <2>4, <2>5 DEF SingleFlight
<1>7. ASSUME UNCHANGED <<active, listed, session>>, KeysKept, NEW ok \in BOOLEAN, Ends(c, ok)
      PROVE  SingleFlight'
  BY <1>2, <1>3, <1>4, <1>5, <1>7, MoveKeepsFlight
<1>8. ASSUME UNCHANGED <<mppClient, target>>, KeysKept, Goto(c, "revoking")
      PROVE  SingleFlight'
  <2>1. mppPc'[c] = "revoking" /\ \A d \in Calls : d # c => mppPc'[d] = mppPc[d]
    BY <1>2, <1>3, <1>8, GotoMoves DEF ChannelsInv
  <2> QED
    BY <1>2, <1>3, <1>4, <1>8, <2>1, MoveKeepsFlight DEF mppClient
<1>9. CASE CloseAnswer(c)
  <2>1. KeysKept
    BY <1>9, SameKeysKept DEF CloseAnswer, ChannelsInv
  <2> QED
    BY <1>7, <1>8, <1>9, <2>1 DEF CloseAnswer, AskManager, locals
<1>10. CASE RevokeFails(c)
  <2>1. target[c] \in Channels
    BY <1>2, <1>10 DEF RevokeFails, MppServed, At, TargetSteps
  <2>2. KeysKept
    BY <1>10, <2>1, SameKeysKept, SetKeyKeepsKeys DEF RevokeFails, SetKeyOrNot, ChannelsInv, KeyStates
  <2> QED
    BY <1>7, <1>10, <2>2 DEF RevokeFails
<1>11. CASE Closed(c)
  <2>1. target[c] \in Channels
    BY <1>2, <1>11 DEF Closed, MppServed, At, TargetSteps
  <2>2. SetKey(target[c], "revoked") /\ Ends(c, TRUE) /\ Forget(target[c]) /\ UNCHANGED session
    BY <1>11 DEF Closed
  <2>3. KeysKept /\ keys'[target[c]].state = "revoked"
    BY <2>1, <2>2, SetKeyKeepsKeys, SetKeyKeeps DEF ChannelsInv, KeyStates
  <2>4. LastVoucherBelongs'
    BY <2>2, <2>3, LastKept DEF SingleFlight, KeysKept, ChannelsInv
  <2>5. listed' = IF active' = None THEN {} ELSE {active'}
    BY <2>1, <2>2, MppConstantsAssumption DEF Forget, SingleFlight
  <2>6. ASSUME NEW g \in Fetches
        PROVE  Flight(g)'
    <3>1. mppPc[g] = "sign" => target[g] \in Channels
      BY DEF ChannelsInv, Targets, TargetSteps
    <3>2. mppPc'[g] = mppPc[g] /\ target'[g] = target[g] /\ opening' = opening
      BY <1>5, <2>2
    <3>3. \A d \in Calls : target'[d] \in {target[d], None}
      BY <1>5, <2>2
    <3>4. mppPc[g] \in OwnerSteps => target[g] # target[c] /\ target[g] \in Channels
      BY <1>1, <1>2 DEF Flight, ChannelsInv, Targets, TargetSteps
    <3>5. active' = active \/ (active = target[c] /\ active' = None)
      BY <2>2 DEF Forget
    <3>6. mppPc[g] = "resume" => FALSE
      BY <1>11 DEF Closed, MppServed, At, Quiet
    <3>7. Flight(g)
      BY <1>1
    <3> QED
      BY <2>2, <2>3, <3>1, <3>2, <3>3, <3>4, <3>5, <3>6, <3>7, MppConstantsAssumption
         DEF Flight, OwnerSteps, KeysKept
  <2> QED
    BY <2>4, <2>5, <2>6 DEF SingleFlight
<1> QED
  BY <1>6, <1>9, <1>10, <1>11 DEF Closes, CloserStep

LEMMA FlightStep ==
  ASSUME ~FreeResource, Forcers = {}, ChannelsInv, SingleFlight, [MppNext]_mppVars
  PROVE  SingleFlight'
<1>1. CASE UNCHANGED mppVars \/ Add
  <2>1. UNCHANGED <<mppPc, target, active, listed, opening, session, keys>>
    BY <1>1 DEF mppVars, mppClient, locals, Add
  <2> QED
    BY <2>1 DEF SingleFlight, Flight, LastVoucherBelongs
<1> QED
  BY <1>1, MetersKeepsFlight, OpensKeepsFlight, PaysKeepsFlight, ClosesKeepsFlight, MppNextCases

LEMMA FlightIsOne ==
  ASSUME SingleFlight
  PROVE  OneEscrowAtATime
<1>1. listed = {} \/ \E ch : listed = {ch}
  BY DEF SingleFlight
<1>2. Cardinality(listed) \in {0, 1}
  BY <1>1, FS_EmptySet, FS_Singleton, Zenon
<1> QED
  BY <1>2 DEF OneEscrowAtATime, OneEscrow, SingleFlight

\* When the server asks for payment and nobody forces a close, a session has one
\* channel at a time: calls that find no channel wait for the opening promise
\* and go on with its channel. The last voucher kept for a channel is one its
\* key signed, also when close() overtakes a call that is signing.
THEOREM OneEscrowHolds ==
  ASSUME ~FreeResource, Forcers = {}
  PROVE  MppSpec => []OneEscrowAtATime
<1> DEFINE IInv == ChannelsInv /\ SingleFlight
<1>1. MppInit => IInv
  <2>1. MppInit => \A f \in Fetches : Flight(f)
    BY CallsDisjoint, MppConstantsAssumption DEF MppInit, Flight, OpeningSteps, OwnerSteps
  <2>2. MppInit => LastVoucherBelongs
    BY DEF MppInit, LastVoucherBelongs
  <2>3. MppInit => listed = IF active = None THEN {} ELSE {active}
    BY DEF MppInit
  <2> QED
    BY <2>1, <2>2, <2>3, MppInitInv DEF SingleFlight
<1>2. IInv /\ [MppNext]_mppVars => IInv'
  BY ChannelsStep, FlightStep
<1>3. IInv => OneEscrowAtATime
  BY FlightIsOne
<1> QED
  BY <1>1, <1>2, <1>3, PTL DEF MppSpec

--------------------------------------------------------------------------------
(* The units of a session, when a rejected write of the key store has had no     *)
(* effect.                                                                       *)

ReservedUnits(pc, p, m) == [f \in Fetches |-> IF pc[f] = "sign" /\ p[f] = 0 THEN m[f] ELSE 0]
SpentUnits(k) == [ch \in Channels |-> k[ch].spent]

Units(pend, pc, p, m, k) ==
  pend + SumFunction(ReservedUnits(pc, p, m)) + SumFunction(SpentUnits(k))

LEMMA UnitsAdd ==
  /\ UnitsConserved <=> reported = Units(pending, mppPc, passed, metered, keys)
  /\ UnitsConserved' <=> reported' = Units(pending', mppPc', passed', metered', keys')
BY DEF UnitsConserved, Reserved, Units, ReservedUnits, SpentUnits

FiniteParts == IsFiniteSet(Fetches) /\ IsFiniteSet(Channels)

\* Passed units are metered for as long as the key manager is asked to sign.
PassedIsMetered ==
  \A f \in Fetches : mppPc[f] = "sign" /\ passed[f] > 0 => metered[f] = passed[f]

UnitsInv == UnitsConserved /\ PassedIsMetered

LEMMA UnitFunctions ==
  ASSUME MppTypeOK
  PROVE  /\ ReservedUnits(mppPc, passed, metered) \in [Fetches -> Nat]
         /\ SpentUnits(keys) \in [Channels -> Nat]
<1>1. \A ch \in Channels : keys[ch].spent \in Nat
  BY SessionRecords
<1> QED
  BY <1>1 DEF MppTypeOK, ReservedUnits, SpentUnits

\* Steps that sign for nothing and reserve nothing.
LEMMA NothingReserved ==
  ASSUME MppTypeOK, UnitsInv, UNCHANGED <<pending, reported>>,
         \A f \in Fetches : (mppPc'[f] = "sign") <=> (mppPc[f] = "sign"),
         \A f \in Fetches : mppPc[f] = "sign" =>
           passed'[f] = passed[f] /\ metered'[f] = metered[f],
         \A ch \in Channels : keys'[ch].spent = keys[ch].spent
  PROVE  UnitsInv'
<1>1. /\ ReservedUnits(mppPc', passed', metered') = ReservedUnits(mppPc, passed, metered)
      /\ SpentUnits(keys') = SpentUnits(keys)
  BY DEF ReservedUnits, SpentUnits
<1>2. UnitsConserved'
  BY <1>1, UnitsAdd DEF UnitsInv, Units
<1> QED
  BY <1>2 DEF UnitsInv, PassedIsMetered

\* One fetch reserves units, signs for them or gives them back.
LEMMA ReservedChanges ==
  ASSUME FiniteParts, MppTypeOK, MppTypeOK', NEW f \in Fetches,
         \A g \in Fetches : g # f =>
           /\ (mppPc'[g] = "sign") <=> (mppPc[g] = "sign")
           /\ passed'[g] = passed[g] /\ metered'[g] = metered[g]
  PROVE  SumFunction(ReservedUnits(mppPc', passed', metered')) + Reserved(f)
         = SumFunction(ReservedUnits(mppPc, passed, metered))
           + (IF mppPc'[f] = "sign" /\ passed'[f] = 0 THEN metered'[f] ELSE 0)
<1> DEFINE G == ReservedUnits(mppPc, passed, metered)
           H == ReservedUnits(mppPc', passed', metered')
<1>1. /\ H \in [Fetches -> Nat]
      /\ H[f] = IF mppPc'[f] = "sign" /\ passed'[f] = 0 THEN metered'[f] ELSE 0
  BY DEF ReservedUnits, MppTypeOK
<1>2. G \in [Fetches -> Nat] /\ G[f] = Reserved(f)
  BY DEF ReservedUnits, MppTypeOK, Reserved
<1>3. \A g \in Fetches : g # f => H[g] = G[g]
  BY DEF ReservedUnits
<1> HIDE DEF G, H
<1>4. SumFunction(H) + G[f] = SumFunction(G) + H[f]
  BY <1>1, <1>2, <1>3, SumChanges DEF FiniteParts
<1> QED
  BY <1>1, <1>2, <1>4 DEF G, H

LEMMA SpentChanges ==
  ASSUME FiniteParts, MppTypeOK, NEW f \in Fetches, target[f] \in Channels, Sign(f)
  PROVE  SumFunction(SpentUnits(keys')) = SumFunction(SpentUnits(keys)) + metered[f]
<1> DEFINE ch == target[f]
           G == SpentUnits(keys)
           H == SpentUnits(keys')
<1>1. /\ keys'[ch].spent = keys[ch].spent + metered[f]
      /\ \A d \in Channels : d # ch => keys'[d] = keys[d]
      /\ metered[f] \in Nat /\ \A d \in Channels : keys[d].spent \in Nat
  BY SignKeeps, SessionRecords DEF MppTypeOK
<1>2. G \in [Channels -> Nat] /\ H \in [Channels -> Nat]
  BY <1>1 DEF SpentUnits
<1>3. H[ch] = G[ch] + metered[f] /\ \A d \in Channels : d # ch => H[d] = G[d]
  BY <1>1 DEF SpentUnits
<1> HIDE DEF G, H
<1>4. SumFunction(H) + G[ch] = SumFunction(G) + H[ch]
  BY <1>2, <1>3, SumChanges DEF FiniteParts
<1>5. SumFunction(H) \in Nat /\ SumFunction(G) \in Nat /\ G[ch] \in Nat
  BY <1>2, SumNat DEF FiniteParts
<1> QED
  BY <1>1, <1>3, <1>4, <1>5 DEF G, H

LEMMA MetersKeepsUnits ==
  ASSUME FiniteParts, MppTypeOK, MppTypeOK', UnitsInv, NEW f \in Fetches, Meters(f)
  PROVE  UnitsInv'
<1> USE CallsDisjoint
<1>1. UNCHANGED <<reported, keys>>
  BY DEF Meters, Resume, CallFetch, WaitForOpening, StartVoucher, StartOpen, mppVars, outside
<1>2. mppPc[f] # "sign"
  BY DEF Meters, Resume, CallFetch, WaitForOpening, At
<1>3. ASSUME NEW u \in Nat, StartVoucher(f, u)
      PROVE  UnitsInv'
  <2>1. mppPc'[f] = "sign" /\ \A d \in Calls : d # f => mppPc'[d] = mppPc[d]
    BY <1>3, AskMoves DEF StartVoucher, MppSteps
  <2>2. /\ passed'[f] = u /\ metered'[f] = IF u > 0 THEN u ELSE pending
        /\ \A g \in Fetches : g # f => passed'[g] = passed[g] /\ metered'[g] = metered[g]
        /\ pending' = IF u > 0 THEN pending ELSE 0
    BY <1>3 DEF StartVoucher, MppTypeOK, Metered
  <2> DEFINE R == SumFunction(ReservedUnits(mppPc, passed, metered))
             S == SumFunction(ReservedUnits(mppPc', passed', metered'))
             T == SumFunction(SpentUnits(keys))
  <2>3. S + Reserved(f) = R + (IF mppPc'[f] = "sign" /\ passed'[f] = 0 THEN metered'[f] ELSE 0)
    BY <2>1, <2>2, ReservedChanges
  <2>4. Reserved(f) = 0
    BY <1>2 DEF Reserved
  <2>5. R \in Nat /\ S \in Nat /\ T \in Nat /\ pending \in Nat
    <3>1. ReservedUnits(mppPc', passed', metered') \in [Fetches -> Nat]
      BY DEF MppTypeOK, ReservedUnits
    <3> QED
      BY <3>1, UnitFunctions, SumNat DEF FiniteParts, MppTypeOK
  <2>6. reported = pending + R + T
    BY UnitsAdd DEF UnitsInv, Units
  <2>7. UnitsConserved' <=> reported' = pending' + S + T
    BY <1>1, UnitsAdd DEF Units
  <2> HIDE DEF R, S, T
  <2>8. UnitsConserved'
    BY <1>1, <2>1, <2>2, <2>3, <2>4, <2>5, <2>6, <2>7
  <2>9. PassedIsMetered'
    BY <2>1, <2>2 DEF UnitsInv, PassedIsMetered
  <2> QED
    BY <2>8, <2>9 DEF UnitsInv
<1>4. ASSUME NEW step \in {"first", "await", "idle"}, Goto(f, step), UNCHANGED <<pending, metered>>,
             \A g \in Fetches : g # f => passed'[g] = passed[g]
      PROVE  UnitsInv'
  <2>1. mppPc'[f] = step /\ \A d \in Calls : d # f => mppPc'[d] = mppPc[d]
    BY <1>4, GotoMoves DEF MppSteps
  <2> QED
    BY <1>1, <1>2, <1>4, <2>1, NothingReserved
<1>5. CASE UNCHANGED mppVars
  <2>1. UNCHANGED <<pending, reported, mppPc, passed, metered, keys>>
    BY <1>5 DEF mppVars, mppClient, locals, outside
  <2> QED
    BY <2>1, NothingReserved
<1>6. ASSUME NEW u, StartOpen(f, u)
      PROVE  UnitsInv'
  BY <1>4, <1>6 DEF StartOpen, locals
<1>7. CASE Resume(f)
  <2>1. passed[f] \in Nat
    BY DEF MppTypeOK
  <2> QED
    BY <1>3, <1>4, <1>6, <1>7, <2>1 DEF Resume, mppClient, locals
<1>8. ASSUME NEW u \in Passed, CallFetch(f, u) \/ WaitForOpening(f, u)
      PROVE  UnitsInv'
  <2>1. u \in Nat
    BY MppConstantsAssumption
  <2>2. CASE WaitForOpening(f, u)
    BY <1>4, <2>2 DEF WaitForOpening, mppClient, MppTypeOK
  <2> QED
    BY <1>3, <1>5, <1>6, <1>8, <2>1, <2>2 DEF CallFetch
<1> QED
  BY <1>7, <1>8 DEF Meters

LEMMA PaysKeepsUnits ==
  ASSUME FiniteParts, MppTypeOK, MppTypeOK', Targets, UnitsInv, ~FailedWritesLand,
         NEW f \in Fetches, Pays(f)
  PROVE  UnitsInv'
<1> USE CallsDisjoint
<1>1. mppPc[f] \in {"sign", "paid"} /\ target[f] \in Channels
  BY DEF Pays, MppSigned, SignFails, PaidAnswer, MppServed, At, Targets, TargetSteps
<1>2. /\ mppPc'[f] # "sign"
      /\ \A g \in Fetches : g # f => ((mppPc'[g] = "sign") <=> (mppPc[g] = "sign"))
      /\ UNCHANGED <<passed, metered>>
  <2>1. \/ Goto(f, "paid") /\ UNCHANGED locals
        \/ \E ok \in BOOLEAN : Ends(f, ok)
    BY DEF Pays, MppSigned, SignFails, PaidAnswer
  <2>2. CASE \E ok \in BOOLEAN : Ends(f, ok)
    BY <2>2, EndsMoves
  <2>3. CASE Goto(f, "paid") /\ UNCHANGED locals
    BY <2>3, GotoMoves DEF locals, MppSteps
  <2> QED
    BY <2>1, <2>2, <2>3
<1> DEFINE R == SumFunction(ReservedUnits(mppPc, passed, metered))
           S == SumFunction(ReservedUnits(mppPc', passed', metered'))
           T == SumFunction(SpentUnits(keys))
           U == SumFunction(SpentUnits(keys'))
<1>3. S + Reserved(f) = R + 0
  BY <1>2, ReservedChanges
<1>4. R \in Nat /\ S \in Nat /\ T \in Nat
  <2>1. ReservedUnits(mppPc', passed', metered') \in [Fetches -> Nat]
    BY DEF MppTypeOK, ReservedUnits
  <2> QED
    BY <2>1, UnitFunctions, SumNat DEF FiniteParts
<1>5. reported = pending + R + T /\ (UnitsConserved' <=> reported' = pending' + S + U)
  BY UnitsAdd DEF UnitsInv, Units
<1>6. pending \in Nat /\ reported \in Nat /\ metered[f] \in Nat /\ passed[f] \in Nat
  BY DEF MppTypeOK
<1>7. mppPc[f] = "sign" => Reserved(f) = IF passed[f] = 0 THEN metered[f] ELSE 0
  BY DEF Reserved
<1>8. mppPc[f] = "sign" /\ passed[f] > 0 => metered[f] = passed[f]
  BY DEF UnitsInv, PassedIsMetered
<1>9. PassedIsMetered'
  BY <1>2 DEF UnitsInv, PassedIsMetered
<1>10. CASE MppSigned(f)
  <2>1. U = T + metered[f]
    BY <1>1, <1>10, SpentChanges DEF MppSigned
  <2>2. mppPc[f] = "sign" /\ reported' = reported + passed[f] /\ pending' = pending
    BY <1>10 DEF MppSigned, Report, MppServed, At
  <2> HIDE DEF R, S, T, U
  <2>3. UnitsConserved'
    BY <1>3, <1>4, <1>5, <1>6, <1>7, <1>8, <2>1, <2>2
  <2> QED
    BY <1>9, <2>3 DEF UnitsInv
<1>11. CASE SignFails(f)
  <2>1. /\ mppPc[f] = "sign" /\ U = T /\ reported' = reported
        /\ pending' = IF passed[f] > 0 THEN pending ELSE pending + metered[f]
    BY <1>11 DEF SignFails, MppServed, At, outside
  <2> HIDE DEF R, S, T, U
  <2>2. UnitsConserved'
    BY <1>3, <1>4, <1>5, <1>6, <1>7, <2>1
  <2> QED
    BY <1>9, <2>2 DEF UnitsInv
<1>12. CASE PaidAnswer(f)
  <2>1. mppPc[f] = "paid" /\ UNCHANGED <<pending, reported, keys>>
    BY <1>12 DEF PaidAnswer, At, outside
  <2> QED
    BY <1>2, <2>1, NothingReserved
<1> QED
  BY <1>10, <1>11, <1>12 DEF Pays

LEMMA OpensKeepsUnits ==
  ASSUME MppTypeOK, Targets, UnitsInv, NEW f \in Fetches, Opens(f)
  PROVE  UnitsInv'
<1> USE CallsDisjoint
<1>1. mppPc[f] \in OpeningSteps /\ (mppPc[f] \in OwnerSteps => target[f] \in Channels)
  BY DEF Opens, FirstAnswer, Checked, Created, WalletRefuses, SendOpen, SendOpenThrows,
     OpenAnswer, KeyBound, BindFails, Undone, MppServed, At, OpeningSteps, OwnerSteps,
     Targets, TargetSteps
<1>2. OpenStops(f, TRUE) \/ OpenStops(f, FALSE) =>
        /\ UNCHANGED <<pending, reported, keys>>
        /\ \E ok \in BOOLEAN : Ends(f, ok)
  BY DEF OpenStops, outside
<1>3. UNCHANGED <<pending, reported>>
  BY <1>2 DEF Opens, FirstAnswer, Checked, Created, WalletRefuses, SendOpen, SendOpenThrows,
     OpenAnswer, KeyBound, BindFails, Undone, mppClient, outside
<1>4. \A ch \in Channels : keys'[ch].spent = keys[ch].spent
  <2>1. ASSUME NEW ch \in Channels, NEW state \in KeyStates, SetKey(ch, state)
        PROVE  \A d \in Channels : keys'[d].spent = keys[d].spent
    BY <2>1, SetKeyKeeps
  <2>2. CASE Created(f)
    BY <1>2, <2>1, <2>2 DEF Created, KeyStates
  <2>3. CASE KeyBound(f) \/ BindFails(f) \/ Undone(f)
    <3>1. target[f] \in Channels
      BY <1>1, <2>3 DEF KeyBound, BindFails, Undone, MppServed, At, OwnerSteps
    <3> QED
      BY <2>1, <2>3, <3>1 DEF KeyBound, BindFails, Undone, SetKeyOrNot, KeyStates
  <2> QED
    BY <1>2, <2>2, <2>3 DEF Opens, FirstAnswer, Checked, WalletRefuses, SendOpen,
       SendOpenThrows, OpenAnswer
<1>5. \/ \E ok \in BOOLEAN : Ends(f, ok)
      \/ /\ \E step \in {"check", "create", "wallet", "undo", "open", "bind"} : Goto(f, step)
         /\ UNCHANGED <<passed, metered>>
  BY <1>2 DEF Opens, FirstAnswer, Checked, Created, WalletRefuses, SendOpen, SendOpenThrows,
     OpenAnswer, KeyBound, BindFails, Undone, AskManager, locals
<1>6. /\ \A g \in Fetches : (mppPc'[g] = "sign") <=> (mppPc[g] = "sign")
      /\ UNCHANGED <<passed, metered>>
  <2>1. mppPc[f] # "sign"
    BY <1>1 DEF OpeningSteps, OwnerSteps
  <2>2. CASE \E ok \in BOOLEAN : Ends(f, ok)
    BY <2>1, <2>2, EndsMoves
  <2>3. ASSUME NEW step \in {"check", "create", "wallet", "undo", "open", "bind"}, Goto(f, step)
        PROVE  \A g \in Fetches : (mppPc'[g] = "sign") <=> (mppPc[g] = "sign")
    BY <2>1, <2>3, GotoMoves DEF MppSteps
  <2> QED
    BY <1>5, <2>2, <2>3
<1> QED
  BY <1>3, <1>4, <1>6, NothingReserved

LEMMA ClosesKeepsUnits ==
  ASSUME MppTypeOK, Targets, UnitsInv, NEW c \in Closers \cup Forcers, Closes(c)
  PROVE  UnitsInv'
<1> USE CallsDisjoint
<1>1. c \in Calls /\ c \notin Fetches /\ (mppPc[c] \in TargetSteps => target[c] \in Channels)
  BY DEF Targets
<1>2. UNCHANGED <<pending, reported>>
  BY DEF Closes, CloserStep, ForcerStep, Close, CloseAnswer, Closed, ForceClose,
     ForceCloseSent, ForceCloseFails, ForceClosed, RevokeFails, mppClient, outside
<1>3. \A ch \in Channels : keys'[ch].spent = keys[ch].spent
  <2>1. ASSUME SetKey(target[c], "revoked"), mppPc[c] \in TargetSteps
        PROVE  \A ch \in Channels : keys'[ch].spent = keys[ch].spent
    BY <1>1, <2>1, SetKeyKeeps DEF KeyStates
  <2> QED
    BY <2>1 DEF Closes, CloserStep, ForcerStep, Close, CloseAnswer, Closed, ForceClose,
       ForceCloseSent, ForceCloseFails, ForceClosed, RevokeFails, SetKeyOrNot, MppServed, At,
       TargetSteps
<1>4. \/ \E ok \in BOOLEAN : Ends(c, ok)
      \/ /\ \E step \in {"closing", "revoking", "forcing", "forceRevoking"} : Goto(c, step)
         /\ UNCHANGED <<passed, metered>>
  BY DEF Closes, CloserStep, ForcerStep, Close, CloseAnswer, Closed, ForceClose,
     ForceCloseSent, ForceCloseFails, ForceClosed, RevokeFails, AskManager, locals
<1>5. /\ \A g \in Fetches : (mppPc'[g] = "sign") <=> (mppPc[g] = "sign")
      /\ UNCHANGED <<passed, metered>>
  <2>1. CASE \E ok \in BOOLEAN : Ends(c, ok)
    BY <1>1, <2>1, EndsMoves
  <2>2. ASSUME NEW step \in {"closing", "revoking", "forcing", "forceRevoking"}, Goto(c, step)
        PROVE  \A g \in Fetches : (mppPc'[g] = "sign") <=> (mppPc[g] = "sign")
    BY <1>1, <2>2, GotoMoves DEF MppSteps
  <2> QED
    BY <1>4, <2>1, <2>2
<1> QED
  BY <1>2, <1>3, <1>5, NothingReserved

LEMMA UnitsStep ==
  ASSUME FiniteParts, ~FailedWritesLand, ChannelsInv, UnitsInv, [MppNext]_mppVars
  PROVE  UnitsInv'
<1> USE DEF ChannelsInv
<1>1. MppTypeOK'
  BY MppTypeStep
<1>2. CASE UNCHANGED mppVars
  <2>1. UNCHANGED <<pending, reported, mppPc, passed, metered, keys>>
    BY <1>2 DEF mppVars, mppClient, locals, outside
  <2> QED
    BY <2>1, NothingReserved
<1>3. CASE Add
  <2>1. /\ pending' = pending + 1 /\ reported' = reported + 1
        /\ UNCHANGED <<mppPc, passed, metered, keys>>
    BY <1>3 DEF Add, locals
  <2>2. PassedIsMetered'
    BY <2>1 DEF UnitsInv, PassedIsMetered
  <2> DEFINE R == SumFunction(ReservedUnits(mppPc, passed, metered))
             T == SumFunction(SpentUnits(keys))
  <2>3. reported = pending + R + T /\ (UnitsConserved' <=> reported' = pending' + R + T)
    BY <2>1, UnitsAdd DEF UnitsInv, Units
  <2>4. R \in Nat /\ T \in Nat /\ pending \in Nat /\ reported \in Nat
    BY UnitFunctions, SumNat DEF FiniteParts, MppTypeOK
  <2> HIDE DEF R, T
  <2> QED
    BY <2>1, <2>2, <2>3, <2>4 DEF UnitsInv
<1> QED
  BY <1>1, <1>2, <1>3, MetersKeepsUnits, OpensKeepsUnits, PaysKeepsUnits, ClosesKeepsUnits,
     MppNextCases

\* The units an app reports are each pending, reserved by one call or signed for
\* by one key: calls that pay at the same time sign for no unit twice, and a
\* refused signature gives its units back. It holds for any number of calls and
\* channels, when a key-store write that rejects has had no effect.
THEOREM UnitsAreConserved ==
  ASSUME FiniteParts, ~FailedWritesLand
  PROVE  MppSpec => []UnitsConserved
<1> DEFINE IInv == ChannelsInv /\ UnitsInv
<1>1. MppInit => IInv
  <2> SUFFICES ASSUME MppInit PROVE UnitsInv
    BY MppInitInv
  <2>1. /\ ReservedUnits(mppPc, passed, metered) = [f \in Fetches |-> 0]
        /\ SpentUnits(keys) = [ch \in Channels |-> 0]
    BY CallsDisjoint DEF MppInit, ReservedUnits, SpentUnits
  <2>2. Units(pending, mppPc, passed, metered, keys) = 0
    BY <2>1, ZeroesSum DEF Units, FiniteParts, MppInit
  <2> QED
    BY <2>2, UnitsAdd, CallsDisjoint DEF UnitsInv, PassedIsMetered, MppInit
<1>2. IInv /\ [MppNext]_mppVars => IInv'
  BY ChannelsStep, UnitsStep
<1>3. IInv => UnitsConserved
  BY DEF UnitsInv
<1> QED
  BY <1>1, <1>2, <1>3, PTL DEF MppSpec
================================================================================
