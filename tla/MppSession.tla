----------------------------- MODULE MppSession -----------------------------
(***************************************************************************)
(* createMppSessionFetch (payments-mpp/src/session.ts): one metered session *)
(* of a client.  Calls of pay(), close() and forceClose() run concurrently  *)
(* in one JavaScript runtime and interleave at their awaits: the server,    *)
(* the wallet and the voucher key manager answer in any order, or fail.     *)
(* Amounts are units at a price of one.  Each channel has a key of its own, *)
(* named after it; the key manager is what VoucherBudget promises, with its *)
(* calls served first come, first served.                                   *)
(***************************************************************************)
EXTENDS ConnectLib, FiniteSetsExt

CONSTANTS
  Fetches,          \* calls of the session fetch that may be in flight
  Closers,          \* calls of close()
  Forcers,          \* calls of forceClose()
  Channels,         \* bound: channels that can be opened
  MaxCumulative,    \* what the policy lets one channel sign
  MaxDelta,         \* what it lets one voucher add
  MaxMeter,         \* bound: units ever added to the meter
  Passed,           \* units a call may pass itself; 0 when it passes none
  FreeResource,     \* may the server serve the first request unpaid?
  FailedWritesLand  \* may a rejected key-store write have taken effect?

Calls == Fetches \cup Closers \cup Forcers

ASSUME MppConstantsAssumption ==
  /\ MaxCumulative \in Nat /\ MaxDelta \in Nat /\ MaxMeter \in Nat
  /\ Passed \subseteq Nat /\ 0 \in Passed
  /\ FreeResource \in BOOLEAN /\ FailedWritesLand \in BOOLEAN
  /\ None \notin Channels /\ None \notin Calls
  /\ Fetches \cap (Closers \cup Forcers) = {} /\ Closers \cap Forcers = {}

VARIABLES
  pending,   \* pendingUnits
  active,    \* the channel of the active object, or None
  session,   \* the objects active has pointed to, by channel
  opening,   \* the fetch whose promise is opening, or None
  listed,    \* channels
  mppPc,        \* the await each call is at
  passed,    \* init.units of a fetch
  metered,   \* units a fetch has asked the key manager to sign for
  target,    \* the channel a call opens, pays on or closes
  final,     \* close: the final voucher; forceClose: the expected settlement
  keys,      \* the voucher keys, as the manager stores them
  queue,     \* calls waiting for the key manager, first come, first served
  handed,    \* channels whose open transaction was handed to the server
  bindings,  \* settlement bindings returned by close() and forceClose()
  reported   \* history: units added to the meter, or passed and signed for

mppClient == <<pending, active, session, opening, listed>>
locals == <<passed, metered, target, final>>
outside == <<handed, bindings, reported>>
mppVars == <<mppClient, locals, outside, mppPc, keys, queue>>

SessionVoucher == [channel: Channels, amount: Nat]
Session == [hasKey: BOOLEAN, last: SessionVoucher \cup {None}]
MppSteps == {"idle", "await", "resume", "first", "check", "create", "wallet",
          "open", "bind", "undo", "sign", "paid",
          "closing", "revoking", "forcing", "forceRevoking"}

\* Type invariant.
MppTypeOK ==
  /\ pending \in Nat
  /\ active \in Channels \cup {None}
  /\ session \in [Channels -> Session]
  /\ opening \in Fetches \cup {None}
  /\ listed \subseteq Channels
  /\ mppPc \in [Calls -> MppSteps]
  /\ passed \in [Fetches -> Nat] /\ metered \in [Fetches -> Nat]
  /\ target \in [Calls -> Channels \cup {None}]
  /\ final \in [Closers \cup Forcers -> Nat]
  /\ keys \in [Channels -> [state: {"absent", "unbound", "bound", "revoked"},
                            spent: Nat]]
  /\ queue \in Seq(Calls)
  /\ handed \subseteq Channels
  /\ bindings \subseteq [channel: Channels, expected: Nat]
  /\ reported \in Nat

MppInit ==
  /\ pending = 0 /\ active = None /\ opening = None /\ listed = {}
  /\ session = [ch \in Channels |-> [hasKey |-> FALSE, last |-> None]]
  /\ mppPc = [c \in Calls |-> "idle"]
  /\ passed = [f \in Fetches |-> 0] /\ metered = [f \in Fetches |-> 0]
  /\ target = [c \in Calls |-> None]
  /\ final = [c \in Closers \cup Forcers |-> 0]
  /\ keys = [ch \in Channels |-> [state |-> "absent", spent |-> 0]]
  /\ queue = <<>> /\ handed = {} /\ bindings = {} /\ reported = 0

-----------------------------------------------------------------------------
(* Awaits.  A settled promise resumes who awaits it before the runtime takes
   up anything else: while a waiter is at "resume" nothing else happens. *)

Quiet == \A f \in Fetches : mppPc[f] # "resume"

At(c, step) == Quiet /\ mppPc[c] = step

Goto(c, step) == mppPc' = [mppPc EXCEPT ![c] = step]

\* Mutant of Ends: a failed opening leaves those awaiting it unsettled.
Bad_Ends(c, ok) ==
  /\ mppPc' = [d \in Calls |->
              IF d = c THEN "idle"
              ELSE IF opening = c /\ mppPc[d] = "await" /\ ok THEN "resume"
              ELSE mppPc[d]]
  /\ opening' = IF opening = c THEN None ELSE opening
  /\ target' = [target EXCEPT ![c] = None]
  /\ UNCHANGED <<passed, metered, final>>

\* The call c ends; when its promise is the one in opening, those awaiting it
\* go on (ok) or reject with it.
Ends(c, ok) ==
  /\ mppPc' = [d \in Calls |->
              IF d = c THEN "idle"
              ELSE IF opening = c /\ mppPc[d] = "await"
              THEN IF ok THEN "resume" ELSE "idle"
              ELSE mppPc[d]]
  /\ opening' = IF opening = c THEN None ELSE opening
  /\ target' = [target EXCEPT ![c] = None]
  /\ UNCHANGED <<passed, metered, final>>

\* c waits for the key manager.
AskManager(c, step) ==
  /\ queue' = Append(queue, c)
  /\ Goto(c, step)

\* The key manager turns to c.
MppServed(c, step) ==
  /\ At(c, step)
  /\ queue # <<>>
  /\ Head(queue) = c
  /\ queue' = Tail(queue)

SetKey(ch, state) == keys' = [keys EXCEPT ![ch].state = state]

\* A manager call that fails: its write had no effect, or had it all the same.
SetKeyOrNot(ch, state) ==
  \/ UNCHANGED keys
  \/ FailedWritesLand /\ SetKey(ch, state)

-----------------------------------------------------------------------------
(* sessionFetch, and performFetch up to its first await. *)

\* meter.add
Add ==
  /\ Quiet
  /\ reported < MaxMeter
  /\ pending' = pending + 1
  /\ reported' = reported + 1
  /\ UNCHANGED <<active, session, opening, listed, locals, mppPc, keys, queue,
                 handed, bindings>>

Metered(u) == IF u > 0 THEN u ELSE pending

MppRefused(u) ==
  \/ u > 0 /\ (pending # 0 \/ active = None)
  \/ active # None /\ (~session[active].hasKey \/ Metered(u) = 0)

\* Mutants of StartVoucher: the meter is debited for passed units too, or only
\* read before the key manager is asked.
Bad_StartVoucher(f, u) ==
  /\ ~MppRefused(u)
  /\ active # None
  /\ pending' = pending - Metered(u)
  /\ metered' = [metered EXCEPT ![f] = Metered(u)]
  /\ passed' = [passed EXCEPT ![f] = u]
  /\ target' = [target EXCEPT ![f] = active]
  /\ AskManager(f, "sign")
  /\ UNCHANGED <<active, session, opening, listed, final, keys, outside>>

Bad_StartVoucherUnreserved(f, u) ==
  /\ ~MppRefused(u)
  /\ active # None
  /\ metered' = [metered EXCEPT ![f] = Metered(u)]
  /\ passed' = [passed EXCEPT ![f] = u]
  /\ target' = [target EXCEPT ![f] = active]
  /\ AskManager(f, "sign")
  /\ UNCHANGED <<pending, active, session, opening, listed, final, keys, outside>>

\* The pending units are reserved before the key manager is asked to sign.
StartVoucher(f, u) ==
  /\ ~MppRefused(u)
  /\ active # None
  /\ pending' = IF u > 0 THEN pending ELSE 0
  /\ metered' = [metered EXCEPT ![f] = Metered(u)]
  /\ passed' = [passed EXCEPT ![f] = u]
  /\ target' = [target EXCEPT ![f] = active]
  /\ AskManager(f, "sign")
  /\ UNCHANGED <<active, session, opening, listed, final, keys, outside>>

\* The first request goes out unpaid.
StartOpen(f, u) ==
  /\ ~MppRefused(u)
  /\ active = None
  /\ Goto(f, "first")
  /\ UNCHANGED <<pending, active, session, listed, locals, keys, queue, outside>>

\* Mutant of CallFetch: no single flight.
Bad_CallFetch(f, u) ==
  /\ At(f, "idle")
  /\ opening = None
  /\ \/ StartVoucher(f, u)
     \/ StartOpen(f, u) /\ UNCHANGED opening
     \/ MppRefused(u) /\ UNCHANGED mppVars

\* pay(input, {units: u}). A call that finds neither an opening nor an active
\* channel makes its own promise the opening one.
CallFetch(f, u) ==
  /\ At(f, "idle")
  /\ opening = None
  /\ \/ StartVoucher(f, u)
     \/ StartOpen(f, u) /\ opening' = f
     \/ MppRefused(u) /\ UNCHANGED mppVars

WaitForOpening(f, u) ==
  /\ At(f, "idle")
  /\ opening # None
  /\ passed' = [passed EXCEPT ![f] = u]
  /\ Goto(f, "await")
  /\ UNCHANGED <<mppClient, metered, target, final, keys, queue, outside>>

\* The opening fetch succeeded: a waiter goes on with performFetch, without
\* looking at opening again.
Resume(f) ==
  /\ mppPc[f] = "resume"
  /\ \/ StartVoucher(f, passed[f])
     \/ StartOpen(f, passed[f]) /\ UNCHANGED opening
     \/ /\ MppRefused(passed[f])
        /\ Goto(f, "idle")
        /\ UNCHANGED <<mppClient, locals, keys, queue, outside>>

-----------------------------------------------------------------------------
(* performFetch: opening a channel. *)

\* A failure before a key exists, or a resource that costs nothing.
OpenStops(f, ok) ==
  /\ Ends(f, ok)
  /\ UNCHANGED <<pending, active, session, listed, keys, outside>>

FirstAnswer(f) ==
  /\ At(f, "first")
  /\ UNCHANGED queue
  /\ \/ FreeResource /\ OpenStops(f, TRUE)
     \/ OpenStops(f, FALSE)
     \/ /\ Goto(f, "check")
        /\ UNCHANGED <<mppClient, locals, keys, outside>>

\* Cluster, program, blockhash, mint and policy are looked at; nothing changes.
Checked(f) ==
  /\ At(f, "check")
  /\ \/ OpenStops(f, FALSE) /\ UNCHANGED queue
     \/ /\ AskManager(f, "create")
        /\ UNCHANGED <<mppClient, locals, keys, outside>>

Created(f) ==
  /\ MppServed(f, "create")
  /\ \/ OpenStops(f, FALSE)
     \/ \E ch \in Channels :
          /\ keys[ch].state = "absent"
          /\ SetKey(ch, "unbound")
          /\ target' = [target EXCEPT ![f] = ch]
          /\ Goto(f, "wallet")
          /\ UNCHANGED <<mppClient, passed, metered, final, outside>>

WalletRefuses(f) ==
  /\ At(f, "wallet")
  /\ AskManager(f, "undo")
  /\ UNCHANGED <<mppClient, locals, keys, outside>>

\* The wallet signed: active is set before the open request is sent.
Activate(f) ==
  /\ active' = target[f]
  /\ session' = [session EXCEPT ![target[f]] = [hasKey |-> TRUE, last |-> None]]
  /\ listed' = listed \cup {target[f]}

SendOpen(f) ==
  /\ At(f, "wallet")
  /\ Activate(f)
  /\ handed' = handed \cup {target[f]}
  /\ Goto(f, "open")
  /\ UNCHANGED <<pending, opening, locals, keys, queue, bindings, reported>>

\* send() throws before the request leaves.
SendOpenThrows(f) ==
  /\ At(f, "wallet")
  /\ Activate(f)
  /\ AskManager(f, "undo")
  /\ UNCHANGED <<pending, opening, locals, keys, outside>>

\* A matching receipt, or a 402, another receipt or a lost answer.
OpenAnswer(f) ==
  /\ At(f, "open")
  /\ \E step \in {"bind", "undo"} : AskManager(f, step)
  /\ UNCHANGED <<mppClient, locals, keys, outside>>

\* A revoked key is bound as well, and stays revoked.
KeyBound(f) ==
  /\ MppServed(f, "bind")
  /\ SetKey(target[f], IF keys[target[f]].state = "revoked" THEN "revoked" ELSE "bound")
  /\ Ends(f, TRUE)
  /\ UNCHANGED <<pending, active, session, listed, outside>>

BindFails(f) ==
  /\ At(f, "bind")
  /\ queue # <<>> /\ Head(queue) = f
  /\ SetKeyOrNot(target[f],
       IF keys[target[f]].state = "revoked" THEN "revoked" ELSE "bound")
  /\ queue' = Append(Tail(queue), f)
  /\ Goto(f, "undo")
  /\ UNCHANGED <<mppClient, locals, outside>>

\* Mutant of Undone: a failed open is forgotten even if it was sent.
Bad_Undone(f) ==
  /\ MppServed(f, "undo")
  /\ SetKey(target[f], "revoked")
  /\ Ends(f, FALSE)
  /\ active' = None
  /\ listed' = listed \ {target[f]}
  /\ UNCHANGED <<pending, session, outside>>

\* The catch block, once the key is revoked or the revocation failed: a channel
\* the server may have opened stays active, without its key, for forceClose.
Undone(f) ==
  LET ch == target[f]
  IN  /\ MppServed(f, "undo")
      /\ \/ SetKey(ch, "revoked")
         \/ UNCHANGED keys
      /\ Ends(f, FALSE)
      /\ \/ /\ active = ch /\ ch \in handed
            /\ session' = [session EXCEPT ![ch].hasKey = FALSE]
            /\ UNCHANGED <<active, listed>>
         \/ /\ active = ch /\ ch \notin handed
            /\ active' = None
            /\ listed' = listed \ {ch}
            /\ UNCHANGED session
         \/ active # ch /\ UNCHANGED <<active, session, listed>>
      /\ UNCHANGED <<pending, outside>>

-----------------------------------------------------------------------------
(* performFetch: paying on the active channel. *)

MaySignFor(f) ==
  /\ keys[target[f]].state = "bound"
  /\ metered[f] <= MaxDelta
  /\ keys[target[f]].spent + metered[f] <= MaxCumulative

Sign(f) == keys' = [keys EXCEPT ![target[f]].spent = @ + metered[f]]

Report(f) == reported' = reported + passed[f]

\* The voucher becomes the last one of whatever object active points to now;
\* with none left the call throws, its units spent.
MppSigned(f) ==
  /\ MppServed(f, "sign")
  /\ MaySignFor(f)
  /\ Sign(f)
  /\ Report(f)
  /\ \/ /\ active # None
        /\ session' = [session EXCEPT ![active].last =
             [channel |-> target[f], amount |-> keys[target[f]].spent + metered[f]]]
        /\ Goto(f, "paid")
        /\ UNCHANGED <<opening, locals>>
     \/ /\ active = None
        /\ Ends(f, FALSE)
        /\ UNCHANGED session
  /\ UNCHANGED <<pending, active, listed, handed, bindings>>

\* Refused by the policy or the store: reserved units go back to the meter.
SignFails(f) ==
  /\ MppServed(f, "sign")
  /\ \/ UNCHANGED keys
     \/ FailedWritesLand /\ MaySignFor(f) /\ Sign(f)
  /\ pending' = IF passed[f] > 0 THEN pending ELSE pending + metered[f]
  /\ Ends(f, FALSE)
  /\ UNCHANGED <<active, session, listed, outside>>

\* The answer to a paid request, whatever it is, changes nothing any more.
PaidAnswer(f) ==
  /\ At(f, "paid")
  /\ Ends(f, TRUE)
  /\ UNCHANGED <<pending, active, session, listed, keys, queue, outside>>

-----------------------------------------------------------------------------
(* close() and forceClose(). *)

Close(c) ==
  /\ At(c, "idle")
  /\ active # None
  /\ session[active].hasKey
  /\ session[active].last # None
  /\ target' = [target EXCEPT ![c] = active]
  /\ final' = [final EXCEPT ![c] = session[active].last.amount]
  /\ Goto(c, "closing")
  /\ UNCHANGED <<mppClient, passed, metered, keys, queue, outside>>

CloseAnswer(c) ==
  /\ At(c, "closing")
  /\ \/ AskManager(c, "revoking") /\ UNCHANGED <<mppClient, locals>>
     \/ /\ Ends(c, FALSE)
        /\ UNCHANGED <<pending, active, session, listed, queue>>
  /\ UNCHANGED <<keys, outside>>

\* The original channel is forgotten, never a replacement.
Forget(ch) ==
  /\ listed' = listed \ {ch}
  /\ active' = IF active = ch THEN None ELSE active

Return(c) ==
  bindings' = bindings \cup {[channel |-> target[c], expected |-> final[c]]}

Closed(c) ==
  /\ MppServed(c, "revoking")
  /\ SetKey(target[c], "revoked")
  /\ Forget(target[c])
  /\ Return(c)
  /\ Ends(c, TRUE)
  /\ UNCHANGED <<pending, session, handed, reported>>

\* The binding is taken from the last voucher before anything is awaited.
ForceClose(c) ==
  /\ At(c, "idle")
  /\ active # None
  /\ target' = [target EXCEPT ![c] = active]
  /\ final' = [final EXCEPT ![c] =
       IF session[active].last = None THEN 0 ELSE session[active].last.amount]
  /\ Goto(c, "forcing")
  /\ UNCHANGED <<mppClient, passed, metered, keys, queue, outside>>

\* Blockhash, wallet and sendTransaction, one after the other.
ForceCloseSent(c) ==
  /\ At(c, "forcing")
  /\ \/ /\ session[target[c]].hasKey
        /\ AskManager(c, "forceRevoking")
        /\ UNCHANGED <<mppClient, locals, bindings>>
     \/ /\ ~session[target[c]].hasKey
        /\ Forget(target[c])
        /\ Return(c)
        /\ Ends(c, TRUE)
        /\ UNCHANGED <<pending, session, queue>>
  /\ UNCHANGED <<keys, handed, reported>>

ForceCloseFails(c) ==
  /\ At(c, "forcing")
  /\ Ends(c, FALSE)
  /\ UNCHANGED <<pending, active, session, listed, keys, queue, outside>>

\* Mutant of ForceClosed: the voucher key is left active.
Bad_ForceClosed(c) ==
  /\ MppServed(c, "forceRevoking")
  /\ Forget(target[c])
  /\ Return(c)
  /\ Ends(c, TRUE)
  /\ UNCHANGED <<pending, session, keys, handed, reported>>

ForceClosed(c) ==
  /\ MppServed(c, "forceRevoking")
  /\ SetKey(target[c], "revoked")
  /\ Forget(target[c])
  /\ Return(c)
  /\ Ends(c, TRUE)
  /\ UNCHANGED <<pending, session, handed, reported>>

RevokeFails(c) ==
  /\ MppServed(c, "revoking") \/ MppServed(c, "forceRevoking")
  /\ SetKeyOrNot(target[c], "revoked")
  /\ Ends(c, FALSE)
  /\ UNCHANGED <<pending, active, session, listed, outside>>

-----------------------------------------------------------------------------
FetchStep(f) ==
  \/ Resume(f) \/ FirstAnswer(f) \/ Checked(f) \/ Created(f) \/ WalletRefuses(f)
  \/ SendOpen(f) \/ SendOpenThrows(f) \/ OpenAnswer(f) \/ KeyBound(f) \/ BindFails(f)
  \/ Undone(f) \/ MppSigned(f) \/ SignFails(f) \/ PaidAnswer(f)

CloserStep(c) == CloseAnswer(c) \/ Closed(c) \/ RevokeFails(c)

ForcerStep(c) ==
  ForceCloseSent(c) \/ ForceCloseFails(c) \/ ForceClosed(c) \/ RevokeFails(c)

MppNext ==
  \/ Add
  \/ \E f \in Fetches :
       \/ \E u \in Passed : CallFetch(f, u) \/ WaitForOpening(f, u)
       \/ FetchStep(f)
  \/ \E c \in Closers : Close(c) \/ CloserStep(c)
  \/ \E c \in Forcers : ForceClose(c) \/ ForcerStep(c)

MppSpec == MppInit /\ [][MppNext]_mppVars

\* Servers, wallets, nodes and the key store answer in the end, somehow.
MppFairSpec ==
  /\ MppSpec
  /\ \A f \in Fetches : WF_mppVars(FetchStep(f))
  /\ \A c \in Closers : WF_mppVars(CloserStep(c))
  /\ \A c \in Forcers : WF_mppVars(ForcerStep(c))

-----------------------------------------------------------------------------
(* Properties *)

Reserved(f) == IF mppPc[f] = "sign" /\ passed[f] = 0 THEN metered[f] ELSE 0

(* What the keys have signed for, what is reserved and what is pending are the
   units the app reported: concurrent requests sign for no unit twice and drop
   none, also when signing is refused or the channel goes away meanwhile. *)
UnitsConserved ==
  reported = pending + SumFunction([f \in Fetches |-> Reserved(f)])
             + SumFunction([ch \in Channels |-> keys[ch].spent])

ClosedChannels == {b.channel : b \in bindings}

(* A channel whose signed open transaction left the client stays in channels,
   where forceClose() finds it, until a close of it has returned: no failed
   open, delayed close or replacement loses an escrow. *)
EscrowsListed == handed \subseteq listed \cup ClosedChannels

(* Once close() or forceClose() has returned, the key of that channel never
   signs again, though calls that started before are still in flight. *)
NoVoucherAfterClose ==
  [][\A ch \in ClosedChannels : keys'[ch].spent = keys[ch].spent]_mppVars

(* "opens one escrow channel" (payments-mpp/README.md): no two channels of a
   session wait to be closed at the same time. *)
OneEscrow == Cardinality(listed) <= 1

(* The last voucher kept for a channel was signed for that channel, by the key
   the settlement of the channel is checked with; what the key has signed beyond
   it are vouchers whose signature never reached the session. *)
LastVoucherBelongs ==
  \A ch \in Channels : session[ch].last # None =>
    /\ session[ch].last.channel = ch
    /\ session[ch].last.amount <= keys[ch].spent

(* As long as the server asks for payment, one channel at a time waits to be
   closed, and the last voucher kept for a channel is one its key has signed. *)
OneEscrowAtATime == OneEscrow /\ LastVoucherBelongs

(* Every call ends: those that await an opening are resumed or rejected with
   it, whichever way it goes. *)
FetchesEnd == \A f \in Fetches : mppPc[f] # "idle" ~> mppPc[f] = "idle"
=============================================================================
