------------------------- MODULE VoucherKeysProofs -------------------------
(***************************************************************************)
(* Proofs about VoucherKeys, for any number of callers, tabs, keys and     *)
(* channels and any policies.  The inductive invariant says what each call *)
(* holds: the lock of the store, the array it loaded (nobody can change it *)
(* under it) and the one record it changes in it.                          *)
(***************************************************************************)
EXTENDS VoucherKeys, TLAPS

Holds(c) == pc[c] \in {"load", "save", "saved"}

\* Where a call stands says what it has.
Control ==
  \A c \in Callers :
    /\ pc[c] = "idle" <=> op[c] = None
    /\ Holds(c) <=> allLock = c
    /\ pc[c] = "lockKey" => op[c].type # "create"
    /\ voucher[c] # None =>
         op[c] # None /\ op[c].type = "sign" /\ pc[c] \in {"save", "saved", "deliver"}

Creating(c) ==
  /\ op[c] # None
  /\ op[c].type = "create"
  /\ pc[c] \in {"lockAll", "load", "save"}

\* The id of a key being created is nobody else's.
Fresh ==
  /\ \A c \in Callers : Creating(c) =>
       /\ stored[op[c].key] = None
       /\ op[c].policy.maxCumulative \in 1 .. U64Max
  /\ \A c, d \in Callers :
       Creating(c) /\ Creating(d) /\ op[c].key = op[d].key => c = d

\* What the manager writes into the record of key k.
GoodRecord(k, rec) ==
  /\ rec.policy.maxCumulative \in 1 .. U64Max
  /\ rec.channel = None => rec.lastCumulative = 0
  /\ rec.channel # None =>
       /\ rec.channel.channelId.signer = k
       /\ rec.lastCumulative <= rec.channel.maxCumulative
       /\ rec.channel.maxCumulative \in 1 .. U64Max
       /\ rec.channel.maxCumulative <= rec.channel.deposit
       /\ rec.channel.maxCumulative <= rec.policy.maxCumulative

Records == \A k \in Keys : stored[k] # None => GoodRecord(k, stored[k])

\* The change an operation o makes of the record q; v is the voucher signed.
Creates(o, q, r) ==
  /\ o.type = "create"
  /\ q = None
  /\ r = NewRecord(o.policy)

Binds(o, q, r) ==
  /\ o.type = "bind"
  /\ q # None
  /\ q.channel = None
  /\ o.deposit \in 1 .. U64Max
  /\ o.channelId.signer = o.key
  /\ r = Bound(q, o)

Signs(o, q, r, v) ==
  /\ o.type = "sign"
  /\ q # None
  /\ q.status = "active"
  /\ q.channel # None
  /\ o.channelId = q.channel.channelId
  /\ Delta(q, o) > 0
  /\ q.lastCumulative + Delta(q, o) <= q.channel.maxCumulative
  /\ r = Signed(q, o)
  /\ v = VoucherFor(q, o)

Revokes(o, q, r) ==
  /\ o.type = "revoke"
  /\ q # None
  /\ r = [q EXCEPT !.status = "revoked"]

\* The array being written back differs from the stored one in one record,
\* which one operation has changed.
Pending ==
  \A c \in Callers : pc[c] = "save" =>
    LET o == op[c]
        q == stored[o.key]
        r == buffer[c][o.key]
    IN  /\ buffer[c] \in Stores
        /\ buffer[c] = [stored EXCEPT ![o.key] = r]
        /\ \/ Creates(o, q, r)
           \/ Binds(o, q, r)
           \/ Signs(o, q, r, voucher[c])
           \/ Revokes(o, q, r)

CoveredBy(store, v) ==
  /\ store[v.key] # None
  /\ store[v.key].channel # None
  /\ store[v.key].channel.channelId = v.channelId
  /\ v.cumulative <= store[v.key].lastCumulative
  /\ v.delta > 0

Covered(v) == CoveredBy(stored, v)

AllCovered ==
  /\ \A i \in DOMAIN delivered : Covered(delivered[i])
  /\ \A c \in Callers : InHand(c) => Covered(voucher[c])

IInv ==
  /\ TypeOK
  /\ Control
  /\ Fresh
  /\ Records
  /\ Pending
  /\ AllCovered
  /\ NoDoubleSpend

-----------------------------------------------------------------------------
(* What a call asks for, taken apart. *)

LEMMA OpFields ==
  ASSUME NEW o \in Op
  PROVE  /\ o.key \in Keys
         /\ o.type \in {"create", "bind", "sign", "revoke"}
         /\ o.type = "create" => o.policy \in Policies
         /\ o.type = "bind" => o.channelId \in ChannelId /\ o.deposit \in Nat
         /\ o.type = "sign" => o.channelId \in ChannelId /\ o.units \in Nat
BY ConstantsAssumption DEF Op

LEMMA RecordFields ==
  ASSUME NEW q \in Record
  PROVE  /\ q.status \in {"active", "revoked"}
         /\ q.policy \in Policy /\ q.policy \in Policies
         /\ q.channel # None => q.channel \in BoundChannel
         /\ q.lastCumulative \in Nat
BY ConstantsAssumption DEF Record

LEMMA DeltaIsNat ==
  ASSUME NEW q \in Record, NEW o \in Op, o.type = "sign"
  PROVE  Delta(q, o) \in Nat
<1>1. o.units \in Nat /\ q.policy.price \in Nat
  BY OpFields, RecordFields DEF Policy
<1> QED
  BY <1>1 DEF Delta

LEMMA NewRecordIsRecord ==
  ASSUME NEW p \in Policies
  PROVE  NewRecord(p) \in Record
BY DEF NewRecord, Record

LEMMA BoundIsRecord ==
  ASSUME NEW q \in Record, NEW o \in Op, o.type = "bind"
  PROVE  Bound(q, o) \in Record
<1>1. /\ o.channelId \in ChannelId /\ o.deposit \in Nat
      /\ q.policy.maxCumulative \in Nat
  BY OpFields, RecordFields DEF Policy
<1>2. [channelId |-> o.channelId, deposit |-> o.deposit,
       maxCumulative |-> IF q.policy.maxCumulative < o.deposit
                         THEN q.policy.maxCumulative ELSE o.deposit]
        \in BoundChannel
  BY <1>1 DEF BoundChannel
<1> QED
  BY <1>2 DEF Bound, Record

LEMMA SignedIsRecord ==
  ASSUME NEW q \in Record, NEW o \in Op, o.type = "sign"
  PROVE  Signed(q, o) \in Record
<1>1. q.lastCumulative + Delta(q, o) \in Nat
  BY DeltaIsNat, RecordFields
<1> QED
  BY <1>1 DEF Signed, Record

LEMMA VoucherForIsVoucher ==
  ASSUME NEW q \in Record, NEW o \in Op, o.type = "sign", q.channel # None
  PROVE  VoucherFor(q, o) \in Voucher
<1>1. q.lastCumulative + Delta(q, o) \in Nat /\ Delta(q, o) \in Nat
  BY DeltaIsNat, RecordFields
<1>2. q.channel.channelId \in ChannelId /\ o.key \in Keys
  BY RecordFields, OpFields DEF BoundChannel
<1> QED
  BY <1>1, <1>2 DEF VoucherFor, Voucher

-----------------------------------------------------------------------------
(* The steps of Next, grouped by what they do to the state. *)

Asks(c, o) ==
  /\ pc[c] = "idle"
  /\ op' = [op EXCEPT ![c] = o]
  /\ \/ /\ o.type = "create"
        /\ ValidPolicy(o.policy)
        /\ stored[o.key] = None
        /\ \A d \in Callers : op[d] # None => op[d].key # o.key
        /\ pc' = [pc EXCEPT ![c] = "lockAll"]
     \/ /\ o.type # "create"
        /\ pc' = [pc EXCEPT ![c] = "lockKey"]
  /\ UNCHANGED <<stored, now, buffer, voucher, keyLock, allLock, delivered>>

Changes(c, r) ==
  /\ pc[c] = "load"
  /\ op[c] # None
  /\ buffer' = [buffer EXCEPT ![c] = [stored EXCEPT ![op[c].key] = r]]
  /\ pc' = [pc EXCEPT ![c] = "save"]
  /\ \/ Creates(op[c], stored[op[c].key], r) /\ UNCHANGED voucher
     \/ Binds(op[c], stored[op[c].key], r) /\ UNCHANGED voucher
     \/ \E v \in Voucher :
          /\ Signs(op[c], stored[op[c].key], r, v)
          /\ voucher' = [voucher EXCEPT ![c] = v]
     \/ Revokes(op[c], stored[op[c].key], r) /\ UNCHANGED voucher
  /\ UNCHANGED <<stored, now, op, keyLock, allLock, delivered>>

Step(c) ==
  \/ \E o \in Op : Asks(c, o)
  \/ LockKey(c)
  \/ LockAll(c)
  \/ \E r \in Record : Changes(c, r)
  \/ Save(c)
  \/ Release(c)
  \/ Deliver(c)

LEMMA OpIsOp ==
  ASSUME NEW k \in Keys
  PROVE  /\ \A p \in Policies : [type |-> "create", key |-> k, policy |-> p] \in Op
         /\ \A ch \in ChannelId, d \in Deposits :
              [type |-> "bind", key |-> k, channelId |-> ch, deposit |-> d] \in Op
         /\ \A ch \in ChannelId, u \in UnitCounts :
              [type |-> "sign", key |-> k, channelId |-> ch, units |-> u] \in Op
         /\ [type |-> "revoke", key |-> k] \in Op
BY DEF Op

LEMMA CallIsAsk ==
  ASSUME NEW c \in Callers, NEW k \in Keys,
         \/ \E p \in Policies : CallCreate(c, k, p)
         \/ \E ch \in ChannelId, d \in Deposits : CallBind(c, k, ch, d)
         \/ \E ch \in ChannelId, u \in UnitCounts : CallSign(c, k, ch, u)
         \/ CallRevoke(c, k)
  PROVE  \E o \in Op : Asks(c, o)
<1>1. ASSUME NEW p \in Policies, CallCreate(c, k, p)
      PROVE  Asks(c, [type |-> "create", key |-> k, policy |-> p])
  BY <1>1 DEF CallCreate, Asks
<1>2. ASSUME NEW o, Call(c, o)
      PROVE  Asks(c, o)
  BY <1>2 DEF Call, Asks
<1> QED
  BY <1>1, <1>2, OpIsOp DEF CallBind, CallSign, CallRevoke

LEMMA ChangeIsChange ==
  ASSUME TypeOK, Fresh, NEW c \in Callers,
         Create(c) \/ BindChannel(c) \/ SignVoucher(c) \/ Revoke(c)
  PROVE  \E r \in Record : Changes(c, r)
<1> DEFINE o == op[c]
           q == stored[op[c].key]
<1>1. o \in Op /\ o # None
  BY NoneAssumption DEF TypeOK, Create, BindChannel, SignVoucher, Revoke
<1>2. o.key \in Keys /\ (q # None => q \in Record)
  BY <1>1, OpFields DEF TypeOK, Stores
<1>3. CASE Create(c)
  <2>1. NewRecord(o.policy) \in Record
    BY <1>1, <1>3, OpFields, NewRecordIsRecord DEF Create
  <2>2. q = None
    BY <1>1, <1>3 DEF Create, Change, Fresh, Creating
  <2>3. Changes(c, NewRecord(o.policy))
    BY <1>1, <1>3, <2>2 DEF Create, Change, Changes, Creates
  <2> QED
    BY <2>1, <2>3
<1>4. CASE BindChannel(c)
  <2>1. Bound(q, o) \in Record
    BY <1>1, <1>2, <1>4, BoundIsRecord DEF BindChannel
  <2>2. Changes(c, Bound(q, o))
    BY <1>1, <1>4 DEF BindChannel, MayBind, Change, Changes, Binds
  <2> QED
    BY <2>1, <2>2
<1>5. CASE SignVoucher(c)
  <2>1. Signed(q, o) \in Record /\ Delta(q, o) \in Nat
    BY <1>1, <1>2, <1>5, SignedIsRecord, DeltaIsNat DEF SignVoucher
  <2>2. VoucherFor(q, o) \in Voucher
    BY <1>1, <1>2, <1>5, VoucherForIsVoucher DEF SignVoucher, MaySign
  <2>3. Delta(q, o) > 0
    BY <1>2, <1>5, <2>1, RecordFields DEF SignVoucher, MaySign
  <2>4. Signs(o, q, Signed(q, o), VoucherFor(q, o))
    BY <1>5, <2>3 DEF SignVoucher, MaySign, Signs
  <2>5. Changes(c, Signed(q, o))
    BY <1>1, <1>5, <2>2, <2>4 DEF SignVoucher, Change, Changes
  <2> QED
    BY <2>1, <2>5
<1>6. CASE Revoke(c)
  <2>1. [q EXCEPT !.status = "revoked"] \in Record
    BY <1>2, <1>6 DEF Revoke, Record
  <2>2. Changes(c, [q EXCEPT !.status = "revoked"])
    BY <1>1, <1>6 DEF Revoke, Change, Changes, Revokes
  <2> QED
    BY <2>1, <2>2
<1> QED
  BY <1>3, <1>4, <1>5, <1>6

\* Every step of the manager is a step of one call, the end of some calls, a
\* tick of the clock or a stutter.
LEMMA NextCases ==
  ASSUME TypeOK, Fresh, [Next]_vars
  PROVE  \/ \E c \in Callers : Step(c)
         \/ \E S \in SUBSET Callers : Abandon(S)
         \/ UNCHANGED <<stored, pc, op, buffer, voucher, keyLock, allLock, delivered>>
            /\ now' \in {now, now + 1}
<1>1. ASSUME NEW c \in Callers, NEW k \in Keys,
             \/ \E p \in Policies : CallCreate(c, k, p)
             \/ \E ch \in ChannelId, d \in Deposits : CallBind(c, k, ch, d)
             \/ \E ch \in ChannelId, u \in UnitCounts : CallSign(c, k, ch, u)
             \/ CallRevoke(c, k)
      PROVE  Step(c)
  BY <1>1, CallIsAsk DEF Step
<1>2. ASSUME NEW c \in Callers, LockKey(c) \/ LockAll(c) \/ Progress(c)
      PROVE  Step(c) \/ Abandon({c})
  <2>1. CASE Create(c) \/ BindChannel(c) \/ SignVoucher(c) \/ Revoke(c)
    BY <2>1, ChangeIsChange DEF Step
  <2>2. CASE Refuse(c) \/ LoadFails(c) \/ SaveFails(c)
    BY <2>2 DEF Refuse, LoadFails, SaveFails
  <2>3. CASE LockKey(c) \/ LockAll(c) \/ Save(c) \/ Release(c) \/ Deliver(c)
    BY <2>3 DEF Step
  <2> QED
    BY <1>2, <2>1, <2>2, <2>3 DEF Progress
<1>3. ASSUME NEW t \in Tabs, CloseTab(t)
      PROVE  \E S \in SUBSET Callers : Abandon(S)
  BY <1>3 DEF CloseTab
<1>4. CASE Tick
  BY <1>4 DEF Tick
<1>5. CASE UNCHANGED vars
  BY <1>5 DEF vars
<1>6. CASE Next
  BY <1>6, <1>1, <1>2, <1>3, <1>4 DEF Next
<1> QED
  BY <1>5, <1>6

-----------------------------------------------------------------------------
(* Each part of the invariant is preserved. *)

\* What one step of a call, the end of calls and the clock do, restated with
\* no definition left to expand but the conjunct's own.
LEMMA TypeStep ==
  ASSUME IInv, [Next]_vars
  PROVE  TypeOK'
<1> USE DEF IInv
<1>1. ASSUME NEW c \in Callers, NEW o \in Op, Asks(c, o)
      PROVE  TypeOK'
  BY <1>1 DEF TypeOK, Asks, Steps
<1>2. ASSUME NEW c \in Callers, LockKey(c)
      PROVE  TypeOK'
  BY <1>2 DEF TypeOK, LockKey, Steps
<1>3. ASSUME NEW c \in Callers, LockAll(c)
      PROVE  TypeOK'
  BY <1>3 DEF TypeOK, LockAll, Steps
<1>4. ASSUME NEW c \in Callers, NEW r \in Record, Changes(c, r)
      PROVE  TypeOK'
  <2>1. [stored EXCEPT ![op[c].key] = r] \in Stores
    BY DEF TypeOK, Stores
  <2>2. voucher' \in [Callers -> Voucher \cup {None}]
    BY <1>4 DEF TypeOK, Changes
  <2> QED
    BY <1>4, <2>1, <2>2 DEF TypeOK, Changes, Steps
<1>5. ASSUME NEW c \in Callers, Save(c)
      PROVE  TypeOK'
  <2>1. buffer[c] \in Stores
    BY <1>5 DEF Save, Pending
  <2> QED
    BY <1>5, <2>1 DEF TypeOK, Save, Steps
<1>6. ASSUME NEW c \in Callers, Release(c)
      PROVE  TypeOK'
  BY <1>6 DEF TypeOK, Release, ReleaseLocks, Steps
<1>7. ASSUME NEW c \in Callers, Deliver(c)
      PROVE  TypeOK'
  <2>1. delivered' \in Seq(Voucher)
    BY <1>7 DEF TypeOK, Deliver
  <2> QED
    BY <1>7, <2>1 DEF TypeOK, Deliver, Steps
<1>8. ASSUME NEW S \in SUBSET Callers, Abandon(S)
      PROVE  TypeOK'
  BY <1>8 DEF TypeOK, Abandon, ReleaseLocks, Steps
<1>9. ASSUME UNCHANGED <<stored, pc, op, buffer, voucher, keyLock, allLock, delivered>>,
             now' \in {now, now + 1}
      PROVE  TypeOK'
  BY <1>9 DEF TypeOK
<1> QED
  BY <1>1, <1>2, <1>3, <1>4, <1>5, <1>6, <1>7, <1>8, <1>9, NextCases DEF Step

LEMMA ControlStep ==
  ASSUME IInv, [Next]_vars
  PROVE  Control'
<1> USE NoneAssumption DEF IInv, Holds
<1>1. ASSUME NEW c \in Callers, NEW o \in Op, Asks(c, o)
      PROVE  Control'
  BY <1>1 DEF TypeOK, Control, Asks
<1>2. ASSUME NEW c \in Callers, LockKey(c)
      PROVE  Control'
  BY <1>2 DEF TypeOK, Control, LockKey
<1>3. ASSUME NEW c \in Callers, LockAll(c)
      PROVE  Control'
  BY <1>3 DEF TypeOK, Control, LockAll
<1>4. ASSUME NEW c \in Callers, NEW r \in Record, Changes(c, r)
      PROVE  Control'
  BY <1>4 DEF TypeOK, Control, Changes, Signs
<1>5. ASSUME NEW c \in Callers, Save(c)
      PROVE  Control'
  BY <1>5 DEF TypeOK, Control, Save
<1>6. ASSUME NEW c \in Callers, Release(c)
      PROVE  Control'
  BY <1>6 DEF TypeOK, Control, Release, ReleaseLocks
<1>7. ASSUME NEW c \in Callers, Deliver(c)
      PROVE  Control'
  BY <1>7 DEF TypeOK, Control, Deliver
<1>8. ASSUME NEW S \in SUBSET Callers, Abandon(S)
      PROVE  Control'
  BY <1>8 DEF TypeOK, Control, Abandon, ReleaseLocks
<1>9. ASSUME UNCHANGED <<stored, pc, op, buffer, voucher, keyLock, allLock, delivered>>
      PROVE  Control'
  BY <1>9 DEF Control
<1> QED
  BY <1>1, <1>2, <1>3, <1>4, <1>5, <1>6, <1>7, <1>8, <1>9, NextCases DEF Step

LEMMA FreshStep ==
  ASSUME IInv, [Next]_vars
  PROVE  Fresh'
<1> USE NoneAssumption DEF IInv
<1>1. ASSUME NEW c \in Callers, NEW o \in Op, Asks(c, o)
      PROVE  Fresh'
  <2>1. CASE o.type = "create"
    <3>1. o.policy.maxCumulative \in 1 .. U64Max
      BY <1>1, <2>1 DEF Asks, ValidPolicy
    <3> QED
      BY <1>1, <2>1, <3>1 DEF TypeOK, Fresh, Creating, Asks
  <2>2. CASE o.type # "create"
    BY <1>1, <2>2 DEF TypeOK, Fresh, Creating, Asks
  <2> QED
    BY <2>1, <2>2
<1>2. ASSUME NEW c \in Callers, LockKey(c)
      PROVE  Fresh'
  BY <1>2 DEF TypeOK, Control, Fresh, Creating, LockKey
<1>3. ASSUME NEW c \in Callers, LockAll(c)
      PROVE  Fresh'
  BY <1>3 DEF TypeOK, Fresh, Creating, LockAll
<1>4. ASSUME NEW c \in Callers, NEW r \in Record, Changes(c, r)
      PROVE  Fresh'
  BY <1>4 DEF TypeOK, Fresh, Creating, Changes
<1>5. ASSUME NEW c \in Callers, Save(c)
      PROVE  Fresh'
  <2> DEFINE k == op[c].key
  <2>1. op[c] # None /\ op[c] \in Op /\ k \in Keys
    BY <1>5, OpFields DEF TypeOK, Control, Save
  <2>2. \A j \in Keys : j # k => stored'[j] = stored[j]
    BY <1>5, <2>1 DEF TypeOK, Pending, Save, Stores
  <2>3. stored[k] # None \/ Creating(c)
    BY <1>5, <2>1 DEF Pending, Save, Creates, Binds, Signs, Revokes, Creating
  <2>4. \A d \in Callers : Creating(d)' => Creating(d) /\ d # c
    BY <1>5 DEF TypeOK, Creating, Save
  <2>5. \A d \in Callers : Creating(d)' => op[d].key # k /\ op[d].key \in Keys
    BY <2>3, <2>4, OpFields DEF TypeOK, Fresh, Creating
  <2> QED
    BY <1>5, <2>2, <2>4, <2>5 DEF Fresh, Save
<1>6. ASSUME NEW c \in Callers, Release(c)
      PROVE  Fresh'
  BY <1>6 DEF TypeOK, Fresh, Creating, Release
<1>7. ASSUME NEW c \in Callers, Deliver(c)
      PROVE  Fresh'
  BY <1>7 DEF TypeOK, Fresh, Creating, Deliver
<1>8. ASSUME NEW S \in SUBSET Callers, Abandon(S)
      PROVE  Fresh'
  BY <1>8 DEF TypeOK, Fresh, Creating, Abandon
<1>9. ASSUME UNCHANGED <<stored, pc, op, buffer, voucher, keyLock, allLock, delivered>>
      PROVE  Fresh'
  BY <1>9 DEF Fresh, Creating
<1> QED
  BY <1>1, <1>2, <1>3, <1>4, <1>5, <1>6, <1>7, <1>8, <1>9, NextCases DEF Step

\* What an operation makes of a good record is a good record further along.
LEMMA ChangeAdvances ==
  ASSUME NEW o \in Op, NEW q \in Record \cup {None}, NEW r \in Record, NEW v,
         q # None => GoodRecord(o.key, q),
         o.type = "create" => o.policy.maxCumulative \in 1 .. U64Max,
         Creates(o, q, r) \/ Binds(o, q, r) \/ Signs(o, q, r, v) \/ Revokes(o, q, r)
  PROVE  GoodRecord(o.key, r) /\ (q # None => Advances(q, r))
<1> USE NoneAssumption
<1>1. CASE Creates(o, q, r)
  BY <1>1 DEF Creates, NewRecord, GoodRecord
<1>2. CASE Binds(o, q, r)
  <2>1. /\ q \in Record /\ q.channel = None
        /\ q.lastCumulative = 0
        /\ q.policy.maxCumulative \in 1 .. U64Max
        /\ o.deposit \in 1 .. U64Max
        /\ o.channelId.signer = o.key
        /\ r = Bound(q, o)
    BY <1>2 DEF Binds, GoodRecord
  <2>2. /\ r.policy = q.policy /\ r.status = q.status
        /\ r.lastCumulative = q.lastCumulative
        /\ r.channel = [channelId |-> o.channelId, deposit |-> o.deposit,
                        maxCumulative |-> IF q.policy.maxCumulative < o.deposit
                                          THEN q.policy.maxCumulative ELSE o.deposit]
    BY <2>1 DEF Bound, Record
  <2>3. GoodRecord(o.key, r)
    BY <2>1, <2>2, ConstantsAssumption DEF GoodRecord
  <2> QED
    BY <2>1, <2>2, <2>3, RecordFields DEF Advances
<1>3. CASE Signs(o, q, r, v)
  <2>1. /\ r.policy = q.policy /\ r.status = q.status /\ r.channel = q.channel
        /\ r.lastCumulative = q.lastCumulative + Delta(q, o)
    BY <1>3 DEF Signs, Signed, Record
  <2>2. Delta(q, o) \in Nat /\ q.lastCumulative \in Nat
    BY <1>3, DeltaIsNat, RecordFields DEF Signs
  <2> QED
    BY <1>3, <2>1, <2>2 DEF Signs, GoodRecord, Advances
<1>4. CASE Revokes(o, q, r)
  <2>1. /\ r.policy = q.policy /\ r.status = "revoked" /\ r.channel = q.channel
        /\ r.lastCumulative = q.lastCumulative
    BY <1>4 DEF Revokes, Record
  <2> QED
    BY <1>4, <2>1, RecordFields DEF Revokes, GoodRecord, Advances
<1> QED
  BY <1>1, <1>2, <1>3, <1>4

\* A save replaces one record, by a good one further along.
LEMMA SaveEffect ==
  ASSUME IInv, NEW c \in Callers, Save(c)
  PROVE  /\ op[c] \in Op /\ op[c].key \in Keys
         /\ \A j \in Keys : j # op[c].key => stored'[j] = stored[j]
         /\ stored'[op[c].key] = buffer[c][op[c].key]
         /\ stored'[op[c].key] \in Record
         /\ GoodRecord(op[c].key, stored'[op[c].key])
         /\ stored[op[c].key] # None =>
              Advances(stored[op[c].key], stored'[op[c].key])
<1> USE NoneAssumption DEF IInv
<1> DEFINE o == op[c]
           k == op[c].key
           q == stored[k]
           r == buffer[c][k]
<1>1. o \in Op /\ o # None /\ k \in Keys
  BY OpFields DEF TypeOK, Control, Save
<1>2. stored' = [stored EXCEPT ![k] = r] /\ r \in Record \cup {None}
  BY <1>1 DEF Pending, Save, Stores
<1>3. q \in Record \cup {None} /\ (q # None => GoodRecord(k, q))
  BY <1>1 DEF TypeOK, Stores, Records
<1>4. Creates(o, q, r) \/ Binds(o, q, r) \/ Signs(o, q, r, voucher[c]) \/ Revokes(o, q, r)
  BY DEF Pending, Save
<1>5. o.type = "create" => o.policy.maxCumulative \in 1 .. U64Max
  BY <1>1 DEF Fresh, Creating, Save
<1>6. r \in Record
  <2>1. CASE Creates(o, q, r)
    BY <1>1, <2>1, OpFields, NewRecordIsRecord DEF Creates
  <2>2. CASE Binds(o, q, r)
    BY <1>1, <1>3, <2>2, BoundIsRecord DEF Binds
  <2>3. CASE Signs(o, q, r, voucher[c])
    BY <1>1, <1>3, <2>3, SignedIsRecord DEF Signs
  <2>4. CASE Revokes(o, q, r)
    BY <1>3, <2>4 DEF Revokes, Record
  <2> QED
    BY <1>4, <2>1, <2>2, <2>3, <2>4
<1>7. GoodRecord(k, r) /\ (q # None => Advances(q, r))
  <2> HIDE DEF IInv, o, k, q, r
  <2> QED
    BY <1>1, <1>3, <1>4, <1>5, <1>6, ChangeAdvances DEF k, o
<1>8. stored'[k] = r /\ \A j \in Keys : j # k => stored'[j] = stored[j]
  BY <1>1, <1>2 DEF TypeOK, Stores
<1> QED
  BY <1>1, <1>6, <1>7, <1>8

LEMMA RecordsStep ==
  ASSUME IInv, [Next]_vars
  PROVE  /\ Records'
         /\ \A k \in Keys : stored[k] # None => Advances(stored[k], stored'[k])
<1>1. ASSUME UNCHANGED stored
      PROVE  /\ Records'
             /\ \A k \in Keys : stored[k] # None => Advances(stored[k], stored'[k])
  BY <1>1, RecordFields DEF IInv, TypeOK, Stores, Records, GoodRecord, Advances
<1>2. ASSUME NEW c \in Callers, Save(c)
      PROVE  /\ Records'
             /\ \A k \in Keys : stored[k] # None => Advances(stored[k], stored'[k])
  <2>1. ASSUME NEW k \in Keys
        PROVE  /\ stored'[k] # None => GoodRecord(k, stored'[k])
               /\ stored[k] # None => Advances(stored[k], stored'[k])
    <3>1. CASE k = op[c].key
      BY <1>2, <3>1, SaveEffect
    <3>2. CASE k # op[c].key
      <4>1. stored'[k] = stored[k]
        BY <1>2, <3>2, SaveEffect
      <4> QED
        BY <4>1, RecordFields DEF IInv, TypeOK, Stores, Records, Advances
    <3> QED
      BY <3>1, <3>2
  <2> QED
    BY <2>1 DEF Records, GoodRecord
<1>3. UNCHANGED stored \/ \E c \in Callers : Save(c)
  BY NextCases DEF IInv, Step, Asks, LockKey, LockAll, Changes, Release, Deliver, Abandon
<1> QED
  BY <1>1, <1>2, <1>3

LEMMA PendingStep ==
  ASSUME IInv, [Next]_vars
  PROVE  Pending'
<1> USE NoneAssumption DEF IInv, Holds
<1>1. ASSUME NEW c \in Callers, NEW o \in Op, Asks(c, o)
      PROVE  Pending'
  BY <1>1 DEF TypeOK, Pending, Asks
<1>2. ASSUME NEW c \in Callers, LockKey(c) \/ LockAll(c)
      PROVE  Pending'
  BY <1>2 DEF TypeOK, Pending, LockKey, LockAll
<1>3. ASSUME NEW c \in Callers, NEW r \in Record, Changes(c, r)
      PROVE  Pending'
  <2> DEFINE k == op[c].key
  <2>1. op[c] \in Op /\ k \in Keys
    BY <1>3, OpFields DEF TypeOK, Changes
  <2>2. \A d \in Callers : pc'[d] = "save" => d = c
    BY <1>3 DEF TypeOK, Control, Changes
  <2>3. /\ buffer'[c] = [stored EXCEPT ![k] = r]
        /\ buffer'[c] \in Stores
        /\ buffer'[c][k] = r
    BY <1>3, <2>1 DEF TypeOK, Changes, Stores
  <2>4. \/ Creates(op[c], stored[k], r)
        \/ Binds(op[c], stored[k], r)
        \/ Signs(op[c], stored[k], r, voucher'[c])
        \/ Revokes(op[c], stored[k], r)
    BY <1>3 DEF TypeOK, Changes
  <2>5. op' = op /\ stored' = stored
    BY <1>3 DEF Changes
  <2> QED
    BY <2>2, <2>3, <2>4, <2>5 DEF Pending, Creates, Binds, Signs, Revokes
<1>4. ASSUME NEW c \in Callers, Save(c)
      PROVE  Pending'
  BY <1>4 DEF TypeOK, Control, Pending, Save
<1>5. ASSUME NEW c \in Callers, Release(c) \/ Deliver(c)
      PROVE  Pending'
  BY <1>5 DEF TypeOK, Control, Pending, Release, Deliver
<1>6. ASSUME NEW S \in SUBSET Callers, Abandon(S)
      PROVE  Pending'
  BY <1>6 DEF TypeOK, Pending, Abandon
<1>7. ASSUME UNCHANGED <<stored, pc, op, buffer, voucher, keyLock, allLock, delivered>>
      PROVE  Pending'
  BY <1>7 DEF Pending
<1> QED
  BY <1>1, <1>2, <1>3, <1>4, <1>5, <1>6, <1>7, NextCases DEF Step

LEMMA DeliveredAreVouchers ==
  ASSUME TypeOK
  PROVE  \A i \in DOMAIN delivered : delivered[i] \in Voucher /\ delivered[i].key \in Keys
<1>1. \A i \in DOMAIN delivered : delivered[i] \in Voucher
  BY DEF TypeOK
<1> QED
  BY <1>1 DEF Voucher

\* A voucher once covered stays covered.
LEMMA CoveredStays ==
  ASSUME IInv, [Next]_vars, NEW v \in Voucher, Covered(v)
  PROVE  CoveredBy(stored', v)
<1>1. v.key \in Keys /\ v.cumulative \in Nat
  BY DEF Voucher
<1>2. stored[v.key] \in Record /\ stored'[v.key] \in Record
  BY <1>1, RecordsStep, TypeStep DEF IInv, TypeOK, Stores, Covered, CoveredBy, Advances
<1>3. Advances(stored[v.key], stored'[v.key])
  BY <1>1, RecordsStep DEF Covered, CoveredBy
<1> QED
  BY <1>1, <1>2, <1>3, RecordFields DEF Covered, CoveredBy, Advances

\* The voucher of a call whose write takes effect pays for what lies between
\* the old and the new watermark of its key.
LEMMA SaveCovers ==
  ASSUME IInv, NEW c \in Callers, Save(c), voucher[c] # None
  PROVE  /\ voucher[c] \in Voucher
         /\ voucher[c].key = op[c].key
         /\ stored[op[c].key] # None
         /\ From(voucher[c]) = stored[op[c].key].lastCumulative
         /\ CoveredBy(stored', voucher[c])
<1> USE NoneAssumption DEF IInv
<1> DEFINE o == op[c]
           q == stored[op[c].key]
           r == buffer[c][op[c].key]
<1>1. voucher[c] \in Voucher /\ o # None /\ o.type = "sign" /\ o \in Op /\ o.key \in Keys
  BY OpFields DEF TypeOK, Control
<1>2. Signs(o, q, r, voucher[c])
  BY <1>1 DEF Pending, Save, Creates, Binds, Revokes
<1>3. q \in Record /\ Delta(q, o) \in Nat /\ q.lastCumulative \in Nat
  BY <1>1, <1>2, DeltaIsNat, RecordFields DEF TypeOK, Stores, Signs
<1>4. /\ voucher[c].key = o.key
      /\ voucher[c].channelId = q.channel.channelId
      /\ voucher[c].cumulative = q.lastCumulative + Delta(q, o)
      /\ voucher[c].delta = Delta(q, o)
  BY <1>2 DEF Signs, VoucherFor
<1>5. r.channel = q.channel /\ r.lastCumulative = q.lastCumulative + Delta(q, o)
  BY <1>2, <1>3 DEF Signs, Signed, Record
<1>6. stored'[o.key] = r /\ r # None /\ voucher' = voucher
  BY SaveEffect DEF Save
<1>7. From(voucher[c]) = q.lastCumulative
  BY <1>3, <1>4 DEF From
<1>8. voucher[c].key = o.key /\ q # None /\ q.channel # None /\ Delta(q, o) > 0
  BY <1>2, <1>4 DEF Signs
<1>9. CoveredBy(stored', voucher[c])
  BY <1>3, <1>4, <1>5, <1>6, <1>8 DEF CoveredBy
<1> QED
  BY <1>1, <1>7, <1>8, <1>9

\* A step leaves the vouchers in hand where they are, gives one to the caller
\* whose write takes effect, or moves one to the delivered ones.
StillInHand(d) == InHand(d)' => InHand(d) /\ voucher'[d] = voucher[d]

LEMMA HandCases ==
  ASSUME IInv, [Next]_vars
  PROVE  \/ delivered' = delivered /\ \A d \in Callers : StillInHand(d)
         \/ \E c \in Callers :
              /\ Save(c)
              /\ delivered' = delivered /\ voucher' = voucher
              /\ \A d \in Callers : d # c => StillInHand(d)
         \/ \E c \in Callers :
              /\ InHand(c) /\ ~InHand(c)'
              /\ delivered' = Append(delivered, voucher[c])
              /\ \A d \in Callers : d # c => StillInHand(d)
<1> USE NoneAssumption DEF IInv, StillInHand, InHand
<1>1. ASSUME NEW c \in Callers,
             \/ \E o \in Op : Asks(c, o)
             \/ LockKey(c) \/ LockAll(c)
             \/ \E r \in Record : Changes(c, r)
      PROVE  delivered' = delivered /\ \A d \in Callers : StillInHand(d)
  BY <1>1 DEF TypeOK, Asks, LockKey, LockAll, Changes
<1>2. ASSUME NEW c \in Callers, Save(c)
      PROVE  /\ delivered' = delivered /\ voucher' = voucher
             /\ \A d \in Callers : d # c => StillInHand(d)
  BY <1>2 DEF TypeOK, Save
<1>3. ASSUME NEW c \in Callers, Release(c)
      PROVE  delivered' = delivered /\ \A d \in Callers : StillInHand(d)
  BY <1>3 DEF TypeOK, Release
<1>4. ASSUME NEW c \in Callers, Deliver(c)
      PROVE  \/ delivered' = delivered /\ \A d \in Callers : StillInHand(d)
             \/ /\ InHand(c) /\ ~InHand(c)'
                /\ delivered' = Append(delivered, voucher[c])
                /\ \A d \in Callers : d # c => StillInHand(d)
  BY <1>4 DEF TypeOK, Deliver
<1>5. ASSUME NEW S \in SUBSET Callers, Abandon(S)
      PROVE  delivered' = delivered /\ \A d \in Callers : StillInHand(d)
  BY <1>5 DEF TypeOK, Abandon
<1>6. ASSUME UNCHANGED <<stored, pc, op, buffer, voucher, keyLock, allLock, delivered>>
      PROVE  delivered' = delivered /\ \A d \in Callers : StillInHand(d)
  BY <1>6
<1> HIDE DEF StillInHand, InHand
<1> QED
  BY <1>1, <1>2, <1>3, <1>4, <1>5, <1>6, NextCases DEF Step

LEMMA AllCoveredStep ==
  ASSUME IInv, [Next]_vars
  PROVE  AllCovered'
<1> USE NoneAssumption DEF IInv
<1>1. \A i \in DOMAIN delivered : delivered[i] \in Voucher /\ CoveredBy(stored', delivered[i])
  BY CoveredStays, DeliveredAreVouchers DEF AllCovered
<1>2. \A d \in Callers : InHand(d) => voucher[d] \in Voucher /\ CoveredBy(stored', voucher[d])
  BY CoveredStays DEF TypeOK, AllCovered, InHand
<1>3. CASE delivered' = delivered /\ \A d \in Callers : StillInHand(d)
  BY <1>1, <1>2, <1>3 DEF AllCovered, StillInHand, Covered
<1>4. ASSUME NEW c \in Callers, Save(c), delivered' = delivered, voucher' = voucher,
             \A d \in Callers : d # c => StillInHand(d)
      PROVE  AllCovered'
  <2>1. InHand(c)' => CoveredBy(stored', voucher[c])
    BY <1>4, SaveCovers DEF InHand
  <2> QED
    BY <1>1, <1>2, <1>4, <2>1 DEF AllCovered, StillInHand, Covered
<1>5. ASSUME NEW c \in Callers, InHand(c), ~InHand(c)',
             delivered' = Append(delivered, voucher[c]),
             \A d \in Callers : d # c => StillInHand(d)
      PROVE  AllCovered'
  <2>1. voucher[c] \in Voucher /\ CoveredBy(stored', voucher[c])
    BY <1>2, <1>5
  <2>2. \A i \in DOMAIN delivered' :
          delivered'[i] = voucher[c] \/ (i \in DOMAIN delivered /\ delivered'[i] = delivered[i])
    BY <1>5, <2>1 DEF TypeOK
  <2>3. \A i \in DOMAIN delivered' : CoveredBy(stored', delivered'[i])
    BY <1>1, <2>1, <2>2 DEF Covered
  <2>4. \A d \in Callers : InHand(d)' => CoveredBy(stored', voucher'[d])
    BY <1>2, <1>5 DEF StillInHand, Covered
  <2> QED
    BY <2>3, <2>4 DEF AllCovered, Covered
<1> QED
  BY <1>3, <1>4, <1>5, HandCases

LEMMA NoDoubleSpendStep ==
  ASSUME IInv, [Next]_vars
  PROVE  NoDoubleSpend'
<1> USE NoneAssumption DEF IInv
<1>1. CASE delivered' = delivered /\ \A d \in Callers : StillInHand(d)
  BY <1>1 DEF NoDoubleSpend, StillInHand
<1>2. ASSUME NEW c \in Callers, Save(c), delivered' = delivered, voucher' = voucher,
             \A d \in Callers : d # c => StillInHand(d)
      PROVE  NoDoubleSpend'
  <2>1. CASE ~InHand(c)'
    BY <1>2, <2>1 DEF NoDoubleSpend, StillInHand
  <2>2. CASE InHand(c)'
    <3>1. voucher[c] # None
      BY <1>2, <2>2 DEF InHand
    <3>2. /\ voucher[c] \in Voucher /\ voucher[c].key \in Keys
          /\ stored[voucher[c].key] \in Record
          /\ From(voucher[c]) = stored[voucher[c].key].lastCumulative
      BY <1>2, <3>1, SaveCovers, OpFields DEF Voucher, TypeOK, Stores
    <3>3. ASSUME NEW w \in Voucher, Covered(w)
          PROVE  ~Overlap(w, voucher[c]) /\ ~Overlap(voucher[c], w)
      BY <3>2, <3>3, RecordFields DEF Overlap, Covered, CoveredBy, Voucher
    <3>4. \A i \in DOMAIN delivered : ~Overlap(delivered[i], voucher[c])
      BY <3>3, DeliveredAreVouchers DEF AllCovered
    <3>5. \A d \in Callers : InHand(d) =>
            ~Overlap(voucher[d], voucher[c]) /\ ~Overlap(voucher[c], voucher[d])
      BY <3>3 DEF TypeOK, AllCovered, InHand
    <3>6. \A d \in Callers : InHand(d)' /\ d # c => InHand(d)
      BY <1>2 DEF StillInHand
    <3> QED
      BY <1>2, <3>4, <3>5, <3>6 DEF NoDoubleSpend
  <2> QED
    BY <2>1, <2>2
<1>3. ASSUME NEW c \in Callers, InHand(c), ~InHand(c)',
             delivered' = Append(delivered, voucher[c]),
             \A d \in Callers : d # c => StillInHand(d)
      PROVE  NoDoubleSpend'
  <2> DEFINE n == Len(delivered) + 1
  <2>1. voucher[c] \in Voucher
    BY <1>3 DEF TypeOK, InHand
  <2>2. /\ DOMAIN delivered' = DOMAIN delivered \cup {n} /\ n \notin DOMAIN delivered
        /\ delivered'[n] = voucher[c]
        /\ \A i \in DOMAIN delivered : delivered'[i] = delivered[i]
    BY <1>3, <2>1 DEF TypeOK
  <2>3. \A d \in Callers : InHand(d)' => d # c /\ InHand(d) /\ voucher'[d] = voucher[d]
    BY <1>3 DEF StillInHand
  <2>4. \A i \in DOMAIN delivered :
          ~Overlap(delivered[i], voucher[c]) /\ ~Overlap(voucher[c], delivered[i])
    BY <1>3 DEF NoDoubleSpend, Overlap
  <2>5. \A d \in Callers : d # c /\ InHand(d) => ~Overlap(voucher[c], voucher[d])
    BY <1>3 DEF NoDoubleSpend
  <2> HIDE DEF n
  <2>6. \A i, j \in DOMAIN delivered' : i # j => ~Overlap(delivered'[i], delivered'[j])
    BY <2>2, <2>4 DEF NoDoubleSpend
  <2>7. \A i \in DOMAIN delivered', d \in Callers :
          InHand(d)' => ~Overlap(delivered'[i], voucher'[d])
    BY <2>2, <2>3, <2>5 DEF NoDoubleSpend
  <2>8. \A d, e \in Callers :
          d # e /\ InHand(d)' /\ InHand(e)' => ~Overlap(voucher'[d], voucher'[e])
    BY <2>3 DEF NoDoubleSpend
  <2> QED
    BY <2>6, <2>7, <2>8 DEF NoDoubleSpend
<1> QED
  BY <1>1, <1>2, <1>3, HandCases

-----------------------------------------------------------------------------
(* The theorems *)

LEMMA InitIInv == Init => IInv
BY NoneAssumption DEF Init, IInv, TypeOK, Steps, Stores, Control, Holds, Fresh,
  Creating, Records, Pending, AllCovered, NoDoubleSpend, InHand

LEMMA NextIInv == IInv /\ [Next]_vars => IInv'
BY TypeStep, ControlStep, FreshStep, RecordsStep, PendingStep, AllCoveredStep,
   NoDoubleSpendStep DEF IInv

THEOREM Invariance == Spec => []IInv
<1> QED
  BY InitIInv, NextIInv, PTL DEF Spec

(* Every variable of the manager keeps its type. *)
THEOREM TypeCorrect == Spec => []TypeOK
<1>1. IInv => TypeOK
  BY DEF IInv
<1> QED
  BY <1>1, Invariance, PTL

(* signVoucher never lets two calls pay with the same units, whatever the
   tabs, keys, policies, crashes and failed writes. *)
THEOREM DoubleSpendImpossible == Spec => []NoDoubleSpend
<1>1. IInv => NoDoubleSpend
  BY DEF IInv
<1> QED
  BY <1>1, Invariance, PTL

(* A voucher a caller received is persisted, within the deposit of its channel
   and the policy of its key. *)
THEOREM DeliveredPersisted == Spec => []DeliveredIsPersisted
<1>1. IInv => DeliveredIsPersisted
  <2> SUFFICES ASSUME IInv, NEW i \in DOMAIN delivered
               PROVE  LET v == delivered[i]
                          rec == stored[v.key]
                      IN  /\ rec # None
                          /\ rec.channel # None
                          /\ rec.channel.channelId = v.channelId
                          /\ v.cumulative <= rec.lastCumulative
                          /\ rec.lastCumulative <= rec.channel.maxCumulative
                          /\ rec.channel.maxCumulative <= rec.channel.deposit
                          /\ rec.channel.maxCumulative <= rec.policy.maxCumulative
    BY DEF DeliveredIsPersisted
  <2>1. Covered(delivered[i]) /\ delivered[i].key \in Keys
    BY DeliveredAreVouchers DEF IInv, AllCovered
  <2>2. GoodRecord(delivered[i].key, stored[delivered[i].key])
    BY <2>1 DEF IInv, Records, Covered, CoveredBy
  <2> QED
    BY <2>1, <2>2 DEF Covered, CoveredBy, GoodRecord
<1> QED
  BY <1>1, Invariance, PTL

(* No write of the whole array undoes another operation's change. *)
THEOREM NoLostUpdate == Spec => RecordsOnlyAdvance
<1>1. IInv /\ [Next]_vars =>
        [\A k \in Keys : stored[k] # None => Advances(stored[k], stored'[k])]_vars
  BY RecordsStep
<1> QED
  BY <1>1, Invariance, PTL DEF Spec, RecordsOnlyAdvance

(***************************************************************************)
(* The refinement of VoucherBudget: the write that takes effect is the step *)
(* of the account, everything before it is a stutter, and a call that ends  *)
(* early loses at most a voucher.                                           *)
(***************************************************************************)
\* The refinement mapping of the INSTANCE Budget, named.
Accounts == [k \in Keys |-> AccountOf(stored[k])]
HandOf(c) == IF InHand(c) THEN Slip(voucher[c]) ELSE None
Hands == [c \in Callers |-> HandOf(c)]
Slips == [i \in DOMAIN delivered |-> Slip(delivered[i])]

LEMMA SlipIsNotNone ==
  ASSUME NEW v \in Voucher
  PROVE  Slip(v) # None
<1>1. Slip(v) \in [key: Keys, from: Int, to: Nat]
  BY DEF Slip, From, Voucher
<1> QED
  BY <1>1, NoneAssumption

LEMMA InitIsBudgetInit == Init => Budget!Init
BY DEF Init, InHand, AccountOf, Budget!Init, Budget!Closed

\* What leaves accounts, hands and slips alone is a stutter.
LEMMA Stutter ==
  ASSUME Accounts' = Accounts, Hands' = Hands, Slips' = Slips
  PROVE  UNCHANGED Budget!vars
BY DEF Budget!vars, Accounts, Hands, HandOf, Slips

LEMMA HandsSame ==
  ASSUME \A d \in Callers : HandOf(d)' = HandOf(d)
  PROVE  Hands' = Hands
BY DEF Hands

\* The account of the one record a save replaces.
LEMMA SaveAccount ==
  ASSUME IInv, NEW c \in Callers, Save(c)
  PROVE  /\ op[c].key \in Keys
         /\ Accounts' = [Accounts EXCEPT ![op[c].key] = AccountOf(stored'[op[c].key])]
         /\ Slips' = Slips
         /\ \A d \in Callers : d # c => HandOf(d)' = HandOf(d)
         /\ HandOf(c) = None
         /\ HandOf(c)' = IF voucher[c] = None THEN None ELSE Slip(voucher[c])
<1>1. /\ op[c].key \in Keys
      /\ \A j \in Keys : j # op[c].key => stored'[j] = stored[j]
  BY SaveEffect
<1>2. Accounts' = [Accounts EXCEPT ![op[c].key] = AccountOf(stored'[op[c].key])]
  BY <1>1 DEF Accounts
<1>3. Slips' = Slips
  BY DEF Save, Slips
<1>4. /\ \A d \in Callers : d # c => (InHand(d)' <=> InHand(d))
      /\ voucher' = voucher /\ ~InHand(c)
      /\ InHand(c)' <=> voucher[c] # None
  BY DEF Save, InHand, IInv, TypeOK
<1> QED
  BY <1>1, <1>2, <1>3, <1>4 DEF HandOf

LEMMA AccountOfRecord ==
  ASSUME NEW rec \in Record
  PROVE  AccountOf(rec) =
           [state |-> IF rec.status = "revoked" THEN "revoked"
                      ELSE IF rec.channel = None THEN "unbound" ELSE "open",
            budget |-> IF rec.channel = None THEN 0 ELSE rec.channel.maxCumulative,
            spent |-> rec.lastCumulative]
BY NoneAssumption DEF AccountOf

\* A change of a record is the step of its account.
LEMMA ChangeOfAccount ==
  ASSUME NEW o \in Op, NEW q \in Record \cup {None}, NEW r \in Record, NEW v,
         q # None => GoodRecord(o.key, q), GoodRecord(o.key, r)
  PROVE  LET a == AccountOf(q)
             b == AccountOf(r)
         IN  /\ Creates(o, q, r) =>
                  a.state = "absent" /\ b = [a EXCEPT !.state = "unbound"]
             /\ Binds(o, q, r) =>
                  /\ a.budget = 0 /\ a.state \in {"unbound", "revoked"}
                  /\ b.budget \in 1 .. U64Max
                  /\ b = [state |-> IF a.state = "unbound" THEN "open" ELSE a.state,
                          budget |-> b.budget, spent |-> a.spent]
             /\ Signs(o, q, r, v) =>
                  /\ a.state = "open"
                  /\ b.spent \in (a.spent + 1) .. a.budget
                  /\ b = [a EXCEPT !.spent = b.spent]
                  /\ Slip(v) = [key |-> o.key, from |-> a.spent, to |-> b.spent]
             /\ Revokes(o, q, r) =>
                  a.state # "absent" /\ b = [a EXCEPT !.state = "revoked"]
<1> USE NoneAssumption
<1>1. ASSUME Creates(o, q, r)
      PROVE  /\ AccountOf(q).state = "absent"
             /\ AccountOf(r) = [AccountOf(q) EXCEPT !.state = "unbound"]
  BY <1>1, AccountOfRecord DEF Creates, NewRecord, AccountOf
<1>2. ASSUME Binds(o, q, r)
      PROVE  /\ AccountOf(q).budget = 0 /\ AccountOf(q).state \in {"unbound", "revoked"}
             /\ AccountOf(r).budget \in 1 .. U64Max
             /\ AccountOf(r) =
                  [state |-> IF AccountOf(q).state = "unbound" THEN "open"
                             ELSE AccountOf(q).state,
                   budget |-> AccountOf(r).budget, spent |-> AccountOf(q).spent]
  <2>1. /\ q \in Record /\ q.channel = None
        /\ r.status = q.status /\ r.lastCumulative = q.lastCumulative
        /\ r.channel # None /\ r.channel.maxCumulative \in 1 .. U64Max
    <3>1. [channelId |-> o.channelId, deposit |-> o.deposit,
           maxCumulative |-> IF q.policy.maxCumulative < o.deposit
                             THEN q.policy.maxCumulative ELSE o.deposit] \in BoundChannel
      BY <1>2, OpFields, RecordFields DEF Binds, BoundChannel, Policy
    <3> QED
      BY <1>2, <3>1 DEF Binds, Bound, Record, GoodRecord
  <2>2. q.status \in {"active", "revoked"}
    BY <2>1, RecordFields
  <2> DEFINE st == IF q.status = "revoked" THEN "revoked" ELSE "unbound"
             bound == IF st = "unbound" THEN "open" ELSE st
  <2>3. AccountOf(q) = [state |-> st, budget |-> 0, spent |-> q.lastCumulative]
    BY <2>1, AccountOfRecord
  <2>4. AccountOf(r) = [state |-> bound, budget |-> r.channel.maxCumulative,
                        spent |-> q.lastCumulative]
    BY <2>1, AccountOfRecord
  <2>5. st \in {"unbound", "revoked"}
    OBVIOUS
  <2> HIDE DEF st
  <2> QED
    BY <2>1, <2>3, <2>4, <2>5
<1>3. ASSUME Signs(o, q, r, v)
      PROVE  /\ AccountOf(q).state = "open"
             /\ AccountOf(r).spent \in (AccountOf(q).spent + 1) .. AccountOf(q).budget
             /\ AccountOf(r) = [AccountOf(q) EXCEPT !.spent = AccountOf(r).spent]
             /\ Slip(v) = [key |-> o.key, from |-> AccountOf(q).spent,
                           to |-> AccountOf(r).spent]
  <2>1. /\ q \in Record /\ q.status = "active" /\ q.channel # None
        /\ r.status = q.status /\ r.channel = q.channel
        /\ r.lastCumulative = q.lastCumulative + Delta(q, o)
    BY <1>3 DEF Signs, Signed, Record
  <2>2. /\ Delta(q, o) \in Nat /\ Delta(q, o) > 0 /\ q.lastCumulative \in Nat
        /\ q.channel.maxCumulative \in Nat
        /\ q.lastCumulative + Delta(q, o) <= q.channel.maxCumulative
    BY <1>3, <2>1, DeltaIsNat, RecordFields DEF Signs, BoundChannel
  <2>3. Slip(v) = [key |-> o.key, from |-> q.lastCumulative, to |-> r.lastCumulative]
    <3>1. v = VoucherFor(q, o)
      BY <1>3 DEF Signs
    <3>2. (q.lastCumulative + Delta(q, o)) - Delta(q, o) = q.lastCumulative
      BY <2>2
    <3> QED
      BY <2>1, <3>1, <3>2 DEF VoucherFor, Slip, From
  <2> QED
    BY <2>1, <2>2, <2>3, AccountOfRecord
<1>4. ASSUME Revokes(o, q, r)
      PROVE  /\ AccountOf(q).state # "absent"
             /\ AccountOf(r) = [AccountOf(q) EXCEPT !.state = "revoked"]
  BY <1>4, AccountOfRecord DEF Revokes, Record
<1> QED
  BY <1>1, <1>2, <1>3, <1>4

-----------------------------------------------------------------------------
(* Each step of the manager is a step of the accounts, or a stutter. *)

\* The steps of the accounts, in the names of the mapping.
LEMMA ToCreate ==
  ASSUME NEW k \in Keys, Hands' = Hands, Slips' = Slips,
         Accounts[k].state = "absent",
         Accounts' = [Accounts EXCEPT ![k] = [@ EXCEPT !.state = "unbound"]]
  PROVE  Budget!Create(k)
BY DEF Budget!Create, Accounts, Hands, HandOf, Slips

LEMMA ToBind ==
  ASSUME NEW k \in Keys, NEW n \in 1 .. U64Max, Hands' = Hands, Slips' = Slips,
         Accounts[k].budget = 0, Accounts[k].state \in {"unbound", "revoked"},
         Accounts' = [Accounts EXCEPT ![k] =
                        [state |-> IF @.state = "unbound" THEN "open" ELSE @.state,
                         budget |-> n, spent |-> @.spent]]
  PROVE  Budget!Bind(k)
BY DEF Budget!Bind, Accounts, Hands, HandOf, Slips

LEMMA ToSpend ==
  ASSUME NEW c \in Callers, NEW k \in Keys, Slips' = Slips,
         Accounts[k].state = "open", Hands[c] = None,
         \E to \in (Accounts[k].spent + 1) .. Accounts[k].budget :
           /\ Accounts' = [Accounts EXCEPT ![k] = [@ EXCEPT !.spent = to]]
           /\ Hands' = [Hands EXCEPT ![c] =
                          [key |-> k, from |-> Accounts[k].spent, to |-> to]]
  PROVE  Budget!Spend(c, k)
BY DEF Budget!Spend, Accounts, Hands, HandOf, Slips

LEMMA ToRevoke ==
  ASSUME NEW k \in Keys, Hands' = Hands, Slips' = Slips,
         Accounts[k].state # "absent",
         Accounts' = [Accounts EXCEPT ![k] = [@ EXCEPT !.state = "revoked"]]
  PROVE  Budget!Revoke(k)
BY DEF Budget!Revoke, Accounts, Hands, HandOf, Slips

LEMMA ToHandOver ==
  ASSUME NEW c \in Callers, Accounts' = Accounts, Hands[c] # None,
         Slips' = Append(Slips, Hands[c]),
         Hands' = [Hands EXCEPT ![c] = None]
  PROVE  Budget!HandOver(c)
BY DEF Budget!HandOver, Accounts, Hands, HandOf, Slips

LEMMA ToLose ==
  ASSUME NEW S \in SUBSET Callers, Accounts' = Accounts, Slips' = Slips,
         Hands' = [c \in Callers |-> IF c \in S THEN None ELSE Hands[c]]
  PROVE  Budget!Lose
BY DEF Budget!Lose, Accounts, Hands, HandOf, Slips

\* The write that takes effect is the debit, the budget, the new account or
\* the closing of one.
LEMMA SaveIsBudgetStep ==
  ASSUME IInv, NEW c \in Callers, Save(c)
  PROVE  \/ \E k \in Keys : Budget!Create(k) \/ Budget!Bind(k) \/ Budget!Revoke(k)
         \/ \E k \in Keys : Budget!Spend(c, k)
<1> USE NoneAssumption
<1> DEFINE k == op[c].key
           q == stored[k]
           r == stored'[k]
           a == AccountOf(q)
           b == AccountOf(r)
<1>1. /\ op[c] \in Op /\ op[c] # None /\ k \in Keys
      /\ r = buffer[c][k] /\ r \in Record /\ GoodRecord(k, r)
  BY SaveEffect
<1>2. q \in Record \cup {None} /\ (q # None => GoodRecord(k, q))
  BY <1>1 DEF IInv, TypeOK, Stores, Records
<1>3. \/ Creates(op[c], q, r)
      \/ Binds(op[c], q, r)
      \/ Signs(op[c], q, r, voucher[c])
      \/ Revokes(op[c], q, r)
  BY <1>1 DEF IInv, Pending, Save
<1>4. /\ Accounts[k] = a
      /\ Accounts' = [Accounts EXCEPT ![k] = b]
      /\ Slips' = Slips
  BY <1>1, SaveAccount DEF Accounts
<1>5. voucher[c] = None => Hands' = Hands
  BY SaveAccount, HandsSame
<1>6. ~Signs(op[c], q, r, voucher[c]) => voucher[c] = None
  BY <1>1, <1>3 DEF IInv, Control, Creates, Binds, Revokes
<1>7. CASE Creates(op[c], q, r)
  <2>1. a.state = "absent" /\ b = [a EXCEPT !.state = "unbound"]
    BY <1>1, <1>2, <1>7, ChangeOfAccount
  <2>2. Hands' = Hands
    BY <1>5, <1>6, <1>7 DEF Creates, Signs
  <2> HIDE DEF k, q, r, a, b
  <2>3. Budget!Create(k)
    BY <1>1, <1>4, <2>1, <2>2, ToCreate
  <2> QED
    BY <1>1, <2>3
<1>8. CASE Binds(op[c], q, r)
  <2>1. /\ a.budget = 0 /\ a.state \in {"unbound", "revoked"}
        /\ b.budget \in 1 .. U64Max
        /\ b = [state |-> IF a.state = "unbound" THEN "open" ELSE a.state,
                budget |-> b.budget, spent |-> a.spent]
    BY <1>1, <1>2, <1>8, ChangeOfAccount
  <2>2. Hands' = Hands
    BY <1>5, <1>6, <1>8 DEF Binds, Signs
  <2> HIDE DEF k, q, r, a, b
  <2>3. Budget!Bind(k)
    BY <1>1, <1>4, <2>1, <2>2, ToBind
  <2> QED
    BY <1>1, <2>3
<1>9. CASE Signs(op[c], q, r, voucher[c])
  <2>1. /\ a.state = "open"
        /\ b.spent \in (a.spent + 1) .. a.budget
        /\ b = [a EXCEPT !.spent = b.spent]
        /\ Slip(voucher[c]) = [key |-> k, from |-> a.spent, to |-> b.spent]
    BY <1>1, <1>2, <1>9, ChangeOfAccount
  <2>2. voucher[c] # None
    BY <1>1, <1>2, <1>9, VoucherForIsVoucher DEF Signs
  <2>3. /\ Hands[c] = None
        /\ Hands' = [Hands EXCEPT ![c] = Slip(voucher[c])]
    BY <2>2, SaveAccount DEF Hands
  <2> HIDE DEF k, q, r, a, b
  <2>4. /\ Accounts[k].state = "open"
        /\ \E to \in (Accounts[k].spent + 1) .. Accounts[k].budget :
             /\ Accounts' = [Accounts EXCEPT ![k] = [@ EXCEPT !.spent = to]]
             /\ Hands' = [Hands EXCEPT ![c] =
                            [key |-> k, from |-> Accounts[k].spent, to |-> to]]
    BY <1>4, <2>1, <2>3
  <2>5. Budget!Spend(c, k)
    BY <1>1, <1>4, <2>3, <2>4, ToSpend
  <2> QED
    BY <1>1, <2>5
<1>10. CASE Revokes(op[c], q, r)
  <2>1. a.state # "absent" /\ b = [a EXCEPT !.state = "revoked"]
    BY <1>1, <1>2, <1>10, ChangeOfAccount
  <2>2. Hands' = Hands
    BY <1>5, <1>6, <1>10 DEF Revokes, Signs
  <2> HIDE DEF k, q, r, a, b
  <2>3. Budget!Revoke(k)
    BY <1>1, <1>4, <2>1, <2>2, ToRevoke
  <2> QED
    BY <1>1, <2>3
<1> HIDE DEF k, q, r, a, b
<1> QED
  BY <1>3, <1>7, <1>8, <1>9, <1>10

\* Asking, waiting for a lock, loading, releasing and the clock are stutters.
LEMMA QuietStep ==
  ASSUME IInv,
         \/ \E c \in Callers :
              \/ \E o \in Op : Asks(c, o)
              \/ LockKey(c) \/ LockAll(c)
              \/ \E r \in Record : Changes(c, r)
              \/ Release(c)
         \/ UNCHANGED <<stored, pc, op, buffer, voucher, keyLock, allLock, delivered>>
  PROVE  UNCHANGED Budget!vars
<1>1. UNCHANGED <<stored, delivered>>
  BY DEF Asks, LockKey, LockAll, Changes, Release
<1>2. ASSUME NEW d \in Callers
      PROVE  HandOf(d)' = HandOf(d)
  <2>1. ASSUME NEW c \in Callers, \E o \in Op : Asks(c, o)
        PROVE  (InHand(d)' <=> InHand(d)) /\ voucher' = voucher
    BY <2>1 DEF IInv, TypeOK, Asks, InHand
  <2>2. ASSUME NEW c \in Callers, LockKey(c) \/ LockAll(c)
        PROVE  (InHand(d)' <=> InHand(d)) /\ voucher' = voucher
    BY <2>2 DEF IInv, TypeOK, LockKey, LockAll, InHand
  <2>3. ASSUME NEW c \in Callers, NEW r \in Record, Changes(c, r)
        PROVE  /\ InHand(d)' <=> InHand(d)
               /\ InHand(d) => voucher'[d] = voucher[d]
    BY <2>3 DEF IInv, TypeOK, Changes, InHand
  <2>4. ASSUME NEW c \in Callers, Release(c)
        PROVE  (InHand(d)' <=> InHand(d)) /\ voucher' = voucher
    BY <2>4 DEF IInv, TypeOK, Release, InHand
  <2>5. ASSUME UNCHANGED <<stored, pc, op, buffer, voucher, keyLock, allLock, delivered>>
        PROVE  (InHand(d)' <=> InHand(d)) /\ voucher' = voucher
    BY <2>5 DEF InHand
  <2>6. /\ InHand(d)' <=> InHand(d)
        /\ InHand(d) => voucher'[d] = voucher[d]
    BY <2>1, <2>2, <2>3, <2>4, <2>5
  <2> QED
    BY <2>6 DEF HandOf
<1>3. Accounts' = Accounts /\ Slips' = Slips
  BY <1>1 DEF Accounts, Slips
<1> QED
  BY <1>2, <1>3, HandsSame, Stutter

\* The slips of the delivered vouchers, with one more.
LEMMA SlipsAppend ==
  ASSUME TypeOK, NEW v \in Voucher, delivered' = Append(delivered, v)
  PROVE  Slips' = Append(Slips, Slip(v))
<1> DEFINE n == Len(delivered)
<1>1. delivered \in Seq(Voucher) /\ n \in Nat /\ DOMAIN delivered = 1 .. n
  BY DEF TypeOK
<1>2. /\ DOMAIN delivered' = 1 .. (n + 1)
      /\ \A i \in 1 .. n : delivered'[i] = delivered[i]
      /\ delivered'[n + 1] = v
  BY <1>1
<1>3. Slips \in Seq({Slip(w) : w \in Voucher}) /\ Len(Slips) = n
  BY <1>1 DEF Slips
<1>4. Slips' = [i \in 1 .. (n + 1) |-> Slip(delivered'[i])]
  BY <1>2 DEF Slips
<1> QED
  BY <1>1, <1>2, <1>3, <1>4 DEF Slips

\* A result reaches its caller: a voucher is handed over, or nothing happens.
LEMMA DeliverIsBudgetStep ==
  ASSUME IInv, NEW c \in Callers, Deliver(c)
  PROVE  Budget!HandOver(c) \/ UNCHANGED Budget!vars
<1>1. /\ Accounts' = Accounts
      /\ \A d \in Callers : d # c => HandOf(d)' = HandOf(d)
      /\ HandOf(c)' = None
      /\ HandOf(c) = IF voucher[c] = None THEN None ELSE Slip(voucher[c])
  BY DEF IInv, TypeOK, Deliver, Accounts, HandOf, InHand
<1>2. CASE voucher[c] = None
  <2>1. Slips' = Slips
    BY <1>2 DEF Deliver, Slips
  <2> QED
    BY <1>1, <1>2, <2>1, HandsSame, Stutter
<1>3. CASE voucher[c] # None
  <2>1. voucher[c] \in Voucher /\ InHand(c)
    BY <1>3 DEF IInv, TypeOK, Deliver, InHand
  <2>2. Slips' = Append(Slips, Slip(voucher[c]))
    BY <1>3, <2>1, SlipsAppend DEF IInv, Deliver
  <2>3. Slip(voucher[c]) # None
    BY <2>1, SlipIsNotNone
  <2>4. Hands[c] = Slip(voucher[c]) /\ Hands' = [Hands EXCEPT ![c] = None]
    BY <1>1, <1>3 DEF Hands
  <2> QED
    BY <1>1, <2>2, <2>3, <2>4, ToHandOver
<1> QED
  BY <1>2, <1>3

\* A closing tab, a refusal or a failed write: the vouchers in hand are lost.
LEMMA AbandonIsLose ==
  ASSUME IInv, NEW S \in SUBSET Callers, Abandon(S)
  PROVE  Budget!Lose
<1>1. Accounts' = Accounts /\ Slips' = Slips
  BY DEF Abandon, Accounts, Slips
<1>2. \A d \in Callers : HandOf(d)' = IF d \in S THEN None ELSE HandOf(d)
  BY DEF IInv, TypeOK, Abandon, HandOf, InHand
<1>3. Hands' = [d \in Callers |-> IF d \in S THEN None ELSE Hands[d]]
  BY <1>2 DEF Hands
<1> QED
  BY <1>1, <1>3, ToLose

LEMMA NextIsBudgetNext ==
  ASSUME IInv, [Next]_vars
  PROVE  [Budget!Next]_(Budget!vars)
<1>1. ASSUME NEW c \in Callers, Step(c)
      PROVE  Budget!Next \/ UNCHANGED Budget!vars
  <2>1. CASE Save(c)
    BY <2>1, SaveIsBudgetStep DEF Budget!Next
  <2>2. CASE Deliver(c)
    BY <2>2, DeliverIsBudgetStep DEF Budget!Next
  <2>3. CASE ~Save(c) /\ ~Deliver(c)
    BY <1>1, <2>3, QuietStep DEF Step
  <2> QED
    BY <2>1, <2>2, <2>3
<1>2. ASSUME NEW S \in SUBSET Callers, Abandon(S)
      PROVE  Budget!Next
  BY <1>2, AbandonIsLose DEF Budget!Next
<1>3. ASSUME UNCHANGED <<stored, pc, op, buffer, voucher, keyLock, allLock, delivered>>
      PROVE  UNCHANGED Budget!vars
  BY <1>3, QuietStep
<1> QED
  BY <1>1, <1>2, <1>3, NextCases DEF IInv

(* The voucher key manager implements the atomic accounts of VoucherBudget,
   whatever the tabs, the interleaving of their reads and writes, and the
   writes that fail or are cut short. *)
THEOREM ImplementsTheBudget == Spec => ImplementsBudget
<1>1. Init => Budget!Init
  BY InitIsBudgetInit
<1>2. IInv /\ [Next]_vars => [Budget!Next]_(Budget!vars)
  BY NextIsBudgetNext
<1> QED
  BY <1>1, <1>2, Invariance, PTL DEF Spec, ImplementsBudget, Budget!Spec
=============================================================================
