---------------------------- MODULE VoucherKeys ----------------------------
(***************************************************************************)
(* ChannelVoucherKeyManager (core/src/session-keys/channel-voucher-keys.ts) *)
(* over one shared StorageAdapter: every key lives in ONE stored array that *)
(* each operation loads, changes and writes back whole, under the lock of   *)
(* its key and the lock of the store (withAdapterLock: a promise chain in a *)
(* runtime, a Web Lock across tabs).  A caller is one call in flight; tabs  *)
(* close at any await; a write may fail before or after it took effect.     *)
(***************************************************************************)
EXTENDS ConnectLib, Integers

CONSTANTS
  Callers,    \* calls that can be in flight at the same time
  Tabs,       \* browser tabs (or processes) sharing the storage
  TabOf,      \* the tab a caller runs in
  Unlockers,  \* callers whose manager holds the password the records open with
  Keys,       \* voucher key ids
  Salts,      \* what tells two channels of one key apart
  Policies,   \* policies a caller may ask for
  Deposits,   \* deposits a caller may bind
  UnitCounts, \* units a caller may ask to sign for
  U64Max,     \* largest u64
  MaxTime     \* bound: the clock stops here

Policy == [price: Nat, maxCumulative: Nat, maxDelta: Nat, expiry: Nat]

ASSUME ConstantsAssumption ==
  /\ TabOf \in [Callers -> Tabs]
  /\ Unlockers \subseteq Callers
  /\ Policies \subseteq Policy
  /\ Deposits \subseteq Nat
  /\ UnitCounts \subseteq Nat
  /\ U64Max \in Nat \ {0}
  /\ MaxTime \in Nat

\* Derived from payer, payee, mint, the key's address, salt and open slot:
\* only the key's own address and the salt can differ here.
ChannelId == [signer: Keys, salt: Salts]

BoundChannel == [channelId: ChannelId, deposit: Nat, maxCumulative: Nat]

Record == [status: {"active", "revoked"}, policy: Policies,
           channel: BoundChannel \cup {None}, lastCumulative: Nat]

\* delta is what the caller pays with the voucher.
Voucher == [key: Keys, channelId: ChannelId, cumulative: Nat, delta: Nat]

Op == [type: {"create"}, key: Keys, policy: Policies]
      \cup [type: {"bind"}, key: Keys, channelId: ChannelId, deposit: Deposits]
      \cup [type: {"sign"}, key: Keys, channelId: ChannelId, units: UnitCounts]
      \cup [type: {"revoke"}, key: Keys]

ASSUME NoneAssumption ==
  /\ None \notin Record
  /\ None \notin BoundChannel
  /\ None \notin Callers
  /\ None \notin Voucher
  /\ None \notin Op
  /\ None \notin [key: Keys, from: Int, to: Nat]

VARIABLES
  stored,    \* the array under STORAGE_KEY, by id
  now,       \* the clock, in seconds
  pc,        \* where each call stands
  op,        \* the call
  buffer,    \* the changed array the call is writing back
  voucher,   \* the voucher the call has signed
  keyLock,   \* holder of "channel-voucher-key:<id>"
  allLock,   \* holder of "channel-voucher-all"
  delivered  \* vouchers the callers have received, in order

vars == <<stored, now, pc, op, buffer, voucher, keyLock, allLock, delivered>>

Steps == {"idle", "lockKey", "lockAll", "load", "save", "saved", "deliver"}

Stores == [Keys -> Record \cup {None}]

\* Type invariant.
TypeOK ==
  /\ stored \in Stores
  /\ now \in Nat
  /\ pc \in [Callers -> Steps]
  /\ op \in [Callers -> Op \cup {None}]
  /\ buffer \in [Callers -> Stores \cup {None}]
  /\ voucher \in [Callers -> Voucher \cup {None}]
  /\ keyLock \in [Keys -> Callers \cup {None}]
  /\ allLock \in Callers \cup {None}
  /\ delivered \in Seq(Voucher)

Init ==
  /\ stored = [k \in Keys |-> None]
  /\ now = 0
  /\ pc = [c \in Callers |-> "idle"]
  /\ op = [c \in Callers |-> None]
  /\ buffer = [c \in Callers |-> None]
  /\ voucher = [c \in Callers |-> None]
  /\ keyLock = [k \in Keys |-> None]
  /\ allLock = None
  /\ delivered = <<>>

-----------------------------------------------------------------------------
(* The checks and changes of the operations on a loaded record. *)

ValidPolicy(p) ==
  /\ p.price \in 1 .. U64Max
  /\ p.maxCumulative \in 1 .. U64Max
  /\ p.maxDelta \in 1 .. p.maxCumulative
  /\ p.expiry > now

NewRecord(p) ==
  [status |-> "active", policy |-> p, channel |-> None, lastCumulative |-> 0]

\* A revoked key may still be bound: bindChannel does not look at the status.
MayBind(c, rec, o) ==
  /\ rec.channel = None
  /\ o.deposit \in 1 .. U64Max
  /\ o.channelId.signer = o.key
  /\ c \in Unlockers

Bound(rec, o) ==
  [rec EXCEPT !.channel =
     [channelId |-> o.channelId,
      deposit |-> o.deposit,
      maxCumulative |-> IF rec.policy.maxCumulative < o.deposit
                        THEN rec.policy.maxCumulative ELSE o.deposit]]

Delta(rec, o) == o.units * rec.policy.price

\* Mutant of MaySign: the status of the key is not looked at.
Bad_MaySign(c, rec, o) ==
  /\ rec.channel # None
  /\ rec.policy.expiry > now
  /\ o.channelId = rec.channel.channelId
  /\ Delta(rec, o) <= rec.policy.maxDelta
  /\ rec.lastCumulative + Delta(rec, o) <= rec.channel.maxCumulative
  /\ c \in Unlockers

MaySign(c, rec, o) ==
  /\ rec.status = "active"
  /\ rec.policy.expiry > now
  /\ rec.channel # None
  /\ o.channelId = rec.channel.channelId
  /\ o.units \in 1 .. U64Max
  /\ o.units <= U64Max \div rec.policy.price
  /\ Delta(rec, o) <= rec.policy.maxDelta
  /\ rec.lastCumulative + Delta(rec, o) <= U64Max
  /\ rec.lastCumulative + Delta(rec, o) > rec.lastCumulative
  /\ rec.lastCumulative + Delta(rec, o) <= rec.channel.maxCumulative
  /\ rec.channel.maxCumulative <= rec.channel.deposit
  /\ c \in Unlockers

\* Mutants of Signed: the watermark is left where it was, or moved backwards.
Bad_Signed(rec, o) == rec

Bad_SignedBackwards(rec, o) == [rec EXCEPT !.lastCumulative = @ - Delta(rec, o)]

Signed(rec, o) ==
  [rec EXCEPT !.lastCumulative = @ + Delta(rec, o)]

VoucherFor(rec, o) ==
  [key |-> o.key, channelId |-> rec.channel.channelId,
   cumulative |-> rec.lastCumulative + Delta(rec, o), delta |-> Delta(rec, o)]

-----------------------------------------------------------------------------
(* One call: wait for the locks, load, change, write back, release, return. *)

\* create validates the policy and takes a fresh random id before it waits for
\* the store; it never takes a key lock, the id being nobody else's.
CallCreate(c, k, p) ==
  /\ pc[c] = "idle"
  /\ ValidPolicy(p)
  /\ stored[k] = None
  /\ \A d \in Callers : op[d] # None => op[d].key # k
  /\ op' = [op EXCEPT ![c] = [type |-> "create", key |-> k, policy |-> p]]
  /\ pc' = [pc EXCEPT ![c] = "lockAll"]
  /\ UNCHANGED <<stored, now, buffer, voucher, keyLock, allLock, delivered>>

Call(c, o) ==
  /\ pc[c] = "idle"
  /\ o.type # "create"
  /\ op' = [op EXCEPT ![c] = o]
  /\ pc' = [pc EXCEPT ![c] = "lockKey"]
  /\ UNCHANGED <<stored, now, buffer, voucher, keyLock, allLock, delivered>>

CallBind(c, k, ch, d) ==
  Call(c, [type |-> "bind", key |-> k, channelId |-> ch, deposit |-> d])

CallSign(c, k, ch, u) ==
  Call(c, [type |-> "sign", key |-> k, channelId |-> ch, units |-> u])

CallRevoke(c, k) == Call(c, [type |-> "revoke", key |-> k])

LockKey(c) ==
  /\ pc[c] = "lockKey"
  /\ keyLock[op[c].key] = None
  /\ keyLock' = [keyLock EXCEPT ![op[c].key] = c]
  /\ pc' = [pc EXCEPT ![c] = "lockAll"]
  /\ UNCHANGED <<stored, now, op, buffer, voucher, allLock, delivered>>

\* Mutant of LockAll: the lock of the store is not waited for.
Bad_LockAll(c) ==
  /\ pc[c] = "lockAll"
  /\ allLock' = c
  /\ pc' = [pc EXCEPT ![c] = "load"]
  /\ UNCHANGED <<stored, now, op, buffer, voucher, keyLock, delivered>>

LockAll(c) ==
  /\ pc[c] = "lockAll"
  /\ allLock = None
  /\ allLock' = c
  /\ pc' = [pc EXCEPT ![c] = "load"]
  /\ UNCHANGED <<stored, now, op, buffer, voucher, keyLock, delivered>>

ReleaseLocks(S) ==
  /\ keyLock' = [k \in Keys |-> IF keyLock[k] \in S THEN None ELSE keyLock[k]]
  /\ allLock' = IF allLock \in S THEN None ELSE allLock

\* adapter.get resolves; the change runs synchronously on what it returned.
Change(c, rec) ==
  /\ pc[c] = "load"
  /\ buffer' = [buffer EXCEPT ![c] = [stored EXCEPT ![op[c].key] = rec]]
  /\ pc' = [pc EXCEPT ![c] = "save"]
  /\ UNCHANGED <<stored, now, op, keyLock, allLock, delivered>>

Create(c) ==
  /\ op[c] # None
  /\ op[c].type = "create"
  /\ Change(c, NewRecord(op[c].policy))
  /\ UNCHANGED voucher

BindChannel(c) ==
  /\ op[c] # None
  /\ op[c].type = "bind"
  /\ stored[op[c].key] # None
  /\ MayBind(c, stored[op[c].key], op[c])
  /\ Change(c, Bound(stored[op[c].key], op[c]))
  /\ UNCHANGED voucher

SignVoucher(c) ==
  /\ op[c] # None
  /\ op[c].type = "sign"
  /\ stored[op[c].key] # None
  /\ MaySign(c, stored[op[c].key], op[c])
  /\ Change(c, Signed(stored[op[c].key], op[c]))
  /\ voucher' = [voucher EXCEPT ![c] = VoucherFor(stored[op[c].key], op[c])]

Revoke(c) ==
  /\ op[c] # None
  /\ op[c].type = "revoke"
  /\ stored[op[c].key] # None
  /\ Change(c, [stored[op[c].key] EXCEPT !.status = "revoked"])
  /\ UNCHANGED voucher

Refused(c) ==
  LET rec == stored[op[c].key]
  IN  /\ op[c].type # "create"
      /\ rec # None =>
           CASE op[c].type = "bind" -> ~MayBind(c, rec, op[c])
             [] op[c].type = "sign" -> ~MaySign(c, rec, op[c])
             [] op[c].type = "revoke" -> FALSE

\* The calls in S end without a result and give up their locks.
Abandon(S) ==
  /\ pc' = [c \in Callers |-> IF c \in S THEN "idle" ELSE pc[c]]
  /\ op' = [c \in Callers |-> IF c \in S THEN None ELSE op[c]]
  /\ buffer' = [c \in Callers |-> IF c \in S THEN None ELSE buffer[c]]
  /\ voucher' = [c \in Callers |-> IF c \in S THEN None ELSE voucher[c]]
  /\ ReleaseLocks(S)
  /\ UNCHANGED <<stored, now, delivered>>

\* Mutant of Refuse: a refused change throws past the release of its locks.
Bad_Refuse(c) ==
  /\ pc[c] = "load"
  /\ Refused(c)
  /\ pc' = [pc EXCEPT ![c] = "idle"]
  /\ op' = [op EXCEPT ![c] = None]
  /\ UNCHANGED <<stored, now, buffer, voucher, keyLock, allLock, delivered>>

\* The load was refused by a check, or adapter.get rejected.
Refuse(c) ==
  /\ pc[c] = "load"
  /\ Refused(c)
  /\ Abandon({c})

LoadFails(c) ==
  /\ pc[c] = "load"
  /\ Abandon({c})

\* The write of the whole array takes effect.
Save(c) ==
  /\ pc[c] = "save"
  /\ stored' = buffer[c]
  /\ pc' = [pc EXCEPT ![c] = "saved"]
  /\ UNCHANGED <<now, op, buffer, voucher, keyLock, allLock, delivered>>

\* Mutant of SaveFails: the error of a failed write is swallowed.
Bad_SaveFails(c) ==
  /\ pc[c] = "save"
  /\ pc' = [pc EXCEPT ![c] = "saved"]
  /\ UNCHANGED <<stored, now, op, buffer, voucher, keyLock, allLock, delivered>>

\* adapter.set rejects, without effect ("save") or after it ("saved").
SaveFails(c) ==
  /\ pc[c] \in {"save", "saved"}
  /\ Abandon({c})

\* adapter.set resolved: the locks go to the next caller before the result
\* reaches this one, which may sit in another tab.
Release(c) ==
  /\ pc[c] = "saved"
  /\ ReleaseLocks({c})
  /\ buffer' = [buffer EXCEPT ![c] = None]
  /\ pc' = [pc EXCEPT ![c] = "deliver"]
  /\ UNCHANGED <<stored, now, op, voucher, delivered>>

Deliver(c) ==
  /\ pc[c] = "deliver"
  /\ delivered' = IF voucher[c] = None THEN delivered
                  ELSE Append(delivered, voucher[c])
  /\ voucher' = [voucher EXCEPT ![c] = None]
  /\ op' = [op EXCEPT ![c] = None]
  /\ pc' = [pc EXCEPT ![c] = "idle"]
  /\ UNCHANGED <<stored, now, buffer, keyLock, allLock>>

\* A tab closes: its calls vanish and its Web Locks are released. A write it
\* had started has either taken effect (Save came first) or never does.
CloseTab(t) ==
  /\ \E c \in Callers : TabOf[c] = t /\ pc[c] # "idle"
  /\ Abandon({c \in Callers : TabOf[c] = t})

Tick ==
  /\ now < MaxTime
  /\ now' = now + 1
  /\ UNCHANGED <<stored, pc, op, buffer, voucher, keyLock, allLock, delivered>>

Progress(c) ==
  \/ Create(c) \/ BindChannel(c) \/ SignVoucher(c) \/ Revoke(c) \/ Refuse(c)
  \/ LoadFails(c) \/ Save(c) \/ SaveFails(c) \/ Release(c) \/ Deliver(c)

Next ==
  \/ \E c \in Callers, k \in Keys :
       \/ \E p \in Policies : CallCreate(c, k, p)
       \/ \E ch \in ChannelId, d \in Deposits : CallBind(c, k, ch, d)
       \/ \E ch \in ChannelId, u \in UnitCounts : CallSign(c, k, ch, u)
       \/ CallRevoke(c, k)
  \/ \E c \in Callers : LockKey(c) \/ LockAll(c) \/ Progress(c)
  \/ \E t \in Tabs : CloseTab(t)
  \/ Tick

Spec == Init /\ [][Next]_vars

(* Adapter calls settle and lock queues are first come, first served: a call
   waiting for a lock that keeps becoming free gets it. *)
FairSpec ==
  /\ Spec
  /\ \A c \in Callers :
       WF_vars(Progress(c)) /\ SF_vars(LockKey(c)) /\ SF_vars(LockAll(c))

-----------------------------------------------------------------------------
(* Properties *)

\* A voucher a caller holds or is about to receive.
InHand(c) == pc[c] \in {"saved", "deliver"} /\ voucher[c] # None

From(v) == v.cumulative - v.delta

\* Two vouchers of one key pay for the same units.
Overlap(v, w) ==
  /\ v.key = w.key
  /\ From(v) < w.cumulative
  /\ From(w) < v.cumulative

(* No two vouchers of a key ever pay for the same units, whichever tabs asked
   and in whatever order the answers arrive: the read-modify-write of
   signVoucher loses no update (update, saveAll). *)
NoDoubleSpend ==
  /\ \A i, j \in DOMAIN delivered : i # j => ~Overlap(delivered[i], delivered[j])
  /\ \A i \in DOMAIN delivered, c \in Callers :
       InHand(c) => ~Overlap(delivered[i], voucher[c])
  /\ \A c, d \in Callers :
       c # d /\ InHand(c) /\ InHand(d) => ~Overlap(voucher[c], voucher[d])

(* A voucher that left the manager is covered by the persisted watermark of its
   key, so a restart from storage can never sign the same amount again
   ("Persisted before update() returns this signature to the caller"), and the
   watermark stays within the deposit the key was bound with and the policy the
   user sealed. *)
DeliveredIsPersisted ==
  \A i \in DOMAIN delivered :
    LET v == delivered[i]
        rec == stored[v.key]
    IN  /\ rec # None
        /\ rec.channel # None
        /\ rec.channel.channelId = v.channelId
        /\ v.cumulative <= rec.lastCumulative
        /\ rec.lastCumulative <= rec.channel.maxCumulative
        /\ rec.channel.maxCumulative <= rec.channel.deposit
        /\ rec.channel.maxCumulative <= rec.policy.maxCumulative

\* r is a later state of the record q.
Advances(q, r) ==
  /\ r # None
  /\ r.policy = q.policy
  /\ q.channel # None => r.channel = q.channel
  /\ r.lastCumulative >= q.lastCumulative
  /\ q.status = "revoked" =>
       r.status = "revoked" /\ r.lastCumulative = q.lastCumulative

(* The array is rewritten whole by every operation, yet no write undoes
   another: no key vanishes, a bound channel is never replaced, the watermark
   never falls, and a revoked key stays revoked and signs no more. *)
RecordsOnlyAdvance ==
  [][\A k \in Keys : stored[k] # None => Advances(stored[k], stored'[k])]_vars

\* What VoucherBudget calls the account of a key.
AccountOf(rec) ==
  IF rec = None THEN [state |-> "absent", budget |-> 0, spent |-> 0]
  ELSE [state |-> IF rec.status = "revoked" THEN "revoked"
                  ELSE IF rec.channel = None THEN "unbound" ELSE "open",
        budget |-> IF rec.channel = None THEN 0 ELSE rec.channel.maxCumulative,
        spent |-> rec.lastCumulative]

Slip(v) == [key |-> v.key, from |-> From(v), to |-> v.cumulative]

Budget == INSTANCE VoucherBudget WITH
  Budgets <- 1 .. U64Max,
  Nobody <- None,
  account <- [k \in Keys |-> AccountOf(stored[k])],
  hand <- [c \in Callers |-> IF InHand(c) THEN Slip(voucher[c]) ELSE None],
  delivered <- [i \in DOMAIN delivered |-> Slip(delivered[i])]

(* The manager with its storage, locks and failures implements the atomic
   accounts of VoucherBudget: a save is the debit, a delivery the hand-over. *)
ImplementsBudget == Budget!Spec

(* Every call ends, with a result or an error: the two nested locks and the
   closing tabs never leave a caller waiting forever. *)
CallsEnd == \A c \in Callers : pc[c] # "idle" ~> pc[c] = "idle"
=============================================================================
