----------------------------- MODULE SessionKeys -----------------------------
(***************************************************************************)
(* SessionKeyManager and SessionKeyStorage (core/src/session-keys): managers *)
(* in several tabs share one stored array of session keys.  Each write of    *)
(* the array reloads it under the lock of the store, so one storage call is  *)
(* one step here (VoucherKeys has that lock in full).  What a manager does   *)
(* between two storage calls is protected by the lock of the key, which      *)
(* signing, revoking and authorizing take, and listing, clearing and the     *)
(* detached marking of expired keys do not.                                  *)
(***************************************************************************)
EXTENDS ConnectLib

CONSTANTS
  Callers,      \* calls that can be in flight at the same time
  Keys,         \* session key ids
  Scope,        \* Scope[k]: limits of key k
  Values,       \* native values a transaction may carry
  PeriodLength, \* seconds of a period
  MaxTime       \* bound: the clock stops here

Limits == [maxTxCount: Nat, maxTotalValue: Nat, periodLimit: Nat, expiry: Nat]

ASSUME ConstantsAssumption ==
  /\ Scope \in [Keys -> Limits]
  /\ Values \subseteq Nat
  /\ PeriodLength \in Nat \ {0}
  /\ MaxTime \in Nat

\* scope.mode ("aa_module" keys behave here as "offchain" ones), periodUsage of
\* the native asset, and accumulatedValue as spent.
Modes == {"offchain", "eip7702"}

Record == [mode: Modes, status: {"active", "revoked", "expired"},
           authorized: BOOLEAN, useCount: Nat, spent: Nat, period: Nat, periodSpent: Nat]

Stores == [Keys -> Record \cup {None}]

Op == [type: {"create"}, key: Keys, mode: Modes]
      \cup [type: {"revoke", "setAuthorization", "attachDelegation"}, key: Keys]
      \cup [type: {"sign"}, key: Keys, value: Values]
      \cup [type: {"list", "clear"}]

ASSUME NoneAssumption ==
  None \notin Record /\ None \notin Callers /\ None \notin Op

VARIABLES
  stored,   \* the array under STORAGE_KEY, by id
  now,      \* the clock, in seconds; it never goes back
  pc,       \* the await each call is at
  op,       \* the call
  read,     \* the array as the call has read it
  period,   \* sign: the period the signature is accounted in
  toSave,   \* list: expired records still to be saved
  keyLock,  \* holder of "key:<id>"
  expiring, \* keys with a detached updateStatus(id, "expired") on its way
  count,    \* history: signatures accounted for, per key
  value,    \* history: value signed for, per key
  inPeriod, \* history: value signed for, per key and period
  revoked,  \* history: keys a revokeSession has returned for
  cleared   \* history: keys that were stored before a clearAll that returned

history == <<count, value, inPeriod, revoked, cleared>>
calls == <<pc, op, read, period, toSave, keyLock>>
vars == <<stored, now, calls, expiring, history>>

Steps == {"idle", "create", "clear", "list", "saveExpired", "lockKey", "read",
          "check", "sign", "account", "authorize", "save", "revoke"}

Period(t) == t \div PeriodLength
Periods == 0 .. Period(MaxTime)

\* Type invariant.
TypeOK ==
  /\ stored \in Stores
  /\ now \in 0 .. MaxTime
  /\ pc \in [Callers -> Steps]
  /\ op \in [Callers -> Op \cup {None}]
  /\ read \in [Callers -> Stores]
  /\ period \in [Callers -> Periods]
  /\ toSave \in [Callers -> SUBSET Keys]
  /\ keyLock \in [Keys -> Callers \cup {None}]
  /\ expiring \subseteq Keys
  /\ count \in [Keys -> Nat] /\ value \in [Keys -> Nat]
  /\ inPeriod \in [Keys -> [Periods -> Nat]]
  /\ revoked \subseteq Keys /\ cleared \subseteq Keys

NoStore == [k \in Keys |-> None]

Init ==
  /\ stored = NoStore /\ now = 0
  /\ pc = [c \in Callers |-> "idle"] /\ op = [c \in Callers |-> None]
  /\ read = [c \in Callers |-> NoStore]
  /\ period = [c \in Callers |-> 0] /\ toSave = [c \in Callers |-> {}]
  /\ keyLock = [k \in Keys |-> None] /\ expiring = {}
  /\ count = [k \in Keys |-> 0] /\ value = [k \in Keys |-> 0]
  /\ inPeriod = [k \in Keys |-> [p \in Periods |-> 0]]
  /\ revoked = {} /\ cleared = {}

-----------------------------------------------------------------------------
(* Calls. *)

Key(c) == op[c].key

Call(c, o, step) ==
  /\ pc[c] = "idle"
  /\ op' = [op EXCEPT ![c] = o]
  /\ pc' = [pc EXCEPT ![c] = step]
  /\ UNCHANGED <<stored, now, read, period, toSave, keyLock, expiring, history>>

\* The call moves on; what it read stays with it.
Goto(c, step) ==
  /\ pc' = [pc EXCEPT ![c] = step]
  /\ UNCHANGED <<op, toSave, keyLock>>

\* The call returns or throws, and with it go its lock and what it read.
Ends(c) ==
  /\ pc' = [pc EXCEPT ![c] = "idle"]
  /\ op' = [op EXCEPT ![c] = None]
  /\ read' = [read EXCEPT ![c] = NoStore]
  /\ period' = [period EXCEPT ![c] = 0]
  /\ toSave' = [toSave EXCEPT ![c] = {}]
  /\ keyLock' = [k \in Keys |-> IF keyLock[k] = c THEN None ELSE keyLock[k]]

\* A storage call rejects without effect, a check refuses, or the tab closes.
\* A write that takes effect and rejects leaves what the write itself leaves,
\* except that the caller of sign gets no signature: AccountRejects.
Abandon(c) ==
  /\ pc[c] # "idle"
  /\ Ends(c)
  /\ UNCHANGED <<stored, now, expiring, history>>

\* Bug: the lock of the key is not waited for.
Bad_LockKey(c) ==
  /\ pc[c] = "lockKey"
  /\ keyLock' = [keyLock EXCEPT ![Key(c)] = c]
  /\ pc' = [pc EXCEPT ![c] = IF op[c].type = "revoke" THEN "revoke" ELSE "read"]
  /\ UNCHANGED <<stored, now, op, read, period, toSave, expiring, history>>

\* Bug: revokeSession writes the status without the lock of the key.
Bad_LockKeyRevoke(c) ==
  /\ pc[c] = "lockKey"
  /\ \/ /\ op[c].type = "revoke"
        /\ pc' = [pc EXCEPT ![c] = "revoke"]
        /\ UNCHANGED keyLock
     \/ /\ op[c].type # "revoke"
        /\ keyLock[Key(c)] = None
        /\ keyLock' = [keyLock EXCEPT ![Key(c)] = c]
        /\ pc' = [pc EXCEPT ![c] = "read"]
  /\ UNCHANGED <<stored, now, op, read, period, toSave, expiring, history>>

LockKey(c) ==
  /\ pc[c] = "lockKey"
  /\ keyLock[Key(c)] = None
  /\ keyLock' = [keyLock EXCEPT ![Key(c)] = c]
  /\ pc' = [pc EXCEPT ![c] = IF op[c].type = "revoke" THEN "revoke" ELSE "read"]
  /\ UNCHANGED <<stored, now, op, read, period, toSave, expiring, history>>

\* readStoredSession
Read(c) ==
  /\ pc[c] = "read"
  /\ stored[Key(c)] # None
  /\ read' = [read EXCEPT ![c] = stored]
  /\ Goto(c, IF op[c].type = "sign" THEN "check" ELSE "authorize")
  /\ UNCHANGED <<stored, now, period, expiring, history>>

-----------------------------------------------------------------------------
(* createSessionKey, revokeSession, clearAll *)

NewRecord(m) == [mode |-> m, status |-> "active", authorized |-> FALSE,
                 useCount |-> 0, spent |-> 0, period |-> 0, periodSpent |-> 0]

\* The id is random: no key, and no other call, has or had it.
CallCreate(c, k, m) ==
  /\ stored[k] = None /\ k \notin cleared
  /\ \A d \in Callers : op[d] # None /\ op[d].type = "create" => op[d].key # k
  /\ Call(c, [type |-> "create", key |-> k, mode |-> m], "create")

Create(c) ==
  /\ pc[c] = "create"
  /\ stored' = [stored EXCEPT ![Key(c)] = NewRecord(op[c].mode)]
  /\ Ends(c)
  /\ UNCHANGED <<now, expiring, history>>

RevokeSession(c) ==
  /\ pc[c] = "revoke"
  /\ stored[Key(c)] # None
  /\ stored' = [stored EXCEPT ![Key(c)].status = "revoked"]
  /\ revoked' = revoked \cup {Key(c)}
  /\ Ends(c)
  /\ UNCHANGED <<now, expiring, count, value, inPeriod, cleared>>

\* No key lock is taken.
ClearAll(c) ==
  /\ pc[c] = "clear"
  /\ stored' = NoStore
  /\ cleared' = cleared \cup {k \in Keys : stored[k] # None}
  /\ Ends(c)
  /\ UNCHANGED <<now, expiring, count, value, inPeriod, revoked>>

-----------------------------------------------------------------------------
(* Signing: read, check what was read, sign, account, return the signature. *)

Expired(k) == Scope[k].expiry <= now

Valid(k, rec) ==
  /\ rec.status = "active"
  /\ ~Expired(k)
  /\ rec.useCount < Scope[k].maxTxCount

\* A key past its expiry is marked so by a call nobody awaits.
MarkExpired(k, rec) ==
  expiring' = IF rec.status = "active" /\ Expired(k) THEN expiring \cup {k} ELSE expiring

SpentIn(rec, p) == IF rec.period = p THEN rec.periodSpent ELSE 0

InScope(k, rec, v) ==
  /\ rec.period <= Period(now)
  /\ SpentIn(rec, Period(now)) + v <= Scope[k].periodLimit
  /\ rec.spent + v <= Scope[k].maxTotalValue

MaySign(c, rec) ==
  /\ Valid(Key(c), rec)
  /\ rec.authorized
  /\ InScope(Key(c), rec, op[c].value)

Check(c) ==
  LET rec == read[c][Key(c)]
  IN  /\ pc[c] = "check"
      /\ MarkExpired(Key(c), rec)
      /\ \/ /\ MaySign(c, rec)
            /\ Goto(c, "sign")
            /\ UNCHANGED <<read, period>>
         \/ /\ ~MaySign(c, rec)
            /\ Ends(c)
      /\ UNCHANGED <<stored, now, history>>

\* The clock is read again for the period the signature counts in.
Sign(c) ==
  /\ pc[c] = "sign"
  /\ period' = [period EXCEPT ![c] = Period(now)]
  /\ Goto(c, "account")
  /\ UNCHANGED <<stored, now, read, expiring, history>>

\* Bug: the counter counts the uses that are left, from zero.
Bad_Used(rec, v, p) ==
  [rec EXCEPT !.useCount = @ - 1, !.spent = @ + v,
              !.period = p, !.periodSpent = SpentIn(rec, p) + v]

\* incrementUsageUnlocked works on the record as it is stored now.
Used(rec, v, p) ==
  [rec EXCEPT !.useCount = @ + 1, !.spent = @ + v,
              !.period = p, !.periodSpent = SpentIn(rec, p) + v]

\* The signature is returned once its use is persisted.
Account(c) ==
  LET k == Key(c)
      v == op[c].value
  IN  /\ pc[c] = "account"
      /\ stored[k] # None
      /\ stored' = [stored EXCEPT ![k] = Used(stored[k], v, period[c])]
      /\ count' = [count EXCEPT ![k] = @ + 1]
      /\ value' = [value EXCEPT ![k] = @ + v]
      /\ inPeriod' = [inPeriod EXCEPT ![k][period[c]] = @ + v]
      /\ Ends(c)
      /\ UNCHANGED <<now, expiring, revoked, cleared>>

\* The write takes effect but rejects: the use is counted, no signature leaves.
AccountRejects(c) ==
  /\ pc[c] = "account"
  /\ stored[Key(c)] # None
  /\ stored' = [stored EXCEPT ![Key(c)] = Used(stored[Key(c)], op[c].value, period[c])]
  /\ Ends(c)
  /\ UNCHANGED <<now, expiring, history>>

-----------------------------------------------------------------------------
(* setAuthorization does not look at the status; attachDelegation does, and
   is the only way to authorize a key of mode eip7702. *)

MayAuthorize(c, rec) ==
  IF op[c].type = "attachDelegation"
  THEN rec.mode = "eip7702" /\ Valid(Key(c), rec)
  ELSE rec.mode # "eip7702"

Authorize(c) ==
  LET rec == read[c][Key(c)]
  IN  /\ pc[c] = "authorize"
      /\ MayAuthorize(c, rec)
      /\ read' = [read EXCEPT ![c][Key(c)].authorized = TRUE]
      /\ Goto(c, "save")
      /\ UNCHANGED <<stored, now, period, expiring, history>>

RefuseAuthorization(c) ==
  /\ pc[c] = "authorize"
  /\ ~MayAuthorize(c, read[c][Key(c)])
  /\ IF op[c].type = "attachDelegation"
     THEN MarkExpired(Key(c), read[c][Key(c)])
     ELSE UNCHANGED expiring
  /\ Ends(c)
  /\ UNCHANGED <<stored, now, history>>

\* storage.save replaces the record, or appends it when there is none.
SaveAuthorized(c) ==
  /\ pc[c] = "save"
  /\ stored' = [stored EXCEPT ![Key(c)] = read[c][Key(c)]]
  /\ Ends(c)
  /\ UNCHANGED <<now, expiring, history>>

-----------------------------------------------------------------------------
(* listSessions: refreshCache reads the array without a lock, marks what has
   expired in its copy and saves the expired records of the copy one by one. *)

Marked(k, rec) ==
  IF rec # None /\ rec.status = "active" /\ Expired(k)
  THEN [rec EXCEPT !.status = "expired"] ELSE rec

\* Bug: listing writes every record it has read back.
Bad_RefreshCache(c) ==
  LET copy == [k \in Keys |-> Marked(k, stored[k])]
      known == {k \in Keys : copy[k] # None}
  IN  /\ pc[c] = "list"
      /\ \/ known = {} /\ Ends(c)
         \/ /\ known # {}
            /\ read' = [read EXCEPT ![c] = copy]
            /\ toSave' = [toSave EXCEPT ![c] = known]
            /\ pc' = [pc EXCEPT ![c] = "saveExpired"]
            /\ UNCHANGED <<op, period, keyLock>>
      /\ UNCHANGED <<stored, now, expiring, history>>

RefreshCache(c) ==
  LET copy == [k \in Keys |-> Marked(k, stored[k])]
  IN  /\ pc[c] = "list"
      /\ \/ /\ copy = stored
            /\ Ends(c)
         \/ /\ copy # stored
            /\ read' = [read EXCEPT ![c] = copy]
            /\ toSave' = [toSave EXCEPT ![c] =
                 {k \in Keys : copy[k] # None /\ copy[k].status = "expired"}]
            /\ pc' = [pc EXCEPT ![c] = "saveExpired"]
            /\ UNCHANGED <<op, period, keyLock>>
      /\ UNCHANGED <<stored, now, expiring, history>>

SaveExpired(c, k) ==
  /\ pc[c] = "saveExpired"
  /\ k \in toSave[c]
  /\ stored' = [stored EXCEPT ![k] = read[c][k]]
  /\ \/ toSave[c] = {k} /\ Ends(c)
     \/ /\ toSave[c] # {k}
        /\ toSave' = [toSave EXCEPT ![c] = @ \ {k}]
        /\ UNCHANGED <<pc, op, read, period, keyLock>>
  /\ UNCHANGED <<now, expiring, history>>

\* The detached updateStatus(id, "expired") arrives, or fails unnoticed.
ExpireDetached(k) ==
  /\ k \in expiring
  /\ expiring' = expiring \ {k}
  /\ stored' = [stored EXCEPT ![k] =
       IF stored[k] = None THEN None ELSE [stored[k] EXCEPT !.status = "expired"]]
  /\ UNCHANGED <<now, calls, history>>

Tick ==
  /\ now < MaxTime
  /\ now' = now + 1
  /\ UNCHANGED <<stored, calls, expiring, history>>

Progress(c) ==
  \/ Read(c) \/ Create(c) \/ RevokeSession(c) \/ ClearAll(c) \/ Check(c)
  \/ Sign(c) \/ Account(c) \/ AccountRejects(c) \/ Authorize(c)
  \/ RefuseAuthorization(c) \/ SaveAuthorized(c) \/ RefreshCache(c)
  \/ (\E k \in Keys : SaveExpired(c, k)) \/ Abandon(c)

Next ==
  \/ \E c \in Callers, k \in Keys :
       \/ \E m \in Modes : CallCreate(c, k, m)
       \/ \E t \in {"revoke", "setAuthorization", "attachDelegation"} :
            Call(c, [type |-> t, key |-> k], "lockKey")
       \/ \E v \in Values : Call(c, [type |-> "sign", key |-> k, value |-> v], "lockKey")
  \/ \E c \in Callers :
       \/ Call(c, [type |-> "list"], "list")
       \/ Call(c, [type |-> "clear"], "clear")
       \/ LockKey(c)
       \/ Progress(c)
  \/ \E k \in Keys : ExpireDetached(k)
  \/ Tick

Spec == Init /\ [][Next]_vars

-----------------------------------------------------------------------------
(* Properties *)

(* The limits the owner signed hold for all the signatures ever returned, over
   all tabs and calls, although listSessions writes back stale records and a
   signature may be accounted for in a later period than it was checked in. *)
BudgetKept ==
  \A k \in Keys :
    /\ count[k] <= Scope[k].maxTxCount
    /\ value[k] <= Scope[k].maxTotalValue
    /\ \A p \in Periods : inPeriod[k][p] <= Scope[k].periodLimit

(* While a key can still sign, what is stored accounts for every signature it
   has given: no write of a whole record undoes the accounting of another. *)
UsableIsAccounted ==
  \A k \in Keys :
    stored[k] # None /\ stored[k].status = "active" /\ ~Expired(k) =>
      stored[k].useCount >= count[k] /\ stored[k].spent >= value[k]

(* Once revokeSession has returned, no manager signs with the key again and it
   never becomes active again, not even after a clearAll or a stale write. *)
RevocationHolds ==
  [][\A k \in revoked :
       /\ count'[k] = count[k]
       /\ stored'[k] # None => stored'[k].status # "active"]_vars

(* "Remove all session keys from storage" (clearAll): a key that was stored
   before is not stored after. *)
ClearedStaysCleared == \A k \in cleared : stored[k] = None
=============================================================================
