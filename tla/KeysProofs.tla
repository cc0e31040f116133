------------------------------- MODULE KeysProofs -------------------------------
(* Proofs about the delegated keys of core, for any number of calls, keys,        *)
(* scopes, authorizations and operations. SessionKeys: a call that has read a     *)
(* record under the lock of its key knows every signature the key has given.      *)
(* The suite: what an enforcer has counted is the sum of what was signed, so the  *)
(* check of the next payment decides for all of them together. A batch: what the  *)
(* encoder joins is held, part by part, where the contract's decoder reads it.    *)
EXTENDS MCKeys, SumLemmas, SequenceTheorems, TLAPS

Locked == {"read", "check", "sign", "account", "authorize", "save", "revoke"}

\* Where a call stands says what it is and which lock it has.
Control ==
  \A c \in Callers :
    /\ pc[c] = "idle" <=> op[c] = None
    /\ pc[c] = "create" => op[c].type = "create"
    /\ pc[c] = "lockKey" =>
         op[c].type \in {"revoke", "setAuthorization", "attachDelegation", "sign"}
    /\ pc[c] = "revoke" => op[c].type = "revoke"
    /\ pc[c] = "read" => op[c].type \in {"setAuthorization", "attachDelegation", "sign"}
    /\ pc[c] \in {"check", "sign", "account"} => op[c].type = "sign"
    /\ pc[c] \in {"authorize", "save"} =>
         op[c].type \in {"setAuthorization", "attachDelegation"}
    /\ pc[c] \in Locked => keyLock[Key(c)] = c
    /\ toSave[c] # {} => pc[c] = "saveExpired"

Active(k, rec) == rec.status = "active" /\ ~Expired(k)

\* The record accounts for every signature its key has given, if it can sign.
Accounts(k, rec) ==
  Active(k, rec) =>
    /\ rec.useCount >= count[k] /\ rec.spent >= value[k]
    /\ rec.period <= Period(now)
    /\ rec.periodSpent >= inPeriod[k][rec.period]
    /\ \A p \in Periods : p > rec.period => inPeriod[k][p] = 0

\* A stored record accounts for its key, and is not active once it was revoked.
StoredAccounts ==
  \A k \in Keys : stored[k] # None =>
    /\ Accounts(k, stored[k])
    /\ k \in revoked => stored[k].status # "active"

\* So does what a call has read while it had the lock of the key.
ReadAccounts ==
  \A c \in Callers : pc[c] \in {"check", "authorize", "save"} =>
    /\ read[c][Key(c)] # None
    /\ Accounts(Key(c), read[c][Key(c)])
    /\ Key(c) \in revoked => read[c][Key(c)].status # "active"

\* What a call that passed its checks may still sign for; the period it will be
\* accounted in is known only when it has signed.
Room(k, v, periods) ==
  /\ count[k] < Scope[k].maxTxCount
  /\ value[k] + v <= Scope[k].maxTotalValue
  /\ \A p \in periods : inPeriod[k][p] + v <= Scope[k].periodLimit

SignersHaveRoom ==
  \A c \in Callers :
    /\ pc[c] \in {"sign", "account"} =>
         Key(c) \notin revoked /\ read[c][Key(c)] # None
    /\ pc[c] = "sign" =>
         Room(Key(c), op[c].value, {p \in Periods : p >= Period(now)})
    /\ pc[c] = "account" =>
         /\ period[c] <= Period(now)
         /\ Room(Key(c), op[c].value, {period[c]})
         /\ stored[Key(c)] # None /\ Active(Key(c), stored[Key(c)]) =>
              stored[Key(c)].period <= period[c]

\* What listSessions will write back are records that cannot sign.
ListSavesExpired ==
  \A c \in Callers, k \in Keys : k \in toSave[c] =>
    read[c][k] # None /\ read[c][k].status = "expired"

\* An id that is not stored, and was not cleared, has never been stored.
Untouched(k) ==
  /\ count[k] = 0 /\ value[k] = 0 /\ \A p \in Periods : inPeriod[k][p] = 0
  /\ k \notin revoked
  /\ \A c \in Callers : read[c][k] = None

Fresh ==
  /\ \A k \in Keys : stored[k] = None /\ k \notin cleared => Untouched(k)
  /\ \A c \in Callers : pc[c] = "create" =>
       stored[Key(c)] = None /\ Key(c) \notin cleared
  /\ \A c, d \in Callers :
       pc[c] = "create" /\ pc[d] = "create" /\ Key(c) = Key(d) => c = d

IInv ==
  /\ TypeOK
  /\ Control
  /\ StoredAccounts
  /\ ReadAccounts
  /\ SignersHaveRoom
  /\ ListSavesExpired
  /\ Fresh
  /\ BudgetKept

--------------------------------------------------------------------------------
(* What the operators return. *)

LEMMA OpFields ==
  ASSUME NEW o \in Op
  PROVE  /\ o.type \in {"create", "revoke", "setAuthorization", "attachDelegation",
                         "sign", "list", "clear"}
         /\ o.type \notin {"list", "clear"} => o.key \in Keys
         /\ o.type = "create" => o.mode \in Modes
         /\ o.type = "sign" => o.value \in Values /\ o.value \in Nat
BY ConstantsAssumption DEF Op

LEMMA ScopeFields ==
  ASSUME NEW k \in Keys
  PROVE  /\ Scope[k].maxTxCount \in Nat /\ Scope[k].maxTotalValue \in Nat
         /\ Scope[k].periodLimit \in Nat /\ Scope[k].expiry \in Nat
BY ConstantsAssumption DEF Limits

LEMMA RecordFields ==
  ASSUME NEW rec \in Record
  PROVE  /\ rec.useCount \in Nat /\ rec.spent \in Nat
         /\ rec.period \in Nat /\ rec.periodSpent \in Nat
         /\ rec.status \in {"active", "revoked", "expired"}
BY DEF Record

LEMMA DivIsMonotone ==
  ASSUME NEW a \in Nat, NEW b \in Nat, NEW d \in Nat \ {0}, a <= b
  PROVE  a \div d \in Nat /\ a \div d <= b \div d
OBVIOUS

LEMMA PeriodIsPeriod ==
  ASSUME NEW t \in 0 .. MaxTime
  PROVE  Period(t) \in Periods /\ Period(t) \in Nat
<1>1. t \in Nat /\ MaxTime \in Nat /\ t <= MaxTime /\ PeriodLength \in Nat \ {0}
  BY ConstantsAssumption
<1>2. t \div PeriodLength \in Nat /\ t \div PeriodLength <= MaxTime \div PeriodLength
  BY <1>1, DivIsMonotone
<1>3. MaxTime \div PeriodLength \in Nat
  BY <1>1, DivIsMonotone
<1> QED
  BY <1>2, <1>3 DEF Period, Periods

LEMMA PeriodsAreNaturals == Periods \subseteq Nat /\ 0 \in Periods
<1>1. 0 \in 0 .. MaxTime /\ MaxTime \in 0 .. MaxTime
  BY ConstantsAssumption
<1>2. Period(MaxTime) \in Nat
  BY <1>1, PeriodIsPeriod
<1> QED
  BY <1>2 DEF Periods

LEMMA MarkedIsRecord ==
  ASSUME NEW rec \in Record \cup {None}, NEW k
  PROVE  Marked(k, rec) \in Record \cup {None}
<1>1. CASE rec \in Record
  <2>1. [rec EXCEPT !.status = "expired"] \in Record
    BY <1>1 DEF Record
  <2> QED
    BY <1>1, <2>1 DEF Marked
<1> QED
  BY <1>1 DEF Marked

LEMMA NewRecordIsRecord ==
  ASSUME NEW m \in Modes
  PROVE  NewRecord(m) \in Record
BY DEF NewRecord, Record

LEMMA UsedIsRecord ==
  ASSUME NEW rec \in Record, NEW v \in Nat, NEW p \in Nat
  PROVE  /\ Used(rec, v, p) \in Record
         /\ Used(rec, v, p).status = rec.status
         /\ Used(rec, v, p).useCount = rec.useCount + 1
         /\ Used(rec, v, p).spent = rec.spent + v
         /\ Used(rec, v, p).period = p
         /\ Used(rec, v, p).periodSpent = IF rec.period = p THEN rec.periodSpent + v ELSE v
<1> DEFINE a == [rec EXCEPT !.useCount = @ + 1]
           b == [a EXCEPT !.spent = @ + v]
           c == [b EXCEPT !.period = p]
           d == [c EXCEPT !.periodSpent = SpentIn(rec, p) + v]
<1>1. SpentIn(rec, p) \in Nat
  BY DEF SpentIn, Record
<1>2. /\ a \in Record /\ a.useCount = rec.useCount + 1 /\ a.spent = rec.spent
      /\ a.status = rec.status
  BY DEF Record
<1> HIDE DEF a
<1>3. /\ b \in Record /\ b.useCount = a.useCount /\ b.spent = a.spent + v
      /\ b.status = a.status
  BY <1>2 DEF Record
<1> HIDE DEF b
<1>4. /\ c \in Record /\ c.useCount = b.useCount /\ c.spent = b.spent
      /\ c.status = b.status /\ c.period = p
  BY <1>3 DEF Record
<1> HIDE DEF c
<1>5. /\ d \in Record /\ d.useCount = c.useCount /\ d.spent = c.spent
      /\ d.status = c.status /\ d.period = c.period
      /\ d.periodSpent = SpentIn(rec, p) + v
  BY <1>1, <1>4 DEF Record
<1>6. Used(rec, v, p) = d
  <2>1. a.spent = rec.spent
    BY <1>2
  <2> QED
    BY <2>1 DEF Used, a, b, c
<1> HIDE DEF d
<1> QED
  BY <1>2, <1>3, <1>4, <1>5, <1>6 DEF SpentIn

--------------------------------------------------------------------------------
(* The steps of Next, grouped by what they do to the state. *)

\* A call begins.
Asks(c, o, step) ==
  /\ Call(c, o, step)
  /\ o \in Op
  /\ \/ /\ o.type = "create" /\ step = "create"
        /\ stored[o.key] = None /\ o.key \notin cleared
        /\ \A d \in Callers : op[d] # None /\ op[d].type = "create" => op[d].key # o.key
     \/ /\ o.type \in {"revoke", "setAuthorization", "attachDelegation", "sign"}
        /\ step = "lockKey"
     \/ o.type \in {"list", "clear"} /\ step = o.type

\* A call ends and has changed no record.
Leaves(c) ==
  /\ pc[c] # "idle"
  /\ Ends(c)
  /\ expiring' \subseteq Keys
  /\ UNCHANGED <<stored, now, history>>

\* The checks of a call that signs have passed.
Passes(c) ==
  /\ pc[c] = "check"
  /\ MaySign(c, read[c][Key(c)])
  /\ Goto(c, "sign")
  /\ expiring' \subseteq Keys
  /\ UNCHANGED <<stored, now, read, period, history>>

\* listSessions found expired records in the copy it made.
Lists(c) ==
  /\ pc[c] = "list"
  /\ read' = [read EXCEPT ![c] = [k \in Keys |-> Marked(k, stored[k])]]
  /\ toSave' = [toSave EXCEPT ![c] =
       {k \in Keys : Marked(k, stored[k]) # None /\ Marked(k, stored[k]).status = "expired"}]
  /\ pc' = [pc EXCEPT ![c] = "saveExpired"]
  /\ UNCHANGED <<stored, now, op, period, keyLock, expiring, history>>

Moves(c) ==
  \/ \E o \in Op, step \in Steps : Asks(c, o, step)
  \/ Leaves(c) \/ LockKey(c) \/ Read(c) \/ Passes(c) \/ Sign(c) \/ Authorize(c) \/ Lists(c)

Writes(c) ==
  \/ Create(c) \/ RevokeSession(c) \/ ClearAll(c) \/ Account(c) \/ AccountRejects(c)
  \/ SaveAuthorized(c) \/ \E k \in Keys : SaveExpired(c, k)

LEMMA NextCases ==
  ASSUME TypeOK, Control, [Next]_vars
  PROVE  \/ \E c \in Callers : Moves(c) \/ Writes(c)
         \/ \E k \in Keys : ExpireDetached(k)
         \/ Tick
         \/ UNCHANGED vars
<1>1. ASSUME NEW c \in Callers, NEW k \in Keys, NEW m \in Modes, CallCreate(c, k, m)
      PROVE  Moves(c)
  <2>1. [type |-> "create", key |-> k, mode |-> m] \in Op
    BY DEF Op
  <2>2. Asks(c, [type |-> "create", key |-> k, mode |-> m], "create")
    BY <1>1, <2>1 DEF CallCreate, Asks
  <2> QED
    BY <2>1, <2>2 DEF Moves, Steps
<1>2. ASSUME NEW c \in Callers, NEW k \in Keys,
             NEW t \in {"revoke", "setAuthorization", "attachDelegation"},
             Call(c, [type |-> t, key |-> k], "lockKey")
      PROVE  Moves(c)
  <2>1. [type |-> t, key |-> k] \in Op
    BY DEF Op
  <2>2. Asks(c, [type |-> t, key |-> k], "lockKey")
    BY <1>2, <2>1 DEF Asks
  <2> QED
    BY <2>1, <2>2 DEF Moves, Steps
<1>3. ASSUME NEW c \in Callers, NEW k \in Keys, NEW v \in Values,
             Call(c, [type |-> "sign", key |-> k, value |-> v], "lockKey")
      PROVE  Moves(c)
  <2>1. [type |-> "sign", key |-> k, value |-> v] \in Op
    BY DEF Op
  <2>2. Asks(c, [type |-> "sign", key |-> k, value |-> v], "lockKey")
    BY <1>3, <2>1 DEF Asks
  <2> QED
    BY <2>1, <2>2 DEF Moves, Steps
<1>4. ASSUME NEW c \in Callers, NEW t \in {"list", "clear"}, Call(c, [type |-> t], t)
      PROVE  Moves(c)
  <2>1. [type |-> t] \in Op
    BY DEF Op
  <2>2. Asks(c, [type |-> t], t)
    BY <1>4, <2>1 DEF Asks
  <2> QED
    BY <2>1, <2>2 DEF Moves, Steps
<1>5. ASSUME NEW c \in Callers, Check(c)
      PROVE  Moves(c)
  <2>1. op[c] \in Op /\ Key(c) \in Keys
    BY <1>5, NoneAssumption, OpFields DEF TypeOK, Control, Check, Key
  <2>2. expiring' \subseteq Keys
    BY <1>5, <2>1 DEF TypeOK, Check, MarkExpired
  <2> QED
    BY <1>5, <2>2 DEF Check, Passes, Leaves, Moves
<1>6. ASSUME NEW c \in Callers, RefuseAuthorization(c)
      PROVE  Moves(c)
  <2>1. op[c] \in Op /\ Key(c) \in Keys
    BY <1>6, NoneAssumption, OpFields DEF TypeOK, Control, RefuseAuthorization, Key
  <2>2. expiring' \subseteq Keys
    BY <1>6, <2>1 DEF TypeOK, RefuseAuthorization, MarkExpired
  <2> QED
    BY <1>6, <2>2 DEF RefuseAuthorization, Leaves, Moves
<1>7. ASSUME NEW c \in Callers, RefreshCache(c)
      PROVE  Moves(c)
  <2>1. CASE Ends(c)
    BY <1>7, <2>1 DEF TypeOK, RefreshCache, Leaves, Moves
  <2>2. CASE ~Ends(c)
    BY <1>7, <2>2 DEF RefreshCache, Lists, Moves
  <2> QED
    BY <2>1, <2>2
<1>8. ASSUME NEW c \in Callers, Abandon(c)
      PROVE  Moves(c)
  BY <1>8 DEF TypeOK, Abandon, Leaves, Moves
<1>9. ASSUME NEW c \in Callers, LockKey(c) \/ Progress(c)
      PROVE  Moves(c) \/ Writes(c)
  BY <1>5, <1>6, <1>7, <1>8, <1>9 DEF Progress, Moves, Writes
<1>10. CASE Next
  BY <1>1, <1>2, <1>3, <1>4, <1>9, <1>10 DEF Next
<1> QED
  BY <1>10

--------------------------------------------------------------------------------
(* Types and control. *)

\* A call that works on a key has one, and what it read is a store.
LEMMA OpOfCall ==
  ASSUME TypeOK, Control, NEW c \in Callers, pc[c] # "idle"
  PROVE  /\ op[c] \in Op
         /\ pc[c] \notin {"list", "saveExpired", "clear"} => Key(c) \in Keys
         /\ read[c] \in Stores
<1>1. op[c] \in Op
  BY DEF TypeOK, Control
<1>2. ASSUME pc[c] \notin {"list", "saveExpired", "clear"}
      PROVE  op[c].type \notin {"list", "clear"}
  BY <1>2 DEF TypeOK, Control, Steps
<1> QED
  BY <1>1, <1>2, OpFields DEF TypeOK, Key

LEMMA EndsTypes ==
  ASSUME TypeOK, NEW c \in Callers, Ends(c)
  PROVE  /\ pc' \in [Callers -> Steps]
         /\ op' \in [Callers -> Op \cup {None}]
         /\ read' \in [Callers -> Stores]
         /\ period' \in [Callers -> Periods]
         /\ toSave' \in [Callers -> SUBSET Keys]
         /\ keyLock' \in [Keys -> Callers \cup {None}]
<1>1. NoStore \in Stores
  BY DEF NoStore, Stores
<1> QED
  BY <1>1, PeriodsAreNaturals DEF TypeOK, Ends, Steps

LEMMA MovesType ==
  ASSUME TypeOK, Control, ReadAccounts, NEW c \in Callers, Moves(c)
  PROVE  TypeOK'
<1>1. ASSUME NEW o \in Op, NEW step \in Steps, Asks(c, o, step)
      PROVE  TypeOK'
  BY <1>1 DEF TypeOK, Asks, Call, history
<1>2. CASE Leaves(c)
  BY <1>2, EndsTypes DEF TypeOK, Leaves, history
<1>3. CASE LockKey(c)
  BY <1>3 DEF TypeOK, LockKey, Steps, history
<1>4. CASE Read(c)
  BY <1>4 DEF TypeOK, Read, Goto, Steps, history
<1>5. CASE Passes(c)
  BY <1>5 DEF TypeOK, Passes, Goto, Steps, history
<1>6. CASE Sign(c)
  <2>1. Period(now) \in Periods
    BY PeriodIsPeriod DEF TypeOK
  <2> QED
    BY <1>6, <2>1 DEF TypeOK, Sign, Goto, Steps, history
<1>7. CASE Authorize(c)
  <2>1. read[c] \in Stores /\ Key(c) \in Keys
    BY <1>7, OpOfCall DEF Authorize
  <2>2. [read[c] EXCEPT ![Key(c)].authorized = TRUE] \in Stores
    <3>1. read[c][Key(c)] \in Record
      BY <1>7, <2>1 DEF Authorize, ReadAccounts, Stores
    <3>2. [read[c][Key(c)] EXCEPT !.authorized = TRUE] \in Record
      BY <3>1 DEF Record
    <3> QED
      BY <2>1, <3>2 DEF Stores
  <2>3. read' = [read EXCEPT ![c] = [read[c] EXCEPT ![Key(c)].authorized = TRUE]]
    BY <1>7 DEF Authorize
  <2>4. read' \in [Callers -> Stores]
    BY <2>2, <2>3 DEF TypeOK
  <2> QED
    BY <1>7, <2>4 DEF TypeOK, Authorize, Goto, Steps, history
<1>8. CASE Lists(c)
  <2>1. [k \in Keys |-> Marked(k, stored[k])] \in Stores
    BY MarkedIsRecord DEF TypeOK, Stores
  <2> QED
    BY <1>8, <2>1 DEF TypeOK, Lists, Steps, history
<1> QED
  BY <1>1, <1>2, <1>3, <1>4, <1>5, <1>6, <1>7, <1>8 DEF Moves

\* The record a signature is accounted in.
LEMMA AccountedRecord ==
  ASSUME TypeOK, Control, NEW c \in Callers, pc[c] = "account", stored[Key(c)] # None
  PROVE  /\ Key(c) \in Keys /\ op[c].value \in Nat
         /\ period[c] \in Periods /\ period[c] \in Nat
         /\ stored[Key(c)] \in Record
         /\ Used(stored[Key(c)], op[c].value, period[c]) \in Record
<1>1. op[c] \in Op /\ Key(c) \in Keys /\ op[c].type = "sign"
  BY OpOfCall DEF Control
<1>2. op[c].value \in Nat
  BY <1>1, OpFields
<1>3. period[c] \in Periods /\ period[c] \in Nat
  BY PeriodsAreNaturals DEF TypeOK
<1>4. stored[Key(c)] \in Record
  BY <1>1 DEF TypeOK, Stores
<1> QED
  BY <1>1, <1>2, <1>3, <1>4, UsedIsRecord

LEMMA WritesType ==
  ASSUME TypeOK, Control, ReadAccounts, ListSavesExpired, NEW c \in Callers, Writes(c)
  PROVE  TypeOK'
<1>1. CASE Create(c)
  <2>1. op[c].mode \in Modes /\ Key(c) \in Keys
    BY <1>1, OpOfCall, OpFields DEF Create, Control
  <2>2. NewRecord(op[c].mode) \in Record
    BY <2>1, NewRecordIsRecord
  <2> QED
    BY <1>1, <2>1, <2>2, EndsTypes DEF TypeOK, Stores, Create, history
<1>2. CASE RevokeSession(c)
  <2>1. Key(c) \in Keys /\ stored[Key(c)] \in Record
    BY <1>2, OpOfCall DEF RevokeSession, TypeOK, Stores
  <2>2. [stored[Key(c)] EXCEPT !.status = "revoked"] \in Record
    BY <2>1 DEF Record
  <2>3. stored' = [stored EXCEPT ![Key(c)] = [stored[Key(c)] EXCEPT !.status = "revoked"]]
    BY <1>2 DEF RevokeSession
  <2>4. stored' \in Stores
    BY <2>1, <2>2, <2>3 DEF TypeOK, Stores
  <2> QED
    BY <1>2, <2>1, <2>4, EndsTypes DEF TypeOK, RevokeSession
<1>3. CASE ClearAll(c)
  <2>1. stored' \in Stores
    BY <1>3 DEF ClearAll, NoStore, Stores
  <2> QED
    BY <1>3, <2>1, EndsTypes DEF TypeOK, ClearAll
<1>4. CASE Account(c)
  <2> DEFINE k == Key(c)
             v == op[c].value
             p == period[c]
             r == Used(stored[k], v, p)
  <2>1. k \in Keys /\ v \in Nat /\ p \in Periods /\ r \in Record
    BY <1>4, AccountedRecord DEF Account
  <2>2. /\ stored' = [stored EXCEPT ![k] = r]
        /\ count' = [count EXCEPT ![k] = count[k] + 1]
        /\ value' = [value EXCEPT ![k] = value[k] + v]
        /\ inPeriod' = [inPeriod EXCEPT ![k] = [inPeriod[k] EXCEPT ![p] = inPeriod[k][p] + v]]
    BY <1>4 DEF Account
  <2> HIDE DEF k, v, p, r
  <2>3. stored' \in Stores
    BY <2>1, <2>2 DEF TypeOK, Stores
  <2>4. count' \in [Keys -> Nat] /\ value' \in [Keys -> Nat]
    BY <2>1, <2>2 DEF TypeOK
  <2>5. inPeriod' \in [Keys -> [Periods -> Nat]]
    <3>1. [inPeriod[k] EXCEPT ![p] = inPeriod[k][p] + v] \in [Periods -> Nat]
      BY <2>1 DEF TypeOK
    <3> QED
      BY <2>1, <2>2, <3>1 DEF TypeOK
  <2> QED
    BY <1>4, <2>3, <2>4, <2>5, EndsTypes DEF TypeOK, Account
<1>5. CASE AccountRejects(c)
  <2>1. Key(c) \in Keys /\ Used(stored[Key(c)], op[c].value, period[c]) \in Record
    BY <1>5, AccountedRecord DEF AccountRejects
  <2>2. stored' \in Stores
    BY <1>5, <2>1 DEF TypeOK, Stores, AccountRejects
  <2> QED
    BY <1>5, <2>2, EndsTypes DEF TypeOK, AccountRejects, history
<1>6. CASE SaveAuthorized(c)
  <2>1. Key(c) \in Keys /\ read[c] \in Stores
    BY <1>6, OpOfCall DEF SaveAuthorized
  <2>2. stored' \in Stores
    BY <1>6, <2>1 DEF TypeOK, Stores, SaveAuthorized
  <2> QED
    BY <1>6, <2>2, EndsTypes DEF TypeOK, SaveAuthorized, history
<1>7. ASSUME NEW k \in Keys, SaveExpired(c, k)
      PROVE  TypeOK'
  <2>1. stored' \in Stores
    BY <1>7 DEF TypeOK, Stores, SaveExpired
  <2>2. CASE Ends(c)
    BY <1>7, <2>1, <2>2, EndsTypes DEF TypeOK, SaveExpired, history
  <2>3. CASE ~Ends(c)
    BY <1>7, <2>1, <2>3 DEF TypeOK, SaveExpired, history
  <2> QED
    BY <2>2, <2>3
<1> QED
  BY <1>1, <1>2, <1>3, <1>4, <1>5, <1>6, <1>7 DEF Writes

LEMMA TypeStep ==
  ASSUME TypeOK, Control, ReadAccounts, ListSavesExpired, [Next]_vars
  PROVE  TypeOK'
<1>1. ASSUME NEW k \in Keys, ExpireDetached(k)
      PROVE  TypeOK'
  <2>1. ASSUME stored[k] # None
        PROVE  [stored[k] EXCEPT !.status = "expired"] \in Record
    <3>1. stored[k] \in Record
      BY <2>1 DEF TypeOK, Stores
    <3> QED
      BY <3>1 DEF Record
  <2>2. stored' \in Stores
    BY <1>1, <2>1 DEF TypeOK, Stores, ExpireDetached
  <2> QED
    BY <1>1, <2>2 DEF TypeOK, ExpireDetached, calls, history
<1>2. CASE Tick
  <2>1. now' \in 0 .. MaxTime
    BY <1>2, ConstantsAssumption DEF TypeOK, Tick
  <2> QED
    BY <1>2, <2>1 DEF TypeOK, Tick, calls, history
<1>3. CASE UNCHANGED vars
  BY <1>3 DEF TypeOK, vars, calls, history
<1> QED
  BY <1>1, <1>2, <1>3, MovesType, WritesType, NextCases

LEMMA ControlStep ==
  ASSUME IInv, [Next]_vars
  PROVE  Control'
<1> USE NoneAssumption DEF IInv
<1>1. ASSUME NEW c \in Callers, NEW o \in Op, NEW step \in Steps, Asks(c, o, step)
      PROVE  Control'
  BY <1>1 DEF TypeOK, Control, Asks, Call, Locked, Key
<1>2. ASSUME NEW c \in Callers, Ends(c), pc[c] # "idle"
      PROVE  Control'
  BY <1>2, OpOfCall DEF TypeOK, Control, Ends, Locked, Key
<1>3. ASSUME NEW c \in Callers, LockKey(c)
      PROVE  Control'
  BY <1>3, OpOfCall DEF TypeOK, Control, LockKey, Locked, Key
<1>4. ASSUME NEW c \in Callers, Read(c)
      PROVE  Control'
  BY <1>4 DEF TypeOK, Control, Read, Goto, Locked, Key
<1>5. ASSUME NEW c \in Callers, Passes(c) \/ Sign(c) \/ Authorize(c)
      PROVE  Control'
  BY <1>5 DEF TypeOK, Control, Passes, Sign, Authorize, Goto, Locked, Key
<1>6. ASSUME NEW c \in Callers, Lists(c)
      PROVE  Control'
  BY <1>6 DEF TypeOK, Control, Lists, Locked, Key
<1>7. ASSUME NEW c \in Callers, NEW k \in Keys, SaveExpired(c, k), ~Ends(c)
      PROVE  Control'
  BY <1>7 DEF TypeOK, Control, SaveExpired, Locked, Key
<1>8. ASSUME NEW c \in Callers, Moves(c)
      PROVE  Control'
  BY <1>1, <1>2, <1>3, <1>4, <1>5, <1>6, <1>8 DEF Moves, Leaves
<1>9. ASSUME NEW c \in Callers, Writes(c)
      PROVE  Control'
  BY <1>2, <1>7, <1>9 DEF Writes, Create, RevokeSession, ClearAll, Account, AccountRejects,
     SaveAuthorized, SaveExpired
<1>10. ASSUME UNCHANGED calls
       PROVE  Control'
  BY <1>10 DEF Control, calls, Key
<1> QED
  BY <1>8, <1>9, <1>10, NextCases DEF ExpireDetached, Tick, vars

--------------------------------------------------------------------------------
(* What a record accounts for. *)

\* Two calls do not have the lock of the same key.
LEMMA LockIsExclusive ==
  ASSUME Control, NEW c \in Callers, NEW d \in Callers,
         pc[c] \in Locked, pc[d] \in Locked, Key(c) = Key(d)
  PROVE  c = d
BY DEF Control

LEMMA TickKeepsAccounts ==
  ASSUME TypeOK, Tick, NEW k \in Keys, NEW rec \in Record
  PROVE  /\ Expired(k) => Scope[k].expiry <= now'
         /\ Period(now) \in Nat /\ Period(now') \in Nat /\ Period(now) <= Period(now')
<1>1. now \in Nat /\ now' \in Nat /\ now <= now' /\ PeriodLength \in Nat \ {0}
  BY ConstantsAssumption DEF TypeOK, Tick
<1>2. Expired(k) => Scope[k].expiry <= now'
  BY <1>1, ScopeFields DEF Expired
<1>3. now \div PeriodLength \in Nat /\ now \div PeriodLength <= now' \div PeriodLength
  BY <1>1, DivIsMonotone
<1>4. now' \div PeriodLength \in Nat
  <2>1. now' <= now'
    BY <1>1
  <2> QED
    BY <1>1, <2>1, DivIsMonotone
<1> QED
  BY <1>2, <1>3, <1>4, Zenon DEF Period

\* A use that is accounted for, with or without a signature that leaves.
LEMMA UsedAccounts ==
  ASSUME IInv, NEW c \in Callers, pc[c] = "account", stored[Key(c)] # None,
         Active(Key(c), stored[Key(c)])
  PROVE  LET k == Key(c)
             v == op[c].value
             p == period[c]
             r == Used(stored[k], v, p)
         IN  /\ r.useCount >= count[k] + 1 /\ r.spent >= value[k] + v
             /\ r.period = p /\ p \in Periods /\ p <= Period(now)
             /\ r.periodSpent >= inPeriod[k][p] + v
             /\ \A q \in Periods : q > p => inPeriod[k][q] = 0
<1> DEFINE k == Key(c)
           v == op[c].value
           p == period[c]
           old == stored[k]
           r == Used(old, v, p)
<1>1. k \in Keys /\ v \in Nat /\ p \in Periods /\ p \in Nat /\ old \in Record
  BY AccountedRecord DEF IInv
<1>2. /\ r.useCount = old.useCount + 1 /\ r.spent = old.spent + v /\ r.period = p
      /\ r.periodSpent = IF old.period = p THEN old.periodSpent + v ELSE v
  <2> HIDE DEF k, v, p, old
  <2> QED
    BY <1>1, UsedIsRecord
<1>3. /\ old.useCount >= count[k] /\ old.spent >= value[k]
      /\ old.periodSpent >= inPeriod[k][old.period]
      /\ \A q \in Periods : q > old.period => inPeriod[k][q] = 0
  BY <1>1 DEF IInv, StoredAccounts, Accounts
<1>4. old.period <= p /\ p <= Period(now)
  BY DEF IInv, SignersHaveRoom
<1>5. /\ old.useCount \in Nat /\ old.spent \in Nat /\ old.period \in Nat
      /\ old.periodSpent \in Nat
  BY <1>1, RecordFields
<1>6. /\ count[k] \in Nat /\ value[k] \in Nat
      /\ \A q \in Periods : inPeriod[k][q] \in Nat /\ q \in Nat
  BY <1>1, PeriodsAreNaturals DEF IInv, TypeOK
<1> HIDE DEF k, v, p, old, r
<1>7. r.useCount >= count[k] + 1 /\ r.spent >= value[k] + v
  BY <1>1, <1>2, <1>3, <1>5, <1>6
<1>8. r.periodSpent >= inPeriod[k][p] + v
  BY <1>1, <1>2, <1>3, <1>4, <1>5, <1>6
<1>9. \A q \in Periods : q > p => inPeriod[k][q] = 0
  BY <1>1, <1>3, <1>4, <1>5, <1>6
<1> QED
  BY <1>1, <1>2, <1>4, <1>7, <1>8, <1>9 DEF k, v, p, old, r

LEMMA StoredAccountsStep ==
  ASSUME IInv, [Next]_vars
  PROVE  StoredAccounts'
<1> USE DEF IInv
<1>1. ASSUME UNCHANGED <<stored, now, history>>
      PROVE  StoredAccounts'
  BY <1>1 DEF StoredAccounts, Accounts, Active, Expired, history
<1>2. ASSUME NEW c \in Callers, Create(c)
      PROVE  StoredAccounts'
  <2> DEFINE new == NewRecord(op[c].mode)
  <2>1. Key(c) \in Keys /\ stored' = [stored EXCEPT ![Key(c)] = new]
        /\ UNCHANGED <<now, history>>
    BY <1>2, OpOfCall DEF Create
  <2>2. Untouched(Key(c))
    BY <1>2, <2>1 DEF Fresh, Create
  <2>3. /\ new.useCount = 0 /\ new.spent = 0 /\ new.period = 0 /\ new.periodSpent = 0
    BY DEF NewRecord
  <2>4. 0 \in Periods /\ Period(now) \in Nat /\ 0 <= Period(now)
    BY PeriodIsPeriod, PeriodsAreNaturals DEF TypeOK
  <2> HIDE DEF new
  <2>5. Accounts(Key(c), new)
    BY <2>2, <2>3, <2>4 DEF Accounts, Untouched
  <2> QED
    BY <2>1, <2>2, <2>5 DEF TypeOK, Stores, StoredAccounts, Accounts, Active, Expired,
       Untouched, history
<1>3. ASSUME NEW c \in Callers, RevokeSession(c)
      PROVE  StoredAccounts'
  <2>1. /\ Key(c) \in Keys /\ stored[Key(c)] \in Record
        /\ stored' = [stored EXCEPT ![Key(c)] = [stored[Key(c)] EXCEPT !.status = "revoked"]]
    BY <1>3, OpOfCall DEF RevokeSession, TypeOK, Stores
  <2>2. stored'[Key(c)].status = "revoked"
    BY <2>1 DEF TypeOK, Stores, Record
  <2>3. /\ \A k \in Keys : k # Key(c) => stored'[k] = stored[k]
        /\ revoked' = revoked \cup {Key(c)}
        /\ UNCHANGED <<now, count, value, inPeriod>>
    BY <1>3, <2>1 DEF RevokeSession, TypeOK, Stores
  <2> QED
    BY <2>2, <2>3 DEF StoredAccounts, Accounts, Active, Expired
<1>4. ASSUME NEW c \in Callers, ClearAll(c)
      PROVE  StoredAccounts'
  BY <1>4 DEF ClearAll, NoStore, StoredAccounts
<1>5. ASSUME NEW c \in Callers, Account(c) \/ AccountRejects(c)
      PROVE  StoredAccounts'
  <2> DEFINE j == Key(c)
             v == op[c].value
             p == period[c]
             r == Used(stored[j], v, p)
  <2>1. /\ j \in Keys /\ v \in Nat /\ p \in Periods /\ p \in Nat
        /\ stored[j] \in Record /\ r.status = stored[j].status
    BY <1>5, AccountedRecord, UsedIsRecord DEF Account, AccountRejects
  <2>2. /\ stored' = [stored EXCEPT ![j] = r]
        /\ UNCHANGED <<now, revoked>>
        /\ \/ UNCHANGED <<count, value, inPeriod>>
           \/ /\ count' = [count EXCEPT ![j] = count[j] + 1]
              /\ value' = [value EXCEPT ![j] = value[j] + v]
              /\ inPeriod' = [inPeriod EXCEPT ![j] = [inPeriod[j] EXCEPT ![p] = inPeriod[j][p] + v]]
    BY <1>5 DEF Account, AccountRejects, history
  <2>3. Active(j, stored[j]) =>
          /\ r.useCount >= count[j] + 1 /\ r.spent >= value[j] + v
          /\ r.period = p /\ p <= Period(now)
          /\ r.periodSpent >= inPeriod[j][p] + v
          /\ \A q \in Periods : q > p => inPeriod[j][q] = 0
    BY <1>5, UsedAccounts DEF Account, AccountRejects
  <2>4. j \notin revoked
    BY <1>5 DEF SignersHaveRoom, Account, AccountRejects
  <2>5. r.useCount \in Nat /\ r.spent \in Nat /\ r.periodSpent \in Nat
    BY <2>1, UsedIsRecord, RecordFields
  <2>6. /\ count[j] \in Nat /\ value[j] \in Nat
        /\ \A q \in Periods : inPeriod[j][q] \in Nat /\ q \in Nat
    BY <2>1, PeriodsAreNaturals DEF TypeOK
  <2> HIDE DEF j, v, p, r
  <2>7. /\ count'[j] \in {count[j], count[j] + 1}
        /\ value'[j] \in {value[j], value[j] + v}
        /\ inPeriod'[j][p] \in {inPeriod[j][p], inPeriod[j][p] + v}
        /\ \A q \in Periods : q # p => inPeriod'[j][q] = inPeriod[j][q]
    BY <2>1, <2>2 DEF TypeOK
  <2>8. \A k \in Keys : k # j =>
          /\ count'[k] = count[k] /\ value'[k] = value[k] /\ inPeriod'[k] = inPeriod[k]
          /\ stored'[k] = stored[k]
    BY <2>1, <2>2 DEF TypeOK, Stores
  <2>9. Active(j, r) =>
          /\ r.useCount >= count'[j] /\ r.spent >= value'[j]
          /\ r.period <= Period(now)
          /\ r.periodSpent >= inPeriod'[j][r.period]
          /\ \A q \in Periods : q > r.period => inPeriod'[j][q] = 0
    <3> SUFFICES ASSUME Active(j, r)
        PROVE  /\ r.useCount >= count'[j] /\ r.spent >= value'[j]
               /\ r.period <= Period(now)
               /\ r.periodSpent >= inPeriod'[j][r.period]
               /\ \A q \in Periods : q > r.period => inPeriod'[j][q] = 0
      OBVIOUS
    <3>1. Active(j, stored[j])
      BY <2>1 DEF Active
    <3>2. r.useCount >= count'[j] /\ r.spent >= value'[j] /\ r.period <= Period(now)
      BY <2>1, <2>3, <2>5, <2>6, <2>7, <3>1
    <3>3. r.periodSpent >= inPeriod'[j][r.period]
      BY <2>1, <2>3, <2>5, <2>6, <2>7, <3>1
    <3> QED
      BY <2>1, <2>3, <2>6, <2>7, <3>1, <3>2, <3>3
  <2>10. stored'[j] = r
    BY <2>1, <2>2 DEF TypeOK, Stores
  <2> QED
    BY <2>2, <2>4, <2>8, <2>9, <2>10 DEF StoredAccounts, Accounts, Active, Expired
<1>6. ASSUME NEW c \in Callers, SaveAuthorized(c)
      PROVE  StoredAccounts'
  <2>1. /\ Key(c) \in Keys /\ stored' = [stored EXCEPT ![Key(c)] = read[c][Key(c)]]
        /\ UNCHANGED <<now, history>>
    BY <1>6, OpOfCall DEF SaveAuthorized
  <2> QED
    BY <1>6, <2>1 DEF TypeOK, Stores, SaveAuthorized, StoredAccounts, ReadAccounts, Accounts,
       Active, Expired, history
<1>7. ASSUME NEW c \in Callers, NEW k \in Keys, SaveExpired(c, k)
      PROVE  StoredAccounts'
  <2>1. read[c][k].status = "expired"
    BY <1>7 DEF SaveExpired, ListSavesExpired
  <2> QED
    BY <1>7, <2>1 DEF TypeOK, Stores, SaveExpired, StoredAccounts, Accounts, Active, Expired,
       history
<1>8. ASSUME NEW k \in Keys, ExpireDetached(k)
      PROVE  StoredAccounts'
  <2>1. /\ stored' = [stored EXCEPT ![k] =
              IF stored[k] = None THEN None ELSE [stored[k] EXCEPT !.status = "expired"]]
        /\ UNCHANGED <<now, history>>
    BY <1>8 DEF ExpireDetached
  <2>2. stored'[k] # None => stored'[k].status = "expired"
    BY <2>1 DEF TypeOK, Stores, Record
  <2>3. \A j \in Keys : j # k => stored'[j] = stored[j]
    BY <2>1 DEF TypeOK, Stores
  <2> QED
    BY <2>1, <2>2, <2>3 DEF StoredAccounts, Accounts, Active, Expired, history
<1>9. CASE Tick
  <2> SUFFICES ASSUME NEW k \in Keys, stored[k] # None
      PROVE  /\ Accounts(k, stored[k])'
             /\ k \in revoked => stored[k].status # "active"
    BY <1>9 DEF Tick, StoredAccounts, history
  <2>1. stored[k] \in Record
    BY DEF TypeOK, Stores
  <2>2. stored[k].period \in Nat
    BY <2>1, RecordFields
  <2>3. UNCHANGED <<stored, count, value, inPeriod>>
    BY <1>9 DEF Tick, history
  <2> QED
    BY <1>9, <2>1, <2>2, <2>3, TickKeepsAccounts DEF StoredAccounts, Accounts, Active, Expired
<1>10. ASSUME NEW c \in Callers, Moves(c)
       PROVE  StoredAccounts'
  BY <1>1, <1>10 DEF Moves, Asks, Call, Leaves, LockKey, Read, Passes, Sign, Authorize, Lists
<1>11. ASSUME NEW c \in Callers, Writes(c)
       PROVE  StoredAccounts'
  BY <1>2, <1>3, <1>4, <1>5, <1>6, <1>7, <1>11 DEF Writes
<1> QED
  BY <1>1, <1>8, <1>9, <1>10, <1>11, NextCases DEF vars

--------------------------------------------------------------------------------
(* What calls know while they have a lock. *)

\* The other calls leave alone what a call with the lock of its key depends on.
LEMMA OthersKeepHistory ==
  ASSUME IInv, NEW c \in Callers, NEW d \in Callers, c # d,
         pc[d] \in Locked, Writes(c)
  PROVE  /\ UNCHANGED <<now, pc[d], op[d], read[d], period[d]>>
         /\ count'[Key(d)] = count[Key(d)] /\ value'[Key(d)] = value[Key(d)]
         /\ inPeriod'[Key(d)] = inPeriod[Key(d)]
         /\ Key(d) \in revoked' <=> Key(d) \in revoked
<1> USE DEF IInv
<1>1. ASSUME pc[c] \in Locked
      PROVE  Key(c) # Key(d)
  BY <1>1, LockIsExclusive
<1>2. pc[d] # "idle" /\ Key(d) \in Keys
  BY OpOfCall DEF Locked
<1>3. ASSUME Ends(c)
      PROVE  UNCHANGED <<pc[d], op[d], read[d], period[d]>>
  BY <1>3 DEF TypeOK, Ends
<1>4. CASE Account(c)
  <2>1. Key(c) # Key(d)
    BY <1>1, <1>4 DEF Account, Locked
  <2>2. /\ \E n : count' = [count EXCEPT ![Key(c)] = n]
        /\ \E n : value' = [value EXCEPT ![Key(c)] = n]
        /\ \E n : inPeriod' = [inPeriod EXCEPT ![Key(c)] = n]
    BY <1>4 DEF Account
  <2> QED
    BY <1>2, <1>3, <1>4, <2>1, <2>2 DEF Account, TypeOK
<1>5. CASE RevokeSession(c)
  <2>1. Key(c) # Key(d)
    BY <1>1, <1>5 DEF RevokeSession, Locked
  <2> QED
    BY <1>3, <1>5, <2>1 DEF RevokeSession
<1>6. CASE Create(c) \/ ClearAll(c) \/ AccountRejects(c) \/ SaveAuthorized(c)
  BY <1>3, <1>6 DEF Create, ClearAll, AccountRejects, SaveAuthorized, history
<1>7. CASE \E k \in Keys : SaveExpired(c, k)
  BY <1>3, <1>7 DEF SaveExpired, history
<1> QED
  BY <1>4, <1>5, <1>6, <1>7 DEF Writes

\* A call that moves changes only what is its own.
LEMMA MovesKeep ==
  ASSUME TypeOK, NEW c \in Callers, Moves(c)
  PROVE  /\ UNCHANGED <<stored, now, history>>
         /\ \A d \in Callers : d # c =>
              UNCHANGED <<pc[d], op[d], read[d], period[d], toSave[d]>>
<1>1. CASE \E o \in Op, step \in Steps : Asks(c, o, step)
  BY <1>1 DEF TypeOK, Asks, Call
<1>2. CASE Leaves(c)
  BY <1>2 DEF TypeOK, Leaves, Ends
<1>3. CASE LockKey(c) \/ Read(c) \/ Passes(c) \/ Sign(c)
  BY <1>3 DEF TypeOK, LockKey, Read, Passes, Sign, Goto
<1>4. CASE Authorize(c)
  <2>1. \E r : read' = [read EXCEPT ![c] = r]
    BY <1>4 DEF Authorize
  <2> QED
    BY <1>4, <2>1 DEF TypeOK, Authorize, Goto
<1>5. CASE Lists(c)
  <2>1. (\E r : read' = [read EXCEPT ![c] = r]) /\ (\E t : toSave' = [toSave EXCEPT ![c] = t])
    BY <1>5 DEF Lists
  <2> QED
    BY <1>5, <2>1 DEF TypeOK, Lists
<1> QED
  BY <1>1, <1>2, <1>3, <1>4, <1>5 DEF Moves

\* A call that writes ends, or stays where it is to save the next record.
LEMMA WriterEnds ==
  ASSUME IInv, NEW c \in Callers, Writes(c)
  PROVE  /\ pc'[c] \in {"idle", "saveExpired"}
         /\ \A d \in Callers : d # c =>
              UNCHANGED <<pc[d], op[d], read[d], period[d], toSave[d]>>
         /\ UNCHANGED now
<1>1. ASSUME Ends(c)
      PROVE  /\ pc'[c] = "idle"
             /\ \A d \in Callers : d # c =>
                  UNCHANGED <<pc[d], op[d], read[d], period[d], toSave[d]>>
  BY <1>1 DEF IInv, TypeOK, Ends
<1>2. ASSUME NEW k \in Keys, SaveExpired(c, k), ~Ends(c)
      PROVE  /\ pc'[c] = "saveExpired"
             /\ \A d \in Callers : d # c =>
                  UNCHANGED <<pc[d], op[d], read[d], period[d], toSave[d]>>
             /\ UNCHANGED now
  BY <1>2 DEF IInv, TypeOK, SaveExpired
<1> QED
  BY <1>1, <1>2 DEF Writes, Create, RevokeSession, ClearAll, Account, AccountRejects,
     SaveAuthorized, SaveExpired

LEMMA ReadAccountsStep ==
  ASSUME IInv, [Next]_vars
  PROVE  ReadAccounts'
<1> USE DEF IInv
<1> SUFFICES ASSUME NEW d \in Callers, pc'[d] \in {"check", "authorize", "save"}
    PROVE  /\ (read[d][Key(d)])' # None
           /\ Accounts(Key(d), read[d][Key(d)])'
           /\ (Key(d) \in revoked => read[d][Key(d)].status # "active")'
  BY DEF ReadAccounts
<1>1. CASE /\ UNCHANGED <<now, pc[d], op[d], read[d]>>
           /\ count'[Key(d)] = count[Key(d)] /\ value'[Key(d)] = value[Key(d)]
           /\ inPeriod'[Key(d)] = inPeriod[Key(d)]
           /\ Key(d) \in revoked' <=> Key(d) \in revoked
  <2>1. Key(d)' = Key(d) /\ pc[d] \in {"check", "authorize", "save"}
    BY <1>1 DEF Key
  <2> QED
    BY <1>1, <2>1 DEF ReadAccounts, Accounts, Active, Expired
<1>2. ASSUME NEW c \in Callers, Moves(c), c # d
      PROVE  UNCHANGED <<now, pc[d], op[d], read[d], history>>
  BY <1>2, MovesKeep
<1>3. CASE Moves(d)
  <2>1. UNCHANGED <<now, stored, count, value, inPeriod, revoked>>
    BY <1>3, MovesKeep DEF history
  <2>2. ~(Passes(d) \/ Sign(d) \/ Leaves(d) \/ LockKey(d) \/ Lists(d))
    BY DEF TypeOK, Passes, Sign, Leaves, LockKey, Lists, Goto, Ends
  <2>3. ~(\E o \in Op, step \in Steps : Asks(d, o, step))
    BY DEF TypeOK, Asks, Call
  <2>4. CASE Read(d)
    <3>1. Key(d)' = Key(d) /\ read'[d] = stored /\ stored[Key(d)] # None
      BY <2>4 DEF TypeOK, Read, Goto, Key
    <3>2. Key(d) \in Keys
      BY <2>4, OpOfCall DEF Read
    <3> QED
      BY <2>1, <3>1, <3>2 DEF StoredAccounts, Accounts, Active, Expired
  <2>5. CASE Authorize(d)
    <3> DEFINE k == Key(d)
               old == read[d][k]
               new == read'[d][k]
    <3>1. k \in Keys /\ read[d] \in Stores /\ pc[d] = "authorize" /\ Key(d)' = k
      BY <2>5, OpOfCall DEF Authorize, Goto, Key
    <3>2. old \in Record /\ Accounts(k, old) /\ (k \in revoked => old.status # "active")
      BY <3>1 DEF ReadAccounts, Stores
    <3>3. read' = [read EXCEPT ![d] = [read[d] EXCEPT ![k] = [old EXCEPT !.authorized = TRUE]]]
      BY <2>5 DEF Authorize
    <3>4. new = [old EXCEPT !.authorized = TRUE]
      <4> HIDE DEF k
      <4> QED
        BY <3>1, <3>3 DEF TypeOK, Stores
    <3>5. /\ new \in Record /\ new.status = old.status /\ new.useCount = old.useCount
          /\ new.spent = old.spent /\ new.period = old.period
          /\ new.periodSpent = old.periodSpent
      <4> HIDE DEF old, new
      <4> QED
        BY <3>2, <3>4 DEF Record
    <3>6. (read[d][Key(d)])' = new
      BY <3>1
    <3> HIDE DEF old, new
    <3> QED
      BY <2>1, <3>1, <3>2, <3>5, <3>6, NoneAssumption DEF Accounts, Active, Expired
  <2> QED
    BY <1>3, <2>2, <2>3, <2>4, <2>5 DEF Moves
<1>4. ASSUME NEW c \in Callers, Writes(c)
      PROVE  /\ c # d
             /\ UNCHANGED <<now, pc[d], op[d], read[d]>>
             /\ count'[Key(d)] = count[Key(d)] /\ value'[Key(d)] = value[Key(d)]
             /\ inPeriod'[Key(d)] = inPeriod[Key(d)]
             /\ Key(d) \in revoked' <=> Key(d) \in revoked
  <2>1. c # d
    BY <1>4, WriterEnds
  <2>2. pc[d] \in Locked
    BY <1>4, <2>1, WriterEnds DEF Locked
  <2> QED
    BY <1>4, <2>1, <2>2, OthersKeepHistory
<1>5. CASE Tick
  <2>1. UNCHANGED <<pc, op, read, count, value, inPeriod, revoked>> /\ Key(d)' = Key(d)
    BY <1>5 DEF Tick, calls, history, Key
  <2>2. pc[d] \in {"check", "authorize", "save"} /\ Key(d) \in Keys /\ read[d] \in Stores
    BY <2>1, OpOfCall
  <2>3. read[d][Key(d)] \in Record /\ read[d][Key(d)].period \in Nat
    BY <2>2, RecordFields DEF ReadAccounts, Stores
  <2> QED
    BY <1>5, <2>1, <2>2, <2>3, TickKeepsAccounts DEF ReadAccounts, Accounts, Active, Expired
<1>6. CASE UNCHANGED <<now, calls, history>>
  BY <1>1, <1>6 DEF calls, history
<1> QED
  BY <1>1, <1>2, <1>3, <1>4, <1>5, <1>6, NextCases DEF ExpireDetached, vars, history

\* The checks leave room in the period of the check and in every later one.
LEMMA CheckedHasRoom ==
  ASSUME IInv, NEW d \in Callers, Passes(d)
  PROVE  /\ Room(Key(d), op[d].value, {p \in Periods : p >= Period(now)})
         /\ Key(d) \notin revoked /\ read[d][Key(d)] # None
<1> USE DEF IInv
<1> DEFINE k == Key(d)
           v == op[d].value
           rec == read[d][k]
           t == Period(now)
<1>1. k \in Keys /\ v \in Nat /\ read[d] \in Stores /\ pc[d] = "check"
  BY OpOfCall, OpFields DEF Passes, Control
<1>2. rec \in Record /\ Accounts(k, rec) /\ (k \in revoked => rec.status # "active")
  BY <1>1 DEF ReadAccounts, Stores
<1>3. /\ rec.status = "active" /\ ~Expired(k) /\ rec.useCount < Scope[k].maxTxCount
      /\ rec.period <= t /\ SpentIn(rec, t) + v <= Scope[k].periodLimit
      /\ rec.spent + v <= Scope[k].maxTotalValue
  BY DEF Passes, MaySign, Valid, InScope
<1>4. /\ rec.useCount >= count[k] /\ rec.spent >= value[k]
      /\ rec.periodSpent >= inPeriod[k][rec.period]
      /\ \A p \in Periods : p > rec.period => inPeriod[k][p] = 0
  BY <1>2, <1>3 DEF Accounts, Active
<1>5. /\ rec.useCount \in Nat /\ rec.spent \in Nat /\ rec.period \in Nat
      /\ rec.periodSpent \in Nat
  BY <1>2, RecordFields
<1>6. /\ count[k] \in Nat /\ value[k] \in Nat /\ t \in Nat
      /\ \A p \in Periods : inPeriod[k][p] \in Nat /\ p \in Nat
  BY <1>1, PeriodsAreNaturals, PeriodIsPeriod DEF TypeOK
<1>7. /\ Scope[k].maxTxCount \in Nat /\ Scope[k].maxTotalValue \in Nat
      /\ Scope[k].periodLimit \in Nat
  BY <1>1, ScopeFields
<1>8. k \notin revoked /\ rec # None
  BY <1>2, <1>3, NoneAssumption
<1> HIDE DEF k, v, rec, t
<1>9. ASSUME NEW p \in Periods, p >= t
      PROVE  inPeriod[k][p] + v <= Scope[k].periodLimit
  <2>1. CASE p > rec.period
    <3>1. inPeriod[k][p] = 0
      BY <1>4, <2>1
    <3>2. SpentIn(rec, t) \in Nat
      BY <1>5 DEF SpentIn
    <3> QED
      BY <1>1, <1>3, <1>7, <3>1, <3>2
  <2>2. CASE ~(p > rec.period)
    <3>1. p = rec.period /\ rec.period = t
      BY <1>3, <1>5, <1>6, <1>9, <2>2
    <3>2. SpentIn(rec, t) = rec.periodSpent
      BY <3>1 DEF SpentIn
    <3> QED
      BY <1>1, <1>3, <1>4, <1>5, <1>6, <1>7, <3>1, <3>2
  <2> QED
    BY <2>1, <2>2
<1>10. count[k] < Scope[k].maxTxCount /\ value[k] + v <= Scope[k].maxTotalValue
  BY <1>1, <1>3, <1>4, <1>5, <1>6, <1>7
<1> QED
  BY <1>8, <1>9, <1>10 DEF Room, k, v, rec, t

\* No write without the lock puts a record that can sign where there was another.
LEMMA OthersKeepRecord ==
  ASSUME IInv, NEW d \in Callers, pc[d] = "account",
         \/ \E c \in Callers : c # d /\ Writes(c)
         \/ \E k \in Keys : ExpireDetached(k)
  PROVE  \/ stored'[Key(d)] \in {None, stored[Key(d)]}
         \/ stored'[Key(d)].status # "active"
<1> USE DEF IInv
<1>1. Key(d) \in Keys /\ read[d][Key(d)] # None /\ pc[d] \in Locked
  BY OpOfCall DEF SignersHaveRoom, Locked
<1>2. ASSUME NEW c \in Callers, c # d, Create(c)
      PROVE  Key(c) # Key(d)
  BY <1>1, <1>2, OpOfCall DEF Create, Fresh, Untouched
<1>3. ASSUME NEW c \in Callers, c # d, pc[c] \in Locked
      PROVE  Key(c) # Key(d)
  BY <1>1, <1>3, LockIsExclusive
<1>4. ASSUME NEW c \in Callers, c # d,
             Create(c) \/ RevokeSession(c) \/ Account(c) \/ AccountRejects(c) \/ SaveAuthorized(c)
      PROVE  stored'[Key(d)] = stored[Key(d)]
  <2>1. Key(c) # Key(d)
    BY <1>2, <1>3, <1>4 DEF RevokeSession, Account, AccountRejects, SaveAuthorized, Locked
  <2>2. \E r : stored' = [stored EXCEPT ![Key(c)] = r]
    BY <1>4 DEF Create, RevokeSession, Account, AccountRejects, SaveAuthorized
  <2> QED
    BY <1>1, <2>1, <2>2 DEF TypeOK, Stores
<1>5. ASSUME NEW c \in Callers, ClearAll(c)
      PROVE  stored'[Key(d)] = None
  BY <1>1, <1>5 DEF ClearAll, NoStore
<1>6. ASSUME NEW c \in Callers, NEW k \in Keys, SaveExpired(c, k)
      PROVE  stored'[Key(d)] = stored[Key(d)] \/ stored'[Key(d)].status # "active"
  <2>1. read[c][k].status = "expired"
    BY <1>6 DEF SaveExpired, ListSavesExpired
  <2> QED
    BY <1>1, <1>6, <2>1 DEF SaveExpired, TypeOK, Stores
<1>7. ASSUME NEW k \in Keys, ExpireDetached(k)
      PROVE  stored'[Key(d)] \in {None, stored[Key(d)]} \/ stored'[Key(d)].status # "active"
  BY <1>1, <1>7 DEF ExpireDetached, TypeOK, Stores, Record
<1> QED
  BY <1>4, <1>5, <1>6, <1>7 DEF Writes

LEMMA SignersHaveRoomStep ==
  ASSUME IInv, [Next]_vars
  PROVE  SignersHaveRoom'
<1> USE DEF IInv
<1> SUFFICES ASSUME NEW d \in Callers, pc'[d] \in {"sign", "account"}
    PROVE  /\ (Key(d) \notin revoked /\ read[d][Key(d)] # None)'
           /\ pc'[d] = "sign" =>
                Room(Key(d), op[d].value, {p \in Periods : p >= Period(now)})'
           /\ pc'[d] = "account" =>
                (/\ period[d] <= Period(now)
                 /\ Room(Key(d), op[d].value, {period[d]})
                 /\ stored[Key(d)] # None /\ Active(Key(d), stored[Key(d)]) =>
                      stored[Key(d)].period <= period[d])'
  BY DEF SignersHaveRoom
<1>1. CASE /\ UNCHANGED <<now, pc[d], op[d], read[d], period[d]>>
           /\ count'[Key(d)] = count[Key(d)] /\ value'[Key(d)] = value[Key(d)]
           /\ inPeriod'[Key(d)] = inPeriod[Key(d)]
           /\ Key(d) \in revoked' <=> Key(d) \in revoked
           /\ pc[d] = "account" => \/ stored'[Key(d)] \in {None, stored[Key(d)]}
                                   \/ stored'[Key(d)].status # "active"
  <2>1. Key(d)' = Key(d) /\ pc[d] \in {"sign", "account"}
    BY <1>1 DEF Key
  <2> QED
    BY <1>1, <2>1 DEF SignersHaveRoom, Room, Active, Expired
<1>2. ASSUME NEW c \in Callers, Moves(c), c # d
      PROVE  UNCHANGED <<stored, now, pc[d], op[d], read[d], period[d], history>>
  BY <1>2, MovesKeep
<1>3. CASE Moves(d)
  <2>1. UNCHANGED <<stored, now, count, value, inPeriod, revoked>>
    BY <1>3, MovesKeep DEF history
  <2>2. ~(Leaves(d) \/ LockKey(d) \/ Lists(d) \/ Read(d) \/ Authorize(d))
    BY DEF TypeOK, Read, Authorize, Leaves, LockKey, Lists, Goto, Ends
  <2>3. ~(\E o \in Op, step \in Steps : Asks(d, o, step))
    BY DEF TypeOK, Asks, Call
  <2>4. CASE Passes(d)
    <3>1. Key(d)' = Key(d) /\ pc'[d] = "sign" /\ UNCHANGED <<op, read>>
      BY <2>4 DEF TypeOK, Passes, Goto, Key
    <3> QED
      BY <2>1, <2>4, <3>1, CheckedHasRoom DEF Room
  <2>5. CASE Sign(d)
    <3>1. /\ Key(d)' = Key(d) /\ pc[d] = "sign" /\ pc'[d] = "account"
          /\ UNCHANGED <<op, read>> /\ period'[d] = Period(now)
      BY <2>5 DEF TypeOK, Sign, Goto, Key
    <3>2. Key(d) \in Keys /\ Period(now) \in Periods /\ Period(now) \in Nat
      BY <3>1, OpOfCall, PeriodIsPeriod DEF TypeOK
    <3>3. Room(Key(d), op[d].value, {Period(now)})
      BY <3>1, <3>2 DEF SignersHaveRoom, Room
    <3>4. stored[Key(d)] # None /\ Active(Key(d), stored[Key(d)]) =>
            stored[Key(d)].period <= Period(now)
      BY <3>2 DEF StoredAccounts, Accounts
    <3> QED
      BY <2>1, <3>1, <3>2, <3>3, <3>4 DEF SignersHaveRoom, Room, Active, Expired
  <2> QED
    BY <1>3, <2>2, <2>3, <2>4, <2>5 DEF Moves
<1>4. ASSUME NEW c \in Callers, Writes(c)
      PROVE  /\ c # d
             /\ UNCHANGED <<now, pc[d], op[d], read[d], period[d]>>
             /\ count'[Key(d)] = count[Key(d)] /\ value'[Key(d)] = value[Key(d)]
             /\ inPeriod'[Key(d)] = inPeriod[Key(d)]
             /\ Key(d) \in revoked' <=> Key(d) \in revoked
  <2>1. c # d
    BY <1>4, WriterEnds
  <2>2. pc[d] \in Locked
    BY <1>4, <2>1, WriterEnds DEF Locked
  <2> QED
    BY <1>4, <2>1, <2>2, OthersKeepHistory
<1>5. CASE Tick
  <2>1. UNCHANGED <<stored, pc, op, read, period, count, value, inPeriod, revoked>>
    BY <1>5 DEF Tick, calls, history
  <2>2. Key(d)' = Key(d)
    BY <2>1 DEF Key
  <2>3. Key(d) \in Keys /\ period[d] \in Nat
    BY <2>1, OpOfCall, PeriodsAreNaturals DEF TypeOK
  <2>4. /\ Expired(Key(d)) => Scope[Key(d)].expiry <= now'
        /\ Period(now) \in Nat /\ Period(now') \in Nat /\ Period(now) <= Period(now')
    BY <1>5, <2>3, NewRecordIsRecord, TickKeepsAccounts DEF Modes
  <2>5. ASSUME NEW p \in Periods, p >= Period(now') PROVE p >= Period(now)
    <3>1. p \in Nat
      BY PeriodsAreNaturals
    <3> QED
      BY <2>4, <2>5, <3>1
  <2>6. (Key(d) \notin revoked /\ read[d][Key(d)] # None)'
    BY <2>1, <2>2 DEF SignersHaveRoom
  <2>7. pc'[d] = "sign" => Room(Key(d), op[d].value, {q \in Periods : q >= Period(now)})'
    BY <2>1, <2>2, <2>5 DEF SignersHaveRoom, Room
  <2>8. ASSUME pc'[d] = "account"
        PROVE  /\ period'[d] <= Period(now') /\ Room(Key(d), op[d].value, {period[d]})'
               /\ stored'[Key(d)] # None /\ Active(Key(d), stored[Key(d)])' => stored'[Key(d)].period <= period'[d]
    <3>1. period[d] <= Period(now) /\ Room(Key(d), op[d].value, {period[d]})
      BY <2>1, <2>8 DEF SignersHaveRoom
    <3>2. Active(Key(d), stored[Key(d)])' => Active(Key(d), stored[Key(d)])
      BY <2>1, <2>2, <2>4 DEF Active, Expired
    <3>3. Room(Key(d), op[d].value, {period[d]})'
      BY <2>1, <2>2, <3>1 DEF Room
    <3>4. stored'[Key(d)] # None /\ Active(Key(d), stored[Key(d)])' => stored'[Key(d)].period <= period'[d]
      BY <2>1, <2>2, <2>8, <3>2 DEF SignersHaveRoom
    <3>5. period[d] <= Period(now')
      BY <2>3, <2>4, <3>1
    <3> QED
      BY <2>1, <2>2, <3>3, <3>4, <3>5
  <2> QED
    BY <2>1, <2>2, <2>6, <2>7, <2>8
<1>6. ASSUME NEW k \in Keys, ExpireDetached(k)
      PROVE  UNCHANGED <<now, pc, op, read, period, count, value, inPeriod, revoked>>
  BY <1>6 DEF ExpireDetached, calls, history
<1>7. CASE UNCHANGED vars
  BY <1>1, <1>7 DEF vars, calls, history
<1> QED
  BY <1>1, <1>2, <1>3, <1>4, <1>5, <1>6, <1>7, OthersKeepRecord, NextCases DEF history

LEMMA ListSavesExpiredStep ==
  ASSUME IInv, [Next]_vars
  PROVE  ListSavesExpired'
<1> USE DEF IInv
<1> SUFFICES ASSUME NEW d \in Callers, NEW j \in Keys, j \in toSave'[d]
    PROVE  read'[d][j] # None /\ read'[d][j].status = "expired"
  BY DEF ListSavesExpired
<1>1. CASE UNCHANGED <<read[d], toSave[d]>>
  BY <1>1 DEF ListSavesExpired
<1>2. ASSUME Ends(d)
      PROVE  FALSE
  BY <1>2 DEF TypeOK, Ends
<1>3. CASE Lists(d)
  <2>1. /\ read'[d][j] = Marked(j, stored[j])
        /\ Marked(j, stored[j]) # None /\ Marked(j, stored[j]).status = "expired"
    BY <1>3 DEF TypeOK, Lists
  <2> QED
    BY <2>1
<1>4. CASE Moves(d) /\ ~Lists(d)
  <2>1. UNCHANGED toSave
    BY <1>2, <1>4 DEF Moves, Leaves, Asks, Call, LockKey, Read, Passes, Sign, Authorize, Goto
  <2>2. pc[d] = "saveExpired"
    BY <2>1 DEF Control
  <2> QED
    BY <1>4, <2>2 DEF TypeOK, Moves, Leaves, Asks, Call, LockKey, Read, Passes, Sign,
       Authorize, Ends, Steps
<1>5. ASSUME NEW k \in Keys, SaveExpired(d, k)
      PROVE  UNCHANGED read /\ j \in toSave[d]
  BY <1>2, <1>5 DEF SaveExpired, TypeOK
<1>6. CASE Writes(d)
  <2>1. \E k \in Keys : SaveExpired(d, k)
    BY <1>2, <1>6 DEF Writes, Create, RevokeSession, ClearAll, Account, AccountRejects,
       SaveAuthorized
  <2> QED
    BY <1>5, <2>1 DEF ListSavesExpired
<1>7. ASSUME NEW c \in Callers, Moves(c) \/ Writes(c), c # d
      PROVE  UNCHANGED <<read[d], toSave[d]>>
  BY <1>7, MovesKeep, WriterEnds
<1> QED
  BY <1>1, <1>3, <1>4, <1>6, <1>7, NextCases DEF ExpireDetached, Tick, vars, calls

--------------------------------------------------------------------------------
(* Ids are not used twice. *)

\* A write to a key that has no record is its creation.
LEMMA WritesKnown ==
  ASSUME IInv, NEW k \in Keys, stored[k] = None, k \notin cleared,
         \/ \E c \in Callers : Writes(c) /\ ~(Create(c) /\ Key(c) = k)
         \/ \E j \in Keys : ExpireDetached(j)
  PROVE  /\ stored'[k] = None /\ k \notin cleared'
         /\ count'[k] = count[k] /\ value'[k] = value[k] /\ inPeriod'[k] = inPeriod[k]
         /\ k \in revoked' <=> k \in revoked
         /\ \A d \in Callers : read'[d] \in {read[d], NoStore}
<1> USE DEF IInv
<1>1. Untouched(k)
  BY DEF Fresh
<1>2. ASSUME NEW c \in Callers, Ends(c)
      PROVE  \A d \in Callers : read'[d] \in {read[d], NoStore}
  BY <1>2 DEF TypeOK, Ends
<1>3. ASSUME NEW c \in Callers, Create(c), Key(c) # k
      PROVE  stored'[k] = None /\ UNCHANGED history
  BY <1>3, OpOfCall DEF Create, TypeOK, Stores
<1>4. ASSUME NEW c \in Callers, RevokeSession(c)
      PROVE  stored'[k] = None /\ revoked' = revoked \cup {Key(c)} /\ Key(c) # k
  <2>1. Key(c) # k
    BY <1>4 DEF RevokeSession
  <2> QED
    BY <1>4, <2>1, OpOfCall DEF RevokeSession, TypeOK, Stores
<1>5. ASSUME NEW c \in Callers, ClearAll(c)
      PROVE  stored'[k] = None /\ k \notin cleared'
  BY <1>5 DEF ClearAll, NoStore
<1>6. ASSUME NEW c \in Callers, Account(c) \/ AccountRejects(c)
      PROVE  /\ stored'[k] = None /\ UNCHANGED <<revoked, cleared>>
             /\ count'[k] = count[k] /\ value'[k] = value[k] /\ inPeriod'[k] = inPeriod[k]
  <2>1. Key(c) # k
    BY <1>6 DEF Account, AccountRejects
  <2>2. /\ \E r : stored' = [stored EXCEPT ![Key(c)] = r]
        /\ UNCHANGED count \/ \E n : count' = [count EXCEPT ![Key(c)] = n]
        /\ UNCHANGED value \/ \E n : value' = [value EXCEPT ![Key(c)] = n]
        /\ UNCHANGED inPeriod \/ \E n : inPeriod' = [inPeriod EXCEPT ![Key(c)] = n]
    BY <1>6 DEF Account, AccountRejects, history
  <2>3. UNCHANGED <<revoked, cleared>>
    BY <1>6 DEF Account, AccountRejects, history
  <2> QED
    BY <2>1, <2>2, <2>3 DEF TypeOK, Stores
<1>7. ASSUME NEW c \in Callers, SaveAuthorized(c)
      PROVE  stored'[k] = None /\ UNCHANGED history
  <2>1. Key(c) # k
    BY <1>1, <1>7 DEF SaveAuthorized, ReadAccounts, Untouched
  <2> QED
    BY <1>7, <2>1 DEF SaveAuthorized, TypeOK, Stores
<1>8. ASSUME NEW c \in Callers, NEW j \in Keys, SaveExpired(c, j)
      PROVE  /\ stored'[k] = None /\ UNCHANGED history
             /\ \A d \in Callers : read'[d] \in {read[d], NoStore}
  <2>1. j # k
    BY <1>1, <1>8 DEF SaveExpired, ListSavesExpired, Untouched
  <2> QED
    BY <1>2, <1>8, <2>1 DEF SaveExpired, TypeOK, Stores
<1>9. ASSUME NEW j \in Keys, ExpireDetached(j)
      PROVE  stored'[k] = None /\ UNCHANGED <<read, history>>
  BY <1>9 DEF ExpireDetached, TypeOK, Stores, calls
<1>10. ASSUME NEW c \in Callers, Writes(c)
       PROVE  \A d \in Callers : read'[d] \in {read[d], NoStore}
  BY <1>2, <1>8, <1>10 DEF Writes, Create, RevokeSession, ClearAll, Account, AccountRejects,
     SaveAuthorized
<1>11. ASSUME NEW c \in Callers, Writes(c), ~(Create(c) /\ Key(c) = k)
       PROVE  /\ stored'[k] = None /\ k \notin cleared'
              /\ count'[k] = count[k] /\ value'[k] = value[k] /\ inPeriod'[k] = inPeriod[k]
              /\ k \in revoked' <=> k \in revoked
  BY <1>3, <1>4, <1>5, <1>6, <1>7, <1>8, <1>11 DEF Writes, RevokeSession, ClearAll, history
<1> QED
  BY <1>9, <1>10, <1>11 DEF history

\* An update of a record leaves a record.
LEMMA UpdatesKeep ==
  ASSUME IInv, NEW c \in Callers, Account(c) \/ AccountRejects(c) \/ RevokeSession(c)
  PROVE  stored'[Key(c)] # None
<1>1. Key(c) \in Keys /\ stored[Key(c)] \in Record
  BY OpOfCall DEF Account, AccountRejects, RevokeSession, IInv, TypeOK, Stores
<1>2. CASE RevokeSession(c)
  <2>1. [stored[Key(c)] EXCEPT !.status = "revoked"] \in Record
    BY <1>1 DEF Record
  <2>2. stored'[Key(c)] = [stored[Key(c)] EXCEPT !.status = "revoked"]
    BY <1>1, <1>2 DEF RevokeSession, IInv, TypeOK, Stores
  <2> QED
    BY <2>1, <2>2, NoneAssumption
<1>3. CASE Account(c) \/ AccountRejects(c)
  <2>1. Used(stored[Key(c)], op[c].value, period[c]) \in Record
    BY <1>3, AccountedRecord DEF Account, AccountRejects, IInv
  <2>2. stored'[Key(c)] = Used(stored[Key(c)], op[c].value, period[c])
    BY <1>1, <1>3 DEF Account, AccountRejects, IInv, TypeOK, Stores
  <2> QED
    BY <2>1, <2>2, NoneAssumption
<1> QED
  BY <1>2, <1>3

LEMMA FreshStep ==
  ASSUME IInv, [Next]_vars
  PROVE  Fresh'
<1> USE DEF IInv
<1>1. ASSUME UNCHANGED <<stored, history>>, \A d \in Callers : read'[d] \in {read[d], NoStore},
             \A d \in Callers : pc'[d] = "create" => pc[d] = "create" /\ UNCHANGED op[d]
      PROVE  Fresh'
  BY <1>1 DEF Fresh, Untouched, history, NoStore, Key
<1>2. ASSUME NEW c \in Callers, NEW k \in Keys, stored[k] = None, k \notin cleared, Moves(c)
      PROVE  \A d \in Callers : read'[d][k] = None
  <2>1. Untouched(k)
    BY <1>2 DEF Fresh
  <2>2. \A d \in Callers : d # c => read'[d] = read[d]
    BY <1>2, MovesKeep
  <2>3. CASE Read(c)
    BY <1>2, <2>1, <2>3 DEF Read, TypeOK, Untouched
  <2>4. CASE Lists(c)
    BY <1>2, <2>1, <2>4 DEF Lists, TypeOK, Untouched, Marked
  <2>5. CASE Authorize(c)
    <3>1. Key(c) # k
      BY <2>1, <2>5 DEF Authorize, ReadAccounts, Untouched
    <3>2. \E r : read' = [read EXCEPT ![c] = [read[c] EXCEPT ![Key(c)] = r]]
      BY <2>5 DEF Authorize
    <3>3. read'[c][k] = read[c][k]
      BY <3>1, <3>2 DEF TypeOK, Stores
    <3> QED
      BY <2>1, <2>2, <3>3 DEF Untouched
  <2>6. CASE Leaves(c)
    BY <2>1, <2>6 DEF Leaves, Ends, NoStore, TypeOK, Untouched
  <2>7. CASE (\E o \in Op, step \in Steps : Asks(c, o, step)) \/ LockKey(c) \/ Passes(c) \/ Sign(c)
    BY <2>1, <2>7 DEF Asks, Call, LockKey, Passes, Sign, Untouched
  <2> QED
    BY <1>2, <2>3, <2>4, <2>5, <2>6, <2>7 DEF Moves
<1>3. ASSUME NEW c \in Callers, Moves(c)
      PROVE  Fresh'
  <2>1. UNCHANGED <<stored, history>>
    BY <1>3, MovesKeep
  <2>2. \A k \in Keys : stored[k] = None /\ k \notin cleared => Untouched(k)'
    BY <1>2, <1>3, <2>1 DEF Fresh, Untouched, history
  <2>3. CASE \E o \in Op, step \in Steps : Asks(c, o, step)
    <3>1. PICK o \in Op, step \in Steps : Asks(c, o, step)
      BY <2>3
    <3>2. /\ pc'[c] = step /\ op'[c] = o
          /\ \A d \in Callers : d # c => pc'[d] = pc[d] /\ op'[d] = op[d]
      BY <3>1 DEF Asks, Call, TypeOK
    <3>3. ASSUME step = "create"
          PROVE  /\ stored[o.key] = None /\ o.key \notin cleared
                 /\ \A d \in Callers : d # c /\ pc[d] = "create" => op[d].key # o.key
      BY <3>1, <3>3 DEF Asks, Control
    <3> QED
      BY <2>1, <2>2, <3>2, <3>3 DEF Fresh, Key, history
  <2>4. CASE ~(\E o \in Op, step \in Steps : Asks(c, o, step))
    <3>1. pc'[c] # "create"
      BY <1>3, <2>4 DEF TypeOK, Moves, Leaves, LockKey, Read, Passes, Sign, Authorize, Lists,
         Goto, Ends
    <3>2. \A d \in Callers : pc'[d] = "create" => pc[d] = "create" /\ op'[d] = op[d]
      BY <1>3, <3>1, MovesKeep
    <3> QED
      BY <2>1, <2>2, <3>2 DEF Fresh, Key, history
  <2> QED
    BY <2>3, <2>4
<1>4. ASSUME NEW k \in Keys, stored'[k] = None, k \notin cleared',
             NEW c \in Callers, Writes(c)
      PROVE  stored[k] = None /\ k \notin cleared /\ ~(Create(c) /\ Key(c) = k)
  <2>1. ~(Create(c) /\ Key(c) = k)
    BY <1>4, NewRecordIsRecord, OpOfCall, OpFields, NoneAssumption
       DEF Create, Control, TypeOK, Stores
  <2>2. k \notin cleared
    BY <1>4 DEF Writes, Create, RevokeSession, ClearAll, Account, AccountRejects,
       SaveAuthorized, SaveExpired, history
  <2>3. ASSUME ClearAll(c)
        PROVE  stored[k] = None
    BY <1>4, <2>3 DEF ClearAll
  <2>4. ASSUME Create(c) \/ Account(c) \/ AccountRejects(c) \/ RevokeSession(c)
        PROVE  stored[k] = None
    <3>1. \E r : stored' = [stored EXCEPT ![Key(c)] = r]
      BY <2>4 DEF Create, Account, AccountRejects, RevokeSession
    <3>2. Key(c) # k
      <4>1. CASE Create(c)
        BY <2>1, <4>1
      <4>2. CASE ~Create(c)
        BY <1>4, <2>4, <4>2, UpdatesKeep
      <4> QED
        BY <4>1, <4>2
    <3> QED
      BY <1>4, <3>1, <3>2 DEF TypeOK, Stores
  <2>5. ASSUME SaveAuthorized(c)
        PROVE  stored[k] = None
    BY <1>4, <2>5, OpOfCall DEF SaveAuthorized, ReadAccounts, TypeOK, Stores
  <2>6. ASSUME NEW j \in Keys, SaveExpired(c, j)
        PROVE  stored[k] = None
    BY <1>4, <2>6 DEF SaveExpired, ListSavesExpired, TypeOK, Stores
  <2> QED
    BY <1>4, <2>1, <2>2, <2>3, <2>4, <2>5, <2>6 DEF Writes
<1>5. ASSUME NEW c \in Callers, Writes(c)
      PROVE  Fresh'
  <2>1. \A d \in Callers : pc'[d] = "create" =>
          d # c /\ pc[d] = "create" /\ UNCHANGED op[d]
    BY <1>5, WriterEnds
  <2>2. ASSUME NEW k \in Keys, stored'[k] = None, k \notin cleared'
        PROVE  Untouched(k)'
    BY <1>4, <1>5, <2>2, WritesKnown DEF Fresh, Untouched, NoStore
  <2>3. ASSUME NEW d \in Callers, pc'[d] = "create"
        PROVE  stored'[Key(d)'] = None /\ Key(d)' \notin cleared'
    <3>1. /\ d # c /\ pc[d] = "create" /\ Key(d)' = Key(d) /\ Key(d) \in Keys
          /\ stored[Key(d)] = None /\ Key(d) \notin cleared
      BY <2>1, <2>3, OpOfCall DEF Fresh, Key
    <3>2. ~(Create(c) /\ Key(c) = Key(d))
      BY <3>1 DEF Create, Fresh
    <3> QED
      BY <1>5, <3>1, <3>2, WritesKnown
  <2> QED
    BY <2>1, <2>2, <2>3 DEF Fresh, Key
<1>6. ASSUME NEW j \in Keys, ExpireDetached(j)
      PROVE  Fresh'
  <2>1. ASSUME NEW k \in Keys, stored'[k] = None
        PROVE  stored[k] = None
    <3>1. stored[k] # None => [stored[k] EXCEPT !.status = "expired"] \in Record
      <4>1. stored[k] # None => stored[k] \in Record
        BY DEF TypeOK, Stores
      <4> QED
        BY <4>1 DEF Record
    <3>2. stored'[k] \in {stored[k], [stored[k] EXCEPT !.status = "expired"]}
      BY <1>6 DEF ExpireDetached, TypeOK, Stores
    <3> QED
      BY <2>1, <3>1, <3>2, NoneAssumption
  <2>2. UNCHANGED <<pc, op, read, history>>
    BY <1>6 DEF ExpireDetached, calls
  <2>3. \A k \in Keys : stored[k] = None => stored'[k] = None
    BY <1>6 DEF ExpireDetached, TypeOK, Stores
  <2>4. \A d \in Callers : pc[d] = "create" => Key(d) \in Keys
    BY OpOfCall
  <2> QED
    BY <2>1, <2>2, <2>3, <2>4 DEF Fresh, Untouched, Key, history
<1> QED
  BY <1>1, <1>3, <1>5, <1>6, NextCases DEF Tick, vars, calls

--------------------------------------------------------------------------------
(* The theorems. *)

LEMMA BudgetStep ==
  ASSUME IInv, [Next]_vars
  PROVE  BudgetKept'
<1> USE DEF IInv
<1>1. CASE UNCHANGED <<count, value, inPeriod>>
  BY <1>1 DEF BudgetKept
<1>2. ASSUME NEW c \in Callers, Account(c)
      PROVE  BudgetKept'
  <2> DEFINE k == Key(c)
             v == op[c].value
             p == period[c]
  <2>1. k \in Keys /\ v \in Nat /\ p \in Periods
    BY <1>2, AccountedRecord DEF Account
  <2>2. Room(k, v, {p})
    BY <1>2 DEF Account, SignersHaveRoom
  <2>3. /\ count' = [count EXCEPT ![k] = count[k] + 1]
        /\ value' = [value EXCEPT ![k] = value[k] + v]
        /\ inPeriod' = [inPeriod EXCEPT ![k] = [inPeriod[k] EXCEPT ![p] = inPeriod[k][p] + v]]
    BY <1>2 DEF Account
  <2>4. Scope[k].maxTxCount \in Nat
    BY <2>1, ScopeFields
  <2> HIDE DEF k, v, p
  <2>5. /\ count'[k] = count[k] + 1 /\ value'[k] = value[k] + v
        /\ inPeriod'[k][p] = inPeriod[k][p] + v
        /\ \A q \in Periods : q # p => inPeriod'[k][q] = inPeriod[k][q]
    BY <2>1, <2>3 DEF TypeOK
  <2>6. \A j \in Keys : j # k =>
          count'[j] = count[j] /\ value'[j] = value[j] /\ inPeriod'[j] = inPeriod[j]
    BY <2>1, <2>3 DEF TypeOK
  <2>7. count[k] \in Nat
    BY <2>1 DEF TypeOK
  <2> QED
    BY <2>2, <2>4, <2>5, <2>6, <2>7 DEF BudgetKept, Room
<1>3. ASSUME NEW c \in Callers, Writes(c), ~Account(c)
      PROVE  UNCHANGED <<count, value, inPeriod>>
  BY <1>3 DEF Writes, Create, RevokeSession, ClearAll, AccountRejects, SaveAuthorized,
     SaveExpired, history
<1>4. ASSUME NEW c \in Callers, Moves(c)
      PROVE  UNCHANGED <<count, value, inPeriod>>
  BY <1>4, MovesKeep DEF history
<1> QED
  BY <1>1, <1>2, <1>3, <1>4, NextCases DEF ExpireDetached, Tick, vars, history

LEMMA InitInvariant ==
  ASSUME Init
  PROVE  IInv
<1>1. TypeOK
  <2>1. NoStore \in Stores /\ 0 \in 0 .. MaxTime
    BY ConstantsAssumption DEF NoStore, Stores
  <2> QED
    BY <2>1, PeriodsAreNaturals DEF Init, TypeOK, Steps
<1>2. Control /\ ReadAccounts /\ SignersHaveRoom
  BY DEF Init, Control, ReadAccounts, SignersHaveRoom, Locked
<1>3. StoredAccounts /\ ListSavesExpired
  BY DEF Init, NoStore, StoredAccounts, ListSavesExpired
<1>4. Fresh
  BY DEF Init, NoStore, Fresh, Untouched
<1>5. BudgetKept
  BY ScopeFields DEF Init, BudgetKept
<1> QED
  BY <1>1, <1>2, <1>3, <1>4, <1>5 DEF IInv

LEMMA NextInvariant ==
  ASSUME IInv, [Next]_vars
  PROVE  IInv'
BY TypeStep, ControlStep, StoredAccountsStep, ReadAccountsStep, SignersHaveRoomStep,
   ListSavesExpiredStep, FreshStep, BudgetStep DEF IInv

\* The inductive invariant: a call that has read a record under the lock of its
\* key knows all the signatures of the key until it gives the lock back.
THEOREM Invariance == Spec => []IInv
<1>1. Init => IInv
  BY InitInvariant
<1>2. IInv /\ [Next]_vars => IInv'
  BY NextInvariant
<1> QED
  BY <1>1, <1>2, PTL DEF Spec

\* The variables keep their types: the stored array, the calls in flight and
\* the locks of SessionKeyManager.
THEOREM TypeCorrect == Spec => []TypeOK
<1>1. IInv => TypeOK
  BY DEF IInv
<1> QED
  BY <1>1, Invariance, PTL

\* The limits of maxTxCount, maxTotalValue and the native period limit hold for
\* all the signatures signTransaction returns, in any number of tabs.
THEOREM BudgetIsKept == Spec => []BudgetKept
<1>1. IInv => BudgetKept
  BY DEF IInv
<1> QED
  BY <1>1, Invariance, PTL

\* The stored record of a key that can sign counts at least what was signed:
\* no whole-record write of storage.save or refreshCache undoes an increment.
THEOREM UsableAccounted == Spec => []UsableIsAccounted
<1>1. IInv => UsableIsAccounted
  BY DEF IInv, StoredAccounts, Accounts, Active, UsableIsAccounted
<1> QED
  BY <1>1, Invariance, PTL

\* After revokeSession has returned, no call signs with the key and no write,
\* of a copy read before it or of a new record, makes the key active again.
THEOREM RevocationIsFinal == Spec => RevocationHolds
<1> DEFINE Holds == \A k \in revoked :
                      /\ count'[k] = count[k]
                      /\ stored'[k] # None => stored'[k].status # "active"
<1>1. IInv /\ IInv' /\ [Next]_vars => [Holds]_vars
  <2> SUFFICES ASSUME IInv, IInv', Next, NEW k \in revoked
      PROVE  /\ count'[k] = count[k]
             /\ stored'[k] # None => stored'[k].status # "active"
    OBVIOUS
  <2>1. k \in Keys
    BY DEF IInv, TypeOK
  <2>2. revoked \subseteq revoked'
    <3>1. ASSUME NEW c \in Callers, Writes(c)
          PROVE  revoked \subseteq revoked'
      BY <3>1 DEF Writes, Create, RevokeSession, ClearAll, Account, AccountRejects,
         SaveAuthorized, SaveExpired, history
    <3> QED
      BY <3>1, MovesKeep, NextCases DEF IInv, ExpireDetached, Tick, vars, history
  <2>3. stored'[k] # None => stored'[k].status # "active"
    BY <2>1, <2>2 DEF IInv, StoredAccounts
  <2>4. ASSUME NEW c \in Callers, Account(c)
        PROVE  count'[k] = count[k]
    <3>1. Key(c) # k
      BY <2>4 DEF Account, IInv, SignersHaveRoom
    <3> QED
      BY <2>1, <2>4, <3>1 DEF Account, IInv, TypeOK
  <2>5. ASSUME NEW c \in Callers, Writes(c), ~Account(c)
        PROVE  UNCHANGED count
    BY <2>5 DEF Writes, Create, RevokeSession, ClearAll, AccountRejects, SaveAuthorized,
       SaveExpired, history
  <2>6. count'[k] = count[k]
    BY <2>4, <2>5, MovesKeep, NextCases DEF IInv, ExpireDetached, Tick, vars, history
  <2> QED
    BY <2>3, <2>6
<1> QED
  BY <1>1, Invariance, PTL DEF Spec, RevocationHolds

--------------------------------------------------------------------------------
(* Sequences that record what was signed.                                         *)

LEMMA SomeAreFinite ==
  ASSUME NEW n \in Nat, NEW S, S \subseteq 1..n
  PROVE  IsFiniteSet(S)
<1>1. IsFiniteSet(1..n)
  BY FS_Interval
<1> QED
  BY <1>1, FS_Subset

LEMMA Appended ==
  ASSUME NEW T, NEW h \in Seq(T), NEW x \in T
  PROVE  /\ Append(h, x) \in Seq(T) /\ Len(h) \in Nat /\ Len(Append(h, x)) = Len(h) + 1
         /\ DOMAIN h = 1..Len(h) /\ DOMAIN Append(h, x) = 1..(Len(h) + 1)
         /\ \A i \in 1..Len(h) : Append(h, x)[i] = h[i] /\ h[i] \in T
         /\ Append(h, x)[Len(h) + 1] = x
  OBVIOUS

--------------------------------------------------------------------------------
(* What a scope counts, as one more operation is added. *)

Run == [target : {"token", "dapp", "payee", "owner"}, value : Nat, data : Calls, at : Nat]

LEMMA RunAmount ==
  ASSUME NEW x \in Run
  PROVE  x.data.amount \in Nat /\ x.value \in Nat /\ x.at \in Nat
BY DEF Run, Calls, Plain

\* What was there before an element is there after another is appended.
LEMMA PrefixKept ==
  ASSUME NEW T, NEW h \in Seq(T), NEW x \in T, NEW i \in 1..Len(h)
  PROVE  SubSeq(Append(h, x), 1, i - 1) = SubSeq(h, 1, i - 1)
<1> DEFINE m == Append(h, x)
           a == SubSeq(m, 1, i - 1)
           b == SubSeq(h, 1, i - 1)
<1>1. i \in Int /\ i - 1 \in Int /\ i - 1 <= Len(h) /\ Len(h) \in Nat
  OBVIOUS
<1>2. \A j \in 1..(i - 1) : m[j] = h[j] /\ h[j] \in T
  BY <1>1, Appended
<1> HIDE DEF m
<1>3. /\ a \in Seq(T) /\ b \in Seq(T) /\ Len(a) = Len(b)
      /\ \A j \in 1..(i - 1) : a[j] = m[1 + j - 1] /\ b[j] = h[1 + j - 1]
      /\ Len(a) = i - 1
  BY <1>1, <1>2, SubSeqProperties
<1>4. \A j \in 1..Len(a) : a[j] = b[j]
  <2> SUFFICES ASSUME NEW j \in 1..(i - 1) PROVE a[j] = b[j]
    BY <1>3
  <2>1. 1 + j - 1 = j /\ m[j] = h[j]
    BY <1>1, <1>2
  <2> HIDE DEF a, b
  <2> QED
    BY <1>3, <2>1
<1> HIDE DEF a, b
<1>5. a = b
  BY <1>3, <1>4, SeqEqual
<1> QED
  BY <1>5 DEF a, b, m

LEMMA TokenSpentAppends ==
  ASSUME NEW s, NEW h \in Seq(Run), NEW x \in Run
  PROVE  /\ TokenSpent(s, h) \in Nat
         /\ TokenSpent(s, Append(h, x)) = TokenSpent(s, h) + (IF IsToken(s, x) THEN x.data.amount ELSE 0)
<1> DEFINE n == Len(h)
           S == TokenSpends(s, h)
           m == Append(h, x)
           g == [i \in S |-> h[i].data.amount]
           f == [i \in TokenSpends(s, m) |-> m[i].data.amount]
<1>1. n \in Nat /\ S \subseteq 1..n /\ g \in [S -> Nat]
  BY Appended, RunAmount DEF TokenSpends
<1>7. IsFiniteSet(S) /\ g \in [S -> Nat]
  BY <1>1, SomeAreFinite
<1>2. TokenSpends(s, m) = IF IsToken(s, x) THEN S \cup {n + 1} ELSE S
  BY Appended DEF TokenSpends
<1>3. \A i \in S : m[i] = h[i]
  BY <1>1, Appended
<1>4. TokenSpent(s, h) = SumFunction(g) /\ TokenSpent(s, m) = SumFunction(f)
  BY DEF TokenSpent
<1>5. CASE IsToken(s, x)
  <2> DEFINE z == n + 1
  <2>0. z \notin S
    BY <1>1
  <2>1. f \in [S \cup {z} -> Nat] /\ f[z] = x.data.amount /\ \A i \in S : f[i] = g[i]
    BY <1>1, <1>2, <1>3, <1>5, Appended, RunAmount
  <2> HIDE DEF f, g, S, n, z
  <2>2. Grows(g, f, S, z)
    BY <1>7, <2>0, <2>1 DEF Grows
  <2> QED
    BY <1>4, <1>5, <2>1, <2>2, SumGrows
<1>6. CASE ~IsToken(s, x)
  <2>1. f = g
    BY <1>2, <1>3, <1>6
  <2>2. SumFunction(g) \in Nat
    BY <1>7, SumNat
  <2> HIDE DEF f, g, S, n
  <2> QED
    BY <1>4, <1>6, <2>1, <2>2
<1> QED
  BY <1>5, <1>6

LEMMA ValueSpentAppends ==
  ASSUME NEW h \in Seq(Run), NEW x \in Run
  PROVE  ValueSpent(h) \in Nat /\ ValueSpent(Append(h, x)) = ValueSpent(h) + x.value
<1> DEFINE n == Len(h)
           m == Append(h, x)
           g == [i \in DOMAIN h |-> h[i].value]
           f == [i \in DOMAIN m |-> m[i].value]
<1>1. n \in Nat /\ DOMAIN h = 1..n /\ g \in [1..n -> Nat]
  BY Appended, RunAmount
<1> DEFINE S == 1..n
           z == n + 1
<1>2. IsFiniteSet(S) /\ g \in [S -> Nat] /\ z \notin S
  BY <1>1, SomeAreFinite
<1>3. f \in [S \cup {z} -> Nat] /\ f[z] = x.value /\ \A i \in S : f[i] = g[i]
  <2>1. DOMAIN m = S \cup {z}
    BY Appended
  <2> QED
    BY <1>1, <2>1, Appended, RunAmount
<1>4. ValueSpent(h) = SumFunction(g) /\ ValueSpent(m) = SumFunction(f)
  BY DEF ValueSpent
<1> HIDE DEF f, g, S, z
<1>5. Grows(g, f, S, z)
  BY <1>2, <1>3 DEF Grows
<1> QED
  BY <1>3, <1>4, <1>5, SumGrows

LEMMA PeriodUsedAppends ==
  ASSUME NEW s, NEW h \in Seq(Run), NEW x \in Run, NEW t
  PROVE  /\ PeriodUsed(s, h, t) \in Nat
         /\ PeriodUsed(s, Append(h, x), t) =
              PeriodUsed(s, h, t) + (IF InPeriod(s, x) /\ x.at = t THEN PeriodAmount(s, x) ELSE 0)
<1> DEFINE n == Len(h)
           m == Append(h, x)
           S == {j \in DOMAIN h : InPeriod(s, h[j]) /\ h[j].at = t}
           R == {j \in DOMAIN m : InPeriod(s, m[j]) /\ m[j].at = t}
           g == [i \in S |-> PeriodAmount(s, h[i])]
           f == [i \in R |-> PeriodAmount(s, m[i])]
<1>0. \A y \in Run : PeriodAmount(s, y) \in Nat
  BY RunAmount DEF PeriodAmount
<1>1. n \in Nat /\ S \subseteq 1..n /\ g \in [S -> Nat]
  BY <1>0, Appended
<1>7. IsFiniteSet(S) /\ g \in [S -> Nat]
  BY <1>1, SomeAreFinite
<1>2. R = IF InPeriod(s, x) /\ x.at = t THEN S \cup {n + 1} ELSE S
  BY Appended
<1>3. \A i \in S : m[i] = h[i]
  BY <1>1, Appended
<1>4. PeriodUsed(s, h, t) = SumFunction(g) /\ PeriodUsed(s, m, t) = SumFunction(f)
  BY DEF PeriodUsed
<1>5. CASE InPeriod(s, x) /\ x.at = t
  <2> DEFINE z == n + 1
  <2>0. z \notin S
    BY <1>1
  <2>1. f \in [S \cup {z} -> Nat] /\ f[z] = PeriodAmount(s, x) /\ \A i \in S : f[i] = g[i]
    BY <1>0, <1>1, <1>2, <1>3, <1>5, Appended
  <2> HIDE DEF f, g, S, R, n, z
  <2>2. Grows(g, f, S, z)
    BY <1>7, <2>0, <2>1 DEF Grows
  <2> QED
    BY <1>4, <1>5, <2>1, <2>2, SumGrows
<1>6. CASE ~(InPeriod(s, x) /\ x.at = t)
  <2>1. f = g
    BY <1>2, <1>3, <1>6
  <2>2. SumFunction(g) \in Nat
    BY <1>7, SumNat
  <2> HIDE DEF f, g, S, R, n
  <2> QED
    BY <1>4, <1>6, <2>1, <2>2
<1> QED
  BY <1>5, <1>6

LEMMA NothingSpent ==
  ASSUME NEW s, NEW t
  PROVE  TokenSpent(s, <<>>) = 0 /\ ValueSpent(<<>>) = 0 /\ PeriodUsed(s, <<>>, t) = 0
BY SumEmpty DEF TokenSpent, TokenSpends, ValueSpent, PeriodUsed

--------------------------------------------------------------------------------
(* The caveats of a scope let the chain execute what the device would sign.     *)

\* What the chain has executed for a scope with a token budget moved the token.
Spends(s, x) == s.allowance # None => x.target = "token" /\ x.value = 0

LEMMA ScopeRecordFields ==
  ASSUME NEW s \in ScopeRecord
  PROVE  /\ s.allowance \in Limit /\ s.maxValuePerTx \in Limit /\ s.maxTotalValue \in Limit
         /\ s.maxTxCount \in Limit /\ s.recipients \subseteq Recipients
         /\ s.period \in PeriodLimit \cup {None}
BY DEF ScopeRecord

LEMMA ChainSums ==
  ASSUME NEW s \in ScopeRecord, s.allowance # None, NEW h \in Seq(Run), \A i \in DOMAIN h : Spends(s, h[i])
  PROVE  /\ TokenSpent(s, h) = SumFunction([i \in DOMAIN h |-> h[i].data.amount])
         /\ ValueSpent(h) = 0
<1>1. TokenSpends(s, h) = DOMAIN h
  BY DEF TokenSpends, IsToken, Spends
<1>2. [i \in DOMAIN h |-> h[i].value] = [i \in DOMAIN h |-> 0]
  BY DEF Spends
<1>3. IsFiniteSet(DOMAIN h)
  BY Appended, SomeAreFinite
<1> QED
  BY <1>1, <1>2, <1>3, ZeroesSum DEF TokenSpent, ValueSpent

\* The period the caveats count is the period the device counts.
LEMMA ChainPeriod ==
  ASSUME NEW s \in ScopeRecord, Expressible(s), s.period # None,
         NEW h \in Seq(Run), \A i \in DOMAIN h : Spends(s, h[i]), NEW x \in Run, Spends(s, x),
         ChainAccepts(Caveats(s), h, x)
  PROVE  PeriodUsed(s, h, x.at) + PeriodAmount(s, x) <= s.period.amount
<1> DEFINE amount(y) == IF s.period.asset = "token" THEN y.data.amount ELSE y.value
<1>1. SumFunction([i \in {j \in DOMAIN h : h[j].at = x.at} |-> amount(h[i])]) + amount(x) <= s.period.amount
  BY DEF ChainAccepts, Caveats
<1>2. s.period.asset = IF s.allowance # None THEN "token" ELSE "native"
  BY DEF Expressible
<1>3. \A y \in Run : Spends(s, y) => InPeriod(s, y) /\ PeriodAmount(s, y) = amount(y)
  BY <1>2 DEF InPeriod, PeriodAmount, IsToken, Spends
<1>4. \A i \in DOMAIN h : h[i] \in Run
  BY Appended
<1>5. [i \in {j \in DOMAIN h : InPeriod(s, h[j]) /\ h[j].at = x.at} |-> PeriodAmount(s, h[i])]
      = [i \in {j \in DOMAIN h : h[j].at = x.at} |-> amount(h[i])]
  BY <1>3, <1>4
<1>6. PeriodUsed(s, h, x.at) = SumFunction([i \in {j \in DOMAIN h : h[j].at = x.at} |-> amount(h[i])])
  BY <1>5 DEF PeriodUsed
<1>7. PeriodAmount(s, x) = amount(x)
  BY <1>3
<1> HIDE DEF amount
<1> QED
  BY <1>1, <1>6, <1>7

LEMMA ChainMoves ==
  ASSUME NEW s \in ScopeRecord, Expressible(s), NEW h \in Seq(Run), NEW x \in Run,
         ChainAccepts(Caveats(s), h, x)
  PROVE  Spends(s, x)
<1> SUFFICES ASSUME s.allowance # None
    PROVE  x.target = "token" /\ x.value = 0
  BY DEF Spends
<1>1. x.target \in s.contracts /\ s.contracts = {"token"}
  BY DEF ChainAccepts, Caveats, Expressible
<1>2. x.value <= 0 /\ x.value \in Nat
  BY RunAmount, ScopesAssumption DEF ChainAccepts, Caveats, Within
<1> QED
  BY <1>1, <1>2

LEMMA ChainIsInScope ==
  ASSUME NEW s \in ScopeRecord, Expressible(s),
         NEW h \in Seq(Run), \A i \in DOMAIN h : Spends(s, h[i]), NEW x \in Run,
         ChainAccepts(Caveats(s), h, x)
  PROVE  DeviceAccepts(s, h, x)
<1>1. Spends(s, x)
  BY ChainMoves
<1>2. /\ x.target \in s.contracts /\ s.contracts # {} /\ x.data.method \in s.methods
      /\ s.methods \intersect Forbidden = {}
      /\ (s.allowance # None => x.data.method = "transfer")
  BY DEF ChainAccepts, Caveats, Expressible
<1>3. ContractAllowed(s, x) /\ x.data.method \notin Forbidden /\ Decoded(s, x) /\ MethodAllowed(s, x)
  BY <1>2 DEF ContractAllowed, Decoded, MethodAllowed, IsToken
<1>4. IsToken(s, x) => Within(x.data.amount, s.tokenMaxPerTx) /\ TokenSpent(s, h) + x.data.amount <= s.allowance
  <2> SUFFICES ASSUME IsToken(s, x)
      PROVE  Within(x.data.amount, s.tokenMaxPerTx) /\ TokenSpent(s, h) + x.data.amount <= s.allowance
    OBVIOUS
  <2>1. s.allowance # None /\ s.tokenMaxPerTx = None
    BY DEF IsToken, Expressible
  <2>2. SumFunction([i \in DOMAIN h |-> h[i].data.amount]) + x.data.amount <= s.allowance
    BY <2>1 DEF ChainAccepts, Caveats
  <2> QED
    BY <2>1, <2>2, ChainSums DEF Within
<1>5. InPeriod(s, x) => PeriodUsed(s, h, x.at) + PeriodAmount(s, x) <= s.period.amount
  BY <1>1, ChainPeriod DEF InPeriod
<1>6. RecipientAllowed(s, x)
  <2>1. CASE s.recipients = {}
    BY <2>1 DEF RecipientAllowed
  <2>2. CASE s.recipients # {}
    <3>1. s.allowance # None
      BY <2>2 DEF Expressible
    <3>2. (CHOOSE r \in s.recipients : TRUE) \in s.recipients
      BY <2>2
    <3>3. (CHOOSE r \in s.recipients : TRUE) # None
      BY <3>2, ScopeRecordFields, ScopesAssumption
    <3>4. Caveats(s).recipient = CHOOSE r \in s.recipients : TRUE
      BY <2>2 DEF Caveats
    <3>5. x.data.to = Caveats(s).recipient
      BY <3>3, <3>4 DEF ChainAccepts
    <3> QED
      BY <1>1, <3>1, <3>2, <3>4, <3>5 DEF RecipientAllowed, IsToken, Spends
  <2> QED
    BY <2>1, <2>2
<1>7. Within(x.value, s.maxValuePerTx) /\ Within(ValueSpent(h) + x.value, s.maxTotalValue)
  <2>1. CASE s.allowance = None
    BY <2>1 DEF ChainAccepts, Caveats
  <2>2. CASE s.allowance # None
    <3>1. x.value = 0 /\ ValueSpent(h) = 0
      BY <1>1, <2>2, ChainSums DEF Spends
    <3> QED
      BY <3>1, ScopeRecordFields DEF Within, Limit
  <2> QED
    BY <2>1, <2>2
<1>8. s.maxTxCount # None => Len(h) < s.maxTxCount
  <2>1. s.maxTxCount # None => Len(h) + 1 <= s.maxTxCount
    BY DEF ChainAccepts, Caveats, Within
  <2>2. Len(h) \in Nat /\ s.maxTxCount \in Nat \cup {None}
    BY ScopeRecordFields DEF Limit
  <2> QED
    BY <2>1, <2>2
<1> QED
  BY <1>3, <1>4, <1>5, <1>6, <1>7, <1>8 DEF DeviceAccepts

--------------------------------------------------------------------------------
(* The scope is kept on the device and on the chain.                            *)

\* What was signed or executed, added up.
SpentKept ==
  /\ Within(TokenSpent(scope, ran), scope.allowance) /\ Within(ValueSpent(ran), scope.maxTotalValue)
  /\ Within(Len(ran), scope.maxTxCount)
  /\ scope.period # None => \A t \in Nat : PeriodUsed(scope, ran, t) <= scope.period.amount
  /\ scope.recipients # {} /\ scope.allowance # None =>
       \A i \in TokenSpends(scope, ran) : ran[i].data.to \in scope.recipients

ScopeInv ==
  /\ scope \in ScopeRecord \cup {None} /\ (scope # None => ScopeValid(scope))
  /\ scopeClock \in Nat /\ ran \in Seq(Run) /\ \A i \in DOMAIN ran : ran[i].at <= scopeClock
  /\ caveats # None => scope # None /\ Expressible(scope) /\ caveats = Caveats(scope)
  /\ scope = None => ran = <<>>
  /\ scope # None /\ Expressible(scope) => \A i \in DOMAIN ran : Spends(scope, ran[i])
  /\ ChainWithinScope
  /\ scope # None => SpentKept

LEMMA ScopeStarts ==
  ASSUME ScopeInit
  PROVE  ScopeInv
<1>1. scope \in ScopeRecord \cup {None} /\ (scope # None => ScopeValid(scope))
  BY ScopesAssumption DEF ScopeInit
<1>2. caveats = None /\ scopeClock = 0 /\ ran = <<>>
  BY DEF ScopeInit
<1>3. ChainWithinScope
  BY <1>2 DEF ChainWithinScope
<1>4. scope # None => SpentKept
  <2> SUFFICES ASSUME scope # None PROVE SpentKept
    OBVIOUS
  <2>1. scope \in ScopeRecord
    BY <1>1
  <2>2. TokenSpends(scope, ran) = {} /\ Len(ran) = 0
    BY <1>2 DEF TokenSpends
  <2>3. TokenSpent(scope, ran) = 0 /\ ValueSpent(ran) = 0 /\ \A t : PeriodUsed(scope, ran, t) = 0
    BY <1>2, NothingSpent
  <2> QED
    BY <2>1, <2>2, <2>3, ScopeRecordFields DEF SpentKept, Within, Limit, PeriodLimit
<1> QED
  BY <1>1, <1>2, <1>3, <1>4 DEF ScopeInv

LEMMA NowRuns ==
  ASSUME ScopeInv, NEW x \in Executions
  PROVE  Now(x) \in Run /\ Now(x).at = scopeClock
BY DEF ScopeInv, Now, Run, Executions

\* One more operation, which the device accepts or would accept.
LEMMA ScopeRuns ==
  ASSUME ScopeInv, scope # None, NEW x \in Run, x.at = scopeClock, DeviceAccepts(scope, ran, x),
         Expressible(scope) => Spends(scope, x), ran' = Append(ran, x), UNCHANGED <<scope, caveats, scopeClock>>
  PROVE  ScopeInv'
<1> DEFINE n == Len(ran)
<1>1. /\ ran' \in Seq(Run) /\ n \in Nat /\ DOMAIN ran = 1..n /\ DOMAIN ran' = 1..(n + 1) /\ Len(ran') = n + 1
      /\ \A i \in 1..n : ran'[i] = ran[i]
      /\ ran'[n + 1] = x
  BY Appended DEF ScopeInv
<1>2. scope \in ScopeRecord /\ ran \in Seq(Run)
  BY DEF ScopeInv
<1>3. \A i \in DOMAIN ran' : ran'[i].at <= scopeClock
  BY <1>1 DEF ScopeInv
<1>4. Expressible(scope) => \A i \in DOMAIN ran' : Spends(scope, ran'[i])
  BY <1>1 DEF ScopeInv
<1>5. ChainWithinScope'
  <2> SUFFICES ASSUME NEW i \in DOMAIN ran'
      PROVE  DeviceAccepts(scope, SubSeq(ran', 1, i - 1), ran'[i])
    BY DEF ChainWithinScope
  <2>1. CASE i = n + 1
    <3>1. SubSeq(ran', 1, n) = ran
      BY <1>2
    <3>2. i - 1 = n /\ ran'[i] = x
      BY <1>1, <2>1
    <3> HIDE DEF n
    <3> QED
      BY <3>1, <3>2
  <2>2. CASE i # n + 1
    <3>1. i \in 1..n
      BY <1>1, <2>2
    <3>2. SubSeq(ran', 1, i - 1) = SubSeq(ran, 1, i - 1)
      <4>1. ran \in Seq(Run) /\ i \in 1..Len(ran)
        BY <1>2, <3>1
      <4>2. SubSeq(Append(ran, x), 1, i - 1) = SubSeq(ran, 1, i - 1)
        BY <4>1, PrefixKept, Zenon
      <4> QED
        BY <4>2
    <3> QED
      BY <1>1, <3>1, <3>2 DEF ScopeInv, ChainWithinScope
  <2> QED
    BY <2>1, <2>2
<1>6. SpentKept'
  <2>1. Within(TokenSpent(scope, ran'), scope.allowance)
    <3>1. TokenSpent(scope, ran) \in Nat
          /\ TokenSpent(scope, ran') = TokenSpent(scope, ran) + (IF IsToken(scope, x) THEN x.data.amount ELSE 0)
      BY <1>2, TokenSpentAppends
    <3>2. IsToken(scope, x) => TokenSpent(scope, ran) + x.data.amount <= scope.allowance
      BY DEF DeviceAccepts
    <3> QED
      BY <3>1, <3>2 DEF ScopeInv, SpentKept, Within
  <2>2. Within(ValueSpent(ran'), scope.maxTotalValue)
    BY <1>2, ValueSpentAppends DEF DeviceAccepts
  <2>3. Within(Len(ran'), scope.maxTxCount)
    <3>1. scope.maxTxCount # None => n < scope.maxTxCount /\ scope.maxTxCount \in Nat
      BY <1>2, ScopeRecordFields DEF DeviceAccepts, Limit
    <3> QED
      BY <1>1, <3>1 DEF Within
  <2>4. scope.period # None => \A t \in Nat : PeriodUsed(scope, ran', t) <= scope.period.amount
    <3> SUFFICES ASSUME scope.period # None, NEW t \in Nat
        PROVE  PeriodUsed(scope, ran', t) <= scope.period.amount
      OBVIOUS
    <3>1. /\ PeriodUsed(scope, ran, t) \in Nat
          /\ PeriodUsed(scope, ran', t) =
               PeriodUsed(scope, ran, t) + (IF InPeriod(scope, x) /\ x.at = t THEN PeriodAmount(scope, x) ELSE 0)
      BY <1>2, PeriodUsedAppends
    <3>2. PeriodUsed(scope, ran, t) <= scope.period.amount
      BY DEF ScopeInv, SpentKept
    <3>3. InPeriod(scope, x) /\ x.at = t => PeriodUsed(scope, ran, t) + PeriodAmount(scope, x) <= scope.period.amount
      BY DEF DeviceAccepts
    <3> QED
      BY <3>1, <3>2, <3>3
  <2>5. scope.recipients # {} /\ scope.allowance # None =>
          \A i \in TokenSpends(scope, ran') : ran'[i].data.to \in scope.recipients
    <3>1. IsToken(scope, x) /\ scope.recipients # {} => x.data.to \in scope.recipients
      BY DEF DeviceAccepts, RecipientAllowed
    <3> QED
      BY <1>1, <3>1 DEF ScopeInv, SpentKept, TokenSpends
  <2> QED
    BY <2>1, <2>2, <2>3, <2>4, <2>5 DEF SpentKept
<1> QED
  BY <1>1, <1>2, <1>3, <1>4, <1>5, <1>6 DEF ScopeInv

LEMMA ScopeStep ==
  ASSUME ScopeInv, ScopeNext
  PROVE  ScopeInv'
<1>1. CASE Delegate
  BY <1>1 DEF Delegate, ScopeInv, ChainWithinScope, SpentKept
<1>2. CASE DeviceSigns
  <2>1. PICK x \in Executions :
          /\ RawDigestAllowed(scope) \/ TypedDataAllowed(scope, x)
          /\ DeviceAccepts(scope, ran, Now(x)) /\ ran' = Append(ran, Now(x))
    BY <1>2 DEF DeviceSigns
  <2>2. scope # None /\ UNCHANGED <<scope, caveats, scopeClock>>
    BY <1>2 DEF DeviceSigns
  <2>3. ~Expressible(scope)
    BY <2>1 DEF RawDigestAllowed, TypedDataAllowed, Expressible
  <2> QED
    BY <2>1, <2>2, <2>3, NowRuns, ScopeRuns
<1>3. CASE ChainRuns
  <2>1. PICK x \in Executions : ChainAccepts(caveats, ran, Now(x)) /\ ran' = Append(ran, Now(x))
    BY <1>3 DEF ChainRuns
  <2>2. UNCHANGED <<scope, caveats, scopeClock>> /\ scope # None /\ Expressible(scope) /\ caveats = Caveats(scope)
    BY <1>3 DEF ChainRuns, ScopeInv
  <2>3. scope \in ScopeRecord /\ ran \in Seq(Run) /\ \A i \in DOMAIN ran : Spends(scope, ran[i])
    BY <2>2 DEF ScopeInv
  <2>4. DeviceAccepts(scope, ran, Now(x)) /\ Spends(scope, Now(x))
    BY <2>1, <2>2, <2>3, NowRuns, ChainMoves, ChainIsInScope
  <2> QED
    BY <2>1, <2>2, <2>4, NowRuns, ScopeRuns
<1>4. CASE ScopeTick
  <2>1. scopeClock' = scopeClock + 1 /\ UNCHANGED <<scope, caveats, ran>>
    BY <1>4 DEF ScopeTick
  <2>2. \A i \in DOMAIN ran : ran[i].at \in Nat
    BY Appended, RunAmount DEF ScopeInv
  <2> QED
    BY <2>1, <2>2 DEF ScopeInv, ChainWithinScope, SpentKept
<1> QED
  BY <1>1, <1>2, <1>3, <1>4 DEF ScopeNext

LEMMA ScopeHolds ==
  ASSUME ScopeInv
  PROVE  ScopeTypeOK /\ ChainWithinScope /\ SpentWithinScope
<1>1. \A i \in DOMAIN ran : ran[i].at \in 0..scopeClock
  BY Appended, RunAmount DEF ScopeInv
<1>2. SpentWithinScope
  BY DEF ScopeInv, SpentKept, SpentWithinScope
<1> QED
  BY <1>1, <1>2 DEF ScopeInv, ScopeTypeOK

--------------------------------------------------------------------------------
(* What a Solana key has signed, as one more payment is added.                  *)

Signed == [key : SolSessionKeyIds, amount : Nat, at : Nat]
Mine(k, h) == {i \in DOMAIN h : h[i].key = k}
MineAt(k, h, t) == {i \in Mine(k, h) : h[i].at = t}
SumOf(h, S) == SumFunction([i \in S |-> h[i].amount])

\* A sum over the payments of some set, to which the new one belongs or not.
LEMMA SumOfAppends ==
  ASSUME NEW h \in Seq(Signed), NEW x \in Signed, NEW S, S \subseteq DOMAIN h
  PROVE  /\ SumOf(h, S) \in Nat /\ SumOf(Append(h, x), S) = SumOf(h, S)
         /\ SumOf(Append(h, x), S \cup {Len(h) + 1}) = SumOf(h, S) + x.amount
         /\ IsFiniteSet(S) /\ Cardinality(S) \in Nat
         /\ Cardinality(S \cup {Len(h) + 1}) = Cardinality(S) + 1
<1> DEFINE n == Len(h)
           m == Append(h, x)
           z == n + 1
           g == [i \in S |-> h[i].amount]
           f == [i \in S \cup {z} |-> m[i].amount]
<1>1. n \in Nat /\ S \subseteq 1..n /\ z \notin S
  BY Appended
<1>2. IsFiniteSet(S)
  BY <1>1, SomeAreFinite
<1>3. \A y \in Signed : y.amount \in Nat
  BY DEF Signed
<1>4. g \in [S -> Nat] /\ \A i \in S : m[i] = h[i]
  BY <1>1, <1>3, Appended
<1>5. f \in [S \cup {z} -> Nat] /\ f[z] = x.amount /\ \A i \in S : f[i] = g[i]
  BY <1>1, <1>3, <1>4, Appended
<1>6. [i \in S |-> m[i].amount] = g
  BY <1>4
<1>7. /\ SumOf(h, S) = SumFunction(g) /\ SumOf(m, S) = SumFunction(g)
      /\ SumOf(m, S \cup {z}) = SumFunction(f)
  BY <1>6 DEF SumOf
<1>8. Cardinality(S) \in Nat /\ Cardinality(S \cup {z}) = Cardinality(S) + 1
  BY <1>1, <1>2, FS_CardinalityType, FS_AddElement
<1> HIDE DEF f, g, z
<1>9. Grows(g, f, S, z)
  BY <1>1, <1>2, <1>4, <1>5 DEF Grows
<1>10. SumFunction(f) = SumFunction(g) + x.amount /\ SumFunction(g) \in Nat
  BY <1>5, <1>9, SumGrows
<1> QED
  BY <1>2, <1>7, <1>8, <1>10 DEF z

LEMMA SignedFields ==
  ASSUME NEW h \in Seq(Signed), NEW i \in DOMAIN h
  PROVE  h[i].at \in Nat /\ h[i].amount \in Nat
<1>1. h[i] \in Signed
  OBVIOUS
<1> QED
  BY <1>1 DEF Signed

LEMMA MineAppends ==
  ASSUME NEW h \in Seq(Signed), NEW x \in Signed, NEW k, NEW t
  PROVE  /\ Mine(k, Append(h, x)) = Mine(k, h) \cup (IF x.key = k THEN {Len(h) + 1} ELSE {})
         /\ MineAt(k, Append(h, x), t) =
              MineAt(k, h, t) \cup (IF x.key = k /\ x.at = t THEN {Len(h) + 1} ELSE {})
         /\ Mine(k, h) \subseteq DOMAIN h /\ MineAt(k, h, t) \subseteq DOMAIN h
BY Appended DEF Mine, MineAt

--------------------------------------------------------------------------------
(* The record of a Solana key accounts for what the key has signed.             *)

Recorded(k, r, h, clock) ==
  /\ r.spent = SumOf(h, Mine(k, h)) /\ r.spent <= SolBudget
  /\ r.useCount = Cardinality(Mine(k, h)) /\ r.useCount <= SolMaxCount
  /\ IF r.periodIndex = None THEN Mine(k, h) = {}
     ELSE /\ r.periodIndex <= clock /\ \A i \in Mine(k, h) : h[i].at <= r.periodIndex
          /\ r.periodSpent = SumOf(h, MineAt(k, h, r.periodIndex))
Tab == [pc : {"fetching"}, key : SolSessionKeyIds, amount : SolAmounts]
SolSent == [kind : {"approve", "revoke"}, key : SolSessionKeyIds]
           \cup [kind : {"pay"}, key : SolSessionKeyIds, n : DOMAIN solSigned]

SolInv ==
  /\ solClock \in Nat /\ solSigned \in Seq(Signed)
  /\ solKeys \in [SolSessionKeyIds -> SolRecord \cup {None}]
  /\ solTabs \in [SolTabs -> Tab \cup {Idle}]
  /\ \A c \in SolTabs : solTabs[c] # Idle => Stored(solTabs[c].key)
  /\ solInFlight \subseteq SolSent
  /\ delegate \in [key : SolSessionKeyIds, left : 0..SolBudget] \cup {None}
  /\ \A k \in SolSessionKeyIds :
       /\ IF Stored(k) THEN Recorded(k, solKeys[k], solSigned, solClock) ELSE Mine(k, solSigned) = {}
       /\ \A t \in Nat : SumOf(solSigned, MineAt(k, solSigned, t)) <= SolPeriod

LEMMA SumOfNothing ==
  ASSUME NEW h
  PROVE  SumOf(h, {}) = 0
BY SumEmpty DEF SumOf

LEMMA SolStarts ==
  ASSUME SolKeyInit
  PROVE  SolInv
<1>1. \A k, t : Mine(k, solSigned) = {} /\ MineAt(k, solSigned, t) = {}
  BY DEF SolKeyInit, Mine, MineAt
<1>2. \A k, t : SumOf(solSigned, MineAt(k, solSigned, t)) <= SolPeriod
  BY <1>1, SumOfNothing, SolAssumption
<1>3. /\ solClock \in Nat /\ solSigned \in Seq(Signed) /\ solInFlight \subseteq SolSent
      /\ delegate = None /\ solTabs \in [SolTabs -> Tab \cup {Idle}]
      /\ solKeys \in [SolSessionKeyIds -> SolRecord \cup {None}]
      /\ \A c \in SolTabs : solTabs[c] = Idle
  BY DEF SolKeyInit
<1>4. \A k \in SolSessionKeyIds : ~Stored(k)
  BY DEF SolKeyInit, Stored
<1> QED
  BY <1>1, <1>2, <1>3, <1>4 DEF SolInv

\* A step that signs nothing keeps what the records are about.
LEMMA SolKeeps ==
  ASSUME SolInv, UNCHANGED <<solClock, solSigned, solTabs>>,
         solKeys' \in [SolSessionKeyIds -> SolRecord \cup {None}],
         \A k \in SolSessionKeyIds : Stored(k) =>
           /\ Stored(k)' /\ solKeys'[k].spent = solKeys[k].spent /\ solKeys'[k].useCount = solKeys[k].useCount
           /\ solKeys'[k].periodIndex = solKeys[k].periodIndex
           /\ solKeys'[k].periodSpent = solKeys[k].periodSpent,
         \A k \in SolSessionKeyIds : ~Stored(k) /\ Stored(k)' => solKeys'[k] = FreshKey,
         solInFlight' \subseteq SolSent,
         delegate' \in [key : SolSessionKeyIds, left : 0..SolBudget] \cup {None}
  PROVE  SolInv'
<1>1. SolSent' = SolSent
  BY DEF SolSent
<1>2. ASSUME NEW k \in SolSessionKeyIds
      PROVE  IF Stored(k)' THEN Recorded(k, solKeys[k], solSigned, solClock)' ELSE Mine(k, solSigned)' = {}
  <2>1. CASE Stored(k)
    BY <2>1 DEF SolInv, Recorded
  <2>2. CASE ~Stored(k) /\ Stored(k)'
    <3>1. Mine(k, solSigned) = {} /\ solKeys'[k] = FreshKey
      BY <2>2 DEF SolInv
    <3>2. Recorded(k, FreshKey, solSigned, solClock)
      BY <3>1, SumOfNothing, FS_EmptySet, SolAssumption DEF Recorded, FreshKey
    <3> QED
      BY <2>2, <3>1, <3>2 DEF Recorded
  <2>3. CASE ~Stored(k) /\ ~Stored(k)'
    BY <2>3 DEF SolInv
  <2> QED
    BY <2>1, <2>2, <2>3
<1>3. \A c \in SolTabs : (solTabs[c] # Idle => Stored(solTabs[c].key))'
  BY DEF SolInv, Tab
<1> QED
  BY <1>1, <1>2, <1>3 DEF SolInv, Tab

LEMMA SolAccountedRecord ==
  ASSUME solClock \in Nat, NEW r \in SolRecord, NEW n \in Nat
  PROVE  LET u == Accounted(r, n)
         IN /\ u \in SolRecord /\ u.spent = r.spent + n /\ u.useCount = r.useCount + 1
            /\ u.periodIndex = solClock /\ u.periodSpent = PeriodSpent(r) + n
<1> DEFINE p == PeriodSpent(r) + n
<1>1. r.spent + n \in Nat /\ r.useCount + 1 \in Nat /\ p \in Nat
  BY DEF PeriodSpent, SolRecord
<1>2. Accounted(r, n) = [r EXCEPT !.spent = r.spent + n, !.useCount = r.useCount + 1,
                                  !.periodIndex = solClock, !.periodSpent = p]
  BY DEF Accounted, SolRecord
<1> HIDE DEF p
<1> QED
  BY <1>1, <1>2 DEF SolRecord, p

\* A payment: the record of its key accounts for it, those of the others stay.
LEMMA SolSigns ==
  ASSUME SolInv, NEW k \in SolSessionKeyIds, NEW n \in SolAmounts, Stored(k), SolCheck(solKeys[k], n),
         Update(k, Accounted(solKeys[k], n)),
         solSigned' = Append(solSigned, [key |-> k, amount |-> n, at |-> solClock]),
         solInFlight' = solInFlight \cup {[kind |-> "pay", key |-> k, n |-> Len(solSigned) + 1]},
         solTabs' \in [SolTabs -> Tab \cup {Idle}],
         \A c \in SolTabs : solTabs'[c] # Idle => solTabs'[c] = solTabs[c],
         UNCHANGED <<solClock, delegate>>
  PROVE  SolInv'
<1> DEFINE h == solSigned
           x == [key |-> k, amount |-> n, at |-> solClock]
           m == Append(h, x)
           r == solKeys[k]
           u == Accounted(r, n)
<1>1. /\ h \in Seq(Signed) /\ solClock \in Nat /\ n \in Nat /\ x \in Signed /\ r \in SolRecord
      /\ Recorded(k, r, h, solClock) /\ x.key = k /\ x.at = solClock /\ x.amount = n
  BY SolAssumption DEF SolInv, SolAmounts, Signed, Stored
<1>2. /\ u \in SolRecord /\ u.spent = r.spent + n /\ u.useCount = r.useCount + 1
      /\ u.periodIndex = solClock /\ u.periodSpent = PeriodSpent(r) + n
  BY <1>1, SolAccountedRecord
<1>3. /\ r.spent + n <= SolBudget /\ r.useCount < SolMaxCount /\ PeriodSpent(r) + n <= SolPeriod
  BY DEF SolCheck
<1>4. solKeys' = [solKeys EXCEPT ![k] = u] /\ u # None
  BY <1>2, SolAssumption DEF Update
<1> HIDE DEF u
<1>5. solKeys' \in [SolSessionKeyIds -> SolRecord \cup {None}] /\ solKeys'[k] = u
      /\ \A j \in SolSessionKeyIds : j # k => solKeys'[j] = solKeys[j]
  BY <1>2, <1>4 DEF SolInv
<1>6. solSigned' = m /\ m \in Seq(Signed) /\ DOMAIN m = DOMAIN h \cup {Len(h) + 1} /\ Len(h) \in Nat
      /\ m[Len(h) + 1] = x /\ \A i \in DOMAIN h : m[i] = h[i]
  BY <1>1, Appended
<1> HIDE DEF x, m
<1>7. SumOf(h, MineAt(k, h, solClock)) = PeriodSpent(r)
  <2>1. CASE r.periodIndex = solClock
    BY <1>1, <2>1, SolAssumption DEF Recorded, PeriodSpent
  <2>2. CASE r.periodIndex # solClock
    <3>1. MineAt(k, h, solClock) = {}
      <4>1. CASE r.periodIndex = None
        BY <1>1, <4>1 DEF Recorded, MineAt
      <4>2. CASE r.periodIndex # None
        <5>1. r.periodIndex \in Nat /\ r.periodIndex < solClock
          BY <1>1, <2>2, <4>2 DEF Recorded, SolRecord
        <5>2. \A i \in Mine(k, h) : h[i].at \in Nat
          BY <1>1, SignedFields DEF Mine
        <5> QED
          BY <1>1, <4>2, <5>1, <5>2 DEF Recorded, MineAt
      <4> QED
        BY <4>1, <4>2
    <3> QED
      BY <2>2, <3>1, SumOfNothing DEF PeriodSpent
  <2> QED
    BY <2>1, <2>2
<1>8. \A j, t : /\ Mine(j, m) = IF j = k THEN Mine(j, h) \cup {Len(h) + 1} ELSE Mine(j, h)
                /\ MineAt(j, m, t) =
                     IF j = k /\ t = solClock THEN MineAt(j, h, t) \cup {Len(h) + 1} ELSE MineAt(j, h, t)
                /\ Mine(j, h) \subseteq DOMAIN h /\ MineAt(j, h, t) \subseteq DOMAIN h
  <2> SUFFICES ASSUME NEW j, NEW t
      PROVE  /\ Mine(j, m) = IF j = k THEN Mine(j, h) \cup {Len(h) + 1} ELSE Mine(j, h)
             /\ MineAt(j, m, t) =
                  IF j = k /\ t = solClock THEN MineAt(j, h, t) \cup {Len(h) + 1} ELSE MineAt(j, h, t)
             /\ Mine(j, h) \subseteq DOMAIN h /\ MineAt(j, h, t) \subseteq DOMAIN h
    OBVIOUS
  <2>1. /\ Mine(j, Append(h, x)) = Mine(j, h) \cup (IF x.key = j THEN {Len(h) + 1} ELSE {})
        /\ MineAt(j, Append(h, x), t) =
              MineAt(j, h, t) \cup (IF x.key = j /\ x.at = t THEN {Len(h) + 1} ELSE {})
        /\ Mine(j, h) \subseteq DOMAIN h /\ MineAt(j, h, t) \subseteq DOMAIN h
    BY <1>1, MineAppends
  <2> QED
    BY <1>1, <2>1 DEF m
<1>9. \A S : S \subseteq DOMAIN h =>
        /\ SumOf(h, S) \in Nat /\ SumOf(m, S) = SumOf(h, S)
        /\ SumOf(m, S \cup {Len(h) + 1}) = SumOf(h, S) + n
        /\ Cardinality(S) \in Nat /\ Cardinality(S \cup {Len(h) + 1}) = Cardinality(S) + 1
  <2> SUFFICES ASSUME NEW S, S \subseteq DOMAIN h
      PROVE  /\ SumOf(h, S) \in Nat /\ SumOf(m, S) = SumOf(h, S)
             /\ SumOf(m, S \cup {Len(h) + 1}) = SumOf(h, S) + n
             /\ Cardinality(S) \in Nat /\ Cardinality(S \cup {Len(h) + 1}) = Cardinality(S) + 1
    OBVIOUS
  <2>1. /\ SumOf(h, S) \in Nat /\ SumOf(Append(h, x), S) = SumOf(h, S)
        /\ SumOf(Append(h, x), S \cup {Len(h) + 1}) = SumOf(h, S) + x.amount
        /\ Cardinality(S) \in Nat /\ Cardinality(S \cup {Len(h) + 1}) = Cardinality(S) + 1
    BY <1>1, SumOfAppends
  <2> QED
    BY <1>1, <2>1 DEF m
<1>10. Recorded(k, u, m, solClock)
  <2>1. SumOf(m, Mine(k, m)) = r.spent + n /\ Cardinality(Mine(k, m)) = r.useCount + 1
    BY <1>1, <1>8, <1>9 DEF Recorded
  <2>2. SumOf(m, MineAt(k, m, solClock)) = PeriodSpent(r) + n
    BY <1>7, <1>8, <1>9
  <2>3. \A i \in Mine(k, h) : h[i].at <= solClock
    <3>1. CASE r.periodIndex = None
      BY <1>1, <3>1 DEF Recorded
    <3>2. CASE r.periodIndex # None
      <4>1. r.periodIndex \in Nat /\ r.periodIndex <= solClock
        BY <1>1, <3>2 DEF Recorded, SolRecord
      <4>2. \A i \in Mine(k, h) : h[i].at \in Nat
        BY <1>1, SignedFields DEF Mine
      <4> QED
        BY <1>1, <3>2, <4>1, <4>2 DEF Recorded
    <3> QED
      BY <3>1, <3>2
  <2>4. \A i \in Mine(k, m) : m[i].at <= solClock
    <3>1. Mine(k, m) = Mine(k, h) \cup {Len(h) + 1} /\ Mine(k, h) \subseteq DOMAIN h
      BY <1>8
    <3>2. \A i \in Mine(k, h) : m[i] = h[i]
      BY <1>6, <3>1
    <3>3. m[Len(h) + 1].at = solClock
      BY <1>1, <1>6
    <3> QED
      BY <1>1, <2>3, <3>1, <3>2, <3>3
  <2>5. r.useCount \in Nat
    BY <1>1 DEF SolRecord
  <2>6. r.useCount + 1 <= SolMaxCount
    BY <1>3, <2>5, SolAssumption
  <2>7. u.periodIndex # None /\ u.periodIndex <= solClock
    BY <1>1, <1>2, SolAssumption
  <2> QED
    BY <1>2, <1>3, <2>1, <2>2, <2>4, <2>6, <2>7 DEF Recorded
<1>11. ASSUME NEW j \in SolSessionKeyIds
       PROVE  /\ (IF Stored(j) THEN Recorded(j, solKeys[j], solSigned, solClock) ELSE Mine(j, solSigned) = {})'
              /\ \A t \in Nat : SumOf(m, MineAt(j, m, t)) <= SolPeriod
  <2>1. CASE j = k
    <3>1. \A t \in Nat : SumOf(m, MineAt(k, m, t)) <= SolPeriod
      <4> SUFFICES ASSUME NEW t \in Nat PROVE SumOf(m, MineAt(k, m, t)) <= SolPeriod
        OBVIOUS
      <4>1. CASE t = solClock
        <5>1. SumOf(m, MineAt(k, m, t)) = PeriodSpent(r) + n
          BY <1>7, <1>8, <1>9, <4>1
        <5> QED
          BY <1>3, <5>1
      <4>2. CASE t # solClock
        <5>1. SumOf(m, MineAt(k, m, t)) = SumOf(h, MineAt(k, h, t))
          BY <1>8, <1>9, <4>2
        <5> QED
          BY <5>1 DEF SolInv
      <4> QED
        BY <4>1, <4>2
    <3> QED
      BY <1>4, <1>5, <1>6, <1>10, <2>1, <3>1 DEF Stored
  <2>2. CASE j # k
    <3>1. Mine(j, m) = Mine(j, h) /\ \A t : MineAt(j, m, t) = MineAt(j, h, t)
      BY <1>8, <2>2
    <3>2. /\ Mine(j, h) \subseteq DOMAIN h /\ SumOf(m, Mine(j, h)) = SumOf(h, Mine(j, h))
          /\ \A t : SumOf(m, MineAt(j, h, t)) = SumOf(h, MineAt(j, h, t))
      BY <1>8, <1>9
    <3>3. \A i \in Mine(j, h) : m[i] = h[i]
      BY <1>6, <3>2
    <3>4. solKeys'[j] = solKeys[j] /\ solSigned' = m /\ solClock' = solClock
      BY <1>5, <1>6, <2>2
    <3>5. IF Stored(j) THEN Recorded(j, solKeys[j], h, solClock) ELSE Mine(j, h) = {}
      BY DEF SolInv
    <3>6. IF Stored(j) THEN Recorded(j, solKeys[j], m, solClock) ELSE Mine(j, m) = {}
      BY <3>1, <3>2, <3>3, <3>5 DEF Recorded
    <3>7. \A t \in Nat : SumOf(m, MineAt(j, m, t)) <= SolPeriod
      BY <3>1, <3>2 DEF SolInv
    <3> QED
      BY <3>4, <3>6, <3>7 DEF Stored
  <2> QED
    BY <2>1, <2>2
<1>12. solInFlight' \subseteq SolSent'
  <2>1. DOMAIN solSigned \subseteq DOMAIN solSigned' /\ Len(solSigned) + 1 \in DOMAIN solSigned'
    BY <1>6
  <2>2. SolSent \subseteq SolSent'
    BY <2>1 DEF SolSent
  <2>3. [kind |-> "pay", key |-> k, n |-> Len(solSigned) + 1] \in SolSent'
    BY <2>1 DEF SolSent
  <2> QED
    BY <2>2, <2>3 DEF SolInv
<1>13. \A c \in SolTabs : (solTabs[c] # Idle => Stored(solTabs[c].key))'
  <2> SUFFICES ASSUME NEW c \in SolTabs, solTabs'[c] # Idle
      PROVE  solKeys'[solTabs'[c].key] # None
    BY DEF Stored
  <2>1. solTabs'[c] = solTabs[c] /\ Stored(solTabs[c].key) /\ solTabs[c].key \in SolSessionKeyIds
    BY DEF SolInv, Tab
  <2> QED
    BY <1>4, <1>5, <2>1 DEF Stored
<1>14. solTabs' \in [SolTabs -> Tab' \cup {Idle}]
  BY DEF Tab
<1> QED
  BY <1>1, <1>5, <1>6, <1>11, <1>12, <1>13, <1>14 DEF SolInv

LEMMA SolKeysChange ==
  ASSUME SolInv, NEW status \in {"pending", "active", "revoked"}, NEW k \in SolSessionKeyIds, Stored(k)
  PROVE  LET u == [solKeys[k] EXCEPT !.status = status]
         IN /\ u \in SolRecord /\ u # None /\ u.spent = solKeys[k].spent /\ u.useCount = solKeys[k].useCount
            /\ u.periodIndex = solKeys[k].periodIndex /\ u.periodSpent = solKeys[k].periodSpent
<1>1. solKeys[k] \in SolRecord
  BY DEF SolInv, Stored
<1> QED
  BY <1>1, SolAssumption DEF SolRecord

LEMMA SolStep ==
  ASSUME SolInv, SolKeyNext
  PROVE  SolInv'
<1>1. CASE SolTick
  <2>1. solClock' = solClock + 1 /\ solClock \in Nat /\ UNCHANGED <<solKeys, solTabs, solSigned, solInFlight, delegate>>
    BY <1>1 DEF SolTick, SolInv
  <2>2. ASSUME NEW k \in SolSessionKeyIds, Stored(k)
        PROVE  Recorded(k, solKeys[k], solSigned, solClock + 1)
    <3>1. Recorded(k, solKeys[k], solSigned, solClock) /\ solKeys[k].periodIndex \in Nat \cup {None}
      BY <2>2 DEF SolInv, Stored, SolRecord
    <3> QED
      BY <2>1, <3>1 DEF Recorded
  <2>3. \A c \in SolTabs : (solTabs[c] # Idle => Stored(solTabs[c].key))'
    BY <2>1 DEF SolInv, Stored
  <2>4. \A k \in SolSessionKeyIds :
          (IF Stored(k) THEN Recorded(k, solKeys[k], solSigned, solClock) ELSE Mine(k, solSigned) = {})'
    BY <2>1, <2>2 DEF SolInv, Stored
  <2> QED
    BY <2>1, <2>3, <2>4 DEF SolInv, SolSent
<1>2. CASE SolLands
  <2>1. PICK x \in solInFlight :
          /\ solInFlight' = solInFlight \ {x}
          /\ CASE x.kind = "approve" -> delegate' = [key |-> x.key, left |-> SolBudget]
               [] x.kind = "revoke" -> delegate' = None
               [] OTHER -> LET n == solSigned[x.n].amount
                           IN /\ delegate # None /\ delegate.key = x.key /\ n <= delegate.left
                              /\ delegate' = [delegate EXCEPT !.left = @ - n]
    BY <1>2 DEF SolLands
  <2>2. x \in SolSent
    BY DEF SolInv
  <2>3. delegate' \in [key : SolSessionKeyIds, left : 0..SolBudget] \cup {None}
    <3>1. CASE x.kind = "approve"
      <4>1. x.key \in SolSessionKeyIds
        BY <2>2 DEF SolSent
      <4> QED
        BY <2>1, <3>1, <4>1, SolAssumption
    <3>2. CASE x.kind = "revoke"
      BY <2>1, <3>2
    <3>3. CASE x.kind \notin {"approve", "revoke"}
      <4> DEFINE n == solSigned[x.n].amount
      <4>1. x.n \in DOMAIN solSigned
        BY <2>2, <3>3 DEF SolSent
      <4>2. n \in Nat
        BY <4>1, SignedFields DEF SolInv
      <4>3. n <= delegate.left /\ delegate # None /\ delegate' = [delegate EXCEPT !.left = delegate.left - n]
        BY <2>1, <3>3
      <4>4. delegate \in [key : SolSessionKeyIds, left : 0..SolBudget]
        BY <4>3 DEF SolInv
      <4> HIDE DEF n
      <4>5. delegate.left - n \in 0..SolBudget
        BY <4>2, <4>3, <4>4, SolAssumption
      <4> QED
        BY <4>3, <4>4, <4>5
    <3> QED
      BY <3>1, <3>2, <3>3
  <2>4. solInFlight' \subseteq SolSent /\ UNCHANGED <<solClock, solKeys, solTabs, solSigned>>
    BY <1>2, <2>1 DEF SolLands, SolInv
  <2> QED
    BY <2>3, <2>4, SolKeeps DEF SolInv, Stored
<1>3. ASSUME NEW k \in SolSessionKeyIds, CreateSolKey(k)
      PROVE  SolInv'
  <2>1. /\ ~Stored(k) /\ solKeys' = [solKeys EXCEPT ![k] = FreshKey]
        /\ UNCHANGED <<solClock, solTabs, solSigned, solInFlight, delegate>>
    BY <1>3 DEF CreateSolKey, Update
  <2>2. FreshKey \in SolRecord
    BY DEF FreshKey, SolRecord
  <2>3. solKeys' \in [SolSessionKeyIds -> SolRecord \cup {None}]
    BY <2>1, <2>2 DEF SolInv
  <2>4. \A j \in SolSessionKeyIds : j # k => solKeys'[j] = solKeys[j]
    BY <2>1 DEF SolInv
  <2>5. solKeys'[k] = FreshKey
    BY <2>1 DEF SolInv
  <2> QED
    BY <2>1, <2>3, <2>4, <2>5, SolKeeps DEF SolInv, Stored
<1>4. ASSUME NEW k \in SolSessionKeyIds, AttachApproval(k)
      PROVE  SolInv'
  <2>1. Stored(k) /\ UNCHANGED <<solClock, solTabs, solSigned, delegate>>
        /\ solInFlight' = solInFlight \cup {[kind |-> "approve", key |-> k]}
    BY <1>4 DEF AttachApproval
  <2>2. ASSUME NEW j \in SolSessionKeyIds
        PROVE  \/ solKeys'[j] = solKeys[j]
               \/ Stored(j) /\ \E status \in {"pending", "active", "revoked"} :
                    solKeys'[j] = [solKeys[j] EXCEPT !.status = status]
    BY <1>4, <2>1 DEF AttachApproval
  <2>3. DOMAIN solKeys' = SolSessionKeyIds
    BY <1>4 DEF AttachApproval
  <2>4. /\ \A j \in SolSessionKeyIds : solKeys'[j] \in SolRecord \cup {None}
        /\ \A j \in SolSessionKeyIds : Stored(j) =>
             /\ solKeys'[j] # None /\ solKeys'[j].spent = solKeys[j].spent
             /\ solKeys'[j].useCount = solKeys[j].useCount
             /\ solKeys'[j].periodIndex = solKeys[j].periodIndex
             /\ solKeys'[j].periodSpent = solKeys[j].periodSpent
        /\ \A j \in SolSessionKeyIds : ~Stored(j) => solKeys'[j] = None
    <3> SUFFICES ASSUME NEW j \in SolSessionKeyIds
        PROVE  /\ solKeys'[j] \in SolRecord \cup {None}
               /\ Stored(j) => /\ solKeys'[j] # None /\ solKeys'[j].spent = solKeys[j].spent
                               /\ solKeys'[j].useCount = solKeys[j].useCount
                               /\ solKeys'[j].periodIndex = solKeys[j].periodIndex
                               /\ solKeys'[j].periodSpent = solKeys[j].periodSpent
               /\ ~Stored(j) => solKeys'[j] = None
      OBVIOUS
    <3>1. CASE solKeys'[j] = solKeys[j]
      BY <3>1 DEF SolInv, Stored
    <3>2. ASSUME Stored(j), NEW status \in {"pending", "active", "revoked"},
                 solKeys'[j] = [solKeys[j] EXCEPT !.status = status]
          PROVE  /\ solKeys'[j] \in SolRecord /\ solKeys'[j] # None /\ solKeys'[j].spent = solKeys[j].spent
                 /\ solKeys'[j].useCount = solKeys[j].useCount
                 /\ solKeys'[j].periodIndex = solKeys[j].periodIndex
                 /\ solKeys'[j].periodSpent = solKeys[j].periodSpent
      BY <3>2, SolKeysChange
    <3> QED
      BY <2>2, <3>1, <3>2
  <2>5. solKeys' \in [SolSessionKeyIds -> SolRecord \cup {None}]
    <3>1. solKeys' = [j \in SolSessionKeyIds |-> solKeys'[j]]
      BY <1>4 DEF AttachApproval
    <3> QED
      BY <2>4, <3>1
  <2>6. solInFlight' \subseteq SolSent
    BY <2>1 DEF SolInv, SolSent
  <2> QED
    BY <2>1, <2>4, <2>5, <2>6, SolKeeps DEF SolInv, Stored
<1>5. ASSUME NEW k \in SolSessionKeyIds, RevokeSolKey(k)
      PROVE  SolInv'
  <2> DEFINE u == [solKeys[k] EXCEPT !.status = "revoked"]
  <2>1. /\ Stored(k) /\ solKeys' = [solKeys EXCEPT ![k] = u] /\ UNCHANGED <<solClock, solTabs, solSigned, delegate>>
        /\ solInFlight' \in {solInFlight, solInFlight \cup {[kind |-> "revoke", key |-> k]}}
    BY <1>5 DEF RevokeSolKey, Update
  <2>2. /\ u \in SolRecord /\ u # None /\ u.spent = solKeys[k].spent /\ u.useCount = solKeys[k].useCount
        /\ u.periodIndex = solKeys[k].periodIndex /\ u.periodSpent = solKeys[k].periodSpent
    BY <2>1, SolKeysChange
  <2>3. [kind |-> "revoke", key |-> k] \in SolSent
    BY DEF SolSent
  <2>4. solInFlight' \subseteq SolSent
    BY <2>1, <2>3 DEF SolInv
  <2> HIDE DEF u
  <2>5. /\ solKeys' \in [SolSessionKeyIds -> SolRecord \cup {None}] /\ solKeys'[k] = u
        /\ \A j \in SolSessionKeyIds : j # k => solKeys'[j] = solKeys[j]
    BY <2>1, <2>2 DEF SolInv
  <2> QED
    BY <2>1, <2>2, <2>4, <2>5, SolKeeps DEF SolInv, Stored
<1>6. ASSUME NEW c \in SolTabs, SignPaymentBegins(c)
      PROVE  SolInv'
  <2>1. PICK k \in SolSessionKeyIds, n \in SolAmounts :
          Stored(k) /\ solTabs' = [solTabs EXCEPT ![c] = [pc |-> "fetching", key |-> k, amount |-> n]]
    BY <1>6 DEF SignPaymentBegins
  <2>2. UNCHANGED <<solClock, solKeys, solSigned, solInFlight, delegate>>
    BY <1>6 DEF SignPaymentBegins
  <2>3. solTabs' \in [SolTabs -> Tab \cup {Idle}]
    BY <2>1 DEF SolInv, Tab
  <2>4. \A d \in SolTabs : (solTabs[d] # Idle => Stored(solTabs[d].key))'
    BY <2>1, <2>2 DEF SolInv, Stored
  <2> QED
    BY <2>2, <2>3, <2>4 DEF SolInv, Stored, SolSent, Tab
<1>7. ASSUME NEW c \in SolTabs, SignPaymentEnds(c)
      PROVE  SolInv'
  <2> DEFINE k == solTabs[c].key
             n == solTabs[c].amount
  <2>1. solTabs[c] # Idle /\ solTabs' = [solTabs EXCEPT ![c] = Idle] /\ UNCHANGED <<solClock, delegate>>
    BY <1>7 DEF SignPaymentEnds
  <2>2. k \in SolSessionKeyIds /\ n \in SolAmounts /\ Stored(k)
    BY <2>1 DEF SolInv, Tab
  <2>3. /\ solTabs' \in [SolTabs -> Tab \cup {Idle}]
        /\ \A d \in SolTabs : solTabs'[d] # Idle => solTabs'[d] = solTabs[d]
    BY <2>1 DEF SolInv
  <2>4. CASE /\ Rechecked(solKeys[k], n) /\ Update(k, Accounted(solKeys[k], n))
             /\ solSigned' = Append(solSigned, [key |-> k, amount |-> n, at |-> solClock])
             /\ solInFlight' = solInFlight \union {[kind |-> "pay", key |-> k, n |-> Len(solSigned) + 1]}
    <3> HIDE DEF k, n
    <3> QED
      BY <2>1, <2>2, <2>3, <2>4, SolSigns DEF Rechecked
  <2>5. CASE UNCHANGED <<solKeys, solSigned, solInFlight>>
    <3>1. \A d \in SolTabs : (solTabs[d] # Idle => Stored(solTabs[d].key))'
      BY <2>3, <2>5 DEF SolInv, Stored
    <3> QED
      BY <2>1, <2>3, <2>5, <3>1 DEF SolInv, Stored, SolSent, Tab
  <2> QED
    BY <1>7, <2>4, <2>5 DEF SignPaymentEnds
<1> QED
  BY <1>1, <1>2, <1>3, <1>4, <1>5, <1>6, <1>7 DEF SolKeyNext

LEMMA SolHolds ==
  ASSUME SolInv
  PROVE  SolKeyTypeOK /\ SignedWithinScope
<1>1. SolKeyTypeOK
  <2>1. \A k \in SolSessionKeyIds : Stored(k) => solKeys[k].spent \in Nat /\ solKeys[k].useCount \in Nat
    BY DEF SolInv, Stored, SolRecord
  <2>2. delegate = None \/ (delegate.key \in SolSessionKeyIds /\ delegate.left \in 0..SolBudget)
    BY DEF SolInv
  <2> QED
    BY <2>1, <2>2 DEF SolKeyTypeOK
<1>2. SignedWithinScope
  <2> SUFFICES ASSUME NEW k \in SolSessionKeyIds
      PROVE  LET mine == {i \in DOMAIN solSigned : solSigned[i].key = k}
             IN /\ SignedSum(mine) <= SolBudget /\ Cardinality(mine) <= SolMaxCount
                /\ \A t \in 0..solClock : SignedSum({i \in mine : solSigned[i].at = t}) <= SolPeriod
    BY DEF SignedWithinScope
  <2> DEFINE M == Mine(k, solSigned)
  <2>1. M = {i \in DOMAIN solSigned : solSigned[i].key = k}
        /\ \A t : MineAt(k, solSigned, t) = {i \in M : solSigned[i].at = t}
    BY DEF Mine, MineAt
  <2>2. \A S : SignedSum(S) = SumOf(solSigned, S)
    BY DEF SignedSum, SumOf
  <2>3. SumOf(solSigned, M) <= SolBudget /\ Cardinality(M) <= SolMaxCount
    <3>1. CASE Stored(k)
      BY <3>1 DEF SolInv, Recorded
    <3>2. CASE ~Stored(k)
      <4>1. M = {}
        BY <3>2 DEF SolInv
      <4> QED
        BY <4>1, SumOfNothing, FS_EmptySet, SolAssumption
    <3> QED
      BY <3>1, <3>2
  <2>4. \A t \in 0..solClock : SumOf(solSigned, MineAt(k, solSigned, t)) <= SolPeriod
    BY DEF SolInv
  <2> HIDE DEF M
  <2> QED
    BY <2>1, <2>2, <2>3, <2>4
<1> QED
  BY <1>1, <1>2

--------------------------------------------------------------------------------
(* The preview of an authorization and its enforcers.                           *)

Payment == [asset : {"token", "native"}, to : Recipients, amount : Nat, rail : Rails, at : Nat]
AuthInv ==
  /\ AuthorizationValid(grants) /\ grants \subseteq Grant /\ IsFiniteSet(grants)
  /\ target \in EnforcerTargets /\ Compiles(grants, target)
  /\ payClockOf \in 0..MaxScopeClock /\ paid \in Seq(Payment)
  /\ \A i \in DOMAIN paid : paid[i].asset = "token" /\ paid[i].at <= payClockOf

LEMMA RequestFields ==
  ASSUME AuthInv, NEW p \in Requests
  PROVE  p \in Payment /\ p.amount \in 1..2 /\ p.at = payClockOf
<1>1. payClockOf \in Nat
  BY AuthorizedAssumption, ScopesAssumption DEF AuthInv
<1> QED
  BY <1>1 DEF Requests, Payment

LEMMA AuthStarts ==
  ASSUME AuthInit
  PROVE  AuthInv
BY AuthorizedAssumption, ScopesAssumption DEF AuthInit, AuthInv

LEMMA PaidFields ==
  ASSUME AuthInv, NEW i \in DOMAIN paid
  PROVE  paid[i].amount \in Nat /\ paid[i].at \in Nat
<1>1. paid[i] \in Payment
  BY DEF AuthInv
<1> QED
  BY <1>1 DEF Payment

Before == [i \in DOMAIN paid |-> AsExecution(paid[i])]

\* What a scope with a token budget counts is what the evaluator counts.
LEMMA SumsAgree ==
  ASSUME AuthInv, NEW s, s.allowance # None
  PROVE  /\ TokenSpent(s, Before) = AmountSpent(paid, "token") /\ AmountSpent(paid, "token") \in Nat
         /\ ValueSpent(Before) = 0 /\ Len(Before) = Len(paid) /\ Len(paid) \in Nat
         /\ SumFunction([i \in DOMAIN Before |-> Before[i].data.amount]) = AmountSpent(paid, "token")
         /\ \A t : SumFunction([i \in {j \in DOMAIN Before : Before[j].at = t} |-> Before[i].data.amount])
                   = SpentAt(paid, "token", t)
         /\ \A t : SpentAt(paid, "token", t) \in Nat
         /\ s.period # None /\ s.period.asset = "token" => \A t : PeriodUsed(s, Before, t) = SpentAt(paid, "token", t)
<1>1. DOMAIN paid = 1..Len(paid) /\ Len(paid) \in Nat
  BY DEF AuthInv
<1>2. /\ DOMAIN Before = DOMAIN paid
      /\ \A i \in DOMAIN paid : /\ Before[i].target = "token" /\ Before[i].value = 0
                                /\ Before[i].data.amount = paid[i].amount /\ Before[i].at = paid[i].at
  BY DEF Before, AsExecution, AuthInv
<1>0. {i \in DOMAIN paid : paid[i].asset = "token"} = DOMAIN paid
  BY DEF AuthInv
<1>3. Len(Before) = Len(paid)
  BY <1>1, <1>2
<1>4. TokenSpends(s, Before) = DOMAIN paid
  BY <1>2 DEF TokenSpends, IsToken
<1>5. [i \in DOMAIN paid |-> Before[i].data.amount] = [i \in DOMAIN paid |-> paid[i].amount]
  BY <1>2
<1>6. TokenSpent(s, Before) = AmountSpent(paid, "token")
      /\ SumFunction([i \in DOMAIN Before |-> Before[i].data.amount]) = AmountSpent(paid, "token")
  BY <1>0, <1>2, <1>4, <1>5 DEF TokenSpent, AmountSpent
<1>7. IsFiniteSet(DOMAIN paid)
  BY <1>1, SomeAreFinite
<1>8. ValueSpent(Before) = 0
  <2>1. [i \in DOMAIN Before |-> Before[i].value] = [i \in DOMAIN paid |-> 0]
    BY <1>2
  <2> QED
    BY <1>7, <2>1, ZeroesSum DEF ValueSpent
<1>9. AmountSpent(paid, "token") \in Nat
  <2>1. [i \in DOMAIN paid |-> paid[i].amount] \in [DOMAIN paid -> Nat]
    BY PaidFields
  <2> QED
    BY <1>0, <1>7, <2>1, SumNat DEF AmountSpent
<1>10. ASSUME NEW t
       PROVE  /\ SumFunction([i \in {j \in DOMAIN Before : Before[j].at = t} |-> Before[i].data.amount])
                 = SpentAt(paid, "token", t)
              /\ SpentAt(paid, "token", t) \in Nat
              /\ s.period # None /\ s.period.asset = "token" => PeriodUsed(s, Before, t) = SpentAt(paid, "token", t)
  <2> DEFINE S == {j \in DOMAIN paid : paid[j].at = t}
             f == [i \in S |-> paid[i].amount]
  <2>1. {j \in DOMAIN Before : Before[j].at = t} = S
    BY <1>2
  <2>2. [i \in S |-> Before[i].data.amount] = f
    BY <1>2
  <2>3. SpentAt(paid, "token", t) = SumFunction(f)
    <3>1. {j \in DOMAIN paid : paid[j].asset = "token" /\ paid[j].at = t} = S
      BY DEF AuthInv
    <3> QED
      BY <3>1 DEF SpentAt
  <2>4. IsFiniteSet(S) /\ f \in [S -> Nat]
    BY <1>1, SomeAreFinite, PaidFields
  <2>5. SumFunction(f) \in Nat
    BY <2>4, SumNat
  <2>6. ASSUME s.period # None, s.period.asset = "token"
        PROVE  PeriodUsed(s, Before, t) = SumFunction(f)
    <3>1. {j \in DOMAIN Before : InPeriod(s, Before[j]) /\ Before[j].at = t} = S
      BY <1>2, <2>6 DEF InPeriod, IsToken
    <3>2. [i \in S |-> PeriodAmount(s, Before[i])] = f
      BY <1>2 DEF PeriodAmount, IsToken
    <3> QED
      BY <3>1, <3>2 DEF PeriodUsed
  <2> QED
    BY <2>1, <2>2, <2>3, <2>5, <2>6
<1> QED
  BY <1>1, <1>3, <1>6, <1>8, <1>9, <1>10

\* What every enforcer of a token grant asks of a payment.
Verdict(g, p) ==
  /\ p.to \in g.recipients /\ AmountSpent(paid, "token") + p.amount <= g.maxTotal
  /\ g.period # None => SpentAt(paid, "token", p.at) + p.amount <= g.period
  /\ g.maxCount # None => Len(paid) < g.maxCount

LEMMA GrantFields ==
  ASSUME AuthInv, NEW g \in grants
  PROVE  /\ g \in Grant /\ g.recipients # {} /\ g.rails # {} /\ g.maxPer \in 1..g.maxTotal
         /\ g.maxTotal \in Nat /\ g.maxPer \in Nat /\ g.maxCount \in Limit
         /\ g.period # None => g.period \in 1..g.maxTotal /\ g.period \in Nat
         /\ g.recipients \subseteq Recipients /\ g.asset \in {"token", "native"}
BY DEF AuthInv, AuthorizationValid, GrantValid, Grant, Limit
\* The evaluator, for a payment on a rail of the only grant that can cover it.
LEMMA EvaluatesOne ==
  ASSUME AuthInv, NEW g \in grants, g.asset = "token",
         \A h \in grants : h.asset = "token" => h = g,
         NEW p, p.asset = "token", p.rail \in g.rails
  PROVE  Evaluate(grants, paid, p) <=> Verdict(g, p) /\ p.amount <= g.maxPer
BY DEF Evaluate, Covers, Verdict

LEMMA OneGrant ==
  ASSUME NEW S, Cardinality(S) = 1, IsFiniteSet(S)
  PROVE  S = {One(S)}
<1>1. PICK x : S = {x}
  BY FS_Singleton
<1> QED
  BY <1>1 DEF One

LEMMA SimpleAgrees ==
  ASSUME AuthInv, target \in {"solana", "mpp"}, IsFiniteSet(grants), NEW p \in Requests,
         p.asset = "token", p.rail \in RailsOf(target)
  PROVE  LET rail == IF target = "solana" THEN One(One(grants).rails) ELSE p.rail
         IN Signs(p) <=> Evaluate(grants, paid, [p EXCEPT !.rail = rail])
<1> DEFINE g == One(grants)
           asked == [p EXCEPT !.rail = IF target = "solana" THEN One(One(grants).rails) ELSE p.rail]
<1>1. SimpleExpressible(grants, target)
  BY DEF AuthInv, Compiles
<1>2. grants = {g}
  BY <1>1, OneGrant DEF SimpleExpressible
<1>3. g.asset = "token"
  BY <1>1 DEF SimpleExpressible
<1>4. p \in Payment
  BY RequestFields
<1>5. asked.asset = "token" /\ asked.to = p.to /\ asked.amount = p.amount /\ asked.at = p.at
  BY <1>4 DEF Payment
<1>6. g.rails # {}
  BY <1>2, GrantFields
<1>7. One(g.rails) \in g.rails
  BY <1>6 DEF One
<1>8. asked.rail \in g.rails
  <2>1. CASE target = "solana"
    BY <1>4, <1>7, <2>1 DEF Payment
  <2>2. CASE target # "solana"
    <3>1. g.rails = {"mpp-session"} /\ RailsOf(target) = {"mpp-session"}
      BY <1>1, <2>2 DEF SimpleExpressible, RailsOf
    <3> QED
      BY <1>4, <2>2, <3>1 DEF Payment
  <2> QED
    BY <2>1, <2>2
<1>9. Evaluate(grants, paid, asked) <=> Verdict(g, asked) /\ asked.amount <= g.maxPer
  <2> HIDE DEF asked, g
  <2> QED
    BY <1>2, <1>3, <1>5, <1>8, EvaluatesOne
<1>10. Verdict(g, asked) <=> Verdict(g, p)
  BY <1>5 DEF Verdict
<1>11. Signs(p) <=> Verdict(g, p) /\ p.amount <= g.maxPer
  BY DEF Signs, SimpleSigns, SimpleScope, Verdict
<1> QED
  BY <1>5, <1>9, <1>10, <1>11

\* The only grant of an authorization for the chain is of the token.
LEMMA ChainGrant ==
  ASSUME AuthInv, target = "eip7702"
  PROVE  \E g \in grants : /\ grants = {g} /\ g.asset = "token" /\ Only("token", grants) = {g} /\ Only("native", grants) = {}
                           /\ g.rails = {"transfer"} /\ Cardinality(g.recipients) = 1
                           /\ g.maxPer >= Least(g.maxTotal, Given(g.period, g.maxTotal))
<1>1. EvmExpressible(grants, "eip7702")
  BY DEF AuthInv, Compiles
<1>2. PICK g : g \in grants
  BY DEF AuthInv, AuthorizationValid
<1>3. \A h \in grants : h.asset = "token"
  BY <1>1, GrantFields DEF EvmExpressible, Only
<1>4. \A h \in grants : h = g
  BY <1>1, <1>2, <1>3 DEF EvmExpressible
<1>5. grants = {g} /\ One(grants) = g
  BY <1>2, <1>4 DEF One
<1> QED
  BY <1>1, <1>2, <1>3, <1>5 DEF EvmExpressible, Only

LEMMA ChainAgrees ==
  ASSUME AuthInv, target = "eip7702", NEW p \in Requests, p.asset = "token", p.rail = "transfer"
  PROVE  Signs(p) <=> Evaluate(grants, paid, p)
<1>1. PICK g \in grants :
        /\ grants = {g} /\ g.asset = "token" /\ Only("token", grants) = {g} /\ Only("native", grants) = {}
        /\ g.rails = {"transfer"} /\ Cardinality(g.recipients) = 1
        /\ g.maxPer >= Least(g.maxTotal, Given(g.period, g.maxTotal))
  BY ChainGrant
<1>2. One({g}) = g
  BY DEF One
<1>3. p \in Payment /\ p.amount \in 1..2 /\ p.to \in Recipients
  BY RequestFields DEF Payment
<1>4. /\ g \in Grant /\ g.maxPer \in Nat /\ g.maxTotal \in Nat /\ g.maxTotal > 0 /\ g.maxPer <= g.maxTotal
      /\ g.maxCount \in Limit /\ g.recipients \subseteq Recipients
      /\ g.period # None => g.period \in 1..g.maxTotal /\ g.period \in Nat
  BY GrantFields
<1>5. PICK r : g.recipients = {r}
  <2>1. IsFiniteSet(Recipients)
    <3>1. IsFiniteSet({"payee"})
      BY FS_Singleton
    <3>2. Recipients = {"payee"} \union {"stranger"}
      BY DEF Recipients
    <3> QED
      BY <3>1, <3>2, FS_AddElement
  <2> QED
    BY <1>1, <1>4, <2>1, FS_Subset, FS_Singleton
<1>6. r \in Recipients /\ r # None /\ (CHOOSE q \in g.recipients : TRUE) = r
  BY <1>4, <1>5, AuthorizedAssumption, ScopesAssumption
<1> DEFINE s == EvmScope(grants, target)
           x == AsExecution(p)
           paidFor == IF g.period = None THEN None ELSE [asset |-> "token", amount |-> g.period]
<1>7. /\ s.contracts = {"token"} /\ s.methods = {"transfer"} /\ s.recipients = {r}
      /\ s.maxTxCount = g.maxCount /\ s.mode = "eip7702" /\ s.rails = {"transfer"}
      /\ s.nativeTransfer = FALSE /\ s.maxValuePerTx = 0 /\ s.maxTotalValue = 0
      /\ s.allowance = g.maxTotal /\ s.tokenMaxPerTx = None /\ s.period = paidFor
  BY <1>1, <1>2, <1>5 DEF EvmScope
<1>8. /\ x.target = "token" /\ x.value = 0 /\ x.at = p.at
      /\ x.data.method = "transfer" /\ x.data.to = p.to /\ x.data.amount = p.amount
  BY DEF AsExecution
<1>9. /\ g.period # None => paidFor # None /\ paidFor.asset = "token" /\ paidFor.amount = g.period
      /\ g.period = None => paidFor = None
  <2>1. g.period # None => [asset |-> "token", amount |-> g.period] # None
    BY <1>4, AuthorizedAssumption, ScopesAssumption DEF PeriodLimit
  <2> QED
    BY <2>1
<1>10. /\ s.allowance # None /\ TokenSpent(s, Before) = AmountSpent(paid, "token") /\ AmountSpent(paid, "token") \in Nat
       /\ ValueSpent(Before) = 0 /\ Len(Before) = Len(paid) /\ Len(paid) \in Nat
       /\ SumFunction([i \in DOMAIN Before |-> Before[i].data.amount]) = AmountSpent(paid, "token")
       /\ \A t : SumFunction([i \in {j \in DOMAIN Before : Before[j].at = t} |-> Before[i].data.amount])
                   = SpentAt(paid, "token", t)
       /\ \A t : SpentAt(paid, "token", t) \in Nat
       /\ s.period # None => \A t : PeriodUsed(s, Before, t) = SpentAt(paid, "token", t)
  <2>1. s.allowance # None
    BY <1>4, <1>7, AuthorizedAssumption, ScopesAssumption
  <2> HIDE DEF s
  <2>2. s.period # None => s.period.asset = "token"
    BY <1>7, <1>9
  <2> QED
    BY <2>1, <2>2, SumsAgree
<1> HIDE DEF s, x, paidFor
<1>11. ScopeValid(s)
  <2>1. s.rails # {} /\ s.tokenMaxPerTx = None /\ ~s.nativeTransfer
    BY <1>7
  <2>2. ASSUME s.period # None
        PROVE  /\ s.period.asset # "native" /\ s.allowance # None
               /\ s.period.amount \in 1..s.allowance
    BY <1>4, <1>7, <1>9, <1>10, <2>2
  <2> QED
    BY <2>1, <2>2 DEF ScopeValid
<1>12. Expressible(s)
  <2>1. Cardinality(s.recipients) = 1
    BY <1>1, <1>5, <1>7
  <2>2. s.allowance # None
    BY <1>10
  <2> QED
    BY <2>1, <2>2, <1>4, <1>7, <1>9 DEF Expressible, Forbidden
<1>13. 0 # None
  BY AuthorizedAssumption, ScopesAssumption
<1>14. IsToken(s, x)
  BY <1>8, <1>10 DEF IsToken
<1>15. DeviceAccepts(s, Before, x) <=> Verdict(g, p)
  <2>1. ContractAllowed(s, x) /\ x.data.method \notin Forbidden /\ Decoded(s, x) /\ MethodAllowed(s, x)
    BY <1>7, <1>8, <1>14 DEF ContractAllowed, Forbidden, Decoded, MethodAllowed
  <2>2. RecipientAllowed(s, x) <=> p.to \in g.recipients
    BY <1>5, <1>7, <1>8, <1>14 DEF RecipientAllowed
  <2>3. InPeriod(s, x) <=> g.period # None
    BY <1>7, <1>9, <1>14 DEF InPeriod
  <2>4. PeriodAmount(s, x) = p.amount
    BY <1>8, <1>14 DEF PeriodAmount
  <2>5. (InPeriod(s, x) => PeriodUsed(s, Before, x.at) + PeriodAmount(s, x) <= s.period.amount)
        <=> (g.period # None => SpentAt(paid, "token", p.at) + p.amount <= g.period)
    BY <1>7, <1>8, <1>9, <1>10, <2>3, <2>4
  <2>6. Within(x.data.amount, s.tokenMaxPerTx) /\ Within(x.value, s.maxValuePerTx)
        /\ Within(ValueSpent(Before) + x.value, s.maxTotalValue)
    BY <1>7, <1>8, <1>10 DEF Within
  <2> QED
    BY <2>1, <2>2, <2>5, <2>6, <1>7, <1>8, <1>10, <1>14 DEF DeviceAccepts, Verdict
<1> DEFINE c == Caveats(s)
<1>16. /\ c.targets = {"token"} /\ c.methods = {"transfer"} /\ c.calls = g.maxCount /\ c.token = g.maxTotal
       /\ c.valueLte = 0 /\ c.total = None /\ c.period = paidFor /\ c.recipient = r
  <2>1. s.recipients # {} /\ (CHOOSE q \in s.recipients : TRUE) = r
    BY <1>5, <1>6, <1>7
  <2> QED
    BY <1>7, <1>10, <2>1 DEF Caveats
<1> HIDE DEF c
<1>17. ChainAccepts(c, Before, x) <=> Verdict(g, p)
  <2>1. x.target \in c.targets /\ x.data.method \in c.methods /\ Within(x.value, c.valueLte)
        /\ Within(ValueSpent(Before) + x.value, c.total)
    BY <1>8, <1>10, <1>16 DEF Within
  <2>2. Within(Len(Before) + 1, c.calls) <=> (g.maxCount # None => Len(paid) < g.maxCount)
    BY <1>4, <1>10, <1>16, AuthorizedAssumption, ScopesAssumption DEF Within, Limit
  <2>3. c.token # None
    BY <1>7, <1>10, <1>16
  <2>4. c.recipient # None /\ (x.data.to = c.recipient <=> p.to \in g.recipients)
    BY <1>5, <1>6, <1>8, <1>16
  <2>5. ASSUME c.period # None
        PROVE  SumFunction([i \in {j \in DOMAIN Before : Before[j].at = x.at} |->
                              IF c.period.asset = "token" THEN Before[i].data.amount ELSE Before[i].value])
               = SpentAt(paid, "token", p.at)
    <3>1. c.period.asset = "token"
      BY <1>9, <1>16, <2>5
    <3>2. [i \in {j \in DOMAIN Before : Before[j].at = x.at} |->
             IF c.period.asset = "token" THEN Before[i].data.amount ELSE Before[i].value]
          = [i \in {j \in DOMAIN Before : Before[j].at = p.at} |-> Before[i].data.amount]
      BY <1>8, <3>1
    <3> QED
      BY <1>10, <3>2
  <2>6. (c.period # None =>
           SumFunction([i \in {j \in DOMAIN Before : Before[j].at = x.at} |->
                          IF c.period.asset = "token" THEN Before[i].data.amount ELSE Before[i].value])
             + (IF c.period.asset = "token" THEN x.data.amount ELSE x.value) <= c.period.amount)
        <=> (g.period # None => SpentAt(paid, "token", p.at) + p.amount <= g.period)
    BY <1>8, <1>9, <1>16, <2>5
  <2>7. (x.data.method = "transfer" /\ SumFunction([i \in DOMAIN Before |-> Before[i].data.amount]) + x.data.amount <= c.token)
        <=> AmountSpent(paid, "token") + p.amount <= g.maxTotal
    BY <1>8, <1>10, <1>16
  <2> QED
    BY <2>1, <2>2, <2>3, <2>4, <2>6, <2>7 DEF ChainAccepts, Verdict
<1>18. Signs(p) <=> Verdict(g, p)
  <2>1. EvmSigns(s, paid, p) <=> Verdict(g, p)
    <3>1. Before = [i \in DOMAIN paid |-> AsExecution(paid[i])]
      BY DEF Before
    <3> QED
      BY <1>3, <1>7, <1>11, <1>12, <1>15, <1>17, <3>1 DEF EvmSigns, TypedDataAllowed, RawDigestAllowed, x, c
  <2> QED
    BY <2>1 DEF Signs, s
<1>19. Verdict(g, p) => p.amount <= g.maxPer
  <2>1. CASE g.period = None
    BY <1>1, <1>3, <1>4, <1>10, <2>1 DEF Verdict, Least, Given
  <2>2. CASE g.period # None
    <3>1. SpentAt(paid, "token", p.at) \in Nat
      BY <1>10
    <3> QED
      BY <1>1, <1>3, <1>4, <1>10, <2>2, <3>1 DEF Verdict, Least, Given
  <2> QED
    BY <2>1, <2>2
<1>20. Evaluate(grants, paid, p) <=> Verdict(g, p) /\ p.amount <= g.maxPer
  BY <1>1, <1>3, EvaluatesOne
<1> QED
  BY <1>18, <1>19, <1>20

LEMMA DeviceAgrees ==
  ASSUME AuthInv, target = "offchain", NEW p \in Requests, p.asset = "token", p.rail = "x402-exact"
  PROVE  Signs(p) <=> Evaluate(grants, paid, p)
<1>1. /\ \A f \in grants, h \in grants : f.recipients = h.recipients /\ f.maxCount = h.maxCount /\ (f.asset = h.asset => f = h)
      /\ grants # {}
  BY DEF AuthInv, Compiles, EvmExpressible, AuthorizationValid
<1>2. p \in Payment /\ p.amount \in Nat /\ p.to \in Recipients
  BY RequestFields DEF Payment
<1> DEFINE s == EvmScope(grants, target)
           x == AsExecution(p)
           native == Only("native", grants)
<1>3. /\ x.target = "token" /\ x.value = 0 /\ x.at = p.at
      /\ x.data.method = "transfer" /\ x.data.to = p.to /\ x.data.amount = p.amount
  BY DEF AsExecution
<1>4. Signs(p) <=> ScopeValid(s) /\ DeviceAccepts(s, Before, x) /\ TypedDataAllowed(s, x)
  <2>1. s.mode = "offchain"
    BY DEF EvmScope
  <2> QED
    BY <1>2, <2>1 DEF Signs, EvmSigns, Before
<1>5. CASE Only("token", grants) = {}
  <2>1. s.allowance = None
    BY <1>5 DEF EvmScope
  <2>2. ~TypedDataAllowed(s, x)
    BY <2>1 DEF TypedDataAllowed, IsToken
  <2>3. ~Evaluate(grants, paid, p)
    BY <1>5 DEF Evaluate, Covers, Only
  <2> QED
    BY <1>4, <2>2, <2>3
<1>6. CASE Only("token", grants) # {}
  <2>1. PICK g \in grants : g.asset = "token"
    BY <1>6 DEF Only
  <2>2. Only("token", grants) = {g}
    BY <1>1, <2>1 DEF Only
  <2>3. /\ g.maxPer \in Nat /\ g.maxTotal \in Nat /\ g.maxPer <= g.maxTotal
        /\ g.maxCount \in Limit /\ g.recipients \subseteq Recipients /\ g.recipients # {} /\ g.rails # {}
        /\ g.period # None => g.period \in 1..g.maxTotal /\ g.period \in Nat
    BY GrantFields
  <2>4. One({g}) = g
    BY DEF One
  <2>5. One(grants).recipients = g.recipients /\ One(grants).maxCount = g.maxCount
    <3>1. One(grants) \in grants
      BY <1>1 DEF One
    <3> QED
      BY <1>1, <3>1
  <2> DEFINE paidFor == IF g.period = None THEN None ELSE [asset |-> "token", amount |-> g.period]
             perTx == IF g.maxPer < g.maxTotal THEN g.maxPer ELSE None
  <2>6. /\ s.contracts = {"token"} /\ s.methods = {"transfer"} /\ s.recipients = g.recipients
        /\ s.maxTxCount = g.maxCount /\ s.mode = "offchain" /\ s.rails = g.rails
        /\ s.allowance = g.maxTotal /\ s.tokenMaxPerTx = perTx /\ s.period = paidFor
    BY <1>6, <2>2, <2>4, <2>5 DEF EvmScope
  <2>7. s.maxValuePerTx \in Nat /\ s.maxTotalValue \in Nat
    <3>1. CASE native = {}
      BY <3>1 DEF EvmScope
    <3>2. CASE native # {}
      <4>1. One(native) \in native
        BY <3>2 DEF One
      <4>2. One(native) \in grants
        BY <4>1 DEF Only
      <4>3. One(native).maxPer \in Nat /\ One(native).maxTotal \in Nat
        BY <4>2, GrantFields
      <4> QED
        BY <3>2, <4>3 DEF EvmScope
    <3> QED
      BY <3>1, <3>2
  <2>8. /\ g.period # None => paidFor # None /\ paidFor.asset = "token" /\ paidFor.amount = g.period
        /\ g.period = None => paidFor = None
    <3>1. g.period # None => [asset |-> "token", amount |-> g.period] # None
      BY <2>3, AuthorizedAssumption, ScopesAssumption DEF PeriodLimit
    <3> QED
      BY <3>1
  <2>9. s.allowance # None
    BY <2>3, <2>6, AuthorizedAssumption, ScopesAssumption
  <2> HIDE DEF s, x, paidFor
  <2>10. /\ TokenSpent(s, Before) = AmountSpent(paid, "token") /\ AmountSpent(paid, "token") \in Nat
         /\ ValueSpent(Before) = 0 /\ Len(Before) = Len(paid) /\ Len(paid) \in Nat
         /\ s.period # None => \A t : PeriodUsed(s, Before, t) = SpentAt(paid, "token", t)
    <3>1. s.period # None => s.period.asset = "token"
      BY <2>6, <2>8
    <3> QED
      BY <2>9, <3>1, SumsAgree
  <2>11. ScopeValid(s)
    <3>1. s.rails # {} /\ s.recipients # {}
      BY <2>3, <2>6
    <3>2. s.tokenMaxPerTx # None => s.allowance # None /\ s.tokenMaxPerTx <= s.allowance
      BY <2>3, <2>6, <2>9
    <3>3. ASSUME s.period # None
          PROVE  /\ s.period.asset # "native" /\ s.allowance # None
                 /\ s.period.amount \in 1..s.allowance
      BY <2>3, <2>6, <2>8, <2>9, <3>3
    <3> QED
      BY <3>1, <3>2, <3>3 DEF ScopeValid
  <2>12. IsToken(s, x)
    BY <1>3, <2>9 DEF IsToken
  <2>13. DeviceAccepts(s, Before, x) <=> Verdict(g, p) /\ p.amount <= g.maxPer
    <3>1. ContractAllowed(s, x) /\ x.data.method \notin Forbidden /\ Decoded(s, x) /\ MethodAllowed(s, x)
      BY <1>3, <2>6, <2>12 DEF ContractAllowed, Forbidden, Decoded, MethodAllowed
    <3>2. RecipientAllowed(s, x) <=> p.to \in g.recipients
      BY <1>3, <2>3, <2>6, <2>12 DEF RecipientAllowed
    <3>3. InPeriod(s, x) <=> g.period # None
      BY <2>6, <2>8, <2>12 DEF InPeriod
    <3>4. PeriodAmount(s, x) = p.amount
      BY <1>3, <2>12 DEF PeriodAmount
    <3>5. (InPeriod(s, x) => PeriodUsed(s, Before, x.at) + PeriodAmount(s, x) <= s.period.amount)
          <=> (g.period # None => SpentAt(paid, "token", p.at) + p.amount <= g.period)
      BY <1>3, <2>6, <2>8, <2>10, <3>3, <3>4
    <3>6. Within(x.value, s.maxValuePerTx) /\ Within(ValueSpent(Before) + x.value, s.maxTotalValue)
      BY <1>3, <2>7, <2>10 DEF Within
    <3>7. Within(x.data.amount, s.tokenMaxPerTx) /\ AmountSpent(paid, "token") + p.amount <= g.maxTotal
          <=> p.amount <= g.maxPer /\ AmountSpent(paid, "token") + p.amount <= g.maxTotal
      <4>1. CASE g.maxPer < g.maxTotal
        BY <1>3, <2>3, <2>6, <4>1, AuthorizedAssumption, ScopesAssumption DEF Within
      <4>2. CASE ~(g.maxPer < g.maxTotal)
        <5>1. s.tokenMaxPerTx = None /\ g.maxPer = g.maxTotal
          BY <2>3, <2>6, <4>2
        <5>2. AmountSpent(paid, "token") + p.amount <= g.maxTotal => p.amount <= g.maxPer
          BY <1>2, <2>3, <2>10, <5>1
        <5> QED
          BY <5>1, <5>2 DEF Within
      <4> QED
        BY <4>1, <4>2
    <3> QED
      BY <3>1, <3>2, <3>5, <3>6, <3>7, <1>3, <2>6, <2>10, <2>12 DEF DeviceAccepts, Verdict
  <2>14. TypedDataAllowed(s, x) <=> p.rail \in g.rails
    BY <1>2, <1>3, <2>6, <2>12 DEF TypedDataAllowed
  <2>15. Signs(p) <=> Verdict(g, p) /\ p.amount <= g.maxPer /\ p.rail \in g.rails
    BY <1>4, <2>11, <2>13, <2>14 DEF s, x
  <2>16. \A h \in grants : h.asset = "token" => h = g
    BY <1>1, <2>1
  <2>17. CASE p.rail \in g.rails
    <3>1. Evaluate(grants, paid, p) <=> Verdict(g, p) /\ p.amount <= g.maxPer
      BY <2>1, <2>16, <2>17, EvaluatesOne
    <3> QED
      BY <2>15, <2>17, <3>1
  <2>18. CASE p.rail \notin g.rails
    <3>1. ~Evaluate(grants, paid, p)
      BY <2>16, <2>18 DEF Evaluate, Covers
    <3> QED
      BY <2>15, <2>18, <3>1
  <2> QED
    BY <2>17, <2>18
<1> QED
  BY <1>5, <1>6

\* An EVM key signs for its token only, on the one rail of its mode.
LEMMA EvmPaths ==
  ASSUME AuthInv, target \in {"offchain", "eip7702"}, NEW p \in Requests, Signs(p)
  PROVE  p.asset = "token" /\ p.rail = IF target = "eip7702" THEN "transfer" ELSE "x402-exact"
<1> DEFINE s == EvmScope(grants, target)
           x == AsExecution(p)
           before == [i \in DOMAIN paid |-> AsExecution(paid[i])]
<1>1. /\ \/ p.rail = "transfer" /\ Expressible(s) /\ ChainAccepts(Caveats(s), before, x)
         \/ p.rail = "x402-exact" /\ TypedDataAllowed(s, x)
         \/ p.rail = "transfer" /\ RawDigestAllowed(s)
  BY DEF Signs, EvmSigns
<1>2. s.mode = target /\ s.contracts \subseteq {"token"} /\ s.recipients = One(grants).recipients
  BY DEF EvmScope
<1>3. s.recipients # {}
  <2>1. One(grants) \in grants
    BY DEF AuthInv, AuthorizationValid, One
  <2> QED
    BY <1>2, <2>1, GrantFields
<1>4. x.target = "token" => p.asset = "token"
  <2>1. p.asset \in {"token", "native"} /\ p.to \in Recipients
    BY RequestFields DEF Payment
  <2>2. p.asset = "native" => x.target = p.to
    BY DEF AsExecution
  <2> QED
    BY <2>1, <2>2 DEF Recipients
<1> HIDE DEF s, x, before
<1>5. CASE target = "eip7702"
  <2>1. p.rail = "transfer" /\ ChainAccepts(Caveats(s), before, x)
    BY <1>1, <1>2, <1>5 DEF TypedDataAllowed, RawDigestAllowed
  <2>2. x.target \in Caveats(s).targets
    BY <2>1 DEF ChainAccepts
  <2>3. Caveats(s).targets = s.contracts
    BY DEF Caveats
  <2> QED
    BY <1>2, <1>4, <1>5, <2>1, <2>2, <2>3
<1>6. CASE target = "offchain"
  <2>1. ~Expressible(s) /\ ~RawDigestAllowed(s)
    BY <1>2, <1>3, <1>6 DEF Expressible, RawDigestAllowed
  <2>2. p.rail = "x402-exact" /\ TypedDataAllowed(s, x)
    BY <1>1, <2>1
  <2>3. x.target = "token"
    BY <2>2 DEF TypedDataAllowed, IsToken
  <2> QED
    BY <1>4, <1>6, <2>2, <2>3
<1> QED
  BY <1>5, <1>6

LEMMA SignsTokens ==
  ASSUME AuthInv, NEW p \in Requests, Signs(p)
  PROVE  p.asset = "token"
<1>1. CASE target \in {"offchain", "eip7702"}
  BY <1>1, EvmPaths
<1>2. CASE target \in {"solana", "mpp"}
  BY <1>2 DEF Signs, SimpleSigns
<1> QED
  BY <1>1, <1>2 DEF AuthInv, EnforcerTargets

LEMMA AuthStep ==
  ASSUME AuthInv, AuthNext
  PROVE  AuthInv'
<1>1. CASE AuthPays
  <2>1. PICK p \in Requests : Signs(p) /\ paid' = Append(paid, p)
    BY <1>1 DEF AuthPays
  <2>2. UNCHANGED <<grants, target, payClockOf>>
    BY <1>1 DEF AuthPays
  <2>3. p \in Payment /\ p.asset = "token" /\ p.at = payClockOf /\ payClockOf \in Nat
    BY <2>1, RequestFields, SignsTokens, AuthorizedAssumption, ScopesAssumption DEF AuthInv
  <2>4. paid' \in Seq(Payment) /\ (\A i \in DOMAIN paid' : paid'[i] = p \/ (i \in DOMAIN paid /\ paid'[i] = paid[i]))
    BY <2>1, <2>3 DEF AuthInv
  <2>5. \A i \in DOMAIN paid' : paid'[i].asset = "token" /\ paid'[i].at <= payClockOf
    BY <2>3, <2>4 DEF AuthInv
  <2> QED
    BY <2>2, <2>4, <2>5 DEF AuthInv
<1>2. CASE AuthTick
  <2>1. payClockOf' = payClockOf + 1 /\ payClockOf < MaxScopeClock /\ UNCHANGED <<grants, target, paid>>
    BY <1>2 DEF AuthTick
  <2>2. \A i \in DOMAIN paid : paid[i].at \in Nat
    <3>1. \A i \in DOMAIN paid : paid[i] \in Payment
      BY DEF AuthInv
    <3> QED
      BY <3>1 DEF Payment
  <2>3. payClockOf' \in 0..MaxScopeClock
    BY <2>1, AuthorizedAssumption, ScopesAssumption DEF AuthInv
  <2>4. \A i \in DOMAIN paid : paid[i].at <= payClockOf + 1
    BY <2>2, AuthorizedAssumption, ScopesAssumption DEF AuthInv
  <2> QED
    BY <2>1, <2>3, <2>4 DEF AuthInv
<1> QED
  BY <1>1, <1>2 DEF AuthNext

\* The rails of the grants that compile, and which of them may be native.
LEMMA GrantRails ==
  ASSUME AuthInv, NEW g \in grants
  PROVE  /\ target \in {"solana", "mpp"} => g.rails \subseteq RailsOf(target) /\ g.asset = "token"
         /\ target = "eip7702" => g.rails \subseteq {"transfer"} /\ g.asset = "token"
         /\ target = "offchain" => g.rails \subseteq {"transfer", "x402-exact"}
<1>1. ASSUME target \in {"solana", "mpp"}
      PROVE  g.rails \subseteq RailsOf(target) /\ g.asset = "token"
  <2>1. SimpleExpressible(grants, target)
    BY <1>1 DEF AuthInv, Compiles
  <2>2. grants = {One(grants)}
    BY <2>1, OneGrant DEF SimpleExpressible, AuthInv
  <2> QED
    BY <1>1, <2>1, <2>2 DEF SimpleExpressible, RailsOf
<1>2. ASSUME target = "eip7702"
      PROVE  g.rails \subseteq {"transfer"} /\ g.asset = "token"
  BY <1>2, ChainGrant
<1>3. ASSUME target = "offchain"
      PROVE  g.rails \subseteq {"transfer", "x402-exact"}
  BY <1>3 DEF AuthInv, Compiles, EvmExpressible
<1> QED
  BY <1>1, <1>2, <1>3

\* What a key has no way to sign, or is on a rail that is not its own.
LEMMA OthersAgree ==
  ASSUME AuthInv, NEW p \in Requests,
         \/ p.asset = "native"
         \/ target \in {"solana", "mpp"} /\ p.rail \notin RailsOf(target)
         \/ target = "eip7702" /\ p.rail # "transfer"
         \/ target = "offchain" /\ p.rail # "x402-exact"
  PROVE  ~Signs(p) /\ \A rail : Evaluate(grants, paid, [p EXCEPT !.rail = rail]) =>
                        NoWayToSign(p) \/ (p.asset # "native" /\ rail # p.rail)
<1>1. ~Signs(p)
  <2>1. p.asset = "native" => ~Signs(p)
    BY SignsTokens
  <2>2. target \in {"solana", "mpp"} /\ p.rail \notin RailsOf(target) => ~Signs(p)
    BY DEF Signs, SimpleSigns
  <2>3. target = "eip7702" /\ p.rail # "transfer" => ~Signs(p)
    BY EvmPaths
  <2>4. target = "offchain" /\ p.rail # "x402-exact" => ~Signs(p)
    BY EvmPaths
  <2> QED
    BY <2>1, <2>2, <2>3, <2>4
<1>2. ASSUME NEW rail, Evaluate(grants, paid, [p EXCEPT !.rail = rail]), ~NoWayToSign(p), p.asset = "native" \/ rail = p.rail
      PROVE  FALSE
  <2>1. p \in Payment
    BY RequestFields
  <2> DEFINE asked == [p EXCEPT !.rail = rail]
  <2>2. asked.asset = p.asset /\ asked.rail = rail
    BY <2>1 DEF Payment
  <2> HIDE DEF asked
  <2>3. PICK g \in grants : g.asset = p.asset /\ rail \in g.rails
    BY <1>2, <2>2 DEF Evaluate, Covers, asked
  <2>4. target \in EnforcerTargets
    BY DEF AuthInv
  <2> QED
    BY <1>2, <2>3, <2>4, GrantRails DEF NoWayToSign, EnforcerTargets
<1> QED
  BY <1>1, <1>2

LEMMA AuthHolds ==
  ASSUME AuthInv
  PROVE  AuthTypeOK /\ VerdictsAgree
<1>1. AuthTypeOK
  <2>1. \A i \in DOMAIN paid : paid[i] \in Payment
    BY DEF AuthInv
  <2> QED
    BY <2>1 DEF AuthInv, AuthTypeOK, Payment
<1>2. ASSUME NEW p \in Requests
      PROVE  LET rail == IF target = "solana" /\ p.rail \in RailsOf(target) THEN One(One(grants).rails) ELSE p.rail
             IN Signs(p) <=> Evaluate(grants, paid, [p EXCEPT !.rail = rail]) /\ ~NoWayToSign(p)
  <2> DEFINE rail == IF target = "solana" /\ p.rail \in RailsOf(target) THEN One(One(grants).rails) ELSE p.rail
             asked == [p EXCEPT !.rail = rail]
  <2>1. p \in Payment /\ p.asset \in {"token", "native"}
    BY RequestFields DEF Payment
  <2>2. rail = p.rail => asked = p
    BY <2>1 DEF Payment
  <2>3. CASE p.asset = "native"
    BY <2>3, OthersAgree
  <2>4. CASE p.asset = "token" /\ target \in {"solana", "mpp"}
    <3>1. ~NoWayToSign(p)
      BY <2>4 DEF NoWayToSign
    <3>2. CASE p.rail \in RailsOf(target)
      BY <2>4, <3>1, <3>2, SimpleAgrees DEF AuthInv
    <3>3. CASE p.rail \notin RailsOf(target)
      BY <2>4, <3>1, <3>3, OthersAgree
    <3> QED
      BY <3>2, <3>3
  <2>5. CASE p.asset = "token" /\ target = "eip7702"
    <3>1. ~NoWayToSign(p) /\ rail = p.rail
      BY <2>5 DEF NoWayToSign
    <3>2. CASE p.rail = "transfer"
      BY <2>2, <2>5, <3>1, <3>2, ChainAgrees
    <3>3. CASE p.rail # "transfer"
      BY <2>5, <3>1, <3>3, OthersAgree
    <3> QED
      BY <3>2, <3>3
  <2>6. CASE p.asset = "token" /\ target = "offchain"
    <3>1. rail = p.rail
      BY <2>6
    <3>2. CASE p.rail = "x402-exact"
      <4>1. ~NoWayToSign(p)
        BY <2>6, <3>2 DEF NoWayToSign
      <4> QED
        BY <2>2, <2>6, <3>1, <3>2, <4>1, DeviceAgrees
    <3>3. CASE p.rail # "x402-exact"
      BY <2>6, <3>1, <3>3, OthersAgree
    <3> QED
      BY <3>2, <3>3
  <2> QED
    BY <2>1, <2>3, <2>4, <2>5, <2>6 DEF AuthInv, EnforcerTargets
<1> QED
  BY <1>1, <1>2 DEF VerdictsAgree

--------------------------------------------------------------------------------
(* User operations. *)

LimitsOf == [call : Gas, account : Gas, pre : Gas]
Steps1 == {"nonce", "fees", "stub", "estimate"}
Steps2 == {"paymaster", "policy", "signing", "sending"}
TaskEnded == [pc : {"new", "failed", "timed out", "executed"}]
TaskPolls == [pc : {"polling"}, left : Int]
TaskBuilds(c) ==
  [pc : Steps1 \cup Steps2, op : {c}, sponsored : BOOLEAN, init : BOOLEAN,
   nonce : Nat \cup {None}, gas : LimitsOf \cup {None}, stub : StubData \cup {None}]

\* What an operation is made of at each step: a v0.7 stub names the gas of postOp,
\* a final answer has a stub before it, and only what the policy allows is signed.
Built(c, t) ==
  /\ t \in TaskBuilds(c)
  /\ t.pc = "nonce" => t.stub = None
  /\ t.pc # "nonce" => t.nonce \in Nat
  /\ t.pc \in Steps2 => t.gas \in LimitsOf
  /\ t.pc = "paymaster" => t.stub # None
  /\ t.stub # None => Packs(t.stub)
  /\ t.pc \in {"signing", "sending"} /\ t.sponsored /\ PolicyGas # None => TotalGas(t) <= PolicyGas
Fits(c, t) ==
  \/ t \in TaskEnded /\ (t.pc = "executed" => \E o \in included : o.op = c)
  \/ t \in TaskPolls
  \/ Built(c, t)

OpInv ==
  /\ DOMAIN opTasks = Ops /\ \A c \in Ops : Fits(c, opTasks[c])
  /\ OpTypeOK /\ WithinGasPolicy

LEMMA OpStarts ==
  ASSUME OpInit
  PROVE  OpInv
<1>1. \A c \in Ops : Fits(c, opTasks[c])
  <2> SUFFICES ASSUME NEW c \in Ops PROVE Fits(c, opTasks[c])
    OBVIOUS
  <2>1. opTasks[c] = [pc |-> "new"]
    BY DEF OpInit
  <2> QED
    BY <2>1 DEF Fits, TaskEnded
<1> QED
  BY <1>1 DEF OpInit, OpInv, OpTypeOK, WithinGasPolicy

\* A call goes on with u: the others, and what was sent, are left as they are.
LEMMA TaskMoves ==
  ASSUME OpInv, NEW c \in Ops, NEW u, opTasks' = [opTasks EXCEPT ![c] = u], Fits(c, u),
         UNCHANGED <<aaVersion, account, mempool, included>>
  PROVE  OpInv'
<1>1. \A d \in Ops : \A t : Fits(d, t)' <=> Fits(d, t)
  BY DEF Fits, Built, TotalGas, PaymasterGas, Packs
<1>2. DOMAIN opTasks' = Ops /\ opTasks'[c] = u /\ \A d \in Ops : d # c => opTasks'[d] = opTasks[d]
  BY DEF OpInv
<1>3. \A d \in Ops : Fits(d, opTasks'[d])
  BY <1>2 DEF OpInv
<1>4. (OpTypeOK /\ WithinGasPolicy)'
  BY DEF OpInv, OpTypeOK, WithinGasPolicy
<1> QED
  BY <1>1, <1>2, <1>3, <1>4 DEF OpInv

\* Where a task is says what it is.
LEMMA TaskBeing ==
  ASSUME OpInv, NEW c \in Ops, opTasks[c].pc \in Steps1 \cup Steps2
  PROVE  Built(c, opTasks[c])
BY DEF OpInv, Fits, TaskEnded, TaskPolls, Steps1, Steps2

LEMMA TaskFails ==
  ASSUME OpInv, NEW c \in Ops, NEW step \in {"failed", "timed out"},
         opTasks' = [opTasks EXCEPT ![c] = [pc |-> step]],
         UNCHANGED <<aaVersion, account, mempool, included>>
  PROVE  OpInv'
<1> DEFINE u == [pc |-> step]
<1>1. Fits(c, u)
  BY DEF Fits, TaskEnded
<1> HIDE DEF u
<1> QED
  BY <1>1, TaskMoves DEF u

LEMMA OpCodeRead ==
  ASSUME OpInv, NEW c \in Ops, NEW sponsored \in BOOLEAN, NEW skip \in BOOLEAN, ReadsCode(c, sponsored, skip)
  PROVE  OpInv'
<1> DEFINE u == [pc |-> "nonce", op |-> c, sponsored |-> sponsored, init |-> InitCode(skip),
                 nonce |-> None, gas |-> None, stub |-> None]
<1>1. u \in TaskBuilds(c)
  BY DEF OpInv, OpTypeOK, TaskBuilds, InitCode, Steps1
<1>2. Fits(c, u)
  BY <1>1 DEF Fits, Built, Steps2
<1>3. opTasks' = [opTasks EXCEPT ![c] = u] /\ UNCHANGED <<aaVersion, account, mempool, included>>
  BY DEF ReadsCode, AtBundler
<1> HIDE DEF u
<1> QED
  BY <1>2, <1>3, TaskMoves

LEMMA OpNonceRead ==
  ASSUME OpInv, NEW c \in Ops, ReadsNonce(c)
  PROVE  OpInv'
<1> DEFINE t == opTasks[c]
           u == [[t EXCEPT !.nonce = account.nonce] EXCEPT !.pc = "fees"]
<1>1. Built(c, t) /\ t.pc = "nonce"
  BY TaskBeing DEF ReadsNonce, OpAt, Steps1
<1>2. account.nonce \in Nat
  BY DEF OpInv, OpTypeOK
<1>3. u \in TaskBuilds(c) /\ u.pc = "fees" /\ u.nonce \in Nat /\ u.stub = t.stub
  BY <1>1, <1>2 DEF Built, TaskBuilds, Steps1, Steps2
<1>4. opTasks' = [opTasks EXCEPT ![c] = u] /\ UNCHANGED <<aaVersion, account, mempool, included>>
  BY DEF ReadsNonce, AtBundler, Awaits
<1> HIDE DEF u, t
<1>5. Fits(c, u)
  BY <1>1, <1>3 DEF Fits, Built, Steps2
<1> QED
  BY <1>4, <1>5, TaskMoves

\* The gas of an operation that is ready for the policy is a number.
LEMMA TotalGasNat ==
  ASSUME NEW c, NEW t, Built(c, t), t.pc \in Steps2
  PROVE  TotalGas(t) \in Nat
<1>1. t.gas.call \in Nat /\ t.gas.account \in Nat /\ t.gas.pre \in Nat
  BY OpsAssumption DEF Built, LimitsOf, Gas
<1>2. CASE t.stub = None \/ aaVersion = "0.6"
  BY <1>1, <1>2 DEF TotalGas, PaymasterGas
<1>3. CASE ~(t.stub = None \/ aaVersion = "0.6")
  <2>1. t.stub.verification \in Nat /\ t.stub.postOp \in Nat
    BY <1>3, OpsAssumption DEF Built, TaskBuilds, StubData, Packs, MaybeGas, Gas
  <2> QED
    BY <1>1, <1>3, <2>1 DEF TotalGas, PaymasterGas
<1> QED
  BY <1>2, <1>3

\* A step that names the next await and at most another stub.
LEMMA TaskAwaits ==
  ASSUME OpInv, NEW c \in Ops, NEW t, Built(c, t), NEW step \in Steps1 \cup Steps2,
         step # "nonce", t.pc = "nonce" => t.nonce \in Nat,
         step \in Steps2 => t.gas \in LimitsOf,
         step = "paymaster" => t.stub # None,
         step \in {"signing", "sending"} /\ t.sponsored /\ PolicyGas # None => TotalGas(t) <= PolicyGas,
         Awaits(c, step, t), UNCHANGED <<aaVersion, account, mempool, included>>
  PROVE  OpInv'
<1> DEFINE u == [t EXCEPT !.pc = step]
<1>1. /\ u \in TaskBuilds(c) /\ u.pc = step /\ u.stub = t.stub /\ u.gas = t.gas /\ u.nonce = t.nonce
      /\ u.sponsored = t.sponsored /\ t.nonce \in Nat
  BY DEF Built, TaskBuilds
<1>2. opTasks' = [opTasks EXCEPT ![c] = u]
  BY DEF Awaits
<1> HIDE DEF u
<1>3. TotalGas(u) = TotalGas(t)
  BY <1>1 DEF TotalGas, PaymasterGas
<1>4. Fits(c, u)
  BY <1>1, <1>3 DEF Fits, Built
<1> QED
  BY <1>2, <1>4, TaskMoves

LEMMA OpFeesRead ==
  ASSUME OpInv, NEW c \in Ops, NEW override, NEW base, NEW tip, ReadsFees(c, override, base, tip)
  PROVE  OpInv'
<1> DEFINE t == opTasks[c]
<1>1. Built(c, t) /\ t.pc = "fees" /\ UNCHANGED <<aaVersion, account, mempool, included>>
  BY TaskBeing DEF ReadsFees, OpAt, AtBundler, Steps1
<1>2. CASE OpFails(c)
  BY <1>1, <1>2, TaskFails DEF OpFails
<1>3. ASSUME NEW step \in {"stub", "estimate"}, Awaits(c, step, t)
      PROVE  OpInv'
  <2>1. step \in Steps1 \cup Steps2 /\ step # "nonce" /\ step \notin Steps2
    BY DEF Steps1, Steps2
  <2> QED
    BY <1>1, <1>3, <2>1, TaskAwaits DEF Steps2
<1> QED
  BY <1>2, <1>3 DEF ReadsFees

\* packStandardPaymasterResult() fills in what an answer leaves out.
LEMMA PackedData ==
  ASSUME NEW verification \in MaybeGas, NEW postOp \in MaybeGas, NEW final \in BOOLEAN,
         NEW prior \in StubData \cup {None}
  PROVE  LET answer == [verification |-> verification, postOp |-> postOp, final |-> final]
         IN /\ Packed(answer, prior) \in StubData
            /\ prior # None /\ Packs(prior) => Packs(Packed(answer, prior))
BY OpsAssumption DEF Packed, StubData, MaybeGas, Gas, Given, Packs

LEMMA OpStubAnswered ==
  ASSUME OpInv, NEW c \in Ops, NEW verification \in MaybeGas, NEW postOp \in MaybeGas, NEW final \in BOOLEAN,
         PaymasterStub(c, [verification |-> verification, postOp |-> postOp, final |-> final])
  PROVE  OpInv'
<1> DEFINE t == opTasks[c]
           answer == [verification |-> verification, postOp |-> postOp, final |-> final]
           data == Packed(answer, None)
<1>1. Built(c, t) /\ t.pc = "stub" /\ UNCHANGED <<aaVersion, account, mempool, included>>
  BY TaskBeing DEF PaymasterStub, OpAt, AtBundler, Steps1
<1>2. CASE OpFails(c)
  BY <1>1, <1>2, TaskFails DEF OpFails
<1>3. CASE Packs(data) /\ Awaits(c, "estimate", [t EXCEPT !.stub = data])
  <2> DEFINE u == [t EXCEPT !.stub = data]
  <2>1. data \in StubData
    BY PackedData
  <2> HIDE DEF data
  <2>2. u \in TaskBuilds(c) /\ u.stub = data /\ u.nonce \in Nat /\ u.pc = "stub"
    BY <1>1, <2>1 DEF Built, TaskBuilds
  <2>3. Built(c, u)
    BY <1>3, <2>2 DEF Built, Steps2
  <2>4. Awaits(c, "estimate", u)
    BY <1>3
  <2> HIDE DEF u
  <2> QED
    BY <1>1, <2>2, <2>3, <2>4, TaskAwaits DEF Steps1, Steps2
<1> QED
  BY <1>2, <1>3 DEF PaymasterStub

LEMMA OpEstimated ==
  ASSUME OpInv, NEW c \in Ops, NEW override \in MaybeGas, NEW paymaster \in MaybeGas, NEW limit \in Gas,
         Estimated(c, override, [call |-> limit, account |-> limit, pre |-> limit, paymaster |-> paymaster])
  PROVE  OpInv'
<1> DEFINE t == opTasks[c]
           est == [call |-> limit, account |-> limit, pre |-> limit, paymaster |-> paymaster]
           stub == IF t.stub = None \/ aaVersion = "0.6" \/ est.paymaster = None THEN t.stub
                   ELSE [t.stub EXCEPT !.verification = est.paymaster]
           gas == GasLimits(override, est)
           u == [t EXCEPT !.gas = gas, !.stub = stub]
           step == IF stub = None \/ stub.final THEN "policy" ELSE "paymaster"
<1>1. Built(c, t) /\ t.pc = "estimate" /\ UNCHANGED <<aaVersion, account, mempool, included>>
  BY TaskBeing DEF Estimated, OpAt, AtBundler, Steps1
<1>2. gas \in LimitsOf
  BY DEF GasLimits, LimitsOf, Given, MaybeGas
<1>3. t \in TaskBuilds(c) /\ t.stub \in StubData \cup {None} /\ (t.stub # None => Packs(t.stub)) /\ t.nonce \in Nat
  BY <1>1 DEF Built, TaskBuilds
<1>4. stub \in StubData \cup {None} /\ (stub # None => Packs(stub))
  <2>1. CASE t.stub = None \/ aaVersion = "0.6" \/ paymaster = None
    BY <1>3, <2>1
  <2>2. CASE ~(t.stub = None \/ aaVersion = "0.6" \/ paymaster = None)
    <3>1. t.stub \in StubData /\ paymaster \in Gas /\ stub = [t.stub EXCEPT !.verification = paymaster]
      BY <1>3, <2>2 DEF MaybeGas
    <3>2. stub \in StubData /\ stub.postOp = t.stub.postOp
      BY <3>1 DEF StubData
    <3> QED
      BY <1>3, <2>2, <3>2 DEF Packs
  <2> QED
    BY <2>1, <2>2
<1>5. Awaits(c, step, u)
  BY DEF Estimated
<1> HIDE DEF stub, gas
<1>6. u \in TaskBuilds(c) /\ u.stub = stub /\ u.gas = gas /\ u.nonce \in Nat /\ u.pc = "estimate"
  BY <1>1, <1>2, <1>3, <1>4 DEF TaskBuilds
<1> HIDE DEF u
<1>7. Built(c, u)
  BY <1>2, <1>4, <1>6 DEF Built, Steps2
<1> QED
  BY <1>1, <1>2, <1>5, <1>6, <1>7, TaskAwaits DEF Steps1, Steps2

LEMMA OpFinalAnswered ==
  ASSUME OpInv, NEW c \in Ops, NEW verification \in MaybeGas, NEW postOp \in MaybeGas, NEW final \in BOOLEAN,
         PaymasterFinal(c, [verification |-> verification, postOp |-> postOp, final |-> final])
  PROVE  OpInv'
<1> DEFINE t == opTasks[c]
           answer == [verification |-> verification, postOp |-> postOp, final |-> final]
           data == Packed(answer, t.stub)
           u == [t EXCEPT !.stub = data]
<1>1. Built(c, t) /\ t.pc = "paymaster" /\ UNCHANGED <<aaVersion, account, mempool, included>>
  BY TaskBeing DEF PaymasterFinal, OpAt, AtBundler, Steps2
<1>2. t \in TaskBuilds(c) /\ t.stub \in StubData /\ Packs(t.stub) /\ t.stub # None /\ t.nonce \in Nat /\ t.gas \in LimitsOf
  BY <1>1 DEF Built, TaskBuilds, Steps2
<1>3. data \in StubData /\ Packs(data)
  BY <1>2, PackedData
<1>4. Awaits(c, "policy", u)
  BY DEF PaymasterFinal
<1> HIDE DEF data
<1>5. u \in TaskBuilds(c) /\ u.stub = data /\ u.gas \in LimitsOf /\ u.nonce \in Nat /\ u.pc = "paymaster" /\ u.stub # None
  <2>1. u \in TaskBuilds(c) /\ u.stub = data /\ u.gas = t.gas /\ u.nonce = t.nonce /\ u.pc = t.pc
    BY <1>2, <1>3 DEF TaskBuilds
  <2>2. data # None
    BY <1>3, OpsAssumption DEF StubData
  <2> HIDE DEF u
  <2> QED
    BY <1>1, <1>2, <2>1, <2>2
<1> HIDE DEF u
<1>6. Built(c, u)
  BY <1>3, <1>5 DEF Built, Steps2
<1> QED
  BY <1>1, <1>4, <1>5, <1>6, TaskAwaits DEF Steps1, Steps2

LEMMA OpGasChecked ==
  ASSUME OpInv, NEW c \in Ops, GasChecked(c)
  PROVE  OpInv'
<1> DEFINE t == opTasks[c]
<1>1. Built(c, t) /\ t.pc = "policy" /\ UNCHANGED <<aaVersion, account, mempool, included>>
  BY TaskBeing DEF GasChecked, OpAt, AtBundler, Steps2
<1>2. t.gas \in LimitsOf
  BY <1>1 DEF Built, Steps2
<1>3. CASE t.sponsored /\ PolicyGas # None /\ TotalGas(t) > PolicyGas
  <2>1. OpFails(c)
    BY <1>3 DEF GasChecked
  <2> QED
    BY <1>1, <2>1, TaskFails DEF OpFails
<1>4. CASE ~(t.sponsored /\ PolicyGas # None /\ TotalGas(t) > PolicyGas)
  <2>1. Awaits(c, "signing", t)
    BY <1>4 DEF GasChecked
  <2>2. t.sponsored /\ PolicyGas # None => TotalGas(t) <= PolicyGas
    <3>1. PolicyGas # None => PolicyGas \in Nat
      BY OpsAssumption
    <3>2. TotalGas(t) \in Nat
      BY <1>1, TotalGasNat DEF Steps2
    <3> QED
      BY <1>4, <3>1, <3>2
  <2> QED
    BY <1>1, <1>2, <2>1, <2>2, TaskAwaits DEF Steps1, Steps2
<1> QED
  BY <1>3, <1>4

LEMMA OpIsSigned ==
  ASSUME OpInv, NEW c \in Ops, OpSigned(c)
  PROVE  OpInv'
<1>1. Built(c, opTasks[c]) /\ opTasks[c].pc = "signing" /\ UNCHANGED <<aaVersion, account, mempool, included>>
  BY TaskBeing DEF OpSigned, OpAt, AtBundler, Steps2
<1>2. Awaits(c, "sending", opTasks[c])
  BY DEF OpSigned
<1> QED
  BY <1>1, <1>2, TaskAwaits DEF Built, Steps1, Steps2

LEMMA OpIsPolled ==
  ASSUME OpInv, NEW c \in Ops, NEW answer \in Ops \cup {None}, Polled(c, answer)
  PROVE  OpInv'
<1>1. opTasks[c] \in TaskPolls /\ UNCHANGED <<aaVersion, account, mempool, included>>
  BY DEF Polled, OpAt, AtBundler, OpInv, Fits, Built, TaskEnded, TaskBuilds, Steps1, Steps2
<1>2. CASE answer = None /\ opTasks[c].left > 1
  <2> DEFINE u == [pc |-> "polling", left |-> opTasks[c].left - 1]
  <2>1. u \in TaskPolls
    BY <1>1 DEF TaskPolls
  <2>2. opTasks' = [opTasks EXCEPT ![c] = u]
    BY <1>2 DEF Polled
  <2> HIDE DEF u
  <2> QED
    BY <1>1, <2>1, <2>2, TaskMoves DEF Fits
<1>3. CASE answer = None /\ ~(opTasks[c].left > 1)
  BY <1>1, <1>3, TaskFails DEF Polled
<1>4. CASE answer # None
  <2> DEFINE u == [pc |-> IF IsReceiptOf(c, answer) THEN "executed" ELSE "failed"]
  <2>1. answer \in {o.op : o \in included}
    BY <1>4 DEF Polled
  <2>2. Fits(c, u)
    BY <2>1 DEF Fits, TaskEnded, IsReceiptOf
  <2>3. opTasks' = [opTasks EXCEPT ![c] = u]
    BY <1>4 DEF Polled
  <2> HIDE DEF u
  <2> QED
    BY <1>1, <2>2, <2>3, TaskMoves
<1> QED
  BY <1>2, <1>3, <1>4

LEMMA OpIsSent ==
  ASSUME OpInv, NEW c \in Ops, NEW received \in BOOLEAN, NEW answered \in BOOLEAN, OpSent(c, received, answered)
  PROVE  OpInv'
<1> DEFINE t == opTasks[c]
           s == Serialized(t)
           m == IF received THEN mempool \cup {s} ELSE mempool
           u == IF received /\ answered THEN [pc |-> "polling", left |-> MaxPolls] ELSE [pc |-> "failed"]
<1>1. Built(c, t) /\ t.pc = "sending" /\ UNCHANGED <<aaVersion, account, included>>
  BY TaskBeing DEF OpSent, OpAt, Steps2
<1>2. opTasks' = [opTasks EXCEPT ![c] = u] /\ mempool' = m
  BY DEF OpSent, OpFails
<1>3. Fits(c, u)
  BY OpsAssumption DEF Fits, TaskEnded, TaskPolls
<1>4. s.op \in Ops /\ s.nonce \in Nat /\ s.gas \in Nat /\ (PolicyGas # None /\ s.sponsored => s.gas <= PolicyGas)
  <2>1. s.op = t.op /\ s.nonce = t.nonce /\ s.sponsored = t.sponsored /\ s.gas = TotalGas(t)
    BY DEF Serialized, TotalGas, PaymasterGas
  <2>2. TotalGas(t) \in Nat
    BY <1>1, TotalGasNat DEF Steps2
  <2>3. t.op = c /\ t.nonce \in Nat /\ (PolicyGas # None /\ t.sponsored => TotalGas(t) <= PolicyGas)
    BY <1>1 DEF Built, TaskBuilds
  <2> HIDE DEF s
  <2> QED
    BY <2>1, <2>2, <2>3
<1> HIDE DEF u, s
<1>5. (OpTypeOK /\ WithinGasPolicy)'
  BY <1>1, <1>2, <1>4 DEF OpInv, OpTypeOK, WithinGasPolicy
<1>6. \A d \in Ops : \A x : Fits(d, x)' <=> Fits(d, x)
  BY <1>1 DEF Fits, Built, TotalGas, PaymasterGas, Packs
<1>7. DOMAIN opTasks' = Ops /\ opTasks'[c] = u /\ \A d \in Ops : d # c => opTasks'[d] = opTasks[d]
  BY <1>2 DEF OpInv
<1>8. \A d \in Ops : Fits(d, opTasks'[d])
  BY <1>3, <1>7 DEF OpInv
<1> QED
  BY <1>5, <1>6, <1>7, <1>8 DEF OpInv

LEMMA OpIsIncluded ==
  ASSUME OpInv, NEW o \in mempool, Included(o)
  PROVE  OpInv'
<1>1. /\ opTasks' = opTasks /\ aaVersion' = aaVersion /\ mempool' \subseteq mempool
      /\ included' = included \cup {o}
  BY DEF Included
<1>2. \A d \in Ops : \A x : Fits(d, x) => Fits(d, x)'
  BY <1>1 DEF Fits, Built, TotalGas, PaymasterGas, Packs
<1>3. (OpTypeOK /\ WithinGasPolicy)'
  BY <1>1 DEF OpInv, OpTypeOK, WithinGasPolicy, Included
<1> QED
  BY <1>1, <1>2, <1>3 DEF OpInv

LEMMA OpStep ==
  ASSUME OpInv, OpNext
  PROVE  OpInv'
<1>1. CASE \E o \in mempool : Included(o)
  BY <1>1, OpIsIncluded
<1>2. ASSUME NEW c \in Ops, ReadsNonce(c) \/ OpRejected(c) \/ GasChecked(c) \/ OpSigned(c)
      PROVE  OpInv'
  <2>1. CASE OpRejected(c)
    BY <2>1, TaskFails DEF OpRejected, OpFails, AtBundler
  <2> QED
    BY <1>2, <2>1, OpNonceRead, OpGasChecked, OpIsSigned
<1>3. ASSUME NEW c \in Ops, NEW sponsored \in BOOLEAN, NEW skip \in BOOLEAN, ReadsCode(c, sponsored, skip)
      PROVE  OpInv'
  BY <1>3, OpCodeRead
<1>4. ASSUME NEW c \in Ops, NEW override \in MaybeGas, NEW base \in Gas, NEW tip \in Gas, ReadsFees(c, override, base, tip)
      PROVE  OpInv'
  BY <1>4, OpFeesRead
<1>5. ASSUME NEW c \in Ops, NEW verification \in MaybeGas, NEW postOp \in MaybeGas, NEW final \in BOOLEAN,
             LET answer == [verification |-> verification, postOp |-> postOp, final |-> final]
             IN PaymasterStub(c, answer) \/ (final /\ PaymasterFinal(c, answer))
      PROVE  OpInv'
  BY <1>5, OpStubAnswered, OpFinalAnswered
<1>6. ASSUME NEW c \in Ops, NEW override \in MaybeGas, NEW paymaster \in MaybeGas, NEW limit \in Gas,
             Estimated(c, override, [call |-> limit, account |-> limit, pre |-> limit, paymaster |-> paymaster])
      PROVE  OpInv'
  BY <1>6, OpEstimated
<1>7. ASSUME NEW c \in Ops, NEW received \in BOOLEAN, NEW answered \in BOOLEAN, OpSent(c, received, answered)
      PROVE  OpInv'
  BY <1>7, OpIsSent
<1>8. ASSUME NEW c \in Ops, NEW answer \in Ops \cup {None}, Polled(c, answer)
      PROVE  OpInv'
  BY <1>8, OpIsPolled
<1> QED
  BY <1>1, <1>2, <1>3, <1>4, <1>5, <1>6, <1>7, <1>8 DEF OpNext

LEMMA OpHolds ==
  ASSUME OpInv
  PROVE  OpTypeOK /\ OperationsKept
<1>1. ReportedWasExecuted
  BY DEF OpInv, Fits, Built, TaskBuilds, TaskPolls, ReportedWasExecuted, OpAt, Steps1, Steps2
<1> QED
  BY <1>1 DEF OpInv, OperationsKept

--------------------------------------------------------------------------------
(* The calldata of a batch: what the contract of the account decodes.             *)

FlatStep(ss, f, i) == IF i = 1 THEN ss[i] ELSE f[i - 1] \o ss[i]
FlatUpTo(ss, n, f) == f = [i \in 1..n |-> FlatStep(ss, f, i)]
Flat(ss) == CHOOSE f : f = [i \in 1..Len(ss) |-> FlatStep(ss, f, i)]

LEMMA FlattenIsFlat ==
  ASSUME NEW ss, Len(ss) # 0
  PROVE  FlattenSeq(ss) = Flat(ss)[Len(ss)]
BY DEF FlattenSeq, Flat, FlatStep

LEMMA FlatExists ==
  ASSUME NEW ss, Len(ss) \in Nat
  PROVE  FlatUpTo(ss, Len(ss), Flat(ss))
<1> DEFINE P == {n \in Nat : \E f : FlatUpTo(ss, n, f)}
<1>1. 0 \in P
  <2> DEFINE f == [i \in 1..0 |-> 0]
  <2>1. FlatUpTo(ss, 0, f)
    BY DEF FlatUpTo
  <2> QED
    BY <2>1
<1>2. ASSUME NEW n \in Nat, n \in P
      PROVE  n + 1 \in P
  <2>1. PICK f : FlatUpTo(ss, n, f)
    BY <1>2
  <2> DEFINE x == FlatStep(ss, f, n + 1)
             g == [i \in 1..(n + 1) |-> IF i = n + 1 THEN x ELSE f[i]]
  <2>2. \A i \in 1..(n + 1) : g[i] = FlatStep(ss, g, i)
    <3>1. ASSUME NEW i \in 1..n
          PROVE  g[i] = FlatStep(ss, g, i)
      <4>1. g[i] = FlatStep(ss, f, i)
        BY <2>1 DEF FlatUpTo
      <4>2. i # 1 => g[i - 1] = f[i - 1]
        OBVIOUS
      <4> QED
        BY <4>1, <4>2 DEF FlatStep
    <3>2. g[n + 1] = FlatStep(ss, g, n + 1)
      <4>1. n + 1 # 1 => g[n] = f[n]
        OBVIOUS
      <4> QED
        BY <4>1 DEF FlatStep
    <3> QED
      BY <3>1, <3>2
  <2> HIDE DEF x
  <2>3. FlatUpTo(ss, n + 1, g)
    BY <2>2 DEF FlatUpTo
  <2> QED
    BY <2>3
<1>3. Len(ss) \in P
  <2> HIDE DEF P
  <2> QED
    BY <1>1, <1>2, NatSteps
<1> QED
  BY <1>3 DEF FlatUpTo, Flat

Sizes(ss, n) == SumFunction([j \in 1..n |-> Len(ss[j])])

LEMMA SizesGrow ==
  ASSUME NEW ss, NEW n \in Nat, \A j \in 1..(n + 1) : Len(ss[j]) \in Nat
  PROVE  /\ Sizes(ss, n) \in Nat
         /\ Sizes(ss, n + 1) = Sizes(ss, n) + Len(ss[n + 1])
<1> DEFINE g == [j \in 1..n |-> Len(ss[j])]
           h == [j \in 1..(n + 1) |-> Len(ss[j])]
<1>1. /\ (1..n) \cup {n + 1} = 1..(n + 1) /\ n + 1 \notin 1..n
      /\ g \in [1..n -> Nat] /\ h \in [1..(n + 1) -> Nat]
      /\ \A j \in 1..n : h[j] = g[j]
  OBVIOUS
<1>2. IsFiniteSet(1..n)
  BY FS_Interval
<1>3. h[n + 1] = Len(ss[n + 1])
  OBVIOUS
<1> HIDE DEF g, h
<1>4. Grows(g, h, 1..n, n + 1)
  BY <1>1, <1>2 DEF Grows
<1>5. SumFunction(h) = SumFunction(g) + h[n + 1] /\ SumFunction(g) \in Nat
  BY <1>4, SumGrows
<1> QED
  BY <1>3, <1>5 DEF g, h, Sizes

LEMMA NoSizes == ASSUME NEW ss PROVE Sizes(ss, 0) = 0
<1> DEFINE g == [j \in 1..0 |-> Len(ss[j])]
<1>1. DOMAIN g = {}
  OBVIOUS
<1> QED
  BY <1>1, SumEmpty DEF Sizes

\* A flattened sequence has each of its parts after those before it.
Joins(W, ss, f, n) ==
  /\ f \in Seq(W) /\ Len(f) = Sizes(ss, n) /\ Sizes(ss, n) \in Nat
  /\ \A i \in 1..n : /\ Sizes(ss, i - 1) \in Nat /\ Sizes(ss, i - 1) + Len(ss[i]) <= Sizes(ss, n)
                     /\ \A k \in 1..Len(ss[i]) : f[Sizes(ss, i - 1) + k] = ss[i][k]

LEMMA JoinsOne ==
  ASSUME NEW W, NEW ss, NEW n \in Nat, NEW f, Joins(W, ss, f, n),
         \A j \in 1..(n + 1) : ss[j] \in Seq(W)
  PROVE  Joins(W, ss, f \o ss[n + 1], n + 1)
<1> DEFINE g == f \o ss[n + 1]
           s == Sizes(ss, n)
<1>1. \A j \in 1..(n + 1) : Len(ss[j]) \in Nat
  OBVIOUS
<1>2. Sizes(ss, n + 1) = s + Len(ss[n + 1]) /\ s \in Nat
  BY <1>1, SizesGrow
<1>3. f \in Seq(W) /\ Len(f) = s /\ ss[n + 1] \in Seq(W) /\ Len(ss[n + 1]) \in Nat
  BY <1>1 DEF Joins
<1>4. /\ g \in Seq(W) /\ Len(g) = s + Len(ss[n + 1])
      /\ \A i \in 1..(s + Len(ss[n + 1])) : g[i] = IF i <= s THEN f[i] ELSE ss[n + 1][i - s]
  <2> DEFINE x == ss[n + 1]
  <2>1. x \in Seq(W) /\ f \in Seq(W)
    BY <1>3
  <2> HIDE DEF x
  <2>2. /\ f \o x \in Seq(W) /\ Len(f \o x) = Len(f) + Len(x)
        /\ \A i \in 1..(Len(f) + Len(x)) : (f \o x)[i] = IF i <= Len(f) THEN f[i] ELSE x[i - Len(f)]
    BY <2>1, ConcatProperties, Zenon
  <2> QED
    BY <1>3, <2>2, Zenon DEF x
<1> HIDE DEF g, s
<1>5. ASSUME NEW i \in 1..n
      PROVE  /\ Sizes(ss, i - 1) \in Nat /\ Sizes(ss, i - 1) + Len(ss[i]) <= Sizes(ss, n + 1)
             /\ \A k \in 1..Len(ss[i]) : g[Sizes(ss, i - 1) + k] = ss[i][k]
  <2>1. /\ Sizes(ss, i - 1) \in Nat /\ Sizes(ss, i - 1) + Len(ss[i]) <= s
        /\ \A k \in 1..Len(ss[i]) : f[Sizes(ss, i - 1) + k] = ss[i][k]
    BY DEF Joins, s
  <2>2. Len(ss[i]) \in Nat
    BY <1>1
  <2>3. ASSUME NEW k \in 1..Len(ss[i])
        PROVE  g[Sizes(ss, i - 1) + k] = ss[i][k]
    <3> DEFINE p == Sizes(ss, i - 1) + k
    <3>1. p \in 1..s
      BY <1>2, <2>1, <2>2
    <3>2. p \in 1..(s + Len(ss[n + 1])) /\ p <= s
      BY <1>2, <1>3, <3>1
    <3>3. f[p] = ss[i][k]
      BY <2>1
    <3> HIDE DEF p
    <3>4. g[p] = ss[i][k]
      BY <1>4, <3>2, <3>3
    <3> QED
      BY <3>4 DEF p
  <2> QED
    BY <1>2, <1>3, <2>1, <2>2, <2>3
<1>6. \A k \in 1..Len(ss[n + 1]) : g[s + k] = ss[n + 1][k]
  <2>1. ASSUME NEW k \in 1..Len(ss[n + 1])
        PROVE  g[s + k] = ss[n + 1][k]
    <3>1. s + k \in 1..(s + Len(ss[n + 1])) /\ ~(s + k <= s) /\ (s + k) - s = k
      BY <1>2, <1>3
    <3> QED
      BY <1>4, <3>1
  <2> QED
    BY <2>1
<1>7. ASSUME NEW i \in 1..(n + 1)
      PROVE  /\ Sizes(ss, i - 1) \in Nat /\ Sizes(ss, i - 1) + Len(ss[i]) <= Sizes(ss, n + 1)
             /\ \A k \in 1..Len(ss[i]) : g[Sizes(ss, i - 1) + k] = ss[i][k]
  <2>1. CASE i \in 1..n
    BY <1>5, <2>1
  <2>2. CASE i = n + 1
    <3>1. i - 1 = n
      BY <2>2
    <3> QED
      BY <1>2, <1>3, <1>6, <2>2, <3>1 DEF s
  <2> QED
    BY <2>1, <2>2
<1>8. g \in Seq(W) /\ Len(g) = Sizes(ss, n + 1) /\ Sizes(ss, n + 1) \in Nat
  BY <1>2, <1>3, <1>4
<1>9. Joins(W, ss, g, n + 1)
  BY <1>7, <1>8, Zenon DEF Joins
<1> QED
  BY <1>9 DEF g

LEMMA FlattenJoins ==
  ASSUME NEW W, NEW ss, Len(ss) \in Nat, Len(ss) # 0, \A j \in 1..Len(ss) : ss[j] \in Seq(W)
  PROVE  Joins(W, ss, FlattenSeq(ss), Len(ss))
<1> DEFINE N == Len(ss)
           f == Flat(ss)
           P == {n \in Nat : n + 1 <= N => Joins(W, ss, f[n + 1], n + 1)}
<1>1. \A i \in 1..N : f[i] = FlatStep(ss, f, i)
  BY FlatExists DEF FlatUpTo
<1> HIDE DEF f
<1>2. Joins(W, ss, <<>>, 0)
  BY NoSizes DEF Joins
<1>3. 0 \in P
  <2> SUFFICES ASSUME 1 <= N PROVE Joins(W, ss, f[1], 1)
    OBVIOUS
  <2>1. f[1] = ss[1] /\ ss[1] \in Seq(W)
    BY <1>1 DEF FlatStep
  <2>2. <<>> \o ss[1] = ss[1]
    BY <2>1, ConcatEmptySeq
  <2>3. Joins(W, ss, <<>> \o ss[0 + 1], 0 + 1)
    <3>1. 0 \in Nat /\ \A j \in 1..(0 + 1) : ss[j] \in Seq(W)
      BY <2>1
    <3> QED
      BY <1>2, <3>1, JoinsOne
  <2> QED
    BY <2>1, <2>2, <2>3
<1>4. ASSUME NEW n \in Nat, n \in P
      PROVE  n + 1 \in P
  <2> SUFFICES ASSUME (n + 1) + 1 <= N PROVE Joins(W, ss, f[(n + 1) + 1], (n + 1) + 1)
    OBVIOUS
  <2>1. Joins(W, ss, f[n + 1], n + 1)
    BY <1>4
  <2>2. f[(n + 1) + 1] = f[n + 1] \o ss[(n + 1) + 1]
    <3>1. (n + 1) + 1 \in 1..N /\ (n + 1) + 1 # 1 /\ ((n + 1) + 1) - 1 = n + 1
      OBVIOUS
    <3> QED
      BY <1>1, <3>1 DEF FlatStep
  <2>3. n + 1 \in Nat /\ \A j \in 1..((n + 1) + 1) : ss[j] \in Seq(W)
    OBVIOUS
  <2>4. Joins(W, ss, f[n + 1] \o ss[(n + 1) + 1], (n + 1) + 1)
    BY <2>1, <2>3, JoinsOne
  <2> QED
    BY <2>2, <2>4
<1>5. N - 1 \in P
  <2>1. N - 1 \in Nat
    OBVIOUS
  <2> HIDE DEF P
  <2> QED
    BY <1>3, <1>4, <2>1, NatSteps
<1>6. Joins(W, ss, f[N], N)
  BY <1>5
<1> QED
  BY <1>6, FlattenIsFlat DEF f

(* The words of calldata.                                                       *)
Words == Nat \cup Targets \cup {"data"} \X Nat \X Nat
DataWords(bytes) == (bytes + 31) \div 32
\* What words hold after the first p.
Holds(words, p, s) ==
  /\ words \in Seq(Words) /\ p \in Nat /\ s \in Seq(Words)
  /\ p + Len(s) <= Len(words) /\ \A j \in 1..Len(s) : words[p + j] = s[j]

LEMMA Reads ==
  ASSUME NEW words, NEW p, NEW s, Holds(words, p, s), NEW j \in 1..Len(s)
  PROVE  WordAt(words, 32 * (p + j - 1)) = s[j]
<1>1. Len(words) \in Nat /\ Len(s) \in Nat /\ p \in Nat /\ p + Len(s) <= Len(words) /\ words[p + j] = s[j]
  BY LenProperties DEF Holds
<1>2. (32 * (p + j - 1)) \div 32 = p + j - 1
  BY <1>1
<1>3. p + j - 1 < Len(words) /\ (p + j - 1) + 1 = p + j
  BY <1>1
<1> QED
  BY <1>1, <1>2, <1>3, Zenon DEF WordAt

LEMMA Beside ==
  ASSUME NEW a \in Seq(Words), NEW b \in Seq(Words)
  PROVE  a \o b \in Seq(Words) /\ Len(a \o b) = Len(a) + Len(b) /\ Holds(a \o b, 0, a) /\ Holds(a \o b, Len(a), b)
<1>1. /\ a \o b \in Seq(Words) /\ Len(a \o b) = Len(a) + Len(b)
      /\ \A i \in 1..(Len(a) + Len(b)) : (a \o b)[i] = IF i <= Len(a) THEN a[i] ELSE b[i - Len(a)]
  BY ConcatProperties
<1>2. Len(a) \in Nat /\ Len(b) \in Nat
  OBVIOUS
<1> DEFINE c == a \o b
<1> HIDE DEF c
<1>3. \A j \in 1..Len(a) : c[0 + j] = a[j]
  BY <1>1, <1>2 DEF c
<1>4. \A j \in 1..Len(b) : c[Len(a) + j] = b[j]
  <2>1. ASSUME NEW j \in 1..Len(b)
        PROVE  c[Len(a) + j] = b[j]
    <3>1. Len(a) + j \in 1..(Len(a) + Len(b)) /\ ~(Len(a) + j <= Len(a)) /\ (Len(a) + j) - Len(a) = j
      BY <1>2
    <3> QED
      BY <1>1, <3>1 DEF c
  <2> QED
    BY <2>1
<1> QED
  BY <1>1, <1>2, <1>3, <1>4 DEF Holds, c

\* What is held in a part is held in the whole.
LEMMA HeldWithin ==
  ASSUME NEW words, NEW p, NEW s, NEW q, NEW r, Holds(words, p, s), Holds(s, q, r)
  PROVE  Holds(words, p + q, r)
<1>1. /\ Len(words) \in Nat /\ Len(s) \in Nat /\ Len(r) \in Nat /\ p \in Nat /\ q \in Nat
      /\ p + Len(s) <= Len(words) /\ q + Len(r) <= Len(s)
  BY LenProperties DEF Holds
<1>2. ASSUME NEW j \in 1..Len(r)
      PROVE  words[(p + q) + j] = r[j]
  <2>1. q + j \in 1..Len(s) /\ p + (q + j) = (p + q) + j
    BY <1>1
  <2>2. words[p + (q + j)] = s[q + j] /\ s[q + j] = r[j]
    BY <2>1 DEF Holds
  <2> QED
    BY <2>1, <2>2
<1> QED
  BY <1>1, <1>2 DEF Holds

LEMMA OneWord ==
  ASSUME NEW x \in Words
  PROVE  <<x>> \in Seq(Words) /\ Len(<<x>>) = 1 /\ <<x>>[1] = x
OBVIOUS

\* An array of the ABI: its length, then its words.
LEMMA ArrayHolds ==
  ASSUME NEW x \in Seq(Words)
  PROVE  /\ ArrayOf(x) \in Seq(Words) /\ Len(ArrayOf(x)) = Len(x) + 1
         /\ ArrayOf(x)[1] = Len(x) /\ Holds(ArrayOf(x), 1, x)
<1>1. Len(x) \in Nat /\ <<Len(x)>> \in Seq(Words) /\ Len(<<Len(x)>>) = 1 /\ <<Len(x)>>[1] = Len(x)
  BY OneWord DEF Words
<1> DEFINE h == <<Len(x)>>
<1>2. h \in Seq(Words) /\ Len(h) = 1 /\ h[1] = Len(x)
  BY <1>1
<1> HIDE DEF h
<1>3. /\ h \o x \in Seq(Words) /\ Len(h \o x) = Len(h) + Len(x)
      /\ Holds(h \o x, 0, h) /\ Holds(h \o x, Len(h), x)
  BY <1>2, Beside
<1>4. (h \o x)[0 + 1] = h[1]
  BY <1>2, <1>3 DEF Holds
<1> QED
  BY <1>1, <1>2, <1>3, <1>4 DEF ArrayOf, h

LEMMA ArrayReads ==
  ASSUME NEW words, NEW p, NEW x \in Seq(Words), Holds(words, p, ArrayOf(x))
  PROVE  ArrayAt(words, 32 * p) = [i \in 1..Len(x) |-> x[i]]
<1> DEFINE a == ArrayOf(x)
<1>1. /\ a \in Seq(Words) /\ Len(a) = Len(x) + 1 /\ a[1] = Len(x) /\ Holds(a, 1, x)
      /\ Len(x) \in Nat /\ p \in Nat
  BY ArrayHolds, LenProperties DEF Holds
<1> HIDE DEF a
<1>2. WordAt(words, 32 * p) = Len(x)
  <2>1. 1 \in 1..Len(a) /\ p + 1 - 1 = p
    BY <1>1
  <2>2. WordAt(words, 32 * (p + 1 - 1)) = a[1]
    BY <2>1, Reads DEF a
  <2> QED
    BY <1>1, <2>1, <2>2
<1>3. ASSUME NEW i \in 1..Len(x)
      PROVE  WordAt(words, 32 * p + 32 * i) = x[i]
  <2>1. Holds(words, p + 1, x)
    BY <1>1, HeldWithin DEF a
  <2>2. WordAt(words, 32 * ((p + 1) + i - 1)) = x[i]
    BY <2>1, Reads
  <2>3. 32 * ((p + 1) + i - 1) = 32 * p + 32 * i
    BY <1>1
  <2> QED
    BY <2>2, <2>3
<1> QED
  BY <1>2, <1>3 DEF ArrayAt

(* The data of the calls. *)
LEMMA DataOfCall ==
  ASSUME NEW batch \in Seq(AbiCall), NEW i \in DOMAIN batch
  PROVE  LET b == Bytes(batch, i)
             m == DataWords(batch[i].bytes)
         IN  /\ m \in Nat /\ batch[i].bytes \in Nat /\ i \in Nat
             /\ b \in Seq(Words) /\ Len(b) = m + 1 /\ b[1] = batch[i].bytes
             /\ \A k \in 1..m : b[k + 1] = <<"data", i, k>>
             /\ Tail(b) = [k \in 1..m |-> <<"data", i, k>>]
<1> DEFINE m == DataWords(batch[i].bytes)
           d == [k \in 1..m |-> <<"data", i, k>>]
           h == <<batch[i].bytes>>
           b == Bytes(batch, i)
<1>1. batch[i].bytes \in Nat /\ i \in Nat /\ m \in Nat
  <2>1. batch[i] \in AbiCall /\ i \in Nat
    BY LenProperties
  <2>2. batch[i].bytes \in Nat
    BY <2>1, BatchAssumption DEF AbiCall
  <2> QED
    BY <2>1, <2>2 DEF DataWords
<1>2. h \in Seq(Words) /\ Len(h) = 1 /\ h[1] = batch[i].bytes
  BY <1>1, OneWord DEF Words
<1>3. d \in [1..m -> Words]
  <2>1. \A k \in 1..m : <<"data", i, k>> \in {"data"} \X Nat \X Nat
    BY <1>1
  <2> QED
    BY <2>1, Zenon DEF Words
<1> HIDE DEF m
<1>4. d \in Seq(Words) /\ Len(d) = m /\ DOMAIN d = 1..m /\ \A k \in 1..m : d[k] = <<"data", i, k>>
  BY <1>1, <1>3
<1>5. b = h \o d
  BY Zenon DEF Bytes, m, DataWords
<1> HIDE DEF d, h, b
<1>6. b \in Seq(Words) /\ Len(b) = 1 + m /\ Holds(b, 0, h) /\ Holds(b, 1, d)
  BY <1>2, <1>4, <1>5, Beside
<1>7. b[1] = batch[i].bytes
  <2>1. b[0 + 1] = h[1]
    BY <1>2, <1>6 DEF Holds
  <2> QED
    BY <1>2, <2>1
<1>8. \A k \in 1..m : b[k + 1] = <<"data", i, k>>
  <2>1. ASSUME NEW k \in 1..m
        PROVE  b[k + 1] = <<"data", i, k>>
    <3>1. b[1 + k] = d[k] /\ 1 + k = k + 1
      BY <1>1, <1>4, <1>6 DEF Holds
    <3> QED
      BY <1>4, <3>1
  <2> QED
    BY <2>1
<1>9. Tail(b) = d
  <2>1. Len(b) # 0 /\ b # <<>>
    BY <1>1, <1>6
  <2>2. /\ Tail(b) \in Seq(Words) /\ Len(Tail(b)) = Len(b) - 1
        /\ \A k \in 1..Len(Tail(b)) : Tail(b)[k] = b[k + 1]
    BY <1>6, <2>1, HeadTailProperties
  <2>3. Len(Tail(b)) = Len(d) /\ \A k \in 1..Len(Tail(b)) : Tail(b)[k] = d[k]
    <3>1. Len(Tail(b)) = m /\ Len(d) = m
      BY <1>1, <1>4, <1>6, <2>2
    <3>2. \A k \in 1..m : Tail(b)[k] = b[k + 1] /\ b[k + 1] = d[k]
      BY <1>4, <1>8, <2>2, <3>1, Zenon
    <3> QED
      BY <3>1, <3>2
  <2> QED
    BY <1>4, <2>2, <2>3, SeqEqual
<1> QED
  BY <1>1, <1>6, <1>7, <1>8, <1>9 DEF b, d, m

Parts(batch) == [i \in DOMAIN batch |-> Bytes(batch, i)]
SizeTo(batch, i) == Sizes(Parts(batch), i)

LEMMA OffsetIsSize ==
  ASSUME NEW batch \in Seq(AbiCall), NEW i \in DOMAIN batch
  PROVE  Offset(batch, i) = 32 * (Len(batch) + SizeTo(batch, i - 1))
<1>1. \A j \in 1..(i - 1) : j \in DOMAIN batch
  BY LenProperties
<1>2. [j \in 1..(i - 1) |-> Len(Bytes(batch, j))] = [j \in 1..(i - 1) |-> Len(Parts(batch)[j])]
  BY <1>1 DEF Parts
<1> QED
  BY <1>2 DEF Offset, SizeTo, Sizes

\* The bytes[] of a batch: its length, an offset for each call, and the bytes there.
LEMMA DatasHold ==
  ASSUME NEW batch \in Seq(AbiCall), batch # <<>>
  PROVE  LET n == Len(batch)
             d == DatasOf(batch)
         IN  /\ d \in Seq(Words) /\ d[1] = n
             /\ \A i \in 1..n :
                  /\ SizeTo(batch, i - 1) \in Nat
                  /\ i + 1 \in 1..Len(d) /\ d[i + 1] = Offset(batch, i)
                  /\ Holds(d, 1 + n + SizeTo(batch, i - 1), Bytes(batch, i))
<1> DEFINE n == Len(batch)
           d == DatasOf(batch)
           o == [i \in DOMAIN batch |-> Offset(batch, i)]
           ss == Parts(batch)
           f == FlattenSeq(ss)
<1>1. n \in Nat /\ n # 0 /\ DOMAIN batch = 1..n
  BY LenProperties, EmptySeq
<1>2. ss \in Seq(Seq(Words)) /\ Len(ss) = n /\ \A i \in 1..n : ss[i] = Bytes(batch, i) /\ ss[i] \in Seq(Words)
  <2>1. \A i \in 1..n : Bytes(batch, i) \in Seq(Words)
    BY <1>1, DataOfCall
  <2>2. ss = [i \in 1..n |-> Bytes(batch, i)]
    BY <1>1 DEF Parts
  <2> HIDE DEF ss, n
  <2>3. ss \in [1..n -> Seq(Words)]
    BY <2>1, <2>2
  <2> QED
    BY <1>1, <2>1, <2>2, <2>3
<1>3. Joins(Words, ss, f, n)
  <2>1. Len(ss) \in Nat /\ Len(ss) # 0 /\ \A j \in 1..Len(ss) : ss[j] \in Seq(Words)
    BY <1>1, <1>2
  <2> HIDE DEF ss
  <2> QED
    BY <1>2, <2>1, FlattenJoins
<1>4. \A i \in 1..n : SizeTo(batch, i - 1) \in Nat
  BY <1>3 DEF Joins, SizeTo
<1>5. o \in Seq(Words) /\ Len(o) = n /\ \A i \in 1..n : o[i] = Offset(batch, i)
  <2>1. \A i \in 1..n : Offset(batch, i) \in Nat
    BY <1>1, <1>4, OffsetIsSize
  <2>2. o \in [1..n -> Words]
    BY <1>1, <2>1 DEF Words
  <2> HIDE DEF n
  <2> QED
    BY <1>1, <2>2
<1>6. d = ArrayOf(o) \o f
  BY DEF DatasOf, Parts
<1>7. f \in Seq(Words)
  BY <1>3 DEF Joins
<1> HIDE DEF o, f, ss, d, n
<1>8. /\ ArrayOf(o) \in Seq(Words) /\ Len(ArrayOf(o)) = n + 1 /\ ArrayOf(o)[1] = n
      /\ Holds(ArrayOf(o), 1, o)
  BY <1>5, ArrayHolds
<1>9. d \in Seq(Words) /\ Len(d) = Len(ArrayOf(o)) + Len(f) /\ Holds(d, 0, ArrayOf(o)) /\ Holds(d, n + 1, f)
  BY <1>6, <1>7, <1>8, Beside
<1>10. d[1] = n
  <2>1. d[0 + 1] = ArrayOf(o)[1]
    BY <1>1, <1>8, <1>9 DEF Holds
  <2> QED
    BY <1>8, <2>1
<1>11. ASSUME NEW i \in 1..n
       PROVE  i + 1 \in 1..Len(d) /\ d[i + 1] = Offset(batch, i)
  <2>1. Holds(d, 0 + 1, o)
    BY <1>8, <1>9, HeldWithin
  <2>2. d[(0 + 1) + i] = o[i]
    BY <1>5, <2>1 DEF Holds
  <2>3. Len(f) \in Nat
    BY <1>7
  <2> QED
    BY <1>1, <1>5, <1>8, <1>9, <2>2, <2>3
<1>12. ASSUME NEW i \in 1..n
       PROVE  Holds(d, 1 + n + SizeTo(batch, i - 1), Bytes(batch, i))
  <2> DEFINE q == SizeTo(batch, i - 1)
             b == Bytes(batch, i)
  <2>1. b \in Seq(Words) /\ b = ss[i]
    BY <1>2
  <2>2. q \in Nat /\ q + Len(b) <= Len(f) /\ \A k \in 1..Len(b) : f[q + k] = b[k]
    <3>1. Sizes(ss, i - 1) = q
      BY DEF SizeTo, ss
    <3>2. \A k \in 1..Len(b) : f[q + k] = b[k]
      BY <1>3, <2>1, <3>1 DEF Joins
    <3>3. q \in Nat /\ q + Len(b) <= Len(f)
      BY <1>3, <2>1, <3>1 DEF Joins
    <3> QED
      BY <3>2, <3>3
  <2> HIDE DEF b, q
  <2>3. Holds(f, q, b)
    BY <1>7, <2>1, <2>2 DEF Holds
  <2>4. Holds(d, (n + 1) + q, b)
    BY <1>9, <2>3, HeldWithin
  <2>5. (n + 1) + q = 1 + n + q
    BY <1>1, <2>2
  <2> QED
    BY <2>4, <2>5 DEF b, q
<1> QED
  BY <1>4, <1>9, <1>10, <1>11, <1>12 DEF d, n

LEMMA DatasRead ==
  ASSUME NEW words, NEW p, NEW batch \in Seq(AbiCall), batch # <<>>, Holds(words, p, DatasOf(batch)),
         NEW i \in 1..Len(batch), NEW at, at = 32 * p + 32 + WordAt(words, 32 * p + 32 * i)
  PROVE  WordAt(words, at) = batch[i].bytes /\ BytesAt(words, at) = Tail(Bytes(batch, i))
<1> DEFINE n == Len(batch)
           d == DatasOf(batch)
           q == SizeTo(batch, i - 1)
           b == Bytes(batch, i)
           m == DataWords(batch[i].bytes)
<1>1. n \in Nat /\ i \in 1..n /\ i \in DOMAIN batch /\ p \in Nat
  BY LenProperties DEF Holds
<1>2. q \in Nat /\ i + 1 \in 1..Len(d) /\ d[i + 1] = Offset(batch, i) /\ Holds(d, 1 + n + q, b)
  BY DatasHold
<1>3. d[i + 1] = 32 * (n + q)
  BY <1>1, <1>2, OffsetIsSize
<1>4. /\ m \in Nat /\ b \in Seq(Words) /\ Len(b) = m + 1 /\ b[1] = batch[i].bytes
      /\ \A k \in 1..m : b[k + 1] = <<"data", i, k>>
      /\ Tail(b) = [k \in 1..m |-> <<"data", i, k>>]
  BY <1>1, DataOfCall
<1> HIDE DEF d, q, b, n, m
<1>5. at = 32 * (p + (1 + n + q))
  <2>1. WordAt(words, 32 * (p + (i + 1) - 1)) = d[i + 1]
    BY <1>2, Reads DEF d
  <2>2. 32 * (p + (i + 1) - 1) = 32 * p + 32 * i
    BY <1>1
  <2>3. at = 32 * p + 32 + 32 * (n + q)
    BY <1>3, <2>1, <2>2
  <2> QED
    BY <1>1, <1>2, <2>3
<1>6. Holds(words, p + (1 + n + q), b)
  BY <1>2, HeldWithin DEF d
<1>7. ASSUME NEW k \in 0..m
      PROVE  WordAt(words, at + 32 * k) = b[k + 1]
  <2> DEFINE r == p + (1 + n + q)
  <2>1. k + 1 \in 1..Len(b) /\ r \in Nat
    BY <1>1, <1>2, <1>4
  <2> HIDE DEF r
  <2>2. WordAt(words, 32 * (r + (k + 1) - 1)) = b[k + 1]
    BY <1>6, <2>1, Reads DEF r
  <2>3. 32 * (r + (k + 1) - 1) = 32 * r + 32 * k
    BY <2>1
  <2> QED
    BY <1>5, <2>2, <2>3 DEF r
<1>8. WordAt(words, at) = batch[i].bytes
  <2>1. 0 \in 0..m
    BY <1>4
  <2>2. WordAt(words, at + 32 * 0) = b[0 + 1]
    BY <1>7, <2>1, Zenon
  <2>3. at + 32 * 0 = at /\ 0 + 1 = 1
    BY <1>1, <1>2, <1>5
  <2> QED
    BY <1>4, <2>2, <2>3, Zenon
<1>9. BytesAt(words, at) = [k \in 1..m |-> <<"data", i, k>>]
  <2>1. \A k \in 1..m : k \in 0..m
    BY <1>4
  <2>3. \A k \in 1..m : WordAt(words, at + 32 * k) = <<"data", i, k>>
    BY <1>4, <1>7, <2>1, Zenon
  <2>2. BytesAt(words, at) = [k \in 1..m |-> WordAt(words, at + 32 * k)]
    BY <1>8 DEF BytesAt, m, DataWords
  <2> QED
    BY <2>2, <2>3
<1> QED
  BY <1>4, <1>8, <1>9 DEF b

\* Four parts, one after the other.
LEMMA FourParts ==
  ASSUME NEW h \in Seq(Words), NEW a \in Seq(Words), NEW v \in Seq(Words), NEW d \in Seq(Words)
  PROVE  LET w == h \o a \o v \o d
         IN  /\ Holds(w, 0, h) /\ Holds(w, Len(h), a)
             /\ Holds(w, Len(h) + Len(a), v) /\ Holds(w, Len(h) + Len(a) + Len(v), d)
<1> DEFINE x == h \o a
           y == x \o v
           w == y \o d
<1>1. x \in Seq(Words) /\ Len(x) = Len(h) + Len(a) /\ Holds(x, 0, h) /\ Holds(x, Len(h), a)
  BY Beside
<1> HIDE DEF x
<1>2. y \in Seq(Words) /\ Len(y) = Len(x) + Len(v) /\ Holds(y, 0, x) /\ Holds(y, Len(x), v)
  BY <1>1, Beside
<1> HIDE DEF y
<1>3. Holds(w, 0, y) /\ Holds(w, Len(y), d)
  BY <1>2, Beside
<1>4. Len(h) \in Nat /\ Len(a) \in Nat /\ Len(v) \in Nat
  OBVIOUS
<1> HIDE DEF w
<1>5. Holds(w, 0 + Len(x), v) /\ Holds(w, 0 + 0, x)
  BY <1>2, <1>3, HeldWithin
<1>6. Holds(w, (0 + 0) + 0, h) /\ Holds(w, (0 + 0) + Len(h), a)
  BY <1>1, <1>5, HeldWithin
<1>7. 0 + Len(x) = Len(h) + Len(a) /\ (0 + 0) + 0 = 0 /\ (0 + 0) + Len(h) = Len(h)
  BY <1>1, <1>4
<1>8. Len(y) = Len(h) + Len(a) + Len(v)
  BY <1>1, <1>2, <1>4
<1> QED
  BY <1>3, <1>5, <1>6, <1>7, <1>8 DEF w, x, y

Asked(batch, i) ==
  [to |-> batch[i].to, value |-> batch[i].value, bytes |-> batch[i].bytes, data |-> Tail(Bytes(batch, i))]

LEMMA CallsAreWords ==
  ASSUME NEW batch \in Seq(AbiCall)
  PROVE  /\ Len(batch) \in Nat /\ DOMAIN batch = 1..Len(batch)
         /\ [i \in DOMAIN batch |-> batch[i].to] \in Seq(Words)
         /\ [i \in DOMAIN batch |-> batch[i].value] \in Seq(Words)
         /\ Len([i \in DOMAIN batch |-> batch[i].to]) = Len(batch)
         /\ Len([i \in DOMAIN batch |-> batch[i].value]) = Len(batch)
<1>1. Len(batch) \in Nat /\ DOMAIN batch = 1..Len(batch)
  OBVIOUS
<1>2. \A i \in 1..Len(batch) : batch[i].to \in Words /\ batch[i].value \in Words
  <2>1. \A i \in 1..Len(batch) : batch[i] \in AbiCall
    BY ElementOfSeq
  <2> QED
    BY <2>1 DEF AbiCall, Words
<1> DEFINE n == Len(batch)
           t == [i \in DOMAIN batch |-> batch[i].to]
           v == [i \in DOMAIN batch |-> batch[i].value]
<1>3. t \in [1..n -> Words] /\ v \in [1..n -> Words]
  BY <1>1, <1>2
<1> HIDE DEF t, v, n
<1>4. t \in Seq(Words) /\ v \in Seq(Words) /\ Len(t) = n /\ Len(v) = n
  BY <1>1, <1>3 DEF n
<1> QED
  BY <1>1, <1>4 DEF t, v, n

LEMMA DecodesV07 ==
  ASSUME NEW batch \in Seq(AbiCall), Len(batch) > 1, abiVersion # "0.6"
  PROVE  AbiDecoded(EncodeBatchV07(batch), FALSE) = [i \in DOMAIN batch |-> Asked(batch, i)]
<1> DEFINE n == Len(batch)
           array == 32 + n * 32
           h == <<96, 96 + array, 96 + array + array>>
           a == TargetsOf(batch)
           v == ValuesOf(batch)
           d == DatasOf(batch)
           t == [i \in DOMAIN batch |-> batch[i].to]
           u == [i \in DOMAIN batch |-> batch[i].value]
           w == EncodeBatchV07(batch)
<1>1. /\ n \in Nat /\ n > 1 /\ DOMAIN batch = 1..n /\ batch # <<>>
      /\ t \in Seq(Words) /\ u \in Seq(Words) /\ Len(t) = n /\ Len(u) = n
  BY CallsAreWords, EmptySeq
<1>2. /\ h \in Seq(Words) /\ Len(h) = 3
      /\ h[1] = 96 /\ h[2] = 96 + array /\ h[3] = 96 + array + array
  <2>1. {96, 96 + array, 96 + array + array} \subseteq Words
    BY <1>1 DEF Words
  <2> HIDE DEF array
  <2> QED
    BY <2>1
<1> HIDE DEF h, t, u
<1>3. a \in Seq(Words) /\ Len(a) = n + 1 /\ v \in Seq(Words) /\ Len(v) = n + 1
  BY <1>1, ArrayHolds DEF TargetsOf, ValuesOf, t, u
<1>4. d \in Seq(Words)
  BY <1>1, DatasHold
<1>5. w = h \o a \o v \o d
  BY DEF EncodeBatchV07, h
<1> HIDE DEF w, a, v, d
<1>6. /\ Holds(w, 0, h) /\ Holds(w, Len(h), a)
      /\ Holds(w, Len(h) + Len(a), v) /\ Holds(w, Len(h) + Len(a) + Len(v), d)
  <2> DEFINE all == h \o a \o v \o d
  <2>1. /\ Holds(all, 0, h) /\ Holds(all, Len(h), a)
        /\ Holds(all, Len(h) + Len(a), v) /\ Holds(all, Len(h) + Len(a) + Len(v), d)
    <3>1. h \in Seq(Words) /\ a \in Seq(Words) /\ v \in Seq(Words) /\ d \in Seq(Words)
      BY <1>2, <1>3, <1>4, Zenon
    <3> HIDE DEF array, n
    <3> QED
      BY <3>1, FourParts, Zenon
  <2>2. w = all
    BY <1>5, Zenon
  <2> HIDE DEF all
  <2> QED
    BY <2>1, <2>2, Zenon
<1>7. w[1] = 96 /\ w[2] = 96 + array /\ w[3] = 96 + array + array
  <2>1. w[0 + 1] = h[1] /\ w[0 + 2] = h[2] /\ w[0 + 3] = h[3]
    BY <1>2, <1>6 DEF Holds
  <2> QED
    BY <1>2, <2>1
<1>8. w[1] = 32 * 3 /\ w[2] = 32 * (3 + (n + 1)) /\ w[3] = 32 * (3 + (n + 1) + (n + 1))
  BY <1>1, <1>7
<1>9. ArrayAt(w, w[1]) = [i \in 1..n |-> t[i]] /\ ArrayAt(w, w[2]) = [i \in 1..n |-> u[i]]
  <2>1. Holds(w, 3, a) /\ Holds(w, 3 + (n + 1), v)
    BY <1>2, <1>3, <1>6
  <2>2. a = ArrayOf(t) /\ v = ArrayOf(u)
    BY DEF a, v, TargetsOf, ValuesOf, t, u
  <2>3. ArrayAt(w, 32 * 3) = [i \in 1..Len(t) |-> t[i]]
    BY <1>1, <2>1, <2>2, ArrayReads
  <2>4. ArrayAt(w, 32 * (3 + (n + 1))) = [i \in 1..Len(u) |-> u[i]]
    BY <1>1, <2>1, <2>2, ArrayReads
  <2> QED
    BY <1>1, <1>8, <2>3, <2>4, Zenon
<1> DEFINE datas == w[3]
           at(i) == datas + 32 + WordAt(w, datas + 32 * i)
<1>10. ASSUME NEW i \in 1..n
       PROVE  WordAt(w, at(i)) = batch[i].bytes /\ BytesAt(w, at(i)) = Tail(Bytes(batch, i))
  <2>1. Holds(w, 3 + (n + 1) + (n + 1), DatasOf(batch))
    BY <1>2, <1>3, <1>6 DEF d
  <2> QED
    BY <1>1, <1>8, <2>1, DatasRead
<1>11. \A i \in 1..n : t[i] = batch[i].to /\ u[i] = batch[i].value
  BY <1>1 DEF t, u
<1>12. AbiDecoded(w, FALSE) =
         [i \in DOMAIN ArrayAt(w, w[1]) |->
            [to |-> ArrayAt(w, w[1])[i], value |-> ArrayAt(w, w[2])[i],
             bytes |-> WordAt(w, at(i)), data |-> BytesAt(w, at(i))]]
  BY DEF AbiDecoded
<1> HIDE DEF at, datas
<1>13. AbiDecoded(w, FALSE) = [i \in 1..n |-> Asked(batch, i)]
  <2> DEFINE to == ArrayAt(w, w[1])
             values == ArrayAt(w, w[2])
  <2>1. DOMAIN to = 1..n /\ \A i \in 1..n : to[i] = batch[i].to /\ values[i] = batch[i].value
    BY <1>9, <1>11
  <2> HIDE DEF to, values
  <2>2. AbiDecoded(w, FALSE) =
          [i \in 1..n |-> [to |-> to[i], value |-> values[i], bytes |-> WordAt(w, at(i)), data |-> BytesAt(w, at(i))]]
    BY <1>12, <2>1, Zenon DEF to, values
  <2>3. \A i \in 1..n :
          [to |-> to[i], value |-> values[i], bytes |-> WordAt(w, at(i)), data |-> BytesAt(w, at(i))] = Asked(batch, i)
    BY <1>10, <2>1, Zenon DEF Asked
  <2> QED
    BY <2>2, <2>3, Zenon
<1> QED
  BY <1>1, <1>13 DEF w

LEMMA DecodesV06 ==
  ASSUME NEW batch \in Seq(AbiCall), Len(batch) > 1, abiVersion = "0.6",
         \A i \in DOMAIN batch : batch[i].value = 0
  PROVE  AbiDecoded(EncodeBatchV06(batch), FALSE) = [i \in DOMAIN batch |-> Asked(batch, i)]
<1> DEFINE n == Len(batch)
           h == <<64, 64 + 32 + n * 32>>
           a == TargetsOf(batch)
           d == DatasOf(batch)
           t == [i \in DOMAIN batch |-> batch[i].to]
           w == EncodeBatchV06(batch)
<1>1. /\ n \in Nat /\ n > 1 /\ DOMAIN batch = 1..n /\ batch # <<>>
      /\ t \in Seq(Words) /\ Len(t) = n
  <2>1. n \in Nat /\ DOMAIN batch = 1..n /\ t \in Seq(Words) /\ Len(t) = n
    BY CallsAreWords
  <2>2. batch # <<>>
    BY EmptySeq
  <2> QED
    BY <2>1, <2>2
<1>2. h \in Seq(Words) /\ Len(h) = 2 /\ h[1] = 64 /\ h[2] = 64 + 32 + n * 32
  <2> DEFINE second == 64 + 32 + n * 32
  <2>1. {64, second} \subseteq Words
    BY <1>1 DEF Words
  <2> HIDE DEF second
  <2>2. <<64, second>> \in Seq(Words) /\ Len(<<64, second>>) = 2
    BY <2>1
  <2> QED
    BY <2>2 DEF second
<1> HIDE DEF h, t
<1>3. a \in Seq(Words) /\ Len(a) = n + 1
  BY <1>1, ArrayHolds DEF TargetsOf, t
<1>4. d \in Seq(Words)
  BY <1>1, DatasHold
<1> DEFINE x == h \o a
<1>5. w = x \o d
  BY DEF EncodeBatchV06, h
<1> HIDE DEF w, a, d
<1>6. x \in Seq(Words) /\ Len(x) = 2 + (n + 1) /\ Holds(x, 0, h) /\ Holds(x, 2, a)
  <2>1. x \in Seq(Words) /\ Len(x) = Len(h) + Len(a) /\ Holds(x, 0, h) /\ Holds(x, Len(h), a)
    BY <1>2, <1>3, Beside
  <2> HIDE DEF x
  <2> QED
    BY <1>2, <1>3, <2>1
<1> HIDE DEF x
<1>7. Holds(w, 0, x) /\ Holds(w, 2 + (n + 1), d)
  BY <1>4, <1>5, <1>6, Beside
<1>8. Holds(w, 0 + 0, h) /\ Holds(w, 0 + 2, a)
  BY <1>6, <1>7, HeldWithin
<1>9. w[1] = 32 * 2 /\ w[2] = 32 * (2 + (n + 1))
  <2>1. w[(0 + 0) + 1] = h[1] /\ w[(0 + 0) + 2] = h[2]
    BY <1>2, <1>8 DEF Holds
  <2> QED
    BY <1>1, <1>2, <2>1
<1>10. ArrayAt(w, w[1]) = [i \in 1..n |-> t[i]]
  <2>1. ArrayAt(w, 32 * (0 + 2)) = [i \in 1..Len(t) |-> t[i]]
    BY <1>1, <1>8, ArrayReads DEF a, TargetsOf, t
  <2> QED
    BY <1>1, <1>9, <2>1
<1> DEFINE datas == w[2]
           at(i) == datas + 32 + WordAt(w, datas + 32 * i)
<1>11. ASSUME NEW i \in 1..n
       PROVE  WordAt(w, at(i)) = batch[i].bytes /\ BytesAt(w, at(i)) = Tail(Bytes(batch, i))
  <2>1. Holds(w, 2 + (n + 1), DatasOf(batch))
    BY <1>7 DEF d
  <2> QED
    BY <1>1, <1>9, <2>1, DatasRead
<1>12. \A i \in 1..n : t[i] = batch[i].to /\ batch[i].value = 0
  BY <1>1 DEF t
<1>13. AbiDecoded(w, FALSE) =
         [i \in DOMAIN ArrayAt(w, w[1]) |->
            [to |-> ArrayAt(w, w[1])[i], value |-> 0,
             bytes |-> WordAt(w, at(i)), data |-> BytesAt(w, at(i))]]
  BY DEF AbiDecoded
<1> HIDE DEF at, datas
<1>14. AbiDecoded(w, FALSE) = [i \in 1..n |-> Asked(batch, i)]
  <2> DEFINE to == ArrayAt(w, w[1])
  <2>1. DOMAIN to = 1..n /\ \A i \in 1..n : to[i] = batch[i].to
    BY <1>10, <1>12
  <2> HIDE DEF to
  <2>2. AbiDecoded(w, FALSE) =
          [i \in 1..n |-> [to |-> to[i], value |-> 0, bytes |-> WordAt(w, at(i)), data |-> BytesAt(w, at(i))]]
    BY <1>13, <2>1, Zenon DEF to
  <2>3. \A i \in 1..n :
          [to |-> to[i], value |-> 0, bytes |-> WordAt(w, at(i)), data |-> BytesAt(w, at(i))] = Asked(batch, i)
    BY <1>11, <1>12, <2>1, Zenon DEF Asked
  <2> QED
    BY <2>2, <2>3, Zenon
<1> QED
  BY <1>1, <1>14 DEF w

LEMMA DecodesOne ==
  ASSUME NEW batch \in Seq(AbiCall), Len(batch) = 1
  PROVE  AbiDecoded(EncodeExecute(batch), TRUE) = [i \in DOMAIN batch |-> Asked(batch, i)]
<1> DEFINE h == <<batch[1].to, batch[1].value, 96>>
           b == Bytes(batch, 1)
           m == DataWords(batch[1].bytes)
           w == EncodeExecute(batch)
<1>1. DOMAIN batch = 1..1 /\ batch[1] \in AbiCall
  <2>1. DOMAIN batch = 1..Len(batch)
    BY LenProperties
  <2>2. 1 \in 1..Len(batch)
    OBVIOUS
  <2>3. batch[1] \in AbiCall
    BY <2>2, ElementOfSeq
  <2> QED
    BY <2>1, <2>3
<1>2. h \in Seq(Words) /\ Len(h) = 3 /\ h[1] = batch[1].to /\ h[2] = batch[1].value /\ h[3] = 96
  <2>1. batch[1].to \in Words /\ batch[1].value \in Words /\ 96 \in Words
    BY <1>1 DEF AbiCall, Words
  <2> QED
    BY <2>1
<1>3. /\ m \in Nat /\ b \in Seq(Words) /\ Len(b) = m + 1 /\ b[1] = batch[1].bytes
      /\ \A k \in 1..m : b[k + 1] = <<"data", 1, k>>
      /\ Tail(b) = [k \in 1..m |-> <<"data", 1, k>>]
  BY <1>1, DataOfCall
<1>4. w = h \o b
  BY DEF EncodeExecute
<1> HIDE DEF h, b, m, w
<1>5. Holds(w, 0, h) /\ Holds(w, 3, b)
  BY <1>2, <1>3, <1>4, Beside
<1>6. w[1] = batch[1].to /\ w[2] = batch[1].value /\ w[3] = 96
  <2>1. w[0 + 1] = h[1] /\ w[0 + 2] = h[2] /\ w[0 + 3] = h[3]
    BY <1>2, <1>5 DEF Holds
  <2> QED
    BY <1>2, <2>1
<1>7. ASSUME NEW k \in 0..m
      PROVE  WordAt(w, 96 + 32 * k) = b[k + 1]
  <2>1. k + 1 \in 1..Len(b) /\ 32 * (3 + (k + 1) - 1) = 96 + 32 * k
    BY <1>3
  <2>2. WordAt(w, 32 * (3 + (k + 1) - 1)) = b[k + 1]
    BY <1>5, <2>1, Reads
  <2> QED
    BY <2>1, <2>2
<1>8. WordAt(w, 96) = batch[1].bytes
  <2>1. 0 \in 0..m
    BY <1>3
  <2>2. WordAt(w, 96 + 32 * 0) = b[0 + 1]
    BY <1>7, <2>1, Zenon
  <2> QED
    BY <1>3, <2>2
<1>9. BytesAt(w, 96) = [k \in 1..m |-> <<"data", 1, k>>]
  <2>1. \A k \in 1..m : k \in 0..m
    BY <1>3
  <2>3. \A k \in 1..m : WordAt(w, 96 + 32 * k) = <<"data", 1, k>>
    BY <1>3, <1>7, <2>1, Zenon
  <2>2. BytesAt(w, 96) = [k \in 1..m |-> WordAt(w, 96 + 32 * k)]
    BY <1>8 DEF BytesAt, m, DataWords
  <2> QED
    BY <2>2, <2>3
<1>10. AbiDecoded(w, TRUE) = <<Asked(batch, 1)>>
  BY <1>3, <1>6, <1>8, <1>9 DEF AbiDecoded, Asked, b
<1>11. <<Asked(batch, 1)>> = [i \in 1..1 |-> Asked(batch, i)]
  OBVIOUS
<1> QED
  BY <1>1, <1>10, <1>11 DEF w

LEMMA BatchIsDecoded ==
  ASSUME abiCalls \in Seq(AbiCall)
  PROVE  BatchDecodes
<1> SUFFICES ASSUME Encodable(abiCalls)
    PROVE  AbiDecoded(CallData(abiCalls), Len(abiCalls) = 1) = [i \in DOMAIN abiCalls |-> Asked(abiCalls, i)]
  BY DEF BatchDecodes, Asked
<1>1. Len(abiCalls) # 1 => Len(abiCalls) > 1
  <2> DEFINE n == Len(abiCalls)
  <2>1. n \in Nat /\ n # 0
    BY LenProperties, EmptySeq DEF Encodable
  <2> HIDE DEF n
  <2>2. n # 1 => n > 1
    BY <2>1
  <2> QED
    BY <2>2 DEF n
<1>2. CASE Len(abiCalls) = 1
  BY <1>2, DecodesOne DEF CallData
<1>3. CASE Len(abiCalls) # 1 /\ abiVersion = "0.6"
  <2>1. Len(abiCalls) > 1 /\ \A i \in DOMAIN abiCalls : abiCalls[i].value = 0
    BY <1>1, <1>3 DEF Encodable
  <2>2. CallData(abiCalls) = EncodeBatchV06(abiCalls) /\ (Len(abiCalls) = 1) = FALSE
    BY <1>3 DEF CallData
  <2> QED
    BY <1>3, <2>1, <2>2, DecodesV06
<1>4. CASE Len(abiCalls) # 1 /\ abiVersion # "0.6"
  <2>1. Len(abiCalls) > 1
    BY <1>1, <1>4
  <2>2. CallData(abiCalls) = EncodeBatchV07(abiCalls) /\ (Len(abiCalls) = 1) = FALSE
    BY <1>4 DEF CallData
  <2> QED
    BY <1>4, <2>1, <2>2, DecodesV07
<1> QED
  BY <1>2, <1>3, <1>4

--------------------------------------------------------------------------------
(* The suite: one part moves, and the invariants of all parts are kept.           *)

AbiInv == abiCalls \in Seq(AbiCall) /\ Len(abiCalls) <= MaxBatchCalls

SuiteInv ==
  /\ subject \in {"keys", "scopes", "authorizations", "solana", "operations", "batches"}
  /\ IInv /\ SolInv /\ OpInv /\ AbiInv
  /\ subject = "scopes" => ScopeInv
  /\ subject = "authorizations" => AuthInv

LEMMA AbiStep ==
  ASSUME AbiInv, AbiNext
  PROVE  AbiInv'
<1>1. PICK call \in AbiCall : Len(abiCalls) < MaxBatchCalls /\ abiCalls' = Append(abiCalls, call)
  BY DEF AbiNext, AddCall
<1>2. abiCalls' \in Seq(AbiCall) /\ Len(abiCalls') = Len(abiCalls) + 1 /\ Len(abiCalls) \in Nat
  BY <1>1, Appended DEF AbiInv
<1> QED
  BY <1>1, <1>2, BatchAssumption DEF AbiInv

\* A part that does not move keeps its invariant.
LEMMA SolStays ==
  ASSUME SolInv, UNCHANGED solKeyVars
  PROVE  SolInv'
BY SolKeeps DEF SolInv, solKeyVars, Stored

LEMMA OpStays ==
  ASSUME OpInv, UNCHANGED opVars
  PROVE  OpInv'
<1>1. \A d \in Ops : \A t : Fits(d, t)' <=> Fits(d, t)
  BY DEF Fits, Built, TotalGas, PaymasterGas, Packs, opVars
<1>2. OpTypeOK' /\ WithinGasPolicy'
  BY DEF OpInv, OpTypeOK, WithinGasPolicy, opVars
<1> QED
  BY <1>1, <1>2 DEF OpInv, opVars

LEMMA ScopeStays ==
  ASSUME ScopeInv, UNCHANGED scopeVars
  PROVE  ScopeInv'
<1>1. ChainWithinScope' /\ (scope # None => SpentKept)'
  BY DEF ScopeInv, ChainWithinScope, SpentKept, scopeVars
<1> QED
  BY <1>1 DEF ScopeInv, scopeVars

LEMMA AuthStays ==
  ASSUME AuthInv, UNCHANGED authVars
  PROVE  AuthInv'
BY DEF AuthInv, authVars

LEMMA AbiStays ==
  ASSUME AbiInv, UNCHANGED abiVars
  PROVE  AbiInv'
BY DEF AbiInv, abiVars

LEMMA KeysStay ==
  ASSUME IInv, UNCHANGED vars
  PROVE  IInv'
BY NextInvariant

LEMMA SuiteStarts ==
  ASSUME SuiteInit
  PROVE  SuiteInv
<1>1. IInv
  BY InitInvariant DEF SuiteInit
<1>2. SolInv
  BY SolStarts DEF SuiteInit
<1>3. OpInv
  BY OpStarts DEF SuiteInit
<1>4. AbiInv
  <2>1. abiCalls = <<>>
    BY DEF SuiteInit, AbiInit
  <2> QED
    BY <2>1, BatchAssumption DEF AbiInv
<1>5. subject = "scopes" => ScopeInv
  BY ScopeStarts DEF SuiteInit
<1>6. subject = "authorizations" => AuthInv
  BY AuthStarts DEF SuiteInit
<1> QED
  BY <1>1, <1>2, <1>3, <1>4, <1>5, <1>6 DEF SuiteInit, SuiteInv

LEMMA SuiteStep ==
  ASSUME SuiteInv, [SuiteNext]_suiteVars
  PROVE  SuiteInv'
<1>1. subject' = subject
  BY DEF SuiteNext, suiteVars
<1>2. CASE UNCHANGED suiteVars
  <2>1. UNCHANGED <<vars, scopeVars, authVars, solKeyVars, opVars, abiVars>>
    BY <1>2 DEF suiteVars
  <2> QED
    BY <1>1, <2>1, KeysStay, SolStays, OpStays, ScopeStays, AuthStays, AbiStays DEF SuiteInv
<1>3. CASE subject = "keys" /\ Next /\ UNCHANGED <<scopeVars, authVars, solKeyVars, opVars, abiVars>>
  BY <1>1, <1>3, NextInvariant, SolStays, OpStays, AbiStays DEF SuiteInv
<1>4. CASE subject = "scopes" /\ ScopeNext /\ UNCHANGED <<vars, authVars, solKeyVars, opVars, abiVars>>
  BY <1>1, <1>4, KeysStay, SolStays, OpStays, AbiStays, ScopeStep DEF SuiteInv
<1>5. CASE subject = "authorizations" /\ AuthNext /\ UNCHANGED <<vars, scopeVars, solKeyVars, opVars, abiVars>>
  BY <1>1, <1>5, KeysStay, SolStays, OpStays, AbiStays, AuthStep DEF SuiteInv
<1>6. CASE subject = "solana" /\ SolKeyNext /\ UNCHANGED <<vars, scopeVars, authVars, opVars, abiVars>>
  BY <1>1, <1>6, KeysStay, SolStep, OpStays, AbiStays DEF SuiteInv
<1>7. CASE subject = "operations" /\ OpNext /\ UNCHANGED <<vars, scopeVars, authVars, solKeyVars, abiVars>>
  BY <1>1, <1>7, KeysStay, SolStays, OpStep, AbiStays DEF SuiteInv
<1>8. CASE subject = "batches" /\ AbiNext /\ UNCHANGED <<vars, scopeVars, authVars, solKeyVars, opVars>>
  BY <1>1, <1>8, KeysStay, SolStays, OpStays, AbiStep DEF SuiteInv
<1> QED
  BY <1>2, <1>3, <1>4, <1>5, <1>6, <1>7, <1>8 DEF SuiteNext

THEOREM SuiteInvariance == SuiteSpec => []SuiteInv
<1>1. SuiteInit => SuiteInv
  BY SuiteStarts
<1>2. SuiteInv /\ [SuiteNext]_suiteVars => SuiteInv'
  BY SuiteStep
<1> QED
  BY <1>1, <1>2, PTL DEF SuiteSpec

\* Every part of the delegated keys keeps the types of its variables.
THEOREM SuiteTypeCorrect == SuiteSpec => []SuiteTypeOK
<1>1. SuiteInv => SuiteTypeOK
  <2> SUFFICES ASSUME SuiteInv PROVE SuiteTypeOK
    OBVIOUS
  <2>1. TypeOK /\ SolKeyTypeOK /\ OpTypeOK /\ AbiTypeOK
    BY SolHolds, OpHolds DEF SuiteInv, IInv, AbiInv, AbiTypeOK
  <2>2. subject = "scopes" => ScopeTypeOK
    BY ScopeHolds DEF SuiteInv
  <2>3. subject = "authorizations" => AuthTypeOK
    BY AuthHolds DEF SuiteInv
  <2> QED
    BY <2>1, <2>2, <2>3 DEF SuiteInv, SuiteTypeOK
<1> QED
  BY <1>1, SuiteInvariance, PTL

\* Whatever an EVM session key's owner granted, checkScopeAgainstTx and the caveats
\* of caveatsFromScope let it spend no more; nor do the tabs of a Solana key.
THEOREM ScopesAreEnforced == SuiteSpec => []ScopesEnforced
<1>1. SuiteInv => ScopesEnforced
  BY SolHolds, ScopeHolds DEF SuiteInv, ScopesEnforced
<1> QED
  BY <1>1, SuiteInvariance, PTL

\* For every authorization that validateAuthorization accepts, any history of payments
\* and a payment of either asset on any rail: evaluateSpend answers what the compiled
\* enforcer will do, but for a transfer or a native payment of an EVM key enforced on the
\* device, which is refused, and for the rail a Solana key pays on, which it is not asked.
THEOREM PreviewsAreRight == SuiteSpec => []PreviewsAgree
<1>1. SuiteInv => PreviewsAgree
  BY AuthHolds DEF SuiteInv, PreviewsAgree
<1> QED
  BY <1>1, SuiteInvariance, PTL

\* A user operation that is reported as executed was included, and what is sent
\* with a paymaster has at most the gas of the policy.
THEOREM OperationsAreKept == SuiteSpec => []OperationsKept
<1>1. SuiteInv => OperationsKept
  BY OpHolds DEF SuiteInv
<1> QED
  BY <1>1, SuiteInvariance, PTL

\* The contract of the account executes the calls that were asked for: each target
\* and value, and every byte of data at the offset written for it, for any number of
\* calls with data of any lengths (buildCallData, encodeExecuteBatch).
THEOREM BatchesDecode == SuiteSpec => []BatchDecodes
<1>1. SuiteInv => BatchDecodes
  BY BatchIsDecoded DEF SuiteInv, AbiInv
<1> QED
  BY <1>1, SuiteInvariance, PTL
================================================================================
