------------------------ MODULE SessionManagerProofs ------------------------
(* Proofs about SessionManager, for any number of sessions, chains, calls,    *)
(* bundle objects and page reloads, and any room for sessions.                *)
EXTENDS SessionManager, SumLemmas, SequenceTheorems, TLAPS

-----------------------------------------------------------------------------
(* byAge: what is left of a sequence, and how long it is.  Without is a fold,  *)
(* which runs through the sets of indices from the largest index down.         *)

FoldStep(K, q, s, it) ==
  IF s = {} THEN <<>>
  ELSE LET i == Max(s)
       IN  IF q[i] \in K THEN it[s \ {i}] ELSE Append(it[s \ {i}], q[i])

Fold(K, q) == CHOOSE it : it = [s \in SUBSET DOMAIN q |-> FoldStep(K, q, s, it)]

LEMMA WithoutIsFold == ASSUME NEW K PROVE Without(K) = Fold(K, byAge)[DOMAIN byAge]
BY DEF Without, FoldLeft, MapThenFoldSet, Fold, FoldStep

\* A set of indices has a largest one.
LEMMA MaxIn ==
  ASSUME NEW n \in Nat, NEW s \in SUBSET (1 .. n), s # {}
  PROVE  Max(s) \in s /\ \A i \in s : i <= Max(s)
<1> DEFINE T == {m \in Nat : n - m \in s}
<1>1. T # {}
  <2>1. PICK i \in s : TRUE
    OBVIOUS
  <2>2. i \in Nat /\ n - i \in Nat /\ n - (n - i) = i
    BY <2>1
  <2> QED
    BY <2>1, <2>2
<1>2. PICK m \in T : \A k \in T : m <= k
  <2> HIDE DEF T
  <2>1. T \subseteq Nat
    BY DEF T
  <2> QED
    BY <1>1, <2>1, LeastNat
<1>3. ASSUME NEW i \in s
      PROVE  n - m >= i
  <2>1. i \in 1 .. n /\ n - i \in Nat /\ n - (n - i) = i
    OBVIOUS
  <2>2. m <= n - i
    BY <1>2, <2>1
  <2> QED
    BY <1>2, <2>1, <2>2
<1>4. n - m \in s /\ \A i \in s : n - m >= i
  BY <1>2, <1>3
<1>5. Max(s) \in s /\ \A i \in s : Max(s) >= i
  BY <1>4 DEF Max
<1>6. \A i \in s : i \in Nat
  OBVIOUS
<1> HIDE DEF T
<1> QED
  BY <1>5, <1>6

UpTo(S, n) == {s \in SUBSET S : Cardinality(s) <= n}

LEMMA MaxSmaller ==
  ASSUME NEW q \in Seq(Sessions), NEW n \in Nat, NEW s \in UpTo(DOMAIN q, n + 1), s # {}
  PROVE  /\ s \ {Max(s)} \in UpTo(DOMAIN q, n)
         /\ Max(s) \in s /\ \A i \in s : i <= Max(s)
<1>1. DOMAIN q = 1 .. Len(q) /\ Len(q) \in Nat
  BY LenProperties
<1>2. IsFiniteSet(DOMAIN q)
  BY <1>1, FS_Interval
<1>3. s \in SUBSET DOMAIN q /\ Cardinality(s) <= n + 1 /\ IsFiniteSet(s)
  BY <1>2, FS_Subset DEF UpTo
<1>4. Max(s) \in s /\ \A i \in s : i <= Max(s)
  BY <1>1, <1>3, MaxIn
<1>5. Cardinality(s) \in Nat /\ Cardinality(s \ {Max(s)}) = Cardinality(s) - 1
  BY <1>3, <1>4, FS_RemoveElement, FS_CardinalityType
<1> QED
  BY <1>3, <1>4, <1>5 DEF UpTo

FoldUpTo(K, q, n, it) == it = [s \in UpTo(DOMAIN q, n) |-> FoldStep(K, q, s, it)]

LEMMA FoldExists ==
  ASSUME NEW K, NEW q \in Seq(Sessions)
  PROVE  \A s \in SUBSET DOMAIN q : Fold(K, q)[s] = FoldStep(K, q, s, Fold(K, q))
<1> DEFINE P == {n \in Nat : \E it : FoldUpTo(K, q, n, it)}
<1>0. Len(q) \in Nat /\ DOMAIN q = 1 .. Len(q)
  BY LenProperties
<1>1. IsFiniteSet(DOMAIN q) /\ Cardinality(DOMAIN q) = Len(q)
  BY <1>0, FS_Interval
<1>2. \A s \in SUBSET DOMAIN q : Cardinality(s) \in Nat /\ Cardinality(s) <= Len(q)
  BY <1>1, FS_Subset, FS_CardinalityType
<1>3. 0 \in P
  <2> DEFINE it == [s \in UpTo(DOMAIN q, 0) |-> <<>>]
  <2>1. \A s \in UpTo(DOMAIN q, 0) : s = {}
    BY <1>1, FS_Subset, FS_EmptySet, FS_CardinalityType DEF UpTo
  <2>2. FoldUpTo(K, q, 0, it)
    BY <2>1 DEF FoldStep, FoldUpTo
  <2> QED
    BY <2>2
<1>4. ASSUME NEW n \in Nat, n \in P
      PROVE  n + 1 \in P
  <2>1. PICK old : FoldUpTo(K, q, n, old)
    BY <1>4
  <2> DEFINE it == [s \in UpTo(DOMAIN q, n + 1) |-> FoldStep(K, q, s, old)]
  <2>2. ASSUME NEW s \in UpTo(DOMAIN q, n + 1), s # {}
        PROVE  s \ {Max(s)} \in UpTo(DOMAIN q, n)
    BY <2>2, MaxSmaller
  <2>3. UpTo(DOMAIN q, n) \subseteq UpTo(DOMAIN q, n + 1)
    BY <1>2 DEF UpTo
  <2>4. \A s \in UpTo(DOMAIN q, n) : it[s] = old[s]
    BY <2>1, <2>3 DEF FoldUpTo
  <2>5. \A s \in UpTo(DOMAIN q, n + 1) : it[s] = FoldStep(K, q, s, it)
    <3> SUFFICES ASSUME NEW s \in UpTo(DOMAIN q, n + 1)
        PROVE  it[s] = FoldStep(K, q, s, it)
      OBVIOUS
    <3>1. s # {} => it[s \ {Max(s)}] = old[s \ {Max(s)}]
      BY <2>2, <2>4
    <3>2. it[s] = FoldStep(K, q, s, old)
      OBVIOUS
    <3> HIDE DEF it
    <3> QED
      BY <3>1, <3>2 DEF FoldStep
  <2>6. FoldUpTo(K, q, n + 1, it)
    BY <2>5 DEF FoldUpTo
  <2> QED
    BY <2>6
<1>5. Nat \subseteq P
  <2> HIDE DEF P
  <2> QED
    BY <1>3, <1>4, NatSteps
<1>6. UpTo(DOMAIN q, Len(q)) = SUBSET DOMAIN q
  BY <1>2 DEF UpTo
<1>7. PICK it : FoldUpTo(K, q, Len(q), it)
  BY <1>0, <1>5
<1>8. it = [s \in SUBSET DOMAIN q |-> FoldStep(K, q, s, it)]
  BY <1>6, <1>7 DEF FoldUpTo
<1>9. Fold(K, q) = [s \in SUBSET DOMAIN q |-> FoldStep(K, q, s, Fold(K, q))]
  BY <1>8 DEF Fold
<1> QED
  BY <1>9

\* The elements of q at the indices s that are not in K.
LeftAt(K, q, s) == {q[i] : i \in s} \ K

FoldsTo(K, q, s) ==
  LET r == Fold(K, q)[s]
  IN  /\ r \in Seq(Sessions)
      /\ ToSet(r) = LeftAt(K, q, s)
      /\ IsInjective(q) => IsInjective(r)

LEMMA AppendNew ==
  ASSUME NEW r \in Seq(Sessions), NEW x \in Sessions
  PROVE  /\ Append(r, x) \in Seq(Sessions) /\ Len(Append(r, x)) = Len(r) + 1
         /\ ToSet(Append(r, x)) = ToSet(r) \cup {x}
         /\ IsInjective(r) /\ x \notin ToSet(r) => IsInjective(Append(r, x))
<1>1. /\ Len(r) \in Nat /\ DOMAIN r = 1 .. Len(r)
      /\ Append(r, x) \in Seq(Sessions) /\ Len(Append(r, x)) = Len(r) + 1
      /\ DOMAIN Append(r, x) = 1 .. Len(r) + 1
      /\ \A i \in 1 .. Len(r) : Append(r, x)[i] = r[i]
      /\ Append(r, x)[Len(r) + 1] = x
  BY AppendProperties, LenProperties
<1> DEFINE a == Append(r, x)
<1> HIDE DEF a
<1>2. ToSet(a) = ToSet(r) \cup {x}
  BY <1>1 DEF ToSet, a
<1>3. IsInjective(r) /\ x \notin ToSet(r) => IsInjective(a)
  <2>1. \A i \in 1 .. Len(r) : r[i] \in ToSet(r)
    BY <1>1 DEF ToSet
  <2>2. \A i \in DOMAIN a : i \in 1 .. Len(r) \/ i = Len(r) + 1
    BY <1>1 DEF a
  <2> QED
    BY <1>1, <2>1, <2>2 DEF IsInjective, a
<1> QED
  BY <1>1, <1>2, <1>3 DEF a

LEMMA FoldKeeps ==
  ASSUME NEW K, NEW q \in Seq(Sessions)
  PROVE  \A s \in SUBSET DOMAIN q : FoldsTo(K, q, s)
<1> DEFINE Q == {n \in Nat : \A s \in UpTo(DOMAIN q, n) : FoldsTo(K, q, s)}
<1>0. Len(q) \in Nat /\ DOMAIN q = 1 .. Len(q) /\ \A i \in DOMAIN q : q[i] \in Sessions
  BY LenProperties, ElementOfSeq
<1>1. IsFiniteSet(DOMAIN q) /\ Cardinality(DOMAIN q) = Len(q)
  BY <1>0, FS_Interval
<1>2. \A s \in SUBSET DOMAIN q : Cardinality(s) \in Nat /\ Cardinality(s) <= Len(q)
  BY <1>1, FS_Subset, FS_CardinalityType
<1>3. 0 \in Q
  <2>1. \A s \in UpTo(DOMAIN q, 0) : s = {}
    BY <1>1, FS_Subset, FS_EmptySet, FS_CardinalityType DEF UpTo
  <2>2. Fold(K, q)[{}] = <<>>
    BY FoldExists, Zenon DEF FoldStep
  <2>3. <<>> \in Seq(Sessions) /\ ToSet(<<>>) = {} /\ IsInjective(<<>>) /\ LeftAt(K, q, {}) = {}
    BY DEF ToSet, IsInjective, LeftAt
  <2> QED
    BY <2>1, <2>2, <2>3 DEF FoldsTo
<1>4. ASSUME NEW n \in Nat, n \in Q
      PROVE  n + 1 \in Q
  <2> SUFFICES ASSUME NEW s \in UpTo(DOMAIN q, n + 1)
      PROVE  FoldsTo(K, q, s)
    OBVIOUS
  <2>1. s \in SUBSET DOMAIN q
    BY DEF UpTo
  <2>2. CASE s = {}
    <3>1. {} \in UpTo(DOMAIN q, n)
      BY <1>2, FS_EmptySet DEF UpTo
    <3> QED
      BY <1>4, <2>2, <3>1
  <2>3. CASE s # {}
    <3> DEFINE i == Max(s)
               rest == s \ {i}
               r == Fold(K, q)[rest]
    <3>1. rest \in UpTo(DOMAIN q, n) /\ i \in s /\ i \in DOMAIN q
      BY <2>1, <2>3, MaxSmaller
    <3>2. r \in Seq(Sessions) /\ ToSet(r) = LeftAt(K, q, rest) /\ (IsInjective(q) => IsInjective(r))
      BY <1>4, <3>1 DEF FoldsTo
    <3>3. Fold(K, q)[s] = IF q[i] \in K THEN r ELSE Append(r, q[i])
      <4>1. Fold(K, q)[s] = FoldStep(K, q, s, Fold(K, q))
        BY <2>1, FoldExists
      <4>2. FoldStep(K, q, s, Fold(K, q)) = IF q[i] \in K THEN r ELSE Append(r, q[i])
        BY <2>3, Zenon DEF FoldStep
      <4> QED
        BY <4>1, <4>2, Zenon
    <3> HIDE DEF r
    <3>4. s = rest \cup {i} /\ i \notin rest
      BY <3>1
    <3> HIDE DEF i, rest
    <3>5. CASE q[i] \in K
      <4>1. LeftAt(K, q, s) = LeftAt(K, q, rest)
        BY <3>4, <3>5 DEF LeftAt
      <4> QED
        BY <3>2, <3>3, <3>5, <4>1 DEF FoldsTo
    <3>6. CASE q[i] \notin K
      <4>1. LeftAt(K, q, s) = LeftAt(K, q, rest) \cup {q[i]}
        BY <3>4, <3>6 DEF LeftAt
      <4>2. IsInjective(q) => q[i] \notin LeftAt(K, q, rest)
        BY <2>1, <3>1, <3>4 DEF LeftAt, IsInjective
      <4>3. q[i] \in Sessions
        BY <1>0, <3>1
      <4> QED
        BY <3>2, <3>3, <3>6, <4>1, <4>2, <4>3, AppendNew DEF FoldsTo
    <3> QED
      BY <3>5, <3>6
  <2> QED
    BY <2>2, <2>3
<1>5. Nat \subseteq Q
  <2> HIDE DEF Q
  <2> QED
    BY <1>3, <1>4, NatSteps
<1>6. UpTo(DOMAIN q, Len(q)) = SUBSET DOMAIN q
  BY <1>2 DEF UpTo
<1> QED
  BY <1>0, <1>5, <1>6

\* Without(K): what is not in K, once, and in a sequence.
LEMMA WithoutIsLeft ==
  ASSUME NEW K, byAge \in Seq(Sessions), IsInjective(byAge)
  PROVE  /\ Without(K) \in Seq(Sessions)
         /\ ToSet(Without(K)) = ToSet(byAge) \ K
         /\ IsInjective(Without(K))
<1>1. FoldsTo(K, byAge, DOMAIN byAge)
  BY FoldKeeps
<1>2. LeftAt(K, byAge, DOMAIN byAge) = ToSet(byAge) \ K
  BY DEF LeftAt, ToSet
<1> QED
  BY <1>1, <1>2, WithoutIsFold DEF FoldsTo

\* Sessions that are listed once are as many as the list is long.
LEMMA ListedOnce ==
  ASSUME NEW q \in Seq(Sessions), IsInjective(q)
  PROVE  IsFiniteSet(ToSet(q)) /\ Cardinality(ToSet(q)) = Len(q) /\ Len(q) \in Nat
<1>1. Len(q) \in Nat /\ DOMAIN q = 1 .. Len(q) /\ q \in [DOMAIN q -> Sessions]
  BY LenProperties
<1>2. IsFiniteSet(DOMAIN q) /\ Cardinality(DOMAIN q) = Len(q)
  BY <1>1, FS_Interval
<1>3. q \in Surjection(DOMAIN q, ToSet(q)) /\ q \in Injection(DOMAIN q, ToSet(q))
  BY <1>1 DEF Surjection, Injection, IsInjective, ToSet
<1> QED
  BY <1>1, <1>2, <1>3, FS_Surjection

LEMMA NotLonger ==
  ASSUME NEW q \in Seq(Sessions), IsInjective(q), NEW r \in Seq(Sessions), IsInjective(r),
         ToSet(r) \subseteq ToSet(q)
  PROVE  Len(r) <= Len(q)
BY ListedOnce, FS_Subset

-----------------------------------------------------------------------------
(* The inductive invariant. *)

\* What a session may have, from whomever.
Known == [s \in Sessions |-> granted[s] \cup taken[s]]

\* What a bundle may hold: a session the wallet has approved, no chain the session may
\* not have, and an active chain among the chain sessions.
Justified(data, atWallet, known) ==
  /\ atWallet[data.session] # "none"
  /\ data.scope \subseteq known[data.session]
  /\ data.chains # {} => data.active \in data.chains

\* Every object that was ever filled, the record, and what a restoration has read.
DataInv ==
  /\ \A b \in Bundles : heap[b] # None => Justified(heap[b], wallet, Known)
  /\ stored # None => Justified(stored, wallet, Known)
  /\ \A c \in Calls : read[c] # None => Justified(read[c], wallet, Known)

\* A bundle in use is filled and filed under its own session.
FiledInv == \A s \in Sessions : bundles[s] # None => heap[bundles[s]] # None /\ heap[bundles[s]].session = s

\* The connector's session object is that of the session it follows.
HolderInv == holder # None => heap[holder] # None /\ heap[holder].session = lastSession

\* What a call needs at the await it is at.
CallsInv ==
  \A c \in Calls :
    /\ pc[c] \in {"switching", "fees", "disconnecting", "revoking"} => target[c] # None /\ heap[target[c]] # None
    /\ pc[c] \in {"prompt", "switching", "fees"} => chain[c] # None
    /\ pc[c] = "loading" => read[c] # None

\* A page restores once, and finds room.
RestoreInv ==
  \A c \in Calls : pc[c] = "loading" =>
    /\ Len(byAge) <= MaxSessions /\ reloads > 0
    /\ \A d \in Calls : pc[d] = "loading" => d = c

ManagerInv ==
  /\ TypeOK /\ DataInv /\ FiledInv /\ HolderInv /\ CallsInv /\ RestoreInv
  /\ SubscriptionsMatch /\ PersistedIsActive

-----------------------------------------------------------------------------
(* What the actions do to the calls, the order of the sessions and the record. *)

CallTypes ==
  /\ pc \in [Calls -> {"idle", "prompt", "switching", "fees", "disconnecting",
                       "revoking", "loading", "done"}]
  /\ target \in [Calls -> Bundles \cup {None}]
  /\ chain \in [Calls -> Chains \cup {None}]
  /\ read \in [Calls -> Bundle \cup {None}]

WalletTypes ==
  /\ wallet \in [Sessions -> {"none", "live", "ended"}]
  /\ granted \in [Sessions -> SUBSET Chains] /\ taken \in [Sessions -> SUBSET Chains]
  /\ lastSession \in Sessions \cup {None} /\ holder \in Bundles \cup {None}

PageTypes == registered \in BOOLEAN /\ unheard \subseteq Bundles /\ connecting \in BOOLEAN

\* A session is approved once; what it may have only grows.
WalletGrows ==
  /\ WalletTypes'
  /\ \A s \in Sessions : wallet[s] # "none" => wallet'[s] # "none" /\ Known[s] \subseteq Known'[s]
  /\ \A s \in Sessions : taken[s] \subseteq taken'[s]

Waits(c) ==
  pc'[c] = pc[c] /\ target'[c] = target[c] /\ chain'[c] = chain[c] /\ read'[c] = read[c]

Over(c) == pc'[c] = "done" /\ read'[c] = None

\* A call that begins, or waits for the next answer, has what it needs.
Awaits(c) ==
  /\ pc[c] # "fees" /\ pc'[c] \in {"prompt", "switching", "fees", "disconnecting", "revoking"}
  /\ pc'[c] # "prompt" => target'[c] # None /\ heap'[target'[c]] # None
  /\ pc'[c] \in {"prompt", "switching", "fees"} => chain'[c] # None
  /\ read'[c] = read[c]

CallsMove == CallTypes' /\ \A c \in Calls : Waits(c) \/ Over(c) \/ Awaits(c)

\* The sessions in use are listed once, and there are no more of them than before,
\* or no more than there is room for.
AgeStep ==
  /\ byAge' \in Seq(Sessions) /\ IsInjective(byAge')
  /\ ToSet(byAge') = {s \in Sessions : bundles'[s] # None}
  /\ Len(byAge') <= MaxSessions \/ Len(byAge') <= Len(byAge)

\* An object that was filled stays so, and whatever is filled is justified.
HeapStep ==
  /\ heap' \in [Bundles -> Bundle \cup {None}]
  /\ \A b \in Bundles : heap[b] # None => heap'[b] # None
  /\ \A b \in Bundles : heap'[b] # None /\ heap'[b] # heap[b] => Justified(heap'[b], wallet', Known')

LEMMA WalletSteps ==
  ASSUME TypeOK, NEW s \in Sessions, NEW scope \in SUBSET Chains, NEW b \in Bundles,
         \/ Approve(s, scope, b)
         \/ HandOver(s, scope, b)
         \/ UNCHANGED <<wallet, taken, follows>> /\ granted' = [granted EXCEPT ![s] = @ \cup scope]
         \/ UNCHANGED <<wallet, granted, follows>> /\ Takes(s, scope)
  PROVE  WalletGrows
<1>1. WalletTypes
  BY DEF TypeOK, ConnectorTypeOK, WalletTypes
<1>2. WalletTypes'
  BY <1>1 DEF WalletTypes, Approve, HandOver, Takes, follows
<1>3. /\ \A t \in Sessions : wallet[t] # "none" => wallet'[t] # "none" /\ granted[t] \subseteq granted'[t]
      /\ \A t \in Sessions : taken[t] \subseteq taken'[t]
  BY <1>1 DEF WalletTypes, Approve, HandOver, Takes
<1> QED
  BY <1>2, <1>3 DEF WalletGrows, Known

LEMMA WalletStays ==
  ASSUME TypeOK, UNCHANGED <<wallet, granted, taken>>, lastSession' \in Sessions \cup {None},
         holder' \in Bundles \cup {None}
  PROVE  WalletGrows
BY DEF TypeOK, ConnectorTypeOK, WalletTypes, WalletGrows, Known

LEMMA JustifiedStays ==
  ASSUME TypeOK, WalletGrows, NEW data \in Bundle, Justified(data, wallet, Known)
  PROVE  Justified(data, wallet', Known')
BY DEF Justified, WalletGrows, Bundle

LEMMA CallEnds ==
  ASSUME TypeOK, NEW c \in Calls, Ends(c)
  PROVE  CallsMove /\ pc'[c] = "done" /\ \A d \in Calls : d # c => Waits(d)
<1>1. CallTypes' /\ Over(c) /\ \A d \in Calls : d # c => Waits(d)
  BY DEF TypeOK, Ends, CallTypes, Over, Waits
<1> QED
  BY <1>1 DEF CallsMove, Over

LEMMA CallBegins ==
  ASSUME TypeOK, NEW c \in Calls, NEW step \in {"prompt", "switching", "disconnecting", "revoking"},
         NEW b \in Bundles \cup {None}, NEW ch \in Chains \cup {None}, Begins(c, step, b, ch),
         step # "prompt" => b # None /\ heap'[b] # None,
         step \in {"prompt", "switching"} => ch # None
  PROVE  CallsMove /\ pc[c] = "idle" /\ \A d \in Calls : d # c => Waits(d)
<1>1. /\ CallTypes' /\ pc[c] = "idle"
      /\ pc'[c] = step /\ target'[c] = b /\ chain'[c] = ch /\ read'[c] = read[c]
      /\ \A d \in Calls : d # c => Waits(d)
  BY DEF TypeOK, Begins, CallTypes, Waits
<1>2. Awaits(c)
  BY <1>1 DEF Awaits
<1> QED
  BY <1>1, <1>2 DEF CallsMove

LEMMA CallsWait ==
  ASSUME TypeOK, UNCHANGED callVars
  PROVE  CallsMove /\ \A d \in Calls : Waits(d)
BY DEF TypeOK, CallsMove, CallTypes, Waits, callVars

\* Filed objects are the ones of their sessions, so each is filed once.
LEMMA FiledOnce ==
  ASSUME ManagerInv, NEW s \in Sessions, bundles[s] # None
  PROVE  /\ bundles[s] \in Bundles /\ heap[bundles[s]] \in Bundle /\ heap[bundles[s]].session = s
         /\ \A t \in Sessions : bundles[t] = bundles[s] => t = s
         /\ Live(bundles[s])
BY DEF ManagerInv, TypeOK, FiledInv, Live

LEMMA ActiveIsFiled ==
  ASSUME ManagerInv, ActiveBundle # None
  PROVE  /\ activeBundleId \in Sessions /\ bundles[activeBundleId] = ActiveBundle
         /\ ActiveBundle \in Bundles /\ heap[ActiveBundle] \in Bundle
         /\ heap[ActiveBundle].session = activeBundleId
         /\ Live(ActiveBundle)
<1>1. activeBundleId \in Sessions /\ bundles[activeBundleId] = ActiveBundle
  BY DEF ActiveBundle, ManagerInv, TypeOK
<1> QED
  BY <1>1, FiledOnce

\* Objects keep their sessions, and the connector follows the same one.
LEMMA HolderKept ==
  ASSUME ManagerInv, UNCHANGED follows,
         \A b \in Bundles : heap[b] # None => heap'[b] # None /\ heap'[b].session = heap[b].session
  PROVE  HolderInv'
<1>1. holder # None => holder \in Bundles
  BY DEF ManagerInv, TypeOK, ConnectorTypeOK
<1> QED
  BY <1>1 DEF ManagerInv, HolderInv, follows

\* What holds of the calls and their data after a step that keeps what they need.
LEMMA CallsStay ==
  ASSUME ManagerInv, CallsMove, HeapStep, AgeStep, WalletGrows, reloads' = reloads,
         stored' # None => stored' \in Bundle /\ Justified(stored', wallet', Known')
  PROVE  CallsInv' /\ RestoreInv' /\ DataInv'
<1>1. \A c \in Calls : Waits(c) \/ Over(c) \/ Awaits(c)
  BY DEF CallsMove
<1>2. \A c \in Calls : target[c] # None => target[c] \in Bundles
  BY DEF ManagerInv, TypeOK
<1>3. CallsInv'
  BY <1>1, <1>2 DEF ManagerInv, CallsInv, HeapStep, Waits, Over, Awaits
<1>4. RestoreInv'
  <2>1. \A c \in Calls : pc'[c] = "loading" => pc[c] = "loading"
    BY <1>1 DEF Waits, Over, Awaits
  <2>2. Len(byAge) \in Nat /\ Len(byAge') \in Nat /\ MaxSessions \in Nat
    BY LenProperties, BoundsAssumption DEF AgeStep, ManagerInv, TypeOK
  <2>3. Len(byAge) <= MaxSessions => Len(byAge') <= MaxSessions
    BY <2>2 DEF AgeStep
  <2> QED
    BY <2>1, <2>3 DEF ManagerInv, RestoreInv
<1>5. \A c \in Calls : read'[c] # None => read'[c] = read[c]
  BY <1>1 DEF Waits, Over, Awaits
<1>6. \A b \in Bundles : heap'[b] # None => Justified(heap'[b], wallet', Known')
  <2> SUFFICES ASSUME NEW b \in Bundles, heap'[b] = heap[b], heap[b] # None
      PROVE  Justified(heap[b], wallet', Known')
    BY DEF HeapStep
  <2>1. heap[b] \in Bundle /\ Justified(heap[b], wallet, Known)
    BY DEF ManagerInv, TypeOK, DataInv
  <2> QED
    BY <2>1, JustifiedStays DEF ManagerInv
<1>7. \A c \in Calls : read'[c] # None => Justified(read'[c], wallet', Known')
  <2> SUFFICES ASSUME NEW c \in Calls, read'[c] = read[c], read[c] # None
      PROVE  Justified(read[c], wallet', Known')
    BY <1>5
  <2>1. read[c] \in Bundle /\ Justified(read[c], wallet, Known)
    BY DEF ManagerInv, TypeOK, DataInv
  <2> QED
    BY <2>1, JustifiedStays DEF ManagerInv
<1>8. DataInv'
  BY <1>6, <1>7 DEF DataInv
<1> QED
  BY <1>3, <1>4, <1>8

\* A record that was justified stays so.
LEMMA RecordStays ==
  ASSUME ManagerInv, WalletGrows, stored' = stored
  PROVE  stored' # None => stored' \in Bundle /\ Justified(stored', wallet', Known')
<1> SUFFICES ASSUME stored # None PROVE stored \in Bundle /\ Justified(stored, wallet', Known')
  OBVIOUS
<1>1. stored \in Bundle /\ Justified(stored, wallet, Known)
  BY DEF ManagerInv, TypeOK, DataInv
<1> QED
  BY <1>1, JustifiedStays DEF ManagerInv

LEMMA TypesStay ==
  ASSUME ManagerInv, CallsMove, HeapStep, AgeStep, WalletGrows, reloads' = reloads,
         subscribers' \subseteq Bundles, bundles' \in [Sessions -> Bundles \cup {None}],
         activeBundleId' \in Sessions \cup {None}, PageTypes', overtaken' \in BOOLEAN,
         stored' \in Bundle \cup {None}
  PROVE  TypeOK'
<1>1. Len(byAge') <= IF reloads' = 0 THEN MaxSessions ELSE MaxSessions + 1
  <2>1. Len(byAge) \in Nat /\ Len(byAge') \in Nat /\ MaxSessions \in Nat
    BY LenProperties, BoundsAssumption DEF AgeStep, ManagerInv, TypeOK
  <2> QED
    BY <2>1 DEF AgeStep, ManagerInv, TypeOK
<1> QED
  BY <1>1 DEF ManagerInv, TypeOK, ConnectorTypeOK, CallsMove, CallTypes, HeapStep, AgeStep,
              WalletGrows, WalletTypes, PageTypes

\* The record stays that of the active session while neither is touched and no call
\* that has to save it ends.
LEMMA PersistedStays ==
  ASSUME ManagerInv, WalletGrows, UNCHANGED <<stored, overtaken, activeBundleId>>,
         ActiveBundle' = ActiveBundle, ActiveBundle # None => heap'[ActiveBundle] = heap[ActiveBundle],
         \A c \in Calls : pc[c] = "fees" => pc'[c] = "fees" /\ target'[c] = target[c]
  PROVE  PersistedIsActive'
<1>1. CASE overtaken \/ (ActiveBundle = None /\ stored = None)
  BY <1>1 DEF PersistedIsActive
<1>2. CASE ActiveBundle # None /\ stored # None /\ ~overtaken
  <2>1. /\ stored.session = activeBundleId
        /\ (\A c \in Calls : ~(pc[c] = "fees" /\ target[c] = ActiveBundle))
             => Saved(heap[ActiveBundle])
    BY <1>2 DEF ManagerInv, PersistedIsActive, At
  <2>2. heap[ActiveBundle] \in Bundle /\ heap[ActiveBundle].session \in Sessions
    BY <1>2, ActiveIsFiled DEF Bundle
  <2>3. taken[heap[ActiveBundle].session] \subseteq taken'[heap[ActiveBundle].session]
    BY <2>2 DEF WalletGrows
  <2>4. Saved(heap[ActiveBundle]) => Saved(heap[ActiveBundle])'
    BY <1>2, <2>3 DEF Saved
  <2>5. (\A c \in Calls : ~(pc'[c] = "fees" /\ target'[c] = ActiveBundle'))
          => Saved(heap[ActiveBundle])'
    BY <1>2, <2>1, <2>4
  <2> QED
    BY <1>2, <2>1, <2>5 DEF PersistedIsActive, At
<1> QED
  BY <1>1, <1>2 DEF ManagerInv, PersistedIsActive

\* The record has just been written from the active bundle.
LEMMA PersistedNow ==
  ASSUME ActiveBundle' # None, stored' # None, stored' = heap'[ActiveBundle'], stored' \in Bundle,
         stored'.session = activeBundleId'
  PROVE  PersistedIsActive'
<1>1. stored' = [stored' EXCEPT !.scope = stored'.scope]
  BY DEF Bundle
<1>2. Saved(heap[ActiveBundle])'
  BY <1>1 DEF Saved
<1> QED
  BY <1>2 DEF PersistedIsActive

\* Nothing happens to the order of the sessions, or to any bundle.
LEMMA SameAge ==
  ASSUME ManagerInv, UNCHANGED <<bundles, byAge>>
  PROVE  AgeStep
BY LenProperties DEF ManagerInv, TypeOK, AgeStep

LEMMA SameHeap ==
  ASSUME ManagerInv, UNCHANGED heap
  PROVE  HeapStep
BY DEF ManagerInv, TypeOK, HeapStep

-----------------------------------------------------------------------------
(* One lemma for each group of actions. *)

LEMMA ManagerInit == Init => ManagerInv
<1> SUFFICES ASSUME Init PROVE ManagerInv
  OBVIOUS
<1>0. bundles = [s \in Sessions |-> None] /\ activeBundleId = None /\ stored = None
  BY DEF Init
<1>1. byAge = <<>> /\ <<>> \in Seq(Sessions) /\ Len(<<>>) = 0 /\ ToSet(<<>>) = {} /\ IsInjective(<<>>)
  BY DEF Init, ToSet, IsInjective
<1>2. ConnectorTypeOK
  BY DEF Init, ConnectorInit, ConnectorTypeOK
<1>3. TypeOK
  <2>1. {s \in Sessions : bundles[s] # None} = {}
    BY <1>0
  <2>2. reloads = 0 /\ Len(byAge) <= MaxSessions /\ reloads \in 0 .. MaxReloads
    BY <1>1, BoundsAssumption DEF Init
  <2>3. byAge \in Seq(Sessions) /\ IsInjective(byAge) /\ ToSet(byAge) = {}
    BY <1>1
  <2> QED
    BY <1>2, <2>1, <2>2, <2>3 DEF Init, TypeOK
<1>4. DataInv /\ FiledInv /\ HolderInv /\ CallsInv /\ RestoreInv
  BY DEF Init, ConnectorInit, DataInv, FiledInv, HolderInv, CallsInv, RestoreInv
<1>5. SubscriptionsMatch
  BY NoneAssumption DEF Init, ConnectorInit, SubscriptionsMatch, Live
<1>6. PersistedIsActive
  BY <1>0 DEF PersistedIsActive, ActiveBundle
<1> QED
  BY <1>3, <1>4, <1>5, <1>6 DEF ManagerInv

\* A step that leaves the bundles and their objects alone.
LEMMA QuietStep ==
  ASSUME ManagerInv, UNCHANGED <<wallet, granted, taken, subscribers, unheard, managerVars, reloads>>,
         CallsMove, UNCHANGED follows \/ (holder' = None /\ lastSession' \in Sessions),
         registered' \in BOOLEAN, connecting' \in BOOLEAN, overtaken' \in BOOLEAN,
         stored' \in Bundle \cup {None},
         stored' # None => Justified(stored', wallet', Known'), PersistedIsActive'
  PROVE  ManagerInv'
<1>0. PageTypes' /\ lastSession' \in Sessions \cup {None} /\ holder' \in Bundles \cup {None}
  BY DEF ManagerInv, TypeOK, ConnectorTypeOK, PageTypes, follows
<1>1. WalletGrows
  BY <1>0, WalletStays DEF ManagerInv
<1>2. HeapStep /\ AgeStep
  BY SameHeap, SameAge DEF managerVars
<1>3. TypeOK'
  BY <1>0, <1>1, <1>2, TypesStay DEF managerVars, ManagerInv, TypeOK, ConnectorTypeOK
<1>4. CallsInv' /\ RestoreInv' /\ DataInv'
  BY <1>1, <1>2, CallsStay, NoneAssumption
<1>5. FiledInv' /\ SubscriptionsMatch'
  BY DEF managerVars, ManagerInv, FiledInv, SubscriptionsMatch, Live
<1>6. HolderInv'
  <2>1. CASE UNCHANGED follows
    BY <2>1, HolderKept DEF managerVars
  <2>2. CASE holder' = None
    BY <2>2 DEF HolderInv
  <2> QED
    BY <2>1, <2>2
<1> QED
  BY <1>3, <1>4, <1>5, <1>6 DEF ManagerInv

\* What only begins or ends a call.
LEMMA BeginSteps ==
  ASSUME ManagerInv, NEW c \in Calls,
         \/ ConnectRefused(c) \/ SwitchFails(c) \/ Disconnect(c)
         \/ \E ch \in Chains : SwitchChain(c, ch)
         \/ \E s \in Sessions : RevokeSession(c, s)
  PROVE  ManagerInv'
<1>0. /\ UNCHANGED <<connectorVars, managerVars, registered, unheard, stored, overtaken, reloads>>
      /\ connecting' \in BOOLEAN
  BY DEF ConnectRefused, SwitchFails, Disconnect, SwitchChain, RevokeSession, pageVars, ManagerInv, TypeOK
<1>w. UNCHANGED <<wallet, granted, taken, follows, subscribers>> /\ WalletGrows
  <2>1. UNCHANGED <<wallet, granted, taken, follows, subscribers>>
    BY <1>0 DEF connectorVars, sessionVars
  <2> QED
    BY <2>1, WalletStays DEF ManagerInv, TypeOK, ConnectorTypeOK, follows
<1>1. CallsMove /\ \A d \in Calls : pc[d] = "fees" => Waits(d)
  <2>1. CASE ConnectRefused(c) \/ SwitchFails(c)
    BY <2>1, CallEnds DEF ConnectRefused, SwitchFails, At, ManagerInv
  <2>2. CASE Disconnect(c)
    <3>1. Begins(c, "disconnecting", ActiveBundle, None) /\ ActiveBundle \in Bundles
          /\ heap'[ActiveBundle] \in Bundle
      BY <1>0, <2>2, ActiveIsFiled DEF Disconnect, managerVars
    <3> QED
      BY <3>1, CallBegins, NoneAssumption DEF ManagerInv
  <2>3. CASE \E ch \in Chains : SwitchChain(c, ch)
    <3>1. PICK ch \in Chains : SwitchChain(c, ch)
      BY <2>3
    <3>2. Begins(c, "switching", ActiveBundle, ch) /\ ActiveBundle \in Bundles
          /\ heap'[ActiveBundle] \in Bundle
      BY <1>0, <3>1, ActiveIsFiled DEF SwitchChain, managerVars
    <3> QED
      BY <3>2, CallBegins, NoneAssumption DEF ManagerInv
  <2>4. CASE \E s \in Sessions : RevokeSession(c, s)
    <3>1. PICK s \in Sessions : RevokeSession(c, s)
      BY <2>4
    <3>2. Begins(c, "revoking", bundles[s], None) /\ bundles[s] \in Bundles
          /\ heap'[bundles[s]] \in Bundle
      BY <1>0, <3>1, FiledOnce DEF RevokeSession, managerVars
    <3> QED
      BY <3>2, CallBegins, NoneAssumption DEF ManagerInv
  <2> QED
    BY <2>1, <2>2, <2>3, <2>4
<1>2. PersistedIsActive'
  BY <1>0, <1>w, <1>1, PersistedStays DEF managerVars, ActiveBundle, Waits
<1>3. stored' \in Bundle \cup {None} /\ (stored' # None => Justified(stored', wallet', Known'))
  BY <1>0, <1>w, RecordStays DEF ManagerInv, TypeOK
<1> QED
  BY <1>0, <1>w, <1>1, <1>2, <1>3, QuietStep DEF ManagerInv, TypeOK

\* What only writes or clears the record, or has to do with the connector alone.
LEMMA RecordSteps ==
  ASSUME ManagerInv,
         \/ \E c \in Calls : FeesRefreshed(c) \/ RestoreExpired(c)
         \/ \E s \in Sessions : WalletExtends(s) \/ Reconnect(s)
         \/ RegisterConnector
  PROVE  ManagerInv'
<1>0. ASSUME UNCHANGED <<connectorVars, managerVars, pageVars, reloads>>, CallsMove, overtaken' \in BOOLEAN,
             stored' \in Bundle \cup {None}, stored' # None => Justified(stored', wallet, Known),
             PersistedIsActive'
      PROVE  ManagerInv'
  <2>1. UNCHANGED <<wallet, granted, taken, follows, subscribers, unheard, managerVars, reloads>>
    BY <1>0 DEF connectorVars, sessionVars, pageVars
  <2>2. registered' \in BOOLEAN /\ connecting' \in BOOLEAN
    BY <1>0 DEF pageVars, ManagerInv, TypeOK
  <2>3. stored' # None => Justified(stored', wallet', Known')
    BY <1>0, <2>1 DEF Known
  <2> QED
    BY <1>0, <2>1, <2>2, <2>3, QuietStep
<1>1. CASE \E c \in Calls : FeesRefreshed(c)
  <2>1. PICK c \in Calls : FeesRefreshed(c)
    BY <1>1
  <2> DEFINE b == target[c]
  <2>2. /\ UNCHANGED <<connectorVars, managerVars, pageVars, reloads>>
        /\ stored' = heap[b] /\ overtaken' = (b # ActiveBundle) /\ CallsMove
    BY <2>1, CallEnds DEF FeesRefreshed, KeepsLate, ManagerInv
  <2>3. b \in Bundles /\ heap[b] \in Bundle /\ Justified(heap[b], wallet, Known)
    BY <2>1 DEF FeesRefreshed, At, ManagerInv, TypeOK, CallsInv, DataInv
  <2>4. PersistedIsActive'
    <3>1. CASE b # ActiveBundle
      BY <2>2, <3>1 DEF PersistedIsActive
    <3>2. CASE b = ActiveBundle
      <4>1. heap[b].session = activeBundleId /\ b # None
        BY <2>3, <3>2, ActiveIsFiled, NoneAssumption
      <4> QED
        BY <2>2, <2>3, <3>2, <4>1, PersistedNow, NoneAssumption DEF managerVars, ActiveBundle
    <3> QED
      BY <3>1, <3>2
  <2> QED
    BY <1>0, <2>2, <2>3, <2>4
<1>2. CASE \E c \in Calls : RestoreExpired(c)
  <2>1. PICK c \in Calls : RestoreExpired(c)
    BY <1>2
  <2>2. /\ UNCHANGED <<connectorVars, managerVars, pageVars, reloads>>
        /\ stored' = None /\ overtaken' = (ActiveBundle # None) /\ CallsMove
    BY <2>1, CallEnds DEF RestoreExpired, ManagerInv
  <2>3. PersistedIsActive'
    BY <2>2 DEF PersistedIsActive, ActiveBundle, managerVars
  <2> QED
    BY <1>0, <2>2, <2>3
<1>3. CASE \E s \in Sessions : WalletExtends(s)
  <2>1. PICK s \in Sessions : WalletExtends(s)
    BY <1>3
  <2>2. /\ UNCHANGED <<connectorVars, managerVars, pageVars, reloads>> /\ CallsMove
        /\ stored' = heap[ActiveBundle] /\ overtaken' = FALSE /\ Live(ActiveBundle) /\ ActiveBundle \in subscribers
    BY <2>1, CallsWait DEF WalletExtends, Keeps, ManagerInv, Handlers, Told
  <2>3. ActiveBundle \in Bundles /\ heap[ActiveBundle] \in Bundle /\ ActiveBundle # None
        /\ heap[ActiveBundle].session = activeBundleId /\ Justified(heap[ActiveBundle], wallet, Known)
    <3>1. ActiveBundle # None
      BY <2>2, NoneAssumption DEF ManagerInv, TypeOK, ConnectorTypeOK
    <3> QED
      BY <3>1, ActiveIsFiled, NoneAssumption DEF ManagerInv, DataInv
  <2>4. PersistedIsActive'
    BY <2>2, <2>3, PersistedNow, NoneAssumption DEF managerVars, ActiveBundle
  <2> QED
    BY <1>0, <2>2, <2>3, <2>4
<1>4. CASE (\E s \in Sessions : Reconnect(s)) \/ RegisterConnector
  <2>1. /\ UNCHANGED <<wallet, granted, taken, subscribers, unheard, managerVars, callVars, stored,
                       overtaken, reloads>>
        /\ UNCHANGED follows \/ (holder' = None /\ lastSession' \in Sessions)
        /\ registered' \in BOOLEAN /\ connecting' \in BOOLEAN
    BY <1>4 DEF Reconnect, Resume, RegisterConnector, connectorVars, sessionVars, pageVars, ManagerInv, TypeOK
  <2>2. CallsMove /\ \A d \in Calls : Waits(d)
    BY <2>1, CallsWait DEF ManagerInv
  <2>3. WalletGrows
    BY <2>1, WalletStays DEF ManagerInv, TypeOK, ConnectorTypeOK, follows
  <2>4. PersistedIsActive'
    BY <2>1, <2>2, <2>3, PersistedStays DEF managerVars, ActiveBundle, Waits
  <2>5. overtaken' \in BOOLEAN /\ stored' \in Bundle \cup {None}
        /\ (stored' # None => Justified(stored', wallet', Known'))
    BY <2>1, <2>3, RecordStays DEF ManagerInv, TypeOK
  <2> QED
    BY <2>1, <2>2, <2>4, <2>5, QuietStep
<1> QED
  BY <1>1, <1>2, <1>3, <1>4

\* The oldest of a full house.
LEMMA OldestIsFiled ==
  ASSUME ManagerInv, Len(byAge) >= MaxSessions
  PROVE  /\ Head(byAge) \in Sessions /\ bundles[Head(byAge)] # None /\ byAge # <<>>
         /\ Head(byAge) \in ToSet(byAge)
<1>1. /\ byAge \in Seq(Sessions) /\ ToSet(byAge) = {s \in Sessions : bundles[s] # None}
      /\ Len(byAge) \in Nat /\ DOMAIN byAge = 1 .. Len(byAge) /\ Len(byAge) >= 1
  BY LenProperties, BoundsAssumption DEF ManagerInv, TypeOK
<1>2. byAge # <<>> /\ Head(byAge) = byAge[1]
  BY <1>1, HeadTailProperties
<1>3. byAge[1] \in ToSet(byAge)
  BY <1>1 DEF ToSet
<1> QED
  BY <1>1, <1>2, <1>3

\* What is left when the oldest is gone.
LEMMA TailIsLeft ==
  ASSUME NEW q \in Seq(Sessions), IsInjective(q), q # <<>>
  PROVE  /\ Tail(q) \in Seq(Sessions) /\ IsInjective(Tail(q))
         /\ ToSet(Tail(q)) = ToSet(q) \ {Head(q)}
         /\ Len(Tail(q)) = Len(q) - 1
<1>1. /\ Len(q) \in Nat /\ DOMAIN q = 1 .. Len(q) /\ Head(q) = q[1] /\ Len(q) # 0
      /\ Tail(q) \in Seq(Sessions) /\ Len(Tail(q)) = Len(q) - 1
      /\ \A i \in 1 .. Len(Tail(q)) : Tail(q)[i] = q[i + 1]
  BY LenProperties, HeadTailProperties, EmptySeq
<1> DEFINE r == Tail(q)
<1>2. Len(r) \in Nat /\ DOMAIN r = 1 .. Len(r)
  BY <1>1, LenProperties
<1> HIDE DEF r
<1>3. \A i \in 1 .. Len(r) : i \in Nat /\ i + 1 \in 1 .. Len(q) /\ i + 1 # 1
  BY <1>1, <1>2 DEF r
<1>4. \A i \in 1 .. Len(q) : i # 1 => i - 1 \in 1 .. Len(r) /\ (i - 1) + 1 = i
  BY <1>1, <1>2 DEF r
<1>5. IsInjective(r)
  <2> SUFFICES ASSUME NEW i \in 1 .. Len(r), NEW j \in 1 .. Len(r), r[i] = r[j]
      PROVE  i = j
    BY <1>2 DEF IsInjective
  <2>1. i + 1 = j + 1
    BY <1>1, <1>3 DEF IsInjective, r
  <2> QED
    BY <2>1
<1>6. ToSet(r) = ToSet(q) \ {q[1]}
  <2>1. ASSUME NEW x \in ToSet(r) PROVE x \in ToSet(q) /\ x # q[1]
    <3>1. PICK j \in 1 .. Len(r) : x = r[j]
      BY <1>2, <2>1 DEF ToSet
    <3>2. x = q[j + 1] /\ j + 1 \in DOMAIN q /\ 1 \in DOMAIN q /\ j + 1 # 1
      BY <1>1, <1>3, <3>1 DEF r
    <3> QED
      BY <3>2 DEF ToSet, IsInjective
  <2>2. ASSUME NEW x \in ToSet(q), x # q[1] PROVE x \in ToSet(r)
    <3>1. PICK j \in 1 .. Len(q) : x = q[j]
      BY <1>1, <2>2 DEF ToSet
    <3>2. j - 1 \in DOMAIN r /\ r[j - 1] = x
      BY <1>1, <1>2, <1>4, <2>2, <3>1 DEF r
    <3> QED
      BY <3>2 DEF ToSet
  <2> QED
    BY <2>1, <2>2
<1> QED
  BY <1>1, <1>5, <1>6 DEF r

\* connect() makes room before it asks: with the active session it forgets the
\* record's claim to it.
LEMMA ConnectSteps ==
  ASSUME ManagerInv, NEW c \in Calls, NEW ch \in Chains, Connect(c, ch)
  PROVE  ManagerInv'
<1> DEFINE oldest == Head(byAge)
<1>0. /\ UNCHANGED <<wallet, granted, taken, follows, heap, activeBundleId, registered, unheard,
                     stored, reloads>>
      /\ connecting' \in BOOLEAN
  BY DEF Connect, sessionVars, ManagerInv, TypeOK
<1>1. CallsMove /\ \A d \in Calls : pc[d] = "fees" => Waits(d)
  <2>1. CASE connecting \/ ~registered
    BY <2>1, CallEnds DEF Connect, ManagerInv
  <2>2. CASE ~(connecting \/ ~registered)
    BY <2>2, CallBegins, NoneAssumption DEF Connect, ManagerInv
  <2> QED
    BY <2>1, <2>2
<1>2. WalletGrows /\ HeapStep
  BY <1>0, WalletStays, SameHeap DEF ManagerInv, TypeOK, ConnectorTypeOK, follows
<1>3. Cardinality(ToSet(byAge)) = Len(byAge) /\ Len(byAge) \in Nat
  BY ListedOnce DEF ManagerInv, TypeOK
<1>4. CASE UNCHANGED <<bundles, subscribers, byAge, overtaken>>
  <2>1. PersistedIsActive'
    BY <1>0, <1>1, <1>2, <1>4, PersistedStays DEF ActiveBundle, Waits
  <2>2. stored' \in Bundle \cup {None} /\ (stored' # None => Justified(stored', wallet', Known'))
        /\ registered' \in BOOLEAN /\ overtaken' \in BOOLEAN
    BY <1>0, <1>2, <1>4, RecordStays DEF ManagerInv, TypeOK
  <2>3. UNCHANGED <<wallet, granted, taken, subscribers, unheard, managerVars, reloads>>
    BY <1>0, <1>4 DEF managerVars
  <2> QED
    BY <1>0, <1>1, <2>1, <2>2, <2>3, QuietStep
<1>5. CASE /\ Len(byAge) >= MaxSessions
           /\ bundles' = [bundles EXCEPT ![oldest] = None]
           /\ subscribers' = subscribers \ {bundles[oldest]}
           /\ byAge' = Tail(byAge)
           /\ overtaken' = (overtaken \/ oldest = activeBundleId)
  <2>1. oldest \in Sessions /\ bundles[oldest] # None /\ byAge # <<>>
    BY <1>5, OldestIsFiled
  <2>2. AgeStep
    <3>1. /\ byAge' \in Seq(Sessions) /\ IsInjective(byAge')
          /\ ToSet(byAge') = ToSet(byAge) \ {oldest} /\ Len(byAge') = Len(byAge) - 1
      BY <1>5, <2>1, TailIsLeft DEF ManagerInv, TypeOK
    <3>2. ToSet(byAge) \ {oldest} = {s \in Sessions : bundles'[s] # None}
      BY <1>5, <2>1 DEF ManagerInv, TypeOK
    <3> QED
      BY <1>3, <3>1, <3>2 DEF AgeStep
  <2> HIDE DEF oldest
  <2>3. /\ bundles' \in [Sessions -> Bundles \cup {None}]
        /\ \A s \in Sessions : bundles'[s] = IF s = oldest THEN None ELSE bundles[s]
    BY <1>5, <2>1 DEF ManagerInv, TypeOK
  <2>4. TypeOK'
    <3>1. subscribers' \subseteq Bundles /\ overtaken' \in BOOLEAN /\ PageTypes'
      BY <1>0, <1>5 DEF ManagerInv, TypeOK, ConnectorTypeOK, PageTypes
    <3> QED
      BY <1>0, <1>1, <1>2, <2>2, <2>3, <3>1, TypesStay DEF ManagerInv, TypeOK
  <2>5. CallsInv' /\ RestoreInv' /\ DataInv'
    BY <1>0, <1>1, <1>2, <2>2, CallsStay, RecordStays
  <2>6. FiledInv'
    BY <1>0, <2>3 DEF ManagerInv, FiledInv
  <2>7. SubscriptionsMatch'
    <3>1. \A b \in Bundles : (\E s \in Sessions : bundles'[s] = b) <=> Live(b) /\ b # bundles[oldest]
      BY <2>1, <2>3, FiledOnce, NoneAssumption DEF Live
    <3> QED
      BY <1>0, <1>5, <3>1 DEF ManagerInv, SubscriptionsMatch, Live
  <2>8. PersistedIsActive'
    <3>1. CASE oldest = activeBundleId
      BY <1>5, <3>1 DEF PersistedIsActive
    <3>2. CASE oldest # activeBundleId
      <4>1. ActiveBundle' = ActiveBundle /\ overtaken' = overtaken
        BY <1>0, <1>5, <2>3, <3>2 DEF ActiveBundle, ManagerInv, TypeOK
      <4> QED
        BY <1>0, <1>1, <1>2, <4>1, PersistedStays DEF Waits
    <3> QED
      BY <3>1, <3>2
  <2>9. HolderInv'
    BY <1>0, HolderKept
  <2> QED
    BY <2>4, <2>5, <2>6, <2>7, <2>8, <2>9 DEF ManagerInv
<1> QED
  BY <1>3, <1>4, <1>5 DEF Connect

\* A new bundle for a session, in place of its last one or of the oldest.
LEMMA AttachKeeps ==
  ASSUME ManagerInv, NEW s \in Sessions, NEW b \in Bundles, NEW data \in Bundle, data.session = s,
         Attach(s, b, data), Justified(data, wallet', Known'), WalletGrows, CallsMove,
         lastSession' = s, holder' = b, reloads' = reloads, registered' \in BOOLEAN,
         connecting' \in BOOLEAN
  PROVE  ManagerInv'
<1> DEFINE full == bundles[s] = None /\ Len(byAge) >= MaxSessions
           dropped == IF full THEN {Head(byAge)} ELSE {}
<1>0. /\ Fresh(b)
      /\ heap' = [heap EXCEPT ![b] = data]
      /\ bundles' = [t \in Sessions |->
           IF t = s THEN b ELSE IF t \in dropped THEN None ELSE bundles[t]]
      /\ subscribers' = (subscribers \ {bundles[t] : t \in dropped \cup {s}}) \cup {b}
      /\ unheard' = unheard \ {b}
      /\ byAge' = Append(Without(dropped \cup {s}), s)
      /\ activeBundleId' = s
      /\ stored' = data /\ overtaken' = FALSE
  BY DEF Attach, Keeps
<1>1. dropped \subseteq Sessions /\ s \notin dropped /\ (full => Head(byAge) \in ToSet(byAge))
  BY OldestIsFiled
<1>2. AgeStep
  <2> DEFINE left == Without(dropped \cup {s})
  <2>1. /\ left \in Seq(Sessions) /\ IsInjective(left)
        /\ ToSet(left) = ToSet(byAge) \ (dropped \cup {s})
    BY WithoutIsLeft DEF ManagerInv, TypeOK
  <2> HIDE DEF left
  <2>2. /\ byAge' \in Seq(Sessions) /\ IsInjective(byAge') /\ Len(byAge') = Len(left) + 1
        /\ ToSet(byAge') = ToSet(left) \cup {s}
    BY <1>0, <2>1, AppendNew DEF left
  <2>3. /\ IsFiniteSet(ToSet(byAge)) /\ Cardinality(ToSet(byAge)) = Len(byAge) /\ Len(byAge) \in Nat
        /\ IsFiniteSet(ToSet(left)) /\ Cardinality(ToSet(left)) = Len(left) /\ Len(left) \in Nat
        /\ MaxSessions \in Nat
    BY <2>1, ListedOnce, BoundsAssumption DEF ManagerInv, TypeOK
  <2>4. Len(left) <= Len(byAge)
    BY <2>1, NotLonger DEF ManagerInv, TypeOK
  <2>5. ToSet(byAge) = {t \in Sessions : bundles[t] # None}
    BY DEF ManagerInv, TypeOK
  <2>6. Len(byAge') <= MaxSessions \/ Len(byAge') <= Len(byAge)
    <3>1. CASE bundles[s] # None
      <4>1. ToSet(left) \subseteq ToSet(byAge) \ {s} /\ s \in ToSet(byAge)
        BY <2>1, <2>5, <3>1
      <4>2. /\ IsFiniteSet(ToSet(byAge) \ {s})
            /\ Cardinality(ToSet(byAge) \ {s}) = Cardinality(ToSet(byAge)) - 1
        BY <2>3, <4>1, FS_RemoveElement
      <4>3. Cardinality(ToSet(left)) <= Cardinality(ToSet(byAge) \ {s})
        BY <4>1, <4>2, FS_Subset
      <4> QED
        BY <2>2, <2>3, <4>2, <4>3
    <3>2. CASE full
      <4>1. ToSet(left) \subseteq ToSet(byAge) \ {Head(byAge)} /\ Head(byAge) \in ToSet(byAge)
        BY <1>1, <2>1, <3>2
      <4>2. /\ IsFiniteSet(ToSet(byAge) \ {Head(byAge)})
            /\ Cardinality(ToSet(byAge) \ {Head(byAge)}) = Cardinality(ToSet(byAge)) - 1
        BY <2>3, <4>1, FS_RemoveElement
      <4>3. Cardinality(ToSet(left)) <= Cardinality(ToSet(byAge) \ {Head(byAge)})
        BY <4>1, <4>2, FS_Subset
      <4> QED
        BY <2>2, <2>3, <4>2, <4>3
    <3>3. CASE Len(byAge) < MaxSessions
      BY <2>2, <2>3, <2>4, <3>3
    <3> QED
      BY <2>3, <3>1, <3>2, <3>3
  <2>7. {t \in Sessions : bundles'[t] # None} = (ToSet(byAge) \ (dropped \cup {s})) \cup {s}
    <3> HIDE DEF dropped
    <3>1. \A t \in Sessions : bundles'[t] # None <=> t = s \/ (t \notin dropped /\ bundles[t] # None)
      BY <1>0, NoneAssumption
    <3> QED
      BY <2>5, <3>1
  <2> QED
    BY <2>1, <2>2, <2>6, <2>7 DEF AgeStep
<1> HIDE DEF full, dropped
<1>3. b # None /\ data # None /\ \A t \in Sessions : bundles[t] # b
  BY <1>0, NoneAssumption DEF Fresh, Live
<1>4. heap' \in [Bundles -> Bundle \cup {None}] /\ heap'[b] = data
      /\ \A x \in Bundles : x # b => heap'[x] = heap[x]
  BY <1>0 DEF ManagerInv, TypeOK
<1>5. HeapStep
  BY <1>3, <1>4 DEF HeapStep
<1>6. \A t \in Sessions : bundles'[t] = IF t = s THEN b ELSE IF t \in dropped THEN None ELSE bundles[t]
  BY <1>0
<1>7. TypeOK'
  <2>1. bundles' \in [Sessions -> Bundles \cup {None}] /\ subscribers' \subseteq Bundles /\ PageTypes'
    BY <1>0 DEF ManagerInv, TypeOK, ConnectorTypeOK, PageTypes
  <2> QED
    BY <1>0, <1>2, <1>5, <2>1, TypesStay
<1>8. CallsInv' /\ RestoreInv' /\ DataInv'
  BY <1>0, <1>2, <1>5, CallsStay
<1>9. FiledInv'
  <2>1. \A t \in Sessions : bundles[t] # None =>
          heap'[bundles[t]] = heap[bundles[t]] /\ heap[bundles[t]] # None /\ heap[bundles[t]].session = t
    BY <1>3, <1>4 DEF ManagerInv, FiledInv, TypeOK
  <2>2. ASSUME NEW t \in Sessions, bundles'[t] # None
        PROVE  heap'[bundles'[t]] # None /\ heap'[bundles'[t]].session = t
    BY <1>3, <1>4, <1>6, <2>1, <2>2
  <2> QED
    BY <2>2 DEF FiledInv
<1>10. SubscriptionsMatch'
  <2>1. \A x \in Bundles : (\E t \in Sessions : bundles'[t] = x)
          <=> x = b \/ (Live(x) /\ x \notin {bundles[t] : t \in dropped \cup {s}})
    <3>1. ASSUME NEW x \in Bundles, NEW t \in Sessions, bundles'[t] = x, x # b
          PROVE  Live(x) /\ x \notin {bundles[u] : u \in dropped \cup {s}}
      <4>1. t # s /\ t \notin dropped /\ bundles[t] = x /\ x # None
        BY <1>6, <3>1, NoneAssumption
      <4>2. \A u \in Sessions : bundles[u] = x => u = t
        BY <4>1, FiledOnce
      <4> QED
        BY <1>1, <4>1, <4>2 DEF Live
    <3>2. ASSUME NEW x \in Bundles, Live(x), x \notin {bundles[u] : u \in dropped \cup {s}}
          PROVE  \E t \in Sessions : bundles'[t] = x
      BY <1>6, <3>2 DEF Live
    <3> QED
      BY <1>6, <3>1, <3>2
  <2> QED
    BY <1>0, <2>1 DEF ManagerInv, SubscriptionsMatch, Live
<1>11. PersistedIsActive'
  <2>1. ActiveBundle' = b /\ activeBundleId' = s
    BY <1>0, <1>6, NoneAssumption DEF ActiveBundle
  <2> QED
    BY <1>0, <1>3, <1>4, <2>1, PersistedNow
<1>12. HolderInv'
  BY <1>3, <1>4 DEF HolderInv
<1> QED
  BY <1>7, <1>8, <1>9, <1>10, <1>11, <1>12 DEF ManagerInv

LEMMA BuiltIsJustified ==
  ASSUME WalletTypes', NEW s \in Sessions, NEW scope \in SUBSET Chains, NEW ch \in Chains,
         wallet'[s] # "none", scope \subseteq Known'[s]
  PROVE  /\ Built(s, scope, ch) \in Bundle /\ Built(s, scope, ch).session = s
         /\ Justified(Built(s, scope, ch), wallet', Known')
BY DEF Built, Bundle, Justified

\* A session is attached with the scope the wallet approved.
LEMMA AttachSteps ==
  ASSUME ManagerInv,
         \/ \E c \in Calls : Connected(c)
         \/ \E ch \in Chains : AttachPaired(ch)
         \/ \E s \in Sessions, ch \in Chains : AttachAgain(s, ch)
  PROVE  ManagerInv'
<1>1. ASSUME NEW s \in Sessions, NEW scope \in SUBSET Chains, NEW b \in Bundles, NEW ch \in Chains,
             Approve(s, scope, b), Attach(s, b, Built(s, scope, ch)), CallsMove, reloads' = reloads,
             registered' \in BOOLEAN, connecting' \in BOOLEAN
      PROVE  ManagerInv'
  <2>1. WalletGrows
    BY <1>1, WalletSteps DEF ManagerInv
  <2>2. wallet'[s] # "none" /\ scope \subseteq Known'[s] /\ lastSession' = s /\ holder' = b
    BY <1>1 DEF Approve, Known, ManagerInv, TypeOK, ConnectorTypeOK
  <2> QED
    BY <1>1, <2>1, <2>2, BuiltIsJustified, AttachKeeps DEF WalletGrows
<1>2. CASE \E c \in Calls : Connected(c)
  <2>1. PICK c \in Calls : Connected(c)
    BY <1>2
  <2>2. chain[c] \in Chains /\ CallsMove /\ reloads' = reloads
        /\ registered' \in BOOLEAN /\ connecting' \in BOOLEAN
    BY <2>1, CallEnds DEF Connected, At, ManagerInv, TypeOK, CallsInv
  <2>3. PICK s \in Sessions, scope \in SUBSET Chains, b \in Bundles :
           Approve(s, scope, b) /\ Attach(s, b, Built(s, scope, chain[c]))
    BY <2>1 DEF Connected
  <2> QED
    BY <1>1, <2>2, <2>3
<1>3. CASE \E ch \in Chains : AttachPaired(ch)
  <2>1. PICK ch \in Chains : AttachPaired(ch)
    BY <1>3
  <2>2. CallsMove /\ reloads' = reloads /\ registered' \in BOOLEAN /\ connecting' \in BOOLEAN
    BY <2>1, CallsWait DEF AttachPaired, ManagerInv, TypeOK
  <2>3. PICK s \in Sessions, scope \in SUBSET Chains, b \in Bundles :
           Approve(s, scope, b) /\ Attach(s, b, Built(s, scope, ch))
    BY <2>1 DEF AttachPaired
  <2> QED
    BY <1>1, <2>2, <2>3
<1>4. CASE \E s \in Sessions, ch \in Chains : AttachAgain(s, ch)
  <2>1. PICK s \in Sessions, ch \in Chains : AttachAgain(s, ch)
    BY <1>4
  <2>2. CallsMove /\ reloads' = reloads /\ registered' \in BOOLEAN /\ connecting' \in BOOLEAN
    BY <2>1, CallsWait DEF AttachAgain, ManagerInv, TypeOK
  <2>3. PICK scope \in SUBSET Chains, b \in Bundles :
           HandOver(s, scope, b) /\ Attach(s, b, Built(s, scope, ch))
    BY <2>1 DEF AttachAgain
  <2>4. WalletGrows
    BY <2>3, WalletSteps DEF ManagerInv
  <2>5. wallet'[s] # "none" /\ scope \subseteq Known'[s] /\ lastSession' = s /\ holder' = b
    BY <2>3 DEF HandOver, Takes, Known, ManagerInv, TypeOK, ConnectorTypeOK
  <2> QED
    BY <2>2, <2>3, <2>4, <2>5, BuiltIsJustified, AttachKeeps DEF WalletGrows
<1> QED
  BY <1>2, <1>3, <1>4

\* An object changes what it holds, and keeps its session.
LEMMA DataSteps ==
  ASSUME ManagerInv, WalletGrows, HeapStep, CallsMove, AgeStep,
         UNCHANGED <<bundles, activeBundleId, subscribers, follows, pageVars, reloads>>,
         \A b \in Bundles : heap[b] # None => heap'[b].session = heap[b].session,
         overtaken' \in BOOLEAN, stored' \in Bundle \cup {None},
         stored' # None => Justified(stored', wallet', Known'),
         PersistedIsActive'
  PROVE  ManagerInv'
<1>0. PageTypes'
  BY DEF pageVars, PageTypes, ManagerInv, TypeOK
<1>1. TypeOK'
  BY <1>0, TypesStay DEF ManagerInv, TypeOK, ConnectorTypeOK
<1>2. CallsInv' /\ RestoreInv' /\ DataInv'
  BY CallsStay, NoneAssumption
<1>3. FiledInv'
  BY DEF ManagerInv, TypeOK, FiledInv, HeapStep
<1>4. SubscriptionsMatch'
  BY DEF ManagerInv, SubscriptionsMatch, Live, pageVars
<1>5. HolderInv'
  BY HolderKept DEF HeapStep
<1> QED
  BY <1>1, <1>2, <1>3, <1>4, <1>5 DEF ManagerInv

LEMMA SwitchedIsJustified ==
  ASSUME TypeOK, WalletGrows, NEW b \in Bundles, heap[b] # None, Justified(heap[b], wallet, Known),
         NEW ch \in Chains, ch \in Known'[heap[b].session] \/ ch \in heap[b].scope
  PROVE  /\ Switched(b, ch) \in Bundle /\ Switched(b, ch).session = heap[b].session
         /\ Switched(b, ch).active = ch /\ ch \in Switched(b, ch).chains
         /\ Justified(Switched(b, ch), wallet', Known')
<1> DEFINE data == heap[b]
<1>1. data \in Bundle
  BY DEF TypeOK
<1>2. /\ Switched(b, ch).session = data.session /\ Switched(b, ch).active = ch
      /\ Switched(b, ch).chains = data.chains \cup {ch}
      /\ Switched(b, ch).scope = data.scope \cup {ch}
      /\ Switched(b, ch) \in Bundle
  BY <1>1 DEF Switched, Bundle
<1>3. data.session \in Sessions
  BY <1>1 DEF Bundle
<1> HIDE DEF data
<1> QED
  BY <1>2, <1>3 DEF Justified, WalletGrows, data

LEMMA TouchedKeeps ==
  ASSUME ManagerInv, NEW s \in Sessions, bundles[s] # None, byAge' = Touched(s), UNCHANGED bundles
  PROVE  AgeStep
<1>1. /\ byAge \in Seq(Sessions) /\ IsInjective(byAge)
      /\ ToSet(byAge) = {t \in Sessions : bundles[t] # None}
  BY DEF ManagerInv, TypeOK
<1> DEFINE left == Without({s})
<1>2. left \in Seq(Sessions) /\ IsInjective(left) /\ ToSet(left) = ToSet(byAge) \ {s}
  BY <1>1, WithoutIsLeft
<1>3. byAge' = Append(left, s)
  BY DEF Touched
<1> HIDE DEF left
<1>4. /\ byAge' \in Seq(Sessions) /\ IsInjective(byAge') /\ ToSet(byAge') = ToSet(byAge)
  BY <1>1, <1>2, <1>3, AppendNew
<1>5. Len(byAge') <= Len(byAge)
  BY <1>1, <1>4, NotLonger
<1> QED
  BY <1>1, <1>4, <1>5 DEF AgeStep

\* A switch of chain: the chain is the wallet's as soon as it is the bundle's.
LEMMA SwitchSteps ==
  ASSUME ManagerInv,
         \/ \E c \in Calls : SwitchAnswered(c)
         \/ \E ch \in Chains : SyncExternalChain(ch)
  PROVE  ManagerInv'
<1>0. ASSUME NEW b \in Bundles, heap[b] # None, NEW ch \in Chains, WalletGrows,
             ch \in Known'[heap[b].session] \/ ch \in heap[b].scope,
             heap' = [heap EXCEPT ![b] = Switched(b, ch)]
      PROVE  /\ HeapStep
             /\ heap'[b] \in Bundle /\ Justified(heap'[b], wallet', Known')
             /\ heap'[b].session = heap[b].session /\ ch \in heap'[b].chains
             /\ \A x \in Bundles : x # b => heap'[x] = heap[x]
  <2>1. heap[b] \in Bundle /\ heap[b].session \in Sessions /\ Justified(heap[b], wallet, Known)
    BY <1>0 DEF ManagerInv, TypeOK, DataInv, Bundle
  <2> DEFINE data == Switched(b, ch)
  <2>5. /\ data \in Bundle /\ data.session = heap[b].session /\ ch \in data.chains
        /\ Justified(data, wallet', Known')
    BY <1>0, <2>1, SwitchedIsJustified DEF ManagerInv
  <2>6. heap' = [heap EXCEPT ![b] = data] /\ heap \in [Bundles -> Bundle \cup {None}]
    BY <1>0 DEF ManagerInv, TypeOK
  <2> HIDE DEF data
  <2>7. /\ heap' \in [Bundles -> Bundle \cup {None}] /\ heap'[b] = data
        /\ \A x \in Bundles : x # b => heap'[x] = heap[x]
    BY <2>5, <2>6
  <2>8. HeapStep
    BY <2>5, <2>7, NoneAssumption DEF HeapStep
  <2> QED
    BY <2>5, <2>7, <2>8
<1>1. CASE \E c \in Calls : SwitchAnswered(c)
  <2>1. PICK c \in Calls : SwitchAnswered(c)
    BY <1>1
  <2> DEFINE b == target[c]
             ch == chain[c]
  <2>2. /\ pc[c] = "switching" /\ b \in Bundles /\ heap[b] # None /\ ch \in Chains
        /\ heap' = [heap EXCEPT ![b] = Switched(b, ch)]
        /\ granted' = [granted EXCEPT ![heap[b].session] = @ \cup {ch}]
        /\ UNCHANGED <<wallet, taken, follows, subscribers, bundles, activeBundleId, pageVars, reloads>>
    BY <2>1 DEF SwitchAnswered, At, ManagerInv, TypeOK, CallsInv
  <2>g. WalletGrows /\ ch \in Known'[heap[b].session]
    <3> DEFINE scope == {ch}
    <3>1. scope \in SUBSET Chains /\ UNCHANGED <<wallet, taken, follows>>
          /\ granted' = [granted EXCEPT ![heap[b].session] = @ \cup scope]
      BY <2>2
    <3>2. heap[b].session \in Sessions
      BY <2>2 DEF ManagerInv, TypeOK, Bundle
    <3>3. ch \in granted'[heap[b].session]
      BY <2>2, <3>2 DEF ManagerInv, TypeOK, ConnectorTypeOK
    <3> HIDE DEF scope
    <3> QED
      BY <2>2, <3>1, <3>2, <3>3, WalletSteps DEF ManagerInv, Known
  <2>3. /\ WalletGrows /\ HeapStep /\ subscribers' = subscribers
        /\ heap'[b] \in Bundle /\ Justified(heap'[b], wallet', Known')
        /\ heap'[b].session = heap[b].session /\ ch \in heap'[b].chains
        /\ \A x \in Bundles : x # b => heap'[x] = heap[x]
    BY <1>0, <2>2, <2>g
  <2>4. AgeStep
    <3>1. CASE Live(b)
      <4>1. PICK s \in Sessions : bundles[s] = b
        BY <3>1 DEF Live
      <4>2. heap[b].session = s /\ bundles[s] # None
        BY <2>2, <4>1, FiledOnce, NoneAssumption
      <4> QED
        BY <2>1, <2>2, <3>1, <4>2, TouchedKeeps DEF SwitchAnswered
    <3>2. CASE ~Live(b)
      BY <2>1, <2>2, <3>2, SameAge DEF SwitchAnswered
    <3> QED
      BY <3>1, <3>2
  <2>5. CASE /\ pc' = [pc EXCEPT ![c] = "fees"]
             /\ UNCHANGED <<target, chain, read, stored, overtaken>>
    <3>1. CallTypes' /\ pc'[c] = "fees" /\ \A d \in Calls : d # c => Waits(d)
      BY <2>5 DEF CallTypes, ManagerInv, TypeOK, Waits
    <3>2. Awaits(c)
      BY <2>2, <2>3, <2>5, <3>1, NoneAssumption DEF Awaits
    <3>3. CallsMove
      BY <3>1, <3>2 DEF CallsMove
    <3>4. PersistedIsActive'
      <4>1. CASE b = ActiveBundle
        <5>1. ActiveBundle' = b /\ pc'[c] = "fees" /\ target'[c] = b /\ b # None
          BY <2>2, <2>5, <3>1, <4>1, NoneAssumption DEF ActiveBundle
        <5> QED
          BY <2>2, <2>5, <4>1, <5>1 DEF ManagerInv, PersistedIsActive, At
      <4>2. CASE b # ActiveBundle
        <5>1. ActiveBundle' = ActiveBundle /\ (ActiveBundle # None => heap'[ActiveBundle] = heap[ActiveBundle])
          BY <2>2, <2>3, <4>2, ActiveIsFiled DEF ActiveBundle
        <5>2. \A d \in Calls : pc[d] = "fees" => pc'[d] = "fees" /\ target'[d] = target[d]
          BY <2>2, <2>5, <3>1 DEF Waits
        <5> QED
          BY <2>2, <2>3, <2>5, <5>1, <5>2, PersistedStays
      <4> QED
        BY <4>1, <4>2
    <3>5. \A x \in Bundles : heap[x] # None => heap'[x].session = heap[x].session
      BY <2>3
    <3>6. /\ overtaken' \in BOOLEAN /\ stored' \in Bundle \cup {None}
          /\ stored' # None => Justified(stored', wallet', Known')
      BY <2>3, <2>5, RecordStays DEF ManagerInv, TypeOK
    <3> HIDE DEF b, ch
    <3>7. UNCHANGED <<bundles, activeBundleId, subscribers, follows, pageVars, reloads>>
      BY <2>2, <2>3
    <3> QED
      BY <2>3, <2>4, <3>3, <3>4, <3>5, <3>6, <3>7, DataSteps
  <2>6. CASE /\ ~(ActiveBundle # None /\ ch \in heap'[ActiveBundle].chains)
             /\ Ends(c) /\ stored' = heap'[b] /\ overtaken' = (b # ActiveBundle)
    <3>1. b # ActiveBundle /\ overtaken' = TRUE
      BY <2>2, <2>3, <2>6, NoneAssumption
    <3>2. PersistedIsActive'
      BY <3>1 DEF PersistedIsActive
    <3>3. CallsMove
      BY <2>6, CallEnds DEF ManagerInv
    <3>4. \A x \in Bundles : heap[x] # None => heap'[x].session = heap[x].session
      BY <2>3
    <3>5. /\ overtaken' \in BOOLEAN /\ stored' \in Bundle \cup {None}
          /\ stored' # None => Justified(stored', wallet', Known')
      BY <2>3, <2>6, <3>1
    <3>6. UNCHANGED <<bundles, activeBundleId, subscribers, follows, pageVars, reloads>>
      BY <2>2, <2>3
    <3> HIDE DEF b, ch
    <3> QED
      BY <2>3, <2>4, <3>2, <3>3, <3>4, <3>5, <3>6, DataSteps
  <2> QED
    BY <2>1, <2>5, <2>6 DEF SwitchAnswered
<1>2. CASE \E ch \in Chains : SyncExternalChain(ch)
  <2>1. PICK ch \in Chains : SyncExternalChain(ch)
    BY <1>2
  <2> DEFINE b == ActiveBundle
  <2>2. /\ b \in Bundles /\ heap[b] # None /\ heap[b].session = activeBundleId /\ b # None
        /\ heap' = [heap EXCEPT ![b] = Switched(b, ch)] /\ Takes(activeBundleId, {ch} \ heap[b].scope)
        /\ stored' = Switched(b, ch) /\ overtaken' = FALSE
        /\ UNCHANGED <<wallet, granted, follows, subscribers, bundles, activeBundleId, pageVars,
                       callVars, reloads>>
        /\ byAge' = Touched(activeBundleId) /\ activeBundleId \in Sessions /\ bundles[activeBundleId] # None
    BY <2>1, ActiveIsFiled, NoneAssumption DEF SyncExternalChain, ActiveBecomes, Keeps
  <2>g. WalletGrows /\ (ch \in Known'[heap[b].session] \/ ch \in heap[b].scope)
    <3> DEFINE scope == {ch} \ heap[b].scope
    <3>1. scope \in SUBSET Chains /\ UNCHANGED <<wallet, granted, follows>> /\ Takes(activeBundleId, scope)
      BY <2>2
    <3>2. ch \in heap[b].scope \/ ch \in taken'[activeBundleId]
      BY <2>2, <3>1 DEF Takes, ManagerInv, TypeOK, ConnectorTypeOK
    <3> HIDE DEF scope
    <3> QED
      BY <2>2, <3>1, <3>2, WalletSteps DEF ManagerInv, Known
  <2>3. /\ WalletGrows /\ HeapStep /\ subscribers' = subscribers
        /\ heap'[b] \in Bundle /\ Justified(heap'[b], wallet', Known')
        /\ heap'[b].session = heap[b].session
        /\ \A x \in Bundles : x # b => heap'[x] = heap[x]
    BY <1>0, <2>2, <2>g
  <2>4. AgeStep /\ CallsMove
    BY <2>2, TouchedKeeps, CallsWait DEF ManagerInv
  <2>5. stored' = heap'[b]
    BY <2>2 DEF ManagerInv, TypeOK
  <2>6. PersistedIsActive'
    <3>1. ActiveBundle' = b
      BY <2>2 DEF ActiveBundle
    <3>2. heap'[b] # None /\ heap'[b].session = activeBundleId'
      BY <2>2, <2>3, NoneAssumption
    <3> HIDE DEF b
    <3> QED
      BY <2>2, <2>3, <2>5, <3>1, <3>2, PersistedNow
  <2>7. \A x \in Bundles : heap[x] # None => heap'[x].session = heap[x].session
    BY <2>3
  <2>8. UNCHANGED <<bundles, activeBundleId, subscribers, follows, pageVars, reloads>>
    BY <2>2, <2>3
  <2>9. overtaken' \in BOOLEAN /\ stored' \in Bundle /\ Justified(stored', wallet', Known')
    BY <2>2, <2>3, <2>5
  <2> HIDE DEF b
  <2> QED
    BY <2>3, <2>4, <2>6, <2>7, <2>8, <2>9, DataSteps
<1> QED
  BY <1>1, <1>2

\* A chainChanged event puts its chain into the object of the session that is followed.
LEMMA ChangedChainSteps ==
  ASSUME ManagerInv, NEW s \in Sessions, NEW ch \in Chains, WalletChangesChain(s, ch)
  PROVE  ManagerInv'
<1>a. holder \in Bundles /\ heap[holder] \in Bundle /\ s = lastSession /\ heap[holder].session = s
      /\ Justified(heap[holder], wallet, Known)
  BY DEF WalletChangesChain, ChainChanged, ManagerInv, TypeOK, ConnectorTypeOK, HolderInv, DataInv
<1>b. PICK h \in Bundles, data \in Bundle : h = holder /\ data = heap[h]
  BY <1>a
<1> DEFINE new == [data EXCEPT !.scope = @ \cup {ch}]
<1>0. /\ h # None /\ Takes(s, {ch})
      /\ heap' = [heap EXCEPT ![h] = new]
      /\ UNCHANGED <<wallet, granted, follows, subscribers, bundles, activeBundleId, byAge, pageVars,
                     stored, callVars, overtaken, reloads>>
  BY <1>a, <1>b, NoneAssumption DEF WalletChangesChain, ChainChanged
<1>1. h \in Bundles /\ data \in Bundle /\ data.session = s /\ Justified(data, wallet, Known)
      /\ data = heap[h]
  BY <1>a, <1>b
<1>2. /\ new \in Bundle /\ new.session = s /\ new.scope = data.scope \cup {ch}
      /\ new.chains = data.chains /\ new.active = data.active
      /\ \A scope : [new EXCEPT !.scope = scope] = [data EXCEPT !.scope = scope]
  BY <1>1 DEF Bundle
<1>3. WalletGrows /\ ch \in taken'[s]
  <2> DEFINE scope == {ch}
  <2>1. scope \in SUBSET Chains /\ Takes(s, scope) /\ UNCHANGED <<wallet, granted, follows>>
    BY <1>0
  <2>2. ch \in taken'[s]
    BY <1>0 DEF Takes, ManagerInv, TypeOK, ConnectorTypeOK
  <2> HIDE DEF scope
  <2> QED
    BY <1>1, <2>1, <2>2, WalletSteps DEF ManagerInv
<1> HIDE DEF new
<1>4. /\ heap' \in [Bundles -> Bundle \cup {None}] /\ heap'[h] = new /\ new # None
      /\ \A x \in Bundles : x # h => heap'[x] = heap[x]
  BY <1>0, <1>1, <1>2, NoneAssumption DEF ManagerInv, TypeOK
<1>5. Justified(new, wallet', Known')
  <2>1. Justified(data, wallet', Known')
    BY <1>1, <1>3, JustifiedStays DEF ManagerInv
  <2>2. ch \in Known'[s]
    BY <1>3 DEF Known
  <2> QED
    BY <1>1, <1>2, <2>1, <2>2 DEF Justified
<1>6. HeapStep /\ \A x \in Bundles : heap[x] # None => heap'[x].session = heap[x].session
  BY <1>1, <1>2, <1>4, <1>5 DEF HeapStep
<1>7. AgeStep /\ CallsMove /\ \A d \in Calls : Waits(d)
  BY <1>0, SameAge, CallsWait DEF ManagerInv
<1>8. ActiveBundle' = ActiveBundle
  BY <1>0 DEF ActiveBundle
<1>9. PersistedIsActive'
  <2>1. CASE ActiveBundle # h
    <3>1. ActiveBundle # None => heap'[ActiveBundle] = heap[ActiveBundle]
      BY <1>4, <2>1, ActiveIsFiled
    <3> QED
      BY <1>0, <1>3, <1>7, <1>8, <3>1, PersistedStays DEF Waits
  <2>2. CASE ActiveBundle = h /\ ~overtaken
    <3>1. /\ stored # None /\ stored.session = activeBundleId
          /\ (\A c \in Calls : ~(pc[c] = "fees" /\ target[c] = h)) => Saved(data)
      BY <1>0, <1>1, <2>2 DEF ManagerInv, PersistedIsActive, At
    <3>2. taken[s] \subseteq taken'[s] /\ stored' = stored
      BY <1>0, <1>3 DEF WalletGrows
    <3>3. Saved(data) => Saved(new)'
      <4>1. ASSUME Saved(data)
            PROVE  /\ stored = [new EXCEPT !.scope = stored.scope]
                   /\ stored.scope \subseteq new.scope
                   /\ new.scope \ stored.scope \subseteq taken'[s]
        <5>1. /\ stored = [data EXCEPT !.scope = stored.scope]
              /\ stored.scope \subseteq data.scope
              /\ data.scope \ stored.scope \subseteq taken[s]
          BY <1>1, <4>1 DEF Saved
        <5>2. stored = [new EXCEPT !.scope = stored.scope]
          BY <1>2, <5>1
        <5> QED
          BY <1>2, <1>3, <3>2, <5>1, <5>2
      <4>2. Saved(new)' <=> /\ stored' = [new EXCEPT !.scope = stored'.scope]
                            /\ stored'.scope \subseteq new.scope
                            /\ new.scope \ stored'.scope \subseteq taken'[new.session]
        BY DEF Saved
      <4> QED
        BY <1>2, <3>2, <4>1, <4>2
    <3>4. ActiveBundle' = h /\ heap'[h] = new /\ stored' # None /\ stored'.session = activeBundleId'
      BY <1>0, <1>4, <1>8, <2>2, <3>1
    <3>5. ASSUME \A c \in Calls : ~(pc'[c] = "fees" /\ target'[c] = h)
          PROVE  Saved(new)'
      <4>1. \A c \in Calls : ~(pc[c] = "fees" /\ target[c] = h)
        BY <1>7, <3>5 DEF Waits
      <4> QED
        BY <3>1, <3>3, <4>1
    <3>6. Saved(new)' <=> Saved(heap[ActiveBundle])'
      BY <3>4 DEF Saved
    <3> QED
      BY <1>0, <3>4, <3>5, <3>6 DEF PersistedIsActive, At
  <2>3. CASE overtaken
    BY <1>0, <2>3 DEF PersistedIsActive
  <2> QED
    BY <2>1, <2>2, <2>3
<1>10. /\ overtaken' \in BOOLEAN /\ stored' \in Bundle \cup {None}
       /\ stored' # None => Justified(stored', wallet', Known')
  BY <1>0, <1>3, RecordStays DEF ManagerInv, TypeOK
<1> QED
  BY <1>0, <1>3, <1>6, <1>7, <1>9, <1>10, DataSteps

\* The app removes a chain: another one takes the place of the active chain.
LEMMA DisconnectChainSteps ==
  ASSUME ManagerInv, NEW ch \in Chains, DisconnectChain(ch)
  PROVE  ManagerInv'
<1> DEFINE b == ActiveBundle
           data == heap[b]
           left == data.chains \ {ch}
<1>1. /\ b \in Bundles /\ data \in Bundle /\ data.session = activeBundleId /\ b # None
      /\ Justified(data, wallet, Known)
  BY ActiveIsFiled, NoneAssumption DEF DisconnectChain, ManagerInv, DataInv
<1>2. PICK next \in IF data.active = ch /\ left # {} THEN left ELSE {data.active} :
        ActiveBecomes([data EXCEPT !.chains = left, !.active = next])
  BY DEF DisconnectChain
<1> DEFINE new == [data EXCEPT !.chains = left, !.active = next]
<1>3. /\ new.session = data.session /\ new.scope = data.scope /\ new.chains = left /\ new.active = next
      /\ new \in Bundle
  BY <1>1, <1>2 DEF Bundle
<1>4. left # {} => next \in left
  BY <1>1, <1>2 DEF Justified
<1>5. /\ heap' = [heap EXCEPT ![b] = new] /\ stored' = new /\ overtaken' = FALSE
      /\ UNCHANGED <<bundles, activeBundleId, pageVars, callVars, reloads, connectorVars, byAge>>
  BY <1>2 DEF ActiveBecomes, Keeps, DisconnectChain
<1>w. UNCHANGED <<wallet, granted, taken, follows, subscribers>> /\ Known' = Known
  BY <1>5 DEF connectorVars, sessionVars, Known
<1> HIDE DEF new, left
<1>6. Justified(new, wallet, Known)
  BY <1>1, <1>3, <1>4 DEF Justified
<1>7. WalletGrows /\ AgeStep /\ CallsMove
  BY <1>5, <1>w, WalletStays, SameAge, CallsWait DEF ManagerInv, TypeOK, ConnectorTypeOK, follows
<1>8. /\ heap' \in [Bundles -> Bundle \cup {None}] /\ heap'[b] = new /\ new # None
      /\ \A x \in Bundles : x # b => heap'[x] = heap[x]
  BY <1>1, <1>3, <1>5, NoneAssumption DEF ManagerInv, TypeOK
<1>9. HeapStep
  BY <1>w, <1>6, <1>8 DEF HeapStep
<1>10. PersistedIsActive'
  <2>1. ActiveBundle' = b
    BY <1>5 DEF ActiveBundle
  <2> HIDE DEF b
  <2> QED
    BY <1>1, <1>3, <1>5, <1>8, <2>1, PersistedNow
<1>11. \A x \in Bundles : heap[x] # None => heap'[x].session = heap[x].session
  BY <1>1, <1>3, <1>8
<1>12. stored' \in Bundle /\ Justified(stored', wallet', Known')
  BY <1>3, <1>5, <1>6, <1>w
<1> HIDE DEF b, data
<1> QED
  BY <1>5, <1>7, <1>9, <1>10, <1>11, <1>12, <1>w, DataSteps

\* Bundles go, with their handlers; if the active one goes, so does the record.
LEMMA TearDownKeeps ==
  ASSUME ManagerInv, NEW T \in SUBSET Bundles, WalletGrows, CallsMove,
         bundles' = [s \in Sessions |-> IF bundles[s] \in T THEN None ELSE bundles[s]],
         subscribers' = subscribers \ T,
         HeapStep, \A b \in Bundles : heap[b] # None => heap'[b].session = heap[b].session,
         AgeStep, UNCHANGED <<follows, pageVars, reloads>>,
         overtaken' \in BOOLEAN, stored' \in Bundle \cup {None}, activeBundleId' \in Sessions \cup {None},
         stored' # None => Justified(stored', wallet', Known'),
         PersistedIsActive'
  PROVE  ManagerInv'
<1>0. bundles' \in [Sessions -> Bundles \cup {None}] /\ subscribers' \subseteq Bundles
  BY DEF ManagerInv, TypeOK, ConnectorTypeOK
<1>t. PageTypes'
  BY DEF pageVars, PageTypes, ManagerInv, TypeOK
<1>1. TypeOK'
  BY <1>0, <1>t, TypesStay
<1>2. CallsInv' /\ RestoreInv' /\ DataInv'
  BY CallsStay, NoneAssumption
<1>3. FiledInv'
  BY DEF ManagerInv, TypeOK, FiledInv, HeapStep
<1>4. SubscriptionsMatch'
  <2>1. \A b \in Bundles : (\E s \in Sessions : bundles'[s] = b) <=> Live(b) /\ b \notin T
    BY NoneAssumption DEF Live
  <2> QED
    BY <2>1 DEF ManagerInv, SubscriptionsMatch, Live, pageVars
<1>5. HolderInv'
  BY HolderKept DEF HeapStep
<1> QED
  BY <1>1, <1>2, <1>3, <1>4, <1>5 DEF ManagerInv

LEMMA TearDownAge ==
  ASSUME ManagerInv, NEW T \in SUBSET Bundles,
         bundles' = [s \in Sessions |-> IF bundles[s] \in T THEN None ELSE bundles[s]],
         byAge' = Without({s \in Sessions : bundles[s] \in T})
  PROVE  AgeStep
<1> DEFINE gone == {s \in Sessions : bundles[s] \in T}
<1>1. /\ byAge \in Seq(Sessions) /\ IsInjective(byAge)
      /\ ToSet(byAge) = {t \in Sessions : bundles[t] # None}
  BY DEF ManagerInv, TypeOK
<1>2. byAge' \in Seq(Sessions) /\ IsInjective(byAge') /\ ToSet(byAge') = ToSet(byAge) \ gone
  BY <1>1, WithoutIsLeft
<1>3. ToSet(byAge) \ gone = {s \in Sessions : bundles'[s] # None}
  BY <1>1, NoneAssumption
<1>4. Len(byAge') <= Len(byAge)
  BY <1>1, <1>2, NotLonger
<1> QED
  BY <1>2, <1>3, <1>4 DEF AgeStep

LEMMA TearDownSteps ==
  ASSUME ManagerInv,
         \/ \E c \in Calls : Disconnected(c) \/ Revoked(c) \/ \E s \in Sessions : RevokeUnasked(c, s)
         \/ \E s \in Sessions : WalletRevokes(s)
  PROVE  ManagerInv'
<1>1. ASSUME NEW T \in SUBSET Bundles, TearDown(T), UNCHANGED <<heap, pageVars, reloads, follows>>,
             WalletGrows, CallsMove, \A c \in Calls : pc[c] = "fees" => Waits(c)
      PROVE  ManagerInv'
  <2>1. /\ bundles' = [s \in Sessions |-> IF bundles[s] \in T THEN None ELSE bundles[s]]
        /\ subscribers' = subscribers \ T
        /\ byAge' = Without({s \in Sessions : bundles[s] \in T})
    BY <1>1 DEF TearDown
  <2>2. AgeStep /\ HeapStep
    BY <1>1, <2>1, TearDownAge, SameHeap
  <2>3. \/ ActiveBundle \in T /\ activeBundleId' = None /\ stored' = None /\ overtaken' = FALSE
        \/ ActiveBundle \notin T /\ UNCHANGED <<activeBundleId, stored, overtaken>>
    BY <1>1 DEF TearDown, Clears
  <2>4. PersistedIsActive'
    <3>1. CASE ActiveBundle \in T /\ activeBundleId' = None /\ stored' = None
      BY <3>1 DEF PersistedIsActive, ActiveBundle
    <3>2. CASE ActiveBundle \notin T /\ UNCHANGED <<activeBundleId, stored, overtaken>>
      <4>1. ActiveBundle' = ActiveBundle
        BY <2>1, <3>2 DEF ActiveBundle, ManagerInv, TypeOK
      <4> QED
        BY <1>1, <3>2, <4>1, PersistedStays DEF Waits
    <3> QED
      BY <2>3, <3>1, <3>2
  <2>5. stored' \in Bundle \cup {None} /\ (stored' # None => Justified(stored', wallet', Known'))
        /\ overtaken' \in BOOLEAN /\ activeBundleId' \in Sessions \cup {None}
    BY <1>1, <2>3, RecordStays DEF ManagerInv, TypeOK
  <2>6. \A b \in Bundles : heap[b] # None => heap'[b].session = heap[b].session
    BY <1>1
  <2> QED
    BY <1>1, <2>1, <2>2, <2>4, <2>5, <2>6, TearDownKeeps
<1>w. ASSUME NEW s \in Sessions, EndOrFail(s) \/ WalletEnds(s)
      PROVE  WalletGrows /\ UNCHANGED follows
  <2>1. UNCHANGED <<granted, taken, follows>> /\ wallet' \in {wallet, [wallet EXCEPT ![s] = "ended"]}
    BY <1>w DEF EndOrFail, WalletEnds
  <2>2. WalletTypes' /\ \A t \in Sessions : wallet[t] # "none" => wallet'[t] # "none"
    BY <2>1 DEF WalletTypes, ManagerInv, TypeOK, ConnectorTypeOK, follows
  <2> QED
    BY <2>1, <2>2 DEF WalletGrows, Known
<1>2. CASE \E c \in Calls : Disconnected(c)
  <2>1. PICK c \in Calls : Disconnected(c)
    BY <1>2
  <2>2. pc[c] = "disconnecting" /\ heap[target[c]] \in Bundle /\ heap[target[c]].session \in Sessions
    BY <2>1 DEF Disconnected, At, ManagerInv, TypeOK, CallsInv, Bundle
  <2>3. WalletGrows /\ UNCHANGED follows
    BY <1>w, <2>1, <2>2 DEF Disconnected
  <2>4. CallsMove /\ \A d \in Calls : pc[d] = "fees" => Waits(d)
    BY <2>1, <2>2, CallEnds DEF Disconnected, ManagerInv
  <2>5. UNCHANGED <<heap, pageVars, reloads>>
    BY <2>1 DEF Disconnected
  <2>6. CASE ActiveBundle # None
    BY <1>1, <2>1, <2>3, <2>4, <2>5, <2>6, ActiveIsFiled DEF Disconnected
  <2>7. CASE ActiveBundle = None
    <3>1. UNCHANGED <<bundles, subscribers, byAge>> /\ activeBundleId' = None /\ stored' = None
          /\ overtaken' = FALSE
      BY <2>1, <2>7 DEF Disconnected, Clears
    <3>2. PersistedIsActive'
      BY <3>1 DEF PersistedIsActive, ActiveBundle
    <3>3. AgeStep /\ HeapStep
      BY <2>5, <3>1, SameAge, SameHeap
    <3> DEFINE T == {}
    <3>4. /\ bundles' = [s \in Sessions |-> IF bundles[s] \in T THEN None ELSE bundles[s]]
          /\ subscribers' = subscribers \ T /\ T \in SUBSET Bundles
      BY <3>1 DEF ManagerInv, TypeOK
    <3> HIDE DEF T
    <3>5. \A b \in Bundles : heap[b] # None => heap'[b].session = heap[b].session
      BY <2>5
    <3> QED
      BY <2>3, <2>4, <2>5, <3>1, <3>2, <3>3, <3>4, <3>5, TearDownKeeps
  <2> QED
    BY <2>6, <2>7
<1>3. CASE \E c \in Calls : Revoked(c)
  <2>1. PICK c \in Calls : Revoked(c)
    BY <1>3
  <2>2. /\ pc[c] = "revoking" /\ heap[target[c]] \in Bundle /\ heap[target[c]].session \in Sessions
        /\ target[c] \in Bundles
    BY <2>1 DEF Revoked, At, ManagerInv, TypeOK, CallsInv, Bundle
  <2>3. WalletGrows /\ UNCHANGED follows
    BY <1>w, <2>1, <2>2 DEF Revoked
  <2>4. CallsMove /\ \A d \in Calls : pc[d] = "fees" => Waits(d)
    BY <2>1, <2>2, CallEnds DEF Revoked, ManagerInv
  <2> DEFINE T == {b \in {target[c]} : Live(b)}
  <2>5. T \in SUBSET Bundles /\ TearDown(T) /\ UNCHANGED <<heap, pageVars, reloads>>
    BY <2>1, <2>2 DEF Revoked
  <2> HIDE DEF T
  <2> QED
    BY <1>1, <2>3, <2>4, <2>5
<1>4. CASE \E s \in Sessions : WalletRevokes(s)
  <2>1. PICK s \in Sessions : WalletRevokes(s)
    BY <1>4
  <2>2. WalletGrows /\ UNCHANGED follows /\ CallsMove /\ \A d \in Calls : Waits(d)
    BY <1>w, <2>1, CallsWait DEF WalletRevokes, ManagerInv
  <2> DEFINE T == Handlers(s)
  <2>3. T \in SUBSET Bundles
    BY DEF Handlers, Told, ManagerInv, TypeOK, ConnectorTypeOK
  <2>4. TearDown(T) /\ UNCHANGED <<heap, pageVars, reloads>>
    BY <2>1 DEF WalletRevokes
  <2> HIDE DEF T
  <2> QED
    BY <1>1, <2>2, <2>3, <2>4
<1>5. CASE \E c \in Calls, s \in Sessions : RevokeUnasked(c, s)
  <2>1. PICK c \in Calls, s \in Sessions : RevokeUnasked(c, s)
    BY <1>5
  <2> DEFINE T == {bundles[s]}
  <2>2. /\ TearDown(T) /\ pc[c] = "idle" /\ Ends(c) /\ bundles[s] # None
        /\ UNCHANGED <<sessionVars, heap, pageVars, reloads>>
    BY <2>1 DEF RevokeUnasked
  <2>3. T \in SUBSET Bundles
    BY <2>2 DEF ManagerInv, TypeOK
  <2>4. UNCHANGED <<wallet, granted, taken, follows>>
    BY <2>2 DEF sessionVars
  <2>5. WalletGrows
    BY <2>4, WalletStays DEF ManagerInv, TypeOK, ConnectorTypeOK, follows
  <2>6. CallsMove /\ \A d \in Calls : pc[d] = "fees" => Waits(d)
    BY <2>2, CallEnds DEF ManagerInv
  <2> HIDE DEF T
  <2> QED
    BY <1>1, <2>2, <2>3, <2>4, <2>5, <2>6
<1> QED
  BY <1>2, <1>3, <1>4, <1>5

LEMMA NarrowedIsJustified ==
  ASSUME TypeOK, NEW data \in Bundle, Justified(data, wallet, Known),
         NEW offered \in SUBSET Chains, NEW next \in Chains,
         next \in Successors(data, offered)
  PROVE  /\ Narrowed(data, offered, next) \in Bundle
         /\ Narrowed(data, offered, next).session = data.session
         /\ Justified(Narrowed(data, offered, next), wallet, Known)
<1> DEFINE kept == data.scope \cap offered
           left == data.chains \cap kept
           new == Narrowed(data, offered, next)
<1>1. kept \in SUBSET Chains /\ left \in SUBSET Chains /\ kept \subseteq data.scope
  BY DEF Bundle
<1>2. CASE data.active \in kept
  <2>1. new = [data EXCEPT !.scope = kept, !.chains = left]
    BY <1>2 DEF Narrowed
  <2>2. /\ new.session = data.session /\ new.scope = kept /\ new.chains = left /\ new.active = data.active
        /\ new \in Bundle
    BY <1>1, <2>1 DEF Bundle
  <2>3. left # {} => data.active \in left
    BY <1>2 DEF Justified
  <2> HIDE DEF new, kept, left
  <2>4. Justified(new, wallet, Known)
    BY <1>1, <2>2, <2>3 DEF Justified
  <2> QED
    BY <2>2, <2>4 DEF new
<1>3. CASE data.active \notin kept
  <2>1. new = [data EXCEPT !.scope = kept, !.chains = left \cup {next}, !.active = next]
    BY <1>3 DEF Narrowed
  <2>2. /\ new.session = data.session /\ new.scope = kept /\ new.chains = left \cup {next} /\ new.active = next
        /\ new \in Bundle
    BY <1>1, <2>1 DEF Bundle
  <2> HIDE DEF new, kept, left
  <2>3. Justified(new, wallet, Known)
    BY <1>1, <2>2 DEF Justified
  <2> QED
    BY <2>2, <2>3 DEF new
<1> QED
  BY <1>2, <1>3

\* The lists of what is not told and of what is, one after the other.
LEMMA ListsJoin ==
  ASSUME NEW q \in Seq(Sessions), NEW r \in Seq(Sessions), IsInjective(q), IsInjective(r),
         ToSet(q) \cap ToSet(r) = {}
  PROVE  q \o r \in Seq(Sessions) /\ IsInjective(q \o r) /\ ToSet(q \o r) = ToSet(q) \cup ToSet(r)
<1> DEFINE j == q \o r
<1>1. /\ Len(q) \in Nat /\ Len(r) \in Nat /\ DOMAIN q = 1 .. Len(q) /\ DOMAIN r = 1 .. Len(r)
      /\ j \in Seq(Sessions) /\ Len(j) = Len(q) + Len(r)
      /\ \A i \in 1 .. Len(j) : j[i] = IF i <= Len(q) THEN q[i] ELSE r[i - Len(q)]
  BY LenProperties, ConcatProperties
<1>2. DOMAIN j = 1 .. Len(q) + Len(r)
  BY <1>1, LenProperties
<1> HIDE DEF j
<1>3. \A i \in 1 .. Len(q) : i \in DOMAIN j /\ j[i] = q[i]
  BY <1>1, <1>2
<1>4. \A i \in 1 .. Len(r) : Len(q) + i \in DOMAIN j /\ j[Len(q) + i] = r[i]
  <2> SUFFICES ASSUME NEW i \in 1 .. Len(r)
      PROVE  Len(q) + i \in DOMAIN j /\ j[Len(q) + i] = r[i]
    OBVIOUS
  <2>1. /\ Len(q) + i \in 1 .. Len(j) /\ ~(Len(q) + i <= Len(q)) /\ (Len(q) + i) - Len(q) = i
    BY <1>1
  <2> QED
    BY <1>1, <1>2, <2>1
<1>5. \A i \in DOMAIN j : i \in 1 .. Len(q) \/ \E k \in 1 .. Len(r) : i = Len(q) + k
  <2> SUFFICES ASSUME NEW i \in DOMAIN j, i \notin 1 .. Len(q)
      PROVE  \E k \in 1 .. Len(r) : i = Len(q) + k
    OBVIOUS
  <2>1. i - Len(q) \in 1 .. Len(r) /\ i = Len(q) + (i - Len(q))
    BY <1>1, <1>2
  <2> QED
    BY <2>1
<1>6. ToSet(j) = ToSet(q) \cup ToSet(r)
  <2>1. ASSUME NEW i \in DOMAIN j PROVE j[i] \in ToSet(q) \cup ToSet(r)
    <3>1. CASE i \in 1 .. Len(q)
      BY <1>1, <1>3, <3>1 DEF ToSet
    <3>2. CASE \E k \in 1 .. Len(r) : i = Len(q) + k
      <4>1. PICK k \in 1 .. Len(r) : i = Len(q) + k
        BY <3>2
      <4>2. j[i] = r[k]
        BY <1>4, <4>1
      <4> QED
        BY <1>1, <4>2 DEF ToSet
    <3> QED
      BY <1>5, <3>1, <3>2
  <2>2. ToSet(q) \cup ToSet(r) \subseteq ToSet(j)
    BY <1>1, <1>3, <1>4 DEF ToSet
  <2>3. ToSet(j) \subseteq ToSet(q) \cup ToSet(r)
    BY <2>1 DEF ToSet
  <2> QED
    BY <2>2, <2>3
<1>7. /\ \A i \in 1 .. Len(q) : j[i] \in ToSet(q)
      /\ \A k \in 1 .. Len(r) : j[Len(q) + k] \in ToSet(r)
  BY <1>1, <1>3, <1>4 DEF ToSet
<1>8. IsInjective(j)
  <2> SUFFICES ASSUME NEW i \in DOMAIN j, NEW m \in DOMAIN j, j[i] = j[m]
      PROVE  i = m
    BY DEF IsInjective
  <2>1. CASE i \in 1 .. Len(q) /\ m \in 1 .. Len(q)
    BY <1>1, <1>3, <2>1 DEF IsInjective
  <2>2. CASE (\E k \in 1 .. Len(r) : i = Len(q) + k) /\ (\E k \in 1 .. Len(r) : m = Len(q) + k)
    <3>1. PICK k \in 1 .. Len(r), n \in 1 .. Len(r) : i = Len(q) + k /\ m = Len(q) + n
      BY <2>2
    <3>2. r[k] = r[n]
      BY <1>4, <3>1
    <3> QED
      BY <1>1, <3>1, <3>2 DEF IsInjective
  <2>3. CASE \/ i \in 1 .. Len(q) /\ (\E k \in 1 .. Len(r) : m = Len(q) + k)
             \/ m \in 1 .. Len(q) /\ (\E k \in 1 .. Len(r) : i = Len(q) + k)
    <3>1. j[i] \in ToSet(q) \cap ToSet(r)
      BY <1>7, <2>3
    <3> QED
      BY <3>1
  <2> QED
    BY <1>5, <2>1, <2>2, <2>3
<1> QED
  BY <1>1, <1>6, <1>8 DEF j

\* A narrowed scope: what keeps nothing of it ends, the others stay within it.
LEMMA UpdateSteps ==
  ASSUME ManagerInv, NEW s \in Sessions, NEW offered \in SUBSET Chains, WalletUpdates(s, offered)
  PROVE  ManagerInv'
<1> DEFINE H == Handlers(s)
           emptied == {b \in H : heap[b].scope \cap offered = {}}
           kept == H \ emptied
<1>0. /\ bundles' = [t \in Sessions |-> IF bundles[t] \in emptied THEN None ELSE bundles[t]]
      /\ subscribers' = subscribers \ emptied
      /\ byAge' = Without({t \in Sessions : bundles[t] \in H})
                    \o Without({t \in Sessions : bundles[t] \notin kept})
      /\ IF ActiveBundle \in emptied
         THEN activeBundleId' = None /\ Clears
         ELSE IF ActiveBundle \in kept
              THEN Keeps(heap'[ActiveBundle]) /\ UNCHANGED <<activeBundleId>>
              ELSE UNCHANGED <<stored, overtaken, activeBundleId>>
      /\ UNCHANGED <<wallet, granted, taken, follows, pageVars, callVars, reloads>>
  BY DEF WalletUpdates, sessionVars
<1>k. wallet' = wallet /\ Known' = Known
  BY <1>0 DEF Known
<1>1. PICK next \in [kept -> Chains] :
        /\ \A b \in kept : next[b] \in Successors(heap[b], offered)
        /\ heap' = [b \in Bundles |-> IF b \in kept
             THEN Narrowed(heap[b], offered, next[b]) ELSE heap[b]]
  BY DEF WalletUpdates
<1>2. H \in SUBSET Bundles /\ emptied \in SUBSET Bundles /\ kept \in SUBSET Bundles
      /\ \A b \in H : Live(b) /\ b # None
  BY NoneAssumption DEF Handlers, Told, ManagerInv, TypeOK, ConnectorTypeOK
<1>3. kept \cap emptied = {} /\ H = kept \cup emptied
  OBVIOUS
<1> HIDE DEF H, emptied, kept
<1>4. WalletGrows /\ CallsMove /\ \A d \in Calls : Waits(d)
  BY <1>0, WalletStays, CallsWait DEF ManagerInv, TypeOK, ConnectorTypeOK, follows
<1>5. ASSUME NEW b \in kept
      PROVE  /\ heap[b] \in Bundle /\ heap'[b] \in Bundle /\ heap'[b].session = heap[b].session
             /\ Justified(heap'[b], wallet, Known)
  <2>1. PICK t \in Sessions : bundles[t] = b
    BY <1>2, <1>3 DEF Live
  <2>2. heap[b] \in Bundle /\ Justified(heap[b], wallet, Known) /\ b \in Bundles
    BY <1>2, <1>3, <2>1, FiledOnce, NoneAssumption DEF ManagerInv, DataInv
  <2>3. heap'[b] = Narrowed(heap[b], offered, next[b]) /\ next[b] \in Chains
        /\ next[b] \in Successors(heap[b], offered)
    BY <1>1, <2>2
  <2> QED
    BY <2>2, <2>3, NarrowedIsJustified DEF ManagerInv
<1>6. \A b \in Bundles : b \notin kept => heap'[b] = heap[b]
  BY <1>1
<1>7. HeapStep /\ \A b \in Bundles : heap[b] # None => heap'[b].session = heap[b].session
  <2>1. \A b \in Bundles : heap'[b] \in Bundle \cup {None}
    BY <1>5, <1>6 DEF ManagerInv, TypeOK
  <2>2. DOMAIN heap' = Bundles /\ heap' = [b \in Bundles |-> heap'[b]]
    BY <1>1
  <2>3. heap' \in [Bundles -> Bundle \cup {None}]
    BY <2>1, <2>2
  <2> QED
    BY <1>k, <1>5, <1>6, <2>3, NoneAssumption DEF HeapStep
<1>8. AgeStep
  <2> DEFINE others == Without({t \in Sessions : bundles[t] \in H})
             told == Without({t \in Sessions : bundles[t] \notin kept})
  <2>1. /\ byAge \in Seq(Sessions) /\ IsInjective(byAge)
        /\ ToSet(byAge) = {t \in Sessions : bundles[t] # None}
    BY DEF ManagerInv, TypeOK
  <2>2. /\ others \in Seq(Sessions) /\ IsInjective(others)
        /\ ToSet(others) = ToSet(byAge) \ {t \in Sessions : bundles[t] \in H}
        /\ told \in Seq(Sessions) /\ IsInjective(told)
        /\ ToSet(told) = ToSet(byAge) \ {t \in Sessions : bundles[t] \notin kept}
    BY <2>1, WithoutIsLeft
  <2>3. ToSet(others) \cap ToSet(told) = {}
    BY <1>3, <2>1, <2>2
  <2>4. byAge' = others \o told
    BY <1>0
  <2> HIDE DEF others, told
  <2>5. byAge' \in Seq(Sessions) /\ IsInjective(byAge') /\ ToSet(byAge') = ToSet(others) \cup ToSet(told)
    BY <2>2, <2>3, <2>4, ListsJoin
  <2>6. ToSet(byAge') = {t \in Sessions : bundles'[t] # None}
    <3>1. \A t \in Sessions : bundles'[t] # None
            <=> bundles[t] # None /\ (bundles[t] \notin H \/ bundles[t] \in kept)
      BY <1>0, <1>2, <1>3
    <3> QED
      BY <2>1, <2>2, <2>5, <3>1
  <2>7. Len(byAge') <= Len(byAge)
    BY <2>1, <2>2, <2>5, NotLonger
  <2> QED
    BY <2>5, <2>6, <2>7 DEF AgeStep
<1>9. CASE ActiveBundle \in emptied
  <2>1. activeBundleId' = None /\ stored' = None /\ overtaken' = FALSE
    BY <1>0, <1>9 DEF Clears
  <2>2. PersistedIsActive'
    BY <2>1 DEF PersistedIsActive, ActiveBundle
  <2> QED
    BY <1>0, <1>2, <1>4, <1>7, <1>8, <2>1, <2>2, TearDownKeeps DEF ManagerInv, TypeOK
<1>10. CASE ActiveBundle \in kept
  <2>1. /\ stored' = heap'[ActiveBundle] /\ overtaken' = FALSE /\ activeBundleId' = activeBundleId
    BY <1>0, <1>3, <1>10 DEF Keeps
  <2>2. /\ ActiveBundle # None /\ activeBundleId \in Sessions /\ bundles[activeBundleId] = ActiveBundle
        /\ heap[ActiveBundle].session = activeBundleId
    BY <1>2, <1>3, <1>10, ActiveIsFiled
  <2>3. ActiveBundle' = ActiveBundle
    BY <1>0, <1>3, <1>10, <2>1, <2>2 DEF ActiveBundle
  <2>4. stored' \in Bundle /\ stored'.session = activeBundleId /\ Justified(stored', wallet', Known')
    BY <1>k, <1>5, <1>10, <2>1, <2>2
  <2>5. PersistedIsActive'
    BY <2>1, <2>2, <2>3, <2>4, PersistedNow, NoneAssumption
  <2> QED
    BY <1>0, <1>2, <1>4, <1>7, <1>8, <2>1, <2>4, <2>5, TearDownKeeps DEF ManagerInv, TypeOK
<1>11. CASE ActiveBundle \notin emptied /\ ActiveBundle \notin kept
  <2>1. UNCHANGED <<stored, overtaken, activeBundleId>>
    BY <1>0, <1>11
  <2>2. ActiveBundle' = ActiveBundle
    BY <1>0, <1>11, <2>1 DEF ActiveBundle, ManagerInv, TypeOK
  <2>3. ActiveBundle # None => heap'[ActiveBundle] = heap[ActiveBundle]
    BY <1>6, <1>11, ActiveIsFiled
  <2>4. PersistedIsActive'
    BY <1>4, <2>1, <2>2, <2>3, PersistedStays DEF Waits
  <2>5. stored' # None => stored' \in Bundle /\ Justified(stored', wallet', Known')
    BY <1>4, <2>1, RecordStays
  <2> QED
    BY <1>0, <1>2, <1>4, <1>7, <1>8, <2>1, <2>4, <2>5, TearDownKeeps DEF ManagerInv, TypeOK
<1> QED
  BY <1>9, <1>10, <1>11

\* A page reload: only the record is left, and one call to restore it.
LEMMA ReloadSteps ==
  ASSUME ManagerInv, NEW c \in Calls, Reload(c)
  PROVE  ManagerInv'
<1>0. /\ reloads' = reloads + 1 /\ reloads < MaxReloads
      /\ bundles' = [s \in Sessions |-> None]
      /\ heap' = [b \in Bundles |-> None]
      /\ activeBundleId' = None /\ byAge' = <<>>
      /\ registered' = FALSE /\ connecting' = FALSE /\ unheard' = {}
      /\ lastSession' = None /\ holder' = None /\ subscribers' = {}
      /\ overtaken' = (stored # None)
      /\ UNCHANGED <<wallet, granted, taken, stored>>
  BY DEF Reload
<1>1. /\ pc' = [d \in Calls |-> IF d = c /\ stored # None THEN "loading" ELSE "idle"]
      /\ target' = [d \in Calls |-> None] /\ chain' = [d \in Calls |-> None]
      /\ read' = [[d \in Calls |-> None] EXCEPT ![c] = stored]
  BY DEF Reload
<1>2. CallTypes'
  BY <1>1 DEF CallTypes, ManagerInv, TypeOK
<1>3. /\ \A d \in Calls : read'[d] = IF d = c THEN stored ELSE None
      /\ \A d \in Calls : pc'[d] = IF d = c /\ stored # None THEN "loading" ELSE "idle"
  BY <1>1
<1>4. <<>> \in Seq(Sessions) /\ Len(<<>>) = 0 /\ ToSet(<<>>) = {} /\ IsInjective(<<>>)
  BY DEF ToSet, IsInjective
<1>5. reloads \in Nat /\ reloads' > 0 /\ reloads' \in 0 .. MaxReloads
      /\ 0 <= MaxSessions /\ 0 <= MaxSessions + 1
  BY <1>0, BoundsAssumption DEF ManagerInv, TypeOK
<1>6. ConnectorTypeOK'
  BY <1>0 DEF ManagerInv, TypeOK, ConnectorTypeOK
<1>7. TypeOK'
  <2>1. {s \in Sessions : bundles'[s] # None} = {}
    BY <1>0
  <2>2. byAge' \in Seq(Sessions) /\ IsInjective(byAge') /\ ToSet(byAge') = {} /\ Len(byAge') = 0
    BY <1>0, <1>4
  <2>3. Len(byAge') <= IF reloads' = 0 THEN MaxSessions ELSE MaxSessions + 1
    BY <1>5, <2>2
  <2>4. /\ bundles' \in [Sessions -> Bundles \cup {None}] /\ heap' \in [Bundles -> Bundle \cup {None}]
        /\ activeBundleId' \in Sessions \cup {None} /\ overtaken' \in BOOLEAN
        /\ registered' \in BOOLEAN /\ connecting' \in BOOLEAN /\ unheard' \subseteq Bundles
        /\ stored' \in Bundle \cup {None}
    BY <1>0 DEF ManagerInv, TypeOK
  <2> QED
    BY <1>2, <1>5, <1>6, <2>1, <2>2, <2>3, <2>4 DEF TypeOK, CallTypes
<1>8. DataInv'
  <2>1. wallet' = wallet /\ Known' = Known
    BY <1>0 DEF Known
  <2> QED
    BY <1>0, <1>3, <2>1 DEF ManagerInv, DataInv
<1>9. FiledInv' /\ CallsInv' /\ HolderInv'
  BY <1>0, <1>3 DEF FiledInv, CallsInv, HolderInv
<1>10. RestoreInv'
  BY <1>0, <1>3, <1>4, <1>5 DEF RestoreInv
<1>11. SubscriptionsMatch'
  BY <1>0, NoneAssumption DEF SubscriptionsMatch, Live
<1>12. PersistedIsActive'
  BY <1>0 DEF PersistedIsActive, ActiveBundle
<1> QED
  BY <1>7, <1>8, <1>9, <1>10, <1>11, <1>12 DEF ManagerInv

\* The restored bundle goes to the front, and is the active one.
LEMMA RestoredSteps ==
  ASSUME ManagerInv, NEW c \in Calls, Restored(c)
  PROVE  ManagerInv'
<1> DEFINE data == read[c]
           s == data.session
<1>0. /\ pc[c] = "loading" /\ byAge' = <<s>> \o Without({s}) /\ activeBundleId' = s
      /\ overtaken' = (stored # data) /\ Ends(c)
      /\ UNCHANGED <<wallet, granted, taken, follows, registered, connecting, stored, reloads>>
  BY DEF Restored, At, sessionVars
<1>1. PICK b \in Bundles :
        /\ Fresh(b) /\ b # holder
        /\ heap' = [heap EXCEPT ![b] = data]
        /\ bundles' = [bundles EXCEPT ![s] = b]
        /\ subscribers' = (subscribers \ {bundles[s]}) \cup IF registered THEN {b} ELSE {}
        /\ unheard' = IF registered THEN unheard \ {b} ELSE unheard \cup {b}
  BY DEF Restored
<1>k. wallet' = wallet /\ Known' = Known
  BY <1>0 DEF Known
<1>2. data \in Bundle /\ s \in Sessions /\ Justified(data, wallet, Known) /\ data # None
      /\ Len(byAge) <= MaxSessions /\ reloads > 0 /\ \A d \in Calls : pc[d] = "loading" => d = c
  BY <1>0, NoneAssumption DEF ManagerInv, TypeOK, CallsInv, DataInv, RestoreInv, Bundle
<1> HIDE DEF data, s
<1>3. WalletGrows
  BY <1>0, WalletStays DEF ManagerInv, TypeOK, ConnectorTypeOK, follows
<1>4. CallsMove /\ pc'[c] = "done" /\ \A d \in Calls : d # c => Waits(d)
  BY <1>0, CallEnds DEF ManagerInv
<1>5. b # None /\ \A t \in Sessions : bundles[t] # b
  BY <1>1, NoneAssumption DEF Fresh, Live
<1>6. heap' \in [Bundles -> Bundle \cup {None}] /\ heap'[b] = data
      /\ \A x \in Bundles : x # b => heap'[x] = heap[x]
  BY <1>1, <1>2 DEF ManagerInv, TypeOK
<1>7. bundles' \in [Sessions -> Bundles \cup {None}] /\ bundles'[s] = b
      /\ \A t \in Sessions : t # s => bundles'[t] = bundles[t]
  BY <1>1, <1>2 DEF ManagerInv, TypeOK
<1>8. /\ byAge' \in Seq(Sessions) /\ IsInjective(byAge')
      /\ ToSet(byAge') = {t \in Sessions : bundles'[t] # None}
      /\ Len(byAge') <= MaxSessions + 1
  <2> DEFINE left == Without({s})
             first == <<s>>
  <2>1. /\ byAge \in Seq(Sessions) /\ IsInjective(byAge)
        /\ ToSet(byAge) = {t \in Sessions : bundles[t] # None}
    BY DEF ManagerInv, TypeOK
  <2>2. left \in Seq(Sessions) /\ IsInjective(left) /\ ToSet(left) = ToSet(byAge) \ {s}
    BY <2>1, WithoutIsLeft
  <2>3. first \in Seq(Sessions) /\ IsInjective(first) /\ ToSet(first) = {s} /\ Len(first) = 1
    BY <1>2 DEF IsInjective, ToSet
  <2>4. byAge' = first \o left
    BY <1>0
  <2> HIDE DEF left, first
  <2>5. /\ byAge' \in Seq(Sessions) /\ IsInjective(byAge')
        /\ ToSet(byAge') = {s} \cup (ToSet(byAge) \ {s})
    BY <2>2, <2>3, <2>4, ListsJoin
  <2>6. ToSet(byAge') = {t \in Sessions : bundles'[t] # None}
    BY <1>2, <1>5, <1>7, <2>1, <2>5
  <2>7. Len(left) <= Len(byAge) /\ Len(left) \in Nat /\ Len(byAge) \in Nat
    BY <2>1, <2>2, NotLonger, LenProperties
  <2>8. Len(byAge') = 1 + Len(left)
    BY <2>2, <2>3, <2>4, ConcatProperties
  <2> QED
    BY <1>2, <2>5, <2>6, <2>7, <2>8, BoundsAssumption
<1>9. TypeOK'
  <2>1. Len(byAge') <= IF reloads' = 0 THEN MaxSessions ELSE MaxSessions + 1
    BY <1>0, <1>2, <1>8 DEF ManagerInv, TypeOK
  <2>2. ConnectorTypeOK'
    BY <1>0, <1>1 DEF ManagerInv, TypeOK, ConnectorTypeOK, follows
  <2>3. activeBundleId' \in Sessions \cup {None} /\ overtaken' \in BOOLEAN
        /\ registered' \in BOOLEAN /\ connecting' \in BOOLEAN
        /\ stored' \in Bundle \cup {None} /\ reloads' \in 0 .. MaxReloads
    BY <1>0, <1>2 DEF ManagerInv, TypeOK
  <2>4. CallTypes' /\ unheard' \subseteq Bundles
    BY <1>1, <1>4 DEF CallsMove, ManagerInv, TypeOK
  <2> QED
    BY <1>6, <1>7, <1>8, <2>1, <2>2, <2>3, <2>4 DEF TypeOK, CallTypes
<1>10. DataInv' /\ CallsInv' /\ RestoreInv'
  <2>1. \A d \in Calls : Waits(d) \/ Over(d) \/ Awaits(d)
    BY <1>4 DEF CallsMove
  <2>2. \A d \in Calls : read'[d] # None => read'[d] = read[d]
    BY <2>1 DEF Waits, Over, Awaits
  <2>3. DataInv'
    BY <1>0, <1>k, <1>2, <1>6, <2>2 DEF ManagerInv, DataInv
  <2>4. \A x \in Bundles : heap[x] # None => heap'[x] # None
    BY <1>2, <1>6
  <2>5. \A d \in Calls : target[d] # None => target[d] \in Bundles
    BY DEF ManagerInv, TypeOK
  <2>6. CallsInv'
    BY <2>1, <2>4, <2>5 DEF ManagerInv, CallsInv, Waits, Over, Awaits
  <2>7. \A d \in Calls : pc'[d] # "loading"
    BY <1>2, <1>4 DEF Waits
  <2> QED
    BY <2>3, <2>6, <2>7 DEF RestoreInv
<1>11. FiledInv'
  <2>1. \A t \in Sessions : bundles[t] # None =>
          heap'[bundles[t]] = heap[bundles[t]] /\ heap[bundles[t]] # None /\ heap[bundles[t]].session = t
    BY <1>5, <1>6 DEF ManagerInv, FiledInv, TypeOK
  <2>2. ASSUME NEW t \in Sessions, bundles'[t] # None
        PROVE  heap'[bundles'[t]] # None /\ heap'[bundles'[t]].session = t
    BY <1>2, <1>6, <1>7, <2>1, <2>2 DEF s
  <2> QED
    BY <2>2 DEF FiledInv
<1>12. SubscriptionsMatch'
  <2>1. ASSUME NEW x \in Bundles
        PROVE  (\E t \in Sessions : bundles'[t] = x) <=> x = b \/ (Live(x) /\ x # bundles[s])
    <3>1. ASSUME NEW t \in Sessions, bundles'[t] = x, x # b
          PROVE  Live(x) /\ x # bundles[s]
      <4>1. t # s /\ bundles[t] = x /\ x # None
        BY <1>7, <3>1, NoneAssumption
      <4>2. \A u \in Sessions : bundles[u] = x => u = t
        BY <4>1, FiledOnce
      <4> QED
        BY <1>2, <4>1, <4>2 DEF Live
    <3>2. ASSUME Live(x), x # bundles[s]
          PROVE  \E t \in Sessions : bundles'[t] = x
      BY <1>7, <3>2 DEF Live
    <3> QED
      BY <1>2, <1>7, <3>1, <3>2
  <2>2. subscribers = {x \in Bundles : Live(x) /\ x \notin unheard}
    BY DEF ManagerInv, SubscriptionsMatch
  <2>3. subscribers' = {x \in Bundles : (\E t \in Sessions : bundles'[t] = x) /\ x \notin unheard'}
    <3>1. bundles[s] # None => ~(\E t \in Sessions : bundles'[t] = bundles[s])
      <4>1. \A u \in Sessions : bundles[s] # None /\ bundles[u] = bundles[s] => u = s
        BY <1>2, FiledOnce
      <4> QED
        BY <1>2, <1>5, <1>7, <4>1
    <3>2. \A x \in Bundles : x # b =>
            (x \in subscribers' <=> x \in subscribers /\ x # bundles[s]) /\ (x \in unheard' <=> x \in unheard)
      BY <1>1
    <3>3. b \in subscribers' <=> b \notin unheard'
      BY <1>1, <1>5 DEF Fresh
    <3>4. subscribers' \subseteq Bundles
      BY <1>1, <2>2
    <3> QED
      BY <2>1, <2>2, <3>2, <3>3, <3>4
  <2> QED
    BY <2>3 DEF SubscriptionsMatch, Live
<1>13. PersistedIsActive'
  <2>1. CASE stored # data
    BY <1>0, <2>1 DEF PersistedIsActive
  <2>2. CASE stored = data
    <3>1. ActiveBundle' = b
      BY <1>0, <1>2, <1>7, NoneAssumption DEF ActiveBundle
    <3>2. stored' = heap'[b] /\ stored' # None /\ stored' \in Bundle /\ stored'.session = activeBundleId'
      BY <1>0, <1>2, <1>6, <2>2 DEF s
    <3> QED
      BY <1>5, <3>1, <3>2, PersistedNow
  <2> QED
    BY <2>1, <2>2
<1>14. HolderInv'
  BY <1>0, <1>1, <1>6 DEF ManagerInv, HolderInv, TypeOK, ConnectorTypeOK, follows
<1> QED
  BY <1>9, <1>10, <1>11, <1>12, <1>13, <1>14 DEF ManagerInv

-----------------------------------------------------------------------------
(* The theorems. *)

LEMMA ManagerStep == ManagerInv /\ [Next]_vars => ManagerInv'
<1> SUFFICES ASSUME ManagerInv, [Next]_vars PROVE ManagerInv'
  OBVIOUS
<1>1. CASE UNCHANGED vars
  <2>1. CallsMove /\ \A d \in Calls : Waits(d)
    BY <1>1, CallsWait DEF vars, ManagerInv
  <2>2. /\ UNCHANGED <<wallet, granted, taken, follows, subscribers, managerVars, stored, overtaken, reloads>>
        /\ UNCHANGED <<registered, unheard, connecting>>
    BY <1>1 DEF vars, connectorVars, sessionVars, pageVars
  <2>3. WalletGrows
    BY <2>2, WalletStays DEF ManagerInv, TypeOK, ConnectorTypeOK, follows
  <2>4. PersistedIsActive'
    BY <2>1, <2>2, <2>3, PersistedStays DEF managerVars, ActiveBundle, Waits
  <2>5. stored' # None => Justified(stored', wallet', Known')
    BY <2>2, <2>3, RecordStays
  <2> QED
    BY <2>1, <2>2, <2>4, <2>5, QuietStep DEF ManagerInv, TypeOK
<1>2. ASSUME NEW c \in Calls, CallStep(c) PROVE ManagerInv'
  <2>1. CASE \E ch \in Chains : Connect(c, ch)
    BY <2>1, ConnectSteps
  <2>2. CASE \/ ConnectRefused(c) \/ SwitchFails(c) \/ Disconnect(c)
             \/ \E ch \in Chains : SwitchChain(c, ch)
             \/ \E s \in Sessions : RevokeSession(c, s)
    BY <2>2, BeginSteps
  <2>3. CASE Connected(c) \/ SwitchAnswered(c)
    BY <2>3, AttachSteps, SwitchSteps
  <2>4. CASE FeesRefreshed(c) \/ RestoreExpired(c)
    BY <2>4, RecordSteps
  <2>5. CASE Disconnected(c) \/ Revoked(c) \/ \E s \in Sessions : RevokeUnasked(c, s)
    BY <2>5, TearDownSteps
  <2>6. CASE Reload(c) \/ Restored(c)
    BY <2>6, ReloadSteps, RestoredSteps
  <2> QED
    BY <1>2, <2>1, <2>2, <2>3, <2>4, <2>5, <2>6 DEF CallStep
<1>3. ASSUME NEW ch \in Chains, AttachPaired(ch) \/ SyncExternalChain(ch) \/ DisconnectChain(ch)
      PROVE  ManagerInv'
  BY <1>3, AttachSteps, SwitchSteps, DisconnectChainSteps
<1>4. ASSUME NEW s \in Sessions, WalletStep(s) PROVE ManagerInv'
  BY <1>4, TearDownSteps, RecordSteps, UpdateSteps, ChangedChainSteps DEF WalletStep
<1>5. ASSUME NEW s \in Sessions, (\E ch \in Chains : AttachAgain(s, ch)) \/ Reconnect(s) PROVE ManagerInv'
  BY <1>5, AttachSteps, RecordSteps
<1>6. CASE RegisterConnector
  BY <1>6, RecordSteps
<1> QED
  BY <1>1, <1>2, <1>3, <1>4, <1>5, <1>6 DEF Next

\* Calls, wallet events and reloads keep the invariant, in any order.
THEOREM ManagerInvariance == Spec => []ManagerInv
<1>1. Init => ManagerInv
  BY ManagerInit
<1>2. ManagerInv /\ [Next]_vars => ManagerInv'
  BY ManagerStep
<1> QED
  BY <1>1, <1>2, PTL DEF Spec

\* Every variable of the manager keeps its type; in particular the manager lists the
\* sessions it has once each, and never has more than one above its maximum.
THEOREM ManagerTypeCorrect == Spec => []TypeOK
<1>1. ManagerInv => TypeOK
  BY DEF ManagerInv
<1> QED
  BY <1>1, ManagerInvariance, PTL

\* attach(), evictions, restorations and teardowns leave a handler exactly on the
\* bundles in use, but for those restored before their connector was registered:
\* those never get one.
THEOREM SubscriptionsAreExact == Spec => []SubscriptionsMatch
<1>1. ManagerInv => SubscriptionsMatch
  BY DEF ManagerInv
<1> QED
  BY <1>1, ManagerInvariance, PTL

\* narrowNamespaces(), switchChain() and disconnectChain() leave no bundle with chain
\* sessions and an active chain that is not one of them.
THEOREM ActiveChainIsKept == Spec => []ActiveChainHasSession
<1>1. ManagerInv => ActiveChainHasSession
  BY DEF ManagerInv, TypeOK, FiledInv, DataInv, Justified, ActiveChainHasSession
<1> QED
  BY <1>1, ManagerInvariance, PTL

\* persistBundle() and the clearings of the record keep it the active session's,
\* except after a call that lost the active session while it waited, and but for the
\* chains of the wallet's chainChanged events.
THEOREM RecordIsActive == Spec => []PersistedIsActive
<1>1. ManagerInv => PersistedIsActive
  BY DEF ManagerInv
<1> QED
  BY <1>1, ManagerInvariance, PTL

\* A session has no chain, in memory or in the record, that was not approved with it,
\* asked for, or put in by the wallet in one of the three ways that are not narrowed:
\* chainChanged, syncExternalChain(), reconnect().  No session_update, restoration or
\* late call adds another.
THEOREM ScopeIsJustified == Spec => []ScopeJustified
<1>1. ASSUME ManagerInv PROVE ScopeJustified
  <2>1. ASSUME NEW s \in Sessions, bundles[s] # None 
        PROVE  heap[bundles[s]].scope \subseteq granted[s] \cup taken[s]
    BY <1>1, <2>1, FiledOnce, NoneAssumption DEF ManagerInv, DataInv, Justified, Known
  <2>2. ASSUME NEW s \in Sessions, stored # None, stored.session = s
        PROVE  stored.scope \subseteq granted[s] \cup taken[s]
    BY <1>1, <2>2 DEF ManagerInv, DataInv, Justified, Known
  <2> QED
    BY <2>1, <2>2 DEF ScopeJustified
<1> QED
  BY <1>1, ManagerInvariance, PTL

=============================================================================
