------------------------------ MODULE EngineProofs ------------------------------
(* Proofs about the wallet, its storages, its signer and its transaction        *)
(* monitor, for any number of calls, keys, records, requests, transactions and  *)
(* blocks: what is signed is signed by the account that was shown, what is      *)
(* stored can be recovered, what is confirmed was mined.                        *)
EXTENDS MCEngine, SumLemmas, TLAPS

(* ------------------------------------------------------------------ wallet *)
WalletData == [of : WalletSecrets, accounts : SUBSET Accounts, active : Namespaces]
OnePerNamespace(d) == \A a, b \in d.accounts : a.ns = b.ns => a = b

DataInv ==
  /\ data # None => data \in WalletData /\ OnePerNamespace(data)
  /\ record # None => record \in WalletData
\* The worker holds the key of the wallet in memory, or none.
WorkerInv == isolated /\ EvmAccount # None => worker \in {EvmAccount, None}

\* What a call that has captured an account or a wallet holds.
PreparedSteps == {"preparing", "authorized", "estimating"}
PreparedTasks == [pc : PreparedSteps, from : Accounts, account : Accounts \cup {Shredded}, epoch : Nat,
                  by : SUBSET (Accounts \cup {None})]
OwnedTasks == [pc : {"owned"}, of : WalletSecrets, account : Accounts \cup {Shredded}, owner : Accounts, epoch : Nat]
ShapeOf(t) ==
  /\ t.pc \in PreparedSteps => t \in PreparedTasks
  /\ t.pc = "owned" => t \in OwnedTasks
  /\ "account" \in DOMAIN t => t.pc \in PreparedSteps \cup {"owned"}
  /\ t.pc \in {"deriving", "seeding", "backfilling"} => t.of \in WalletSecrets
  /\ t.pc \in {"saving", "loading"} => t.record \in WalletData

\* What it has signed so far, when so many keys were given to the signer and the
\* worker holds this one. A delegation whose key was replaced since is stopped by its
\* last check of the epoch.
SignedSoFar(t, now, key) ==
  /\ t.pc \in PreparedSteps => t.account \in {t.from, Shredded}
  /\ t.pc = "preparing" => t.by = {}
  /\ t.pc \in {"authorized", "estimating"} =>
       /\ t.by = {t.from} /\ t.epoch <= now /\ t.from.ns = "eip155"
       /\ t.epoch = now /\ isolated => key \in {t.from, None}
  /\ t.pc = "delegating" => t.epoch \in Nat /\ t.epoch <= now /\ (t.epoch = now => t.by = {t.from})
  /\ t.pc \in {"signed", "sent"} => t.by = {t.from}

WalletInv ==
  /\ epoch \in Nat /\ DataInv /\ WorkerInv
  /\ tasks = [c \in WalletCalls |-> tasks[c]]
  /\ \A c \in WalletCalls : ShapeOf(tasks[c]) /\ SignedSoFar(tasks[c], epoch, worker)

(* ------------------------------------------------------------------ signer *)
Messages == [type : {"init", "sign", "clear"}, key : SignerKeys \cup {None}, id : Ids \cap 1..seq]
Replies == [id : Ids \cap 1..seq, said : SignerKeys \cup {"ready", "cleared", "rejected"}]

\* The worker's key once it has read n more messages.
LoadedAfter(t, n, key) ==
  \/ key = t.key /\ \A i \in 1..n : t.inbox[i].type = "sign"
  \/ \E i \in 1..n : /\ t.inbox[i].type # "sign" /\ t.inbox[i].key = key
                     /\ \A j \in (i + 1)..n : t.inbox[j].type = "sign"

ThreadInv ==
  thread # None =>
    /\ thread \in [key : SignerKeys \cup {None}, inbox : Seq(Messages), replies : Seq(Replies)]
    /\ \A n \in DOMAIN thread.inbox : thread.inbox[n].type = "sign" =>
         LoadedAfter(thread, n - 1, asked[thread.inbox[n].id])
    /\ \A n \in DOMAIN thread.replies :
         thread.replies[n].said \in SignerKeys => thread.replies[n].said = asked[thread.replies[n].id]
SignerInv ==
  /\ seq \in Nat /\ waiting \subseteq Ids
  /\ asked \in [Ids -> SignerKeys \cup {None}]
  /\ answers \in [Ids -> SignerKeys \cup {None, "ready", "cleared", "rejected"}]
  /\ ThreadInv /\ SignatureOfTheRequest

(* --------------------------------------------------------------- storages *)
\* Passphrases that were proven, or typed where nothing had to be.
Recovers(p) == p \in typed \cup {r.pass : r \in FirstRecords}
VaultInv ==
  /\ vaultTasks = [c \in VaultCalls |-> vaultTasks[c]]
  /\ vault # None => Recovers(vault.pass)
  /\ verified # None => Recovers(verified)
  /\ \A c \in VaultCalls :
       /\ vaultTasks[c].pc \in {"touching", "typing", "writing"} => Recovers(vaultTasks[c].rec.pass)
       /\ vaultTasks[c].pc = "sealing" => Recovers(vaultTasks[c].pass)
       /\ vaultTasks[c].pc = "touching" => "rec" \in DOMAIN vaultTasks[c]

\* While no clear has overtaken a save or lost the key, whatever is sealed is sealed
\* with the key that is stored, and a clear that is not over has nothing to be
\* overtaken by.
KeyStoreInv ==
  /\ storeTasks = [c \in StoreCalls |-> storeTasks[c]] /\ overtaken \in BOOLEAN /\ keyLost \in BOOLEAN
  /\ storeKey \in StoreKeys \cup {None} /\ blob \in StoreKeys \cup {None}
  /\ keyPromise \in {None, Pending} \cup {Minting(k) : k \in StoreKeys} \cup {Settled(k) : k \in StoreKeys}
  /\ \A c \in StoreCalls : storeTasks[c].pc = "writing" => storeTasks[c].key \in StoreKeys
  /\ keyPromise # None =>
       \A k \in StoreKeys : /\ keyPromise = Minting(k) => storeKey = None
                            /\ keyPromise = Settled(k) => storeKey = k \/ keyLost
  /\ ~overtaken /\ ~keyLost =>
       \A c \in StoreCalls : storeTasks[c].pc = "writing" => storeTasks[c].key = storeKey
  /\ ~overtaken => (Running({"deleting"}) => blob = None /\ ~Running({"keying", "writing"}))
  /\ RecordHasItsKey

EngineInv == WalletInv /\ SignerInv /\ VaultInv /\ KeyStoreInv
-----------------------------------------------------------------------------
(* The wallet: its accounts. *)

LEMMA HoldingIs ==
  ASSUME NEW d, d # None => d \in WalletData, NEW n, Holding(d, n) # None
  PROVE  /\ d # None /\ d \in WalletData /\ Holding(d, n) \in d.accounts
         /\ Holding(d, n) \in Accounts /\ Holding(d, n).ns = n
<1>1. d # None /\ d \in WalletData /\ \E a \in d.accounts : a.ns = n
  BY DEF Holding
<1>2. Holding(d, n) = CHOOSE a \in d.accounts : a.ns = n
  BY <1>1 DEF Holding
<1>3. Holding(d, n) \in d.accounts /\ Holding(d, n).ns = n
  BY <1>1, <1>2
<1>4. d.accounts \subseteq Accounts
  BY <1>1 DEF WalletData
<1> QED
  BY <1>1, <1>3, <1>4

LEMMA HoldingNone ==
  ASSUME NEW d \in WalletData, d # None, NEW n, Holding(d, n) = None
  PROVE  \A a \in d.accounts : a.ns # n
<1> SUFFICES ASSUME NEW a \in d.accounts, a.ns = n PROVE FALSE
  OBVIOUS
<1>1. Holding(d, n) = CHOOSE b \in d.accounts : b.ns = n
  BY DEF Holding
<1>2. Holding(d, n) \in d.accounts /\ d.accounts \subseteq Accounts
  BY <1>1 DEF WalletData
<1> QED
  BY <1>2, AccountsAssumption

\* A wallet that is derived has one account on each of its namespaces.
LEMMA DerivedFacts ==
  ASSUME NEW w \in WalletSecrets
  PROVE  /\ Derived(w) \subseteq Accounts
         /\ \A a, b \in Derived(w) : a.ns = b.ns => a = b
BY DEF Derived, Account, Accounts, Namespaces

LEMMA NewWalletFacts ==
  ASSUME NEW w \in WalletSecrets
  PROVE  NewWallet(w) \in WalletData /\ OnePerNamespace(NewWallet(w))
BY DerivedFacts DEF NewWallet, WalletData, OnePerNamespace, Namespaces

LEMMA MigratedFacts ==
  ASSUME NEW w \in WalletSecrets
  PROVE  Migrated(w) \in WalletData
BY DEF Migrated, WalletData, Namespaces, Account, Accounts

LEMMA ActiveFacts ==
  ASSUME WalletInv, ActiveAccount # None
  PROVE  /\ data # None /\ data \in WalletData /\ ActiveAccount \in Accounts
         /\ ActiveAccount.ns = data.active
         /\ ActiveAccount.ns = "eip155" => ActiveAccount = EvmAccount
BY HoldingIs DEF WalletInv, DataInv, ActiveAccount, EvmAccount

\* A signature for the account that is active is made by its key.
LEMMA ActiveSigns ==
  ASSUME WalletInv, ActiveAccount # None, SignedWith(ActiveAccount) # None
  PROVE  SignedWith(ActiveAccount) = ActiveAccount
BY ActiveFacts DEF WalletInv, WorkerInv, SignedWith

LEMMA WalletInitHolds == WalletInit => WalletInv
<1> SUFFICES ASSUME WalletInit PROVE WalletInv
  OBVIOUS
<1>1. DataInv
  <2>1. record # None => record \in {Migrated(w) : w \in OldRecords}
    BY DEF WalletInit
  <2>2. \A w \in OldRecords : w \in WalletSecrets
    BY AccountsAssumption DEF WalletSecrets
  <2> QED
    BY <2>1, <2>2, MigratedFacts DEF DataInv, WalletInit
<1>2. WorkerInv
  BY DEF WorkerInv, WalletInit
<1>3. tasks = [c \in WalletCalls |-> Idle]
  BY DEF WalletInit
<1>4. ShapeOf(Idle) /\ SignedSoFar(Idle, epoch, worker)
  BY DEF ShapeOf, SignedSoFar, Idle, PreparedSteps
<1> QED
  BY <1>1, <1>2, <1>3, <1>4 DEF WalletInv, WalletInit

\* A call goes on, and the signer is left, emptied or given another key.
LEMMA CallSteps ==
  ASSUME WalletInv, NEW c \in WalletCalls, NEW t, WalletGoes(c, t), UNCHANGED isolated,
         DataInv', WorkerInv', ShapeOf(t), SignedSoFar(t, epoch', worker'),
         \/ epoch' = epoch /\ worker' \in {worker, None}
         \/ epoch' = epoch + 1
  PROVE  WalletInv'
<1>1. epoch' \in Nat /\ tasks' = [tasks EXCEPT ![c] = t]
  BY DEF WalletInv, WalletGoes
<1>2. ASSUME NEW d \in WalletCalls, d # c
      PROVE  SignedSoFar(tasks[d], epoch', worker')
  <2>1. epoch \in Nat /\ ShapeOf(tasks[d]) /\ SignedSoFar(tasks[d], epoch, worker)
    BY DEF WalletInv
  <2>2. tasks[d].pc \in PreparedSteps => tasks[d].epoch \in Nat
    BY <2>1 DEF ShapeOf, PreparedTasks
  <2> QED
    BY <2>1, <2>2 DEF SignedSoFar, PreparedSteps
<1>3. tasks' = [d \in WalletCalls |-> tasks'[d]] /\ tasks'[c] = t
      /\ \A d \in WalletCalls : d # c => tasks'[d] = tasks[d]
  BY <1>1 DEF WalletInv
<1>4. \A d \in WalletCalls : ShapeOf(tasks'[d])
  BY <1>3 DEF WalletInv
<1>5. \A d \in WalletCalls : SignedSoFar(tasks'[d], epoch', worker')
  BY <1>2, <1>3
<1>6. \A d \in WalletCalls : SignedSoFar(tasks[d], epoch, worker)'
  BY <1>5 DEF SignedSoFar
<1> QED
  BY <1>1, <1>3, <1>4, <1>6 DEF WalletInv

\* A step of a call that leaves the wallet in memory and its signer alone.
LEMMA QuietSteps ==
  ASSUME WalletInv, NEW c \in WalletCalls, NEW t, WalletGoes(c, t), SameWallet,
         record' # None => record' \in WalletData, ShapeOf(t), SignedSoFar(t, epoch, worker)
  PROVE  WalletInv'
<1>1. DataInv' /\ WorkerInv'
  BY DEF WalletInv, DataInv, WorkerInv, SameWallet, OnePerNamespace, EvmAccount
<1> QED
  BY <1>1, CallSteps DEF SameWallet

\* A step that ends its call, or goes on with nothing captured.
LEMMA PlainTasks ==
  ASSUME NEW t, t.pc \notin PreparedSteps, t.pc \notin {"owned", "deriving", "seeding", "backfilling", "saving",
           "loading", "delegating", "signed", "sent"}, "account" \notin DOMAIN t
  PROVE  ShapeOf(t) /\ SignedSoFar(t, epoch, worker) /\ SignedSoFar(t, epoch', worker')
BY DEF ShapeOf, SignedSoFar, PreparedSteps

\* The wallet in memory is replaced, and its key given to the worker.
LEMMA AdoptsKeeps ==
  ASSUME WalletInv, NEW d \in WalletData, OnePerNamespace(d), Adopts(d), UNCHANGED <<isolated, record>>
  PROVE  DataInv' /\ WorkerInv' /\ epoch' = epoch + 1
<1>1. data' = d /\ epoch' = epoch + 1 /\ worker' = (IF isolated THEN Holding(d, "eip155") ELSE None)
  BY DEF Adopts
<1>2. DataInv'
  BY <1>1 DEF WalletInv, DataInv, OnePerNamespace
<1>3. EvmAccount' = Holding(d, "eip155")
  BY <1>1 DEF EvmAccount, Holding
<1> QED
  BY <1>1, <1>2, <1>3 DEF WorkerInv

(* ----------------------------------------------------- the wallet: lifecycle *)
LEMMA TaskFacts ==
  ASSUME WalletInv, NEW c \in WalletCalls
  PROVE  ShapeOf(tasks[c]) /\ SignedSoFar(tasks[c], epoch, worker)
BY DEF WalletInv

LEMMA AdoptSteps ==
  ASSUME WalletInv, NEW c \in WalletCalls, AdoptPhrase(c) \/ ImportRaw(c) \/ Derives(c)
  PROVE  WalletInv'
<1>1. CASE AdoptPhrase(c) \/ ImportRaw(c)
  <2>1. PICK w \in WalletSecrets : WalletGoes(c, [pc |-> "deriving", of |-> w])
    BY <1>1 DEF AdoptPhrase, ImportRaw, WalletSecrets
  <2>2. SameWallet /\ record' = record
    BY <1>1 DEF AdoptPhrase, ImportRaw
  <2>3. /\ ShapeOf([pc |-> "deriving", of |-> w])
        /\ SignedSoFar([pc |-> "deriving", of |-> w], epoch, worker)
    BY DEF ShapeOf, SignedSoFar, PreparedSteps
  <2> QED
    BY <2>1, <2>2, <2>3, QuietSteps DEF WalletInv, DataInv
<1>2. CASE Derives(c)
  <2> DEFINE t == [pc |-> IF tasks[c].of \in Phrases THEN "keyed" ELSE "idle"]
  <2>1. tasks[c].of \in WalletSecrets
    BY <1>2, TaskFacts DEF Derives, At, ShapeOf
  <2>2. Adopts(NewWallet(tasks[c].of)) /\ WalletGoes(c, t) /\ UNCHANGED <<isolated, record>>
    BY <1>2 DEF Derives
  <2>3. DataInv' /\ WorkerInv' /\ epoch' = epoch + 1
    BY <2>1, <2>2, NewWalletFacts, AdoptsKeeps
  <2>4. ShapeOf(t) /\ SignedSoFar(t, epoch', worker')
    BY PlainTasks DEF PreparedSteps
  <2> HIDE DEF t
  <2> QED
    BY <2>2, <2>3, <2>4, CallSteps
<1> QED
  BY <1>1, <1>2

LEMMA IdleTask ==
  /\ ShapeOf(Idle) /\ SignedSoFar(Idle, epoch, worker) /\ SignedSoFar(Idle, epoch', worker')
BY PlainTasks DEF Idle, PreparedSteps

LEMMA StorageSteps ==
  ASSUME WalletInv, NEW c \in WalletCalls, SaveBegins(c) \/ Saves(c) \/ LoadBegins(c) \/ Loads(c)
  PROVE  WalletInv'
<1>1. CASE SaveBegins(c)
  <2> DEFINE t == [pc |-> "saving", record |-> Storing(data)]
  <2>1. SameWallet /\ record' = record /\ WalletGoes(c, IF Storable(data) THEN t ELSE Idle)
    BY <1>1 DEF SaveBegins, Ends
  <2>2. Storable(data) => ShapeOf(t) /\ SignedSoFar(t, epoch, worker)
    <3>1. Storable(data) => Storing(data) \in WalletData
      BY DEF Storable, Storing, WalletData, WalletInv, DataInv
    <3> QED
      BY <3>1 DEF ShapeOf, SignedSoFar, PreparedSteps
  <2> HIDE DEF t
  <2> QED
    BY <2>1, <2>2, IdleTask, QuietSteps DEF WalletInv, DataInv
<1>2. CASE Saves(c)
  <2>1. SameWallet /\ record' = tasks[c].record /\ WalletGoes(c, Idle)
    BY <1>2 DEF Saves, Ends
  <2>2. tasks[c].record \in WalletData
    BY <1>2, TaskFacts DEF Saves, At, ShapeOf
  <2> QED
    BY <2>1, <2>2, IdleTask, QuietSteps
<1>3. CASE LoadBegins(c)
  <2> DEFINE t == [pc |-> "loading", record |-> record]
  <2>1. SameWallet /\ record' = record /\ WalletGoes(c, t) /\ record \in WalletData
    BY <1>3 DEF LoadBegins, WalletInv, DataInv
  <2>2. ShapeOf(t) /\ SignedSoFar(t, epoch, worker)
    BY <2>1 DEF ShapeOf, SignedSoFar, PreparedSteps
  <2> HIDE DEF t
  <2> QED
    BY <2>1, <2>2, QuietSteps
<1>4. CASE Loads(c)
  <2>1. tasks[c].record \in WalletData /\ WalletGoes(c, Idle) /\ UNCHANGED <<isolated, record>>
    BY <1>4, TaskFacts DEF Loads, Ends, At, ShapeOf
  <2>2. CASE Opens(tasks[c].record)
    <3>1. Adopts(tasks[c].record)
      BY <1>4, <2>2 DEF Loads
    <3>2. OnePerNamespace(tasks[c].record)
      BY <2>1, <2>2, DerivedFacts DEF Opens, OnePerNamespace, WalletData
    <3>3. DataInv' /\ WorkerInv' /\ epoch' = epoch + 1
      BY <2>1, <3>1, <3>2, AdoptsKeeps
    <3> QED
      BY <2>1, <3>3, IdleTask, CallSteps
  <2>3. CASE ~Opens(tasks[c].record)
    <3>1. SameWallet
      BY <1>4, <2>1, <2>3 DEF Loads, SameWallet
    <3> QED
      BY <2>1, <3>1, IdleTask, QuietSteps DEF WalletInv, DataInv
  <2> QED
    BY <2>2, <2>3
<1> QED
  BY <1>1, <1>2, <1>3, <1>4

\* Accounts are only added for the namespaces the wallet has none of.
LEMMA BackfillSteps ==
  ASSUME WalletInv, NEW c \in WalletCalls, BackfillBegins(c) \/ Backfills(c)
  PROVE  WalletInv'
<1>1. CASE BackfillBegins(c)
  <2> DEFINE t == [pc |-> "backfilling", of |-> data.of]
  <2>1. SameWallet /\ record' = record /\ WalletGoes(c, t) /\ data.of \in WalletSecrets
    BY <1>1 DEF BackfillBegins, WalletSecrets
  <2>2. ShapeOf(t) /\ SignedSoFar(t, epoch, worker)
    BY <2>1 DEF ShapeOf, SignedSoFar, PreparedSteps
  <2> HIDE DEF t
  <2> QED
    BY <2>1, <2>2, QuietSteps DEF WalletInv, DataInv
<1>2. CASE Backfills(c)
  <2> DEFINE w == tasks[c].of
             missing == {a \in Derived(w) : Holding(data, a.ns) = None}
             full == [data EXCEPT !.accounts = @ \union missing]
  <2>1. /\ w \in WalletSecrets /\ WalletGoes(c, Idle) /\ UNCHANGED <<isolated, record>>
        /\ IF data = None \/ missing = {} THEN UNCHANGED <<data, worker, epoch, sessionMgr>>
           ELSE IF \E a \in missing : a.ns = "eip155" THEN Adopts(full)
           ELSE data' = full /\ UNCHANGED <<worker, epoch, sessionMgr>>
    BY <1>2, TaskFacts DEF Backfills, Ends, At, ShapeOf
  <2>2. CASE data = None \/ missing = {}
    <3>1. SameWallet
      BY <2>1, <2>2 DEF SameWallet
    <3> QED
      BY <2>1, <3>1, IdleTask, QuietSteps DEF WalletInv, DataInv
  <2>3. CASE data # None /\ missing # {}
    <3>1. data \in WalletData /\ OnePerNamespace(data)
      BY <2>3 DEF WalletInv, DataInv
    <3>2. \A a \in missing, b \in data.accounts : a.ns # b.ns
      BY <2>3, <3>1, HoldingNone
    <3>3. /\ \A a, b \in missing : a.ns = b.ns => a = b
          /\ missing \subseteq Accounts
      BY <2>1, DerivedFacts
    <3> HIDE DEF missing
    <3>4. full \in WalletData /\ full.accounts = data.accounts \cup missing
      BY <3>1, <3>3 DEF WalletData
    <3>5. OnePerNamespace(full)
      BY <3>1, <3>2, <3>3, <3>4 DEF OnePerNamespace
    <3> HIDE DEF full
    <3>6. CASE \E a \in missing : a.ns = "eip155"
      <4>1. Adopts(full)
        BY <2>1, <2>3, <3>6
      <4>2. DataInv' /\ WorkerInv' /\ epoch' = epoch + 1
        BY <2>1, <3>4, <3>5, <4>1, AdoptsKeeps
      <4> QED
        BY <2>1, <4>2, IdleTask, CallSteps
    <3>7. CASE ~\E a \in missing : a.ns = "eip155"
      <4>1. data' = full /\ UNCHANGED <<worker, epoch, sessionMgr>>
        BY <2>1, <2>3, <3>7
      <4>2. EvmAccount' = Holding(full, "eip155")
        BY <4>1 DEF EvmAccount, Holding
      <4>3. EvmAccount' # None => EvmAccount' \in data.accounts /\ EvmAccount'.ns = "eip155"
        BY <3>4, <3>7, <4>2, HoldingIs
      <4>4. EvmAccount' # None => EvmAccount = EvmAccount'
        <5>1. SUFFICES ASSUME EvmAccount' # None PROVE EvmAccount = EvmAccount'
          OBVIOUS
        <5>2. EvmAccount' \in data.accounts /\ EvmAccount'.ns = "eip155"
          BY <4>3, <5>1
        <5>3. EvmAccount # None
          BY <2>3, <3>1, <5>2, HoldingNone DEF EvmAccount
        <5>4. EvmAccount \in data.accounts /\ EvmAccount.ns = "eip155"
          BY <3>1, <5>3, HoldingIs DEF EvmAccount
        <5> QED
          BY <3>1, <5>2, <5>4 DEF OnePerNamespace
      <4>5. WorkerInv'
        BY <2>1, <4>1, <4>4 DEF WalletInv, WorkerInv
      <4>6. DataInv'
        BY <2>1, <3>4, <3>5, <4>1 DEF WalletInv, DataInv, OnePerNamespace
      <4> QED
        BY <2>1, <4>1, <4>5, <4>6, IdleTask, CallSteps
    <3> QED
      BY <3>6, <3>7
  <2> QED
    BY <2>2, <2>3
<1> QED
  BY <1>1, <1>2

LEMMA NamespaceStep ==
  ASSUME WalletInv, NEW n \in Namespaces, SetActiveNamespace(n)
  PROVE  WalletInv'
<1>1. /\ data # None /\ data \in WalletData /\ data' = [data EXCEPT !.active = n]
      /\ UNCHANGED <<isolated, worker, epoch, sessionMgr, record, tasks>>
  BY HoldingIs DEF SetActiveNamespace, WalletInv, DataInv
<1>2. data' \in WalletData /\ data'.accounts = data.accounts
  BY <1>1 DEF WalletData
<1>3. DataInv'
  BY <1>1, <1>2 DEF WalletInv, DataInv, OnePerNamespace
<1>4. EvmAccount' # None => EvmAccount' = EvmAccount
  BY <1>1, <1>2 DEF EvmAccount, Holding
<1>5. WorkerInv'
  BY <1>1, <1>4 DEF WalletInv, WorkerInv
<1> QED
  BY <1>1, <1>3, <1>5 DEF WalletInv, SignedSoFar

\* The wallet is dropped: nothing is left that the worker could disagree with.
LEMMA DroppedKeeps ==
  ASSUME WalletInv, data' = None, record' \in {record, None}, UNCHANGED isolated
  PROVE  DataInv' /\ WorkerInv'
BY DEF WalletInv, DataInv, WorkerInv, EvmAccount, Holding, OnePerNamespace

LEMMA ClearSteps ==
  ASSUME WalletInv, NEW c \in WalletCalls, Clear(c) \/ Cleared(c) \/ Wiped(c) \/ CallEnds(c)
  PROVE  WalletInv'
<1>1. CASE Clear(c)
  <2> DEFINE t == [pc |-> "cleared"]
  <2>1. WalletGoes(c, t) /\ UNCHANGED <<isolated, worker, epoch>> /\ data' = None /\ record' = None
    BY <1>1 DEF Clear
  <2>2. ShapeOf(t) /\ SignedSoFar(t, epoch', worker')
    BY PlainTasks DEF PreparedSteps
  <2> HIDE DEF t
  <2> QED
    BY <2>1, <2>2, DroppedKeeps, CallSteps
<1>2. CASE Cleared(c)
  <2>1. worker' = None /\ WalletGoes(c, Idle) /\ UNCHANGED <<data, isolated, epoch, sessionMgr, record>>
    BY <1>2 DEF Cleared, Ends
  <2>2. DataInv' /\ WorkerInv'
    BY <2>1 DEF WalletInv, DataInv, WorkerInv, OnePerNamespace
  <2> QED
    BY <2>1, <2>2, IdleTask, CallSteps
<1>3. CASE Wiped(c) \/ CallEnds(c)
  <2>1. record' \in {record, None} /\ WalletGoes(c, Idle) /\ SameWallet
    BY <1>3 DEF Wiped, CallEnds, Ends
  <2> QED
    BY <2>1, IdleTask, QuietSteps DEF WalletInv, DataInv
<1> QED
  BY <1>1, <1>2, <1>3

\* Keys are overwritten: a call that took one can sign no more.
LEMMA ShredsKeeps ==
  ASSUME WalletInv, NEW except, NEW t, Shreds(except, t), ShapeOf(t), SignedSoFar(t, epoch', worker'),
         data' = None, worker' = None, UNCHANGED <<isolated, epoch, record>>
  PROVE  WalletInv'
<1>1. DataInv' /\ WorkerInv'
  BY DroppedKeeps
<1>2. tasks' = [c \in WalletCalls |-> tasks'[c]]
  BY DEF Shreds
<1>3. ASSUME NEW c \in WalletCalls
      PROVE  ShapeOf(tasks'[c]) /\ SignedSoFar(tasks'[c], epoch', worker')
  <2>1. ShapeOf(tasks[c]) /\ SignedSoFar(tasks[c], epoch, worker)
    BY TaskFacts
  <2>2. SignedSoFar(tasks[c], epoch', worker')
    BY <2>1 DEF SignedSoFar
  <2>3. \/ tasks'[c] = t
        \/ tasks'[c] = tasks[c]
        \/ "account" \in DOMAIN tasks[c] /\ tasks'[c] = [tasks[c] EXCEPT !.account = Shredded]
    BY DEF Shreds
  <2>4. CASE "account" \in DOMAIN tasks[c] /\ tasks'[c] = [tasks[c] EXCEPT !.account = Shredded]
    <3> DEFINE u == [tasks[c] EXCEPT !.account = Shredded]
    <3>1. CASE tasks[c].pc \in PreparedSteps
      <4>1. tasks[c] \in PreparedTasks
        BY <2>1, <3>1 DEF ShapeOf
      <4>2. u \in PreparedTasks /\ u.pc = tasks[c].pc /\ u.from = tasks[c].from /\ u.account = Shredded
            /\ u.by = tasks[c].by /\ u.epoch = tasks[c].epoch
        BY <4>1 DEF PreparedTasks
      <4> HIDE DEF u
      <4>3. ShapeOf(u)
        BY <3>1, <4>2 DEF ShapeOf, PreparedSteps
      <4>4. SignedSoFar(u, epoch', worker')
        BY <2>2, <3>1, <4>2 DEF SignedSoFar, PreparedSteps
      <4> QED
        BY <2>4, <4>3, <4>4 DEF u
    <3>2. CASE tasks[c].pc = "owned"
      <4>1. tasks[c] \in OwnedTasks
        BY <2>1, <3>2 DEF ShapeOf
      <4>2. u \in OwnedTasks /\ u.pc = "owned"
        BY <4>1 DEF OwnedTasks
      <4> HIDE DEF u
      <4>3. ShapeOf(u) /\ SignedSoFar(u, epoch', worker')
        BY <4>2 DEF ShapeOf, SignedSoFar, PreparedSteps
      <4> QED
        BY <2>4, <4>3 DEF u
    <3> QED
      BY <2>1, <2>4, <3>1, <3>2 DEF ShapeOf
  <2> QED
    BY <2>1, <2>2, <2>3, <2>4
<1>4. \A c \in WalletCalls : SignedSoFar(tasks[c], epoch, worker)'
  BY <1>3 DEF SignedSoFar
<1> QED
  BY <1>1, <1>2, <1>3, <1>4 DEF WalletInv

LEMMA WipeSteps ==
  ASSUME WalletInv, DestroySession \/ \E c \in WalletCalls : Wipe(c)
  PROVE  WalletInv'
<1>1. CASE DestroySession
  BY <1>1, IdleTask, ShredsKeeps DEF DestroySession
<1>2. ASSUME NEW c \in WalletCalls, Wipe(c)
      PROVE  WalletInv'
  <2> DEFINE t == [pc |-> "wiped"]
  <2>1. /\ Shreds(c, t) /\ data' = None /\ worker' = None /\ UNCHANGED <<isolated, epoch, record>>
    BY <1>2 DEF Wipe
  <2>2. ShapeOf(t) /\ SignedSoFar(t, epoch', worker')
    BY PlainTasks DEF PreparedSteps
  <2> HIDE DEF t
  <2> QED
    BY <2>1, <2>2, ShredsKeeps
<1> QED
  BY <1>1, <1>2

(* -------------------------------------------------- the wallet: transactions *)
\* A signature by the account it is from.
LEMMA SentTask ==
  ASSUME NEW a, NEW pc \in {"sent", "signed"}, NEW t, t.pc = pc, t.from = a, t.by = {a}, "account" \notin DOMAIN t
  PROVE  ShapeOf(t) /\ SignedSoFar(t, epoch, worker)
BY DEF ShapeOf, SignedSoFar, PreparedSteps

\* A call that has captured the account it was shown.
LEMMA CapturedTask ==
  ASSUME WalletInv, NEW a \in Accounts, NEW pc \in PreparedSteps, NEW by \in SUBSET (Accounts \cup {None}), NEW t,
         t = [pc |-> pc, from |-> a, account |-> a, epoch |-> epoch, by |-> by],
         pc = "preparing" => by = {},
         pc # "preparing" => by = {a} /\ a.ns = "eip155" /\ (isolated => worker \in {a, None})
  PROVE  ShapeOf(t) /\ SignedSoFar(t, epoch, worker)
<1>1. epoch \in Nat
  BY DEF WalletInv
<1>2. t \in PreparedTasks
  BY <1>1 DEF PreparedTasks
<1>3. t.pc = pc /\ t.from = a /\ t.account = a /\ t.epoch = epoch /\ t.by = by
  OBVIOUS
<1>4. ShapeOf(t)
  BY <1>2, <1>3 DEF ShapeOf, PreparedSteps
<1>5. SignedSoFar(t, epoch, worker)
  BY <1>1, <1>3 DEF SignedSoFar, PreparedSteps
<1> QED
  BY <1>4, <1>5

LEMMA BeginSteps ==
  ASSUME WalletInv, NEW c \in WalletCalls, SignBegins(c) \/ SolanaSends(c) \/ BumpBegins(c) \/ SendBegins(c)
  PROVE  WalletInv'
<1>0. record' # None => record' \in WalletData
  BY DEF WalletInv, DataInv, SignBegins, SolanaSends, BumpBegins, SendBegins
<1>1. CASE SignBegins(c)
  <2> DEFINE t == [pc |-> "sent", from |-> ActiveAccount, by |-> {SignedWith(ActiveAccount)}]
  <2>1. WalletGoes(c, t) /\ SameWallet /\ SignedWith(ActiveAccount) = ActiveAccount
    BY <1>1, ActiveSigns DEF SignBegins
  <2>2. t.pc = "sent" /\ t.from = ActiveAccount /\ t.by = {ActiveAccount} /\ "account" \notin DOMAIN t
    BY <2>1
  <2> HIDE DEF t
  <2> QED
    BY <1>0, <2>1, <2>2, SentTask, QuietSteps
<1>2. CASE SolanaSends(c)
  <2> DEFINE a == Holding(data, "solana")
             t == [pc |-> "sent", from |-> a, by |-> {a}]
  <2>1. WalletGoes(c, t) /\ SameWallet
    BY <1>2 DEF SolanaSends
  <2>2. t.pc = "sent" /\ t.from = a /\ t.by = {a} /\ "account" \notin DOMAIN t
    OBVIOUS
  <2> HIDE DEF t, a
  <2> QED
    BY <1>0, <2>1, <2>2, SentTask, QuietSteps
<1>3. CASE BumpBegins(c)
  <2> DEFINE t == [pc |-> "bumping"]
  <2>1. WalletGoes(c, t) /\ SameWallet
    BY <1>3 DEF BumpBegins
  <2>2. ShapeOf(t) /\ SignedSoFar(t, epoch, worker)
    BY PlainTasks DEF PreparedSteps
  <2> HIDE DEF t
  <2> QED
    BY <1>0, <2>1, <2>2, QuietSteps
<1>4. CASE SendBegins(c)
  <2> DEFINE t == [pc |-> "preparing", from |-> ActiveAccount, account |-> ActiveAccount, epoch |-> epoch, by |-> {}]
  <2>1. WalletGoes(c, t) /\ SameWallet /\ ActiveAccount \in Accounts
    BY <1>4, ActiveFacts DEF SendBegins
  <2>2. ShapeOf(t) /\ SignedSoFar(t, epoch, worker)
    BY <2>1, CapturedTask DEF PreparedSteps
  <2> HIDE DEF t
  <2> QED
    BY <1>0, <2>1, <2>2, QuietSteps
<1> QED
  BY <1>1, <1>2, <1>3, <1>4

\* What a call that has captured an account holds.
LEMMA CapturedFacts ==
  ASSUME WalletInv, NEW c \in WalletCalls, tasks[c].pc \in PreparedSteps
  PROVE  /\ tasks[c] \in PreparedTasks /\ tasks[c].from \in Accounts /\ tasks[c].from # None
         /\ tasks[c].epoch \in Nat /\ tasks[c].by \in SUBSET (Accounts \cup {None})
         /\ tasks[c].account \in {tasks[c].from, Shredded}
BY TaskFacts, AccountsAssumption DEF ShapeOf, SignedSoFar, PreparedTasks

LEMMA SendSteps ==
  ASSUME WalletInv, NEW c \in WalletCalls, SendSigns(c) \/ SendBroadcasts(c)
  PROVE  WalletInv'
<1>0. record' # None => record' \in WalletData
  BY DEF WalletInv, DataInv, SendSigns, SendBroadcasts, Broadcasts
<1>1. CASE SendSigns(c)
  <2> DEFINE t == SignedBy(tasks[c], "signed")
  <2>1. /\ tasks[c].pc = "preparing" /\ ActiveAccount = tasks[c].from
        /\ tasks[c].account # Shredded /\ SignedWith(tasks[c].account) # None
        /\ WalletGoes(c, t) /\ SameWallet
    BY <1>1 DEF SendSigns, At, SameAccount, CanSign
  <2>2. /\ tasks[c].account = ActiveAccount /\ ActiveAccount # None /\ tasks[c].by = {}
    BY <2>1, CapturedFacts, TaskFacts DEF PreparedSteps, SignedSoFar
  <2>3. SignedWith(ActiveAccount) = ActiveAccount
    BY <2>1, <2>2, ActiveSigns
  <2>4. t.pc = "signed" /\ t.from = ActiveAccount /\ t.by = {ActiveAccount} /\ "account" \notin DOMAIN t
    BY <2>1, <2>2, <2>3 DEF SignedBy
  <2> HIDE DEF t
  <2> QED
    BY <1>0, <2>1, <2>4, SentTask, QuietSteps
<1>2. CASE SendBroadcasts(c)
  <2> DEFINE t == [pc |-> "sent", from |-> tasks[c].from, by |-> tasks[c].by]
  <2>1. tasks[c].pc = "signed" /\ WalletGoes(c, t) /\ SameWallet
    BY <1>2 DEF SendBroadcasts, Broadcasts, At
  <2>2. tasks[c].by = {tasks[c].from}
    BY <2>1, TaskFacts DEF SignedSoFar
  <2>3. t.pc = "sent" /\ t.from = tasks[c].from /\ t.by = {tasks[c].from} /\ "account" \notin DOMAIN t
    BY <2>2
  <2> HIDE DEF t
  <2> QED
    BY <1>0, <2>1, <2>3, SentTask, QuietSteps
<1> QED
  BY <1>1, <1>2

\* The two signatures of a delegation are of one key, unless the last check of the
\* epoch stops it.
LEMMA DelegationSteps ==
  ASSUME WalletInv, NEW c \in WalletCalls,
         DelegationBegins(c) \/ DelegationPrepares(c) \/ DelegationSigns(c) \/ DelegationBroadcasts(c)
  PROVE  WalletInv'
<1>0. record' # None => record' \in WalletData
  BY DEF WalletInv, DataInv, DelegationBegins, DelegationPrepares, DelegationSigns, DelegationBroadcasts, Broadcasts
<1>1. CASE DelegationBegins(c)
  <2> DEFINE a == ActiveAccount
             t == [pc |-> "authorized", from |-> a, account |-> a, epoch |-> epoch, by |-> {SignedWith(a)}]
  <2>1. WalletGoes(c, t) /\ SameWallet /\ a # None /\ data.active = "eip155" /\ SignedWith(a) # None
    BY <1>1 DEF DelegationBegins
  <2>2. SignedWith(a) = a /\ a \in Accounts /\ a.ns = "eip155"
    BY <2>1, ActiveSigns, ActiveFacts
  <2>3. isolated => worker = a
    BY <2>2 DEF SignedWith
  <2> HIDE DEF a
  <2>4. ShapeOf(t) /\ SignedSoFar(t, epoch, worker)
    BY <2>2, <2>3, CapturedTask DEF PreparedSteps
  <2> HIDE DEF t
  <2> QED
    BY <1>0, <2>1, <2>4, QuietSteps
<1>2. CASE DelegationPrepares(c)
  <2> DEFINE t == [tasks[c] EXCEPT !.pc = "estimating"]
  <2>1. WalletGoes(c, t) /\ SameWallet /\ tasks[c].pc = "authorized"
    BY <1>2 DEF DelegationPrepares, At
  <2>2. tasks[c] \in PreparedTasks
    BY <2>1, CapturedFacts DEF PreparedSteps
  <2>3. /\ t \in PreparedTasks /\ t.pc = "estimating" /\ t.from = tasks[c].from /\ t.account = tasks[c].account
        /\ t.epoch = tasks[c].epoch /\ t.by = tasks[c].by
    BY <2>2 DEF PreparedTasks, PreparedSteps
  <2> HIDE DEF t
  <2>4. ShapeOf(t)
    BY <2>3 DEF ShapeOf, PreparedSteps
  <2>5. SignedSoFar(t, epoch, worker)
    BY <2>1, <2>3, TaskFacts DEF SignedSoFar, PreparedSteps
  <2> QED
    BY <1>0, <2>1, <2>4, <2>5, QuietSteps
<1>3. CASE DelegationSigns(c)
  <2> DEFINE t == SignedBy(tasks[c], "delegating")
  <2>1. /\ tasks[c].pc = "estimating" /\ WalletGoes(c, t) /\ SameWallet
        /\ tasks[c].account # Shredded /\ SignedWith(tasks[c].account) # None
    BY <1>3 DEF DelegationSigns, At, CanSign
  <2>2. /\ tasks[c].account = tasks[c].from /\ tasks[c].epoch \in Nat /\ tasks[c].by = {tasks[c].from}
        /\ tasks[c].epoch <= epoch
        /\ tasks[c].epoch = epoch /\ isolated => worker \in {tasks[c].from, None}
    BY <2>1, CapturedFacts, TaskFacts DEF PreparedSteps, SignedSoFar
  <2>3. tasks[c].epoch = epoch => SignedWith(tasks[c].account) = tasks[c].from
    BY <2>1, <2>2 DEF SignedWith
  <2>4. /\ t.pc = "delegating" /\ t.from = tasks[c].from /\ t.epoch = tasks[c].epoch /\ "account" \notin DOMAIN t
        /\ t.by = tasks[c].by \union {SignedWith(tasks[c].account)}
    BY DEF SignedBy
  <2> HIDE DEF t
  <2>5. ShapeOf(t) /\ SignedSoFar(t, epoch, worker)
    BY <2>2, <2>3, <2>4 DEF ShapeOf, SignedSoFar, PreparedSteps
  <2> QED
    BY <1>0, <2>1, <2>5, QuietSteps
<1>4. CASE DelegationBroadcasts(c)
  <2> DEFINE t == [pc |-> "sent", from |-> tasks[c].from, by |-> tasks[c].by]
  <2>1. tasks[c].pc = "delegating" /\ epoch = tasks[c].epoch /\ WalletGoes(c, t) /\ SameWallet
    BY <1>4 DEF DelegationBroadcasts, Broadcasts, At, SameKey
  <2>2. tasks[c].by = {tasks[c].from}
    BY <2>1, TaskFacts DEF SignedSoFar
  <2>3. t.pc = "sent" /\ t.from = tasks[c].from /\ t.by = {tasks[c].from} /\ "account" \notin DOMAIN t
    BY <2>2
  <2> HIDE DEF t
  <2> QED
    BY <1>0, <2>1, <2>3, SentTask, QuietSteps
<1> QED
  BY <1>1, <1>2, <1>3, <1>4

LEMMA SessionSteps ==
  ASSUME WalletInv, NEW c \in WalletCalls,
         \/ \E use \in {"create", "send"} : SessionBegins(c, use)
         \/ SessionSeeded(c) \/ SessionAuthorized(c) \/ SessionSpends(c)
  PROVE  WalletInv'
<1>0. record' # None => record' \in WalletData
  BY DEF WalletInv, DataInv, SessionBegins, SessionSeeded, SessionAuthorized, SessionSpends
<1>1. ASSUME NEW use \in {"create", "send"}, SessionBegins(c, use)
      PROVE  WalletInv'
  <2> DEFINE t == [pc |-> "seeding", of |-> data.of, cached |-> sessionMgr = data.of, use |-> use]
  <2>1. WalletGoes(c, t) /\ SameWallet /\ data.of \in WalletSecrets
    BY <1>1 DEF SessionBegins, WalletSecrets
  <2>2. t.pc = "seeding" /\ t.of = data.of /\ "account" \notin DOMAIN t
    OBVIOUS
  <2> HIDE DEF t
  <2>3. ShapeOf(t) /\ SignedSoFar(t, epoch, worker)
    BY <2>1, <2>2 DEF ShapeOf, SignedSoFar, PreparedSteps
  <2> QED
    BY <1>0, <2>1, <2>3, QuietSteps
<1>2. CASE SessionSeeded(c)
  <2> DEFINE t == [pc |-> "spending", of |-> tasks[c].of]
             u == [pc |-> "owned", of |-> tasks[c].of, account |-> EvmAccount, owner |-> EvmAccount, epoch |-> epoch]
  <2>1. /\ UNCHANGED <<data, isolated, worker, epoch, record>>
        /\ WalletGoes(c, t) \/ WalletGoes(c, Idle) \/ (EvmAccount # None /\ WalletGoes(c, u))
    BY <1>2 DEF SessionSeeded, Ends
  <2>2. DataInv' /\ WorkerInv'
    BY <2>1 DEF WalletInv, DataInv, WorkerInv, OnePerNamespace, EvmAccount
  <2>3. ShapeOf(t) /\ SignedSoFar(t, epoch', worker')
    BY PlainTasks DEF PreparedSteps
  <2>4. EvmAccount # None => ShapeOf(u) /\ SignedSoFar(u, epoch', worker')
    <3>1. EvmAccount # None => EvmAccount \in Accounts
      BY HoldingIs DEF EvmAccount, WalletInv, DataInv
    <3>2. tasks[c].of \in WalletSecrets /\ epoch \in Nat
      BY <1>2, TaskFacts DEF SessionSeeded, At, ShapeOf, WalletInv
    <3>3. EvmAccount # None => u \in OwnedTasks
      BY <3>1, <3>2 DEF OwnedTasks
    <3>4. u.pc = "owned"
      OBVIOUS
    <3> HIDE DEF u
    <3> QED
      BY <3>3, <3>4 DEF ShapeOf, SignedSoFar, PreparedSteps
  <2> HIDE DEF t, u
  <2> QED
    BY <2>1, <2>2, <2>3, <2>4, IdleTask, CallSteps
<1>3. CASE SessionAuthorized(c)
  <2> DEFINE t == [pc |-> "session", sealedBy |-> tasks[c].of, owner |-> tasks[c].owner]
  <2>1. SameWallet /\ (WalletGoes(c, t) \/ WalletGoes(c, Idle))
    BY <1>3 DEF SessionAuthorized, Ends
  <2>2. ShapeOf(t) /\ SignedSoFar(t, epoch, worker)
    BY PlainTasks DEF PreparedSteps
  <2> HIDE DEF t
  <2> QED
    BY <1>0, <2>1, <2>2, IdleTask, QuietSteps
<1>4. CASE SessionSpends(c)
  <2> DEFINE key == [ns |-> "session", of |-> tasks[c].of]
             t == [pc |-> "sent", from |-> key, by |-> {key}]
  <2>1. SameWallet /\ WalletGoes(c, t)
    BY <1>4 DEF SessionSpends
  <2> HIDE DEF key
  <2>2. t.pc = "sent" /\ t.from = key /\ t.by = {key} /\ "account" \notin DOMAIN t
    OBVIOUS
  <2> HIDE DEF t
  <2> QED
    BY <1>0, <2>1, <2>2, SentTask, QuietSteps
<1> QED
  BY <1>1, <1>2, <1>3, <1>4

LEMMA WalletStep == WalletInv /\ WalletNext => WalletInv'
<1> SUFFICES ASSUME WalletInv, WalletNext PROVE WalletInv'
  OBVIOUS
<1>1. ASSUME NEW n \in Namespaces, SetActiveNamespace(n) PROVE WalletInv'
  BY <1>1, NamespaceStep
<1>2. CASE DestroySession
  BY <1>2, WipeSteps
<1>3. ASSUME NEW c \in WalletCalls,
             \/ AdoptPhrase(c) \/ Derives(c) \/ SaveBegins(c) \/ Saves(c) \/ ImportRaw(c)
             \/ LoadBegins(c) \/ Loads(c) \/ BackfillBegins(c) \/ Backfills(c)
             \/ Clear(c) \/ Cleared(c) \/ Wipe(c) \/ Wiped(c) \/ CallEnds(c)
      PROVE  WalletInv'
  BY <1>3, AdoptSteps, StorageSteps, BackfillSteps, ClearSteps, WipeSteps
<1>4. ASSUME NEW c \in WalletCalls,
             \/ SignBegins(c) \/ SolanaSends(c) \/ BumpBegins(c) \/ SendBegins(c) \/ SendSigns(c) \/ SendBroadcasts(c)
             \/ DelegationBegins(c) \/ DelegationPrepares(c) \/ DelegationSigns(c) \/ DelegationBroadcasts(c)
             \/ SessionSeeded(c) \/ SessionAuthorized(c) \/ SessionSpends(c)
             \/ \E use \in {"create", "send"} : SessionBegins(c, use)
      PROVE  WalletInv'
  BY <1>4, BeginSteps, SendSteps, DelegationSteps, SessionSteps
<1> QED
  BY <1>1, <1>2, <1>3, <1>4 DEF WalletNext

-----------------------------------------------------------------------------
(* The encrypted storage. *)

LEMMA VaultInitHolds == VaultInit => VaultInv
BY DEF VaultInit, VaultInv, Recovers, Idle

\* A step of one call that leaves the others alone.
LEMMA VaultCallSteps ==
  ASSUME VaultInv, NEW c \in VaultCalls, NEW t, Vaults(c, t), typed \subseteq typed',
         vault' # None => Recovers(vault'.pass) \/ vault'.pass \in typed',
         verified' # None => Recovers(verified') \/ verified' \in typed',
         t.pc \in {"touching", "typing", "writing"} => Recovers(t.rec.pass),
         t.pc = "sealing" => Recovers(t.pass) \/ t.pass \in typed',
         t.pc = "touching" => "rec" \in DOMAIN t
  PROVE  VaultInv'
BY DEF VaultInv, Vaults, Recovers

LEMMA VaultLoadKeeps ==
  ASSUME VaultInv, NEW c \in VaultCalls, VaultLoad(c)
  PROVE  VaultInv'
BY VaultCallSteps DEF VaultLoad, VaultInv

LEMMA LoadTouchedKeeps ==
  ASSUME VaultInv, NEW c \in VaultCalls, LoadTouched(c)
  PROVE  VaultInv'
<1>1. PICK a \in PrfAnswers :
        \/ Vaults(c, Idle)
        \/ Vaults(c, [vaultTasks[c] EXCEPT !.pc = "typing"])
  BY DEF LoadTouched
<1>2. CASE Vaults(c, Idle)
  BY <1>2, VaultCallSteps DEF LoadTouched, VaultInv, Idle
<1>3. CASE Vaults(c, [vaultTasks[c] EXCEPT !.pc = "typing"])
  <2> DEFINE t == [vaultTasks[c] EXCEPT !.pc = "typing"]
  <2>1. "rec" \in DOMAIN vaultTasks[c] /\ Recovers(vaultTasks[c].rec.pass)
    BY DEF LoadTouched, VaultInv, InVault
  <2>2. t.pc = "typing" /\ t.rec = vaultTasks[c].rec
    BY <2>1 DEF LoadTouched, InVault
  <2> QED
    BY <1>3, <2>1, <2>2, VaultCallSteps DEF LoadTouched, VaultInv
<1> QED
  BY <1>1, <1>2, <1>3

LEMMA LoadTypedKeeps ==
  ASSUME VaultInv, NEW c \in VaultCalls, LoadTyped(c)
  PROVE  VaultInv'
<1>1. verified' # None => Recovers(verified')
  BY DEF LoadTyped, VaultInv, InVault
<1> QED
  BY <1>1, VaultCallSteps DEF LoadTyped, VaultInv, Idle

LEMMA SavesKeep ==
  ASSUME VaultInv, NEW c \in VaultCalls, SaveAsks(c) \/ SaveTyped(c) \/ SaveProves(c)
  PROVE  VaultInv'
<1>1. CASE SaveAsks(c)
  BY <1>1, VaultCallSteps DEF SaveAsks, VaultInv
<1>2. CASE SaveTyped(c)
  <2>1. PICK p \in Passphrases :
          /\ Vaults(c, IF p = Empty THEN Idle
                       ELSE [pc |-> IF MustProve THEN "proving" ELSE "sealing", pass |-> p])
          /\ typed' = IF p = Empty \/ viaPrf THEN typed ELSE typed \union {p}
    BY <1>2 DEF SaveTyped
  <2>2. p # Empty /\ ~MustProve => p \in typed'
    BY <2>1 DEF MustProve
  <2> QED
    BY <1>2, <2>1, <2>2, VaultCallSteps DEF SaveTyped, VaultInv, Idle
<1>3. CASE SaveProves(c)
  <2> DEFINE p == vaultTasks[c].pass
             open == vault # None /\ vault.pass \in {p, Empty}
  <2>1. /\ Vaults(c, IF open THEN [pc |-> "sealing", pass |-> p] ELSE Idle)
        /\ typed' = IF open /\ vault.pass = Empty THEN typed \union {p} ELSE typed
    BY <1>3 DEF SaveProves
  <2>2. open => Recovers(p) \/ p \in typed'
    BY <2>1 DEF VaultInv
  <2> QED
    BY <1>3, <2>1, <2>2, VaultCallSteps DEF SaveProves, VaultInv, Idle
<1> QED
  BY <1>1, <1>2, <1>3

LEMMA SealsKeep ==
  ASSUME VaultInv, NEW c \in VaultCalls, SaveSeals(c) \/ SaveWrites(c) \/ VaultCallFails(c)
  PROVE  VaultInv'
<1>1. CASE SaveSeals(c)
  BY <1>1, VaultCallSteps DEF SaveSeals, VaultInv, InVault
<1>2. CASE SaveWrites(c)
  BY <1>2, VaultCallSteps DEF SaveWrites, VaultInv, InVault, Idle
<1>3. CASE VaultCallFails(c)
  BY <1>3, VaultCallSteps DEF VaultCallFails, VaultInv, Idle
<1> QED
  BY <1>1, <1>2, <1>3

LEMMA VaultStep == VaultInv /\ VaultNext => VaultInv'
<1> SUFFICES ASSUME VaultInv, VaultNext PROVE VaultInv'
  OBVIOUS
<1>1. CASE ForgetUnlock
  BY <1>1 DEF ForgetUnlock, VaultInv, Recovers
<1>2. CASE ClearVault
  BY <1>2 DEF ClearVault, VaultInv, Recovers
<1> QED
  BY <1>1, <1>2, VaultLoadKeeps, LoadTouchedKeeps, LoadTypedKeeps, SavesKeep, SealsKeep DEF VaultNext

-----------------------------------------------------------------------------
(* The key store. *)

LEMMA StoreNames ==
  /\ \A k \in StoreKeys : k # None
  /\ \A k, l \in StoreKeys :
       /\ Minting(k).pc = "minting" /\ Minting(k).key = k
       /\ Settled(k).pc = "settled" /\ Settled(k).key = k
       /\ Minting(k) # Settled(l) /\ Minting(k) # Pending /\ Settled(k) # Pending
       /\ (Minting(k) = Minting(l) => k = l) /\ (Settled(k) = Settled(l) => k = l)
  /\ Pending.pc = "pending"
BY StoreKeysAssumption DEF Minting, Settled, Pending

LEMMA StoreInitHolds == StoreInit => KeyStoreInv
<1> SUFFICES ASSUME StoreInit PROVE KeyStoreInv
  OBVIOUS
<1>1. /\ storeTasks = [c \in StoreCalls |-> Idle]
      /\ storeTasks = [c \in StoreCalls |-> storeTasks[c]]
      /\ \A c \in StoreCalls : storeTasks[c].pc = "idle"
  BY DEF StoreInit, Idle
<1>2. ~Running({"deleting"})
  BY <1>1 DEF Running
<1> QED
  BY <1>1, <1>2 DEF StoreInit, KeyStoreInv, RecordHasItsKey

\* What the promise has come to.
LEMMA PromiseCases ==
  ASSUME KeyStoreInv
  PROVE  /\ keyPromise # None /\ keyPromise.pc = "minting" =>
              \E k \in StoreKeys : keyPromise = Minting(k) /\ keyPromise.key = k /\ storeKey = None
         /\ keyPromise # None /\ keyPromise.pc = "settled" =>
              \E k \in StoreKeys : keyPromise = Settled(k) /\ keyPromise.key = k /\ (storeKey = k \/ keyLost)
BY StoreNames DEF KeyStoreInv

LEMMA PromiseSteps ==
  ASSUME KeyStoreInv, KeyRead \/ KeySaved
  PROVE  KeyStoreInv'
<1>1. CASE KeyRead
  <2>1. /\ keyPromise' \in {None, Pending} \cup {Minting(k) : k \in StoreKeys} \cup {Settled(k) : k \in StoreKeys}
        /\ \A k \in StoreKeys : /\ keyPromise' = Minting(k) => storeKey = None
                                /\ keyPromise' = Settled(k) => storeKey = k \/ keyLost
    BY <1>1, StoreNames DEF KeyRead, Existing, KeyStoreInv
  <2> QED
    BY <1>1, <2>1 DEF KeyRead, KeyStoreInv, Running, RecordHasItsKey
<1>2. CASE KeySaved
  <2>1. PICK k \in StoreKeys : keyPromise = Minting(k) /\ keyPromise.key = k /\ storeKey = None
    BY <1>2, PromiseCases DEF KeySaved
  <2>2. keyPromise' = Settled(k) /\ storeKey' = k /\ storeKey = None
    BY <1>2, <2>1 DEF KeySaved
  <2>3. ~overtaken /\ ~keyLost => blob = None /\ \A c \in StoreCalls : storeTasks[c].pc # "writing"
    BY <2>1, StoreNames DEF KeyStoreInv, RecordHasItsKey
  <2> QED
    BY <1>2, <2>2, <2>3, StoreNames DEF KeySaved, KeyStoreInv, Running, RecordHasItsKey
<1> QED
  BY <1>1, <1>2

\* A promise that fails was not settled: nothing is sealed with its key.
LEMMA KeyFailsKeeps ==
  ASSUME KeyStoreInv, KeyFails
  PROVE  KeyStoreInv'
<1>1. /\ storeKey' \in StoreKeys \cup {None} /\ keyPromise' = None
      /\ storeKey' # storeKey => storeKey = None
  BY PromiseCases DEF KeyFails, KeyStoreInv
<1>2. /\ storeTasks' = [c \in StoreCalls |-> storeTasks'[c]]
      /\ \A c \in StoreCalls :
           storeTasks'[c] = (IF InStore(c, "keying") THEN Idle ELSE storeTasks[c])
  BY DEF KeyFails
<1>3. \A c \in StoreCalls : storeTasks'[c].pc = "writing" => storeTasks'[c] = storeTasks[c]
  BY <1>2 DEF Idle
<1>4. \A pcs : "idle" \notin pcs /\ Running(pcs)' => Running(pcs)
  BY <1>2 DEF Idle, Running
<1>5. ~overtaken /\ ~keyLost => storeKey' = storeKey \/ (blob = None /\ \A c \in StoreCalls : storeTasks[c].pc # "writing")
  BY <1>1, StoreNames DEF KeyStoreInv, RecordHasItsKey
<1>6. ~overtaken /\ Running({"deleting"})' => blob = None /\ ~Running({"keying", "writing"})'
  BY <1>4 DEF KeyStoreInv
<1> QED
  BY <1>1, <1>2, <1>3, <1>5, <1>6 DEF KeyFails, KeyStoreInv, RecordHasItsKey

LEMMA SaveStepsKeep ==
  ASSUME KeyStoreInv, NEW c \in StoreCalls, SaveRecord(c) \/ SealRecord(c) \/ WriteBlob(c)
  PROVE  KeyStoreInv'
<1>1. CASE SaveRecord(c)
  <2>1. /\ keyPromise' \in {None, Pending} \cup {Minting(k) : k \in StoreKeys} \cup {Settled(k) : k \in StoreKeys}
        /\ keyPromise # None => keyPromise' = keyPromise
        /\ keyPromise = None => keyPromise' = Pending
    BY <1>1 DEF SaveRecord, KeyStoreInv
  <2>2. ~overtaken' => ~overtaken /\ ~Running({"deleting"}) /\ ~Running({"deleting"})'
    BY <1>1 DEF SaveRecord, KeyStoreInv, Running, Stores
  <2> QED
    BY <1>1, <2>1, <2>2, StoreNames DEF SaveRecord, KeyStoreInv, Stores, RecordHasItsKey, Running
<1>2. CASE SealRecord(c)
  <2>1. PICK k \in StoreKeys : keyPromise = Settled(k) /\ keyPromise.key = k /\ (storeKey = k \/ keyLost)
    BY <1>2, PromiseCases DEF SealRecord
  <2>2. storeTasks' = [storeTasks EXCEPT ![c] = [pc |-> "writing", key |-> k]] /\ InStore(c, "keying")
    BY <1>2, <2>1 DEF SealRecord, Stores
  <2>3. Running({"deleting"})' => Running({"deleting"}) /\ Running({"keying", "writing"})
    BY <2>2 DEF Running, KeyStoreInv, InStore
  <2> QED
    BY <1>2, <2>1, <2>2, <2>3 DEF SealRecord, KeyStoreInv, RecordHasItsKey
<1>3. CASE WriteBlob(c)
  <2>1. /\ storeTasks' = [storeTasks EXCEPT ![c] = Idle]
        /\ storeTasks[c].pc = "writing" /\ storeTasks[c].key \in StoreKeys
        /\ blob' \in {blob, storeTasks[c].key}
        /\ UNCHANGED <<storeKey, keyPromise, overtaken, keyLost>>
    BY <1>3 DEF WriteBlob, Stores, InStore, KeyStoreInv
  <2>2. /\ ~overtaken /\ ~keyLost => storeTasks[c].key = storeKey
        /\ ~overtaken => ~Running({"deleting"})
    BY <2>1 DEF KeyStoreInv, Running
  <2>3. ~overtaken => ~Running({"deleting"})'
    BY <2>1, <2>2 DEF KeyStoreInv, Running, Idle
  <2> QED
    BY <2>1, <2>2, <2>3 DEF KeyStoreInv, RecordHasItsKey, Idle
<1> QED
  BY <1>1, <1>2, <1>3

LEMMA ClearStepsKeep ==
  ASSUME KeyStoreInv, NEW c \in StoreCalls, ClearStore(c) \/ DeleteKey(c) \/ DeleteFails(c)
  PROVE  KeyStoreInv'
<1>1. CASE ClearStore(c)
  <2>1. /\ storeTasks' = [storeTasks EXCEPT ![c] = [pc |-> "deleting"]]
        /\ blob' = None /\ overtaken' = Running({"keying", "writing"})
        /\ UNCHANGED <<storeKey, keyPromise, keyLost>>
    BY <1>1 DEF ClearStore, Stores
  <2>2. ~overtaken' => ~Running({"keying", "writing"})'
    BY <2>1 DEF KeyStoreInv, Running
  <2>3. ~overtaken' => \A d \in StoreCalls : storeTasks'[d].pc # "writing"
    BY <2>2 DEF Running
  <2>4. overtaken' \in BOOLEAN
    BY <2>1 DEF Running
  <2>5. \A d \in StoreCalls : storeTasks'[d].pc = "writing" => storeTasks'[d].key \in StoreKeys
    BY <2>1 DEF KeyStoreInv
  <2> QED
    BY <2>1, <2>2, <2>3, <2>4, <2>5 DEF KeyStoreInv, RecordHasItsKey
<1>2. CASE DeleteKey(c) \/ DeleteFails(c)
  <2>1. /\ storeTasks' = [storeTasks EXCEPT ![c] = Idle] /\ storeTasks[c].pc = "deleting"
        /\ UNCHANGED <<blob, overtaken>>
        /\ \/ storeKey' = None /\ keyPromise' = None /\ keyLost' = FALSE
           \/ UNCHANGED <<storeKey, keyPromise, keyLost>>
           \/ storeKey' = None /\ keyPromise' = keyPromise /\ keyLost' = (keyLost \/ keyPromise # None)
    BY <1>2 DEF DeleteKey, DeleteFails, Stores, InStore
  <2>2. ~overtaken => blob = None /\ ~Running({"keying", "writing"})
    BY <2>1 DEF KeyStoreInv, Running
  <2>3. ~overtaken => ~Running({"keying", "writing"})' /\ \A d \in StoreCalls : storeTasks'[d].pc # "writing"
    BY <2>1, <2>2 DEF KeyStoreInv, Running, Idle
  <2>4. \A d \in StoreCalls : storeTasks'[d].pc = "writing" => storeTasks'[d].key \in StoreKeys
    BY <2>1 DEF KeyStoreInv, Idle
  <2>5. keyLost' \in BOOLEAN
    BY <2>1 DEF KeyStoreInv
  <2>6. \A k \in StoreKeys : /\ keyPromise' # None /\ keyPromise' = Minting(k) => storeKey' = None
                             /\ keyPromise' # None /\ keyPromise' = Settled(k) => storeKey' = k \/ keyLost'
    BY <2>1 DEF KeyStoreInv
  <2> QED
    BY <2>1, <2>2, <2>3, <2>4, <2>5, <2>6 DEF KeyStoreInv, RecordHasItsKey
<1> QED
  BY <1>1, <1>2

LEMMA StoreStep == KeyStoreInv /\ StoreNext => KeyStoreInv'
<1> SUFFICES ASSUME KeyStoreInv, StoreNext PROVE KeyStoreInv'
  OBVIOUS
<1>1. CASE RestartApp
  <2>1. storeTasks' = [c \in StoreCalls |-> Idle] /\ keyPromise' = None /\ UNCHANGED <<storeKey, blob, overtaken>>
        /\ keyLost' = (keyLost /\ blob # None)
    BY <1>1 DEF RestartApp
  <2> QED
    BY <2>1 DEF KeyStoreInv, Idle, Running, RecordHasItsKey
<1> QED
  BY <1>1, PromiseSteps, KeyFailsKeeps, SaveStepsKeep, ClearStepsKeep DEF StoreNext

-----------------------------------------------------------------------------
(* The signer. *)

\* Indices of a sequence have a last one.
LEMMA LastIndex ==
  ASSUME NEW n \in Nat, NEW S \in SUBSET (1..n), S # {}
  PROVE  \E i \in S : \A j \in S : j <= i
<1> DEFINE T == {m \in Nat : \A i \in S : i <= m}
<1>1. n \in T
  OBVIOUS
<1>2. PICK m \in T : \A k \in T : m <= k
  BY <1>1, LeastNat
<1>3. m \in Nat /\ \A i \in S : i <= m
  BY <1>2
<1>4. CASE m \in S
  BY <1>3, <1>4
<1>5. CASE m \notin S
  <2>1. m # 0
    <3>1. PICK i \in S : i \in 1..n
      OBVIOUS
    <3> QED
      BY <1>3, <3>1
  <2>2. m - 1 \in Nat /\ \A i \in S : i <= m - 1
    BY <1>3, <1>5, <2>1
  <2>3. m - 1 \in T
    BY <2>2
  <2> QED
    BY <1>2, <1>3, <2>3
<1> QED
  BY <1>4, <1>5

SignerThread == [key : SignerKeys \cup {None}, inbox : Seq(Messages), replies : Seq(Replies)]

\* The key that is loaded last of what was posted.
LEMMA LoadedIsLast ==
  ASSUME thread \in SignerThread
  PROVE  Loaded \in SignerKeys \cup {None} /\ LoadedAfter(thread, Len(thread.inbox), Loaded)
<1> DEFINE keyed == {i \in DOMAIN thread.inbox : thread.inbox[i].type # "sign"}
           n == Len(thread.inbox)
<1>1. /\ n \in Nat /\ DOMAIN thread.inbox = 1..n /\ thread.key \in SignerKeys \cup {None}
      /\ \A i \in 1..n : thread.inbox[i] \in Messages
  BY DEF SignerThread
<1>2. CASE keyed = {}
  <2>1. Loaded = thread.key
    BY <1>2 DEF Loaded
  <2> QED
    BY <1>1, <1>2, <2>1 DEF LoadedAfter
<1>3. CASE keyed # {}
  <2>1. \E i \in keyed : \A j \in keyed : j <= i
    <3>1. keyed \in SUBSET (1..n)
      BY <1>1
    <3> HIDE DEF keyed, n
    <3> QED
      BY <1>1, <1>3, <3>1, LastIndex
  <2> DEFINE last == CHOOSE i \in keyed : \A j \in keyed : j <= i
  <2>2. last \in keyed /\ \A j \in keyed : j <= last
    BY <2>1
  <2>3. Loaded = thread.inbox[last].key
    BY <1>3 DEF Loaded
  <2> HIDE DEF last
  <2>4. \A j \in (last + 1)..n : thread.inbox[j].type = "sign"
    BY <1>1, <2>2
  <2> QED
    BY <1>1, <2>2, <2>3, <2>4 DEF LoadedAfter, Messages
<1> QED
  BY <1>2, <1>3

\* What is posted later changes nothing for what is in the inbox.
LEMMA LoadedAfterAppend ==
  ASSUME NEW t \in SignerThread, NEW u, u.key = t.key, NEW r, u.inbox = Append(t.inbox, r),
         NEW n \in 0..Len(t.inbox), NEW key, LoadedAfter(t, n, key)
  PROVE  LoadedAfter(u, n, key)
<1>1. Len(t.inbox) \in Nat /\ \A i \in 1..Len(t.inbox) : u.inbox[i] = t.inbox[i]
  BY DEF SignerThread
<1>2. \A i \in 1..n : u.inbox[i] = t.inbox[i]
  BY <1>1
<1>3. \A i \in 1..n : \A j \in (i + 1)..n : j \in 1..n
  BY <1>1
<1>4. CASE key = t.key /\ \A i \in 1..n : t.inbox[i].type = "sign"
  <2>1. key = u.key /\ \A i \in 1..n : u.inbox[i].type = "sign"
    BY <1>2, <1>4
  <2> QED
    BY <2>1 DEF LoadedAfter
<1>5. ASSUME NEW i \in 1..n, t.inbox[i].type # "sign", t.inbox[i].key = key,
             \A j \in (i + 1)..n : t.inbox[j].type = "sign"
      PROVE  LoadedAfter(u, n, key)
  <2>1. u.inbox[i].type # "sign" /\ u.inbox[i].key = key
    BY <1>2, <1>5
  <2>2. \A j \in (i + 1)..n : u.inbox[j].type = "sign"
    BY <1>2, <1>3, <1>5
  <2> QED
    BY <2>1, <2>2 DEF LoadedAfter
<1> QED
  BY <1>4, <1>5 DEF LoadedAfter

\* A message that is read is one that is read no more.
LEMMA LoadedAfterTail ==
  ASSUME NEW t \in SignerThread, t.inbox # <<>>, NEW u, u.inbox = Tail(t.inbox),
         u.key = (IF t.inbox[1].type = "sign" THEN t.key ELSE t.inbox[1].key),
         NEW n \in 0..Len(u.inbox), NEW key, LoadedAfter(t, n + 1, key)
  PROVE  LoadedAfter(u, n, key)
<1>1. /\ Len(t.inbox) \in Nat /\ Len(t.inbox) >= 1 /\ Len(u.inbox) = Len(t.inbox) - 1
      /\ \A i \in 1..n : u.inbox[i] = t.inbox[i + 1]
  BY DEF SignerThread
<1>2. CASE key = t.key /\ \A i \in 1..(n + 1) : t.inbox[i].type = "sign"
  <2>1. u.key = key /\ \A i \in 1..n : u.inbox[i].type = "sign"
    BY <1>1, <1>2
  <2> QED
    BY <2>1 DEF LoadedAfter
<1>3. ASSUME NEW i \in 1..(n + 1), t.inbox[i].type # "sign", t.inbox[i].key = key,
             \A j \in (i + 1)..(n + 1) : t.inbox[j].type = "sign"
      PROVE  LoadedAfter(u, n, key)
  <2>1. CASE i = 1
    <3>1. u.key = key /\ \A j \in 1..n : u.inbox[j].type = "sign"
      BY <1>1, <1>3, <2>1
    <3> QED
      BY <3>1 DEF LoadedAfter
  <2>2. CASE i # 1
    <3>1. i \in Nat /\ n \in Nat /\ i > 1 /\ i <= n + 1
      BY <1>1, <2>2
    <3>2. i - 1 \in 1..n /\ (i - 1) + 1 = i
      BY <3>1
    <3>3. u.inbox[i - 1] = t.inbox[i]
      BY <1>1, <3>2
    <3>4. ASSUME NEW j \in i..n
          PROVE  u.inbox[j].type = "sign"
      <4>1. j \in 1..n /\ j + 1 \in (i + 1)..(n + 1)
        BY <3>1
      <4> QED
        BY <1>1, <1>3, <4>1
    <3> QED
      BY <1>3, <3>2, <3>3, <3>4 DEF LoadedAfter
  <2> QED
    BY <2>1, <2>2
<1> QED
  BY <1>2, <1>3 DEF LoadedAfter

LEMMA SignerInitHolds == SignerInit => SignerInv
BY SignerKeysAssumption DEF SignerInit, SignerInv, ThreadInv, SignatureOfTheRequest

\* A message that is posted is one more, with an id that was not used before.
LEMMA PostsTypes ==
  ASSUME SignerInv, NEW t \in SignerThread, NEW r, NEW open \in SUBSET Ids, Posts(t, r, open),
         r \in [type : {"init", "sign", "clear"}, key : SignerKeys \cup {None}, id : {NextId}]
  PROVE  /\ seq' \in Nat /\ seq' = NextId /\ NextId \in Ids /\ NextId \notin 1..seq
         /\ waiting' \in SUBSET Ids
         /\ thread' \in SignerThread' /\ thread' = [t EXCEPT !.inbox = Append(t.inbox, r)]
<1>1. seq \in Nat /\ seq' = NextId /\ NextId = seq + 1 /\ NextId \in Ids
  BY DEF SignerInv, Posts, NextId
<1>2. Messages \subseteq Messages' /\ Replies \subseteq Replies' /\ r \in Messages'
  BY <1>1 DEF Messages, Replies
<1>3. t.inbox \in Seq(Messages') /\ t.replies \in Seq(Replies')
  BY <1>2 DEF SignerThread
<1>4. Append(t.inbox, r) \in Seq(Messages')
  BY <1>2, <1>3
<1> HIDE DEF Messages, Replies
<1>5. thread' = [t EXCEPT !.inbox = Append(t.inbox, r)]
  BY DEF Posts
<1>6. thread' \in SignerThread'
  BY <1>3, <1>4, <1>5 DEF SignerThread
<1> QED
  BY <1>1, <1>5, <1>6 DEF Posts, SignerInv

LEMMA ThreadFacts ==
  ASSUME SignerInv, thread # None
  PROVE  /\ thread \in SignerThread
         /\ \A n \in DOMAIN thread.inbox :
              /\ thread.inbox[n] \in Messages
              /\ thread.inbox[n].type = "sign" => LoadedAfter(thread, n - 1, asked[thread.inbox[n].id])
         /\ \A n \in DOMAIN thread.replies :
              /\ thread.replies[n] \in Replies
              /\ thread.replies[n].said \in SignerKeys => thread.replies[n].said = asked[thread.replies[n].id]
<1>1. thread \in SignerThread
  BY DEF SignerInv, ThreadInv, SignerThread
<1>2. /\ \A n \in DOMAIN thread.inbox : thread.inbox[n] \in Messages
      /\ \A n \in DOMAIN thread.replies : thread.replies[n] \in Replies
  BY <1>1 DEF SignerThread
<1> QED
  BY <1>1, <1>2 DEF SignerInv, ThreadInv

\* A new worker has been asked nothing else.
LEMMA InitWithKeyKeeps ==
  ASSUME SignerInv, NEW k \in SignerKeys, InitWithKey(k)
  PROVE  SignerInv'
<1> DEFINE t == [key |-> None, inbox |-> <<>>, replies |-> <<>>]
           r == [type |-> "init", key |-> k, id |-> NextId]
<1>1. t \in SignerThread
  BY DEF SignerThread
<1>2. Posts(t, r, {}) /\ answers' = Rejected(waiting) /\ UNCHANGED asked
  BY DEF InitWithKey
<1>0. /\ r \in [type : {"init", "sign", "clear"}, key : SignerKeys \cup {None}, id : {NextId}]
      /\ {} \in SUBSET Ids
  OBVIOUS
<1>3. /\ seq' \in Nat /\ waiting' \in SUBSET Ids
      /\ thread' \in SignerThread' /\ thread' = [t EXCEPT !.inbox = Append(t.inbox, r)]
  <2> HIDE DEF t, r
  <2> QED
    BY <1>1, <1>2, <1>0, PostsTypes
<1>4. thread'.inbox = <<r>> /\ thread'.replies = <<>>
  BY <1>3
<1>5. ThreadInv'
  <2>1. \A n \in DOMAIN thread'.inbox : thread'.inbox[n].type # "sign"
    BY <1>4
  <2> QED
    BY <1>3, <1>4, <2>1 DEF ThreadInv, SignerThread
<1>6. /\ answers' \in [Ids -> SignerKeys \cup {None, "ready", "cleared", "rejected"}]
      /\ \A i \in Ids : answers'[i] \in SignerKeys => answers'[i] = answers[i]
  BY <1>2, SignerKeysAssumption DEF Rejected, SignerInv
<1> QED
  BY <1>2, <1>3, <1>5, <1>6 DEF SignerInv, SignatureOfTheRequest

\* A message that is posted to a worker leaves those before it as they are.
LEMMA PostedKeeps ==
  ASSUME SignerInv, thread # None, NEW r, Posts(thread, r, waiting),
         r \in [type : {"init", "sign", "clear"}, key : SignerKeys \cup {None}, id : {NextId}],
         \A i \in Ids : i # NextId => asked'[i] = asked[i],
         r.type = "sign" => asked'[NextId] = Loaded
  PROVE  ThreadInv' /\ seq' \in Nat /\ waiting' \in SUBSET Ids /\ NextId \in Ids
<1>1. thread \in SignerThread /\ waiting \in SUBSET Ids
  BY ThreadFacts DEF SignerInv
<1>2. /\ seq' \in Nat /\ seq' = NextId /\ NextId \in Ids /\ NextId \notin 1..seq
      /\ waiting' \in SUBSET Ids
      /\ thread' \in SignerThread' /\ thread' = [thread EXCEPT !.inbox = Append(thread.inbox, r)]
  BY <1>1, PostsTypes
<1>3. /\ thread'.key = thread.key /\ thread'.replies = thread.replies
      /\ thread'.inbox = Append(thread.inbox, r)
  BY <1>1, <1>2 DEF SignerThread
<1> DEFINE n == Len(thread.inbox)
<1>4. /\ n \in Nat /\ DOMAIN thread.inbox = 1..n /\ DOMAIN thread'.inbox = 1..(n + 1)
      /\ thread'.inbox[n + 1] = r /\ \A i \in 1..n : thread'.inbox[i] = thread.inbox[i]
  BY <1>1, <1>3 DEF SignerThread
<1> HIDE DEF n
<1>5. ASSUME NEW i \in DOMAIN thread'.inbox, thread'.inbox[i].type = "sign"
      PROVE  LoadedAfter(thread', i - 1, asked'[thread'.inbox[i].id])
  <2>1. CASE i \in 1..n
    <3>1. /\ thread'.inbox[i] = thread.inbox[i] /\ thread.inbox[i] \in Messages
          /\ LoadedAfter(thread, i - 1, asked[thread.inbox[i].id]) /\ i - 1 \in 0..n
      BY <1>4, <1>5, <2>1, ThreadFacts
    <3>2. asked'[thread.inbox[i].id] = asked[thread.inbox[i].id]
      BY <1>2, <3>1 DEF Messages
    <3> QED
      BY <1>1, <1>3, <3>1, <3>2, LoadedAfterAppend DEF n
  <2>2. CASE i = n + 1
    <3>1. LoadedAfter(thread, n, Loaded) /\ i - 1 = n /\ n \in 0..n
      BY <1>1, <1>4, <2>2, LoadedIsLast DEF n
    <3>2. thread'.inbox[i] = r /\ asked'[r.id] = Loaded
      BY <1>4, <1>5, <2>2
    <3> QED
      BY <1>1, <1>3, <3>1, <3>2, LoadedAfterAppend DEF n
  <2> QED
    BY <1>4, <2>1, <2>2
<1>6. ASSUME NEW i \in DOMAIN thread'.replies, thread'.replies[i].said \in SignerKeys
      PROVE  thread'.replies[i].said = asked'[thread'.replies[i].id]
  <2>1. /\ thread'.replies[i] = thread.replies[i] /\ thread.replies[i] \in Replies
        /\ thread.replies[i].said = asked[thread.replies[i].id]
    BY <1>3, <1>6, ThreadFacts
  <2>2. asked'[thread.replies[i].id] = asked[thread.replies[i].id]
    BY <1>2, <2>1 DEF Replies
  <2> QED
    BY <2>1, <2>2
<1> QED
  BY <1>2, <1>5, <1>6 DEF ThreadInv, SignerThread

LEMMA PostingKeeps ==
  ASSUME SignerInv, SignInThread \/ ClearThread
  PROVE  SignerInv'
<1>1. CASE SignInThread
  <2> DEFINE r == [type |-> "sign", key |-> None, id |-> NextId]
  <2>1. /\ thread # None /\ Posts(thread, r, waiting)
        /\ asked' = [asked EXCEPT ![NextId] = Loaded] /\ answers' = [answers EXCEPT ![NextId] = None]
    BY <1>1 DEF SignInThread
  <2>2. Loaded \in SignerKeys \cup {None}
    BY <2>1, LoadedIsLast, ThreadFacts
  <2>3. ThreadInv' /\ seq' \in Nat /\ waiting' \in SUBSET Ids /\ NextId \in Ids
    <3>1. /\ \A i \in Ids : i # NextId => asked'[i] = asked[i]
          /\ NextId \in Ids => asked'[NextId] = Loaded
      BY <2>1 DEF SignerInv
    <3>2. NextId \in Ids
      BY <2>1 DEF Posts
    <3> QED
      BY <2>1, <3>1, <3>2, PostedKeeps
  <2>4. SignatureOfTheRequest'
    BY <2>1, <2>3, SignerKeysAssumption DEF SignerInv, SignatureOfTheRequest
  <2> QED
    BY <2>1, <2>2, <2>3, <2>4 DEF SignerInv
<1>2. CASE ClearThread
  <2>1. /\ thread # None /\ Posts(thread, [type |-> "clear", key |-> None, id |-> NextId], waiting)
        /\ UNCHANGED <<asked, answers>>
    BY <1>2 DEF ClearThread
  <2>2. ThreadInv' /\ seq' \in Nat /\ waiting' \in SUBSET Ids
    BY <2>1, PostedKeeps
  <2> QED
    BY <2>1, <2>2 DEF SignerInv, SignatureOfTheRequest
<1> QED
  BY <1>1, <1>2

\* The worker signs with the key that was loaded when it was asked to.
LEMMA ThreadReadsKeeps ==
  ASSUME SignerInv, ThreadReads
  PROVE  SignerInv'
<1> DEFINE r == Head(thread.inbox)
           key == IF r.type = "sign" THEN thread.key ELSE r.key
           said == CASE r.type = "init" -> "ready"
                     [] r.type = "clear" -> "cleared"
                     [] OTHER -> IF key = None THEN "rejected" ELSE key
           reply == [id |-> r.id, said |-> said]
<1>1. /\ thread # None /\ thread.inbox # <<>>
      /\ thread' = [key |-> key, inbox |-> Tail(thread.inbox), replies |-> Append(thread.replies, reply)]
      /\ UNCHANGED <<waiting, seq, asked, answers>>
  BY DEF ThreadReads
<1>2. thread \in SignerThread
  BY <1>1, ThreadFacts
<1> DEFINE n == Len(thread.inbox)
<1>3. /\ n \in Nat /\ n >= 1 /\ DOMAIN thread.inbox = 1..n /\ r = thread.inbox[1] /\ r \in Messages
      /\ thread.inbox \in Seq(Messages) /\ thread.replies \in Seq(Replies)
  BY <1>1, <1>2 DEF SignerThread
<1>4. key \in SignerKeys \cup {None} /\ reply \in Replies
  BY <1>2, <1>3 DEF SignerThread, Messages, Replies
<1>5. said \in SignerKeys => said = asked[r.id]
  <2>1. r.type = "sign" => LoadedAfter(thread, 0, asked[r.id])
    BY <1>1, <1>3, ThreadFacts
  <2>2. r.type = "sign" => asked[r.id] = thread.key
    BY <2>1 DEF LoadedAfter
  <2> QED
    BY <1>3, <2>2, SignerKeysAssumption DEF Messages
<1> HIDE DEF reply
<1>6. thread' \in SignerThread'
  <2>1. Tail(thread.inbox) \in Seq(Messages) /\ Append(thread.replies, reply) \in Seq(Replies)
    BY <1>1, <1>3, <1>4
  <2>2. Messages' = Messages /\ Replies' = Replies
    BY <1>1 DEF Messages, Replies
  <2> QED
    BY <1>1, <1>4, <2>1, <2>2 DEF SignerThread
<1>7. ASSUME NEW i \in DOMAIN thread'.inbox, thread'.inbox[i].type = "sign"
      PROVE  LoadedAfter(thread', i - 1, asked'[thread'.inbox[i].id])
  <2>1. /\ thread'.inbox = Tail(thread.inbox) /\ i \in 1..(n - 1) /\ Len(thread'.inbox) = n - 1
        /\ thread'.inbox[i] = thread.inbox[i + 1]
    BY <1>1, <1>3
  <2>2. i + 1 \in DOMAIN thread.inbox /\ (i + 1) - 1 = (i - 1) + 1 /\ i - 1 \in 0..Len(thread'.inbox)
    BY <1>3, <2>1
  <2>3. LoadedAfter(thread, (i - 1) + 1, asked[thread'.inbox[i].id])
    BY <1>1, <1>7, <2>1, <2>2, ThreadFacts
  <2>4. thread'.key = (IF thread.inbox[1].type = "sign" THEN thread.key ELSE thread.inbox[1].key)
    BY <1>1, <1>3
  <2> HIDE DEF n
  <2>5. LoadedAfter(thread', i - 1, asked[thread'.inbox[i].id])
    BY <1>1, <1>2, <2>1, <2>2, <2>3, <2>4, LoadedAfterTail
  <2> QED
    BY <1>1, <2>5
<1>8. ASSUME NEW i \in DOMAIN thread'.replies, thread'.replies[i].said \in SignerKeys
      PROVE  thread'.replies[i].said = asked'[thread'.replies[i].id]
  <2> DEFINE m == Len(thread.replies)
  <2>1. /\ thread'.replies = Append(thread.replies, reply) /\ m \in Nat /\ DOMAIN thread.replies = 1..m
        /\ i \in 1..(m + 1)
        /\ i # m + 1 => thread'.replies[i] = thread.replies[i]
        /\ i = m + 1 => thread'.replies[i] = reply
    BY <1>1, <1>3
  <2>2. CASE i = m + 1
    <3>1. reply.said = said /\ reply.id = r.id
      BY DEF reply
    <3> QED
      BY <1>1, <1>5, <1>8, <2>1, <2>2, <3>1
  <2>3. CASE i # m + 1
    BY <1>1, <1>8, <2>1, <2>3, ThreadFacts
  <2> QED
    BY <2>2, <2>3
<1>9. ThreadInv'
  BY <1>6, <1>7, <1>8 DEF ThreadInv, SignerThread
<1> QED
  BY <1>1, <1>9 DEF SignerInv, SignatureOfTheRequest

\* A reply settles the request of its id with what was said to it.
LEMMA ReplyReadKeeps ==
  ASSUME SignerInv, ReplyRead
  PROVE  SignerInv'
<1> DEFINE r == Head(thread.replies)
           open == r.id \in waiting
           ends == open /\ r.said = "cleared"
<1>1. /\ thread # None /\ thread.replies # <<>>
      /\ thread' = (IF ends THEN None ELSE [thread EXCEPT !.replies = Tail(thread.replies)])
      /\ waiting' = (IF ends THEN {} ELSE waiting \ {r.id})
      /\ answers' = [IF ends THEN Rejected(waiting) ELSE answers
                       EXCEPT ![r.id] = IF open THEN r.said ELSE @]
      /\ UNCHANGED <<seq, asked>>
  BY DEF ReplyRead
<1>2. thread \in SignerThread
  BY <1>1, ThreadFacts
<1>3. /\ r = thread.replies[1] /\ r \in Replies /\ 1 \in DOMAIN thread.replies
      /\ r.said \in SignerKeys => r.said = asked[r.id]
  <2>1. r = thread.replies[1] /\ 1 \in DOMAIN thread.replies
    BY <1>1, <1>2 DEF SignerThread
  <2> QED
    BY <1>1, <2>1, ThreadFacts
<1> DEFINE m == Len(thread.replies)
<1>4. ThreadInv'
  <2>1. CASE ends
    BY <1>1, <2>1 DEF ThreadInv
  <2>2. CASE ~ends
    <3>1. /\ thread'.key = thread.key /\ thread'.inbox = thread.inbox
          /\ thread'.replies = Tail(thread.replies) /\ thread' = [thread EXCEPT !.replies = Tail(thread.replies)]
      BY <1>1, <1>2, <2>2 DEF SignerThread
    <3>2. thread' \in SignerThread'
      <4>1. Tail(thread.replies) \in Seq(Replies)
        BY <1>1, <1>2 DEF SignerThread
      <4>2. Messages' = Messages /\ Replies' = Replies
        BY <1>1 DEF Messages, Replies
      <4> QED
        BY <1>2, <3>1, <4>1, <4>2 DEF SignerThread
    <3>3. ASSUME NEW i \in DOMAIN thread'.replies, thread'.replies[i].said \in SignerKeys
          PROVE  thread'.replies[i].said = asked'[thread'.replies[i].id]
      <4>1. i + 1 \in DOMAIN thread.replies /\ thread'.replies[i] = thread.replies[i + 1]
        BY <1>1, <1>2, <3>1 DEF SignerThread
      <4> QED
        BY <1>1, <3>3, <4>1, ThreadFacts
    <3>4. ASSUME NEW i \in DOMAIN thread'.inbox, thread'.inbox[i].type = "sign"
          PROVE  LoadedAfter(thread', i - 1, asked'[thread'.inbox[i].id])
      <4>1. LoadedAfter(thread, i - 1, asked[thread.inbox[i].id])
        BY <1>1, <3>1, <3>4, ThreadFacts
      <4> QED
        BY <1>1, <3>1, <4>1 DEF LoadedAfter
    <3> QED
      BY <3>2, <3>3, <3>4 DEF ThreadInv, SignerThread
  <2> QED
    BY <2>1, <2>2
<1>5. /\ answers' \in [Ids -> SignerKeys \cup {None, "ready", "cleared", "rejected"}]
      /\ \A i \in Ids : answers'[i] \in SignerKeys => answers'[i] = asked[i]
  <2> DEFINE f == IF ends THEN Rejected(waiting) ELSE answers
  <2>1. /\ f \in [Ids -> SignerKeys \cup {None, "ready", "cleared", "rejected"}]
        /\ \A i \in Ids : f[i] \in SignerKeys => f[i] = answers[i]
    BY SignerKeysAssumption DEF Rejected, SignerInv
  <2>2. answers' = [f EXCEPT ![r.id] = IF open THEN r.said ELSE f[r.id]] /\ r.id \in Ids
        /\ r.said \in SignerKeys \cup {"ready", "cleared", "rejected"}
    BY <1>1, <1>3 DEF Replies
  <2> HIDE DEF f
  <2> QED
    BY <1>3, <2>1, <2>2 DEF SignerInv, SignatureOfTheRequest
<1>6. waiting' \subseteq Ids
  BY <1>1 DEF SignerInv
<1> QED
  BY <1>1, <1>4, <1>5, <1>6 DEF SignerInv, SignatureOfTheRequest

\* A request that is given up gets no signature.
LEMMA GivenUpKeeps ==
  ASSUME SignerInv, NEW ids \in SUBSET Ids, answers' = Rejected(ids), waiting' \subseteq waiting,
         UNCHANGED <<thread, seq, asked>>
  PROVE  SignerInv'
<1>1. /\ answers' \in [Ids -> SignerKeys \cup {None, "ready", "cleared", "rejected"}]
      /\ \A i \in Ids : answers'[i] \in SignerKeys => answers'[i] = answers[i]
  BY SignerKeysAssumption DEF Rejected, SignerInv
<1>2. ThreadInv'
  BY DEF SignerInv, ThreadInv, Messages, Replies, LoadedAfter
<1> QED
  BY <1>1, <1>2 DEF SignerInv, SignatureOfTheRequest

LEMMA SignerStep == SignerInv /\ SignerNext => SignerInv'
<1> SUFFICES ASSUME SignerInv, SignerNext PROVE SignerInv'
  OBVIOUS
<1>1. ASSUME NEW k \in SignerKeys, InitWithKey(k) PROVE SignerInv'
  BY <1>1, InitWithKeyKeeps
<1>2. CASE SignInThread \/ ClearThread
  BY <1>2, PostingKeeps
<1>3. CASE ThreadReads
  BY <1>3, ThreadReadsKeeps
<1>4. CASE ReplyRead
  BY <1>4, ReplyReadKeeps
<1>5. CASE ThreadFails
  <2>1. /\ waiting' = {} /\ answers' = Rejected(waiting) /\ waiting \in SUBSET Ids
        /\ UNCHANGED <<thread, seq, asked>>
    BY <1>5 DEF ThreadFails, SignerInv
  <2> QED
    BY <2>1, GivenUpKeeps
<1>6. ASSUME NEW i \in Ids, RequestTimesOut(i) PROVE SignerInv'
  <2>1. /\ waiting' = waiting \ {i} /\ answers' = Rejected({i}) /\ {i} \in SUBSET Ids
        /\ UNCHANGED <<thread, seq, asked>>
    BY <1>6 DEF RequestTimesOut
  <2> QED
    BY <2>1, GivenUpKeeps
<1> QED
  BY <1>1, <1>2, <1>3, <1>4, <1>5, <1>6 DEF SignerNext

-----------------------------------------------------------------------------
(* The transaction monitor. *)

\* An entry object is the one of its transaction for as long as it is polled or a
\* poll in flight has it.
EntriesInv ==
  /\ \A t \in Txs : polls[t] # None => entry[polls[t]].tx = t
  /\ \A p \in Polls :
       IF poll[p].at = "idle" THEN poll[p].entry = None
       ELSE poll[p].entry # None /\ entry[poll[p].entry].tx # None
  /\ \A w \in Watchers : watch[w].at # "idle" => watch[w].tx # None

\* Whatever says that a transaction succeeded says it of one that did: the node,
\* an answer under way, the store, and what a watch has read of it.
SuccessInv ==
  /\ \A t \in Txs : where[t] \in Block => (where[t].ok => t \in mined)
  /\ \A p \in Polls :
       poll[p].at # "idle" /\ poll[p].receipt \in Block =>
         (poll[p].receipt.ok => entry[poll[p].entry].tx \in mined)
  /\ \A t \in Txs : txStored[t] = "confirmed" => t \in mined
  /\ \A w \in Watchers : watch[w].at # "idle" /\ watch[w].read = "confirmed" => watch[w].tx \in mined

MonitorInv == TxTypeOK /\ EntriesInv /\ PollsAreDriven /\ SuccessInv /\ ConfirmedWasMined

-----------------------------------------------------------------------------
(* The steps the actions share. *)

\* What is not a block or not a status.
LEMMA NotBlocks ==
  /\ Mempool \notin Block /\ Gone \notin Block /\ NoReceipt \notin Block
  /\ Foreign \notin Block /\ None \notin Block
  /\ None \notin Statuses /\ \A t \in Txs : t # None
  /\ \A e \in Entries : e # None
  BY AnswersAssumption, TxConstantsAssumption

\* The monitor starts with nothing watched, so nothing is reported.
LEMMA MonitorInit == TxInit => MonitorInv
<1> SUFFICES ASSUME TxInit PROVE MonitorInv
  OBVIOUS
<1> USE TxConstantsAssumption, AnswersAssumption
<1>1. TxTypeOK
  <2>1. /\ where \in [Txs -> Block \cup {Mempool, Gone}]
        /\ head \in [Chains -> 0 .. MaxBlock] /\ reorgs \in 0 .. MaxReorgs
    BY DEF TxInit
  <2>2. txStored \in [Txs -> Statuses \cup {None}]
    BY DEF TxInit, Statuses
  <2>3. NewEntry \in Entry /\ NoWatch \in Watch /\ NoPoll \in Poll
    BY DEF NewEntry, Entry, NoWatch, Watch, NoPoll, Poll, Answers
  <2>4. entry \in [Entries -> Entry] /\ watch \in [Watchers -> Watch] /\ poll \in [Polls -> Poll]
    BY <2>3 DEF TxInit
  <2> QED
    BY <2>1, <2>2, <2>4 DEF TxInit, TxTypeOK
<1>2. EntriesInv
  BY DEF TxInit, EntriesInv, NoWatch, NoPoll
<1>3. PollsAreDriven
  BY DEF TxInit, PollsAreDriven
<1>4. SuccessInv
  BY NotBlocks DEF TxInit, SuccessInv, NoWatch, NoPoll
<1>5. ConfirmedWasMined
  BY NotBlocks DEF TxInit, ConfirmedWasMined, Statuses
<1> QED
  BY <1>1, <1>2, <1>3, <1>4, <1>5 DEF MonitorInv

\* What a poll that starts has asked.
LEMMA AsksMoves ==
  ASSUME TxTypeOK, NEW p \in Polls, NEW e \in Entries, Asks(p, e)
  PROVE  /\ poll' \in [Polls -> Poll]
         /\ poll[p].at = "idle"
         /\ poll'[p].at = "receipt" /\ poll'[p].entry = e /\ poll'[p].receipt = NoReceipt
         /\ \A q \in Polls : q # p => poll'[q] = poll[q]
  BY DEF TxTypeOK, Asks, Poll, Answers

\* What a poll that goes on has heard.
LEMMA GoesMoves ==
  ASSUME TxTypeOK, NEW p \in Polls, NEW step \in {"answered", "tx"}, NEW receipt \in Answers,
         Goes(p, step, receipt)
  PROVE  /\ poll' \in [Polls -> Poll]
         /\ poll'[p].at = step /\ poll'[p].entry = poll[p].entry /\ poll'[p].receipt = receipt
         /\ \A q \in Polls : q # p => poll'[q] = poll[q]
  BY DEF TxTypeOK, Goes, Poll

\* An entry object that is still referred to is kept as it is.
LEMMA KeptKeeps ==
  ASSUME NEW es \in [Entries -> Entry], entry' = Kept(es), TxConstantsAssumption,
         polls' \in [Txs -> Entries \cup {None}],
         \A p \in Polls : poll'[p].entry \in Entries \cup {None}
  PROVE  /\ entry' \in [Entries -> Entry]
         /\ \A t \in Txs : polls'[t] # None => entry'[polls'[t]] = es[polls'[t]]
         /\ \A p \in Polls : poll'[p].entry # None => entry'[poll'[p].entry] = es[poll'[p].entry]
  BY DEF Kept, Entry, NewEntry

\* A chain keeps its timer for exactly as long as a poll is left on it.
LEMMA UnpollDrives ==
  ASSUME MonitorInv, NEW S, Unpoll(S), TxConstantsAssumption,
         \A t \in watchers : t \notin S => t \in watchers'
  PROVE  /\ polls' \in [Txs -> Entries \cup {None}]
         /\ timers' \subseteq Chains
         /\ \A t \in Txs : polls'[t] # None => polls'[t] = polls[t]
         /\ PollsAreDriven'
<1>1. /\ polls' \in [Txs -> Entries \cup {None}]
      /\ timers' \subseteq Chains
      /\ \A t \in Txs : polls'[t] # None => polls'[t] = polls[t] /\ t \notin S
      /\ \A t \in Txs : t \notin S => polls'[t] = polls[t]
  BY DEF MonitorInv, TxTypeOK, Unpoll
<1>2. ASSUME NEW t \in Txs, polls'[t] # None
      PROVE  t \in watchers' /\ ChainOf[t] \in timers'
  BY <1>1, <1>2 DEF MonitorInv, PollsAreDriven, Unpoll
<1>3. ASSUME NEW c \in timers'
      PROVE  \E t \in Txs : ChainOf[t] = c /\ polls'[t] # None
  BY <1>1, <1>3 DEF Unpoll
<1> QED
  BY <1>1, <1>2, <1>3 DEF PollsAreDriven

-----------------------------------------------------------------------------
(* One lemma for each group of actions. *)

\* The node: a transaction is said to have succeeded by the block that made it so.
LEMMA NodeSteps ==
  ASSUME MonitorInv,
         \/ \E t \in Txs : Mine(t, TRUE) \/ Mine(t, FALSE) \/ Reorg(t) \/ Drop(t)
         \/ \E c \in Chains : NewBlock(c)
  PROVE  MonitorInv'
<1> USE TxConstantsAssumption, AnswersAssumption
<1>0. UNCHANGED <<monitor, store, poller, entry, watch, poll>> /\ mined \subseteq mined' /\ mined' \subseteq Txs
  BY DEF MonitorInv, TxTypeOK, Mine, Reorg, Drop, NewBlock
<1>1. where' \in [Txs -> Block \cup {Mempool, Gone}] /\ head' \in [Chains -> 0 .. MaxBlock]
      /\ reorgs' \in 0 .. MaxReorgs
  <2>1. CASE \E t \in Txs, ok \in BOOLEAN : Mine(t, ok)
    <3>1. PICK t \in Txs, ok \in BOOLEAN : Mine(t, ok)
      BY <2>1
    <3>2. ChainOf[t] \in Chains /\ head[ChainOf[t]] + 1 \in 1 .. MaxBlock
      BY <3>1 DEF MonitorInv, TxTypeOK, Mine
    <3>3. [number |-> head[ChainOf[t]] + 1, fork |-> reorgs, ok |-> ok] \in Block
      BY <3>2 DEF MonitorInv, TxTypeOK, Block
    <3> QED
      BY <3>1, <3>2, <3>3 DEF MonitorInv, TxTypeOK, Mine
  <2>2. CASE \E t \in Txs : Reorg(t) \/ Drop(t)
    BY <2>2 DEF MonitorInv, TxTypeOK, Reorg, Drop
  <2>3. CASE \E c \in Chains : NewBlock(c)
    BY <2>3 DEF MonitorInv, TxTypeOK, NewBlock
  <2> QED
    BY <2>1, <2>2, <2>3
<1>2. TxTypeOK'
  BY <1>0, <1>1 DEF MonitorInv, TxTypeOK, monitor, store, poller
<1>3. EntriesInv' /\ PollsAreDriven' /\ ConfirmedWasMined'
  BY <1>0 DEF MonitorInv, EntriesInv, PollsAreDriven, ConfirmedWasMined, monitor, store, poller
<1>4. \A u \in Txs : where'[u] \in Block => (where'[u].ok => u \in mined')
  BY DEF MonitorInv, SuccessInv, TxTypeOK, Mine, Reorg, Drop, NewBlock
<1>5. SuccessInv'
  BY <1>0, <1>4 DEF MonitorInv, SuccessInv, monitor, store, poller
<1> QED
  BY <1>2, <1>3, <1>5 DEF MonitorInv

\* A poll asks about the entry it was given and has heard nothing yet.
LEMMA PollSteps ==
  ASSUME MonitorInv, NEW t \in Txs, NEW p \in Polls, TimerPoll(p, t) \/ RefreshTx(p, t)
  PROVE  MonitorInv'
<1> USE TxConstantsAssumption, AnswersAssumption
<1>0. UNCHANGED <<node, monitor, store, poller, entry, watch, mined>>
  BY DEF TimerPoll, RefreshTx
<1>1. polls[t] \in Entries /\ Asks(p, polls[t]) /\ entry[polls[t]].tx = t
  BY DEF TimerPoll, RefreshTx, MonitorInv, TxTypeOK, EntriesInv
<1>2. /\ poll' \in [Polls -> Poll]
      /\ poll'[p].at = "receipt" /\ poll'[p].entry = polls[t] /\ poll'[p].receipt = NoReceipt
      /\ \A q \in Polls : q # p => poll'[q] = poll[q]
  BY <1>1, AsksMoves DEF MonitorInv
<1>3. TxTypeOK'
  BY <1>0, <1>2 DEF MonitorInv, TxTypeOK, node, monitor, store, poller
<1>4. EntriesInv'
  BY <1>0, <1>1, <1>2 DEF MonitorInv, EntriesInv, poller
<1>5. PollsAreDriven' /\ ConfirmedWasMined'
  BY <1>0 DEF MonitorInv, PollsAreDriven, ConfirmedWasMined, monitor, poller
<1>6. SuccessInv'
  BY <1>0, <1>2, NotBlocks DEF MonitorInv, SuccessInv, node, store
<1> QED
  BY <1>3, <1>4, <1>5, <1>6 DEF MonitorInv

\* Time only ends a delay and makes an entry old.
LEMMA TimeSteps ==
  ASSUME MonitorInv, NEW e \in Entries, BackoffEnds(e) \/ FiveMinutes(e)
  PROVE  MonitorInv'
<1> USE TxConstantsAssumption, AnswersAssumption
<1>0. UNCHANGED <<node, monitor, store, poller, watch, poll, mined>>
  BY DEF BackoffEnds, FiveMinutes
<1>1. entry' \in [Entries -> Entry] /\ \A f \in Entries : entry'[f].tx = entry[f].tx
  <2> DEFINE ended == [entry[e] EXCEPT !.backoff = FALSE]
             aged == [entry[e] EXCEPT !.late = TRUE]
  <2>1. entry \in [Entries -> Entry] /\ entry[e] \in Entry
    BY DEF MonitorInv, TxTypeOK
  <2>2. ended \in Entry /\ ended.tx = entry[e].tx /\ aged \in Entry /\ aged.tx = entry[e].tx
    BY <2>1 DEF Entry
  <2>3. entry' = [entry EXCEPT ![e] = ended] \/ entry' = [entry EXCEPT ![e] = aged]
    BY <2>1 DEF BackoffEnds, FiveMinutes
  <2> HIDE DEF ended, aged
  <2> QED
    BY <2>1, <2>2, <2>3
<1>2. TxTypeOK'
  BY <1>0, <1>1 DEF MonitorInv, TxTypeOK, node, monitor, store, poller
<1>3. EntriesInv'
  <2>1. /\ \A t \in Txs : polls[t] # None => polls[t] \in Entries
        /\ \A p \in Polls : poll[p].entry # None => poll[p].entry \in Entries
    BY DEF MonitorInv, TxTypeOK, Poll
  <2> QED
    BY <1>0, <1>1, <2>1 DEF MonitorInv, EntriesInv, poller
<1>4. PollsAreDriven' /\ ConfirmedWasMined'
  BY <1>0 DEF MonitorInv, PollsAreDriven, ConfirmedWasMined, monitor, poller
<1>5. SuccessInv'
  BY <1>0, <1>1 DEF MonitorInv, SuccessInv, EntriesInv, TxTypeOK, Poll, node, store
<1> QED
  BY <1>2, <1>3, <1>4, <1>5 DEF MonitorInv

\* A watch takes up what the store says of its transaction, and reports it only
\* when it is final.
LEMMA WatchSteps ==
  ASSUME MonitorInv, NEW w \in Watchers,
         (\E t \in Txs : WatchTx(w, t)) \/ StoreGet(w) \/ WatchFinal(w) \/ WatchRead(w)
  PROVE  MonitorInv'
<1> USE TxConstantsAssumption, AnswersAssumption
<1> DEFINE u == watch[w].tx
<1>0. UNCHANGED <<node, watchers, indexed, poller, entry, poll, mined>>
  BY DEF WatchTx, StoreGet, WatchFinal, WatchRead, monitor, store
<1>1. watch[w].at # "idle" => u \in Txs
  BY DEF MonitorInv, EntriesInv, TxTypeOK, Watch
<1>2. CASE \E t \in Txs : WatchTx(w, t)
  <2> PICK t \in Txs : WatchTx(w, t)
    BY <1>2
  <2>1. /\ watch' \in [Watchers -> Watch]
        /\ watch'[w].tx = t /\ watch'[w].read = None
        /\ \A x \in Watchers : x # w => watch'[x] = watch[x]
    BY DEF WatchTx, MonitorInv, TxTypeOK, Watch
  <2> QED
    BY <1>0, <2>1, NotBlocks
    DEF WatchTx, MonitorInv, TxTypeOK, EntriesInv, PollsAreDriven, SuccessInv, ConfirmedWasMined,
        node, monitor, store, poller, Statuses
<1>3. CASE StoreGet(w)
  <2>0. watch[w].at = "get" /\ u \in Txs /\ UNCHANGED <<monitor, store>>
    BY <1>1, <1>3 DEF StoreGet
  <2> DEFINE heard == [watch[w] EXCEPT !.at = "read", !.read = txStored[u]]
  <2>1. watch[w] \in Watch /\ txStored[u] \in Statuses \cup {None}
    BY <2>0 DEF MonitorInv, TxTypeOK
  <2>2. heard \in Watch /\ heard.at = "read" /\ heard.tx = u /\ heard.read = txStored[u]
    BY <2>1 DEF Watch
  <2>3. watch' = [watch EXCEPT ![w] = heard]
    BY <1>3, <2>1 DEF StoreGet, MonitorInv, TxTypeOK
  <2> HIDE DEF heard
  <2>4. /\ watch' \in [Watchers -> Watch]
        /\ watch'[w].tx = u /\ watch'[w].read = txStored[u]
        /\ \A x \in Watchers : x # w => watch'[x] = watch[x]
    BY <2>2, <2>3 DEF MonitorInv, TxTypeOK
  <2>5. SuccessInv'
    BY <1>0, <2>0, <2>4 DEF MonitorInv, SuccessInv, node, store
  <2>6. TxTypeOK' /\ EntriesInv'
    BY <1>0, <2>0, <2>4, NotBlocks DEF MonitorInv, TxTypeOK, EntriesInv, node, monitor, store, poller
  <2> QED
    BY <1>0, <2>0, <2>5, <2>6 DEF MonitorInv, PollsAreDriven, ConfirmedWasMined, monitor, poller
<1>4. CASE WatchFinal(w)
  <2>0. watch[w].at = "read" /\ u \in Txs /\ watch[w].read \in Terminal /\ UNCHANGED store
    BY <1>1, <1>4 DEF WatchFinal
  <2>1. /\ statuses' \in [Txs -> Statuses \cup {None}]
        /\ statuses'[u] = watch[w].read
        /\ \A x \in Txs : x # u => statuses'[x] = statuses[x]
    BY <1>4, <2>0 DEF WatchFinal, MonitorInv, TxTypeOK, Terminal, Statuses
  <2>2. /\ watch' \in [Watchers -> Watch] /\ watch'[w].at = "idle"
        /\ \A x \in Watchers : x # w => watch'[x] = watch[x]
    BY <1>4 DEF WatchFinal, NoWatch, Watch, MonitorInv, TxTypeOK
  <2>3. TxTypeOK' /\ EntriesInv' /\ SuccessInv'
    BY <1>0, <2>0, <2>1, <2>2
    DEF MonitorInv, TxTypeOK, EntriesInv, SuccessInv, node, store, poller
  <2>4. ConfirmedWasMined'
    BY <1>0, <2>0, <2>1 DEF MonitorInv, SuccessInv, ConfirmedWasMined
  <2> QED
    BY <1>0, <2>3, <2>4 DEF MonitorInv, PollsAreDriven, poller
<1>5. CASE WatchRead(w)
  <2>0. watch[w].at = "read" /\ u \in Txs
    BY <1>1, <1>5 DEF WatchRead
  <2>1. PICK first \in {"mined", "unknown"} :
           /\ statuses' = [statuses EXCEPT ![u] = first]
           /\ txStored' = [txStored EXCEPT ![u] = first]
    BY <1>5 DEF WatchRead
  <2>2. /\ statuses' \in [Txs -> Statuses \cup {None}] /\ txStored' \in [Txs -> Statuses \cup {None}]
        /\ statuses'[u] # "confirmed" /\ txStored'[u] # "confirmed"
        /\ \A x \in Txs : x # u => statuses'[x] = statuses[x] /\ txStored'[x] = txStored[x]
    BY <2>0, <2>1 DEF MonitorInv, TxTypeOK, Statuses
  <2> DEFINE stored == [watch[w] EXCEPT !.at = "put", !.read = None]
  <2>3. watch[w] \in Watch
    BY DEF MonitorInv, TxTypeOK
  <2>4. stored \in Watch /\ stored.tx = u /\ stored.read = None
    BY <2>3 DEF Watch
  <2>5. watch' = [watch EXCEPT ![w] = stored]
    BY <1>5, <2>3 DEF WatchRead, MonitorInv, TxTypeOK
  <2> HIDE DEF stored
  <2>6. /\ watch' \in [Watchers -> Watch] /\ watch'[w].tx = u /\ watch'[w].read = None
        /\ \A x \in Watchers : x # w => watch'[x] = watch[x]
    BY <2>4, <2>5 DEF MonitorInv, TxTypeOK
  <2>7. TxTypeOK' /\ EntriesInv'
    BY <1>0, <2>0, <2>2, <2>6, NotBlocks DEF MonitorInv, TxTypeOK, EntriesInv, node, poller
  <2>8. SuccessInv' /\ ConfirmedWasMined'
    BY <1>0, <2>2, <2>6, NotBlocks DEF MonitorInv, SuccessInv, ConfirmedWasMined, node, Statuses
  <2> QED
    BY <1>0, <2>7, <2>8 DEF MonitorInv, PollsAreDriven, poller
<1> QED
  BY <1>2, <1>3, <1>4, <1>5

\* startPolling gives the transaction an entry of its own and its chain a timer.
LEMMA WatchStartSteps ==
  ASSUME MonitorInv, NEW w \in Watchers, NEW p \in Polls, NEW e \in Entries, WatchStart(w, p, e)
  PROVE  MonitorInv'
<1> USE TxConstantsAssumption, AnswersAssumption
<1> DEFINE t == watch[w].tx
<1>0. /\ t \in Txs /\ ChainOf[t] \in Chains
      /\ watchers' = watchers \cup {t} /\ indexed' = indexed \cup {t}
      /\ UNCHANGED <<node, statuses, txStored, mined>>
  BY DEF WatchStart, MonitorInv, EntriesInv, TxTypeOK, Watch
<1>1. /\ watch' \in [Watchers -> Watch] /\ watch'[w].at = "idle"
      /\ \A x \in Watchers : x # w => watch'[x] = watch[x]
  BY DEF WatchStart, NoWatch, Watch, MonitorInv, TxTypeOK
<1>2. CASE polls[t] # None /\ UNCHANGED <<poller, entry, poll>>
  <2>1. TxTypeOK' /\ EntriesInv' /\ PollsAreDriven'
    BY <1>0, <1>1, <1>2 DEF MonitorInv, TxTypeOK, EntriesInv, PollsAreDriven, node, poller
  <2> QED
    BY <1>0, <1>1, <1>2, <2>1 DEF MonitorInv, SuccessInv, ConfirmedWasMined, node
<1>3. CASE /\ polls[t] = None
           /\ entry[e] = NewEntry
           /\ polls' = [polls EXCEPT ![t] = e]
           /\ timers' = timers \cup {ChainOf[t]}
           /\ entry' = [entry EXCEPT ![e].tx = t]
           /\ Asks(p, e)
  <2> HIDE DEF t
  <2>1. /\ poll' \in [Polls -> Poll]
        /\ poll'[p].at = "receipt" /\ poll'[p].entry = e /\ poll'[p].receipt = NoReceipt
        /\ \A q \in Polls : q # p => poll'[q] = poll[q]
    BY <1>3, AsksMoves DEF MonitorInv
  <2> DEFINE own == [entry[e] EXCEPT !.tx = t]
  <2>2. entry \in [Entries -> Entry] /\ own \in Entry /\ own.tx = t /\ entry' = [entry EXCEPT ![e] = own]
    BY <1>0, <1>3 DEF MonitorInv, TxTypeOK, Entry
  <2> HIDE DEF own
  <2>3. /\ entry' \in [Entries -> Entry] /\ entry'[e].tx = t
        /\ \A f \in Entries : f # e => entry'[f] = entry[f]
    BY <2>2
  <2>4. /\ \A x \in Txs : polls[x] # None => polls[x] \in Entries /\ entry[polls[x]].tx = x
        /\ \A q \in Polls : poll[q].at # "idle" =>
             poll[q].entry \in Entries /\ entry[poll[q].entry].tx \in Txs
    BY NotBlocks DEF MonitorInv, EntriesInv, TxTypeOK, Poll, Entry
  <2>5. entry[e].tx = None
    BY <1>3 DEF NewEntry
  <2>6. /\ polls' \in [Txs -> Entries \cup {None}] /\ polls'[t] = e
        /\ \A x \in Txs : x # t => polls'[x] = polls[x]
    BY <1>0, <1>3 DEF MonitorInv, TxTypeOK
  <2>7. \A q \in Polls : q # p /\ poll[q].at # "idle" => poll[q].entry # e
    BY <2>4, <2>5, NotBlocks
  <2>8. \A x \in Txs : polls[x] # None => polls[x] # e
    BY <2>4, <2>5, NotBlocks
  <2>9. TxTypeOK'
    BY <1>0, <1>1, <1>3, <2>1, <2>3, <2>6 DEF MonitorInv, TxTypeOK, node
  <2>10. EntriesInv'
    <3>1. ASSUME NEW x \in Txs, polls'[x] # None PROVE entry'[polls'[x]].tx = x
      BY <2>3, <2>4, <2>6, <2>8, <3>1
    <3>2. ASSUME NEW q \in Polls, poll'[q].at # "idle"
          PROVE  poll'[q].entry # None /\ entry'[poll'[q].entry].tx # None
      BY <1>0, <2>1, <2>3, <2>4, <2>7, <3>2, NotBlocks
    <3>3. ASSUME NEW q \in Polls, poll'[q].at = "idle" PROVE poll'[q].entry = None
      BY <2>1, <3>3 DEF MonitorInv, EntriesInv
    <3>4. \A x \in Watchers : watch'[x].at # "idle" => watch'[x].tx # None
      BY <1>1 DEF MonitorInv, EntriesInv
    <3> QED
      BY <3>1, <3>2, <3>3, <3>4 DEF EntriesInv
  <2>11. PollsAreDriven'
    <3>1. ASSUME NEW x \in Txs, polls'[x] # None PROVE x \in watchers' /\ ChainOf[x] \in timers'
      BY <1>0, <1>3, <2>6, <3>1 DEF MonitorInv, PollsAreDriven
    <3>2. ASSUME NEW c \in timers' PROVE \E x \in Txs : ChainOf[x] = c /\ polls'[x] # None
      BY <1>0, <1>3, <2>6, <3>2, NotBlocks DEF MonitorInv, PollsAreDriven
    <3> QED
      BY <3>1, <3>2 DEF PollsAreDriven
  <2>12. SuccessInv'
    <3>1. ASSUME NEW q \in Polls, poll'[q].at # "idle", poll'[q].receipt \in Block, poll'[q].receipt.ok
          PROVE  entry'[poll'[q].entry].tx \in mined'
      BY <1>0, <2>1, <2>3, <2>4, <2>7, <3>1, NotBlocks DEF MonitorInv, SuccessInv
    <3>2. \A x \in Watchers : watch'[x].at # "idle" /\ watch'[x].read = "confirmed" => watch'[x].tx \in mined'
      BY <1>0, <1>1 DEF MonitorInv, SuccessInv
    <3> QED
      BY <1>0, <3>1, <3>2 DEF MonitorInv, SuccessInv, node
  <2> QED
    BY <1>0, <2>9, <2>10, <2>11, <2>12 DEF MonitorInv, ConfirmedWasMined
<1> QED
  BY <1>2, <1>3 DEF WatchStart

\* Where polls end or are dropped and only the referenced entries are kept, what
\* is left says no more than before.
LEMMA DroppedIsForgotten ==
  ASSUME MonitorInv, NEW es \in [Entries -> Entry], \A f \in Entries : es[f].tx = entry[f].tx,
         entry' = Kept(es),
         polls' \in [Txs -> Entries \cup {None}],
         \A t \in Txs : polls'[t] # None => polls'[t] = polls[t],
         \A q \in Polls : poll'[q] = poll[q] \/ poll'[q] = NoPoll,
         UNCHANGED <<where, mined, watch>>
  PROVE  /\ entry' \in [Entries -> Entry]
         /\ EntriesInv'
         /\ \A t \in Txs : where'[t] \in Block => (where'[t].ok => t \in mined')
         /\ \A q \in Polls :
              poll'[q].at # "idle" /\ poll'[q].receipt \in Block =>
                (poll'[q].receipt.ok => entry'[poll'[q].entry].tx \in mined')
<1> USE TxConstantsAssumption
<1>1. \A q \in Polls : poll[q].entry \in Entries \cup {None} /\ poll'[q].entry \in Entries \cup {None}
  BY DEF MonitorInv, TxTypeOK, Poll, NoPoll
<1>2. /\ entry' \in [Entries -> Entry]
      /\ \A t \in Txs : polls'[t] # None => entry'[polls'[t]] = es[polls'[t]]
      /\ \A q \in Polls : poll'[q].entry # None => entry'[poll'[q].entry] = es[poll'[q].entry]
  BY <1>1, KeptKeeps
<1>3. \A t \in Txs : polls'[t] # None => entry'[polls'[t]].tx = t
  BY <1>2 DEF MonitorInv, EntriesInv
<1>4. \A q \in Polls :
        /\ poll'[q].at = "idle" => poll'[q].entry = None
        /\ poll'[q].at # "idle" =>
             /\ poll'[q] = poll[q] /\ poll'[q].entry # None
             /\ entry'[poll'[q].entry].tx = entry[poll[q].entry].tx
             /\ entry'[poll'[q].entry].tx # None
  BY <1>1, <1>2 DEF MonitorInv, EntriesInv, NoPoll
<1>5. EntriesInv'
  BY <1>3, <1>4 DEF MonitorInv, EntriesInv
<1> QED
  BY <1>2, <1>4, <1>5 DEF MonitorInv, SuccessInv

\* Stopping drops the polls of what is no longer watched, and no other poll.
LEMMA StopSteps ==
  ASSUME MonitorInv, NEW S, StopWatching(S) \/ Stop
  PROVE  MonitorInv'
<1> USE TxConstantsAssumption, AnswersAssumption
<1>0. /\ UNCHANGED <<node, statuses, store, watch, mined, poll>>
      /\ entry' = Kept(entry) /\ watchers' \subseteq Txs
  BY DEF StopWatching, Stop, MonitorInv, TxTypeOK
<1>1. /\ polls' \in [Txs -> Entries \cup {None}] /\ timers' \subseteq Chains
      /\ \A t \in Txs : polls'[t] # None => polls'[t] = polls[t]
      /\ PollsAreDriven'
  <2>1. CASE StopWatching(S)
    BY <2>1, UnpollDrives DEF StopWatching
  <2>2. CASE Stop
    BY <2>2 DEF Stop, PollsAreDriven
  <2> QED
    BY <2>1, <2>2
<1>2. entry \in [Entries -> Entry]
  BY DEF MonitorInv, TxTypeOK
<1>3. /\ entry' \in [Entries -> Entry]
      /\ EntriesInv'
      /\ \A t \in Txs : where'[t] \in Block => (where'[t].ok => t \in mined')
      /\ \A q \in Polls :
           poll'[q].at # "idle" /\ poll'[q].receipt \in Block =>
             (poll'[q].receipt.ok => entry'[poll'[q].entry].tx \in mined')
  BY <1>0, <1>1, <1>2, DroppedIsForgotten DEF node
<1>4. TxTypeOK'
  BY <1>0, <1>1, <1>3 DEF MonitorInv, TxTypeOK, node, store
<1>5. SuccessInv' /\ ConfirmedWasMined'
  BY <1>0, <1>3 DEF MonitorInv, SuccessInv, ConfirmedWasMined, store
<1> QED
  BY <1>1, <1>3, <1>4, <1>5 DEF MonitorInv

\* A receipt is what the node says of the entry's transaction, or another's.
LEMMA ReceiptSteps ==
  ASSUME MonitorInv, NEW p \in Polls,
         \/ ReceiptAnswer(p)
         \/ /\ poll[p].at = "answered" /\ Goes(p, "tx", NoReceipt)
            /\ UNCHANGED <<node, monitor, store, poller, entry, watch, mined>>
  PROVE  MonitorInv'
<1> USE TxConstantsAssumption, AnswersAssumption
<1> DEFINE t == entry[poll[p].entry].tx
<1>0. poll[p].at # "idle" /\ UNCHANGED <<node, monitor, store, poller, entry, watch, mined>>
  BY DEF ReceiptAnswer
<1>1. t \in Txs
  BY <1>0 DEF MonitorInv, EntriesInv, TxTypeOK, Poll, Entry
<1>2. \E step \in {"answered", "tx"}, receipt \in Answers :
        /\ Goes(p, step, receipt)
        /\ receipt \in Block => (receipt.ok => t \in mined)
  <2>1. CASE ReceiptAnswer(p)
    <3>1. (IF InBlock(t) THEN where[t] ELSE NoReceipt) \in Answers
      BY <1>1 DEF InBlock, Answers, MonitorInv, TxTypeOK
    <3> QED
      BY <2>1, <3>1, <1>1, NotBlocks DEF ReceiptAnswer, InBlock, Answers, MonitorInv, SuccessInv
  <2>2. CASE Goes(p, "tx", NoReceipt)
    BY <2>2, NotBlocks DEF Answers
  <2> QED
    BY <2>1, <2>2
<1>3. PICK step \in {"answered", "tx"}, receipt \in Answers :
        /\ Goes(p, step, receipt)
        /\ receipt \in Block => (receipt.ok => t \in mined)
  BY <1>2
<1>4. /\ poll' \in [Polls -> Poll]
      /\ poll'[p].at = step /\ poll'[p].entry = poll[p].entry /\ poll'[p].receipt = receipt
      /\ \A q \in Polls : q # p => poll'[q] = poll[q]
  BY <1>3, GoesMoves DEF MonitorInv
<1>5. TxTypeOK' /\ EntriesInv'
  BY <1>0, <1>4 DEF MonitorInv, TxTypeOK, EntriesInv, node, monitor, store, poller
<1>6. SuccessInv'
  BY <1>0, <1>3, <1>4 DEF MonitorInv, SuccessInv, node, store
<1> QED
  BY <1>0, <1>5, <1>6 DEF MonitorInv, PollsAreDriven, ConfirmedWasMined, monitor, poller

\* An error writes nothing but the status that is reported already.
LEMMA ErrorSteps ==
  ASSUME MonitorInv, NEW p \in Polls, PollError(p)
  PROVE  MonitorInv'
<1> USE TxConstantsAssumption, AnswersAssumption
<1> DEFINE e == poll[p].entry
           t == entry[e].tx
           es == [entry EXCEPT ![e].backoff = TRUE]
<1>0. /\ poll[p].at # "idle" /\ UNCHANGED <<node, monitor, poller, watch, mined>>
      /\ entry' = Kept(es) /\ poll' = [poll EXCEPT ![p] = NoPoll]
  BY DEF PollError
<1>1. e \in Entries /\ t \in Txs
  BY <1>0 DEF MonitorInv, EntriesInv, TxTypeOK, Poll, Entry
<1>2. /\ txStored' \in [Txs -> Statuses \cup {None}] /\ indexed' \subseteq Txs
      /\ \A x \in Txs : txStored'[x] = "confirmed" => x \in mined
  <2>1. CASE UNCHANGED store
    BY <2>1 DEF MonitorInv, TxTypeOK, SuccessInv, store
  <2>2. CASE /\ txStored' = [txStored EXCEPT ![t] = statuses[t]]
             /\ indexed' = indexed \cup {t}
    BY <1>1, <2>2 DEF MonitorInv, TxTypeOK, SuccessInv, ConfirmedWasMined
  <2> QED
    BY <2>1, <2>2 DEF PollError
<1>3. es \in [Entries -> Entry] /\ \A f \in Entries : es[f].tx = entry[f].tx
  <2> DEFINE r == [entry[e] EXCEPT !.backoff = TRUE]
  <2>1. entry \in [Entries -> Entry] /\ entry[e] \in Entry
    BY <1>1 DEF MonitorInv, TxTypeOK
  <2>2. r \in Entry /\ r.tx = entry[e].tx
    BY <2>1 DEF Entry
  <2>3. es = [entry EXCEPT ![e] = r]
    BY <1>1, <2>1
  <2> HIDE DEF r, es
  <2> QED
    BY <2>1, <2>2, <2>3
<1>4. poll' \in [Polls -> Poll] /\ \A q \in Polls : poll'[q] = poll[q] \/ poll'[q] = NoPoll
  BY <1>0 DEF MonitorInv, TxTypeOK, Poll, NoPoll, Answers
<1> HIDE DEF es
<1>5. /\ entry' \in [Entries -> Entry]
      /\ EntriesInv'
      /\ \A x \in Txs : where'[x] \in Block => (where'[x].ok => x \in mined')
      /\ \A q \in Polls :
           poll'[q].at # "idle" /\ poll'[q].receipt \in Block =>
             (poll'[q].receipt.ok => entry'[poll'[q].entry].tx \in mined')
  <2>1. polls' = polls /\ polls \in [Txs -> Entries \cup {None}]
    BY <1>0 DEF MonitorInv, TxTypeOK, poller
  <2> QED
    BY <1>0, <1>3, <1>4, <2>1, DroppedIsForgotten DEF node
<1>6. TxTypeOK'
  BY <1>0, <1>2, <1>4, <1>5 DEF MonitorInv, TxTypeOK, node, monitor, poller
<1>7. SuccessInv'
  BY <1>0, <1>2, <1>5 DEF MonitorInv, SuccessInv
<1> QED
  BY <1>0, <1>5, <1>6, <1>7 DEF MonitorInv, PollsAreDriven, ConfirmedWasMined, monitor, poller

\* The end of a poll: "confirmed" only with a receipt that says so, and a terminal
\* status ends the watch and the polling together.
LEMMA ReportSteps ==
  ASSUME MonitorInv, NEW p \in Polls, poll[p].at # "idle",
         NEW s \in Statuses, NEW last \in Block \cup {None},
         s = "confirmed" => entry[poll[p].entry].tx \in mined,
         Reports(p, s, last)
  PROVE  MonitorInv'
<1> USE TxConstantsAssumption, AnswersAssumption
<1> DEFINE e == poll[p].entry
           t == entry[e].tx
           es == [entry EXCEPT ![e].backoff = FALSE, ![e].last = last]
<1>0. /\ UNCHANGED <<node, watch, mined>> /\ StatusUpdate(t, s)
      /\ IF s \in Terminal THEN Unpoll({t}) ELSE UNCHANGED poller
      /\ entry' = Kept(es) /\ poll' = [poll EXCEPT ![p] = NoPoll]
  BY DEF Reports
<1>1. e \in Entries /\ t \in Txs
  BY DEF MonitorInv, EntriesInv, TxTypeOK, Poll, Entry
<1>2. es \in [Entries -> Entry] /\ \A f \in Entries : es[f].tx = entry[f].tx
  <2> DEFINE r == [entry[e] EXCEPT !.backoff = FALSE, !.last = last]
  <2>0. entry \in [Entries -> Entry] /\ entry[e] \in Entry
    BY <1>1 DEF MonitorInv, TxTypeOK
  <2>1. r \in Entry /\ r.tx = entry[e].tx
    BY <2>0 DEF Entry
  <2>2. es = [entry EXCEPT ![e] = r]
    <3>1. entry[e] = [tx |-> entry[e].tx, last |-> entry[e].last, backoff |-> entry[e].backoff,
                      late |-> entry[e].late]
      BY <2>0 DEF Entry
    <3>2. [entry EXCEPT ![e].backoff = FALSE][e] = [entry[e] EXCEPT !.backoff = FALSE]
      BY <1>1, <2>0
    <3>3. [entry[e] EXCEPT !.backoff = FALSE, !.last = last]
            = [[entry[e] EXCEPT !.backoff = FALSE] EXCEPT !.last = last]
      OBVIOUS
    <3> QED
      BY <1>1, <2>0, <3>1, <3>2, <3>3
  <2> HIDE DEF r, es
  <2> QED
    BY <2>0, <2>1, <2>2
<1>3. poll' \in [Polls -> Poll] /\ \A q \in Polls : poll'[q] = poll[q] \/ poll'[q] = NoPoll
  BY <1>0 DEF MonitorInv, TxTypeOK, Poll, NoPoll, Answers
<1> HIDE DEF es, t
<1>4. /\ txStored' \in [Txs -> Statuses \cup {None}] /\ statuses' \in [Txs -> Statuses \cup {None}]
      /\ indexed' \subseteq Txs /\ watchers' \subseteq Txs
      /\ \A x \in Txs : txStored'[x] = "confirmed" \/ statuses'[x] = "confirmed" => x \in mined
  BY <1>0, <1>1 DEF StatusUpdate, MonitorInv, TxTypeOK, SuccessInv, ConfirmedWasMined, monitor, store, t
<1>5. \A x \in watchers : x # t \/ s \notin Terminal => x \in watchers'
  BY <1>0 DEF StatusUpdate, monitor
<1>6. /\ polls' \in [Txs -> Entries \cup {None}] /\ timers' \subseteq Chains
      /\ \A x \in Txs : polls'[x] # None => polls'[x] = polls[x]
      /\ PollsAreDriven'
  <2>1. CASE s \in Terminal
    <3>1. Unpoll({t}) /\ \A x \in watchers : x \notin {t} => x \in watchers'
      BY <1>0, <1>5, <2>1
    <3> QED
      BY <3>1, UnpollDrives
  <2>2. CASE s \notin Terminal
    BY <1>0, <1>5, <2>2 DEF MonitorInv, TxTypeOK, PollsAreDriven, poller
  <2> QED
    BY <2>1, <2>2
<1>7. /\ entry' \in [Entries -> Entry]
      /\ EntriesInv'
      /\ \A x \in Txs : where'[x] \in Block => (where'[x].ok => x \in mined')
      /\ \A q \in Polls :
           poll'[q].at # "idle" /\ poll'[q].receipt \in Block =>
             (poll'[q].receipt.ok => entry'[poll'[q].entry].tx \in mined')
  BY <1>0, <1>2, <1>3, <1>6, DroppedIsForgotten DEF node
<1>8. TxTypeOK'
  BY <1>0, <1>3, <1>4, <1>6, <1>7 DEF MonitorInv, TxTypeOK, node
<1>9. SuccessInv' /\ ConfirmedWasMined'
  BY <1>0, <1>4, <1>7 DEF MonitorInv, SuccessInv, ConfirmedWasMined
<1> QED
  BY <1>6, <1>7, <1>8, <1>9 DEF MonitorInv

\* What a poll does with its answer.
LEMMA AnswerSteps ==
  ASSUME MonitorInv, NEW p \in Polls, NEW h \in 0 .. MaxBlock,
         HandleReceipt(p, h) \/ HandleNoReceipt(p) \/ TxAnswer(p)
  PROVE  MonitorInv'
<1> USE TxConstantsAssumption, AnswersAssumption
<1> DEFINE e == entry[poll[p].entry]
<1>0. poll[p].at # "idle"
  BY DEF HandleReceipt, HandleNoReceipt, TxAnswer
<1>1. e \in Entry /\ e.last \in Block \cup {None}
  BY <1>0 DEF MonitorInv, EntriesInv, TxTypeOK, Poll, Entry
<1>2. {"pending", "failed", "mined", "confirmed"} \subseteq Statuses
  BY DEF Statuses
<1>3. CASE HandleReceipt(p, h)
  <2> DEFINE receipt == poll[p].receipt
             found == IF ~receipt.ok THEN "failed"
                      ELSE IF h - receipt.number >= RequiredConfirmations
                      THEN "confirmed" ELSE "mined"
  <2>1. receipt \in Block
    BY <1>3 DEF HandleReceipt
  <2>2. found \in Statuses /\ (found = "confirmed" => e.tx \in mined)
    BY <1>0, <1>2, <2>1 DEF MonitorInv, SuccessInv
  <2>3. Reports(p, "pending", receipt) \/ Reports(p, found, receipt)
    BY <1>3 DEF HandleReceipt
  <2> HIDE DEF found
  <2> QED
    BY <1>0, <1>2, <2>1, <2>2, <2>3, ReportSteps
<1>4. CASE HandleNoReceipt(p) \/ TxAnswer(p)
  <2>1. \/ Reports(p, "pending", e.last) \/ Reports(p, "failed", e.last)
        \/ /\ poll[p].at = "answered" /\ Goes(p, "tx", NoReceipt)
           /\ UNCHANGED <<node, monitor, store, poller, entry, watch, mined>>
    BY <1>4 DEF HandleNoReceipt, TxAnswer
  <2> QED
    BY <1>0, <1>1, <1>2, <2>1, ReportSteps, ReceiptSteps
<1> QED
  BY <1>3, <1>4

\* Cleaning up forgets statuses and stored entries, and puts none in their place.
LEMMA CleanSteps ==
  ASSUME MonitorInv, (\E t \in Txs : Delete(t)) \/ Purge
  PROVE  MonitorInv'
<1> USE TxConstantsAssumption, AnswersAssumption
<1>0. UNCHANGED <<node, watchers, poller, entry, watch, poll, mined>>
  BY DEF Delete, Purge, monitor
<1>1. /\ txStored' \in [Txs -> Statuses \cup {None}] /\ statuses' \in [Txs -> Statuses \cup {None}]
      /\ indexed' \subseteq Txs
      /\ \A x \in Txs : /\ txStored'[x] # None => txStored'[x] = txStored[x]
                        /\ statuses'[x] # None => statuses'[x] = statuses[x]
  BY DEF Delete, Purge, MonitorInv, TxTypeOK, monitor, store
<1>2. TxTypeOK' /\ EntriesInv' /\ PollsAreDriven'
  BY <1>0, <1>1 DEF MonitorInv, TxTypeOK, EntriesInv, PollsAreDriven, node, poller
<1>3. SuccessInv' /\ ConfirmedWasMined'
  BY <1>0, <1>1, NotBlocks DEF MonitorInv, SuccessInv, ConfirmedWasMined, node, Statuses
<1> QED
  BY <1>2, <1>3 DEF MonitorInv

-----------------------------------------------------------------------------
(* The theorems. *)

LEMMA MonitorStep == MonitorInv /\ [TxNext]_txVars => MonitorInv'
<1> SUFFICES ASSUME MonitorInv, [TxNext]_txVars PROVE MonitorInv'
  OBVIOUS
<1>1. CASE UNCHANGED txVars
  BY <1>1 DEF txVars, node, monitor, store, poller, MonitorInv, TxTypeOK, EntriesInv, PollsAreDriven,
              SuccessInv, ConfirmedWasMined
<1>2. CASE TxNext
  <2>1. ASSUME NEW t \in Txs, Mine(t, TRUE) \/ Mine(t, FALSE) \/ Reorg(t) \/ Drop(t) PROVE MonitorInv'
    BY <2>1, NodeSteps
  <2>2. ASSUME NEW t \in Txs, NEW p \in Polls, TimerPoll(p, t) \/ RefreshTx(p, t) PROVE MonitorInv'
    BY <2>2, PollSteps
  <2>3. ASSUME NEW t \in Txs, NEW w \in Watchers, WatchTx(w, t) PROVE MonitorInv'
    BY <2>3, WatchSteps
  <2>4. ASSUME NEW S, StopWatching(S) \/ Stop PROVE MonitorInv'
    BY <2>4, StopSteps
  <2>5. ASSUME NEW t \in Txs, Delete(t) PROVE MonitorInv'
    BY <2>5, CleanSteps
  <2>6. ASSUME NEW c \in Chains, NewBlock(c) PROVE MonitorInv'
    BY <2>6, NodeSteps
  <2>7. ASSUME NEW e \in Entries, BackoffEnds(e) \/ FiveMinutes(e) PROVE MonitorInv'
    BY <2>7, TimeSteps
  <2>8. ASSUME NEW p \in Polls, PollStep(p) PROVE MonitorInv'
    <3>1. ASSUME NEW h \in 0 .. MaxBlock, HandleReceipt(p, h) \/ HandleNoReceipt(p) \/ TxAnswer(p)
          PROVE  MonitorInv'
      BY <3>1, AnswerSteps
    <3>2. 0 \in 0 .. MaxBlock
      BY TxConstantsAssumption
    <3>3. CASE ReceiptAnswer(p) \/ PollError(p)
      BY <3>3, ReceiptSteps, ErrorSteps
    <3> QED
      BY <2>8, <3>1, <3>2, <3>3 DEF PollStep
  <2>9. ASSUME NEW w \in Watchers, WatchStep(w) PROVE MonitorInv'
    BY <2>9, WatchSteps, WatchStartSteps DEF WatchStep
  <2>10. CASE Purge
    BY <2>10, CleanSteps
  <2> QED
    BY <1>2, <2>1, <2>2, <2>3, <2>4, <2>5, <2>6, <2>7, <2>8, <2>9, <2>10 DEF TxNext
<1> QED
  BY <1>1, <1>2

\* Nothing a node, a timer or the app does takes the monitor out of the invariant.
THEOREM MonitorInvariance == TxSpec => []MonitorInv
<1>1. TxInit => MonitorInv
  BY MonitorInit
<1>2. MonitorInv /\ [TxNext]_txVars => MonitorInv'
  BY MonitorStep
<1> QED
  BY <1>1, <1>2, PTL DEF TxSpec

\* Every variable of the monitor, the poller and the store keeps its type.
THEOREM TxTypeCorrect == TxSpec => []TxTypeOK
<1>1. MonitorInv => TxTypeOK
  BY DEF MonitorInv
<1> QED
  BY <1>1, MonitorInvariance, PTL

\* removePoll and startPolling keep polls, watchers and timers together: no poll is
\* left without a timer, no timer without a poll, however late a poll ends.
THEOREM PollsAreDrivenHolds == TxSpec => []PollsAreDriven
<1>1. MonitorInv => PollsAreDriven
  BY DEF MonitorInv
<1> QED
  BY <1>1, MonitorInvariance, PTL

\* handleStatusUpdate reports "confirmed" only of a transaction that was in a block
\* and succeeded, whatever late, foreign or stored answers the monitor acts on.
THEOREM ConfirmedWasMinedHolds == TxSpec => []ConfirmedWasMined
<1>1. MonitorInv => ConfirmedWasMined
  BY DEF MonitorInv
<1> QED
  BY <1>1, MonitorInvariance, PTL

-----------------------------------------------------------------------------
(* The types of the wallet, the encrypted storage and the signer. *)

WalletTyped ==
  /\ worker \in Accounts \cup {None} /\ epoch \in 0..MaxEpoch /\ sessionMgr \in Phrases \cup {None}
  /\ \A c \in WalletCalls : At(c, "seeding") => tasks[c].of \in Phrases

LEMMA WalletTypedStep ==
  ASSUME WalletInv, WalletInv', WalletTyped, WalletNext
  PROVE  WalletTyped'
<1>1. data' # None => data' \in WalletData
  BY DEF WalletInv, DataInv
<1>2. Holding(data', "eip155") \in Accounts \cup {None}
  <2>1. CASE Holding(data', "eip155") # None
    BY <1>1, <2>1 DEF Holding, WalletData
  <2> QED
    BY <2>1
<1>3. ASSUME NEW d, Adopts(d)
      PROVE  worker' \in Accounts \cup {None} /\ epoch' \in 0..MaxEpoch /\ sessionMgr' = None
  BY <1>2, <1>3, EpochAssumption DEF Adopts, WalletTyped
<1>4. ASSUME NEW c \in WalletCalls, NEW t, WalletGoes(c, t), t.pc = "seeding" => t.of \in Phrases
      PROVE  \A e \in WalletCalls : At(e, "seeding")' => tasks'[e].of \in Phrases
  BY <1>4 DEF WalletGoes, At, WalletTyped, WalletInv
<1>5. ASSUME NEW c, NEW t, Shreds(c, t), t.pc # "seeding"
      PROVE  \A e \in WalletCalls : At(e, "seeding")' => tasks'[e].of \in Phrases
  BY <1>5 DEF Shreds, At, WalletTyped
<1>6. CASE DestroySession
  <2>1. UNCHANGED epoch /\ sessionMgr' = None /\ worker' = None /\ Shreds(None, Idle) /\ Idle.pc # "seeding"
    BY <1>6 DEF DestroySession, Idle
  <2> QED
    BY <1>5, <2>1 DEF WalletTyped
<1>7. ASSUME NEW n \in Namespaces, SetActiveNamespace(n)
      PROVE  WalletTyped'
  BY <1>7 DEF SetActiveNamespace, WalletTyped, At
<1>8. ASSUME NEW c \in WalletCalls, Derives(c) \/ Loads(c) \/ Backfills(c)
      PROVE  WalletTyped'
  <2>1. \E t \in {[pc |-> "keyed"], [pc |-> "idle"]} : WalletGoes(c, t)
    BY <1>8 DEF Derives, Loads, Backfills, Ends, Idle
  <2>2. \/ \E d : Adopts(d)
        \/ UNCHANGED <<worker, epoch, sessionMgr>>
    BY <1>8 DEF Derives, Loads, Backfills
  <2> QED
    BY <1>3, <1>4, <2>1, <2>2 DEF WalletTyped
<1>9. ASSUME NEW c \in WalletCalls, Clear(c) \/ Cleared(c) \/ Wipe(c) \/ Wiped(c)
      PROVE  WalletTyped'
  <2>1. worker' \in {worker, None} /\ epoch' = epoch /\ sessionMgr' \in {sessionMgr, None}
    BY <1>9 DEF Clear, Cleared, Wipe, Wiped, SameWallet
  <2>2. \/ \E t \in {[pc |-> "cleared"], [pc |-> "idle"]} : WalletGoes(c, t)
        \/ Shreds(c, [pc |-> "wiped"])
    BY <1>9 DEF Clear, Cleared, Wipe, Wiped, Ends, Idle
  <2> QED
    BY <1>4, <1>5, <2>1, <2>2 DEF WalletTyped
<1>10. ASSUME NEW c \in WalletCalls, SessionSeeded(c)
       PROVE  WalletTyped'
  <2>1. sessionMgr' \in {sessionMgr, tasks[c].of} /\ At(c, "seeding") /\ UNCHANGED <<worker, epoch>>
    BY <1>10 DEF SessionSeeded
  <2>2. \E t : WalletGoes(c, t) /\ t.pc # "seeding"
    <3> DEFINE spend == [pc |-> "spending", of |-> tasks[c].of]
               own == [pc |-> "owned", of |-> tasks[c].of, account |-> EvmAccount, owner |-> EvmAccount, epoch |-> epoch]
    <3>1. WalletGoes(c, spend) \/ WalletGoes(c, own) \/ WalletGoes(c, Idle)
      BY <1>10 DEF SessionSeeded, Ends
    <3>2. spend.pc # "seeding" /\ own.pc # "seeding" /\ Idle.pc # "seeding"
      BY DEF Idle
    <3> QED
      BY <3>1, <3>2
  <2> QED
    BY <1>4, <2>1, <2>2 DEF WalletTyped
<1>11. ASSUME NEW c \in WalletCalls, NEW use, SessionBegins(c, use)
       PROVE  WalletTyped'
  <2> DEFINE t == [pc |-> "seeding", of |-> data.of, cached |-> sessionMgr = data.of, use |-> use]
  <2>1. WalletGoes(c, t) /\ data.of \in Phrases /\ SameWallet
    BY <1>11 DEF SessionBegins
  <2>2. t.of \in Phrases
    BY <2>1
  <2> HIDE DEF t
  <2> QED
    BY <1>4, <2>1, <2>2 DEF WalletTyped, SameWallet
<1>12. ASSUME NEW c \in WalletCalls, NEW t, WalletGoes(c, t), t.pc # "seeding", SameWallet
       PROVE  WalletTyped'
  BY <1>4, <1>12 DEF WalletTyped, SameWallet
<1>13. ASSUME NEW c \in WalletCalls, AdoptPhrase(c) \/ SaveBegins(c) \/ Saves(c) \/ ImportRaw(c)
                                     \/ LoadBegins(c) \/ BackfillBegins(c) \/ CallEnds(c)
       PROVE  WalletTyped'
  BY <1>12, <1>13 DEF AdoptPhrase, SaveBegins, Saves, ImportRaw, LoadBegins, BackfillBegins, CallEnds, Ends, Idle
<1>14. ASSUME NEW c \in WalletCalls, SignBegins(c) \/ SolanaSends(c) \/ BumpBegins(c) \/ SendBegins(c) \/ SendSigns(c)
                                     \/ SendBroadcasts(c)
       PROVE  WalletTyped'
  BY <1>12, <1>14 DEF SignBegins, SolanaSends, BumpBegins, SendBegins, SendSigns, SignedBy, SendBroadcasts, Broadcasts
<1>15. ASSUME NEW c \in WalletCalls, DelegationPrepares(c)
       PROVE  WalletTyped'
  <2> DEFINE t == [tasks[c] EXCEPT !.pc = "estimating"]
  <2>1. WalletGoes(c, t) /\ SameWallet /\ At(c, "authorized")
    BY <1>15 DEF DelegationPrepares
  <2>2. tasks[c] \in PreparedTasks
    BY <2>1 DEF WalletInv, ShapeOf, At, PreparedSteps
  <2>3. t.pc # "seeding"
    BY <2>2 DEF PreparedTasks
  <2> HIDE DEF t
  <2> QED
    BY <1>12, <2>1, <2>3
<1>16. ASSUME NEW c \in WalletCalls, DelegationBegins(c) \/ DelegationSigns(c) \/ DelegationBroadcasts(c)
                                     \/ SessionAuthorized(c) \/ SessionSpends(c)
       PROVE  WalletTyped'
  BY <1>12, <1>16 DEF DelegationBegins, DelegationSigns, SignedBy, DelegationBroadcasts, Broadcasts, SessionAuthorized,
                      SessionSpends, Ends, Idle
<1> QED
  BY <1>6, <1>7, <1>8, <1>9, <1>10, <1>11, <1>13, <1>14, <1>15, <1>16 DEF WalletNext

\* A record under way is one, and only a passphrase that is not empty is sealed with.
NonEmpty == Passphrases \ {Empty}
VaultTyped ==
  /\ VaultTypeOK
  /\ \A c \in VaultCalls :
       /\ vaultTasks[c].pc \in {"touching", "typing", "writing"} => vaultTasks[c].rec \in Records
       /\ vaultTasks[c].pc = "writing" => vaultTasks[c].rec.pass # Empty
       /\ vaultTasks[c].pc \in {"proving", "sealing"} => vaultTasks[c].pass \in NonEmpty

LEMMA VaultTypedStep ==
  ASSUME VaultInv, VaultTyped, VaultNext
  PROVE  VaultTyped'
<1> DEFINE Fits(t) == /\ t.pc \in {"touching", "typing", "writing"} => t.rec \in Records
                      /\ t.pc = "writing" => t.rec.pass # Empty
                      /\ t.pc \in {"proving", "sealing"} => t.pass \in NonEmpty
<1>1. ASSUME NEW c \in VaultCalls, NEW t, Vaults(c, t), Fits(t), VaultTypeOK'
      PROVE  VaultTyped'
  BY <1>1 DEF Vaults, VaultTyped, VaultInv
<1>2. PrfAnswers \subseteq Authenticators \cup {None}
  BY DEF PrfAnswers, VaultTyped, VaultTypeOK
<1>3. \A c \in VaultCalls : Fits(vaultTasks[c])
  BY DEF VaultTyped
<1>4. \A r \in Records : r.pass \in Passphrases /\ r.prf \in Authenticators \cup {None}
  BY DEF Records
<1>5. VaultTypeOK
  BY DEF VaultTyped
<1>6. Fits(Idle)
  BY DEF Idle
<1>7. CASE ForgetUnlock \/ ClearVault
  BY <1>7 DEF ForgetUnlock, ClearVault, VaultTyped, VaultTypeOK
<1>8. ASSUME NEW c \in VaultCalls, VaultLoad(c)
      PROVE  VaultTyped'
  <2> DEFINE t == [pc |-> IF vault.prf = None THEN "typing" ELSE "touching", rec |-> vault]
  <2>1. Vaults(c, t) /\ vault # None /\ UNCHANGED <<vault, verified, viaPrf, prfKey, typed>>
    BY <1>8 DEF VaultLoad
  <2>2. Fits(t)
    BY <1>5, <2>1 DEF VaultTypeOK
  <2>3. VaultTypeOK'
    BY <1>5, <2>1 DEF VaultTypeOK
  <2> HIDE DEF t, Fits
  <2> QED
    BY <1>1, <2>1, <2>2, <2>3
<1>9. ASSUME NEW c \in VaultCalls, LoadTouched(c)
      PROVE  VaultTyped'
  <2>1. UNCHANGED <<vault, verified, typed>> /\ vaultTasks[c].pc = "touching"
    BY <1>9 DEF LoadTouched, InVault
  <2>2. PICK a \in PrfAnswers :
          \/ prfKey' = a /\ viaPrf' = TRUE /\ Vaults(c, Idle)
          \/ prfKey' = None /\ viaPrf' = viaPrf /\ Vaults(c, [vaultTasks[c] EXCEPT !.pc = "typing"])
    BY <1>9 DEF LoadTouched
  <2>3. VaultTypeOK'
    BY <1>2, <1>5, <2>1, <2>2 DEF VaultTypeOK
  <2> DEFINE t == [vaultTasks[c] EXCEPT !.pc = "typing"]
  <2>4. Fits(t)
    <3>1. vaultTasks[c].rec \in Records
      BY <1>3, <2>1
    <3>2. "rec" \in DOMAIN vaultTasks[c]
      BY <2>1 DEF VaultInv
    <3>3. t.rec = vaultTasks[c].rec
      BY <3>2
    <3>4. t.pc \in {"typing", vaultTasks[c].pc}
      OBVIOUS
    <3>5. t.pc \in {"typing", "touching"}
      BY <2>1, <3>4
    <3> HIDE DEF t
    <3> QED
      BY <3>1, <3>3, <3>5
  <2> HIDE DEF t, Fits
  <2> QED
    BY <1>1, <1>6, <2>2, <2>3, <2>4 DEF t
<1>10. ASSUME NEW c \in VaultCalls, LoadTyped(c)
       PROVE  VaultTyped'
  <2>1. UNCHANGED <<vault, prfKey, typed>> /\ Vaults(c, Idle)
    BY <1>10 DEF LoadTyped
  <2>2. viaPrf' \in BOOLEAN /\ verified' \in NonEmpty \cup {None}
    BY <1>5, <1>10 DEF LoadTyped, VaultTypeOK, NonEmpty
  <2>3. VaultTypeOK'
    BY <1>5, <2>1, <2>2 DEF VaultTypeOK, NonEmpty
  <2> HIDE DEF Fits
  <2> QED
    BY <1>1, <1>6, <2>1, <2>3
<1>11. ASSUME NEW c \in VaultCalls, SaveAsks(c)
       PROVE  VaultTyped'
  <2> DEFINE t == IF verified # None THEN [pc |-> "sealing", pass |-> verified] ELSE [pc |-> "asking"]
  <2>1. Vaults(c, t) /\ UNCHANGED <<vault, verified, viaPrf, prfKey, typed>>
    BY <1>11 DEF SaveAsks
  <2>2. Fits(t)
    BY <1>5 DEF VaultTypeOK, NonEmpty
  <2>3. VaultTypeOK'
    BY <1>5, <2>1 DEF VaultTypeOK
  <2> HIDE DEF t, Fits
  <2> QED
    BY <1>1, <2>1, <2>2, <2>3
<1>12. ASSUME NEW c \in VaultCalls, SaveTyped(c)
       PROVE  VaultTyped'
  <2>1. PICK p \in Passphrases :
          /\ Vaults(c, IF p = Empty THEN Idle ELSE [pc |-> IF MustProve THEN "proving" ELSE "sealing", pass |-> p])
          /\ typed' = IF p = Empty \/ viaPrf THEN typed ELSE typed \cup {p}
    BY <1>12 DEF SaveTyped
  <2> DEFINE t == IF p = Empty THEN Idle ELSE [pc |-> IF MustProve THEN "proving" ELSE "sealing", pass |-> p]
  <2>2. Fits(t)
    BY <1>6 DEF NonEmpty
  <2>3. VaultTypeOK'
    BY <1>5, <1>12, <2>1 DEF VaultTypeOK, SaveTyped
  <2> HIDE DEF Fits
  <2> QED
    BY <1>1, <2>1, <2>2, <2>3
<1>13. ASSUME NEW c \in VaultCalls, SaveProves(c)
       PROVE  VaultTyped'
  <2> DEFINE p == vaultTasks[c].pass
             open == vault # None /\ vault.pass \in {p, Empty}
             t == IF open THEN [pc |-> "sealing", pass |-> p] ELSE Idle
  <2>1. /\ Vaults(c, t) /\ typed' \in {typed, typed \cup {p}} /\ vaultTasks[c].pc = "proving"
        /\ UNCHANGED <<vault, verified, viaPrf, prfKey>>
    BY <1>13 DEF SaveProves, InVault
  <2>2. p \in NonEmpty
    BY <1>3, <2>1
  <2>3. Fits(t)
    BY <1>6, <2>2
  <2>4. VaultTypeOK'
    BY <1>5, <2>1, <2>2 DEF VaultTypeOK, NonEmpty
  <2> HIDE DEF t, Fits
  <2> QED
    BY <1>1, <2>1, <2>3, <2>4
<1>14. ASSUME NEW c \in VaultCalls, SaveSeals(c)
       PROVE  VaultTyped'
  <2>1. PICK a \in PrfAnswers : prfKey' = a /\ Vaults(c, [pc |-> "writing", rec |-> [pass |-> vaultTasks[c].pass, prf |-> a]])
    BY <1>14 DEF SaveSeals
  <2>2. vaultTasks[c].pass \in NonEmpty /\ UNCHANGED <<vault, verified, viaPrf, typed>>
    BY <1>3, <1>14 DEF SaveSeals, InVault
  <2> DEFINE t == [pc |-> "writing", rec |-> [pass |-> vaultTasks[c].pass, prf |-> a]]
  <2>3. Fits(t)
    BY <1>2, <2>2 DEF Records, NonEmpty
  <2>4. VaultTypeOK'
    BY <1>2, <1>5, <2>1, <2>2 DEF VaultTypeOK
  <2> HIDE DEF Fits
  <2> QED
    BY <1>1, <2>1, <2>3, <2>4
<1>15. ASSUME NEW c \in VaultCalls, SaveWrites(c)
       PROVE  VaultTyped'
  <2>1. /\ Vaults(c, Idle) /\ vaultTasks[c].pc = "writing" /\ UNCHANGED <<viaPrf, prfKey, typed>>
        /\ vault' = vaultTasks[c].rec /\ verified' = vaultTasks[c].rec.pass
    BY <1>15 DEF SaveWrites, InVault
  <2>2. vault' \in Records /\ verified' \in NonEmpty
    BY <1>3, <1>4, <2>1 DEF NonEmpty
  <2>3. VaultTypeOK'
    BY <1>5, <2>1, <2>2 DEF VaultTypeOK, NonEmpty
  <2> HIDE DEF Fits
  <2> QED
    BY <1>1, <1>6, <2>1, <2>3
<1>16. ASSUME NEW c \in VaultCalls, VaultCallFails(c)
       PROVE  VaultTyped'
  <2>1. Vaults(c, Idle) /\ VaultTypeOK'
    BY <1>5, <1>16 DEF VaultCallFails, VaultTypeOK
  <2> HIDE DEF Fits
  <2> QED
    BY <1>1, <1>6, <2>1
<1> QED
  BY <1>7, <1>8, <1>9, <1>10, <1>11, <1>12, <1>13, <1>14, <1>15, <1>16 DEF VaultNext

LEMMA SeqInBound ==
  ASSUME SignerInv, seq <= MaxSeq, SignerNext
  PROVE  seq' <= MaxSeq
<1>1. seq' = seq \/ (seq < MaxSeq /\ seq' = seq + 1)
  BY DEF SignerNext, InitWithKey, SignInThread, ClearThread, ThreadReads, ReplyRead, ThreadFails, RequestTimesOut, Posts
<1> QED
  BY <1>1, SeqAssumption DEF SignerInv

TypesInv == WalletTyped /\ VaultTyped /\ seq <= MaxSeq

-----------------------------------------------------------------------------
(* The suite. *)

LEMMA WalletStays == WalletInv /\ UNCHANGED walletVars => WalletInv'
BY DEF WalletInv, DataInv, WorkerInv, walletVars, OnePerNamespace, EvmAccount, SignedSoFar

LEMMA VaultStays == VaultInv /\ UNCHANGED vaultVars => VaultInv'
BY DEF VaultInv, vaultVars, Recovers

LEMMA StoreStays == KeyStoreInv /\ UNCHANGED storeVars => KeyStoreInv'
BY DEF KeyStoreInv, storeVars, Running, RecordHasItsKey

LEMMA SignerStays == SignerInv /\ UNCHANGED signerVars => SignerInv'
<1> SUFFICES ASSUME SignerInv, UNCHANGED signerVars PROVE SignerInv'
  OBVIOUS
<1>1. UNCHANGED <<thread, waiting, seq, asked, answers>>
  BY DEF signerVars
<1>2. Messages' = Messages /\ Replies' = Replies
  BY <1>1 DEF Messages, Replies
<1>3. ThreadInv'
  BY <1>1, <1>2 DEF SignerInv, ThreadInv, LoadedAfter
<1> QED
  BY <1>1, <1>3 DEF SignerInv, SignatureOfTheRequest

LEMMA EngineInitHolds == SuiteInit => EngineInv
BY WalletInitHolds, SignerInitHolds, VaultInitHolds, StoreInitHolds DEF SuiteInit, EngineInv

LEMMA EngineStep == EngineInv /\ [SuiteNext]_suiteVars => EngineInv'
<1> SUFFICES ASSUME EngineInv, [SuiteNext]_suiteVars PROVE EngineInv'
  OBVIOUS
<1>1. WalletInv /\ SignerInv /\ VaultInv /\ KeyStoreInv
  BY DEF EngineInv
<1>2. CASE UNCHANGED suiteVars
  BY <1>1, <1>2, WalletStays, SignerStays, VaultStays, StoreStays DEF suiteVars, EngineInv
<1>3. CASE TxNext /\ UNCHANGED <<walletVars, vaultVars, storeVars, signerVars>>
  BY <1>1, <1>3, WalletStays, SignerStays, VaultStays, StoreStays DEF EngineInv
<1>4. CASE WalletNext /\ UNCHANGED <<txVars, vaultVars, storeVars, signerVars>>
  BY <1>1, <1>4, WalletStep, SignerStays, VaultStays, StoreStays DEF EngineInv
<1>5. CASE VaultNext /\ UNCHANGED <<txVars, walletVars, storeVars, signerVars>>
  BY <1>1, <1>5, VaultStep, WalletStays, SignerStays, StoreStays DEF EngineInv
<1>6. CASE StoreNext /\ UNCHANGED <<txVars, walletVars, vaultVars, signerVars>>
  BY <1>1, <1>6, StoreStep, WalletStays, SignerStays, VaultStays DEF EngineInv
<1>7. CASE SignerNext /\ UNCHANGED <<txVars, walletVars, vaultVars, storeVars>>
  BY <1>1, <1>7, SignerStep, WalletStays, VaultStays, StoreStays DEF EngineInv
<1> QED
  BY <1>2, <1>3, <1>4, <1>5, <1>6, <1>7 DEF SuiteNext

\* The inductive invariant, of every behaviour of the suite.
THEOREM EngineHolds == SuiteSpec => []EngineInv
BY EngineInitHolds, EngineStep, PTL DEF SuiteSpec

\* No signature is made with another key than that of the account the app was shown
\* (sendTransaction, sendDelegation) or that was loaded when the request was posted to
\* the worker (IsolatedSigner), for any number of calls, wallets, keys and requests.
THEOREM SuiteSignsAsShown == SuiteSpec => []SignedAsShown
<1>1. EngineInv => SignedAsShown
  BY DEF EngineInv, WalletInv, SignedSoFar, SignerInv, SignedAsShown, SignedByItsAccount, At
<1> QED
  BY <1>1, EngineHolds, PTL

\* The passphrase of the stored record was proven or typed where nothing had to be
\* (EncryptedStorageAdapter), and the record of the key store opens with its key unless
\* a clear overtook a save, or deleted the key and failed (KeyStoreStorageAdapter), for
\* any number of both.
THEOREM SuiteStorageRecovers == SuiteSpec => []StorageRecovers
<1>1. EngineInv => StorageRecovers
  BY DEF EngineInv, VaultInv, Recovers, KeyStoreInv, StorageRecovers, RecoveryProven
<1> QED
  BY <1>1, EngineHolds, PTL
-----------------------------------------------------------------------------
(* The types, of whichever part a behaviour is of. *)

LEMMA WalletTypesStay == WalletTyped /\ UNCHANGED walletVars => WalletTyped'
BY DEF WalletTyped, walletVars, At

LEMMA VaultTypesStay == VaultTyped /\ UNCHANGED vaultVars => VaultTyped'
BY DEF VaultTyped, VaultTypeOK, vaultVars

LEMMA SeqStays == seq <= MaxSeq /\ UNCHANGED signerVars => seq' <= MaxSeq
BY DEF signerVars

Parts == {"monitor", "wallet", "vault", "keystore", "signer"}
SuiteTypes == subject \in Parts /\ EngineInv /\ MonitorInv /\ TypesInv

LEMMA TypesInitHold == SuiteInit => SuiteTypes
<1> SUFFICES ASSUME SuiteInit PROVE SuiteTypes
  OBVIOUS
<1>1. WalletTyped
  BY EpochAssumption DEF SuiteInit, WalletInit, WalletTyped, At, Idle
<1>2. VaultTyped
  BY FirstRecordsAssumption DEF SuiteInit, VaultInit, VaultTyped, VaultTypeOK, Idle
<1>3. seq <= MaxSeq
  BY SeqAssumption DEF SuiteInit, SignerInit
<1>4. EngineInv
  BY EngineInitHolds
<1>5. MonitorInv
  BY MonitorInit DEF SuiteInit
<1>6. subject \in Parts
  BY DEF SuiteInit, Parts
<1> QED
  BY <1>1, <1>2, <1>3, <1>4, <1>5, <1>6 DEF SuiteTypes, TypesInv

LEMMA TypesStep == SuiteTypes /\ [SuiteNext]_suiteVars => SuiteTypes'
<1> SUFFICES ASSUME SuiteTypes, [SuiteNext]_suiteVars PROVE SuiteTypes'
  OBVIOUS
<1>1. EngineInv'
  BY EngineStep DEF SuiteTypes
<1>2. subject' \in Parts
  BY DEF SuiteTypes, SuiteNext, suiteVars
<1>3. MonitorInv'
  <2>1. [TxNext]_txVars
    BY DEF SuiteNext, suiteVars
  <2> QED
    BY <2>1, MonitorStep DEF SuiteTypes
<1>4. WalletTyped'
  <2>1. WalletNext \/ UNCHANGED walletVars
    BY DEF SuiteNext, suiteVars
  <2>2. WalletInv /\ WalletInv' /\ WalletTyped
    BY <1>1 DEF SuiteTypes, TypesInv, EngineInv
  <2> QED
    BY <2>1, <2>2, WalletTypedStep, WalletTypesStay
<1>5. VaultTyped'
  <2>1. VaultNext \/ UNCHANGED vaultVars
    BY DEF SuiteNext, suiteVars
  <2>2. VaultInv /\ VaultTyped
    BY DEF SuiteTypes, TypesInv, EngineInv
  <2> QED
    BY <2>1, <2>2, VaultTypedStep, VaultTypesStay
<1>6. seq' <= MaxSeq
  <2>1. SignerNext \/ UNCHANGED signerVars
    BY DEF SuiteNext, suiteVars
  <2>2. SignerInv /\ seq <= MaxSeq
    BY DEF SuiteTypes, TypesInv, EngineInv
  <2> QED
    BY <2>1, <2>2, SeqInBound, SeqStays
<1> QED
  BY <1>1, <1>2, <1>3, <1>4, <1>5, <1>6 DEF SuiteTypes, TypesInv

\* The type invariant of the suite. It has an argument of its own because the shape of
\* what a call holds is needed for it: only a passphrase that is not empty is proven,
\* sealed with and remembered (passphraseForSave, rememberVerified), and the signer is
\* given keys no more often than the bound.
THEOREM EngineTypeCorrect == SuiteSpec => []TypeOK
<1>1. SuiteTypes => TypeOK
  <2> SUFFICES ASSUME SuiteTypes PROVE TypeOK
    OBVIOUS
  <2>1. TxTypeOK
    BY DEF SuiteTypes, MonitorInv
  <2>2. WalletTypeOK
    BY DEF SuiteTypes, TypesInv, EngineInv, WalletInv, DataInv, WalletTyped, WalletTypeOK, WalletData
  <2>3. VaultTypeOK
    BY DEF SuiteTypes, TypesInv, VaultTyped
  <2>4. StoreTypeOK
    BY DEF SuiteTypes, EngineInv, KeyStoreInv, StoreTypeOK
  <2>5. SignerTypeOK
    <3>1. SignerInv /\ seq <= MaxSeq
      BY DEF SuiteTypes, TypesInv, EngineInv
    <3>2. seq \in 0..MaxSeq
      BY <3>1, SeqAssumption DEF SignerInv
    <3> QED
      BY <3>1, <3>2 DEF SignerInv, ThreadInv, SignerTypeOK
  <2>6. subject \in Parts
    BY DEF SuiteTypes
  <2> QED
    BY <2>1, <2>2, <2>3, <2>4, <2>5, <2>6 DEF Parts, TypeOK
<1> QED
  BY <1>1, TypesInitHold, TypesStep, PTL DEF SuiteSpec
===============================================================================
