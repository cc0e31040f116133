----------------------------- MODULE PocketWallet -----------------------------
(* PocketWallet (wallet-engine/src/wallet.ts): one wallet in memory, the      *)
(* record in storage, the key inside the isolated worker, and the async calls *)
(* that are running. Every action runs from one await of the code to the next *)
(* A secret stands for everything that is derived from it: an account is its  *)
(* namespace and the secret its key comes from. A storage operation takes     *)
(* effect when it is issued, as IndexedDB orders transactions by creation.    *)
EXTENDS ConnectLib

CONSTANTS Phrases,        \* mnemonics
          RawEvm,         \* raw EVM keys
          RawSolana,      \* raw Solana keys
          WalletCalls,    \* calls that can be running at a time
          MaxEpoch,       \* bound: keys ever given to the signer
          OldRecords      \* phrases a version-1 record may hold

Namespaces == {"eip155", "solana"}
WalletSecrets == Phrases \union RawEvm \union RawSolana
Accounts == [ns: Namespaces, of: WalletSecrets]
Account(n, w) == [ns |-> n, of |-> w]
ASSUME EpochAssumption == MaxEpoch \in Nat
ASSUME AccountsAssumption == None \notin Accounts /\ OldRecords \subseteq Phrases
Shredded == [pc |-> "shredded"]

\* accountsFromSeed / deriveWallet: a phrase has an account on each namespace,
\* a raw key on its own curve only.
Derived(w) == {Account(n, w) : n \in CASE w \in Phrases -> Namespaces
                                       [] w \in RawEvm -> {"eip155"}
                                       [] OTHER -> {"solana"}}

VARIABLES data,       \* WalletData | null
          isolated,   \* config.isolation = "worker"
          worker,     \* the account whose key the worker holds, or None
          epoch,      \* signerEpoch
          sessionMgr, \* phrase the cached session key manager was built from
          record,     \* the stored record
          tasks       \* what each running call awaits
walletVars == <<data, isolated, worker, epoch, sessionMgr, record, tasks>>

NewWallet(w) == [of |-> w, accounts |-> Derived(w),
                 active |-> IF w \in RawSolana THEN "solana" ELSE "eip155"]

\* A version-1 record holds the EVM account alone (migrateWalletData).
Migrated(w) == [of |-> w, accounts |-> {Account("eip155", w)}, active |-> "eip155"]

\* toStorableRecord refuses a wallet without a mnemonic; keys are not stored.
Storable(d) == d # None /\ d.of \in Phrases
Storing(d) == [of |-> d.of, accounts |-> d.accounts, active |-> d.active]

Holding(d, n) == IF d # None /\ \E a \in d.accounts : a.ns = n
                 THEN CHOOSE a \in d.accounts : a.ns = n ELSE None
\* activeAccount() and evmAccount()
ActiveAccount == IF data = None THEN None ELSE Holding(data, data.active)
EvmAccount == Holding(data, "eip155")

\* signerFor: the worker signs with the key it holds and ignores the one it is
\* given; the in-process signers use the key they are given.
SignedWith(a) == IF isolated /\ a.ns = "eip155" THEN worker ELSE a

WalletInit ==
  /\ data = None /\ isolated \in BOOLEAN /\ worker = None /\ epoch = 0
  /\ sessionMgr = None /\ record \in {None} \union {Migrated(w) : w \in OldRecords}
  /\ tasks = [c \in WalletCalls |-> Idle]

At(c, pc) == tasks[c].pc = pc
WalletGoes(c, t) == tasks' = [tasks EXCEPT ![c] = t]
Ends(c) == WalletGoes(c, Idle)
SameWallet == UNCHANGED <<data, isolated, worker, epoch, sessionMgr>>

(* ---------------------------------------------------------------- lifecycle *)
\* this.data = ...; dropSessionMgr(); initSignerWithKey() up to its first
\* await: the worker is replaced by one with the EVM key, or emptied.
Adopts(d) ==
  /\ epoch < MaxEpoch
  /\ data' = d /\ sessionMgr' = None /\ epoch' = epoch + 1
  /\ worker' = IF isolated THEN Holding(d, "eip155") ELSE None

\* generate() and importMnemonic() derive, take the wallet over, await the
\* worker and save whatever wallet is then in memory.
AdoptPhrase(c) ==
  /\ At(c, "idle")
  /\ \E w \in Phrases : WalletGoes(c, [pc |-> "deriving", of |-> w])
  /\ SameWallet /\ UNCHANGED record
Derives(c) ==
  /\ At(c, "deriving")
  /\ Adopts(NewWallet(tasks[c].of))
  /\ WalletGoes(c, [pc |-> IF tasks[c].of \in Phrases THEN "keyed" ELSE "idle"])
  /\ UNCHANGED <<isolated, record>>

\* save(), and the automatic one: the record is taken from memory when the
\* storage is called, and written after the passphrase prompt.
SaveBegins(c) ==
  /\ At(c, "keyed") \/ At(c, "idle")
  /\ IF Storable(data) THEN WalletGoes(c, [pc |-> "saving", record |-> Storing(data)]) ELSE Ends(c)
  /\ SameWallet /\ UNCHANGED record
Saves(c) ==
  /\ At(c, "saving") /\ record' = tasks[c].record /\ Ends(c)
  /\ SameWallet

\* importPrivateKey() refuses while a phrase is stored, looks once, and never
\* saves.
ImportRaw(c) ==
  /\ At(c, "idle") /\ record = None
  /\ \E w \in RawEvm \union RawSolana : WalletGoes(c, [pc |-> "deriving", of |-> w])
  /\ SameWallet /\ UNCHANGED record

\* load() does nothing with a wallet in memory, and checks every stored
\* account against the one derived from the stored phrase.
LoadBegins(c) ==
  /\ At(c, "idle") /\ data = None /\ record # None
  /\ WalletGoes(c, [pc |-> "loading", record |-> record])
  /\ SameWallet /\ UNCHANGED record
Opens(r) == r.of \in Phrases /\ r.accounts # {} /\ r.accounts \subseteq Derived(r.of)
Loads(c) ==
  /\ At(c, "loading")
  /\ IF Opens(tasks[c].record) THEN Adopts(tasks[c].record)
     ELSE UNCHANGED <<data, worker, epoch, sessionMgr>>
  /\ Ends(c) /\ UNCHANGED <<isolated, record>>

\* backfillAccounts() derives from the phrase it began with and adds to the
\* wallet it finds afterwards.
BackfillBegins(c) ==
  /\ At(c, "idle") /\ data # None /\ data.of \in Phrases
  /\ WalletGoes(c, [pc |-> "backfilling", of |-> data.of])
  /\ SameWallet /\ UNCHANGED record
Backfills(c) ==
  /\ At(c, "backfilling")
  /\ LET missing == {a \in Derived(tasks[c].of) : Holding(data, a.ns) = None}
         full == [data EXCEPT !.accounts = @ \union missing]
     IN IF data = None \/ missing = {} THEN UNCHANGED <<data, worker, epoch, sessionMgr>>
        ELSE IF \E a \in missing : a.ns = "eip155" THEN Adopts(full)
        ELSE data' = full /\ UNCHANGED <<worker, epoch, sessionMgr>>
  /\ Ends(c) /\ UNCHANGED <<isolated, record>>

\* setActiveNamespace()
SetActiveNamespace(n) ==
  /\ Holding(data, n) # None /\ data.active # n /\ data' = [data EXCEPT !.active = n]
  /\ UNCHANGED <<isolated, worker, epoch, sessionMgr, record, tasks>>

\* clear() empties the storage first and the worker afterwards, whichever
\* wallet the worker was given in between. Neither bumps the epoch.
Clear(c) ==
  /\ At(c, "idle")
  /\ data' = None /\ sessionMgr' = None /\ record' = None
  /\ WalletGoes(c, [pc |-> "cleared"])
  /\ UNCHANGED <<isolated, worker, epoch>>
Cleared(c) ==
  /\ At(c, "cleared") /\ worker' = None /\ Ends(c)
  /\ UNCHANGED <<data, isolated, epoch, sessionMgr, record>>

\* wipe() and destroySession() overwrite the keys of the wallet in memory, the
\* copies a running call took from it included, and empty the worker.
Shreds(except, t) ==
  tasks' = [c \in WalletCalls |->
              IF c = except THEN t
              ELSE IF "account" \in DOMAIN tasks[c] /\ data # None /\ tasks[c].epoch = epoch
              THEN [tasks[c] EXCEPT !.account = Shredded] ELSE tasks[c]]
Wipe(c) ==
  /\ At(c, "idle") /\ Shreds(c, [pc |-> "wiped"])
  /\ data' = None /\ sessionMgr' = None /\ worker' = None
  /\ UNCHANGED <<isolated, epoch, record>>
Wiped(c) == At(c, "wiped") /\ record' = None /\ Ends(c) /\ SameWallet
DestroySession ==
  /\ data # None /\ Shreds(None, Idle)
  /\ data' = None /\ sessionMgr' = None /\ worker' = None
  /\ UNCHANGED <<isolated, epoch, record>>

(* ------------------------------------------------------------- transactions *)
\* signHash, signMessage, signTypedData, signTransaction and signAuthorization
\* hand the request to the signer in the step they are called in.
SignBegins(c) ==
  /\ At(c, "idle") /\ ActiveAccount # None /\ SignedWith(ActiveAccount) # None
  /\ WalletGoes(c, [pc |-> "sent", from |-> ActiveAccount, by |-> {SignedWith(ActiveAccount)}])
  /\ SameWallet /\ UNCHANGED record
\* sendSolanaTransaction() signs with the Solana account it finds, whichever
\* namespace is active, and only then waits for the network.
SolanaSends(c) ==
  /\ At(c, "idle") /\ Holding(data, "solana") # None
  /\ LET a == Holding(data, "solana") IN WalletGoes(c, [pc |-> "sent", from |-> a, by |-> {a}])
  /\ SameWallet /\ UNCHANGED record
\* bumpFee() may await new fees; the account is the one that is active when it
\* calls sendTransaction().
BumpBegins(c) ==
  /\ At(c, "idle") /\ data # None /\ WalletGoes(c, [pc |-> "bumping"])
  /\ SameWallet /\ UNCHANGED record

\* sendTransaction() captures the account, the namespace and the epoch before
\* its first await.
SendBegins(c) ==
  /\ At(c, "idle") \/ At(c, "bumping")
  /\ ActiveAccount # None
  /\ WalletGoes(c, [pc |-> "preparing", from |-> ActiveAccount, account |-> ActiveAccount,
              epoch |-> epoch, by |-> {}])
  /\ SameWallet /\ UNCHANGED record

\* assertSameAccount(): before signing and again before broadcasting.
SameAccount(t) ==
  epoch = t.epoch /\ ActiveAccount = t.from
\* The signature of the key the signer has now joins those of the call.
CanSign(t) == t.account # Shredded /\ SignedWith(t.account) # None
SignedBy(t, pc) == [pc |-> pc, from |-> t.from, epoch |-> t.epoch,
                    by |-> t.by \union {SignedWith(t.account)}]
SendSigns(c) ==
  /\ At(c, "preparing") /\ SameAccount(tasks[c]) /\ CanSign(tasks[c])
  /\ WalletGoes(c, SignedBy(tasks[c], "signed"))
  /\ SameWallet /\ UNCHANGED record
Broadcasts(c) ==
  /\ WalletGoes(c, [pc |-> "sent", from |-> tasks[c].from, by |-> tasks[c].by])
  /\ SameWallet /\ UNCHANGED record
SendBroadcasts(c) ==
  /\ At(c, "signed") /\ SameAccount(tasks[c])
  /\ Broadcasts(c)

\* Any step of a call may be the last: it returns, or an RPC error, a reverting
\* simulation, a refused fee, a terminated or timed-out worker ends it.
CallEnds(c) ==
  /\ tasks[c].pc \notin {"idle", "cleared", "wiped"}
  /\ Ends(c) /\ SameWallet /\ UNCHANGED record

\* A mutant of SameKey.
Bad_SameKey(t) == TRUE
\* sendDelegation(): two signatures, the epoch checked after each of them.
SameKey(t) == epoch = t.epoch
DelegationBegins(c) ==
  /\ At(c, "idle") /\ data # None /\ data.active = "eip155" /\ ActiveAccount # None
  /\ SignedWith(ActiveAccount) # None
  /\ WalletGoes(c, [pc |-> "authorized", from |-> ActiveAccount, account |-> ActiveAccount,
              epoch |-> epoch, by |-> {SignedWith(ActiveAccount)}])
  /\ SameWallet /\ UNCHANGED record
DelegationPrepares(c) ==
  /\ At(c, "authorized") /\ SameKey(tasks[c])
  /\ WalletGoes(c, [tasks[c] EXCEPT !.pc = "estimating"])
  /\ SameWallet /\ UNCHANGED record
DelegationSigns(c) ==
  /\ At(c, "estimating") /\ CanSign(tasks[c])
  /\ WalletGoes(c, SignedBy(tasks[c], "delegating"))
  /\ SameWallet /\ UNCHANGED record
DelegationBroadcasts(c) ==
  /\ At(c, "delegating") /\ SameKey(tasks[c])
  /\ Broadcasts(c)

(* ------------------------------------------------------------- session keys *)
\* createSessionKey() and sendWithSession(): _getSessionMgr() may await the seed;
\* an owner is read from the wallet that is in memory afterwards.
SessionBegins(c, use) ==
  /\ At(c, "idle") /\ data # None /\ data.of \in Phrases
  /\ WalletGoes(c, [pc |-> "seeding", of |-> data.of, cached |-> sessionMgr = data.of, use |-> use])
  /\ SameWallet /\ UNCHANGED record
SessionSeeded(c) ==
  /\ At(c, "seeding")
  /\ sessionMgr' = IF tasks[c].cached THEN sessionMgr ELSE tasks[c].of
  /\ IF tasks[c].use = "send" THEN WalletGoes(c, [pc |-> "spending", of |-> tasks[c].of])
     ELSE IF EvmAccount = None THEN Ends(c)
     ELSE WalletGoes(c, [pc |-> "owned", of |-> tasks[c].of, account |-> EvmAccount,
                   owner |-> EvmAccount, epoch |-> epoch])
  /\ UNCHANGED <<data, isolated, worker, epoch, record>>
\* The authorization, or the EIP-7702 delegation, is attached only if the owner's
\* key made it; otherwise the new key is revoked.
OwnerAuthorizes(t) == CanSign(t) /\ SignedWith(t.account) = t.owner
SessionAuthorized(c) ==
  /\ At(c, "owned")
  /\ LET t == tasks[c]
     IN IF OwnerAuthorizes(t)
        THEN WalletGoes(c, [pc |-> "session", sealedBy |-> t.of, owner |-> t.owner]) ELSE Ends(c)
  /\ SameWallet /\ UNCHANGED record

\* sendWithSession() signs with the session key of the records it opened, whichever
\* wallet is in memory by now.
SessionSpends(c) ==
  /\ At(c, "spending")
  /\ LET key == [ns |-> "session", of |-> tasks[c].of]
     IN WalletGoes(c, [pc |-> "sent", from |-> key, by |-> {key}])
  /\ SameWallet /\ UNCHANGED record

WalletNext ==
  \/ DestroySession
  \/ \E n \in Namespaces : SetActiveNamespace(n)
  \/ \E c \in WalletCalls :
       \/ AdoptPhrase(c) \/ Derives(c) \/ SaveBegins(c) \/ Saves(c) \/ ImportRaw(c)
       \/ LoadBegins(c) \/ Loads(c) \/ BackfillBegins(c) \/ Backfills(c)
       \/ Clear(c) \/ Cleared(c) \/ Wipe(c) \/ Wiped(c) \/ CallEnds(c)
       \/ SignBegins(c) \/ SolanaSends(c) \/ BumpBegins(c) \/ SendBegins(c) \/ SendSigns(c) \/ SendBroadcasts(c)
       \/ DelegationBegins(c) \/ DelegationPrepares(c) \/ DelegationSigns(c)
       \/ DelegationBroadcasts(c)
       \/ SessionSeeded(c) \/ SessionAuthorized(c) \/ SessionSpends(c)
       \/ \E use \in {"create", "send"} : SessionBegins(c, use)

(* --------------------------------------------------------------- properties *)
WalletTypeOK ==
  /\ worker \in Accounts \union {None} /\ epoch \in 0..MaxEpoch
  /\ sessionMgr \in Phrases \union {None}
  /\ \A d \in {data, record} \ {None} :
       d.of \in WalletSecrets /\ d.accounts \subseteq Accounts /\ d.active \in Namespaces

\* Whatever is imported, loaded, cleared or switched while a transaction is
\* prepared, what is broadcast is signed by the account it is from, the
\* authorization inside a delegation included (assertSameAccount, assertSameKey).
SignedByItsAccount == \A c \in WalletCalls : At(c, "sent") => tasks[c].by = {tasks[c].from}

\* A session key that was authorized is kept by the wallet of its owner, who can list
\* and revoke it: its record is sealed under the owner's phrase ("The EVM account
\* that owns this wallet's session keys", evmAccount).
SessionOfItsOwner == \A c \in WalletCalls : At(c, "session") => tasks[c].owner.of = tasks[c].sealedBy

\* A stored record can always be loaded again: it has a phrase and every
\* account in it is derived from that phrase (toStorableRecord, load).
RecordOpens == record # None => Opens(record)
===============================================================================
