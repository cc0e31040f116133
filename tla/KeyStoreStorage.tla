---------------------------- MODULE KeyStoreStorage ----------------------------
(* KeyStoreStorageAdapter (wallet-engine/src/storage/key-store.ts): the sealed *)
(* record in one store, the key that opens it in another, and every operation *)
(* of either a call that may fail. A sealed record is the key it is under.    *)
EXTENDS ConnectLib

CONSTANTS StoreKeys,  \* random keys
          StoreCalls  \* saves and clears running at a time
ASSUME StoreKeysAssumption == None \notin StoreKeys

VARIABLES storeKey,   \* the key in the platform's key store
          blob,       \* the sealed record
          keyPromise, \* None, or what the memoized read-or-create has come to
          storeTasks,
          overtaken,  \* history: a save and a clear overlapped since the last
                      \* clear that ran alone
          keyLost     \* history: a clear deleted the key and failed, and none has
                      \* succeeded since
storeVars == <<storeKey, blob, keyPromise, storeTasks, overtaken, keyLost>>

StoreInit ==
  /\ storeKey = None /\ blob = None /\ keyPromise = None /\ overtaken = FALSE /\ keyLost = FALSE
  /\ storeTasks = [c \in StoreCalls |-> Idle]

InStore(c, pc) == storeTasks[c].pc = pc
Stores(c, t) == storeTasks' = [storeTasks EXCEPT ![c] = t]
Pending == [pc |-> "pending"]
Minting(k) == [pc |-> "minting", key |-> k]
Settled(k) == [pc |-> "settled", key |-> k]

\* keyForWriting(): the first save starts the promise, the others share it, and
\* a key that is there is used.
\* A mutant of Existing: every adapter mints its own.
Bad_Existing == None
Existing == storeKey
Running(pcs) == \E d \in StoreCalls : storeTasks[d].pc \in pcs
SaveRecord(c) ==
  /\ InStore(c, "idle") /\ Stores(c, [pc |-> "keying"])
  /\ keyPromise' = IF keyPromise # None THEN keyPromise ELSE Pending
  /\ overtaken' = (overtaken \/ Running({"deleting"}))
  /\ UNCHANGED <<storeKey, blob, keyLost>>
KeyRead ==
  /\ keyPromise = Pending
  /\ IF Existing # None THEN keyPromise' = Settled(Existing)
     ELSE \E k \in StoreKeys : keyPromise' = Minting(k)
  /\ UNCHANGED <<storeKey, blob, storeTasks, overtaken, keyLost>>
KeySaved ==
  /\ keyPromise # None /\ keyPromise.pc = "minting"
  /\ storeKey' = keyPromise.key /\ keyPromise' = Settled(keyPromise.key)
  /\ UNCHANGED <<blob, storeTasks, overtaken, keyLost>>
\* A rejected promise is dropped, whether or not the key was written: the saves
\* waiting for it fail, the next one retries.
KeyFails ==
  /\ keyPromise # None /\ keyPromise.pc # "settled"
  /\ keyPromise' = None
  /\ storeKey' \in {storeKey} \union (IF keyPromise.pc = "minting" THEN {keyPromise.key} ELSE {})
  /\ storeTasks' = [c \in StoreCalls |-> IF InStore(c, "keying") THEN Idle ELSE storeTasks[c]]
  /\ UNCHANGED <<blob, overtaken, keyLost>>
SealRecord(c) ==
  /\ InStore(c, "keying") /\ keyPromise # None /\ keyPromise.pc = "settled"
  /\ Stores(c, [pc |-> "writing", key |-> keyPromise.key])
  /\ UNCHANGED <<storeKey, blob, keyPromise, overtaken, keyLost>>
WriteBlob(c) ==
  /\ InStore(c, "writing") /\ Stores(c, Idle)
  /\ blob' \in {blob, storeTasks[c].key}
  /\ UNCHANGED <<storeKey, keyPromise, overtaken, keyLost>>

\* clear(): the record first, then its key, then the promise.
ClearStore(c) ==
  /\ InStore(c, "idle") /\ ~Running({"deleting"})
  /\ blob' = None /\ Stores(c, [pc |-> "deleting"])
  /\ overtaken' = Running({"keying", "writing"})
  /\ UNCHANGED <<storeKey, keyPromise, keyLost>>
DeleteKey(c) ==
  /\ InStore(c, "deleting") /\ Stores(c, Idle)
  /\ storeKey' = None /\ keyPromise' = None /\ keyLost' = FALSE
  /\ UNCHANGED <<blob, overtaken>>
\* A delete that rejects, whether or not it took effect: the promise stays, so that
\* the next save seals under a key that may be gone.
DeleteFails(c) ==
  /\ InStore(c, "deleting") /\ Stores(c, Idle)
  /\ \/ UNCHANGED <<storeKey, keyLost>>
     \/ storeKey' = None /\ keyLost' = (keyLost \/ keyPromise # None)
  /\ UNCHANGED <<blob, keyPromise, overtaken>>

\* The app is restarted: the stores stay, the adapter is new and remembers no key.
RestartApp ==
  /\ keyPromise' = None /\ storeTasks' = [c \in StoreCalls |-> Idle]
  /\ keyLost' = (keyLost /\ blob # None)
  /\ UNCHANGED <<storeKey, blob, overtaken>>

StoreNext ==
  \/ RestartApp \/ KeyRead \/ KeySaved \/ KeyFails
  \/ \E c \in StoreCalls :
       SaveRecord(c) \/ SealRecord(c) \/ WriteBlob(c) \/ ClearStore(c) \/ DeleteKey(c) \/ DeleteFails(c)

StoreTypeOK ==
  /\ storeKey \in StoreKeys \union {None} /\ blob \in StoreKeys \union {None}
  /\ keyPromise \in {None, Pending} \union {Minting(k) : k \in StoreKeys}
                    \union {Settled(k) : k \in StoreKeys}

\* Unless a clear overtook a save or deleted the key and failed, the stored record
\* opens with the stored key, whatever other reads and writes failed, however many
\* first saves ran at a time and wherever the app was restarted.
RecordHasItsKey == blob # None /\ ~overtaken /\ ~keyLost => storeKey = blob

\* Not so after a clear that failed: delete() took effect and rejected, and the next
\* save seals under the key the adapter remembers.
FailedClearHarmless == blob # None /\ ~overtaken => storeKey = blob
===============================================================================
