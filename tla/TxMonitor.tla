----------------------------- MODULE TxMonitor -----------------------------
(***************************************************************************)
(* TxMonitor, TxPoller and TxHistoryStore (wallet-engine/src/tx-monitor):   *)
(* transactions are watched until a poll finds them confirmed or failed.    *)
(* Everything runs in one JavaScript runtime and interleaves at awaits; a   *)
(* timer starts polls without waiting for the last ones, so several polls   *)
(* of a transaction are in flight at once and each acts on what the node    *)
(* said when it was asked.  A transaction is its key chainId:hash.          *)
(***************************************************************************)
EXTENDS ConnectLib

CONSTANTS
  Txs,       \* keys of transactions
  Chains,    \* chain ids
  ChainOf,   \* the chain of a transaction
  Watchers,  \* calls of watchTx in flight
  Polls,     \* calls of pollOnce in flight
  Entries,   \* PollEntry objects, one for each time a transaction is polled anew
  History,   \* statuses an earlier session may have left stored, or None
  MaxBlock,  \* bound: blocks of a chain
  MaxReorgs, \* bound: reorganisations
  Stops,     \* may the app stop watching or stop the monitor?
  Cleans,    \* may the history be cleared or cleaned up?
  Mempool, Gone,       \* of a transaction in no block
  NoReceipt, Foreign   \* answers: none, and the receipt of another transaction

ASSUME TxConstantsAssumption ==
  /\ ChainOf \in [Txs -> Chains]
  /\ History \subseteq {"unknown", "pending", "mined", "confirmed", "failed", None}
  /\ MaxBlock \in Nat /\ MaxReorgs \in Nat
  /\ Stops \in BOOLEAN /\ Cleans \in BOOLEAN
  /\ None \notin Txs \cup Entries

VARIABLES
  where,    \* node: the block of each transaction, Mempool or Gone
  head,     \* node: the latest block of each chain
  reorgs,   \* node: reorganisations so far; it names the blocks of a fork
  watchers, \* watchers
  statuses, \* statuses: the status of each entry, or None
  txStored,   \* the history store: the status written under each key, or None
  indexed,  \* its allKeys
  polls,    \* polls: the entry object of each polled transaction, or None
  timers,   \* chains with an interval timer
  entry,    \* the entry objects
  watch,    \* watchTx calls
  poll,     \* pollOnce calls
  mined     \* history: transactions that have been in a block and succeeded

node == <<where, head, reorgs>>
monitor == <<watchers, statuses>>
store == <<txStored, indexed>>
poller == <<polls, timers>>
txVars == <<node, monitor, store, poller, entry, watch, poll, mined>>

Statuses == {"unknown", "pending", "mined", "confirmed", "failed"}
Terminal == {"confirmed", "failed"}

Block == [number: 1 .. MaxBlock, fork: 0 .. MaxReorgs, ok: BOOLEAN]
Answers == Block \cup {NoReceipt, Foreign}

ASSUME AnswersAssumption ==
  /\ {Mempool, Gone, NoReceipt, Foreign, None} \cap Block = {}
  /\ None \notin Statuses

\* backoff: the delay after an error is running.
Entry == [tx: Txs \cup {None}, last: Block \cup {None},
          backoff: BOOLEAN, late: BOOLEAN]

Watch == [at: {"idle", "get", "read", "put"}, tx: Txs \cup {None},
          read: Statuses \cup {None}]
Poll == [at: {"idle", "receipt", "answered", "tx"}, entry: Entries \cup {None},
         receipt: Answers]

\* Type invariant.
TxTypeOK ==
  /\ where \in [Txs -> Block \cup {Mempool, Gone}]
  /\ head \in [Chains -> 0 .. MaxBlock] /\ reorgs \in 0 .. MaxReorgs
  /\ watchers \subseteq Txs /\ indexed \subseteq Txs
  /\ statuses \in [Txs -> Statuses \cup {None}]
  /\ txStored \in [Txs -> Statuses \cup {None}]
  /\ polls \in [Txs -> Entries \cup {None}]
  /\ timers \subseteq Chains
  /\ entry \in [Entries -> Entry]
  /\ watch \in [Watchers -> Watch]
  /\ poll \in [Polls -> Poll]
  /\ mined \subseteq Txs

NoWatch == [at |-> "idle", tx |-> None, read |-> None]
NoPoll == [at |-> "idle", entry |-> None, receipt |-> NoReceipt]

NewEntry == [tx |-> None, last |-> None, backoff |-> FALSE, late |-> FALSE]

\* The indexes of the store start empty, whatever an earlier session has left.
TxInit ==
  /\ where = [t \in Txs |-> Mempool]
  /\ head = [c \in Chains |-> 0] /\ reorgs = 0
  /\ watchers = {} /\ statuses = [t \in Txs |-> None]
  /\ txStored \in [Txs -> History] /\ indexed = {}
  /\ polls = [t \in Txs |-> None] /\ timers = {}
  /\ entry = [e \in Entries |-> NewEntry]
  /\ watch = [w \in Watchers |-> NoWatch]
  /\ poll = [p \in Polls |-> NoPoll]
  /\ mined = {t \in Txs : txStored[t] = "confirmed"}

-----------------------------------------------------------------------------
(* The node. *)

InBlock(t) == where[t] \notin {Mempool, Gone}

\* A block is left for the confirmation.
Mine(t, ok) ==
  LET c == ChainOf[t]
  IN  /\ where[t] = Mempool
      /\ head[c] + 1 < MaxBlock
      /\ head' = [head EXCEPT ![c] = @ + 1]
      /\ where' = [where EXCEPT ![t] =
           [number |-> head[c] + 1, fork |-> reorgs, ok |-> ok]]
      /\ mined' = IF ok THEN mined \cup {t} ELSE mined
      /\ UNCHANGED <<reorgs, monitor, store, poller, entry, watch, poll>>

NewBlock(c) ==
  /\ head[c] < MaxBlock
  /\ head' = [head EXCEPT ![c] = @ + 1]
  /\ UNCHANGED <<where, reorgs, monitor, store, poller, entry, watch,
                 poll, mined>>

Reorg(t) ==
  /\ InBlock(t)
  /\ reorgs < MaxReorgs
  /\ reorgs' = reorgs + 1
  /\ where' = [where EXCEPT ![t] = Mempool]
  /\ UNCHANGED <<head, monitor, store, poller, entry, watch, poll, mined>>

Drop(t) ==
  /\ where[t] = Mempool
  /\ where' = [where EXCEPT ![t] = Gone]
  /\ UNCHANGED <<head, reorgs, monitor, store, poller, entry, watch,
                 poll, mined>>

-----------------------------------------------------------------------------
(* The poller's bookkeeping. *)

\* Bug: the poll is forgotten and the timer runs on.
Bad_UnpollOnly(S) ==
  /\ polls' = [t \in Txs |-> IF t \in S THEN None ELSE polls[t]]
  /\ UNCHANGED timers

\* removePoll: the timer of a chain goes with its last poll.
Unpoll(S) ==
  /\ polls' = [t \in Txs |-> IF t \in S THEN None ELSE polls[t]]
  /\ timers' = {c \in timers : \E t \in Txs \ S : ChainOf[t] = c /\ polls[t] # None}

\* An entry object nothing refers to any more is as good as new.
Kept(entries) ==
  [e \in Entries |->
     IF (\E t \in Txs : polls'[t] = e) \/ (\E p \in Polls : poll'[p].entry = e)
     THEN entries[e] ELSE NewEntry]

\* pollOnce, up to its first await.  It also puts lastPollAt forward: a delay that
\* is over starts again, which here is the same as one that ends later.
Asks(p, e) ==
  /\ poll[p].at = "idle"
  /\ poll' = [poll EXCEPT ![p] = [at |-> "receipt", entry |-> e, receipt |-> NoReceipt]]

TimerPoll(p, t) ==
  LET e == polls[t]
  IN  /\ ChainOf[t] \in timers
      /\ e # None
      /\ ~entry[e].backoff
      /\ Asks(p, e)
      /\ UNCHANGED <<node, monitor, store, poller, entry, watch, mined>>

\* pollNow does not heed the backoff.
RefreshTx(p, t) ==
  LET e == polls[t]
  IN  /\ e # None
      /\ Asks(p, e)
      /\ UNCHANGED <<node, monitor, store, poller, entry, watch, mined>>

\* Bug: the delay of the backoff is compared with the time of the next poll.
Bad_BackoffEnds(e) ==
  /\ entry[e].backoff /\ \E p \in Polls : poll[p].entry = e
  /\ entry' = [entry EXCEPT ![e].backoff = FALSE]
  /\ UNCHANGED <<node, monitor, store, poller, watch, poll, mined>>

\* Time passes: a backoff is over, five minutes are.
BackoffEnds(e) ==
  /\ entry[e].backoff
  /\ entry' = [entry EXCEPT ![e].backoff = FALSE]
  /\ UNCHANGED <<node, monitor, store, poller, watch, poll, mined>>

FiveMinutes(e) ==
  /\ entry[e].tx # None /\ ~entry[e].late
  /\ entry' = [entry EXCEPT ![e].late = TRUE]
  /\ UNCHANGED <<node, monitor, store, poller, watch, poll, mined>>

-----------------------------------------------------------------------------
(* watchTx, stopWatching, stop. *)

WatchTx(w, t) ==
  /\ watch[w].at = "idle"
  /\ ~(t \in watchers /\ statuses[t] # None)
  /\ watch' = [watch EXCEPT ![w] = [at |-> "get", tx |-> t, read |-> None]]
  /\ UNCHANGED <<node, monitor, store, poller, entry, poll, mined>>

StoreGet(w) ==
  /\ watch[w].at = "get"
  /\ watch' = [watch EXCEPT ![w].at = "read", ![w].read = txStored[watch[w].tx]]
  /\ UNCHANGED <<node, monitor, store, poller, entry, poll, mined>>

\* Stored as confirmed or failed: not watched again.
WatchFinal(w) ==
  /\ watch[w].at = "read"
  /\ watch[w].read \in Terminal
  /\ statuses' = [statuses EXCEPT ![watch[w].tx] = watch[w].read]
  /\ watch' = [watch EXCEPT ![w] = NoWatch]
  /\ UNCHANGED <<node, watchers, store, poller, entry, poll, mined>>

WatchRead(w) ==
  LET t == watch[w].tx
      first == IF watch[w].read = "mined" THEN "mined" ELSE "unknown"
  IN  /\ watch[w].at = "read"
      /\ watch[w].read \notin Terminal
      /\ statuses' = [statuses EXCEPT ![t] = first]
      /\ txStored' = [txStored EXCEPT ![t] = first]
      /\ watch' = [watch EXCEPT ![w].at = "put", ![w].read = None]
      /\ UNCHANGED <<node, watchers, indexed, poller, entry, poll,
                     mined>>

\* startPolling polls at once, unless the transaction is polled already.
WatchStart(w, p, e) ==
  LET t == watch[w].tx
  IN  /\ watch[w].at = "put"
      /\ watchers' = watchers \cup {t}
      /\ indexed' = indexed \cup {t}
      /\ watch' = [watch EXCEPT ![w] = NoWatch]
      /\ \/ polls[t] # None /\ UNCHANGED <<poller, entry, poll>>
         \/ /\ polls[t] = None
            /\ entry[e] = NewEntry
            /\ polls' = [polls EXCEPT ![t] = e]
            /\ timers' = timers \cup {ChainOf[t]}
            /\ entry' = [entry EXCEPT ![e].tx = t]
            /\ Asks(p, e)
      /\ UNCHANGED <<node, statuses, txStored, mined>>

\* stopWatching(t), stopWatchingByChain and stop, for the watchers S.
StopWatching(S) ==
  /\ Stops
  /\ watchers \cap S # {}
  /\ watchers' = watchers \ S
  /\ Unpoll(watchers \cap S)
  /\ UNCHANGED poll
  /\ entry' = Kept(entry)
  /\ UNCHANGED <<node, statuses, store, watch, mined>>

\* stop clears every poll, watched or not.
Stop ==
  /\ Stops
  /\ watchers' = {}
  /\ polls' = [t \in Txs |-> None] /\ timers' = {}
  /\ UNCHANGED poll
  /\ entry' = Kept(entry)
  /\ UNCHANGED <<node, statuses, store, watch, mined>>

-----------------------------------------------------------------------------
(* pollOnce and handleStatusUpdate. *)

Goes(p, step, receipt) ==
  poll' = [poll EXCEPT ![p].at = step, ![p].receipt = receipt]

\* Bug: whatever receipt arrives is taken for the transaction's.
Bad_ReceiptAnswer(p) ==
  LET t == entry[poll[p].entry].tx
  IN  /\ poll[p].at = "receipt"
      /\ \/ Goes(p, "answered", IF InBlock(t) THEN where[t] ELSE NoReceipt)
         \/ Goes(p, "answered", [number |-> 1, fork |-> reorgs, ok |-> TRUE])
      /\ UNCHANGED <<node, monitor, store, poller, entry, watch, mined>>

\* The node answers eth_getTransactionReceipt; its answer is used later.
ReceiptAnswer(p) ==
  LET t == entry[poll[p].entry].tx
  IN  /\ poll[p].at = "receipt"
      /\ \/ Goes(p, "answered", IF InBlock(t) THEN where[t] ELSE NoReceipt)
         \/ Goes(p, "answered", Foreign)
      /\ UNCHANGED <<node, monitor, store, poller, entry, watch, mined>>

\* Bug: the error is reported for a status nobody has set.
Bad_PollError(p) ==
  LET e == poll[p].entry
      t == entry[e].tx
  IN  /\ poll[p].at = "receipt" \/ (poll[p].at = "answered" /\ poll[p].receipt \in Block)
      /\ poll' = [poll EXCEPT ![p] = NoPoll]
      /\ txStored' = [txStored EXCEPT ![t] = "error"]
      /\ indexed' = indexed \cup {t}
      /\ UNCHANGED poller
      /\ entry' = Kept([entry EXCEPT ![e].backoff = TRUE])
      /\ UNCHANGED <<node, monitor, watch, mined>>

\* An error ends the poll, and the entry is not polled again for a while.
PollError(p) ==
  LET e == poll[p].entry
      t == entry[e].tx
  IN  /\ poll[p].at = "receipt" \/ (poll[p].at = "answered" /\ poll[p].receipt \in Block)
      /\ poll' = [poll EXCEPT ![p] = NoPoll]
      /\ \/ statuses[t] = None /\ UNCHANGED store
         \/ /\ statuses[t] # None
            /\ txStored' = [txStored EXCEPT ![t] = statuses[t]]
            /\ indexed' = indexed \cup {t}
      /\ UNCHANGED poller
      /\ entry' = Kept([entry EXCEPT ![e].backoff = TRUE])
      /\ UNCHANGED <<node, monitor, watch, mined>>

\* A change of status of a transaction the monitor knows.
StatusUpdate(t, s) ==
  \/ statuses[t] = None /\ UNCHANGED <<monitor, store>>
  \/ /\ statuses[t] # None
     /\ statuses' = [statuses EXCEPT ![t] = s]
     /\ watchers' =
          IF s \in Terminal /\ s # statuses[t] THEN watchers \ {t} ELSE watchers
     /\ txStored' = [txStored EXCEPT ![t] = s]
     /\ indexed' = indexed \cup {t}

\* The poll ends with status s; the poller drops the key after a terminal one,
\* whichever entry is polled under it by then.
Reports(p, s, last) ==
  LET e == poll[p].entry
      t == entry[e].tx
  IN  /\ StatusUpdate(t, s)
      /\ IF s \in Terminal THEN Unpoll({t}) ELSE UNCHANGED poller
      /\ poll' = [poll EXCEPT ![p] = NoPoll]
      /\ entry' = Kept([entry EXCEPT ![e].backoff = FALSE, ![e].last = last])
      /\ UNCHANGED <<node, watch, mined>>

\* requiredConfirmations is 1: startPolling is not given the options.
RequiredConfirmations == 1

\* h is the latest block, as the node knows it.
HandleReceipt(p, h) ==
  LET receipt == poll[p].receipt
      last == entry[poll[p].entry].last
  IN  /\ poll[p].at = "answered"
      /\ receipt \in Block
      /\ receipt.number <= h /\ h <= head[ChainOf[entry[poll[p].entry].tx]]
      /\ \/ last \notin {None, receipt} /\ Reports(p, "pending", receipt)
         \/ /\ last \in {None, receipt}
            /\ Reports(p, IF ~receipt.ok THEN "failed"
                          ELSE IF h - receipt.number >= RequiredConfirmations
                          THEN "confirmed" ELSE "mined", receipt)

\* A foreign receipt says nothing of this transaction, not even that it is gone.
HandleNoReceipt(p) ==
  LET e == entry[poll[p].entry]
  IN  /\ poll[p].at = "answered"
      /\ poll[p].receipt \notin Block
      /\ \/ e.late /\ Reports(p, "failed", e.last)
         \/ ~e.late /\ poll[p].receipt = Foreign /\ Reports(p, "pending", e.last)
         \/ /\ ~e.late /\ poll[p].receipt = NoReceipt
            /\ Goes(p, "tx", NoReceipt)
            /\ UNCHANGED <<node, monitor, store, poller, entry, watch, mined>>

\* eth_getTransactionByHash; when it fails the transaction is taken as pending.
TxAnswer(p) ==
  LET e == entry[poll[p].entry]
  IN  /\ poll[p].at = "tx"
      /\ \/ where[e.tx] = Gone /\ Reports(p, "failed", e.last)
         \/ Reports(p, "pending", e.last)

-----------------------------------------------------------------------------
(* clearHistory and runCleanup, which run from await to await: entries go one by
   one, and when runCleanup has deleted any, of whatever transaction, the statuses
   of what is not indexed then. *)

Delete(t) ==
  /\ Cleans
  /\ t \in indexed
  /\ txStored' = [txStored EXCEPT ![t] = None]
  /\ indexed' = indexed \ {t}
  /\ UNCHANGED <<node, monitor, poller, entry, watch, poll, mined>>

Purge ==
  /\ Cleans
  /\ statuses' = [t \in Txs |-> IF t \in indexed THEN statuses[t] ELSE None]
  /\ UNCHANGED <<node, watchers, store, poller, entry, watch, poll, mined>>

-----------------------------------------------------------------------------
PollStep(p) ==
  \/ ReceiptAnswer(p) \/ PollError(p) \/ HandleNoReceipt(p) \/ TxAnswer(p)
  \/ \E h \in 0 .. MaxBlock : HandleReceipt(p, h)

WatchStep(w) ==
  \/ StoreGet(w) \/ WatchFinal(w) \/ WatchRead(w)
  \/ \E p \in Polls, e \in Entries : WatchStart(w, p, e)

TxNext ==
  \/ \E t \in Txs :
       \/ Mine(t, TRUE) \/ Mine(t, FALSE) \/ Reorg(t) \/ Drop(t)
       \/ \E p \in Polls : TimerPoll(p, t) \/ RefreshTx(p, t)
       \/ \E w \in Watchers : WatchTx(w, t)
       \/ StopWatching({t}) \/ Delete(t)
  \/ \E c \in Chains : NewBlock(c) \/ StopWatching({t \in Txs : ChainOf[t] = c})
  \/ \E e \in Entries : BackoffEnds(e) \/ FiveMinutes(e)
  \/ \E p \in Polls : PollStep(p)
  \/ \E w \in Watchers : WatchStep(w)
  \/ Stop \/ Purge

TxSpec == TxInit /\ [][TxNext]_txVars

\* Timers fire, time passes, blocks come, and a node that is asked over and over
\* does not fail every time.
TxFairSpec ==
  /\ TxSpec
  /\ \A t \in Txs : WF_txVars(\E p \in Polls : TimerPoll(p, t))
  /\ \A c \in Chains : WF_txVars(NewBlock(c))
  /\ \A e \in Entries : WF_txVars(BackoffEnds(e)) /\ WF_txVars(FiveMinutes(e))
  /\ \A p \in Polls :
       /\ WF_txVars(PollStep(p))
       /\ SF_txVars(ReceiptAnswer(p))
       /\ \A c \in Chains : SF_txVars(HandleReceipt(p, head[c]))

-----------------------------------------------------------------------------
(* Properties *)

(* What is polled is watched, and has the timer of its chain; a timer runs only
   for something polled.  Stopping one transaction, or a late poll of an earlier
   watch, neither starves another nor leaves an interval running. *)
PollsAreDriven ==
  /\ \A t \in Txs : polls[t] # None => t \in watchers /\ ChainOf[t] \in timers
  /\ \A c \in timers : \E t \in Txs : ChainOf[t] = c /\ polls[t] # None

(* "confirmed" is never said of a transaction that was not in a block and
   successful: not after a foreign receipt, a failing node or a reorganisation. *)
ConfirmedWasMined == \A t \in Txs : statuses[t] = "confirmed" => t \in mined

(* The lifecycle of types.ts leads from "confirmed" back to "pending" when a
   reorganisation is seen, and to "failed" from "pending" only; polling stops
   with "confirmed".  A transaction reported as confirmed is not then reported
   as failed. *)
ConfirmedNeverFails ==
  [][\A t \in Txs : statuses[t] = "confirmed" => statuses'[t] # "failed"]_txVars

(* Every watch ends: polling never goes on for ever, whatever the node says. *)
WatchEnds == \A t \in Txs : t \in watchers ~> t \notin watchers
=============================================================================
