# TLA+ models of connect-lib

connect-lib is a TypeScript library that connects web applications to wallets
(EVM, Solana, XRPL, WalletConnect and others), keeps their sessions, issues
limited session keys, and pays for HTTP resources with them. This directory holds
TLA+ specifications of the parts of it whose correctness depends on the order of
things: shared storage written by several tabs, calls that interleave at their
awaits, answers that come late, writes that fail, tabs that close; and of the parts
that decide what may be signed, paid or executed.

Paths below are relative to `src/packages/`. `PROJECT.json` maps every definition
to the lines it models and lists runs, mutants, hazards and findings.

## 1. The system

| Component | State it keeps | Operations | Works with |
|---|---|---|---|
| Channel voucher keys (`core/src/session-keys/channel-voucher-keys.ts`) | one stored array of records: policy, bound channel, watermark, status | create, bindChannel, signVoucher, revoke, list | storage adapter, its two locks (`session-keys/storage.ts`); used by the metered session |
| MPP metered session (`payments-mpp/src/session.ts`) | pending units, active channel, opening promise, listed channels, last vouchers | the fetch (pay), meter, close, forceClose, withdrawPayer | server over HTTP, wallet, voucher keys, chain |
| MPP charges (`payments-mpp/src`) | challenges issued, the replay store | challenge, the paying fetch, verify, settle | wallets or session keys, chain |
| x402 (`payments-x402/src`) | settlement claims | the paying fetch, verify, settle | chain, settlement store |
| EVM session keys (`core/src/session-keys/SessionKeyManager.ts`, `storage.ts`) | one stored array of keys: scope, status, use count, spent values | create, authorize, sign, list, revoke, clear, detached expiry | storage adapter, locks per key and per store |
| Delegations (`core/src/session-keys/delegation-framework.ts`) | none of its own | scope to caveats, build, redeem | session keys; enforcers on the chain |
| Solana session keys (`.../solana-session-keys.ts`) | one stored array of keys with budget and usage | create, approve, activate, signPayment, revoke | storage, locks, the token account's delegate on the chain |
| Authorizations (`core/src/authorization`) | none: declarations handed in | validate, evaluate, compile, list | EVM, Solana and voucher keys |
| Account abstraction (`core/src/account-abstraction`) | none of its own; nonce at the entry point | build, sponsor, sign and send operations, receipts | bundler, paymaster |
| Pocket wallet (`wallet-engine/src/wallet.ts`) | wallet data, signer, active namespace | generate, import, load, save, clear, wipe, accounts, sign, send | storage, worker, RPC node |
| Wallet storage (`wallet-engine/src/storage`) | the sealed record, unlock state, the sealing key | load, save, clear, unlock, lock | passphrase, passkey, key store |
| Isolated signer (`wallet-engine/src/signers`) | requests posted, the key in the worker | init, sign, clear, terminate | a worker thread |
| Transaction monitor (`wallet-engine/src/tx-monitor`) | watchers, statuses, poll entries, one timer per chain, stored history | watchTx, stop operations, polls, clean-up | RPC node, storage, clock |
| Session manager (`core/src/session-manager`) | session bundles, the active one, subscriptions, one persisted record | attach, connect, switchChain, syncExternalChain, disconnect, revokeSession, disconnectChain, wallet changes, restore | connector manager, connectors, localStorage |
| Connector manager, auto-reconnect (`core/src/connector-manager.ts`, `auto-reconnect.ts`) | connectors, active connector and session, connect lock, retry timer | connect, reconnect, disconnect, adopt | connectors; session manager |
| WalletConnect connector (`connector-walletconnect/src/index.ts`) | last session and its namespaces, subscribers, pending pairing | connect, pairing, reconnect, disconnect, requests, relay events | relay client, wallet; session manager |
| Injected, Coinbase, embedded, Solana, XRPL connectors | discovered wallets, sessions, accounts, chain, listeners | the connector interface | the wallet |
| Safe, passkey, Reown, wagmi, solana-kit adapters | hardly any | the connector interface | other libraries |
| SIWX (`siwx/src`) | session, generation, expiry timer; issued and consumed nonces | signIn, refresh, restore, signOut, verify | storage, verifiers |
| Routes, notifications, simulation, lookups (`core/src/...`) | queues and caches | quotes, deliveries, reads | RPC, HTTP |

How they interact: an application asks the **session manager** to connect; this
asks the **connector manager**, which asks a **connector**; what the wallet does
later comes back through the connector's `onSessionChanged`. The metered session
opens an escrow channel through the **wallet** and the **server**, binds a
**voucher key** to it and has each payment signed by that key; all managers of
voucher and session keys in all tabs rewrite the same stored arrays. An
**authorization** is compiled to the scope of one of the three kinds of key. The
embedded connector is a session over a pocket wallet.

What is hard:

* *Tabs and locks.* Each stored array is loaded, changed and written back whole.
  Safety rests on a lock per key and one per store, across tabs.
* *Awaits.* Inside one runtime every `await` is a point where anything else may
  run: another call of the app, or the wallet changing account, chain or mind.
* *Failure.* A tab closes between signing and persisting; a write rejects though
  it took effect; a server takes a channel and loses the receipt; a broadcast lands
  whose answer was lost; a wallet ends a session while a call on it is in flight; a
  node answers wrongly or not at all; chains reorganise.
* *Retries.* What failed is tried in another way (batches, settlements, charges):
  what already happened must not happen twice.
* *Time.* Policies, periods, backoffs and timeouts race with calls in flight.
* *Two descriptions of one limit.* A scope is enforced on the device, on the chain,
  previewed and listed by four pieces of code that must agree.

`hazards` in `PROJECT.json` ties these to lines of code and to properties.

## 2. Modules

Core:

| Module | Models | Correspondence |
|---|---|---|
| `ConnectLib` | | `None` for undefined or null, `Idle` for the task of no call |
| `VoucherBudget` | abstract | an account per key: budget, spent amount, vouchers as disjoint intervals |
| `VoucherKeys` | voucher key manager | `stored` is the array; `pc` is the await a call is at; `LockKey`, `LockAll`, one of `Create`, `BindChannel`, `SignVoucher`, `Revoke` (load and change), `Save` or `SaveFails`, `Release` and `Deliver` are the steps of `update()`; `CloseTab` drops the calls of a tab with their locks; a write fails before or after it took effect |
| `MppSession` | metered session | `pending`, `active`, `opening`, `listed` are the variables of the closure; one action for each stretch between awaits of pay, close and forceClose; the key manager answers what `VoucherBudget` promises, first come, first served |
| `SessionKeys` | session key manager and storage | one storage call is one step, as the store lock is the one `VoucherKeys` models in full; the lock of the key is explicit, because listing, clearing and detached expiry do not take it |
| `TxMonitor` | transaction monitor, poller and history | `polls`, `timers`, entry objects with identity, so that a late poll of an earlier watch differs from one of the present; the node's blocks, reorganisations, empty and foreign receipts |
| `SessionManager` over `WalletConnect` | session manager, connect lock, persisted record; the sessions the connector follows | `bundles` and `activeBundleId` are the fields; `heap` gives bundle objects identity, because handlers and calls compare objects (`bundles.get(id) !== bundle`); `byAge` is the order of `lastActiveAt`; `stored` is the record. `registered` says whether the connector is, without which a restored bundle is not subscribed (`unheard`); `holder` is the bundle whose session object the connector has too, so that its `chainChanged` handler rewrites that bundle in place; the history `granted` and `taken` tells chains the user or the app agreed to from those the wallet put in |

Payments:

| Module | Models | Correspondence |
|---|---|---|
| `X402` | the paying fetch; verify, claim, broadcast, commit and release | a payment is what its signature commits to; `claims` is the settlement store with its expiry, `pool` what was broadcast and may land late; the server may be restarted |
| `MppCharges` | challenges, credentials of each kind, replay store, settlement | a challenge is its id; `used` is the store with its retention; charges may share an externalId, which is the memo of the transfers that pay them |
| `SolanaTransfers` | the checks of signed Solana transactions by client, facilitator and server, and of a settlement by balances | `Transactions` enumerates the instructions, accounts, memo and fee payer a signer may return; what the chain does with each is computed beside the checks |

Keys:

| Module | Models | Correspondence |
|---|---|---|
| `SessionScopes` | `checkScopeAgainstTx`, typed data, `caveatsFromScope` and the caveat enforcers | a scope record has the limits of `SessionKeyScope`; `ran` is what was signed on the device or executed on the chain, the usage both count |
| `Authorizations` | `evaluateSpend`, the compilers, the listing | over `SessionScopes`; `paid` is the usage payments leave |
| `SolanaSessionKeys` | create, approve, activate, signPayment in two tabs, revoke | check outside the lock, check again under it; `delegate` is the token account's delegate |
| `UserOperations` | `sendUserOperation` and the receipt | one action per answer of the chain, paymaster or bundler; gas fields as small numbers, defaults, caller's overrides and policy as in the code |
| `BatchEncoding` | `execute` and `executeBatch` calldata | words, offsets and padding, against the decoder of the contract |

Wallet:

| Module | Models | Correspondence |
|---|---|---|
| `PocketWallet` | the wallet in memory, its record, the key in the worker | `data`, `record`, `worker`; a secret stands for what is derived from it; each call captures what it read before an await and rechecks where the code does; session keys are created by the wallet and sent with |
| `EncryptedStorage` | the sealed record and its unlock | a record is its two wraps; `verified`, `viaPrf`, `prfKey`, `sealed` are the fields |
| `KeyStoreStorage` | record in one store, key in another | each operation of either fails before or after it took effect, the delete of a `clear()` included, after which `keyPromise` names a key that is gone (`keyLost`); the shared first-save promise |
| `IsolatedSigner` | requests and replies of the worker | ids, timeouts, late replies, a worker that fails to load |

Connectors and sign-in:

| Module | Models | Correspondence |
|---|---|---|
| `WcPairing` | connect, startPairing, completePairing, cancelPairing, the watcher, reconnect, disconnect | `pairingGeneration` and `pendingApproval` are the fields; the wallet answers whenever it likes |
| `WcRequests` | chain and account of each request, fallbacks, batches, the wallet's events | `namespaces` are those of the last session, rewritten by events while calls run |
| `InjectedWallet` | discovery, connect, reconnect, events, batches | account events hold addresses, which the handler qualifies with the session's chain; connect, reconnect and switchChain write the address they read before their awaits. The history `strayed` is the sessions that were last given another address than the wallet's (`Writes`) |
| `CoinbaseWallet` | one adapter, its events, messages, transactions, batches call by call | the check of chain and account before each call of a batch |
| `EmbeddedWallet` | sessions over a pocket wallet | wallet objects with a generation; the account a request names against the one that signs |
| `SolanaWallet` | Wallet Standard discovery, one active session, one listener | `solAttached` and the handlers the wallets still hold; requests go to the active wallet, whichever session they name, as in the code |
| `XrplWallet` | deep links, one slot for the waiting call, payees with tags | `xrplPending` is the slot; `cleanup()` empties it |
| `Siwx` | session manager, storage, nonces, verification | `generation` is read before and compared after each await, as in `persistIfCurrent` |

Checking:

| Module | Contents |
|---|---|
| `MCPayments`, `MCKeys`, `MCEngine`, `MCWallets`, `MCLive` | suites: the modules of one area side by side. They share no state, so a behaviour is one of its `subject`, chosen initially, and the variables of the other parts keep one state. `TypeOK` (`SuiteTypeOK`) is the type invariant of the subject |
| `MCVoucherKeys`, `MCSessionManager` | one component each |

Proving (section 5):

| Module | Proves |
|---|---|
| `VoucherKeysProofs` | the safety of `VoucherKeys`; that it implements `VoucherBudget` |
| `MppSessionProofs` | the safety of `MppSession` |
| `KeysProofs` | the safety of `SessionKeys`; over `MCKeys` that of scopes, authorizations, Solana keys, user operations and the calldata of batches |
| `SessionManagerProofs` | the safety of `SessionManager` |
| `PaymentsProofs` | that x402 payments and MPP charges are settled once, and what accepted Solana transactions pay, over `MCPayments` |
| `EngineProofs` | the safety of `TxMonitor`; what the wallet signs and what its storages keep, over `MCEngine` |
| `WalletsProofs` | the safety of the connectors and of sign-in, over `MCWallets` |
| `SumLemmas` | lemmas about sums over finite functions, for the others |

In a suite the parts use the same model values for their calls and keys, so that one
symmetry serves them all. Operators named `Bad_...` are plausible bugs.
`PROJECT.json` lists one for each property of each passing run; where a suite's
property has several conjuncts, further `Bad_` operators break the others. No
specification uses them.

## 3. Runs, bounds and what they show

| Run | Shows | Bounds, and why they suffice |
|---|---|---|
| `voucher_keys` | no double spending, delivered vouchers are persisted, records only advance, and the manager implements `VoucherBudget` | two tabs with a call each and two keys: every race is between two calls, on one key or on the shared array. Amounts to 3 reach the policy, the deposit and the u64 limit. The proofs remove the bounds |
| `payments` | metered units are conserved, escrows stay listed until closed, no voucher after a close; one payment is settled once and serves one request, on x402 and as a charge; what a check of a Solana transaction accepts pays what was asked; clients and the x402 facilitator leave the sponsor's tokens alone, and a sponsoring MPP server makes sure that the sponsor authorizes no movement | *session*: two fetches, one close, one forceClose, two channels: a replaced channel and a waiter on its opening. *x402*: one paying fetch, whose payment is presented again and again, two requests at the server at a time, three time units around the life of claims and authorizations, one restart. *charges*: an EVM charge and two Solana ones under one externalId, two requests. *transfers*: a transfer, approval or channel opening after a prefix and before up to two extra instructions, amounts right and one less |
| `keys` | limits of uses, value and period hold; a usable key is accounted; revocation is final; scopes hold on the device, as caveats and for Solana keys; previews agree with enforcers, of tokens and native value on any rail, except for what a key has no way to sign; an operation reported as executed was, and sponsored gas stays in the policy; batches decode to what was asked | *EVM keys*: three calls, two that race and a listing that writes back what it read; a clock that crosses a period and the expiry. *scopes*: 18432 requested scopes, the valid ones of them enforced, two executions, two periods. *authorizations*: 382 compiled ones, three payments. *Solana*: two keys, two tabs, a budget that two payments exceed. *operations*: two of one account, one sponsored, on either EntryPoint. *batches*: three calls, data around a word's length |
| `engine` | polls have watchers and timers, nothing is called confirmed that was in no block; what is signed is signed by the account that was shown; what is stored can be recovered | *monitor*: one transaction watched over and over, two polls in flight, two entry objects, one reorganisation. *wallet*: two calls, two phrases, a raw key of each curve, two keys given to the worker. *vault*: a right, a mistyped and an empty passphrase, two authenticators, two calls. *key store*: two keys, three calls. *signer*: two keys, five requests |
| `wallets` | declined sessions are torn down; batches are asked once; signers are approved; a moved session stops its batch; overtaken sign-ins leave nothing and nonces work once; accounts follow the wallet, but for the exceptions below | two sessions or proposals, two calls (one for WalletConnect's requests), two EVM chains and addresses, two changes by the user in an injected, a Coinbase or a WalletConnect wallet, one in a Solana one: each race is between a call, another call and the user |
| `session_manager` | subscriptions match bundles; an active chain has its chain session; the record is the active session; each chain of a scope was approved, asked for, or put in by the wallet along one of three named ways | two sessions, two chains, room for one bundle (so that eviction happens), at most two bundle objects at once, each page makes two calls that await, one reload, one chain that the wallet puts into a session on its own (`MaxTaken`) beside those the app asks for; the proofs remove the bounds |
| `live` | every call of the voucher keys ends; every fetch ends, with one escrow at a time; every watch ends | two calls on one key, whose locks nest; two fetches and a close, a server that asks for payment each time, writes that reject and may have landed; one transaction over two entry objects, three blocks, one reorganisation |
| `mpp_two_escrows` | finding 1 | as in `live`, with a resource that may be free |
| `session_keys_cleared` | finding 2 | as in `keys` |
| `tx_monitor_final` | finding 3 | two polls in flight |
| `session_manager_revoked` | finding 4 | as `session_manager` |
| `authorizations_rail` | finding 5 | as in `keys` |

**Deadlock.** In `payments`, `keys` and `engine` it is checked for the parts whose
calls repeat for ever (session, EVM keys, monitor); the others stop at their bounds
and have a stuttering step for it. `SessionManager.cfg` and `Wallets.cfg` turn it
off: each page makes a bounded number of calls, the user a bounded number of
changes, and then everything really stops. `SessionManager.cfg`'s `VIEW` leaves out
what an object holds that nothing reads any more, what was granted to a session that
nothing names, what the connector would pass on of one that has ended, and which
object has which of the model values; that of `Wallets.cfg` a flag that only a switch
reads and where the address of a session is from that is not listening.
The runs of `MCLive` use no symmetry.

**Fairness** (`MCLive`; each part's applies while it is the subject). Voucher keys:
storage answers (weak fairness of each step), and the locks are queues (promise
chain, Web Locks), which strong fairness of taking them expresses. Session: server,
wallet and key manager answer or fail; nothing is said of closes being made.
Monitor: intervals and delays fire, blocks come, polls go on; a node that is asked
for ever does not fail for ever (strong fairness of a good answer). For the monitor
stops, clean-ups and concurrent `watchTx` calls are off: two such calls strand a
watcher (`TxMonitor.ts:147`), and a clean-up drops the status of a transaction that
is not indexed yet (`:385`). Safety runs assume no fairness.

**Assumptions.** A write begun by a tab that closes has landed or never does. Clocks
do not run backwards. In `payments` a rejected write of the key store had no
effect; with one that landed, units are signed for twice
(`payments-mpp/src/session.ts:493`), which is listed as a hazard and excluded from
`UnitsConserved`. In `TxMonitor`, `SessionKeys` and `SolanaSessionKeys` a storage
call is atomic, as the storage locks serialise it; in `PocketWallet` it takes effect
when it is issued. In `SessionManager` there is no encryption key, so a save is one
step; fees are refreshed after a switch (the default); an application restores
once, when a page loads, and the wallet's relay gives each session a topic of its
own. The settlement claims of x402 are lost in a restart of the in-process store,
and `PaidOnce` says of that case only that no payment is served twice.
The connector is registered at some time and not taken away or replaced after it; an
application attaches a reconnected session once.

**Exceptions.** Some properties of the passing runs except what the code does not
keep. Where the repository says that it does, section 4 has the statement without
the exception, and what refutes it.

* `RecordHasItsKey` excepts a save that a `clear()` overtook, and a key that a
  `clear()` deleted although it then failed (`keyLost`);
* `AccountFollowsWallet` (Solana) excepts an account that changed before the listener
  was attached;
* `AddressFollowsWallet` (injected) excepts sessions whose address was last written by
  a connect, a reconnect or a switch that had read it before the wallet's account
  changed, and accounts that change while the permission is withdrawn (`strayed`);
* `SubscriptionsMatch` excepts bundles restored before their connector was registered
  (`unheard`): registering it does not make up for it;
* `ScopeJustified` and `PersistedIsActive` except chains the wallet put in on its own:
  by `chainChanged`, by what the app passes on to `syncExternalChain()`, and by the
  namespaces `reconnect()` finds (`taken`);
* `VerdictsAgree` excepts payments for which a device-enforced EVM key has no way to
  sign, native ones and transfers (`NoWayToSign`): it refuses them whatever the
  preview says;
* `AcceptedPays` says of a sponsoring MPP server that the sponsor authorizes no
  movement, not that its tokens stay.

## 4. Findings

Runs that expect a violation; `PROJECT.json` quotes the lines they disagree with.

1. `mpp_two_escrows`: two escrow channels are opened for one session. The README
   of the package promises one; requests that waited for an opening which was not
   needed in the end each open their own (`payments-mpp/src/session.ts:737`).
2. `session_keys_cleared`: a session key that was cleared comes back, with its
   sealed private key, when a call that had read it saves it
   (`core/src/session-keys/SessionKeyManager.ts:1190`).
3. `tx_monitor_final`: a transaction reported as confirmed is then reported as
   failed by an overlapping poll (`wallet-engine/src/tx-monitor/poller.ts:404`).
4. `session_manager_revoked`: a session the wallet revoked is stored again by the
   end of a switchChain that was in flight, and restored by the next page
   (`core/src/session-manager/session-manager.ts:323`), although revocation
   "always clears persistence" (`docs/design/caip25-session.md:109`).
5. `authorizations_rail`: a Solana session key compiled from a grant for one rail
   pays on all of them, because its scope has no rails
   (`core/src/authorization/index.ts:677`), although a compiler "never silently
   widens" (`docs/design/authorization-model.md:116`).

Further statements of the repository that the models contradict. Each is a property
of its module; adding it to the configuration named, with the change given if there
is one, makes TLC show how.

| Property | Configuration | What happens |
|---|---|---|
| `PocketWallet!RecordOpens` | `Engine.cfg` | `backfillAccounts` derives accounts of the phrase it read, and another wallet is loaded or imported meanwhile: the accounts join the wrong wallet, whose saved record `load` refuses, as it derives others (`wallet-engine/src/wallet.ts:1191`) |
| `PocketWallet!SessionOfItsOwner` | `Engine.cfg` | `createSessionKey` awaits the seed of the phrase it read and takes the owner from the wallet that is loaded by then (`wallet-engine/src/wallet.ts:2440`): "the EVM account that owns this wallet's session keys" (`:2410`) is another wallet's |
| `SolanaWallet!SignatureIsTheSessions` | `Wallets.cfg` | The listener is attached after the cluster lookup (`connector-solana/src/index.ts:457`): an account switched in between is never heard, and the session asserts "an address the returned signature does not belong to" (`:477`) |
| `EmbeddedWallet!EvmAccountIsEvm` | `Wallets.cfg` | `switchChain` writes the active address, which may be a Solana one, into the EVM accounts (`connector-embedded/src/index.ts:768`) |
| `Siwx!NewerWriteKept` | `Wallets.cfg`, as `PROPERTY` | The undo of an overtaken sign-in reads and then removes; what was written between is removed too (`siwx/src/session.ts:487`) |
| `Siwx!MessageIsParsed` | `Wallets.cfg` | `refresh()` signs a new nonce and keeps the old parsed message |
| `SolanaWallet!AccountsOnTheirChain` | `Wallets.cfg`, `SolChains = {e1, e2}` | `switchChain` changes the chains of a session and leaves its accounts on the old one (`connector-solana/src/index.ts:740`) |
| `XrplWallet!TagKept` | `Wallets.cfg` | An X-address whose tag conflicts with the one beside it is refused after the object was given its classic address: sent again, it is signed with the other tag (`connector-xrpl/src/index.ts:233`) |
| `InjectedWallet!CallsOnTheirChain` | `Wallets.cfg`, `InjBatch = 2` | The rest of a batch that is sent call by call runs on the chain the user switched to (`connector-evm-injected/src/index.ts:1240`) |
| `Authorizations!ListedNotLooser` | `Keys.cfg`, for the subject `authorizations` | The listing drops the period of a scope and flags nothing (`core/src/authorization/index.ts:862`) |
| `Authorizations!PreviewIsVerdict` | `Keys.cfg`, for the subject `authorizations` | `evaluateSpend` allows a native payment or a transfer, and the device refuses the digest because every compiled scope names its recipients (`core/src/session-keys/SessionKeyManager.ts:600`), although "the evaluator's verdict must equal the compiled enforcer's verdict" (`docs/design/authorization-model.md:42`) |
| `SessionManager!RestoredIsHeard` | `SessionManager.cfg` | A bundle restored before its connector is registered is not subscribed (`core/src/session-manager/session-manager.ts:419`), and `registerConnector` (`:180`) does not subscribe it later: "the wallet may revoke or narrow it after reload, and that must still reach the manager" (`:734`) |
| `SessionManager!ScopeOnlyAsked` | `SessionManager.cfg` | A `chainChanged` of the wallet writes its chain into the namespaces of the session object the bundle holds (`connector-walletconnect/src/index.ts:1651`), or `syncExternalChain` does (`core/src/session-manager/session-manager.ts:349`): "a session cannot grow permissions because a wallet event said so" (`:108`) |
| `InjectedWallet!SwitchKeepsAddress` | `Wallets.cfg`, as `PROPERTY` | `switchChain` reads the accounts (`connector-evm-injected/src/index.ts:1040`), the user changes the account while the wallet is asked, and the old address is written back (`:1144`): the session should "target the wallet's new account" (`:680`) |
| `KeyStoreStorage!FailedClearHarmless` | `Engine.cfg` | A `delete()` that takes effect and rejects leaves `keyPromise` set (`wallet-engine/src/storage/key-store.ts:134`); the next save seals under a key that is gone, although "a failed read or write must not stick" (`:89`) |

The models also show, without a statement of the repository against it: a sponsoring
MPP server accepts a transfer from the sponsor's own token account, if the payer is
its delegate, because the check asks who the authority is and not whose the source
is (`SolanaTransfers!SponsorKeepsTokens` under `Payments.cfg`,
`payments-mpp/src/server/solana.ts:256`); a voucher
is signed after a forceClose has returned, if the write that binds the key rejects
but took effect, the write that revokes it fails too, and a fetch was asking for a
signature meanwhile (`MppSession!NoVoucherAfterClose` with `FreeResource` and
`FailedWritesLand`); two escrows are opened although every request is paid for, if
forceClose is called during the opening: the open succeeds after it, and each waiter
then opens a channel of its own; two
concurrent `watchTx` calls of one transaction strand a watcher; `forceClose` reports
a settlement that a voucher signed meanwhile exceeds
(`payments-mpp/src/session.ts:803`); an event of the last WalletConnect session
reaches the handlers of every bundle (`connector-walletconnect/src/index.ts:1576`); a
`clear()` of the stored wallet does not wait for a save in flight, whose record
reappears (`wallet-engine/src/storage/encrypted.ts:532`).

## 5. Proofs

The theorems hold for any number of callers, tabs, keys, channels, sessions, wallets,
chains and steps. They assume the named assumptions on the constants, which TLC
evaluates in the runs, and what a theorem states before its `PROVE`. Each follows
from an inductive invariant. TLC checks what the theorems conclude on the
configuration of the component.

**`VoucherKeysProofs`**: `TypeCorrect`, `DoubleSpendImpossible`,
`DeliveredPersisted`, `NoLostUpdate`. `NoDoubleSpend` is not inductive: whether a new
voucher overlaps an old one depends on the array the signing call read some steps
ago. `IInv` adds what makes that array current:

* `Control`: a call between load and saved holds the store lock, so nobody else
  writes;
* `Pending`: a call about to save holds the stored array with exactly one record
  changed, in one of the four ways the operations change it;
* `Fresh`: the id a create is about to use is nobody else's;
* `Records`: a stored record is within its channel and policy;
* `AllCovered`: every voucher delivered or in hand is covered by the watermark.

Each lemma `...Step` shows that one conjunct survives a step; `SaveEffect` says what a
save does to the array, landed or not; `NextIInv` and `Invariance` put them together.
A new voucher begins at the watermark, and everything older ends at or below it.

Its second part proves `ImplementsTheBudget`: the manager implements the
accounts of `VoucherBudget`. `ChangeOfAccount` relates the four ways a record changes
to the steps of an account; `SaveIsBudgetStep` applies it to the one record a save
changes (`Pending`), `DeliverIsBudgetStep` is the hand-over, `AbandonIsLose` the ends
without a result, and every other step is a stutter (`QuietStep`).

**`KeysProofs`**, first part, over `SessionKeys`: `BudgetKept`, `UsableIsAccounted` and the action property
`RevocationHolds`. Here the lock of the store does not help: listing, clearing and
detached expiry write records without the lock of the key. The invariant says what
the lock of the key does guarantee:

* `Control`: a call that has read and may write or sign has the lock of its key;
* `StoredAccounts`, `ReadAccounts`: a record that can sign, stored or read under the
  lock, counts at least what its key signed, and is not active once revoked;
* `SignersHaveRoom`: a call that passed its checks still has room for its signature
  in every period the signature may be accounted in, because the period is fixed
  only when it has signed;
* `ListSavesExpired`: what is written without the lock cannot sign;
* `Fresh`: a new id has no history.

Its second part is over `MCKeys`: `SuiteTypeOK`, `ScopesEnforced`, `PreviewsAgree`,
`OperationsKept`, `BatchDecodes`. `SuiteInv` joins an invariant for each part:

* `ScopeInv`: the sums over what has run are within each limit, in every period at
  once; if the scope can be expressed as caveats, each run spent tokens or native
  value, never both, which is what makes the counters of the enforcers
  (`ChainSums`, `ChainPeriod`) equal to those of the device;
* `SolInv`: the stored record of a Solana key counts exactly the payments signed with
  it (`Recorded`). Of what a tab read before it took the lock nothing is assumed: the
  check that `signPayment` repeats under the lock is what the proof uses (`SolCheck`,
  a hypothesis of `SolSigns`);
* `AuthInv`: payments made so far are on the rails of the key that was compiled, and
  no later than its clock. `EvaluatesOne` and `OneGrant` show that a request matches
  one grant; `SimpleAgrees`, `ChainAgrees` and `DeviceAgrees` that its evaluation and
  each of the enforcers then compare the same sums (`SumsAgree`) with the same limits,
  unless the key has no way to sign the payment (`NoWayToSign`);
* `OpInv`: what an operation is made of at each of its steps (`Built`): what is signed
  has passed the policy, a final answer of the paymaster has a stub before it, and
  only an operation that is in the chain is reported as executed.

`BatchDecodes` needs no invariant but the type of the batch: it is a fact about two
functions, what the encoder writes and what the contract reads, for any number of
calls of any lengths. `Holds(words, p, part)` says that a text holds a part from a
place on. `FlattenJoins` says that the tails, joined one after the other, hold each
tail at the sum of the lengths before it, by induction on the calls; `OffsetIsSize`
that this sum is the offset the encoder writes for the call; `ArrayHolds` and
`DatasHold` lift that to the arrays and to the data of the calls. `DecodesOne`,
`DecodesV06` and `DecodesV07` then read the three layouts back.

**`MppSessionProofs`**: `EscrowsListed` without assumption; `NoVoucherAfterClose` if a
rejected write of the key store had no effect; `OneEscrowAtATime` if the server asks
for payment each time and nobody forces a close; `UnitsConserved` for finitely many
fetches and channels if a rejected write had no effect. The first assumption is a
real restriction, as the end of section 4 shows; so is the second, which is
finding 1. What is common to all is `ChannelsInv`: a channel is known to no call but
the fetch that opens it until its open is settled (`AbsentIsUnused`, `OpenedByOne`).
`KeyInv` adds where keys can be bound, and that a closed channel's key is revoked or
can never be bound; `SingleFlight` that the opening promise is the only opening and
that whoever signs does so on the active channel or with a revoked key; `UnitsInv`
that a fetch asked to sign still has exactly what it was passed, so that the sums over
calls and keys move by the same amount.

**`EngineProofs`**, first part, over `TxMonitor`: `PollsAreDriven` and `ConfirmedWasMined`. `EntriesInv` says that
an entry object keeps its transaction while it is polled or a poll in flight has it,
so that a late answer is of the transaction it is applied to; `SuccessInv` that
everything that can say "succeeded" (the node, an answer under way, the store, what
a watch has read) says it of a transaction that did.

**`SessionManagerProofs`**: `TypeOK`, `SubscriptionsMatch`, `ActiveChainHasSession`,
`PersistedIsActive`, `ScopeJustified`. `DataInv` says of every object that was ever
filled, also of one that calls and handlers still hold after its eviction, and of
the record, that its scope is justified and its active chain has a session;
`FiledInv` that a bundle is filed under its own session; `CallsInv` what a call holds
across its await; `RestoreInv` the same for a restoration. Justified means approved
with the session, asked for by the app, or put in by the wallet along one of the three
ways; a bundle that `SubscriptionsMatch` excepts was restored before its connector was
registered. `TypeOK` bounds the length
of `byAge`, which is a fold: `FoldExists` and `FoldKeeps` establish what it returns.

**`WalletsProofs`**, over `MCWallets`: all safety properties of the run `wallets`.
`SuiteInv` joins an invariant for each part:

* `PairInv`: generations only grow, so a cancelled attempt is superseded for good;
  a watcher runs only after the wallet's answer;
* `WcInv`: the sender of a request was among the accounts of its chain when the call
  was made, although events rewrite the namespaces while it runs; in a log every
  request but the last is one that the next may follow;
* `InjInv`: a provider runs the handlers of sessions only, a session's account is
  qualified with its chain, and a call that holds the record of the index holds the
  one that is there (`record` is cleared with the index); the log of a batch sent one
  by one begins with the one answer that allows it;
* `FollowInv`: the handlers a wallet calls are of sessions with that wallet, and a call
  that will write an address has one, and the session it is for; so a session that is listening and has not `strayed` has the wallet's address
  (`AddressFollowsWallet`), which an `accountsChanged` gives to all of them at once;
* `CbInv`: the session a call was made for is still one, and a batch has asked only
  on the chain and account it was made for;
* `SiwxInv`: a message is signed for one call, which is the only one that may write
  or remove it; what an overtaken call signed is not in the storage, and the undo has
  found it there if it is;
* `NoncesInv`: the nonce of an accepted message is consumed, or removed for good;
* `SolInv`: the active session is of the wallet whose listener was attached last;
* `XrplInv`: the call in the slot signs for the account that is connected;
* `TypesInv`: what `TypeOK` needs besides. A session that is active, or that a call
  will renew, was made (`EmbSessionTypes`, `SolTypes`); a record in storage or in
  memory is active on a namespace it has (`EmbDataTypes`), so that the account a
  session is given is one of the wallet's (`EmbAccountIs`); a wallet is only ever on
  a chain, and on an account, there is (`InjWalletTypes`). A chain that becomes the
  first of a session is moved, not repeated: `ExcludingIs` says what the filter that
  takes it out of the others keeps.

**`PaymentsProofs`**, over `MCPayments`: `PaidOnce`, `AcceptedPays`, `TypeOK`. Nothing ties a settled payment to
the requests that may still present it but an entry of a store that expires, so the
invariants say for how long each entry is needed:

* `SettledInv` (x402): a payment that a request has claimed, or that was broadcast by
  a server that still has its store, stays claimed until it can no longer be made
  (`Covered`); while it can be made, one request settles it (`OneSettles`). A claim is
  released only before the broadcast and by its holder; `commit()` only lengthens it.
  An authorization that was verified before it was served is still claimed when the
  late request comes to settle it (`VerifiedIsCovered`); after a restart, which forgets
  the claims, it is the chain that refuses what was made. This needs that a claim
  outlasts a Solana message (`SettleTtlAssumption`);
* `ChargeInv` (charges): the key of a challenge is kept until the challenge is over,
  the key of a Solana message until the message can no longer land
  (`ChallengesSpent`, `ProofsSpent`), which needs that the store retains it for a
  message's life (`RetentionAssumption`). A second request comes to a message, of the
  same challenge or of another under the same externalId, only once it is dead, and
  its simulation refuses it (`ProvedAgainIsDead`).

`AcceptedPays` is shown of each check on its own: from what the check asks of the
instructions, and from there being no others it would not see (`InstructionsListed`,
`OthersMoveNothing`), follows that the transaction moves tokens once, from whom and
to whom the check knows (`ClientMoves`, `X402Moves`, `MppMoves`, `OpenMoves`) or not
at all (`OwnerMoves`); the sums of gains and losses then have one term (`OnePays`).
`SentIsTaken` is the last conjunct: what the MPP client sends, its server takes. Of
the sponsored MPP server it is shown that no movement has the sponsor as its authority,
which is all its checks make sure of. The
amount is any positive number; payer, recipient and sponsor are distinct
(`WalletsAssumption`), as paying oneself moves nothing; the instructions around the
payment are those that `Prefixes` and `Suffixes` enumerate.

**`EngineProofs`**, second part, over `MCEngine`: `SignedAsShown`, `StorageRecovers` and `TypeOK`. `EngineInv`
joins an invariant for each part:

* `WalletInv`: a wallet in memory has one account on each namespace, whatever was
  derived, loaded or added, and the worker has its EVM key or none (`WorkerInv`); a
  call that has captured an account still has it or had it shredded. A transaction
  signs only if the account is still the active one; a delegation, whose two
  signatures have other awaits between them, has one key for both while the epoch is
  the one it began with, and with another epoch it is never broadcast
  (`SignedSoFar`);
* `SignerInv`: the key the worker will hold when it comes to a signing request is the
  one that was loaded when the request was posted (`LoadedAfter`), and a reply is the
  one to its id, because an id is never used twice;
* `VaultInv`: every passphrase a save is about to seal with, or a later save would
  reuse, was proven or typed where nothing had to be proven;
* `KeyStoreInv`: a settled promise is of the key that is stored, unless a clear that
  failed has deleted that key; a key is minted only where none is stored, and while no
  clear overtook a save or lost the key, what is about to be written is sealed with the
  stored key.

`FoldExists`, `FlattenJoins` and the other inductions are on natural numbers, by a least
counterexample (`LeastNat`, from `WFMin`): the library's induction theorems take an
operator as a parameter, which the provers cannot instantiate. For the same reason
nothing can be proved of `SelectSeq` or `MapThenSumSet`, and the models select by
`FoldLeft` or by the least index and sum by `SumFunction` where a proof needs it;
what a fold returns is proved from its recursion (`FoldExists`). **`SumLemmas`** says
of these sums what they are of the empty function and of zeroes, that they are natural
numbers, that a term can be taken out, and that they grow by what one or each term
grows by.

Only model-checked:

* liveness (`CallsEnd`, `FetchesEnd`, `WatchEnds` in the run `live`), which is
  out of the prover's reach.

Every safety invariant and every step property of the passing runs is a theorem.

What the runs of section 4 refute is not proved, of course; the theorems say what
holds beside it.

## 6. Plan

In this order:

1. `SessionManager` over `WcPairing`: the approved session of a pairing as the one
   that is attached; the connector manager's active session and auto-reconnect.
2. `MppSession` with the channel account on the chain: withdrawPayer and the
   expected settlement of forceClose; nonces and bumping in `PocketWallet`, composed
   with `TxMonitor`.
3. The encrypted storage adapters of core and the order of their saves and removals;
   the delivery queue of the notifier.

## 7. Not modelled

Cryptography, encodings other than the calldata of batches (Borsh, CAIP strings,
headers, transaction bytes), logging and user interfaces; caches of stateless reads;
`list()` and `getSessionBundle` of the key managers, which change nothing; the query
indexes of the transaction history; fee values and fee bumping; withdrawPayer;
permissions (EIP-2255, ERC-7715) and EIP-7702 delegation of accounts; the core
storage adapters; routes, notifications and simulation; the connectors that
translate for another library (Safe, passkeys, Reown, wagmi, solana-kit). Amounts,
gas and time are small numbers, so overflow is covered only where a limit is a
constant (`U64Max`).
