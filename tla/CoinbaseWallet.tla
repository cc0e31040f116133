------------------------------ MODULE CoinbaseWallet ------------------------------
(* The Coinbase connector (connector-coinbase): one provider adapter whose events   *)
(* keep the last session up to date, and a batch that is sent call by call when the *)
(* wallet has no wallet_sendCalls, while the user may switch chain or account.      *)
(* A session of this connector has one chain, and its accounts carry that chain.    *)
EXTENDS ConnectLib, SequencesExt

CONSTANTS CbChains, CbAddresses, CbSessions, FirstCoinbase,
          CbCalls,      \* async calls that run at a time
          CbBatch, MaxCbSteps \* bounds: calls of a batch, steps of the user in the wallet

ASSUME FirstCoinbaseAssumption ==
  FirstCoinbase \in [chain : CbChains, account : CbAddresses \union {None}, supports : SUBSET CbChains]

VARIABLES coinbase,     \* the wallet: chain, account or None, chains it supports
          cbSessions,   \* namespaces.eip155 of each session made: chain and account
          adapter,      \* is there a providerAdapter, with its listeners
          lastCoinbase, \* lastSession
          cbTasks, cbSteps \* running calls; steps of the user so far
cbVars == <<coinbase, cbSessions, adapter, lastCoinbase, cbTasks, cbSteps>>

CoinbaseInit ==
  /\ coinbase = FirstCoinbase /\ cbSessions = [s \in CbSessions |-> None]
  /\ adapter = FALSE /\ lastCoinbase = None /\ cbTasks = [c \in CbCalls |-> Idle] /\ cbSteps = 0

CbAt(c, pc) == cbTasks[c].pc = pc
CbAwait(c, t) == cbTasks' = [cbTasks EXCEPT ![c] = t]
Cleanup == adapter' = FALSE /\ lastCoinbase' = None
HasSession(s) == adapter /\ cbSessions[s] # None

(* ------------------------------------------------------- connect and disconnect *)
\* The adapter is replaced and listens before the wallet is asked.
CbConnect(c) ==
  /\ CbAt(c, "idle") /\ CbAwait(c, [pc |-> "accounts"]) /\ adapter' = TRUE
  /\ UNCHANGED <<coinbase, cbSessions, lastCoinbase, cbSteps>>
CbConnectAccounts(c) ==
  /\ CbAt(c, "accounts")
  /\ \/ coinbase.account # None /\ CbAwait(c, [pc |-> "chain", account |-> coinbase.account])
        /\ UNCHANGED <<adapter, lastCoinbase>>
     \/ CbAwait(c, Idle) /\ Cleanup
  /\ UNCHANGED <<coinbase, cbSessions, cbSteps>>
CbConnectChain(c, s, requested) ==
  /\ CbAt(c, "chain") /\ cbSessions[s] = None /\ CbAwait(c, Idle)
  /\ IF requested \in {None, coinbase.chain}
     THEN /\ cbSessions' = [cbSessions EXCEPT ![s] = [chain |-> coinbase.chain, account |-> cbTasks[c].account]]
          /\ lastCoinbase' = s /\ UNCHANGED adapter
     ELSE Cleanup /\ UNCHANGED cbSessions
  /\ UNCHANGED <<coinbase, cbSteps>>
\* disconnect() when the provider has answered, and its own disconnect event.
CbDisconnect ==
  /\ adapter /\ Cleanup /\ UNCHANGED <<coinbase, cbSessions, cbTasks, cbSteps>>

(* -------------------------------------------------------- the provider's events *)
UserSteps == cbSteps < MaxCbSteps /\ cbSteps' = cbSteps + 1
Heard == adapter /\ lastCoinbase # None
CbOnChain(chain) == IF Heard THEN [cbSessions EXCEPT ![lastCoinbase].chain = chain] ELSE cbSessions
CbChainChanged(chain) ==
  /\ UserSteps /\ chain # coinbase.chain /\ chain \in coinbase.supports
  /\ coinbase' = [coinbase EXCEPT !.chain = chain] /\ cbSessions' = CbOnChain(chain)
  /\ UNCHANGED <<adapter, lastCoinbase, cbTasks>>
\* Without an account the handlers of the application are told, and no more.
CbAccountsChanged(account) ==
  /\ UserSteps /\ account # coinbase.account /\ coinbase' = [coinbase EXCEPT !.account = account]
  /\ cbSessions' = IF Heard /\ account # None THEN [cbSessions EXCEPT ![lastCoinbase].account = account] ELSE cbSessions
  /\ UNCHANGED <<adapter, lastCoinbase, cbTasks>>

(* ------------------------------------------------------------------- switchChain *)
CbSwitchChain(c, s, chain) ==
  /\ CbAt(c, "idle") /\ HasSession(s) /\ CbAwait(c, [pc |-> "switch", of |-> s, chain |-> chain])
  /\ UNCHANGED <<coinbase, cbSessions, adapter, lastCoinbase, cbSteps>>
\* The namespace is read again after the answer: the account is today's.
CbSwitched(c) ==
  /\ CbAt(c, "switch") /\ CbAwait(c, Idle)
  /\ IF cbTasks[c].chain \in coinbase.supports
     THEN /\ coinbase' = [coinbase EXCEPT !.chain = cbTasks[c].chain]
          /\ cbSessions' = [CbOnChain(cbTasks[c].chain) EXCEPT ![cbTasks[c].of].chain = cbTasks[c].chain]
     ELSE UNCHANGED <<coinbase, cbSessions>>
  /\ UNCHANGED <<adapter, lastCoinbase, cbSteps>>

(* --------------------------------------------------------------------- sendCalls *)
\* The terms of a batch are those of its session when it is sent. "ran" is
\* history: chain and account of the wallet at each call it executed.
CbSendCalls(c, s, items, atomic) ==
  /\ CbAt(c, "idle") /\ HasSession(s)
  /\ CbAwait(c, [pc |-> "batch", of |-> s, terms |-> cbSessions[s], items |-> items, atomic |-> atomic,
                 left |-> items, asked |-> {}, ran |-> {}])
  /\ UNCHANGED <<coinbase, cbSessions, adapter, lastCoinbase, cbSteps>>
\* A mutant of SessionUnmoved: the session is not looked at again.
Bad_SessionUnmoved(t) == TRUE
SessionUnmoved(t) == cbSessions[t.of] = t.terms
\* One call after another, each only if the session is still what it was.
NextCall(c, t) ==
  IF t.left > 0 /\ SessionUnmoved(t)
  THEN CbAwait(c, [t EXCEPT !.pc = "one by one", !.left = @ - 1, !.asked = @ \union {cbSessions[t.of]}])
  ELSE CbAwait(c, [t EXCEPT !.pc = "sent"])
Executes(t) == coinbase.account = t.terms.account /\ coinbase.chain = t.terms.chain
\* signTransaction() and sendTransaction(): one call on the terms of the session; a
\* sender that the session does not have is refused.
FromSession(s, from) == from \in {None, cbSessions[s].account}
CbTransact(c, s, from) ==
  /\ CbAt(c, "idle") /\ HasSession(s) /\ FromSession(s, from)
  /\ CbAwait(c, [pc |-> "one by one", of |-> s, terms |-> cbSessions[s], items |-> 1, atomic |-> TRUE,
                 left |-> 0, asked |-> {cbSessions[s]}, ran |-> {}])
  /\ UNCHANGED <<coinbase, cbSessions, adapter, lastCoinbase, cbSteps>>
\* signMessage(): by an account of the session, and with one method that is asked once.
CbSignMessage(c, s, address) ==
  /\ CbAt(c, "idle") /\ HasSession(s) /\ address # None /\ FromSession(s, address)
  /\ CbAwait(c, [pc |-> "signing"]) /\ UNCHANGED <<coinbase, cbSessions, adapter, lastCoinbase, cbSteps>>
CbBatchAnswered(c, answer) ==
  /\ cbTasks[c].pc \in {"batch", "one by one"}
  /\ LET t == cbTasks[c]
     IN CASE t.pc = "batch" /\ answer = "unsupported" /\ ~t.atomic -> NextCall(c, t)
          [] t.pc = "one by one" /\ answer = "done" ->
               Executes(t) /\ NextCall(c, [t EXCEPT !.ran = @ \union {[chain |-> coinbase.chain, account |-> coinbase.account]}])
          [] OTHER -> CbAwait(c, [t EXCEPT !.pc = "sent"])
  /\ UNCHANGED <<coinbase, cbSessions, adapter, lastCoinbase, cbSteps>>
CbBatchEnds(c) ==
  /\ cbTasks[c].pc \in {"sent", "signing"} /\ CbAwait(c, Idle) /\ UNCHANGED <<coinbase, cbSessions, adapter, lastCoinbase, cbSteps>>

CoinbaseNext ==
  \/ CbDisconnect \/ \E chain \in CbChains : CbChainChanged(chain)
  \/ \E account \in CbAddresses \union {None} : CbAccountsChanged(account)
  \/ \E c \in CbCalls :
       \/ CbConnect(c) \/ CbConnectAccounts(c) \/ CbSwitched(c) \/ CbBatchEnds(c)
       \/ \E answer \in {"done", "rejected", "unsupported"} : CbBatchAnswered(c, answer)
       \/ \E s \in CbSessions : \/ \E requested \in CbChains \union {None} : CbConnectChain(c, s, requested)
                                \/ \E chain \in CbChains : CbSwitchChain(c, s, chain)
                                \/ \E from \in CbAddresses \union {None} : CbTransact(c, s, from) \/ CbSignMessage(c, s, from)
                                \/ \E items \in 1..CbBatch, atomic \in BOOLEAN : CbSendCalls(c, s, items, atomic)

(* ------------------------------------------------------------------ properties *)
CoinbaseTypeOK ==
  /\ \A s \in CbSessions : cbSessions[s] # None => cbSessions[s].chain \in CbChains /\ cbSessions[s].account \in CbAddresses
  /\ lastCoinbase \in CbSessions \union {None} /\ adapter \in BOOLEAN

Batches == {c \in CbCalls : cbTasks[c].pc \in {"batch", "one by one", "sent"}}
\* The wallet executes the calls of a batch on the chain and from the account the
\* batch was sent for, however the user moves between the calls (sendCalls:
\* "Transaction chainId does not match the connected Coinbase chain").
BatchOnItsChain == \A c \in Batches : cbTasks[c].ran \subseteq {cbTasks[c].terms}

\* No call of a batch is asked for after its session has moved to another chain
\* or account ("Coinbase session is no longer on chain").
MovedSessionStopsBatch == \A c \in Batches : cbTasks[c].asked \subseteq {cbTasks[c].terms}
===================================================================================
