-------------------------------- MODULE SolanaWallet --------------------------------
(* The connector of Solana wallets (connector-solana): wallets found by the Wallet    *)
(* Standard handshake or registered by the app, one active session, and the handler   *)
(* of the provider's accountChanged events that keeps its account.                    *)
EXTENDS ConnectLib

CONSTANTS SolWallets, SolKeys, SolChains,
          SolDetachable, \* the wallets whose events can be unsubscribed from
          SolSessions, SolCalls, \* sessions made; async calls at a time
          MaxSolObjects, MaxSolSteps \* bounds: registrations, account changes in the wallets

\* The namespaces of a session: its chain, and its account with the chain it names.
SolSession == [chain : SolChains, accounts : [chain : SolChains, key : SolKeys]]
ASSUME SolAssumption == MaxSolObjects \in Nat /\ MaxSolSteps \in Nat /\ None \notin SolSession

VARIABLES solDiscovered, \* discoveredWallets: the object of a name, or 0
          solObjects,    \* objects made
          solKey,        \* the account each wallet has selected
          solActive,     \* activeSession: [wallet, object, key, of], or None
          solSessions,   \* namespaces.solana of the sessions
          solAttached,   \* attachedListener: [wallet, object], or None
          solHandlers,   \* handlers the providers call, as <<wallet, object>>
          solTasks, solSteps
solFound == <<solDiscovered, solObjects>>
solLive == <<solActive, solSessions, solAttached, solHandlers>>
solVars == <<solFound, solKey, solLive, solTasks, solSteps>>

SolInit ==
  /\ solDiscovered = [w \in SolWallets |-> 0] /\ solObjects = 0
  /\ solKey \in [SolWallets -> SolKeys] /\ solActive = None
  /\ solSessions = [s \in SolSessions |-> None] /\ solAttached = None /\ solHandlers = {}
  /\ solTasks = [c \in SolCalls |-> Idle] /\ solSteps = 0

SolAt(c, pc) == solTasks[c].pc = pc
SolAwait(c, t) == solTasks' = [solTasks EXCEPT ![c] = t]

(* ------------------------------------------------------------------- discovery *)
\* registerWallet(), the register-wallet event and app-ready: a name that is known
\* already keeps its object.
RegisterWallet(w) ==
  /\ solDiscovered[w] = 0 /\ solObjects < MaxSolObjects
  /\ solObjects' = solObjects + 1 /\ solDiscovered' = [solDiscovered EXCEPT ![w] = solObjects']
  /\ UNCHANGED <<solKey, solLive, solTasks, solSteps>>
\* The function registerWallet() returned removes the object it found there, the one
\* of app-ready whatever has the name: one that is left has no effect.
Unregister(w) ==
  /\ solDiscovered[w] # 0 /\ solDiscovered' = [solDiscovered EXCEPT ![w] = 0]
  /\ UNCHANGED <<solObjects, solKey, solLive, solTasks, solSteps>>

(* ------------------------------------------------------- connect and disconnect *)
\* connect(): the provider is asked, then the cluster its genesis hash names.
SolConnect(c, w) ==
  /\ SolAt(c, "idle") /\ solDiscovered[w] # 0
  /\ SolAwait(c, [pc |-> "connect", wallet |-> w, object |-> solDiscovered[w]])
  /\ UNCHANGED <<solFound, solKey, solLive, solSteps>>
\* An answer without an account is an error.
SolApproved(c) ==
  /\ SolAt(c, "connect")
  /\ \/ /\ solKey[solTasks[c].wallet] # None
        /\ SolAwait(c, [pc |-> "genesis", wallet |-> solTasks[c].wallet, object |-> solTasks[c].object,
                        key |-> solKey[solTasks[c].wallet], missed |-> FALSE])
     \/ SolAwait(c, Idle)
  /\ UNCHANGED <<solFound, solKey, solLive, solSteps>>
DetachedFrom(handlers) ==
  IF solAttached # None /\ solAttached[1] \in SolDetachable THEN handlers \ {solAttached} ELSE handlers
\* setupEventListeners(): never stacked, where the provider lets one be removed.
SolConnected(c, s, chain) ==
  /\ SolAt(c, "genesis") /\ solSessions[s] = None
  /\ LET t == solTasks[c] IN
     /\ solActive' = [wallet |-> t.wallet, object |-> t.object, key |-> t.key, of |-> s, missed |-> t.missed]
     /\ solSessions' = [solSessions EXCEPT ![s] = [chain |-> chain, accounts |-> [chain |-> chain, key |-> t.key]]]
     /\ solAttached' = <<t.wallet, t.object>>
     /\ solHandlers' = DetachedFrom(solHandlers) \union {<<t.wallet, t.object>>}
  /\ SolAwait(c, Idle) /\ UNCHANGED <<solFound, solKey, solSteps>>
SolGenesisFailed(c) == SolAt(c, "genesis") /\ SolAwait(c, Idle) /\ UNCHANGED <<solFound, solKey, solLive, solSteps>>
\* disconnect(): the provider is told first; then what is active by now is dropped.
SolDisconnect(c) ==
  /\ SolAt(c, "idle") /\ solActive # None /\ SolAwait(c, [pc |-> "disconnect"])
  /\ UNCHANGED <<solFound, solKey, solLive, solSteps>>
\* A mutant of Detach: what was attached is not forgotten.
Bad_Detach == solAttached' = solAttached /\ solHandlers' = DetachedFrom(solHandlers)
Detach == solAttached' = None /\ solHandlers' = DetachedFrom(solHandlers)
SolDisconnected(c) ==
  /\ SolAt(c, "disconnect") /\ Detach /\ solActive' = None /\ SolAwait(c, Idle)
  /\ UNCHANGED <<solFound, solKey, solSessions, solSteps>>
SolClear ==
  /\ solDiscovered' = [w \in SolWallets |-> 0] /\ Detach /\ solActive' = None
  /\ UNCHANGED <<solObjects, solKey, solSessions, solTasks, solSteps>>

(* ------------------------------------------------------------------------ signing *)
\* signMessage(), signTransaction() and sendTransaction() ask the wallet of the
\* active session, whichever session they are given. History of a signature: the
\* account that gave it, and the one its session reported.
SolSign(c, s) ==
  /\ SolAt(c, "idle") /\ solSessions[s] # None /\ solActive # None
  /\ SolAwait(c, [pc |-> "sign", wallet |-> solActive.wallet, of |-> s])
  /\ UNCHANGED <<solFound, solKey, solLive, solSteps>>
SolSigned(c) ==
  /\ SolAt(c, "sign")
  /\ LET t == solTasks[c] IN
     \/ /\ solKey[t.wallet] # None
        /\ SolAwait(c, [pc |-> "signed", by |-> solKey[t.wallet], as |-> solSessions[t.of].accounts.key])
     \/ SolAwait(c, Idle)
  /\ UNCHANGED <<solFound, solKey, solLive, solSteps>>
SolReturned(c) ==
  /\ SolAt(c, "signed") /\ SolAwait(c, Idle) /\ UNCHANGED <<solFound, solKey, solLive, solSteps>>

(* ----------------------------------------------- accountChanged and switchChain *)
\* A handler acts for the wallet object it was attached for, while that is active.
\* A mutant of Addressed: every handler acts on whatever session is active.
Bad_Addressed(w) == solActive # None /\ \E h \in solHandlers : h[1] = w
Addressed(w) == solActive # None /\ solActive.wallet = w /\ <<w, solActive.object>> \in solHandlers
\* Selecting another account, or (None) withdrawing the app's permission. History:
\* "missed" is a change between the provider's answer and the listener.
AccountChanged(w, key) ==
  /\ solSteps < MaxSolSteps /\ solSteps' = solSteps + 1 /\ key # solKey[w]
  /\ solKey' = [solKey EXCEPT ![w] = key]
  /\ solActive' = IF ~Addressed(w) THEN solActive
                  ELSE IF key = None THEN None
                  ELSE [solActive EXCEPT !.key = key, !.missed = FALSE]
  /\ solSessions' = IF Addressed(w) /\ key \notin {None, solActive.key}
                    THEN [solSessions EXCEPT ![solActive.of].accounts = [chain |-> solSessions[solActive.of].chain, key |-> key]]
                    ELSE solSessions
  /\ solTasks' = [c \in SolCalls |-> IF SolAt(c, "genesis") /\ solTasks[c].wallet = w
                                     THEN [solTasks[c] EXCEPT !.missed = TRUE] ELSE solTasks[c]]
  /\ UNCHANGED <<solFound, solAttached, solHandlers>>
SolSwitchChain(s, chain) ==
  /\ solSessions[s] # None /\ solSessions' = [solSessions EXCEPT ![s].chain = chain]
  /\ UNCHANGED <<solFound, solKey, solActive, solAttached, solHandlers, solTasks, solSteps>>

SolNext ==
  \/ SolClear
  \/ \E w \in SolWallets : RegisterWallet(w) \/ Unregister(w)
  \/ \E w \in SolWallets, key \in SolKeys \union {None} : AccountChanged(w, key)
  \/ \E s \in SolSessions, chain \in SolChains : SolSwitchChain(s, chain)
  \/ \E c \in SolCalls :
       \/ SolApproved(c) \/ SolGenesisFailed(c) \/ SolDisconnect(c) \/ SolDisconnected(c)
       \/ SolSigned(c) \/ SolReturned(c) \/ \E s \in SolSessions : SolSign(c, s)
       \/ \E w \in SolWallets : SolConnect(c, w)
       \/ \E s \in SolSessions, chain \in SolChains : SolConnected(c, s, chain)

(* ------------------------------------------------------------------- properties *)
SolTypeOK ==
  /\ solDiscovered \in [SolWallets -> 0..MaxSolObjects] /\ solSteps \in 0..MaxSolSteps
  /\ solActive # None => solSessions[solActive.of] # None
  /\ solAttached # None => solAttached \in solHandlers

\* The account a live session reports is the one its wallet signs with, whatever
\* handlers of earlier wallets are still attached: otherwise "a SIWx message built
\* from the session asserts an address the returned signature does not belong to"
\* (setupEventListeners). Excepted is a change before the listener was there.
AccountFollowsWallet ==
  solActive # None /\ ~solActive.missed =>
    /\ solActive.key = solKey[solActive.wallet]
    /\ solSessions[solActive.of].accounts.key = solKey[solActive.wallet]

\* A signature is of the account that the session it was asked for reports: no "SIWx
\* message built from the session asserts an address the returned signature does not
\* belong to" (setupEventListeners).
SignatureIsTheSessions == \A c \in SolCalls : SolAt(c, "signed") => solTasks[c].by = solTasks[c].as

\* "Accounts are CAIP-10, keyed by the chains the session holds" (setupEventListeners).
AccountsOnTheirChain ==
  \A s \in SolSessions : solSessions[s] # None => solSessions[s].accounts.chain = solSessions[s].chain
=====================================================================================
