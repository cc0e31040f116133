--------------------------- MODULE WalletConnect ---------------------------
(***************************************************************************)
(* What WalletConnectConnector (connector-walletconnect/src/index.ts) keeps *)
(* of its sessions, and the wallet behind the relay.  The connector follows *)
(* one session, the last one it connected, and tells every subscriber what  *)
(* happens to that one, whichever session the subscriber had asked about.   *)
(* Its session object is the one it has handed out: whoever holds it sees   *)
(* what the connector writes into it.                                       *)
(***************************************************************************)
EXTENDS ConnectLib

CONSTANTS
  Sessions,  \* wallet sessions, by topic
  Chains,    \* CAIP-2 chain ids of one namespace
  Bundles,   \* objects that may subscribe to changes of a session
  MaxTaken   \* bound: chains that the wallet puts into sessions on its own

VARIABLES
  wallet,       \* wallet[s]: is session s not yet proposed, live or ended
  granted,      \* history: the chains session s was approved with, or that the
                \* app has asked it to switch to
  taken,        \* history: the chains session s was given because the wallet said so
  lastSession,  \* the session whose relay events the connector passes on
  holder,       \* the bundle that was given the connector's session object
  subscribers   \* bundles whose handler is in sessionSubscribers

follows == <<lastSession, holder>>
sessionVars == <<wallet, granted, taken, follows>>
connectorVars == <<sessionVars, subscribers>>

ConnectorTypeOK ==
  /\ wallet \in [Sessions -> {"none", "live", "ended"}]
  /\ granted \in [Sessions -> SUBSET Chains]
  /\ taken \in [Sessions -> SUBSET Chains]
  /\ lastSession \in Sessions \cup {None}
  /\ holder \in Bundles \cup {None}
  /\ subscribers \subseteq Bundles

ConnectorInit ==
  /\ wallet = [s \in Sessions |-> "none"]
  /\ granted = [s \in Sessions |-> {}] /\ taken = [s \in Sessions |-> {}]
  /\ lastSession = None /\ holder = None
  /\ subscribers = {}

\* connect() or completePairing(): the wallet approves some of the chains, and
\* bundle b gets the session.
Approve(s, scope, b) ==
  /\ wallet[s] = "none"
  /\ wallet' = [wallet EXCEPT ![s] = "live"]
  /\ granted' = [granted EXCEPT ![s] = scope]
  /\ lastSession' = s /\ holder' = b
  /\ UNCHANGED taken

\* The wallet, not the app, has put chains into session s.
Takes(s, chains) ==
  /\ taken' = [taken EXCEPT ![s] = @ \cup chains]
  /\ Cardinality({p \in Sessions \X Chains : p[2] \in taken'[p[1]]}) <= MaxTaken

\* reconnect(): a new session object, which no bundle has yet.
Resume(s) ==
  /\ wallet[s] = "live" /\ lastSession # s
  /\ lastSession' = s /\ holder' = None
  /\ UNCHANGED <<wallet, granted, taken>>

\* Bundle b gets the reconnected object.  Its chains are those of the wallet's last
\* session_update, heard or not, which the relay client keeps, and of the
\* chainChanged events since.
HandOver(s, scope, b) ==
  /\ wallet[s] = "live" /\ s = lastSession /\ holder = None
  /\ Takes(s, scope \ granted[s])
  /\ holder' = b
  /\ UNCHANGED <<wallet, granted, lastSession>>

\* disconnect(): client.disconnect() ends the session at the wallet, or throws.
EndOrFail(s) ==
  /\ \/ wallet' = [wallet EXCEPT ![s] = "ended"]
     \/ UNCHANGED wallet
  /\ UNCHANGED <<granted, taken, follows>>

\* session_delete, session_expire: the wallet ends session s.
WalletEnds(s) ==
  /\ wallet[s] = "live"
  /\ wallet' = [wallet EXCEPT ![s] = "ended"]
  /\ UNCHANGED <<granted, taken, follows>>

\* applyChainChanged(): any chain is put into the session object.
ChainChanged(s, ch) ==
  /\ wallet[s] = "live" /\ s = lastSession /\ holder # None
  /\ Takes(s, {ch})
  /\ UNCHANGED <<wallet, granted, follows>>

\* notifySessionChanged(): who is told of an event that concerns session s.
Told(s) == IF s = lastSession THEN subscribers ELSE {}
=============================================================================
