-------------------------------- MODULE WcPairing --------------------------------
(* Pairing with a wallet over WalletConnect (connector-walletconnect): connect(), *)
(* the QR code's startPairing / completePairing / cancelPairing, the watcher that *)
(* disconnects a session approved for an abandoned attempt, reconnect() and       *)
(* disconnect(), against a wallet that answers whenever it likes.                 *)
EXTENDS ConnectLib, TLC

CONSTANTS Proposals,    \* proposals sent to the relay; an approved one is a session
          WcCompleters  \* calls of connect and completePairing that run at a time

\* A generation is a number, never undefined.
ASSUME GenerationsAssumption == None \notin Nat

VARIABLES atWallet,     \* what the wallet made of each proposal
          generationOf, \* the attempt a watcher belongs to; None: connect() sent the proposal
          pairingGeneration, pendingApproval, lastUri, lastPaired, \* WalletConnectConnector
          completing,   \* calls that await an approval
          watched,      \* proposals whose watcher has run
          abandoned, handed, kept \* history: cancelled while it waited; given to the app; disconnect() threw
wcpVars == <<atWallet, generationOf, pairingGeneration, pendingApproval, lastUri, lastPaired,
             completing, watched, abandoned, handed, kept>>

PairInit ==
  /\ atWallet = [p \in Proposals |-> "none"] /\ generationOf = [p \in Proposals |-> None]
  /\ pairingGeneration = 0 /\ pendingApproval = None /\ lastUri = None /\ lastPaired = None
  /\ completing = [c \in WcCompleters |-> Idle] /\ watched = {}
  /\ abandoned = {} /\ handed = {} /\ kept = {}

Propose(p) == atWallet[p] = "none" /\ atWallet' = [atWallet EXCEPT ![p] = "proposed"] /\ lastUri' = p
WalletAnswered(p) == atWallet[p] \notin {"none", "proposed"}

(* ---------------------------------------------------------------- the wallet *)
\* "invalid": approved with namespaces that validateApprovedNamespaces refuses.
WalletAnswers(p) ==
  /\ atWallet[p] = "proposed"
  /\ \E answer \in {"live", "invalid", "refused"} : atWallet' = [atWallet EXCEPT ![p] = answer]
  /\ UNCHANGED <<generationOf, pairingGeneration, pendingApproval, lastUri, lastPaired, completing, watched,
                 abandoned, handed, kept>>
\* An ended session keeps its namespaces: invalid ones are still refused.
EndsAtWallet(p) == atWallet' = [atWallet EXCEPT ![p] = IF @ = "live" THEN "ended" ELSE "refused"]
WalletDeletes(p) ==
  /\ atWallet[p] = "live" /\ EndsAtWallet(p)
  /\ UNCHANGED <<generationOf, pairingGeneration, pendingApproval, lastUri, lastPaired, completing, watched,
                 abandoned, handed, kept>>

(* ------------------------------------------------------------------- pairing *)
StartPairing(p) ==
  /\ Propose(p) /\ pairingGeneration' = pairingGeneration + 1
  /\ generationOf' = [generationOf EXCEPT ![p] = pairingGeneration + 1]
  /\ pendingApproval' = p
  /\ UNCHANGED <<lastPaired, completing, watched, abandoned, handed, kept>>
CancelPairing ==
  /\ lastUri # None \/ pendingApproval # None
  /\ pairingGeneration' = pairingGeneration + 1 /\ pendingApproval' = None /\ lastUri' = None
  /\ abandoned' = abandoned \union {p \in Proposals : atWallet[p] = "proposed" /\ generationOf[p] = pairingGeneration}
  /\ UNCHANGED <<atWallet, generationOf, lastPaired, completing, watched, handed, kept>>
\* A mutant of Superseded: the watcher takes every attempt for the live one.
Bad_Superseded(p) == FALSE
Superseded(p) == generationOf[p] # pairingGeneration
\* The watcher of the approval: it runs when the wallet has answered.
Watcher(p) ==
  /\ generationOf[p] # None /\ p \notin watched /\ WalletAnswered(p) /\ watched' = watched \union {p}
  /\ IF Superseded(p) /\ atWallet[p] \in {"live", "invalid"}
     THEN \/ EndsAtWallet(p) /\ UNCHANGED kept
          \/ kept' = kept \union {p} /\ UNCHANGED atWallet
     ELSE UNCHANGED <<atWallet, kept>>
  /\ UNCHANGED <<generationOf, pairingGeneration, pendingApproval, lastUri, lastPaired, completing, abandoned, handed>>
CompletePairing(c) ==
  /\ completing[c] = Idle /\ pendingApproval # None
  /\ completing' = [completing EXCEPT ![c] = [pc |-> "completing", of |-> pendingApproval]]
  /\ UNCHANGED <<atWallet, generationOf, pairingGeneration, pendingApproval, lastUri, lastPaired, watched,
                 abandoned, handed, kept>>
PairConnect(c, p) ==
  /\ completing[c] = Idle /\ Propose(p)
  /\ completing' = [completing EXCEPT ![c] = [pc |-> "connecting", of |-> p]]
  /\ UNCHANGED <<generationOf, pairingGeneration, pendingApproval, lastPaired, watched, abandoned, handed, kept>>
\* The approval is in: the watcher of startPairing asked for it first. What was
\* approved is checked, the generation is not.
Completes(c) ==
  /\ completing[c] # Idle /\ WalletAnswered(completing[c].of)
  /\ generationOf[completing[c].of] # None => completing[c].of \in watched
  /\ completing' = [completing EXCEPT ![c] = Idle]
  /\ LET p == completing[c].of
     IN IF atWallet[p] \in {"live", "ended"}
        THEN /\ lastPaired' = p /\ handed' = handed \union {p}
             /\ pendingApproval' = IF completing[c].pc = "completing" THEN None ELSE pendingApproval
        ELSE UNCHANGED <<lastPaired, handed, pendingApproval>>
  /\ UNCHANGED <<atWallet, generationOf, pairingGeneration, lastUri, watched, abandoned, kept>>

(* -------------------------------------------------- reconnect and disconnect *)
PairReconnect(p) ==
  /\ p \in handed /\ atWallet[p] = "live" /\ lastPaired' = p
  /\ UNCHANGED <<atWallet, generationOf, pairingGeneration, pendingApproval, lastUri, completing, watched,
                 abandoned, handed, kept>>
DisconnectPaired(p) ==
  /\ p \in handed /\ atWallet[p] = "live"
  /\ (EndsAtWallet(p) /\ UNCHANGED kept) \/ (kept' = kept \union {p} /\ UNCHANGED atWallet)
  /\ UNCHANGED <<generationOf, pairingGeneration, pendingApproval, lastUri, lastPaired, completing, watched,
                 abandoned, handed>>

PairNext ==
  \/ CancelPairing
  \/ \E p \in Proposals : WalletAnswers(p) \/ WalletDeletes(p) \/ StartPairing(p) \/ Watcher(p)
                          \/ PairReconnect(p) \/ DisconnectPaired(p)
  \/ \E c \in WcCompleters : CompletePairing(c) \/ Completes(c) \/ \E p \in Proposals : PairConnect(c, p)

(* ----------------------------------------------------------------- properties *)
PairTypeOK ==
  /\ atWallet \in [Proposals -> {"none", "proposed", "live", "invalid", "refused", "ended"}]
  /\ {pendingApproval, lastUri, lastPaired} \subseteq Proposals \union {None}
  /\ watched \union abandoned \union handed \union kept \subseteq Proposals

\* A session the wallet approved for an attempt the user had cancelled does not
\* stay connected once its watcher has run, unless client.disconnect() threw
\* (startPairing: "a user who declined must not end up connected").
DeclinedIsTornDown == \A p \in abandoned \intersect watched : atWallet[p] \in {"live", "invalid"} => p \in kept

\* A session of a cancelled attempt is never given to the application
\* (cancelPairing: "What it can do is refuse to hand the session to the app").
DeclinedNotHandedOver == abandoned \intersect handed = {}
==================================================================================
