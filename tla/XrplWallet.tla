--------------------------------- MODULE XrplWallet ---------------------------------
(* The connector of Xaman (connector-xrpl): deep links out, window messages back, and *)
(* one slot for the call that waits for one. A call that starts cleans the slot up    *)
(* without settling the call that held it. Payments name their payee by a classic     *)
(* address, with or without a tag, or by an X-address with its network and tag.       *)
EXTENDS ConnectLib

CONSTANTS XrplSessions, XrplCalls, \* sessions made; calls made
          XrplAccounts, Payees, XrplTags,
          XrplDocs \* transaction objects the app holds

VARIABLES xrplChain,    \* this.network
          xrplWallet,   \* activeSession.wallet: the address Xaman answered with, or None
          xrplSessions, \* chains and account of the sessions given out
          xrplPending,  \* the call whose handler listens, or None
          xrplTasks,    \* the calls that have not settled
          xrplDocs,     \* the objects: account, dest, tag; history: what was named first
          xrplSigned    \* history: the last transaction Xaman signed, as named and as signed
xrplVars == <<xrplChain, xrplWallet, xrplSessions, xrplPending, xrplTasks, xrplDocs, xrplSigned>>

XrplChains == {"xrpl:0", "xrpl:1"}
Test(chain) == chain # "xrpl:0"
\* Addresses: an X-address says whether it is of a test network.
Addresses(owners) == [of : owners, test : {None, TRUE, FALSE}, tag : XrplTags \union {None}]
OnNetwork(address, chain) == address.test \in {None, Test(chain)}
Classic(address) == [of |-> address.of, test |-> None, tag |-> None]

XrplInit ==
  /\ xrplChain \in XrplChains /\ xrplWallet = None /\ xrplSessions = [s \in XrplSessions |-> None]
  /\ xrplPending = None /\ xrplTasks = [c \in XrplCalls |-> Idle]
  /\ xrplDocs = [d \in XrplDocs |-> None] /\ xrplSigned = None

XrplWaits(kind) == xrplPending # None /\ xrplTasks[xrplPending].pc = kind
\* cleanup(): the handler, the timer and both callbacks of the slot go.
\* A mutant of CleanedUp: the window listener stays.
Bad_CleanedUp == xrplPending
CleanedUp == None

(* ----------------------------------------------------------- connect, disconnect *)
XrplConnect(c, chain) ==
  /\ xrplTasks[c] = Idle /\ xrplChain' = chain /\ xrplPending' = c
  /\ xrplTasks' = [xrplTasks EXCEPT ![c] = [pc |-> "connect", chain |-> chain]]
  /\ UNCHANGED <<xrplWallet, xrplSessions, xrplDocs, xrplSigned>>
\* XAMAN_CONNECTED: an address of another network is not taken, but connect() goes
\* on with the wallet that is active.
XamanConnected(address, s) ==
  /\ XrplWaits("connect") /\ xrplSessions[s] = None
  /\ LET wallet == IF OnNetwork(address, xrplChain) THEN address ELSE xrplWallet IN
     /\ xrplWallet' = wallet
     /\ xrplSessions' = IF wallet = None THEN xrplSessions
                        ELSE [xrplSessions EXCEPT ![s] = [chains |-> {xrplTasks[xrplPending].chain},
                                                          account |-> [chain |-> xrplChain, of |-> wallet.of]]]
  /\ xrplTasks' = [xrplTasks EXCEPT ![xrplPending] = Idle] /\ xrplPending' = None
  /\ UNCHANGED <<xrplChain, xrplDocs, xrplSigned>>
\* The timer: a connect() that fails forgets the wallet that was active.
XrplTimedOut ==
  /\ xrplPending # None
  /\ xrplWallet' = IF XrplWaits("connect") THEN None ELSE xrplWallet
  /\ xrplTasks' = [xrplTasks EXCEPT ![xrplPending] = Idle] /\ xrplPending' = None
  /\ UNCHANGED <<xrplChain, xrplSessions, xrplDocs, xrplSigned>>
\* disconnect(), and reconnect(), which always refuses.
XrplDisconnect ==
  /\ xrplWallet' = None /\ xrplPending' = CleanedUp
  /\ UNCHANGED <<xrplChain, xrplSessions, xrplTasks, xrplDocs, xrplSigned>>
XrplSwitchChain(s, chain) ==
  /\ xrplSessions[s] # None /\ xrplChain' = chain
  /\ xrplSessions' = [xrplSessions EXCEPT ![s].chains = @ \union {chain},
       ![s].account = IF xrplWallet # None THEN [chain |-> chain, of |-> xrplWallet.of] ELSE @]
  /\ UNCHANGED <<xrplWallet, xrplPending, xrplTasks, xrplDocs, xrplSigned>>
SetNetwork(chain) ==
  /\ chain # xrplChain /\ xrplChain' = chain
  /\ UNCHANGED <<xrplWallet, xrplSessions, xrplPending, xrplTasks, xrplDocs, xrplSigned>>

(* -------------------------------------------------------------------- payments *)
Named(dest, tag) == [dest |-> dest, tag |-> tag]
WalletUsable == xrplWallet # None /\ OnNetwork(xrplWallet, xrplChain)
NewDoc(d, doc) ==
  /\ xrplDocs[d] = None /\ xrplDocs' = [xrplDocs EXCEPT ![d] = doc]
  /\ UNCHANGED <<xrplChain, xrplWallet, xrplSessions, xrplPending, xrplTasks, xrplSigned>>
Agree(dest, tag) == tag = None \/ dest.tag \in {None, tag}
CreatePaymentTx(d, dest, tag) ==
  /\ WalletUsable /\ OnNetwork(dest, xrplChain) /\ Agree(dest, tag)
  /\ NewDoc(d, [account |-> xrplWallet.of, dest |-> Classic(dest), tag |-> Given(tag, dest.tag), named |-> Named(dest, tag)])
\* The app may write the object itself.
WriteTx(d, account, dest, tag) ==
  NewDoc(d, [account |-> account, dest |-> dest, tag |-> tag, named |-> Named(dest, tag)])
\* validateTransaction() normalizes the object it was given as it goes: the classic
\* destination is written before the tags are compared.
Normalized(doc) ==
  IF Agree(doc.dest, doc.tag) THEN [doc EXCEPT !.dest = Classic(@), !.tag = Given(@, doc.dest.tag)]
  ELSE [doc EXCEPT !.dest = Classic(@)]
SignTx(c, d) ==
  /\ xrplTasks[c] = Idle /\ xrplDocs[d] # None /\ WalletUsable
  /\ xrplDocs[d].account = xrplWallet.of /\ OnNetwork(xrplDocs[d].dest, xrplChain)
  /\ xrplDocs' = [xrplDocs EXCEPT ![d] = Normalized(@)]
  /\ IF Agree(xrplDocs[d].dest, xrplDocs[d].tag)
     THEN /\ xrplPending' = c
          /\ xrplTasks' = [xrplTasks EXCEPT ![c] = [pc |-> "sign", tx |-> xrplDocs'[d]]]
     ELSE UNCHANGED <<xrplPending, xrplTasks>>
  /\ UNCHANGED <<xrplChain, xrplWallet, xrplSessions, xrplSigned>>
\* XAMAN_SIGNED and XAMAN_REJECTED.
XamanAnswers(signed) ==
  /\ XrplWaits("sign") /\ xrplSigned' = IF signed THEN xrplTasks[xrplPending].tx ELSE xrplSigned
  /\ xrplTasks' = [xrplTasks EXCEPT ![xrplPending] = Idle] /\ xrplPending' = None
  /\ UNCHANGED <<xrplChain, xrplWallet, xrplSessions, xrplDocs>>

XrplNext ==
  \/ XrplTimedOut \/ XrplDisconnect
  \/ \E signed \in BOOLEAN : XamanAnswers(signed)
  \/ \E chain \in XrplChains : SetNetwork(chain) \/ (\E c \in XrplCalls : XrplConnect(c, chain))
                               \/ (\E s \in XrplSessions : XrplSwitchChain(s, chain))
  \/ \E address \in Addresses(XrplAccounts), s \in XrplSessions : address.tag = None /\ XamanConnected(address, s)
  \/ \E d \in XrplDocs, dest \in Addresses(Payees), tag \in XrplTags \union {None} :
       \/ CreatePaymentTx(d, dest, tag)
       \/ \E account \in XrplAccounts : WriteTx(d, account, dest, tag)
  \/ \E c \in XrplCalls, d \in XrplDocs : SignTx(c, d)

(* -------------------------------------------------------------------- properties *)
XrplTypeOK ==
  /\ xrplChain \in XrplChains /\ xrplPending \in XrplCalls \union {None}
  /\ xrplPending # None => xrplTasks[xrplPending] # Idle

\* A signature that can still be answered is of the connected account: whatever
\* replaces or drops the wallet (another connect, its timeout, disconnect,
\* reconnect) also takes the slot of the transaction being signed.
PendingIsOfConnected ==
  XrplWaits("sign") => xrplWallet # None /\ xrplTasks[xrplPending].tx.account = xrplWallet.of

\* What is signed carries the tag of the address that was named, or else the tag
\* given beside it: "XRPL DestinationTag conflicts with the X-address tag."
\* (validateTransaction) refuses the rest.
TagKept ==
  xrplSigned # None =>
    xrplSigned.tag = Given(xrplSigned.named.dest.tag, xrplSigned.named.tag)
=====================================================================================
