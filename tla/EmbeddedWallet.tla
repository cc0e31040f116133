------------------------------- MODULE EmbeddedWallet -------------------------------
(* The embedded connector (connector-embedded): sessions over a PocketWallet it       *)
(* creates when needed and drops on disconnect. The wallet holds an account of each   *)
(* namespace and signs with the active one; accounts are derived, imported, wiped and *)
(* switched while sessions and requests are about.                                    *)
EXTENDS ConnectLib

CONSTANTS EmbSessions, EmbCalls, \* sessions made; async calls at a time
          EmbChains, EmbPhrases,
          MaxWallets \* bound: wallet objects created

VARIABLES embStored,  \* the record in storage, or None
          embWallet,  \* this.wallet: None, or its data, None while nothing is loaded
          embGen,     \* which wallet object it is
          embChain,   \* cfg.chainId
          embSessions, activeSession,
          embTasks, embSigned \* running calls; history: the last signature, [asked, by]
embVars == <<embStored, embWallet, embGen, embChain, embSessions, activeSession, embTasks, embSigned>>

Spaces == {"eip155", "solana"}
Account(ns, data) == [ns |-> ns, of |-> data.of]
\* The namespaces of a session; one made without accounts is there all the same.
EmbSession == [chain : EmbChains \union {None}, account : [ns : Spaces, of : EmbPhrases] \union {None}]
ASSUME EmbSessionAssumption == None \notin EmbSession /\ None \notin EmbSessions
Record(p, spaces) == [of |-> p, spaces |-> spaces, active |-> "eip155"]
\* A record of before several namespaces, or none.
EmbInit ==
  /\ embStored \in {None} \union {Record(p, {"eip155"}) : p \in EmbPhrases}
  /\ embWallet = None /\ embGen = 0 /\ embChain \in EmbChains
  /\ embSessions = [s \in EmbSessions |-> None] /\ activeSession = None
  /\ embTasks = [c \in EmbCalls |-> Idle] /\ embSigned = None

Loaded == embWallet # None /\ embWallet.data # None
\* w.address: the account of the active namespace.
ActiveAddress == IF Loaded THEN Account(embWallet.data.active, embWallet.data) ELSE None
EnsureWallet ==
  IF embWallet # None THEN UNCHANGED <<embWallet, embGen>>
  ELSE embGen < MaxWallets /\ embWallet' = [data |-> None] /\ embGen' = embGen + 1
EmbAt(c, pc) == embTasks[c].pc = pc
EmbAwait(c, t) == embTasks' = [embTasks EXCEPT ![c] = t]

(* ----------------------------------------------- connect, reconnect, disconnect *)
\* buildNamespaces(): the EVM account, whichever namespace is active.
BuildNamespaces(wallet) ==
  IF wallet = None \/ wallet.data = None THEN [chain |-> None, account |-> None]
  ELSE [chain |-> embChain, account |-> Account("eip155", wallet.data)]
EmbConnect(c, again) ==
  /\ EmbAt(c, "idle") /\ EnsureWallet
  /\ again # None => embSessions[again] # None
  /\ EmbAwait(c, [pc |-> "load", gen |-> embGen', again |-> again])
  /\ UNCHANGED <<embStored, embChain, embSessions, activeSession, embSigned>>
\* load(), or generate() with autoSave, on the object the call began with.
EmbConnected(c, s, fresh) ==
  /\ EmbAt(c, "load") /\ embTasks[c].again = None /\ embSessions[s] = None
  /\ LET record == IF embStored # None THEN embStored ELSE Record(fresh, Spaces)
         mine == embWallet # None /\ embTasks[c].gen = embGen
         wallet == IF mine THEN [data |-> record] ELSE embWallet
     IN /\ embStored' = record /\ embWallet' = wallet
        /\ embSessions' = [embSessions EXCEPT ![s] = BuildNamespaces(wallet)] /\ activeSession' = s
  /\ EmbAwait(c, Idle) /\ UNCHANGED <<embGen, embChain, embSigned>>
\* validateSessionAccount(): the session's account must be the wallet's address.
SessionMatches(s, address) == embSessions[s].chain = embChain /\ embSessions[s].account = address
EmbReconnected(c) ==
  /\ EmbAt(c, "load") /\ embTasks[c].again # None /\ EmbAwait(c, Idle)
  /\ LET s == embTasks[c].again
         mine == embWallet # None /\ embTasks[c].gen = embGen
     IN /\ embWallet' = IF mine /\ embStored # None THEN [data |-> embStored] ELSE embWallet
        /\ activeSession' =
             IF embStored # None /\ SessionMatches(s, Account(embStored.active, embStored)) THEN s ELSE activeSession
  /\ UNCHANGED <<embStored, embGen, embChain, embSessions, embSigned>>
EmbDisconnect ==
  /\ embWallet' = None /\ activeSession' = None
  /\ UNCHANGED <<embStored, embGen, embChain, embSessions, embTasks, embSigned>>

(* ---------------------------------------------------------- the wallet's accounts *)
ImportPhrase(p) ==
  /\ embWallet # None /\ embWallet' = [data |-> Record(p, Spaces)] /\ embStored' = Record(p, Spaces)
  /\ UNCHANGED <<embGen, embChain, embSessions, activeSession, embTasks, embSigned>>
\* setActiveNamespace(): of the accounts it holds; the listeners are told them all.
SetActiveNamespace(ns) ==
  /\ Loaded /\ ns \in embWallet.data.spaces /\ embWallet' = [data |-> [embWallet.data EXCEPT !.active = ns]]
  /\ UNCHANGED <<embStored, embGen, embChain, embSessions, activeSession, embTasks, embSigned>>
Backfill ==
  /\ Loaded /\ embWallet.data.spaces # Spaces
  /\ embWallet' = [data |-> [embWallet.data EXCEPT !.spaces = Spaces]] /\ embStored' = embWallet'.data
  /\ UNCHANGED <<embGen, embChain, embSessions, activeSession, embTasks, embSigned>>
EmbSave ==
  /\ Loaded /\ embStored' = embWallet.data
  /\ UNCHANGED <<embWallet, embGen, embChain, embSessions, activeSession, embTasks, embSigned>>
EmbWipe ==
  /\ Loaded /\ embStored' = None /\ embWallet' = [data |-> None]
  /\ UNCHANGED <<embGen, embChain, embSessions, activeSession, embTasks, embSigned>>

(* ----------------------------------------------------------- requests of a session *)
SwitchEmbeddedChain(s, chain) ==
  /\ activeSession = s /\ chain # embChain /\ embSessions[s].chain # None
  /\ EnsureWallet /\ embChain' = chain
  /\ embSessions' = [embSessions EXCEPT ![s] =
       [chain |-> chain, account |-> IF ActiveAddress # None THEN ActiveAddress ELSE @.account]]
  /\ UNCHANGED <<embStored, activeSession, embTasks, embSigned>>
\* signMessage, signTransaction and sendTransaction: the session is checked, the
\* wallet awaited; then the account the request names, if any, and the signature.
SignAsked(c, asked) ==
  /\ EmbAt(c, "idle") /\ activeSession # None /\ EnsureWallet
  /\ EmbAwait(c, [pc |-> "sign", of |-> activeSession, asked |-> asked])
  /\ UNCHANGED <<embStored, embChain, embSessions, activeSession, embSigned>>
\* A mutant of RequestAllowed: compared with the account the session was given.
Bad_RequestAllowed(t) == t.asked = None \/ t.asked = embSessions[t.of].account
RequestAllowed(t) == t.asked = None \/ t.asked = ActiveAddress
SignGiven(c) ==
  /\ EmbAt(c, "sign") /\ EmbAwait(c, Idle)
  /\ embSigned' = IF Loaded /\ RequestAllowed(embTasks[c])
                  THEN [asked |-> embTasks[c].asked, by |-> ActiveAddress] ELSE embSigned
  /\ UNCHANGED <<embStored, embWallet, embGen, embChain, embSessions, activeSession>>

EmbNext ==
  \/ EmbDisconnect \/ Backfill \/ EmbSave \/ EmbWipe
  \/ \E p \in EmbPhrases : ImportPhrase(p)
  \/ \E ns \in Spaces : SetActiveNamespace(ns)
  \/ \E s \in EmbSessions, chain \in EmbChains : SwitchEmbeddedChain(s, chain)
  \/ \E c \in EmbCalls :
       \/ EmbReconnected(c) \/ SignGiven(c)
       \/ \E again \in EmbSessions \union {None} : EmbConnect(c, again)
       \/ \E s \in EmbSessions, fresh \in EmbPhrases : EmbConnected(c, s, fresh)
       \/ \E asked \in [ns : Spaces, of : EmbPhrases] \union {None} : SignAsked(c, asked)

(* --------------------------------------------------------------------- properties *)
EmbTypeOK ==
  /\ embChain \in EmbChains /\ activeSession \in EmbSessions \union {None}
  /\ activeSession # None => embSessions[activeSession] # None
  /\ Loaded => embWallet.data.active \in embWallet.data.spaces

\* A request that names an account is signed by that account or refused, whatever
\* was imported or switched since the session was made ("must be told, not quietly
\* served a signature from a different curve", signMessage).
SignedAsRequested == embSigned # None => embSigned.asked \in {None, embSigned.by}

\* The EVM namespace of a session names an EVM account: never "a base58 Solana
\* address as an EIP-155 account whenever Solana was active" (buildNamespaces).
EvmAccountIsEvm ==
  \A s \in EmbSessions : embSessions[s] # None /\ embSessions[s].account # None => embSessions[s].account.ns = "eip155"
=====================================================================================
