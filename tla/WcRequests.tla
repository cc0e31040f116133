-------------------------------- MODULE WcRequests --------------------------------
(* Requests of WalletConnectConnector to a paired wallet (connector-walletconnect): *)
(* which chain and account each one names, what is asked again in another way when  *)
(* the wallet answers with an error, and the wallet's events, which rewrite the     *)
(* namespaces of the session the calls read. An account is <<chain, address>>.      *)
EXTENDS ConnectLib, SequencesExt

CONSTANTS EvmChains, SolanaChains, WcAddresses, FirstChains, FirstAccounts,
          WcCalls,         \* calls of the connector that run at a time
          MaxBatch, MaxEvents \* bounds: calls of a batch, events of the wallet

ASSUME WcBoundsAssumption == MaxBatch \in Nat \ {0} /\ MaxEvents \in Nat
ASSUME NamespacesAssumption ==
  /\ None \notin EvmChains \cup SolanaChains
  /\ \A n \in {"eip155", "solana"} :
       /\ FirstChains[n] \in Seq(EvmChains \cup SolanaChains)
       /\ FirstAccounts[n] \in Seq((EvmChains \cup SolanaChains) \X WcAddresses)

VARIABLES namespaces,  \* lastSession.namespaces: chains and accounts, as sequences
          wcTasks,     \* running calls
          wcLog,       \* history: the requests of each call and their answers
          wcEvents     \* number of events so far
wcVars == <<namespaces, wcTasks, wcLog, wcEvents>>

WcInit ==
  /\ namespaces = [n \in {"eip155", "solana"} |-> [chains |-> FirstChains[n], accounts |-> FirstAccounts[n]]]
  /\ wcTasks = [c \in WcCalls |-> Idle] /\ wcLog = [c \in WcCalls |-> <<>>] /\ wcEvents = 0

Namespace(chain) == IF chain \in SolanaChains THEN "solana" ELSE "eip155"
ChainsOf(n) == ToSet(namespaces[n].chains)
AccountsOf(n) == ToSet(namespaces[n].accounts)
DefaultChainId ==
  IF namespaces["eip155"].chains # <<>> THEN namespaces["eip155"].chains[1] ELSE namespaces["solana"].chains[1]
ResolvedChainId(chain) == IF chain = None THEN DefaultChainId ELSE chain

(* -------------------------------------------------------------- the accounts *)
\* assertSessionEvmAddress, assertSessionSolanaAddress: requested is the chain of
\* a CAIP-10 address, or None; expected is the chain of the request, or None.
SessionAddress(n, address, requested, expected) ==
  \E a \in AccountsOf(n) :
    a[2] = address /\ (requested # None => a[1] = requested) /\ (expected # None => a[1] = expected)
\* A mutant of AllowedFrom: any account of the session may send on any chain.
Bad_AllowedFrom(from, chain) == from = None \/ SessionAddress("eip155", from, None, None)
AllowedFrom(from, chain) == from = None \/ SessionAddress("eip155", from, None, chain)
\* sessionEvmAccountForChain: the first account of the chain.
FirstAccount(chain) ==
  LET accounts == namespaces["eip155"].accounts
      mine == {i \in DOMAIN accounts : accounts[i][1] = chain}
  IN IF mine = {} THEN None ELSE accounts[Min(mine)][2]

(* ---------------------------------------------------------------- makeRequest *)
\* One request of call c in state t; refused, it throws and the call has ended.
Ask(c, t, method, chain, from) ==
  IF chain \in ChainsOf(Namespace(chain))
  THEN /\ wcTasks' = [wcTasks EXCEPT ![c] = t]
       /\ wcLog' = [wcLog EXCEPT ![c] = Append(@, [method |-> method, chain |-> chain, from |-> from,
                                                   approved |-> t.approved, answer |-> None])]
  ELSE wcTasks' = [wcTasks EXCEPT ![c] = Idle] /\ UNCHANGED wcLog
Unused(c) == wcTasks[c] = Idle /\ wcLog[c] = <<>>
\* "terms" is what the caller asked for; "approved" is history: the accounts then.
Task(pc, terms) == [pc |-> pc, approved |-> AccountsOf("eip155"), terms |-> terms]
Same == UNCHANGED <<namespaces, wcEvents>>

SignMessage(c, json, address, requested, chain) ==
  /\ Unused(c) /\ Same
  /\ IF chain \in SolanaChains
     THEN /\ SessionAddress("solana", address, requested, chain)
          /\ Ask(c, Task("last", None), "solana_signMessage", chain, None)
     ELSE /\ SessionAddress("eip155", address, requested, chain)
          /\ IF json THEN Ask(c, Task("typed", [chain |-> chain]), "eth_signTypedData_v4", ResolvedChainId(chain), None)
             ELSE Ask(c, Task("last", None), "personal_sign", ResolvedChainId(chain), None)
\* signTypedData asks once, and not on Solana.
SignTypedData(c, address, requested, chain) ==
  /\ Unused(c) /\ Same /\ chain \notin SolanaChains /\ SessionAddress("eip155", address, requested, chain)
  /\ Ask(c, Task("last", None), "eth_signTypedData_v4", ResolvedChainId(chain), None)
\* normalizeEvmTransaction: a chain the transaction names is the requested one.
Normalizes(named, chain) == named \in {None, chain}
\* What signTransaction and sendTransaction have in common.
Transact(c, evm, solana, from, named, chain) ==
  /\ Unused(c) /\ Same
  /\ LET resolved == ResolvedChainId(chain)
     IN IF chain \in SolanaChains THEN Ask(c, Task("last", None), solana, resolved, None)
        ELSE /\ AllowedFrom(from, resolved) /\ FirstAccount(resolved) # None /\ Normalizes(named, resolved)
             /\ Ask(c, Task("last", None), evm, resolved,
                    IF from # None THEN from ELSE FirstAccount(resolved))
SignTransaction(c, from, named, chain) ==
  Transact(c, "eth_signTransaction", "solana_signTransaction", from, named, chain)
SendTransaction(c, from, named, chain) ==
  Transact(c, "eth_sendTransaction", "solana_signAndSendTransaction", from, named, chain)
AskOnce(c, method, chain) == Unused(c) /\ Same /\ Ask(c, Task("last", None), method, chain, None)
SendRawTransaction(c, chain) == chain \notin SolanaChains /\ AskOnce(c, "eth_sendRawTransaction", ResolvedChainId(chain))
WcSwitchChain(c, chain) == chain \in EvmChains /\ AskOnce(c, "wallet_switchEthereumChain", chain)
GetCapabilities(c) ==
  LET evm == namespaces["eip155"].chains
  IN evm # <<>> /\ FirstAccount(evm[1]) # None /\ AskOnce(c, "wallet_getCapabilities", evm[1])
StatusCall(c) == \E method \in {"wallet_showCallsStatus", "wallet_getCallsStatus"} : AskOnce(c, method, DefaultChainId)
Request(c) == AskOnce(c, "request", DefaultChainId)
WcSendCalls(c, items, atomic, chain) ==
  /\ Unused(c) /\ Same
  /\ LET resolved == ResolvedChainId(chain)
     IN /\ resolved \notin SolanaChains /\ FirstAccount(resolved) # None
        /\ Ask(c, Task("batch", [items |-> items, atomic |-> atomic, chain |-> resolved, from |-> FirstAccount(resolved)]),
               "wallet_sendCalls", resolved, FirstAccount(resolved))

(* ---------------------------------------------------------------- the answers *)
\* isUnsupportedSendCallsError; an id-less answer throws an error of our own.
\* A mutant of Unsupported: an answer without a bundle id counts as unsupported.
Bad_Unsupported(answer) == answer \in {"unsupported", "no id"}
Unsupported(answer) == answer = "unsupported"
\* The rejections signMessage takes for "this method is not available".
NotAuthorized(answer) == answer = "unauthorized"
Ended(c) == wcTasks' = [wcTasks EXCEPT ![c] = Idle]
LastOf(c) == Len(wcLog[c])
WithAnswer(c, answer) == [wcLog[c] EXCEPT ![LastOf(c)].answer = answer]
\* Once the wallet has answered, the call asks again or ends.
Then(c, answer, t, method, chain, from) ==
  IF chain \in ChainsOf(Namespace(chain))
  THEN /\ wcTasks' = [wcTasks EXCEPT ![c] = t]
       /\ wcLog' = [wcLog EXCEPT ![c] = Append(WithAnswer(c, answer), [method |-> method, chain |-> chain, from |-> from,
                                                                    approved |-> t.approved, answer |-> None])]
  ELSE Ended(c) /\ wcLog' = [wcLog EXCEPT ![c] = WithAnswer(c, answer)]
WalletReplies(c, answer) ==
  /\ wcTasks[c] # Idle /\ Same
  /\ answer = "no id" => wcTasks[c].pc = "batch"
  /\ LET t == wcTasks[c]
     IN IF \/ t.pc = "batch" /\ Unsupported(answer) /\ ~t.terms.atomic
           \/ t.pc = "one by one" /\ answer = "done" /\ LastOf(c) <= t.terms.items
        THEN Then(c, answer, [t EXCEPT !.pc = "one by one"], "eth_sendTransaction", t.terms.chain, t.terms.from)
        ELSE IF t.pc = "typed" /\ NotAuthorized(answer)
             THEN Then(c, answer, [t EXCEPT !.pc = "last"], "eth_signTypedData", ResolvedChainId(t.terms.chain), None)
             ELSE Ended(c) /\ wcLog' = [wcLog EXCEPT ![c] = WithAnswer(c, answer)]

(* --------------------------------------------------------- the wallet's events *)
WalletEvent == wcEvents < MaxEvents /\ wcEvents' = wcEvents + 1 /\ UNCHANGED <<wcTasks, wcLog>>
\* applyAccountsChanged: an address without a chain takes the one of the event.
WcAccountsChanged(chain, account) ==
  /\ WalletEvent
  /\ LET n == Namespace(chain)
         known == IF chain \in ChainsOf(n) THEN chain ELSE namespaces[n].chains[1]
     IN /\ namespaces[n].chains # <<>>
        /\ namespaces' = [namespaces EXCEPT ![n].accounts =
                            <<IF account[1] = None THEN <<known, account[2]>> ELSE account>>]
\* applyChainChanged: the chain comes first, every account is re-keyed to it.
WcChainChanged(chain) ==
  /\ WalletEvent
  /\ LET n == Namespace(chain)
     IN /\ namespaces[n].chains = <<>> \/ namespaces[n].chains[1] # chain
        /\ namespaces' = [namespaces EXCEPT
             ![n].chains = <<chain>> \o Excluding(@, chain),
             ![n].accounts = [i \in DOMAIN @ |-> <<chain, @[i][2]>>]]
SessionUpdate(n, accounts) == WalletEvent /\ namespaces' = [namespaces EXCEPT ![n].accounts = accounts]

WcNext ==
  \/ \E c \in WcCalls, address \in WcAddresses, chain \in EvmChains \union SolanaChains \union {None} :
       \/ \E requested \in {chain, None}, json \in BOOLEAN : SignMessage(c, json, address, requested, chain)
       \/ \E requested \in {chain, None} : SignTypedData(c, address, requested, chain)
       \/ \E from \in {address, None}, named \in EvmChains \union {None} :
            SignTransaction(c, from, named, chain) \/ SendTransaction(c, from, named, chain)
       \/ SendRawTransaction(c, chain) \/ WcSwitchChain(c, chain)
       \/ \E items \in 1..MaxBatch, atomic \in BOOLEAN : WcSendCalls(c, items, atomic, chain)
  \/ \E c \in WcCalls : GetCapabilities(c) \/ StatusCall(c) \/ Request(c)
  \/ \E c \in WcCalls, answer \in {"done", "no id", "rejected", "unauthorized", "unsupported"} : WalletReplies(c, answer)
  \/ \E chain \in EvmChains \union SolanaChains, address \in WcAddresses :
       \/ WcAccountsChanged(chain, <<None, address>>) \/ WcAccountsChanged(chain, <<chain, address>>) \/ WcChainChanged(chain)
       \/ SessionUpdate(Namespace(chain), <<<<chain, address>>>>)

(* ------------------------------------------------------------------ properties *)
WcTypeOK ==
  /\ \A n \in DOMAIN namespaces : /\ ChainsOf(n) \subseteq EvmChains \union SolanaChains
                                  /\ \A a \in AccountsOf(n) : a[2] \in WcAddresses
  /\ wcEvents \in 0..MaxEvents /\ \A c \in WcCalls : Len(wcLog[c]) <= MaxBatch + 1

Executed(c, i) == wcLog[c][i].answer \in {"done", "no id"}
\* What the wallet has done, or the user has refused, is not asked of it again
\* in another way: a batch is sent one by one only if the wallet did not take it
\* ("A user rejection or authorization error must never become transactions").
NotAskedAgain ==
  \A c \in WcCalls : \A i \in 1..Len(wcLog[c]) - 1 :
    /\ wcLog[c][i].answer # "rejected"
    /\ Executed(c, i) => wcLog[c][i].method = "eth_sendTransaction"

\* A transaction or batch names a sender that the session listed for the chain of
\* that very request when the call began, whatever the wallet's events rewrote
\* before ("Transaction from must match an account approved by the session").
SenderApprovedForChain ==
  \A c \in WcCalls : \A i \in 1..Len(wcLog[c]) :
    wcLog[c][i].from # None => <<wcLog[c][i].chain, wcLog[c][i].from>> \in wcLog[c][i].approved
===================================================================================
