------------------------------ MODULE InjectedWallet ------------------------------
(* The connector of injected wallets (connector-evm-injected): sessions made from   *)
(* what a provider answers, kept up to date by its accountsChanged and chainChanged *)
(* events, and the index of active sessions that routes requests. An account is     *)
(* <<chain, address>>; a provider reports one account at a time.                    *)
EXTENDS ConnectLib, SequencesExt

CONSTANTS InjWallets, Rdns, RdnsNames, InjChains, ListedChains, InjAddresses, FirstWallet,
          InjSessions,  \* sessions the connector makes
          InjCalls,     \* async calls that run at a time
          InjBatch, MaxWalletSteps \* bounds: calls of a batch, steps of the user in the wallet

ASSUME FirstWalletAssumption ==
  FirstWallet \in [InjWallets -> [chain : InjChains, account : InjAddresses \union {None},
                                  permitted : BOOLEAN, knows : SUBSET InjChains]]
InjSession == [wallet : InjWallets, chains : Seq(InjChains), account : InjChains \X InjAddresses]
ASSUME NoSessionAssumption == None \notin InjSession

VARIABLES discovered,   \* discoveredWallets, in the order of their announcements
          injWallet,    \* the wallets: chain, account or None, permission, chains they know
          injSessions,  \* session.namespaces.eip155 and walletId, or None
          activeSessions, \* the routing index, by wallet
          listening,    \* the sessions whose handlers a provider calls, in order
          storedHandlers, \* storedEventHandlers: the session whose handlers disconnect() removes
          permissionAnswers, \* what wallet_getPermissions answered a permissionsChanged handler
          strayed,      \* history: the sessions whose address was last not set to the wallet's
          injTasks, walletSteps \* running calls; history: requests of a batch; steps so far
injVars == <<discovered, injWallet, injSessions, activeSessions, listening, storedHandlers,
             permissionAnswers, strayed, injTasks, walletSteps>>
index == <<activeSessions, listening, storedHandlers>>

InjInit ==
  /\ discovered = <<>> /\ injWallet = FirstWallet /\ injSessions = [s \in InjSessions |-> None]
  /\ activeSessions = [w \in InjWallets |-> None] /\ listening = [w \in InjWallets |-> <<>>]
  /\ storedHandlers = [w \in InjWallets |-> None] /\ permissionAnswers = [w \in InjWallets |-> None]
  /\ strayed = {} /\ injTasks = [c \in InjCalls |-> Idle] /\ walletSteps = 0

InjAt(c, pc) == injTasks[c].pc = pc
Await(c, t) == injTasks' = [injTasks EXCEPT ![c] = t]
NewHandlers(w, s) ==
  /\ listening' = [listening EXCEPT ![w] = Append(@, s)] /\ storedHandlers' = [storedHandlers EXCEPT ![w] = s]
\* The stored handlers are the last ones attached; those of a connect() before them
\* are never removed.
Without(w) == IF storedHandlers[w] = None THEN listening ELSE [listening EXCEPT ![w] = Front(@)]
RemoveHandlers(w) == listening' = Without(w) /\ storedHandlers' = [storedHandlers EXCEPT ![w] = None]
\* A call that holds the record of the index loses it when the index does.
Detached(w, tasks) == [c \in InjCalls |-> IF tasks[c] # Idle /\ tasks[c].wallet = w
                                          THEN [tasks[c] EXCEPT !.record = FALSE] ELSE tasks[c]]
FindActive(s) ==
  /\ injSessions[s] # None /\ activeSessions[injSessions[s].wallet] # None
  /\ activeSessions[injSessions[s].wallet].account = injSessions[s].account
\* A call writes an address it read before it asked the wallet for something else.
Writes(w, s, address) ==
  strayed' = IF address = injWallet[w].account THEN strayed \ {s} ELSE strayed \union {s}

(* ------------------------------------------------------- discovery and connect *)
Announce(w) ==
  /\ w \notin ToSet(discovered) /\ discovered' = Append(discovered, w)
  /\ UNCHANGED <<injWallet, injSessions, index, permissionAnswers, strayed, injTasks, walletSteps>>
ByRdns(x) ==
  LET named == {i \in DOMAIN discovered : Rdns[discovered[i]] = x}
  IN IF named = {} THEN {} ELSE {discovered[Min(named)]}
\* Without an input the first wallet; a name that means two wallets means none.
Chosen(input) ==
  IF input = None THEN IF discovered = <<>> THEN {} ELSE {discovered[1]}
  ELSE LET found == (ToSet(discovered) \intersect {input}) \union ByRdns(input)
       IN IF Cardinality(found) = 1 THEN found ELSE {}
InjConnect(c, input) ==
  /\ InjAt(c, "idle") /\ \E w \in Chosen(input) : Await(c, [pc |-> "accounts", wallet |-> w, record |-> FALSE])
  /\ UNCHANGED <<discovered, injWallet, injSessions, index, permissionAnswers, strayed, walletSteps>>
ConnectAccounts(c) ==
  /\ InjAt(c, "accounts")
  /\ LET t == injTasks[c]
     IN IF injWallet[t.wallet].account = None THEN Await(c, Idle) /\ UNCHANGED injWallet
        ELSE /\ injWallet' = [injWallet EXCEPT ![t.wallet].permitted = TRUE]
             /\ Await(c, [pc |-> "chain", wallet |-> t.wallet, record |-> t.record,
                          address |-> injWallet[t.wallet].account])
  /\ UNCHANGED <<discovered, injSessions, index, permissionAnswers, strayed, walletSteps>>
\* "required" stands for the requested chain and the required scope.
ConnectChain(c, s, required) ==
  /\ InjAt(c, "chain") /\ injSessions[s] = None
  /\ LET t == injTasks[c]
         chain == injWallet[t.wallet].chain
         session == [wallet |-> t.wallet, chains |-> <<chain>>, account |-> <<chain, t.address>>]
     IN IF chain \notin required THEN Await(c, Idle) /\ UNCHANGED <<injSessions, index, strayed>>
        ELSE /\ injSessions' = [injSessions EXCEPT ![s] = session]
             /\ activeSessions' = [activeSessions EXCEPT ![t.wallet] = session] /\ NewHandlers(t.wallet, s)
             /\ Writes(t.wallet, s, t.address)
             /\ injTasks' = Detached(t.wallet, [injTasks EXCEPT ![c] = Idle])
  /\ UNCHANGED <<discovered, injWallet, permissionAnswers, walletSteps>>
InjReconnect(c, s) ==
  /\ InjAt(c, "idle") /\ injSessions[s] # None
  /\ LET w == injSessions[s].wallet
     IN /\ w \in ToSet(discovered) /\ injWallet[w].permitted /\ injWallet[w].account # None
        /\ Await(c, [pc |-> "rechain", wallet |-> w, record |-> FALSE, of |-> s, address |-> injWallet[w].account])
  /\ UNCHANGED <<discovered, injWallet, injSessions, index, permissionAnswers, strayed, walletSteps>>
ReconnectChain(c) ==
  /\ InjAt(c, "rechain")
  /\ LET t == injTasks[c]
         chain == injWallet[t.wallet].chain
         session == [wallet |-> t.wallet, chains |-> <<chain>>, account |-> <<chain, t.address>>]
     IN /\ injSessions' = [injSessions EXCEPT ![t.of] = session]
        /\ activeSessions' = [activeSessions EXCEPT ![t.wallet] = session]
        /\ listening' = [listening EXCEPT ![t.wallet] = Append(Without(t.wallet)[t.wallet], t.of)]
        /\ storedHandlers' = [storedHandlers EXCEPT ![t.wallet] = t.of] /\ Writes(t.wallet, t.of, t.address)
        /\ injTasks' = Detached(t.wallet, [injTasks EXCEPT ![c] = Idle])
  /\ UNCHANGED <<discovered, injWallet, permissionAnswers, walletSteps>>
\* disconnect(), and the handler of an accountsChanged without accounts.
Drops(s) ==
  LET w == injSessions[s].wallet
  IN IF FindActive(s)
     THEN /\ RemoveHandlers(w) /\ activeSessions' = [activeSessions EXCEPT ![w] = None]
          /\ injTasks' = Detached(w, injTasks)
     ELSE UNCHANGED <<index, injTasks>>
InjDisconnect(s) ==
  /\ injSessions[s] # None /\ Drops(s)
  /\ UNCHANGED <<discovered, injWallet, injSessions, permissionAnswers, strayed, walletSteps>>
Clear ==
  /\ discovered # <<>> /\ discovered' = <<>> /\ activeSessions' = [w \in InjWallets |-> None]
  /\ listening' = [w \in InjWallets |-> Without(w)[w]] /\ storedHandlers' = [w \in InjWallets |-> None]
  /\ injTasks' = [c \in InjCalls |-> IF injTasks[c] = Idle THEN Idle ELSE [injTasks[c] EXCEPT !.record = FALSE]]
  /\ UNCHANGED <<injWallet, injSessions, permissionAnswers, strayed, walletSteps>>

(* -------------------------------------------------------- the provider's events *)
UserActs == walletSteps < MaxWalletSteps /\ walletSteps' = walletSteps + 1
\* The handlers of a chainChanged: chains[0] is the new one, accounts follow.
OnChain(w, chain, sessions) ==
  [s \in InjSessions |-> IF s \in ToSet(listening[w])
                         THEN [sessions[s] EXCEPT !.chains = <<chain>>, !.account = <<chain, @[2]>>] ELSE sessions[s]]
\* The index takes what the last handler wrote to its own session.
OnIndex(w, sessions) ==
  IF activeSessions[w] = None \/ listening[w] = <<>> THEN activeSessions
  ELSE [activeSessions EXCEPT ![w].chains = sessions[Last(listening[w])].chains,
                              ![w].account = sessions[Last(listening[w])].account]
InjChainChanged(w, chain) ==
  /\ UserActs /\ chain # injWallet[w].chain /\ chain \in injWallet[w].knows
  /\ injWallet' = [injWallet EXCEPT ![w].chain = chain]
  /\ injSessions' = OnChain(w, chain, injSessions) /\ activeSessions' = OnIndex(w, injSessions')
  /\ UNCHANGED <<discovered, listening, storedHandlers, permissionAnswers, strayed, injTasks>>
InjAccountsChanged(w, address) ==
  /\ UserActs /\ address # injWallet[w].account /\ injWallet' = [injWallet EXCEPT ![w].account = address]
  /\ IF address # None /\ injWallet[w].permitted
     THEN /\ injSessions' = [s \in InjSessions |-> IF s \in ToSet(listening[w])
                               THEN [injSessions[s] EXCEPT !.account = <<injSessions[s].chains[1], address>>]
                               ELSE injSessions[s]]
          /\ activeSessions' = OnIndex(w, injSessions') /\ strayed' = strayed \ ToSet(listening[w])
          /\ UNCHANGED <<listening, storedHandlers, injTasks>>
     ELSE /\ UNCHANGED injSessions
          /\ strayed' = IF address = None THEN strayed ELSE strayed \union ToSet(listening[w])
          /\ IF address = None /\ \E s \in ToSet(listening[w]) : FindActive(s)
             THEN Drops(CHOOSE s \in ToSet(listening[w]) : FindActive(s))
             ELSE UNCHANGED <<index, injTasks>>
  /\ UNCHANGED <<discovered, permissionAnswers>>
\* permissionsChanged: the handler asks, and acts on the answer when it has it.
PermissionsChanged(w) ==
  /\ UserActs /\ injWallet[w].permitted /\ injWallet' = [injWallet EXCEPT ![w].permitted = FALSE]
  /\ permissionAnswers' = [permissionAnswers EXCEPT ![w] = FALSE]
  /\ UNCHANGED <<discovered, injSessions, index, strayed, injTasks>>
PermissionsAnswered(w) ==
  /\ permissionAnswers[w] # None /\ permissionAnswers' = [permissionAnswers EXCEPT ![w] = None]
  /\ activeSessions' = [activeSessions EXCEPT ![w] = None] /\ injTasks' = Detached(w, injTasks)
  /\ UNCHANGED <<discovered, injWallet, injSessions, listening, storedHandlers, strayed, walletSteps>>

(* ---------------------------------------------------------------- switchChain *)
InjSwitchChain(c, s, chain) ==
  /\ InjAt(c, "idle") /\ FindActive(s)
  /\ Await(c, [pc |-> "switch", wallet |-> injSessions[s].wallet, record |-> TRUE, of |-> s, chain |-> chain,
               address |-> injSessions[s].account[2], retried |-> FALSE])
  /\ UNCHANGED <<discovered, injWallet, injSessions, index, permissionAnswers, strayed, walletSteps>>
\* The accounts are those read before the request was made.
\* A mutant of Requalified: the accounts keep the chain they had.
Bad_Requalified(chain, t) == injSessions[t.of].account
Requalified(chain, t) == <<chain, t.address>>
WalletSwitches(c) ==
  /\ InjAt(c, "switch") /\ injTasks[c].chain \in injWallet[injTasks[c].wallet].knows
  /\ LET t == injTasks[c]
         w == t.wallet
         sessions == IF injWallet[w].chain = t.chain THEN injSessions ELSE OnChain(w, t.chain, injSessions)
         chains == <<t.chain>> \o Excluding(sessions[t.of].chains, t.chain)
     IN /\ injWallet' = [injWallet EXCEPT ![w].chain = t.chain] /\ Await(c, Idle)
        /\ injSessions' = [sessions EXCEPT ![t.of].chains = chains, ![t.of].account = Requalified(t.chain, t)]
        /\ Writes(w, t.of, t.address)
        /\ activeSessions' =
             IF t.record THEN [activeSessions EXCEPT ![w].chains = chains, ![w].account = Requalified(t.chain, t)]
             ELSE IF injWallet[w].chain = t.chain THEN activeSessions ELSE OnIndex(w, sessions)
  /\ UNCHANGED <<discovered, listening, storedHandlers, permissionAnswers, walletSteps>>
\* 4902: a chain the SDK has metadata for is added, and the switch asked again.
WalletLacksChain(c) ==
  /\ InjAt(c, "switch") /\ injTasks[c].chain \notin injWallet[injTasks[c].wallet].knows
  /\ IF injTasks[c].chain \in ListedChains /\ ~injTasks[c].retried
     THEN \/ /\ injWallet' = [injWallet EXCEPT ![injTasks[c].wallet].knows = @ \union {injTasks[c].chain}]
             /\ Await(c, [injTasks[c] EXCEPT !.retried = TRUE])
          \/ Await(c, Idle) /\ UNCHANGED injWallet
     ELSE Await(c, Idle) /\ UNCHANGED injWallet
  /\ UNCHANGED <<discovered, injSessions, index, permissionAnswers, strayed, walletSteps>>

(* ------------------------------------------------------------------- requests *)
SessionFrom(s, from) == from \in {None, injSessions[s].account[2]}
OnActiveChain(s, chain) == chain \in {None, injSessions[s].chains[1]}
\* signMessage, signTransaction and sendTransaction ask the provider once.
AsksOnce(s, from, chain) == FindActive(s) /\ SessionFrom(s, from) /\ OnActiveChain(s, chain) /\ UNCHANGED injVars
\* History of a batch: "log" is its requests, the last one not answered, and
\* "ran" the chains of the wallet when it executed them.
InjSendCalls(c, s, items, atomic, chain) ==
  /\ InjAt(c, "idle") /\ FindActive(s) /\ OnActiveChain(s, chain)
  /\ Await(c, [pc |-> "batch", wallet |-> injSessions[s].wallet, record |-> TRUE, items |-> items, atomic |-> atomic,
               chain |-> injSessions[s].chains[1], log |-> <<"asked">>, ran |-> {}])
  /\ UNCHANGED <<discovered, injWallet, injSessions, index, permissionAnswers, strayed, walletSteps>>
\* A mutant of MayFallBack: any error sends the calls one by one.
Bad_MayFallBack(t, answer) == answer \in {"no id", "rejected", "unsupported"} /\ ~t.atomic
MayFallBack(t, answer) == answer = "unsupported" /\ ~t.atomic
\* A batch of n calls is one request, or that one and n others.
BatchAnswered(c, answer) ==
  /\ injTasks[c].pc \in {"batch", "one by one"} /\ (answer = "no id" => InjAt(c, "batch"))
  /\ LET t == injTasks[c]
         log == [t.log EXCEPT ![Len(t.log)] = answer]
     IN IF \/ t.pc = "batch" /\ MayFallBack(t, answer)
           \/ t.pc = "one by one" /\ answer = "done" /\ Len(log) <= t.items
        THEN Await(c, [t EXCEPT !.pc = "one by one", !.log = Append(log, "asked"),
                               !.ran = IF answer = "done" THEN @ \union {injWallet[t.wallet].chain} ELSE @])
        ELSE Await(c, Idle)
  /\ UNCHANGED <<discovered, injWallet, injSessions, index, permissionAnswers, strayed, walletSteps>>

InjNext ==
  \/ Clear
  \/ \E w \in InjWallets : \/ Announce(w) \/ PermissionsChanged(w) \/ PermissionsAnswered(w)
                           \/ \E chain \in InjChains : InjChainChanged(w, chain)
                           \/ \E address \in InjAddresses \union {None} : InjAccountsChanged(w, address)
  \/ \E s \in InjSessions : InjDisconnect(s) \/ \E chain \in InjChains : AsksOnce(s, None, chain)
  \/ \E c \in InjCalls :
       \/ \E input \in InjWallets \union RdnsNames \union {None} : InjConnect(c, input)
       \/ ConnectAccounts(c) \/ ReconnectChain(c) \/ WalletSwitches(c) \/ WalletLacksChain(c)
       \/ \E s \in InjSessions : \/ \E required \in {InjChains} \union {{n} : n \in InjChains} : ConnectChain(c, s, required)
                                 \/ InjReconnect(c, s) \/ \E chain \in InjChains : InjSwitchChain(c, s, chain)
                                 \/ \E items \in 1..InjBatch, atomic \in BOOLEAN, chain \in InjChains : InjSendCalls(c, s, items, atomic, chain)
       \/ \E answer \in {"done", "no id", "rejected", "unsupported"} : BatchAnswered(c, answer)

(* ------------------------------------------------------------------ properties *)
InjTypeOK ==
  /\ \A s \in InjSessions : injSessions[s] # None => /\ injSessions[s].wallet \in InjWallets
                                                     /\ ToSet(injSessions[s].chains) \subseteq InjChains
  /\ \A w \in InjWallets : ToSet(listening[w]) \subseteq InjSessions /\ storedHandlers[w] \in InjSessions \union {None}

\* The account of a session, and of the record that routes its requests, is
\* qualified with the chain the session is on, whichever of the wallet's events,
\* a switch and a reconnect came last (switchChain: "Promoting the chain without
\* re-qualifying the accounts would leave the two out of step").
AccountsQualified ==
  /\ \A s \in InjSessions : injSessions[s] # None => injSessions[s].account[1] = injSessions[s].chains[1]
  /\ \A w \in InjWallets : activeSessions[w] # None => activeSessions[w].account[1] = activeSessions[w].chains[1]

\* A session whose handlers a wallet calls has the wallet's address, unless what set
\* it last was a connect, a reconnect or a switch that wrote an address read before
\* the account changed, or the account changed while the permission was withdrawn.
AddressFollowsWallet ==
  \A w \in InjWallets : \A s \in ToSet(listening[w]) \ strayed :
    injWallet[w].account # None => injSessions[s].account[2] = injWallet[w].account

\* Not so: a switch leaves a session the address it has, which an accountsChanged
\* may have set while the wallet was asked ("Keep both the public session and the
\* connector's routing index in sync so subsequent signing/transaction calls target
\* the wallet's new account"). switchChain writes back the accounts it read first.
SwitchKeepsAddress ==
  [][\A c \in InjCalls, s \in InjSessions :
       WalletSwitches(c) /\ injSessions[s] # None => injSessions'[s].account[2] = injSessions[s].account[2]]_injVars

\* The calls of a batch are sent one by one only if the wallet took none of them
\* and the user refused none (sendCalls: "Never turn a user rejection or wallet
\* error into real transactions").
BatchSentOnce ==
  \A c \in InjCalls : injTasks[c].pc \in {"batch", "one by one"} =>
    LET log == injTasks[c].log
    IN \A i \in 1..Len(log) - 1 : log[i] # "rejected" /\ (i = 1 => log[i] = "unsupported")

\* The wallet executes the calls of a batch on the chain the batch was sent for
\* (sendCalls: "wallet_sendCalls chainId must match the active injected-wallet
\* chain"); the transactions of the fallback name no chain.
CallsOnTheirChain ==
  \A c \in InjCalls : InjAt(c, "one by one") => injTasks[c].ran \subseteq {injTasks[c].chain}
===================================================================================
