---------------------------- MODULE WalletsProofs ----------------------------
(* Proofs about the connectors and the sign-in with a wallet, for any number  *)
(* of sessions, calls, wallets, chains and accounts, and any steps of the     *)
(* user in a wallet.                                                          *)
EXTENDS MCWallets, SumLemmas, TLAPS

-----------------------------------------------------------------------------
(* The inductive invariants of the parts. *)

\* A cancelled attempt is superseded for good, since generations only grow, and a
\* watcher runs only when the wallet has answered.
PairInv ==
  /\ PairTypeOK
  /\ pairingGeneration \in Nat /\ generationOf \in [Proposals -> Nat \cup {None}]
  /\ completing \in [WcCompleters -> {Idle} \cup [pc : {"completing", "connecting"}, of : Proposals]]
  /\ \A p \in Proposals : generationOf[p] # None => generationOf[p] <= pairingGeneration
  /\ \A p \in Proposals : atWallet[p] = "none" => p \notin abandoned
  /\ \A p \in watched : WalletAnswered(p)
  /\ \A p \in abandoned : generationOf[p] # None /\ generationOf[p] < pairingGeneration
  /\ DeclinedIsTornDown

\* What a call has asked: a sender was approved for the chain, and only the calls
\* of a batch sent one by one are asked after what the wallet did.
IsRequest(r) ==
  /\ r = [method |-> r.method, chain |-> r.chain, from |-> r.from, approved |-> r.approved, answer |-> r.answer]
  /\ r.from # None => <<r.chain, r.from>> \in r.approved
MayFollow(r) == r.answer # "rejected" /\ (r.answer \in {"done", "no id"} => r.method = "eth_sendTransaction")
LogInv(log) ==
  /\ log \in Seq(ToSet(log))
  /\ \A i \in 1 .. Len(log) : IsRequest(log[i])
  /\ \A i \in 1 .. Len(log) - 1 : MayFollow(log[i])
\* How many requests a call has made; a batch of n calls makes n + 1 at most.
AsksFirst(t) == t.pc \in {"typed", "batch"}
OfBatch(t) == t.pc \in {"batch", "one by one"}
GoingOn(t) == t.pc = "one by one"
AskedSoFar(t, n) ==
  /\ AsksFirst(t) => n = 1
  /\ OfBatch(t) => t.terms.items \in 1 .. MaxBatch
  /\ GoingOn(t) => n <= t.terms.items + 1
\* A call that awaits an answer, and what it may ask next.
OpenRequest(t, log) ==
  /\ t = [pc |-> t.pc, approved |-> t.approved, terms |-> t.terms]
  /\ t.pc \in {"last", "typed", "batch", "one by one"} /\ Len(log) > 0
  /\ t.pc \in {"batch", "one by one"} => <<t.terms.chain, t.terms.from>> \in t.approved
  /\ t.pc = "one by one" => log[Len(log)].method = "eth_sendTransaction"
  /\ AskedSoFar(t, Len(log))
Namespaces(ns) ==
  /\ DOMAIN ns = {"eip155", "solana"}
  /\ \A n \in {"eip155", "solana"} :
       /\ ns[n] = [chains |-> ns[n].chains, accounts |-> ns[n].accounts]
       /\ ns[n].chains \in Seq(EvmChains \cup SolanaChains)
       /\ DOMAIN ns[n].accounts \subseteq Nat
       /\ \A i \in DOMAIN ns[n].accounts : ns[n].accounts[i] \in (EvmChains \cup SolanaChains) \X WcAddresses
WcInv ==
  /\ Namespaces(namespaces)
  /\ DOMAIN wcTasks = WcCalls /\ DOMAIN wcLog = WcCalls
  /\ \A c \in WcCalls : LogInv(wcLog[c]) /\ (wcTasks[c] # Idle => OpenRequest(wcTasks[c], wcLog[c]))
  /\ \A c \in WcCalls : Len(wcLog[c]) <= MaxBatch + 1

\* A session of an injected wallet, whose account is on the chain it is on.
IsInjSession(x) ==
  /\ DOMAIN x = {"wallet", "chains", "account"}
  /\ x.wallet \in InjWallets /\ x.chains \in Seq(InjChains) /\ x.account[1] = x.chains[1]
\* What a batch has asked for: the last request is not answered.
BatchAnswers == {"asked", "done", "no id", "rejected", "unsupported"}
BatchLog(t) ==
  /\ t.log \in Seq(BatchAnswers)
  /\ t.pc = "batch" => Len(t.log) = 1
  /\ t.pc = "one by one" =>
       /\ Len(t.log) > 1 /\ t.log[1] = "unsupported"
       /\ \A i \in 2 .. Len(t.log) - 1 : t.log[i] = "done"
\* A call that runs keeps the sessions it was made for.
Busy(t, sessions, active) ==
  /\ {"pc", "wallet", "record"} \subseteq DOMAIN t
  /\ t.wallet \in InjWallets /\ t.record \in BOOLEAN
  /\ t.pc \in {"accounts", "chain", "rechain", "switch", "batch", "one by one"}
  /\ t.pc \in {"switch", "rechain"} =>
       {"of", "address"} \subseteq DOMAIN t /\ t.of \in InjSessions /\ IsInjSession(sessions[t.of])
  /\ t.pc = "switch" => {"chain", "retried"} \subseteq DOMAIN t /\ t.chain \in InjChains
  /\ t.pc = "switch" /\ t.record => IsInjSession(active[t.wallet])
  /\ t.pc \in {"batch", "one by one"} =>
       {"log", "items", "atomic", "ran", "chain"} \subseteq DOMAIN t /\ BatchLog(t)
InjInv ==
  /\ discovered \in Seq(InjWallets) /\ DOMAIN injTasks = InjCalls
  /\ DOMAIN injSessions = InjSessions /\ DOMAIN activeSessions = InjWallets
  /\ \A s \in InjSessions : injSessions[s] = None \/ IsInjSession(injSessions[s])
  /\ \A w \in InjWallets : activeSessions[w] = None \/ IsInjSession(activeSessions[w])
  /\ listening \in [InjWallets -> Seq(InjSessions)]
  /\ \A w \in InjWallets : \A i \in DOMAIN listening[w] : IsInjSession(injSessions[listening[w][i]])
  /\ \A c \in InjCalls : injTasks[c] = Idle \/ Busy(injTasks[c], injSessions, activeSessions)
\* The wallets, and the handlers that disconnect() removes.
InjWalletTypes ==
  /\ injWallet \in [InjWallets -> [chain : InjChains, account : InjAddresses \union {None},
                                  permitted : BOOLEAN, knows : SUBSET InjChains]]
  /\ storedHandlers \in [InjWallets -> InjSessions \cup {None}]

CbTerms == [chain : CbChains, account : CbAddresses]
CbBatchTask ==
  [pc : {"batch", "one by one", "sent"}, of : CbSessions, terms : CbTerms, items : Nat,
   atomic : BOOLEAN, left : Nat, asked : SUBSET CbTerms, ran : SUBSET CbTerms]
CbTask ==
  {Idle} \cup [pc : {"accounts", "signing"}] \cup [pc : {"chain"}, account : CbAddresses]
    \cup [pc : {"switch"}, of : CbSessions, chain : CbChains] \cup CbBatchTask
CbInv ==
  /\ coinbase \in [chain : CbChains, account : CbAddresses \cup {None}, supports : SUBSET CbChains]
  /\ cbSessions \in [CbSessions -> CbTerms \cup {None}]
  /\ adapter \in BOOLEAN /\ lastCoinbase \in CbSessions \cup {None}
  /\ lastCoinbase # None => cbSessions[lastCoinbase] \in CbTerms
  /\ cbTasks \in [CbCalls -> CbTask]
  /\ \A c \in CbCalls :
       CbAt(c, "switch") \/ c \in Batches => cbSessions[cbTasks[c].of] \in CbTerms
  /\ MovedSessionStopsBatch

\* A call that signed a message may still write it, and is the only one to; n is the
\* number of messages signed.
Signers == {"signing", "stored", "undoing", "publishing"}
WrittenTo(stored) == IF stored = None THEN {} ELSE {stored.signature}
SignedBy(s, n) == s = None \/ s.signature \in 1 .. n
SiwxCallInv(t, n, overtaken, stored) ==
  /\ t.pc \in Signers \cup {"idle", "reading", "clearing"}
  /\ t.pc \in {"signing", "stored", "publishing"} => t = [pc |-> t.pc, gen |-> t.gen, s |-> t.s]
  /\ t.pc \in Signers => t.s.signature \in (1 .. n) \ overtaken
  /\ t.pc = "signing" => t.s.signature \notin WrittenTo(stored)
  /\ t.pc = "undoing" /\ t.s.signature \in WrittenTo(stored) =>
       t.found # None /\ t.found.signature = t.s.signature
  /\ t.pc = "reading" => t.gen \in 0 .. MaxGeneration - 1 /\ SignedBy(t.found, n)
Apart(t, u) == t.pc \in Signers /\ u.pc \in Signers => t.s.signature # u.s.signature
SiwxInv ==
  /\ signedMsgs \in Seq([born : 0 .. 1]) /\ siwxNow \in 0 .. 1 /\ generation \in 0 .. MaxGeneration
  /\ DOMAIN siwxCalls = SiwxCalls /\ siwxOvertaken \subseteq 1 .. Len(signedMsgs)
  /\ SignedBy(session, Len(signedMsgs)) /\ SignedBy(timer, Len(signedMsgs))
  /\ SignedBy(siwxStored, Len(signedMsgs))
  /\ \A c \in SiwxCalls : SiwxCallInv(siwxCalls[c], Len(signedMsgs), siwxOvertaken, siwxStored)
  /\ \A c \in SiwxCalls : \A e \in SiwxCalls \ {c} : Apart(siwxCalls[c], siwxCalls[e])
  /\ WrittenTo(siwxStored) \cap siwxOvertaken = {}

\* The nonces of the messages that were accepted are used up, and stay so.
NoncesInv ==
  /\ nonces = [issued |-> nonces.issued, consumed |-> nonces.consumed, removed |-> nonces.removed]
  /\ nonces.consumed \subseteq nonces.issued /\ nonces.issued \cap nonces.removed = {}
  /\ accepted \in Seq(nonces.consumed \cup nonces.removed)
  /\ NonceAcceptedOnce

\* The active session is of the wallet whose handler was attached last.
IsSolSession(s) == s = [chain |-> s.chain, accounts |-> s.accounts]
SolActiveInv(active, attached, handlers, sessions, keys) ==
  /\ active = [wallet |-> active.wallet, object |-> active.object, key |-> active.key, of |-> active.of,
               missed |-> active.missed]
  /\ active.wallet \in SolWallets /\ active.of \in SolSessions /\ active.missed \in BOOLEAN
  /\ attached = <<active.wallet, active.object>> /\ attached \in handlers
  /\ IsSolSession(sessions[active.of]) /\ sessions[active.of].accounts.key = active.key
  /\ ~active.missed => active.key = keys[active.wallet]
SolTaskInv(t, keys) ==
  /\ t.pc \in {"connect", "genesis"} => t.wallet \in SolWallets
  /\ t.pc = "genesis" =>
       /\ t = [pc |-> t.pc, wallet |-> t.wallet, object |-> t.object, key |-> t.key, missed |-> t.missed]
       /\ t.missed \in BOOLEAN
       /\ ~t.missed => t.key = keys[t.wallet]
SolInv ==
  /\ DOMAIN solSessions = SolSessions /\ DOMAIN solTasks = SolCalls /\ DOMAIN solKey = SolWallets
  /\ \A s \in SolSessions : solSessions[s] # None => IsSolSession(solSessions[s])
  /\ solActive # None => SolActiveInv(solActive, solAttached, solHandlers, solSessions, solKey)
  /\ \A c \in SolCalls : SolTaskInv(solTasks[c], solKey)

\* A wallet's record holds the account it is on, and a session that is active, or that
\* a call renews, was made.
IsEmbData(d) == d \in [of : EmbPhrases, spaces : SUBSET Spaces, active : Spaces] /\ d.active \in d.spaces
EmbDataTypes ==
  /\ embStored # None => IsEmbData(embStored)
  /\ embWallet # None => DOMAIN embWallet = {"data"} /\ (embWallet.data # None => IsEmbData(embWallet.data))
EmbSessionTypes ==
  /\ embChain \in EmbChains /\ embSessions \in [EmbSessions -> EmbSession \cup {None}]
  /\ activeSession # None => activeSession \in EmbSessions /\ embSessions[activeSession] \in EmbSession
  /\ DOMAIN embTasks = EmbCalls
  /\ \A c \in EmbCalls : EmbAt(c, "load") /\ embTasks[c].again # None =>
       embTasks[c].again \in EmbSessions /\ embSessions[embTasks[c].again] \in EmbSession

\* The wallets and their accounts; what is attached is among the handlers.
SolTypes ==
  /\ solDiscovered \in [SolWallets -> 0 .. MaxSolObjects] /\ solObjects \in 0 .. MaxSolObjects
  /\ solSteps \in 0 .. MaxSolSteps /\ solKey \in [SolWallets -> SolKeys \cup {None}]
  /\ solSessions \in [SolSessions -> SolSession \cup {None}]
  /\ solActive # None => solActive.of \in SolSessions /\ solSessions[solActive.of] \in SolSession
  /\ solAttached # None => solAttached \in solHandlers
  /\ \A c \in SolCalls : SolAt(c, "genesis") => solTasks[c].key \in SolKeys

IsXrplDoc(doc) == doc = [account |-> doc.account, dest |-> doc.dest, tag |-> doc.tag, named |-> doc.named]
XrplInv ==
  /\ XrplTypeOK /\ DOMAIN xrplTasks = XrplCalls /\ DOMAIN xrplDocs = XrplDocs
  /\ \A d \in XrplDocs : xrplDocs[d] # None => IsXrplDoc(xrplDocs[d])
  /\ PendingIsOfConnected

-----------------------------------------------------------------------------
LEMMA IdleIs == Idle.pc = "idle"
  BY DEF Idle

\* What a filter keeps of a list is a list of the same elements.
KeepStep(list, member, f, i) ==
  IF i = 0 THEN <<>> ELSE IF list[i] = member THEN f[i - 1] ELSE Append(f[i - 1], list[i])
KeptUpTo(list, member, n, f) == f = [i \in 0 .. n |-> KeepStep(list, member, f, i)]
Kept(list, member) == CHOOSE f : KeptUpTo(list, member, Len(list), f)

LEMMA KeptIs ==
  ASSUME NEW list, NEW member
  PROVE  Excluding(list, member) = Kept(list, member)[Len(list)]
  BY DEF Excluding, Kept, KeptUpTo, KeepStep

LEMMA KeptExists ==
  ASSUME NEW list, Len(list) \in Nat, NEW member
  PROVE  KeptUpTo(list, member, Len(list), Kept(list, member))
<1> DEFINE P == {n \in Nat : \E f : KeptUpTo(list, member, n, f)}
<1>1. 0 \in P
  <2> DEFINE f == [i \in 0 .. 0 |-> <<>>]
  <2>1. KeptUpTo(list, member, 0, f)
    BY DEF KeptUpTo, KeepStep
  <2> QED
    BY <2>1
<1>2. ASSUME NEW n \in Nat, n \in P PROVE n + 1 \in P
  <2>1. PICK f : KeptUpTo(list, member, n, f)
    BY <1>2
  <2> DEFINE x == KeepStep(list, member, f, n + 1)
             g == [i \in 0 .. (n + 1) |-> IF i = n + 1 THEN x ELSE f[i]]
  <2>2. ASSUME NEW i \in 0 .. n PROVE g[i] = KeepStep(list, member, g, i)
    <3>1. g[i] = KeepStep(list, member, f, i)
      BY <2>1 DEF KeptUpTo
    <3>2. i # 0 => g[i - 1] = f[i - 1]
      OBVIOUS
    <3> QED
      BY <3>1, <3>2 DEF KeepStep
  <2>3. g[n + 1] = KeepStep(list, member, g, n + 1)
    <3>1. g[n] = f[n] /\ (n + 1) - 1 = n /\ n + 1 # 0
      OBVIOUS
    <3> QED
      BY <3>1 DEF KeepStep
  <2> HIDE DEF x
  <2>4. \A i \in 0 .. (n + 1) : g[i] = KeepStep(list, member, g, i)
    BY <2>2, <2>3
  <2>5. KeptUpTo(list, member, n + 1, g)
    BY <2>4 DEF KeptUpTo
  <2> QED
    BY <2>5
<1>3. Len(list) \in P
  <2> HIDE DEF P
  <2> QED
    BY <1>1, <1>2, NatSteps
<1> QED
  BY <1>3 DEF Kept

LEMMA ExcludingIs ==
  ASSUME NEW S, NEW list \in Seq(S), NEW member
  PROVE  Excluding(list, member) \in Seq(S)
<1> DEFINE f == Kept(list, member)
           n == Len(list)
           P == {i \in Nat : i <= n => f[i] \in Seq(S)}
<1>1. n \in Nat /\ n = Len(list) /\ KeptUpTo(list, member, n, f)
  BY KeptExists
<1> HIDE DEF f, n
<1>2. \A i \in 0 .. n : f[i] = KeepStep(list, member, f, i)
  BY <1>1 DEF KeptUpTo
<1>3. 0 \in P
  <2>1. 0 \in 0 .. n
    BY <1>1
  <2>2. f[0] = KeepStep(list, member, f, 0)
    BY <1>2, <2>1, Zenon
  <2>3. f[0] = <<>>
    BY <2>2, Zenon DEF KeepStep
  <2>4. f[0] \in Seq(S)
    BY <2>3
  <2> QED
    BY <2>4
<1>4. ASSUME NEW i \in Nat, i \in P PROVE i + 1 \in P
  <2>1. SUFFICES ASSUME i + 1 <= n PROVE f[i + 1] \in Seq(S)
    OBVIOUS
  <2>2. i <= n /\ i + 1 \in 1 .. n /\ i + 1 \in 0 .. n /\ i + 1 # 0 /\ (i + 1) - 1 = i
    BY <1>1, <2>1
  <2>3. f[i] \in Seq(S)
    BY <1>4, <2>2
  <2>4. list[i + 1] \in S
    BY <1>1, <2>2
  <2>5. f[i + 1] = f[i] \/ f[i + 1] = Append(f[i], list[i + 1])
    BY <1>2, <2>2 DEF KeepStep
  <2>6. Append(f[i], list[i + 1]) \in Seq(S)
    BY <2>3, <2>4
  <2> QED
    BY <2>3, <2>5, <2>6
<1>5. n \in P
  <2> HIDE DEF P
  <2> QED
    BY <1>1, <1>3, <1>4, NatSteps
<1> QED
  BY <1>1, <1>5, KeptIs DEF f

-----------------------------------------------------------------------------
(* WcPairing *)

\* Nothing is paired at first.
LEMMA PairStarts == PairInit => PairInv
  BY DEF PairInit, PairInv, PairTypeOK, DeclinedIsTornDown, WalletAnswered

\* Attempts only get older, and what the wallet made of them is torn down.
LEMMA PairStep == ASSUME PairInv, [PairNext]_wcpVars PROVE PairInv'
<1> USE GenerationsAssumption DEF PairInv, PairTypeOK, DeclinedIsTornDown, WalletAnswered
<1>1. CASE CancelPairing
  BY <1>1 DEF CancelPairing
<1>2. ASSUME NEW p \in Proposals, WalletAnswers(p) PROVE PairInv'
  BY <1>2 DEF WalletAnswers
<1>3. ASSUME NEW p \in Proposals, WalletDeletes(p) PROVE PairInv'
  BY <1>3 DEF WalletDeletes, EndsAtWallet
<1>4. ASSUME NEW p \in Proposals, StartPairing(p) PROVE PairInv'
  BY <1>4 DEF StartPairing, Propose
<1>5. ASSUME NEW p \in Proposals, Watcher(p) PROVE PairInv'
  BY <1>5 DEF Watcher, EndsAtWallet, Superseded
<1>6. ASSUME NEW p \in Proposals, PairReconnect(p) PROVE PairInv'
  BY <1>6 DEF PairReconnect
<1>7. ASSUME NEW p \in Proposals, DisconnectPaired(p) PROVE PairInv'
  BY <1>7 DEF DisconnectPaired, EndsAtWallet
<1>8. ASSUME NEW c \in WcCompleters, CompletePairing(c) PROVE PairInv'
  BY <1>8 DEF CompletePairing
<1>9. ASSUME NEW c \in WcCompleters, Completes(c) PROVE PairInv'
  BY <1>9 DEF Completes, Idle
<1>10. ASSUME NEW c \in WcCompleters, NEW p \in Proposals, PairConnect(c, p) PROVE PairInv'
  BY <1>10 DEF PairConnect, Propose
<1>11. CASE UNCHANGED wcpVars
  BY <1>11 DEF wcpVars
<1> QED
  BY <1>1, <1>2, <1>3, <1>4, <1>5, <1>6, <1>7, <1>8, <1>9, <1>10, <1>11 DEF PairNext

-----------------------------------------------------------------------------
(* WcRequests *)

LEMMA LeastIndex ==
  ASSUME NEW T, T \subseteq Nat, T # {}
  PROVE  Min(T) \in T
  BY LeastNat DEF Min

\* The account a request names by default is one of the chain.
LEMMA FirstAccountIs ==
  ASSUME WcInv, NEW chain, FirstAccount(chain) # None
  PROVE  <<chain, FirstAccount(chain)>> \in AccountsOf("eip155")
<1> DEFINE accounts == namespaces["eip155"].accounts
           mine == {i \in DOMAIN accounts : accounts[i][1] = chain}
<1>1. mine # {} /\ FirstAccount(chain) = accounts[Min(mine)][2]
  BY DEF FirstAccount
<1>2. Min(mine) \in mine
  BY <1>1, LeastIndex DEF WcInv, Namespaces
<1>4. accounts[Min(mine)] \in (EvmChains \cup SolanaChains) \X WcAddresses
  BY <1>2 DEF WcInv, Namespaces
<1>5. accounts[Min(mine)][1] = chain /\ accounts[Min(mine)][2] = FirstAccount(chain)
  BY <1>1, <1>2
<1> HIDE DEF accounts, mine
<1>3. accounts[Min(mine)] = <<chain, FirstAccount(chain)>>
  BY <1>4, <1>5
<1> USE DEF accounts, mine
<1> QED
  BY <1>2, <1>3 DEF AccountsOf, ToSet

\* A sender that is allowed is an account of the chain the request is for.
LEMMA AllowedFromIs ==
  ASSUME WcInv, NEW from, NEW chain, AllowedFrom(from, chain), from # None, FirstAccount(chain) # None
  PROVE  <<chain, from>> \in AccountsOf("eip155")
<1>1. PICK b \in AccountsOf("eip155") : b = <<chain, FirstAccount(chain)>>
  BY FirstAccountIs
<1>2. chain # None
  BY <1>1, NamespacesAssumption DEF AccountsOf, ToSet, WcInv, Namespaces
<1>3. PICK a \in AccountsOf("eip155") : a[2] = from /\ a[1] = chain
  BY <1>2 DEF AllowedFrom, SessionAddress
<1>4. a \in (EvmChains \cup SolanaChains) \X WcAddresses
  BY <1>3 DEF AccountsOf, ToSet, WcInv, Namespaces
<1> QED
  BY <1>3, <1>4

LEMMA WcStarts == WcInit => WcInv
<1> SUFFICES ASSUME WcInit PROVE WcInv
  OBVIOUS
<1>1. \A n \in {"eip155", "solana"} :
        /\ namespaces[n] = [chains |-> namespaces[n].chains, accounts |-> namespaces[n].accounts]
        /\ namespaces[n].chains \in Seq(EvmChains \cup SolanaChains)
        /\ namespaces[n].accounts \in Seq((EvmChains \cup SolanaChains) \X WcAddresses)
  BY NamespacesAssumption DEF WcInit
<1>2. \A n \in {"eip155", "solana"} :
        /\ DOMAIN namespaces[n].accounts \subseteq Nat
        /\ \A i \in DOMAIN namespaces[n].accounts :
             namespaces[n].accounts[i] \in (EvmChains \cup SolanaChains) \X WcAddresses
  BY <1>1
<1>3. Namespaces(namespaces)
  BY <1>1, <1>2 DEF WcInit, Namespaces
<1>4. LogInv(<<>>)
  BY DEF LogInv, ToSet
<1>5. Len(<<>>) <= MaxBatch + 1
  BY WcBoundsAssumption
<1> QED
  BY <1>3, <1>4, <1>5 DEF WcInit, WcInv

LEMMA AppendIs ==
  ASSUME NEW log, log \in Seq(ToSet(log)), NEW r
  PROVE  LET longer == Append(log, r)
         IN  /\ longer \in Seq(ToSet(longer)) /\ Len(longer) = Len(log) + 1
             /\ longer[Len(log) + 1] = r
             /\ \A i \in 1 .. Len(log) : longer[i] = log[i]
<1> DEFINE S == ToSet(log) \cup {r}
           longer == Append(log, r)
<1>1. log \in Seq(S)
  BY DEF ToSet
<1> HIDE DEF S
<1>2. r \in S
  BY DEF S
<1>3. longer \in Seq(S) /\ Len(longer) = Len(log) + 1 /\ longer[Len(log) + 1] = r
      /\ \A i \in 1 .. Len(log) : longer[i] = log[i]
  BY <1>1, <1>2
<1>4. longer \in Seq(ToSet(longer))
  BY <1>3 DEF ToSet
<1> QED
  BY <1>3, <1>4

\* The last request is answered.
Answered(log, answer) == [log EXCEPT ![Len(log)].answer = answer]

LEMMA AnsweredIs ==
  ASSUME NEW log, LogInv(log), Len(log) > 0, NEW answer
  PROVE  LET longer == Answered(log, answer)
         IN  /\ LogInv(longer) /\ Len(longer) = Len(log)
             /\ longer[Len(log)].method = log[Len(log)].method
             /\ longer[Len(log)].answer = answer
<1> DEFINE longer == Answered(log, answer)
           n == Len(log)
           S == ToSet(log)
<1>0. log \in Seq(S)
  BY DEF LogInv
<1> HIDE DEF S
<1>1. n \in Nat /\ n \in 1 .. n /\ log = [i \in 1 .. n |-> log[i]]
  BY <1>0
<1>2. longer = [i \in 1 .. n |-> IF i = n THEN [log[n] EXCEPT !.answer = answer] ELSE log[i]]
  BY <1>1 DEF Answered
<1>3. longer[n] = [method |-> log[n].method, chain |-> log[n].chain, from |-> log[n].from,
                   approved |-> log[n].approved, answer |-> answer]
  BY <1>1, <1>2 DEF LogInv, IsRequest
<1>4. longer \in Seq(ToSet(longer)) /\ Len(longer) = n
  BY <1>1, <1>2 DEF ToSet
<1>5. \A i \in 1 .. n - 1 : longer[i] = log[i]
  BY <1>1, <1>2
<1>6. \A i \in 1 .. n : i = n \/ i \in 1 .. n - 1
  BY <1>1
<1>7. longer[n].approved = log[n].approved /\ longer[n].from = log[n].from /\ longer[n].chain = log[n].chain
      /\ longer[n].method = log[n].method /\ longer[n].answer = answer
  <2> HIDE DEF longer
  <2> QED
    BY <1>3
<1>8. IsRequest(longer[n])
  BY <1>1, <1>3, <1>7 DEF LogInv, IsRequest
<1> HIDE DEF longer
<1>9. LogInv(longer)
  BY <1>1, <1>4, <1>5, <1>6, <1>8 DEF LogInv
<1> USE DEF longer
<1> QED
  BY <1>4, <1>7, <1>9

LEMMA LengthIs ==
  ASSUME NEW log, log \in Seq(ToSet(log))
  PROVE  Len(log) \in Nat
<1> DEFINE S == ToSet(log)
<1>1. log \in Seq(S)
  OBVIOUS
<1> HIDE DEF S
<1> QED
  BY <1>1

MayAskAgain(log) == Len(log) > 0 => MayFollow(log[Len(log)])

Asked(log, method, chain, from, approved) ==
  Append(log, [method |-> method, chain |-> chain, from |-> from, approved |-> approved, answer |-> None])

EndsWith(log, method) == LogInv(log) /\ Len(log) > 0 /\ log[Len(log)].method = method

\* A request is asked after what the wallet answered, if at all.
LEMMA AskedIs ==
  ASSUME NEW log, LogInv(log), NEW method, NEW chain, NEW from, NEW approved,
         from # None => <<chain, from>> \in approved,
         MayAskAgain(log)
  PROVE  LET longer == Asked(log, method, chain, from, approved)
         IN  EndsWith(longer, method) /\ Len(longer) = Len(log) + 1
<1> DEFINE r == [method |-> method, chain |-> chain, from |-> from, approved |-> approved, answer |-> None]
           longer == Append(log, r)
           n == Len(log)
<1>1. IsRequest(r) /\ r.method = method
  BY DEF IsRequest
<1> HIDE DEF r
<1>2. log \in Seq(ToSet(log))
  BY DEF LogInv
<1>3. n \in Nat
  BY <1>2, LengthIs
<1>4. longer \in Seq(ToSet(longer)) /\ Len(longer) = n + 1 /\ longer[n + 1] = r /\ \A i \in 1 .. n : longer[i] = log[i]
  BY <1>2, AppendIs
<1> HIDE DEF longer
<1>5. \A i \in 1 .. n + 1 : i \in 1 .. n \/ i = n + 1
  BY <1>3
<1>6. \A i \in 1 .. n : i \in 1 .. n - 1 \/ (i = n /\ n > 0)
  BY <1>3
<1>7. LogInv(longer)
  <2>1. Len(longer) - 1 = n
    BY <1>3, <1>4
  <2>2. \A i \in 1 .. n : IsRequest(log[i]) /\ MayFollow(log[i])
    BY <1>6 DEF LogInv, MayAskAgain
  <2>3. \A i \in 1 .. Len(longer) : IsRequest(longer[i])
    BY <1>1, <1>4, <1>5, <2>2
  <2>4. \A i \in 1 .. Len(longer) - 1 : MayFollow(longer[i])
    BY <1>4, <2>1, <2>2
  <2> QED
    BY <1>4, <2>3, <2>4 DEF LogInv
<1>8. longer[Len(longer)].method = method /\ Len(longer) > 0
  BY <1>1, <1>3, <1>4
<1>9. longer = Asked(log, method, chain, from, approved)
  BY DEF longer, r, Asked
<1> QED
  BY <1>4, <1>7, <1>8, <1>9 DEF EndsWith

\* A step of one call.
LEMMA WcCallStep ==
  ASSUME WcInv, Same, NEW c \in WcCalls, NEW t, NEW log,
         wcTasks' = [wcTasks EXCEPT ![c] = t],
         wcLog' = [wcLog EXCEPT ![c] = log] \/ (UNCHANGED wcLog /\ log = wcLog[c]),
         LogInv(log), Len(log) <= MaxBatch + 1, t = Idle \/ OpenRequest(t, log)
  PROVE  WcInv'
<1>1. Namespaces(namespaces)' /\ DOMAIN wcTasks' = WcCalls /\ DOMAIN wcLog' = WcCalls
  BY DEF WcInv, Same, Namespaces
<1>2. wcTasks'[c] = t /\ wcLog'[c] = log
  BY DEF WcInv
<1>3. \A d \in WcCalls : d # c => wcTasks'[d] = wcTasks[d] /\ wcLog'[d] = wcLog[d]
  BY DEF WcInv
<1>4. \A d \in WcCalls : LogInv(wcLog[d]) /\ (wcTasks[d] # Idle => OpenRequest(wcTasks[d], wcLog[d]))
  BY DEF WcInv
<1>5. \A d \in WcCalls : LogInv(wcLog'[d]) /\ (wcTasks'[d] # Idle => OpenRequest(wcTasks'[d], wcLog'[d]))
  BY <1>2, <1>3, <1>4
<1>6. \A d \in WcCalls : Len(wcLog[d]) <= MaxBatch + 1
  BY DEF WcInv
<1>7. \A d \in WcCalls : Len(wcLog'[d]) <= MaxBatch + 1
  BY <1>2, <1>3, <1>6
<1>8. (\A d \in WcCalls : LogInv(wcLog[d]) /\ (wcTasks[d] # Idle => OpenRequest(wcTasks[d], wcLog[d])))'
  BY <1>5, Zenon DEF LogInv, OpenRequest, AskedSoFar, AsksFirst, OfBatch, GoingOn
<1>9. (\A d \in WcCalls : Len(wcLog[d]) <= MaxBatch + 1)'
  BY <1>7, Zenon
<1> QED
  BY <1>1, <1>8, <1>9, Zenon DEF WcInv

\* The first request of a call.
LEMMA FirstAsked ==
  ASSUME WcInv, Same, NEW c \in WcCalls, Unused(c), NEW pc \in {"last", "typed", "batch"}, NEW terms,
         NEW method, NEW chain, NEW from, Ask(c, Task(pc, terms), method, chain, from),
         from # None => <<chain, from>> \in AccountsOf("eip155"),
         pc = "batch" => from # None /\ terms.chain = chain /\ terms.from = from /\ terms.items \in 1 .. MaxBatch
  PROVE  WcInv'
<1> DEFINE t == Task(pc, terms)
           log == Asked(wcLog[c], method, chain, from, t.approved)
<1>1. t = [pc |-> t.pc, approved |-> t.approved, terms |-> t.terms] /\ t.pc = pc /\ t.terms = terms
      /\ t.approved = AccountsOf("eip155")
  BY DEF Task
<1> HIDE DEF t
<1>2. wcLog[c] = <<>> /\ LogInv(wcLog[c])
  BY DEF Unused, WcInv
<1>3. LogInv(log) /\ Len(log) = 1
  <2>a. Len(<<>>) = 0 /\ ~(0 > 0)
    OBVIOUS
  <2>0. MayAskAgain(<<>>)
    BY <2>a, Zenon DEF MayAskAgain
  <2>1. MayAskAgain(wcLog[c])
    BY <1>2, <2>0, Zenon
  <2>2. from # None => <<chain, from>> \in t.approved
    BY <1>1
  <2> QED
    <3> DEFINE before == wcLog[c]
               approved == t.approved
    <3>1. before = <<>> /\ LogInv(before) /\ MayAskAgain(before)
      BY <1>2, <2>1
    <3>2. log = Asked(before, method, chain, from, approved) /\ (from # None => <<chain, from>> \in approved)
      BY <2>2, Zenon
    <3> HIDE DEF before, approved, log
    <3>3. EndsWith(log, method) /\ Len(log) = Len(before) + 1
      BY <3>1, <3>2, AskedIs
    <3> QED
      BY <2>a, <3>1, <3>3 DEF EndsWith
<1> HIDE DEF log
<1>4. OpenRequest(t, log) /\ Len(log) <= MaxBatch + 1
  <2>1. AskedSoFar(t, 1) /\ 1 <= MaxBatch + 1
    <3>a. t.pc = pc
      BY <1>1, Zenon
    <3>1. ~GoingOn(t) /\ (OfBatch(t) => pc = "batch")
      BY <3>a, Zenon DEF GoingOn, OfBatch
    <3> QED
      BY <1>1, <3>1, WcBoundsAssumption DEF AskedSoFar
  <2>2. Len(log) > 0
    BY <1>3
  <2>3. t.pc \in {"last", "typed", "batch", "one by one"}
    BY <1>1, Zenon
  <2>4. t.pc # "one by one" /\ (t.pc = "batch" => pc = "batch")
    BY <1>1, Zenon
  <2>5. AskedSoFar(t, Len(log)) /\ Len(log) <= MaxBatch + 1
    BY <1>3, <2>1, Zenon
  <2>6. pc = "batch" => <<terms.chain, terms.from>> \in AccountsOf("eip155")
    BY Zenon
  <2>7. t.pc \in {"batch", "one by one"} => <<t.terms.chain, t.terms.from>> \in t.approved
    BY <1>1, <2>4, <2>6, Zenon
  <2> QED
    BY <1>1, <2>2, <2>3, <2>4, <2>5, <2>7, Zenon DEF OpenRequest
<1>5. CASE chain \in ChainsOf(Namespace(chain))
  <2>1. wcTasks' = [wcTasks EXCEPT ![c] = t] /\ wcLog' = [wcLog EXCEPT ![c] = log]
    BY <1>5 DEF Ask, Asked, t, log
  <2> QED
    BY <1>3, <1>4, <2>1, WcCallStep
<1>6. CASE chain \notin ChainsOf(Namespace(chain))
  <2>1. wcTasks' = [wcTasks EXCEPT ![c] = Idle] /\ UNCHANGED wcLog
    BY <1>6 DEF Ask
  <2>2. Len(wcLog[c]) <= MaxBatch + 1
    BY DEF WcInv
  <2> QED
    BY <1>2, <2>1, <2>2, WcCallStep
<1> QED
  BY <1>5, <1>6

LEMMA AnotherPc ==
  ASSUME NEW t, t = [pc |-> t.pc, approved |-> t.approved, terms |-> t.terms], NEW pc
  PROVE  LET u == [t EXCEPT !.pc = pc]
         IN  /\ u = [pc |-> pc, approved |-> t.approved, terms |-> t.terms]
             /\ u = [pc |-> u.pc, approved |-> u.approved, terms |-> u.terms]
             /\ u.pc = pc /\ u.approved = t.approved /\ u.terms = t.terms
<1> DEFINE u == [t EXCEPT !.pc = pc]
<1>1. PICK p, a, m : t = [pc |-> p, approved |-> a, terms |-> m]
  OBVIOUS
<1>2. u = [pc |-> pc, approved |-> t.approved, terms |-> t.terms]
  BY <1>1
<1> HIDE DEF u
<1>3. u.pc = pc /\ u.approved = t.approved /\ u.terms = t.terms
  BY <1>2
<1>4. u = [pc |-> u.pc, approved |-> u.approved, terms |-> u.terms]
  BY <1>2, <1>3
<1> QED
  BY <1>2, <1>3, <1>4 DEF u

\* A call that asks again, and one that goes on with the calls of its batch.
AsksAgain(pc) == pc \in {"one by one", "last"}
SendsEach(pc) == pc = "one by one"
MayGoOn(t, said, method) ==
  /\ method = "eth_sendTransaction" /\ <<t.terms.chain, t.terms.from>> \in t.approved
  /\ t.terms.items \in 1 .. MaxBatch /\ Len(said) <= t.terms.items

LEMMA AskedAgainIs ==
  ASSUME NEW t, t = [pc |-> t.pc, approved |-> t.approved, terms |-> t.terms],
         NEW said, LogInv(said), MayAskAgain(said), NEW pc, AsksAgain(pc),
         NEW method, NEW chain, NEW from, from # None => <<chain, from>> \in t.approved,
         SendsEach(pc) => MayGoOn(t, said, method)
  PROVE  LET u == [t EXCEPT !.pc = pc]
             asked == Asked(said, method, chain, from, u.approved)
         IN  LogInv(asked) /\ OpenRequest(u, asked) /\ Len(asked) = Len(said) + 1
<1> DEFINE u == [t EXCEPT !.pc = pc]
           asked == Asked(said, method, chain, from, t.approved)
<1>1. u = [pc |-> u.pc, approved |-> u.approved, terms |-> u.terms] /\ u.pc = pc /\ u.approved = t.approved
      /\ u.terms = t.terms
  BY AnotherPc, Zenon
<1> HIDE DEF u
<1>2. EndsWith(asked, method) /\ Len(asked) = Len(said) + 1
  BY AskedIs
<1>3. Len(said) \in Nat
  BY LengthIs DEF LogInv
<1> HIDE DEF asked
<1>4. LogInv(asked) /\ Len(asked) > 0 /\ asked[Len(asked)].method = method
  BY <1>2, <1>3 DEF EndsWith
<1>5. ~AsksFirst(u) /\ (OfBatch(u) => SendsEach(pc)) /\ (GoingOn(u) => SendsEach(pc))
  BY <1>1, Zenon DEF AsksFirst, OfBatch, GoingOn, SendsEach, AsksAgain
<1>6. AskedSoFar(u, Len(asked))
  BY <1>1, <1>2, <1>3, <1>5 DEF AskedSoFar, MayGoOn
<1>7. OpenRequest(u, asked)
  BY <1>1, <1>4, <1>5, <1>6, Zenon DEF OpenRequest, OfBatch, GoingOn, SendsEach, AsksAgain, MayGoOn
<1> QED
  BY <1>1, <1>2, <1>4, <1>7, Zenon DEF u, asked

\* The wallet answers, and the call ends or asks again.
LEMMA WalletRepliesStep ==
  ASSUME WcInv, NEW c \in WcCalls, NEW answer, WalletReplies(c, answer)
  PROVE  WcInv'
<1> DEFINE t == wcTasks[c]
           said == Answered(wcLog[c], answer)
<1>1. OpenRequest(t, wcLog[c]) /\ LogInv(wcLog[c]) /\ Same /\ Len(wcLog[c]) <= MaxBatch + 1
  BY Zenon DEF WalletReplies, WcInv
<1>0. /\ Len(wcLog[c]) > 0 /\ t = [pc |-> t.pc, approved |-> t.approved, terms |-> t.terms]
      /\ AskedSoFar(t, Len(wcLog[c])) /\ wcLog[c] \in Seq(ToSet(wcLog[c]))
  BY <1>1, Zenon DEF OpenRequest, LogInv
<1>c. Len(wcLog[c]) \in Nat
  BY <1>0, LengthIs, Zenon
<1>a. LogInv(said) /\ Len(said) = Len(wcLog[c])
      /\ said[Len(wcLog[c])].method = wcLog[c][Len(wcLog[c])].method
      /\ said[Len(wcLog[c])].answer = answer
  BY <1>0, <1>1, AnsweredIs
<1>2. LogInv(said) /\ Len(said) = Len(wcLog[c]) /\ said[Len(said)].method = wcLog[c][Len(wcLog[c])].method
      /\ said[Len(said)].answer = answer
  BY <1>a, Zenon
<1>b. WithAnswer(c, answer) = said
  BY Zenon DEF WithAnswer, LastOf, Answered
<1> HIDE DEF said
<1>3. CASE Ended(c) /\ wcLog' = [wcLog EXCEPT ![c] = said]
  BY <1>1, <1>2, <1>3, WcCallStep DEF Ended
<1>4. ASSUME NEW pc, AsksAgain(pc), NEW method, NEW chain, NEW from,
             Then(c, answer, [t EXCEPT !.pc = pc], method, chain, from),
             from # None => <<chain, from>> \in t.approved,
             answer # "rejected", answer \in {"done", "no id"} => said[Len(said)].method = "eth_sendTransaction",
             SendsEach(pc) => MayGoOn(t, said, method),
             Len(said) <= MaxBatch
      PROVE  WcInv'
  <2> DEFINE u == [t EXCEPT !.pc = pc]
             asked == Asked(said, method, chain, from, u.approved)
  <2>1. MayAskAgain(said)
    BY <1>2, <1>4 DEF MayAskAgain, MayFollow
  <2>2. LogInv(said)
    BY <1>2
  <2>3. LogInv(asked) /\ OpenRequest(u, asked) /\ Len(asked) = Len(said) + 1
    <3>1. t = [pc |-> t.pc, approved |-> t.approved, terms |-> t.terms] /\ AsksAgain(pc)
      BY <1>0, <1>4, Zenon
    <3>2. (from # None => <<chain, from>> \in t.approved) /\ (SendsEach(pc) => MayGoOn(t, said, method))
      BY <1>4, Zenon
    <3> HIDE DEF t
    <3> QED
      BY <2>1, <2>2, <3>1, <3>2, AskedAgainIs
  <2>6. Len(asked) <= MaxBatch + 1
    <3> HIDE DEF u, asked
    <3>1. Len(said) <= MaxBatch
      BY <1>4, Zenon
    <3>2. Len(said) \in Nat /\ Len(asked) = Len(said) + 1
      BY <1>c, <1>2, <2>3, Zenon
    <3> QED
      BY <3>1, <3>2, WcBoundsAssumption
  <2> HIDE DEF u, asked
  <2>4. CASE chain \in ChainsOf(Namespace(chain))
    <3>1. wcTasks' = [wcTasks EXCEPT ![c] = u] /\ wcLog' = [wcLog EXCEPT ![c] = asked]
      BY <1>b, <1>4, <2>4 DEF Then, Asked, u, asked
    <3> QED
      BY <1>1, <2>3, <2>6, <3>1, WcCallStep
  <2>5. CASE chain \notin ChainsOf(Namespace(chain))
    BY <1>b, <1>3, <1>4, <2>5 DEF Then
  <2> QED
    BY <2>4, <2>5
<1>5. CASE t.pc = "batch" /\ Unsupported(answer) /\ ~t.terms.atomic
  <2>1. Then(c, answer, [t EXCEPT !.pc = "one by one"], "eth_sendTransaction", t.terms.chain, t.terms.from)
    BY <1>5 DEF WalletReplies
  <2>2. <<t.terms.chain, t.terms.from>> \in t.approved
    BY <1>1, <1>5 DEF OpenRequest
  <2>3. t.terms.items \in 1 .. MaxBatch /\ Len(said) <= t.terms.items /\ Len(said) <= MaxBatch
    <3>1. OfBatch(t) /\ AsksFirst(t)
      BY <1>5, Zenon DEF OfBatch, AsksFirst
    <3> QED
      BY <1>2, <1>0, <1>c, <3>1, WcBoundsAssumption DEF AskedSoFar
  <2>4. MayGoOn(t, said, "eth_sendTransaction") /\ AsksAgain("one by one")
    BY <2>2, <2>3, Zenon DEF MayGoOn, AsksAgain
  <2> QED
    BY <1>4, <1>5, <2>1, <2>2, <2>3, <2>4, Zenon DEF Unsupported
<1>6. CASE t.pc = "one by one" /\ answer = "done" /\ LastOf(c) <= t.terms.items
  <2>1. Then(c, answer, [t EXCEPT !.pc = "one by one"], "eth_sendTransaction", t.terms.chain, t.terms.from)
    BY <1>6 DEF WalletReplies
  <2>2. <<t.terms.chain, t.terms.from>> \in t.approved /\ said[Len(said)].method = "eth_sendTransaction"
    BY <1>1, <1>2, <1>6 DEF OpenRequest
  <2>3. t.terms.items \in 1 .. MaxBatch /\ Len(said) <= t.terms.items /\ Len(said) <= MaxBatch
    <3>1. OfBatch(t) /\ GoingOn(t) /\ Len(wcLog[c]) <= t.terms.items
      BY <1>6, Zenon DEF OfBatch, GoingOn, LastOf
    <3> QED
      BY <1>2, <1>0, <1>c, <3>1, WcBoundsAssumption DEF AskedSoFar
  <2>4. MayGoOn(t, said, "eth_sendTransaction") /\ AsksAgain("one by one")
    BY <2>2, <2>3, Zenon DEF MayGoOn, AsksAgain
  <2> QED
    BY <1>4, <1>6, <2>1, <2>2, <2>3, <2>4, Zenon
<1>7. CASE t.pc = "typed" /\ NotAuthorized(answer)
  <2>1. Then(c, answer, [t EXCEPT !.pc = "last"], "eth_signTypedData", ResolvedChainId(t.terms.chain), None)
    BY <1>7 DEF WalletReplies
  <2>2. Len(said) <= MaxBatch
    <3>1. AsksFirst(t)
      BY <1>7, Zenon DEF AsksFirst
    <3> QED
      BY <1>2, <1>0, <1>c, <3>1, WcBoundsAssumption DEF AskedSoFar
  <2>3. AsksAgain("last") /\ ~SendsEach("last")
    BY Zenon DEF AsksAgain, SendsEach
  <2> QED
    BY <1>4, <1>7, <2>1, <2>2, <2>3, Zenon DEF NotAuthorized
<1> QED
  BY <1>b, <1>3, <1>5, <1>6, <1>7, Zenon DEF WalletReplies

\* The wallet rewrites the namespaces, to chains and accounts of theirs.
LEMMA WcEventStep ==
  ASSUME WcInv, Namespaces(namespaces'), UNCHANGED <<wcTasks, wcLog>>
  PROVE  WcInv'
<1>1. wcTasks' = wcTasks /\ wcLog' = wcLog
  OBVIOUS
<1>2. DOMAIN wcTasks' = WcCalls /\ DOMAIN wcLog' = WcCalls
      /\ (\A d \in WcCalls : LogInv(wcLog'[d]) /\ (wcTasks'[d] # Idle => OpenRequest(wcTasks'[d], wcLog'[d])))
      /\ (\A d \in WcCalls : Len(wcLog'[d]) <= MaxBatch + 1)
  BY <1>1, Zenon DEF WcInv
<1> QED
  <2>1. (\A d \in WcCalls : LogInv(wcLog[d]) /\ (wcTasks[d] # Idle => OpenRequest(wcTasks[d], wcLog[d])))'
    BY <1>2, Zenon DEF LogInv, OpenRequest, AskedSoFar, AsksFirst, OfBatch, GoingOn
  <2>2. (\A d \in WcCalls : Len(wcLog[d]) <= MaxBatch + 1)'
    BY <1>2, Zenon
  <2>3. Namespaces(namespaces)'
    BY Zenon DEF Namespaces
  <2> QED
    BY <1>2, <2>1, <2>2, <2>3, Zenon DEF WcInv

LEMMA WcEvents ==
  ASSUME WcInv, NEW chain \in EvmChains \cup SolanaChains, NEW address \in WcAddresses,
         \/ WcAccountsChanged(chain, <<None, address>>) \/ WcAccountsChanged(chain, <<chain, address>>)
         \/ WcChainChanged(chain) \/ SessionUpdate(Namespace(chain), <<<<chain, address>>>>)
  PROVE  WcInv'
<1> DEFINE n == Namespace(chain)
           Chains == EvmChains \cup SolanaChains
<1>1. n \in {"eip155", "solana"} /\ Namespaces(namespaces) /\ UNCHANGED <<wcTasks, wcLog>>
  BY DEF Namespace, WcInv, WcAccountsChanged, WcChainChanged, SessionUpdate, WalletEvent
<1> HIDE DEF n
<1>2. ASSUME NEW account \in Chains \X WcAddresses,
             namespaces' = [namespaces EXCEPT ![n].accounts = <<account>>]
      PROVE  WcInv'
  <2> DEFINE ns == [namespaces EXCEPT ![n].accounts = <<account>>]
  <2>1. <<account>>[1] = account /\ DOMAIN <<account>> = {1}
    OBVIOUS
  <2>2. /\ DOMAIN ns = {"eip155", "solana"}
        /\ ns[n] = [chains |-> namespaces[n].chains, accounts |-> <<account>>]
        /\ \A m \in {"eip155", "solana"} : m # n => ns[m] = namespaces[m]
    BY <1>1 DEF Namespaces
  <2>3. Namespaces(ns)
    BY <1>1, <2>1, <2>2 DEF Namespaces
  <2> HIDE DEF ns
  <2>4. Namespaces(namespaces')
    BY <1>2, <2>3 DEF ns
  <2> QED
    BY <1>1, <2>4, WcEventStep
<1>3. CASE WcChainChanged(chain)
  <2> DEFINE chains == <<chain>> \o Excluding(namespaces[n].chains, chain)
             accounts == [i \in DOMAIN namespaces[n].accounts |-> <<chain, namespaces[n].accounts[i][2]>>]
  <2>1. chains \in Seq(Chains)
    <3>1. namespaces[n].chains \in Seq(Chains)
      BY <1>1 DEF Namespaces
    <3>2. Excluding(namespaces[n].chains, chain) \in Seq(Chains) /\ <<chain>> \in Seq(Chains)
      BY <3>1, ExcludingIs
    <3> QED
      BY <3>2
  <2>2. DOMAIN accounts \subseteq Nat /\ \A i \in DOMAIN accounts : accounts[i] \in Chains \X WcAddresses
    BY <1>1 DEF Namespaces
  <2>3. namespaces' = [namespaces EXCEPT ![n].chains = chains, ![n].accounts = accounts]
    BY <1>3 DEF WcChainChanged, n
  <2> HIDE DEF chains, accounts
  <2>4. namespaces[n] = [chains |-> namespaces[n].chains, accounts |-> namespaces[n].accounts]
        /\ DOMAIN namespaces = {"eip155", "solana"}
    BY <1>1 DEF Namespaces
  <2>5. /\ DOMAIN namespaces' = {"eip155", "solana"}
        /\ namespaces'[n] = [chains |-> chains, accounts |-> accounts]
        /\ \A m \in {"eip155", "solana"} : m # n => namespaces'[m] = namespaces[m]
    BY <1>1, <2>3, <2>4
  <2>6. Namespaces(namespaces')
    BY <1>1, <2>1, <2>2, <2>5 DEF Namespaces
  <2> QED
    BY <1>1, <2>6, WcEventStep
<1>4. CASE SessionUpdate(Namespace(chain), <<<<chain, address>>>>)
  <2>1. namespaces' = [namespaces EXCEPT ![n].accounts = << <<chain, address>> >>]
    BY <1>4 DEF SessionUpdate, n
  <2>2. <<chain, address>> \in Chains \X WcAddresses
    OBVIOUS
  <2> QED
    BY <1>2, <2>1, <2>2
<1>5. CASE WcAccountsChanged(chain, <<chain, address>>)
  <2>1. <<chain, address>>[1] # None
    BY NamespacesAssumption
  <2>2. namespaces' = [namespaces EXCEPT ![n].accounts = << <<chain, address>> >>]
    BY <1>5, <2>1 DEF WcAccountsChanged, n
  <2> QED
    <3>1. <<chain, address>> \in Chains \X WcAddresses
      OBVIOUS
    <3> QED
      BY <1>2, <2>2, <3>1
<1>6. CASE WcAccountsChanged(chain, <<None, address>>)
  <2> DEFINE known == IF chain \in ChainsOf(n) THEN chain ELSE namespaces[n].chains[1]
  <2>1. namespaces[n].chains # <<>> /\ namespaces' = [namespaces EXCEPT ![n].accounts = << <<known, address>> >>]
    BY <1>6 DEF WcAccountsChanged, n
  <2>2. known \in Chains
    <3>1. namespaces[n].chains \in Seq(Chains)
      BY <1>1 DEF Namespaces
    <3>2. namespaces[n].chains[1] \in Chains
      BY <2>1, <3>1
    <3> QED
      BY <3>2
  <2> HIDE DEF known
  <2>3. <<known, address>> \in Chains \X WcAddresses
    BY <2>2
  <2> QED
    BY <1>2, <2>1, <2>3
<1> QED
  BY <1>3, <1>4, <1>5, <1>6

LEMMA WcStep == ASSUME WcInv, [WcNext]_wcVars PROVE WcInv'
<1>1. ASSUME NEW c \in WcCalls, NEW method, NEW chain, AskOnce(c, method, chain) PROVE WcInv'
  BY <1>1, FirstAsked DEF AskOnce
<1>2. ASSUME NEW c \in WcCalls, NEW evm, NEW solana, NEW from, NEW named, NEW chain,
             Transact(c, evm, solana, from, named, chain)
      PROVE  WcInv'
  <2> DEFINE resolved == ResolvedChainId(chain)
             sender == IF from # None THEN from ELSE FirstAccount(resolved)
  <2>1. Unused(c) /\ Same
    BY <1>2 DEF Transact
  <2>2. CASE Ask(c, Task("last", None), solana, resolved, None)
    BY <2>1, <2>2, FirstAsked
  <2>3. CASE AllowedFrom(from, resolved) /\ FirstAccount(resolved) # None
             /\ Ask(c, Task("last", None), evm, resolved, sender)
    <3>1. <<resolved, sender>> \in AccountsOf("eip155")
      BY <2>3, FirstAccountIs, AllowedFromIs
    <3> HIDE DEF resolved, sender
    <3> QED
      BY <2>1, <2>3, <3>1, FirstAsked
  <2> QED
    BY <1>2, <2>2, <2>3 DEF Transact
<1>3. ASSUME NEW c \in WcCalls, NEW json, NEW address, NEW requested, NEW chain,
             SignMessage(c, json, address, requested, chain)
      PROVE  WcInv'
  BY <1>3, FirstAsked DEF SignMessage
<1>4. ASSUME NEW c \in WcCalls, NEW address, NEW requested, NEW chain,
             SignTypedData(c, address, requested, chain)
      PROVE  WcInv'
  BY <1>4, FirstAsked DEF SignTypedData
<1>5. ASSUME NEW c \in WcCalls, NEW items \in 1 .. MaxBatch, NEW atomic, NEW chain, WcSendCalls(c, items, atomic, chain)
      PROVE  WcInv'
  <2> DEFINE resolved == ResolvedChainId(chain)
             terms == [items |-> items, atomic |-> atomic, chain |-> resolved, from |-> FirstAccount(resolved)]
  <2>1. <<resolved, FirstAccount(resolved)>> \in AccountsOf("eip155") /\ FirstAccount(resolved) # None
        /\ Unused(c) /\ Same
        /\ Ask(c, Task("batch", terms), "wallet_sendCalls", resolved, FirstAccount(resolved))
    BY <1>5, FirstAccountIs DEF WcSendCalls
  <2>2. terms.chain = resolved /\ terms.from = FirstAccount(resolved) /\ terms.items \in 1 .. MaxBatch
    OBVIOUS
  <2> HIDE DEF resolved, terms
  <2> QED
    BY <2>1, <2>2, FirstAsked
<1>6. ASSUME NEW c \in WcCalls, NEW chain, SendRawTransaction(c, chain) \/ WcSwitchChain(c, chain)
      PROVE  WcInv'
  BY <1>1, <1>6 DEF SendRawTransaction, WcSwitchChain
<1>7. ASSUME NEW c \in WcCalls, GetCapabilities(c) \/ StatusCall(c) \/ Request(c) PROVE WcInv'
  BY <1>1, <1>7 DEF GetCapabilities, StatusCall, Request
<1>8. CASE UNCHANGED wcVars
  <2>1. namespaces' = namespaces /\ UNCHANGED <<wcTasks, wcLog>> /\ Namespaces(namespaces')
    BY <1>8 DEF wcVars, WcInv
  <2> QED
    BY <2>1, WcEventStep
<1>9. ASSUME NEW c \in WcCalls, NEW from, NEW named, NEW chain,
             SignTransaction(c, from, named, chain) \/ SendTransaction(c, from, named, chain)
      PROVE  WcInv'
  BY <1>2, <1>9 DEF SignTransaction, SendTransaction
<1> QED
  BY <1>3, <1>4, <1>5, <1>6, <1>7, <1>8, <1>9, WalletRepliesStep, WcEvents DEF WcNext

\* The wallet's events are counted.
WcEventsCounted == wcEvents \in 0 .. MaxEvents
LEMMA EventsCounted ==
  /\ WcInit => WcEventsCounted
  /\ WcEventsCounted /\ [WcNext]_wcVars => WcEventsCounted'
<1>1. WcInit => WcEventsCounted
  BY WcBoundsAssumption DEF WcInit, WcEventsCounted
<1>2. \A c, json, address, requested, chain : SignMessage(c, json, address, requested, chain) => UNCHANGED wcEvents
  BY Zenon DEF SignMessage, AskOnce, Same
<1>3. \A c, address, requested, chain : SignTypedData(c, address, requested, chain) => UNCHANGED wcEvents
  BY Zenon DEF SignTypedData, AskOnce, Same
<1>4. \A c, from, named, chain : SignTransaction(c, from, named, chain) => UNCHANGED wcEvents
  BY Zenon DEF SignTransaction, Transact, AskOnce, Same
<1>5. \A c, from, named, chain : SendTransaction(c, from, named, chain) => UNCHANGED wcEvents
  BY Zenon DEF SendTransaction, Transact, AskOnce, Same
<1>6. \A c, chain : SendRawTransaction(c, chain) \/ WcSwitchChain(c, chain) => UNCHANGED wcEvents
  BY Zenon DEF SendRawTransaction, WcSwitchChain, AskOnce, Same
<1>7. \A c, items, atomic, chain : WcSendCalls(c, items, atomic, chain) => UNCHANGED wcEvents
  BY Zenon DEF WcSendCalls, Same
<1>8. \A c : GetCapabilities(c) \/ StatusCall(c) \/ Request(c) => UNCHANGED wcEvents
  BY Zenon DEF GetCapabilities, StatusCall, Request, AskOnce, Same
<1>9. \A c, answer : WalletReplies(c, answer) => UNCHANGED wcEvents
  BY Zenon DEF WalletReplies, Same
<1>10. \A chain, account, n, accounts :
         WcAccountsChanged(chain, account) \/ WcChainChanged(chain) \/ SessionUpdate(n, accounts) => WalletEvent
  BY Zenon DEF WcAccountsChanged, WcChainChanged, SessionUpdate
<1>11. ASSUME [WcNext]_wcVars PROVE UNCHANGED wcEvents \/ WalletEvent
  <2>1. UNCHANGED wcVars => UNCHANGED wcEvents
    BY Zenon DEF wcVars
  <2> QED
    BY <1>2, <1>3, <1>4, <1>5, <1>6, <1>7, <1>8, <1>9, <1>10, <1>11, <2>1, Zenon DEF WcNext
<1>12. WcEventsCounted /\ (UNCHANGED wcEvents \/ WalletEvent) => WcEventsCounted'
  BY WcBoundsAssumption DEF WcEventsCounted, WalletEvent
<1> QED
  BY <1>1, <1>11, <1>12

LEMMA WcTyped == ASSUME WcInv, WcEventsCounted PROVE WcTypeOK
<1>1. ASSUME NEW n \in {"eip155", "solana"}
      PROVE  ChainsOf(n) \subseteq EvmChains \union SolanaChains /\ \A a \in AccountsOf(n) : a[2] \in WcAddresses
  BY DEF WcInv, Namespaces, ChainsOf, AccountsOf, ToSet
<1> QED
  BY <1>1 DEF WcInv, Namespaces, WcEventsCounted, WcTypeOK

\* What was asked shows who was named, and what was asked again.
LEMMA WcSafe == ASSUME WcInv PROVE NotAskedAgain /\ SenderApprovedForChain
  BY DEF WcInv, LogInv, IsRequest, MayFollow, NotAskedAgain, SenderApprovedForChain, Executed

-----------------------------------------------------------------------------
(* InjectedWallet *)

LEMMA InjStarts == InjInit => InjInv
  BY DEF InjInit, InjInv

\* Sessions and records that are there stay sessions.
KeptSessions(old, new) == \A s \in InjSessions : new[s] = old[s] \/ IsInjSession(new[s])
KeptRecord(w, old, new) == new[w] = old[w] \/ IsInjSession(new[w])
\* The handlers that run are those that ran before, or of a session that is there.
KeptHandlers(old, new, sessions) ==
  \A w \in InjWallets : \A i \in DOMAIN new[w] :
    IsInjSession(sessions[new[w][i]]) \/ \E j \in DOMAIN old[w] : new[w][i] = old[w][j]

\* A call that takes no part.
LEMMA BusyKept ==
  ASSUME NEW t, NEW sessions, NEW active, Busy(t, sessions, active), NEW ns, KeptSessions(sessions, ns),
         NEW na, KeptRecord(t.wallet, active, na)
  PROVE  Busy(t, ns, na)
  BY DEF Busy, KeptSessions, KeptRecord

\* A call whose record leaves the index.
LEMMA BusyDetached ==
  ASSUME NEW t, NEW sessions, NEW active, Busy(t, sessions, active), NEW ns, KeptSessions(sessions, ns), NEW na
  PROVE  Busy([t EXCEPT !.record = FALSE], ns, na)
<1> DEFINE u == [t EXCEPT !.record = FALSE]
<1>1. DOMAIN u = DOMAIN t /\ u.pc = t.pc /\ u.wallet = t.wallet /\ u.record = FALSE
  BY DEF Busy
<1>2. t.pc \in {"switch", "rechain"} => u.of = t.of
  BY DEF Busy
<1>9. t.pc = "switch" => u.chain = t.chain
  BY DEF Busy
<1>3. t.pc \in {"batch", "one by one"} => u.log = t.log
  BY DEF Busy
<1> HIDE DEF u
<1>4. t.pc \in {"switch", "rechain"} =>
        {"of", "address"} \subseteq DOMAIN t /\ t.of \in InjSessions /\ IsInjSession(ns[t.of])
  BY DEF Busy, KeptSessions
<1>5. t.pc \in {"batch", "one by one"} =>
        {"log", "items", "atomic", "ran", "chain"} \subseteq DOMAIN t /\ BatchLog(u)
  BY <1>1, <1>3 DEF Busy, BatchLog
<1>6. /\ {"pc", "wallet", "record"} \subseteq DOMAIN t /\ t.wallet \in InjWallets
      /\ t.pc \in {"accounts", "chain", "rechain", "switch", "batch", "one by one"}
      /\ t.pc = "switch" => {"chain", "retried"} \subseteq DOMAIN t /\ t.chain \in InjChains
  BY DEF Busy
<1>7. u.record \in BOOLEAN /\ ~u.record
  BY <1>1
<1>8. Busy(u, ns, na)
  BY <1>1, <1>2, <1>4, <1>5, <1>6, <1>7, <1>9 DEF Busy
<1> QED
  BY <1>8 DEF u

\* The parts put together.
LEMMA InjFrame ==
  ASSUME InjInv, discovered' \in Seq(InjWallets), DOMAIN injTasks' = InjCalls,
         DOMAIN injSessions' = InjSessions, DOMAIN activeSessions' = InjWallets,
         listening' \in [InjWallets -> Seq(InjSessions)],
         KeptSessions(injSessions, injSessions'),
         \A w \in InjWallets : activeSessions'[w] = None \/ KeptRecord(w, activeSessions, activeSessions'),
         KeptHandlers(listening, listening', injSessions'),
         \A c \in InjCalls : injTasks'[c] = Idle \/ Busy(injTasks'[c], injSessions', activeSessions')
  PROVE  InjInv'
<1>1. \A s \in InjSessions : injSessions'[s] = None \/ IsInjSession(injSessions'[s])
  BY DEF InjInv, KeptSessions
<1>2. \A w \in InjWallets : activeSessions'[w] = None \/ IsInjSession(activeSessions'[w])
  BY DEF InjInv, KeptRecord
<1>3. \A w \in InjWallets : \A j \in DOMAIN listening[w] :
        listening[w][j] \in InjSessions /\ IsInjSession(injSessions[listening[w][j]])
  BY DEF InjInv
<1>4. \A w \in InjWallets : \A j \in DOMAIN listening[w] : IsInjSession(injSessions'[listening[w][j]])
  BY <1>3 DEF KeptSessions
<1>5. \A w \in InjWallets : \A i \in DOMAIN listening'[w] : IsInjSession(injSessions'[listening'[w][i]])
  BY <1>4 DEF KeptHandlers
<1> QED
  BY <1>1, <1>2, <1>5 DEF InjInv, IsInjSession, Busy, BatchLog

\* A step of one call, which may keep the index or not.
LEMMA InjCallStep ==
  ASSUME InjInv, NEW c \in InjCalls, NEW t, Await(c, t),
         UNCHANGED <<discovered, injSessions, activeSessions, listening>>,
         t = Idle \/ Busy(t, injSessions, activeSessions)
  PROVE  InjInv'
<1>1. KeptSessions(injSessions, injSessions') /\ KeptHandlers(listening, listening', injSessions')
  BY DEF KeptSessions, KeptHandlers
<1>2. \A w \in InjWallets : KeptRecord(w, activeSessions, activeSessions')
  BY DEF KeptRecord
<1>3. DOMAIN injTasks' = InjCalls /\ \A d \in InjCalls : injTasks'[d] = IF d = c THEN t ELSE injTasks[d]
  BY DEF Await, InjInv
<1>4. injSessions' = injSessions /\ activeSessions' = activeSessions
  OBVIOUS
<1>5. \A d \in InjCalls : injTasks'[d] = Idle \/ Busy(injTasks'[d], injSessions, activeSessions)
  BY <1>3 DEF InjInv
<1>6. \A d \in InjCalls : injTasks'[d] = Idle \/ Busy(injTasks'[d], injSessions', activeSessions')
  BY <1>4, <1>5, Zenon
<1>7. /\ discovered' \in Seq(InjWallets) /\ DOMAIN injSessions' = InjSessions
      /\ DOMAIN activeSessions' = InjWallets /\ listening' \in [InjWallets -> Seq(InjSessions)]
  BY DEF InjInv
<1> QED
  BY <1>1, <1>2, <1>3, <1>6, <1>7, InjFrame

\* The calls of a wallet lose the record that leaves the index.
LEMMA DetachedIs ==
  ASSUME InjInv, NEW w \in InjWallets, NEW ns, KeptSessions(injSessions, ns),
         NEW na, \A v \in InjWallets \ {w} : KeptRecord(v, activeSessions, na),
         NEW tasks, tasks = Detached(w, injTasks) \/ \E c \in InjCalls : tasks = Detached(w, [injTasks EXCEPT ![c] = Idle])
  PROVE  /\ DOMAIN tasks = InjCalls
         /\ \A c \in InjCalls : tasks[c] = Idle \/ Busy(tasks[c], ns, na)
<1>1. DOMAIN tasks = InjCalls
  BY DEF Detached
<1>2. \A c \in InjCalls :
        \/ tasks[c] = Idle
        \/ injTasks[c] # Idle /\ injTasks[c].wallet = w /\ tasks[c] = [injTasks[c] EXCEPT !.record = FALSE]
        \/ injTasks[c] # Idle /\ injTasks[c].wallet # w /\ tasks[c] = injTasks[c]
  BY DEF Detached, InjInv
<1>3. \A c \in InjCalls : injTasks[c] # Idle => Busy(injTasks[c], injSessions, activeSessions)
  BY DEF InjInv
<1>4. \A c \in InjCalls : injTasks[c] # Idle => injTasks[c].wallet \in InjWallets
  BY <1>3 DEF Busy
<1>5. \A c \in InjCalls : injTasks[c] # Idle => Busy([injTasks[c] EXCEPT !.record = FALSE], ns, na)
  BY <1>3, BusyDetached
<1>6. \A c \in InjCalls : injTasks[c] # Idle /\ injTasks[c].wallet # w => Busy(injTasks[c], ns, na)
  BY <1>3, <1>4, BusyKept
<1> QED
  BY <1>1, <1>2, <1>5, <1>6, Zenon

\* The handlers that are left when the last ones are removed.
LEMMA WithoutIs ==
  ASSUME InjInv, NEW w \in InjWallets
  PROVE  /\ Without(w) \in [InjWallets -> Seq(InjSessions)]
         /\ \A sessions : KeptHandlers(listening, Without(w), sessions)
<1>1. \A v \in InjWallets : LET f == Front(listening[v])
                            IN f \in Seq(InjSessions) /\ \A i \in DOMAIN f : i \in DOMAIN listening[v] /\ f[i] = listening[v][i]
  BY DEF Front, InjInv
<1>2. listening \in [InjWallets -> Seq(InjSessions)]
  BY DEF InjInv
<1>3. Without(w) = listening \/ Without(w) = [listening EXCEPT ![w] = Front(listening[w])]
  BY DEF Without
<1>4. Without(w) \in [InjWallets -> Seq(InjSessions)]
  BY <1>1, <1>2, <1>3
<1>5. \A v \in InjWallets : Without(w)[v] = listening[v] \/ Without(w)[v] = Front(listening[v])
  BY <1>2, <1>3
<1> QED
  BY <1>1, <1>4, <1>5 DEF KeptHandlers

\* The handlers of a session that is there join those of its wallet.
LEMMA JoinedIs ==
  ASSUME InjInv, NEW w \in InjWallets, NEW s \in InjSessions, NEW sessions, IsInjSession(sessions[s]),
         NEW old, old \in [InjWallets -> Seq(InjSessions)], KeptHandlers(listening, old, sessions)
  PROVE  LET new == [listening EXCEPT ![w] = Append(old[w], s)]
         IN  new \in [InjWallets -> Seq(InjSessions)] /\ KeptHandlers(listening, new, sessions)
<1> DEFINE joined == Append(old[w], s)
           new == [listening EXCEPT ![w] = joined]
<1>1. joined \in Seq(InjSessions) /\ \A i \in DOMAIN joined : joined[i] = s \/ (i \in DOMAIN old[w] /\ joined[i] = old[w][i])
  OBVIOUS
<1>2. listening \in [InjWallets -> Seq(InjSessions)]
  BY DEF InjInv
<1> HIDE DEF joined
<1>3. new \in [InjWallets -> Seq(InjSessions)] /\ \A v \in InjWallets : new[v] = IF v = w THEN joined ELSE listening[v]
  BY <1>1, <1>2
<1> HIDE DEF new
<1>4. ASSUME NEW v \in InjWallets, NEW i \in DOMAIN new[v]
      PROVE  IsInjSession(sessions[new[v][i]]) \/ \E j \in DOMAIN listening[v] : new[v][i] = listening[v][j]
  <2>1. CASE v # w
    <3>1. new[v] = listening[v]
      BY <1>3, <2>1
    <3>2. i \in DOMAIN listening[v] /\ new[v][i] = listening[v][i]
      BY <3>1, Zenon
    <3>3. \E j \in DOMAIN listening[v] : new[v][i] = listening[v][j]
      BY <3>2
    <3> QED
      BY <3>3, Zenon
  <2>2. CASE v = w
    <3>1. \A j \in DOMAIN old[w] : IsInjSession(sessions[old[w][j]]) \/ \E k \in DOMAIN listening[w] : old[w][j] = listening[w][k]
      BY DEF KeptHandlers
    <3>2. i \in DOMAIN joined /\ new[v][i] = joined[i]
      BY <1>3, <2>2
    <3>3. joined[i] = s \/ (i \in DOMAIN old[w] /\ joined[i] = old[w][i])
      BY <1>1, <3>2
    <3> HIDE DEF KeptHandlers
    <3>4. IsInjSession(sessions[joined[i]]) \/ \E k \in DOMAIN listening[w] : joined[i] = listening[w][k]
      BY <3>1, <3>3, Zenon
    <3> QED
      BY <2>2, <3>2, <3>4, Zenon
  <2> QED
    BY <2>1, <2>2
<1>5. KeptHandlers(listening, new, sessions)
  BY <1>4 DEF KeptHandlers
<1> QED
  BY <1>3, <1>5, Zenon DEF new, joined

\* A session moved to a chain has its account there.
LEMMA OnChainIs ==
  ASSUME InjInv, NEW w \in InjWallets, NEW chain \in InjChains
  PROVE  LET sessions == OnChain(w, chain, injSessions)
         IN  DOMAIN sessions = InjSessions /\ KeptSessions(injSessions, sessions)
<1> DEFINE sessions == OnChain(w, chain, injSessions)
<1>1. ASSUME NEW s \in InjSessions
      PROVE  sessions[s] = injSessions[s] \/ IsInjSession(sessions[s])
  <2>1. CASE s \notin ToSet(listening[w])
    BY <2>1 DEF OnChain
  <2>2. CASE s \in ToSet(listening[w])
    <3> DEFINE x == injSessions[s]
               account == <<chain, x.account[2]>>
               chains == <<chain>>
               y == [x EXCEPT !.chains = chains, !.account = account]
    <3>1. IsInjSession(x)
      BY <2>2 DEF InjInv, ToSet
    <3>2. sessions[s] = y
      BY <2>2 DEF OnChain
    <3>3. account[1] = chains[1] /\ chains \in Seq(InjChains)
      OBVIOUS
    <3> HIDE DEF account, chains, x
    <3>4. IsInjSession(y)
      BY <3>1, <3>3 DEF IsInjSession
    <3> QED
      BY <3>2, <3>4
  <2> QED
    BY <2>1, <2>2
<1>2. DOMAIN sessions = InjSessions
  BY DEF OnChain
<1> QED
  BY <1>1, <1>2 DEF KeptSessions

\* The index takes the chain and the account of one session.
LEMMA OnIndexIs ==
  ASSUME InjInv, NEW w \in InjWallets, NEW sessions, KeptSessions(injSessions, sessions)
  PROVE  LET active == OnIndex(w, sessions)
         IN  DOMAIN active = InjWallets /\ \A v \in InjWallets : KeptRecord(v, activeSessions, active)
<1> DEFINE active == OnIndex(w, sessions)
           x == sessions[Last(listening[w])]
<1>1. CASE activeSessions[w] = None \/ listening[w] = <<>>
  BY <1>1 DEF OnIndex, KeptRecord, InjInv
<1>2. CASE activeSessions[w] # None /\ listening[w] # <<>>
  <2>1. listening[w] \in Seq(InjSessions) /\ IsInjSession(activeSessions[w]) /\ DOMAIN activeSessions = InjWallets
    BY <1>2 DEF InjInv
  <2>2. Last(listening[w]) \in InjSessions /\ \E i \in DOMAIN listening[w] : Last(listening[w]) = listening[w][i]
    BY <1>2, <2>1 DEF Last
  <2>3. IsInjSession(injSessions[Last(listening[w])])
    BY <2>2 DEF InjInv
  <2>4. IsInjSession(x)
    BY <2>2, <2>3 DEF KeptSessions
  <2>5. active = [activeSessions EXCEPT ![w].chains = x.chains, ![w].account = x.account]
    BY <1>2, Zenon DEF OnIndex
  <2>6. x.account[1] = x.chains[1] /\ x.chains \in Seq(InjChains)
    BY <2>4 DEF IsInjSession
  <2> DEFINE account == x.account
             chains == x.chains
  <2> HIDE DEF x, active
  <2>7. account[1] = chains[1] /\ chains \in Seq(InjChains)
        /\ active = [activeSessions EXCEPT ![w].chains = chains, ![w].account = account]
    BY <2>5, <2>6
  <2> HIDE DEF account, chains
  <2>8. DOMAIN active = InjWallets /\ IsInjSession(active[w]) /\ \A v \in InjWallets : v # w => active[v] = activeSessions[v]
    BY <2>1, <2>7 DEF IsInjSession
  <2>9. \A v \in InjWallets : KeptRecord(v, activeSessions, active)
    BY <2>8 DEF KeptRecord
  <2> QED
    BY <2>8, <2>9 DEF active
<1> QED
  BY <1>1, <1>2

\* A step that leaves every call where it is.
LEMMA InjEventStep ==
  ASSUME InjInv, UNCHANGED <<listening, injTasks>>, discovered' \in Seq(InjWallets),
         DOMAIN injSessions' = InjSessions, KeptSessions(injSessions, injSessions'),
         DOMAIN activeSessions' = InjWallets,
         \A w \in InjWallets : KeptRecord(w, activeSessions, activeSessions')
  PROVE  InjInv'
<1>1. listening' = listening /\ injTasks' = injTasks
  OBVIOUS
<1>2. listening' \in [InjWallets -> Seq(InjSessions)] /\ DOMAIN injTasks' = InjCalls
  BY <1>1 DEF InjInv
<1>3. KeptHandlers(listening, listening', injSessions')
  BY <1>1 DEF KeptHandlers
<1>4. \A c \in InjCalls : injTasks[c] # Idle => Busy(injTasks[c], injSessions, activeSessions)
  BY DEF InjInv
<1>5. \A c \in InjCalls : injTasks[c] # Idle => injTasks[c].wallet \in InjWallets
  BY <1>4 DEF Busy
<1>6. \A c \in InjCalls : injTasks[c] = Idle \/ Busy(injTasks[c], injSessions', activeSessions')
  BY <1>4, <1>5, BusyKept
<1>7. \A c \in InjCalls : injTasks'[c] = Idle \/ Busy(injTasks'[c], injSessions', activeSessions')
  BY <1>1, <1>6, Zenon
<1> QED
  BY <1>2, <1>3, <1>7, InjFrame

\* A step in which the record of a wallet leaves the index, or is made anew.
LEMMA InjIndexStep ==
  ASSUME InjInv, NEW w \in InjWallets, UNCHANGED discovered, DOMAIN injSessions' = InjSessions,
         KeptSessions(injSessions, injSessions'), NEW record, record = None \/ IsInjSession(record),
         activeSessions' = [activeSessions EXCEPT ![w] = record],
         listening' \in [InjWallets -> Seq(InjSessions)], KeptHandlers(listening, listening', injSessions'),
         \/ injTasks' = Detached(w, injTasks)
         \/ \E c \in InjCalls : injTasks' = Detached(w, [injTasks EXCEPT ![c] = Idle])
  PROVE  InjInv'
<1>1. DOMAIN activeSessions' = InjWallets /\ activeSessions'[w] = record
      /\ \A v \in InjWallets \ {w} : activeSessions'[v] = activeSessions[v]
  BY DEF InjInv
<1>2. \A v \in InjWallets \ {w} : KeptRecord(v, activeSessions, activeSessions')
  BY <1>1 DEF KeptRecord
<1>3. \A v \in InjWallets : activeSessions'[v] = None \/ KeptRecord(v, activeSessions, activeSessions')
  BY <1>1, <1>2 DEF KeptRecord
<1>4. DOMAIN injTasks' = InjCalls
      /\ \A c \in InjCalls : injTasks'[c] = Idle \/ Busy(injTasks'[c], injSessions', activeSessions')
  BY <1>2, DetachedIs
<1>5. discovered' \in Seq(InjWallets)
  BY DEF InjInv
<1> QED
  BY <1>1, <1>3, <1>4, <1>5, InjFrame

LEMMA DropsStep ==
  ASSUME InjInv, NEW s \in InjSessions, Drops(s), UNCHANGED <<discovered, injSessions>>
  PROVE  InjInv'
<1> DEFINE w == injSessions[s].wallet
<1>1. KeptSessions(injSessions, injSessions') /\ DOMAIN injSessions' = InjSessions /\ discovered' \in Seq(InjWallets)
  BY DEF KeptSessions, InjInv
<1>2. CASE FindActive(s)
  <2>1. w \in InjWallets
    BY <1>2 DEF FindActive, InjInv, IsInjSession
  <2>2. /\ listening' = Without(w) /\ activeSessions' = [activeSessions EXCEPT ![w] = None]
        /\ injTasks' = Detached(w, injTasks)
    BY <1>2 DEF Drops, RemoveHandlers
  <2> HIDE DEF w
  <2>3. listening' \in [InjWallets -> Seq(InjSessions)] /\ KeptHandlers(listening, listening', injSessions')
    BY <2>1, <2>2, WithoutIs
  <2> QED
    BY <1>1, <2>1, <2>2, <2>3, InjIndexStep
<1>3. CASE ~FindActive(s)
  <2>1. UNCHANGED <<listening, injTasks, activeSessions>>
    BY <1>3 DEF Drops, index
  <2>2. DOMAIN activeSessions' = InjWallets /\ \A v \in InjWallets : KeptRecord(v, activeSessions, activeSessions')
    BY <2>1 DEF InjInv, KeptRecord
  <2> QED
    BY <1>1, <2>1, <2>2, InjEventStep
<1> QED
  BY <1>2, <1>3

LEMMA ClearStep == ASSUME InjInv, Clear PROVE InjInv'
<1>1. /\ discovered' \in Seq(InjWallets) /\ DOMAIN injSessions' = InjSessions
      /\ KeptSessions(injSessions, injSessions') /\ DOMAIN activeSessions' = InjWallets
      /\ \A w \in InjWallets : activeSessions'[w] = None
      /\ listening' = [w \in InjWallets |-> Without(w)[w]]
      /\ injTasks' = [c \in InjCalls |-> IF injTasks[c] = Idle THEN Idle ELSE [injTasks[c] EXCEPT !.record = FALSE]]
  BY DEF Clear, InjInv, KeptSessions
<1>2. listening' \in [InjWallets -> Seq(InjSessions)]
  BY <1>1, WithoutIs
<1>3. KeptHandlers(listening, listening', injSessions')
  <2>1. \A w \in InjWallets : listening'[w] = Without(w)[w] /\ KeptHandlers(listening, Without(w), injSessions')
    BY <1>1, WithoutIs
  <2> QED
    BY <2>1 DEF KeptHandlers
<1>4. \A c \in InjCalls : injTasks[c] # Idle => Busy(injTasks[c], injSessions, activeSessions)
  BY DEF InjInv
<1>5. \A c \in InjCalls : injTasks[c] # Idle => Busy([injTasks[c] EXCEPT !.record = FALSE], injSessions', activeSessions')
  BY <1>1, <1>4, BusyDetached
<1>6. \A c \in InjCalls : injTasks'[c] = Idle \/ Busy(injTasks'[c], injSessions', activeSessions')
  BY <1>1, <1>5, Zenon
<1>7. DOMAIN injTasks' = InjCalls
  BY <1>1
<1> QED
  BY <1>1, <1>2, <1>3, <1>6, <1>7, InjFrame

LEMMA AccountsChangedStep ==
  ASSUME InjInv, NEW w \in InjWallets, NEW address, InjAccountsChanged(w, address)
  PROVE  InjInv'
<1> DEFINE moved == [s \in InjSessions |-> IF s \in ToSet(listening[w])
                       THEN [injSessions[s] EXCEPT !.account = <<injSessions[s].chains[1], address>>]
                       ELSE injSessions[s]]
<1>1. CASE address # None /\ injWallet[w].permitted
  <2>1. /\ injSessions' = moved /\ activeSessions' = OnIndex(w, injSessions')
        /\ UNCHANGED <<discovered, listening, injTasks>>
    BY <1>1 DEF InjAccountsChanged
  <2>2. ASSUME NEW s \in InjSessions PROVE moved[s] = injSessions[s] \/ IsInjSession(moved[s])
    <3> DEFINE x == injSessions[s]
               account == <<x.chains[1], address>>
               y == [x EXCEPT !.account = account]
    <3>1. CASE s \in ToSet(listening[w])
      <4>1. IsInjSession(x) /\ account[1] = x.chains[1]
        BY <3>1 DEF InjInv, ToSet
      <4>2. moved[s] = y
        BY <3>1
      <4> HIDE DEF x, account, moved
      <4>3. IsInjSession(y)
        BY <4>1 DEF IsInjSession
      <4> QED
        BY <4>2, <4>3
    <3>2. CASE s \notin ToSet(listening[w])
      BY <3>2
    <3> QED
      BY <3>1, <3>2
  <2>3. DOMAIN moved = InjSessions /\ KeptSessions(injSessions, moved)
    BY <2>2 DEF KeptSessions
  <2> HIDE DEF moved
  <2>4. DOMAIN injSessions' = InjSessions /\ KeptSessions(injSessions, injSessions')
    BY <2>1, <2>3
  <2>5. discovered' \in Seq(InjWallets)
    BY <2>1 DEF InjInv
  <2>6. DOMAIN activeSessions' = InjWallets /\ \A v \in InjWallets : KeptRecord(v, activeSessions, activeSessions')
    BY <2>1, <2>4, OnIndexIs
  <2> QED
    BY <2>1, <2>4, <2>5, <2>6, InjEventStep
<1>2. CASE ~(address # None /\ injWallet[w].permitted)
  <2>1. UNCHANGED <<discovered, injSessions>>
    BY <1>2 DEF InjAccountsChanged
  <2>2. CASE UNCHANGED <<index, injTasks>>
    <3>1. /\ UNCHANGED <<listening, injTasks>> /\ discovered' \in Seq(InjWallets)
          /\ DOMAIN injSessions' = InjSessions /\ KeptSessions(injSessions, injSessions')
          /\ DOMAIN activeSessions' = InjWallets /\ \A v \in InjWallets : KeptRecord(v, activeSessions, activeSessions')
      BY <2>1, <2>2 DEF index, InjInv, KeptSessions, KeptRecord
    <3> QED
      BY <3>1, InjEventStep
  <2>3. CASE \E s \in ToSet(listening[w]) : FindActive(s) /\ Drops(s)
    <3>1. \A s \in ToSet(listening[w]) : s \in InjSessions
      BY DEF InjInv, ToSet
    <3> QED
      BY <2>1, <2>3, <3>1, DropsStep
  <2>4. ASSUME \E s \in ToSet(listening[w]) : FindActive(s)
        PROVE  LET s == CHOOSE s \in ToSet(listening[w]) : FindActive(s)
               IN  s \in ToSet(listening[w]) /\ FindActive(s)
    BY <2>4, Zenon
  <2>5. \/ UNCHANGED <<index, injTasks>>
        \/ /\ \E s \in ToSet(listening[w]) : FindActive(s)
           /\ Drops(CHOOSE s \in ToSet(listening[w]) : FindActive(s))
    BY <1>2, Zenon DEF InjAccountsChanged
  <2> QED
    BY <2>2, <2>3, <2>4, <2>5, Zenon
<1> QED
  BY <1>1, <1>2

\* The wallet a call means is one that was announced.
LEMMA ChosenIs ==
  ASSUME InjInv, NEW input
  PROVE  Chosen(input) \subseteq InjWallets
<1>1. discovered \in Seq(InjWallets) /\ ToSet(discovered) \subseteq InjWallets
  BY DEF InjInv, ToSet
<1>2. ByRdns(input) \subseteq InjWallets
  <2> DEFINE named == {i \in DOMAIN discovered : Rdns[discovered[i]] = input}
  <2>1. named \subseteq Nat /\ \A i \in named : discovered[i] \in InjWallets
    BY <1>1
  <2>2. named # {} => Min(named) \in named
    BY <2>1, LeastIndex
  <2>3. ByRdns(input) = IF named = {} THEN {} ELSE {discovered[Min(named)]}
    BY DEF ByRdns
  <2> HIDE DEF named
  <2>4. named # {} => discovered[Min(named)] \in InjWallets
    BY <2>1, <2>2
  <2> QED
    BY <2>3, <2>4
<1>3. discovered # <<>> => discovered[1] \in InjWallets
  BY <1>1
<1> QED
  BY <1>1, <1>2, <1>3 DEF Chosen

LEMMA SwitchesStep ==
  ASSUME InjInv, NEW c \in InjCalls, WalletSwitches(c)
  PROVE  InjInv'
<1> DEFINE t == injTasks[c]
           w == t.wallet
           same == injWallet[w].chain = t.chain
           sessions == IF same THEN injSessions ELSE OnChain(w, t.chain, injSessions)
           chains == <<t.chain>> \o Excluding(sessions[t.of].chains, t.chain)
           account == Requalified(t.chain, t)
<1>1. Busy(t, injSessions, activeSessions) /\ t.pc = "switch"
  BY IdleIs DEF InjInv, WalletSwitches, InjAt
<1>2. /\ injSessions' = [sessions EXCEPT ![t.of].chains = chains, ![t.of].account = account]
      /\ activeSessions' = IF t.record THEN [activeSessions EXCEPT ![w].chains = chains, ![w].account = account]
                           ELSE IF same THEN activeSessions ELSE OnIndex(w, sessions)
      /\ UNCHANGED <<discovered, listening>> /\ injTasks' = [injTasks EXCEPT ![c] = Idle]
  BY DEF WalletSwitches, Await
<1>3. chains[1] = t.chain /\ account[1] = t.chain
  BY DEF Requalified
<1>4. w \in InjWallets /\ t.of \in InjSessions /\ t.chain \in InjChains /\ IsInjSession(injSessions[t.of])
      /\ (t.record => IsInjSession(activeSessions[w])) /\ t.record \in BOOLEAN
  BY <1>1 DEF Busy
<1>5. DOMAIN sessions = InjSessions /\ KeptSessions(injSessions, sessions)
  BY <1>4, OnChainIs DEF KeptSessions, InjInv
<1> HIDE DEF account, sessions, same
<1>6. IsInjSession(sessions[t.of])
  BY <1>4, <1>5 DEF KeptSessions
<1>17. chains \in Seq(InjChains)
  <2> DEFINE chain == t.chain
             rest == Excluding(sessions[t.of].chains, chain)
  <2>1. rest \in Seq(InjChains) /\ chain \in InjChains
    BY <1>4, <1>6, ExcludingIs DEF IsInjSession
  <2>2. chains = <<chain>> \o rest
    OBVIOUS
  <2> HIDE DEF chain, rest, chains
  <2> QED
    BY <2>1, <2>2
<1> HIDE DEF chains
<1> DEFINE of == t.of
<1>7. of \in InjSessions /\ IsInjSession(sessions[of]) /\ account[1] = chains[1] /\ chains \in Seq(InjChains)
      /\ injSessions' = [sessions EXCEPT ![of].chains = chains, ![of].account = account]
  BY <1>2, <1>3, <1>4, <1>6, <1>17
<1> HIDE DEF of
<1>8. DOMAIN injSessions' = InjSessions /\ IsInjSession(injSessions'[of])
      /\ \A s \in InjSessions : s # of => injSessions'[s] = sessions[s]
  BY <1>5, <1>7 DEF IsInjSession
<1>9. KeptSessions(injSessions, injSessions')
  BY <1>5, <1>8 DEF KeptSessions
<1>10. DOMAIN activeSessions' = InjWallets /\ \A v \in InjWallets : KeptRecord(v, activeSessions, activeSessions')
  <2>0. DOMAIN activeSessions = InjWallets
    BY DEF InjInv
  <2>1. CASE t.record = TRUE
    <3> HIDE DEF w, t
    <3>1. activeSessions' = [activeSessions EXCEPT ![w].chains = chains, ![w].account = account]
      BY <1>2, <2>1
    <3>2. IsInjSession(activeSessions[w])
      BY <1>4, <2>1
    <3>3. DOMAIN activeSessions' = InjWallets /\ IsInjSession(activeSessions'[w])
          /\ \A v \in InjWallets : v # w => activeSessions'[v] = activeSessions[v]
      BY <1>4, <1>7, <2>0, <3>1, <3>2 DEF IsInjSession
    <3> QED
      BY <3>3 DEF KeptRecord
  <2>2. CASE t.record = FALSE
    <3> HIDE DEF t
    <3>1. activeSessions' = IF same THEN activeSessions ELSE OnIndex(w, sessions)
      BY <1>2, <2>2
    <3> QED
      BY <1>4, <1>5, <2>0, <3>1, OnIndexIs DEF KeptRecord
  <2> QED
    BY <1>4, <2>1, <2>2
<1>11. /\ DOMAIN injTasks' = InjCalls /\ injTasks'[c] = Idle
       /\ \A d \in InjCalls : injTasks'[d] = Idle \/ injTasks'[d] = injTasks[d]
  BY <1>2 DEF InjInv
<1>12. \A d \in InjCalls : injTasks[d] # Idle => Busy(injTasks[d], injSessions, activeSessions)
  BY DEF InjInv
<1>13. \A d \in InjCalls : injTasks[d] # Idle => injTasks[d].wallet \in InjWallets
  BY <1>12 DEF Busy
<1>14. \A d \in InjCalls : injTasks[d] # Idle => Busy(injTasks[d], injSessions', activeSessions')
  BY <1>9, <1>10, <1>12, <1>13, BusyKept
<1>15. \A d \in InjCalls : injTasks'[d] = Idle \/ Busy(injTasks'[d], injSessions', activeSessions')
  BY <1>11, <1>14, Zenon
<1>16. discovered' \in Seq(InjWallets) /\ listening' \in [InjWallets -> Seq(InjSessions)]
       /\ KeptHandlers(listening, listening', injSessions')
  BY <1>2 DEF InjInv, KeptHandlers
<1> QED
  BY <1>8, <1>9, <1>10, <1>11, <1>15, <1>16, InjFrame

\* The steps of a call that makes or renews a session.
LEMMA ConnectStep ==
  ASSUME InjInv, NEW c \in InjCalls, NEW input, InjConnect(c, input) \/ ConnectAccounts(c)
  PROVE  InjInv'
<1>1. CASE InjConnect(c, input)
  <2> PICK w \in Chosen(input) : Await(c, [pc |-> "accounts", wallet |-> w, record |-> FALSE])
    BY <1>1 DEF InjConnect
  <2> DEFINE u == [pc |-> "accounts", wallet |-> w, record |-> FALSE]
  <2>1. Busy(u, injSessions, activeSessions)
    BY ChosenIs DEF Busy
  <2>2. UNCHANGED <<discovered, injSessions, activeSessions, listening>>
    BY <1>1 DEF InjConnect, index
  <2> QED
    BY <2>1, <2>2, InjCallStep
<1>2. CASE ConnectAccounts(c)
  <2> DEFINE t == injTasks[c]
             u == [pc |-> "chain", wallet |-> t.wallet, record |-> t.record, address |-> injWallet[t.wallet].account]
  <2>1. Busy(t, injSessions, activeSessions)
    BY <1>2, IdleIs DEF InjInv, ConnectAccounts, InjAt
  <2>2. t.wallet \in InjWallets /\ t.record \in BOOLEAN
    BY <2>1 DEF Busy
  <2>3. Busy(u, injSessions, activeSessions)
    BY <2>2 DEF Busy
  <2>4. UNCHANGED <<discovered, injSessions, activeSessions, listening>>
    BY <1>2 DEF ConnectAccounts, index
  <2>5. Await(c, Idle) \/ Await(c, u)
    BY <1>2 DEF ConnectAccounts
  <2> HIDE DEF u
  <2> QED
    BY <2>3, <2>4, <2>5, InjCallStep
<1> QED
  BY <1>1, <1>2

LEMMA ConnectChainStep ==
  ASSUME InjInv, InjWalletTypes, NEW c \in InjCalls, NEW s \in InjSessions, NEW required, ConnectChain(c, s, required)
  PROVE  InjInv'
<1> DEFINE t == injTasks[c]
           w == t.wallet
           chain == injWallet[w].chain
           made == [wallet |-> w, chains |-> <<chain>>, account |-> <<chain, t.address>>]
<1>1. Busy(t, injSessions, activeSessions)
  BY IdleIs DEF InjInv, ConnectChain, InjAt
<1>2. w \in InjWallets
  BY <1>1 DEF Busy
<1>3. CASE chain \notin required
  <2>1. Await(c, Idle) /\ UNCHANGED <<discovered, injSessions, activeSessions, listening>>
    BY <1>3 DEF ConnectChain, index
  <2> QED
    BY <2>1, InjCallStep
<1>4. CASE chain \in required
  <2>1. /\ injSessions' = [injSessions EXCEPT ![s] = made]
        /\ activeSessions' = [activeSessions EXCEPT ![w] = made]
        /\ listening' = [listening EXCEPT ![w] = Append(@, s)]
        /\ injTasks' = Detached(w, [injTasks EXCEPT ![c] = Idle]) /\ UNCHANGED discovered
    BY <1>4 DEF ConnectChain, NewHandlers
  <2>2. IsInjSession(made)
    <3>1. chain \in InjChains
      BY <1>2 DEF InjWalletTypes
    <3> HIDE DEF chain
    <3> QED
      BY <1>2, <3>1 DEF IsInjSession
  <2> HIDE DEF made, w
  <2>3. DOMAIN injSessions' = InjSessions /\ injSessions'[s] = made
        /\ \A x \in InjSessions : x # s => injSessions'[x] = injSessions[x]
    BY <2>1 DEF InjInv
  <2>4. KeptSessions(injSessions, injSessions') /\ IsInjSession(injSessions'[s])
    BY <2>2, <2>3 DEF KeptSessions
  <2>5. listening \in [InjWallets -> Seq(InjSessions)] /\ KeptHandlers(listening, listening, injSessions')
    BY DEF InjInv, KeptHandlers
  <2>6. listening' = [listening EXCEPT ![w] = Append(listening[w], s)]
    BY <2>1
  <2>7. listening' \in [InjWallets -> Seq(InjSessions)] /\ KeptHandlers(listening, listening', injSessions')
    BY <1>2, <2>4, <2>5, <2>6, JoinedIs
  <2> QED
    BY <1>2, <2>1, <2>2, <2>3, <2>4, <2>7, InjIndexStep
<1> QED
  BY <1>3, <1>4

LEMMA ReconnectStep ==
  ASSUME InjInv, InjWalletTypes, NEW c \in InjCalls, NEW s \in InjSessions, InjReconnect(c, s) \/ ReconnectChain(c)
  PROVE  InjInv'
<1>1. CASE InjReconnect(c, s)
  <2> DEFINE w == injSessions[s].wallet
             address == injWallet[w].account
             u == [pc |-> "rechain", wallet |-> w, record |-> FALSE, of |-> s, address |-> address]
  <2>1. IsInjSession(injSessions[s])
    BY <1>1 DEF InjReconnect, InjInv
  <2>2. w \in InjWallets
    BY <2>1 DEF IsInjSession
  <2>3. Await(c, u) /\ UNCHANGED <<discovered, injSessions, activeSessions, listening>>
    BY <1>1 DEF InjReconnect, index
  <2> HIDE DEF w, address
  <2>4. Busy(u, injSessions, activeSessions)
    BY <2>1, <2>2 DEF Busy
  <2> HIDE DEF u
  <2> QED
    BY <2>3, <2>4, InjCallStep
<1>2. CASE ReconnectChain(c)
  <2> DEFINE t == injTasks[c]
             w == t.wallet
             of == t.of
             chain == injWallet[w].chain
             made == [wallet |-> w, chains |-> <<chain>>, account |-> <<chain, t.address>>]
  <2>1. Busy(t, injSessions, activeSessions) /\ t.pc = "rechain"
    BY <1>2, IdleIs DEF InjInv, ReconnectChain, InjAt
  <2>2. w \in InjWallets /\ of \in InjSessions
    BY <2>1 DEF Busy
  <2>3. /\ injSessions' = [injSessions EXCEPT ![of] = made]
        /\ activeSessions' = [activeSessions EXCEPT ![w] = made]
        /\ listening' = [listening EXCEPT ![w] = Append(Without(w)[w], of)]
        /\ injTasks' = Detached(w, [injTasks EXCEPT ![c] = Idle]) /\ UNCHANGED discovered
    BY <1>2 DEF ReconnectChain
  <2>4. IsInjSession(made)
    <3>1. chain \in InjChains
      BY <2>2 DEF InjWalletTypes
    <3> HIDE DEF chain
    <3> QED
      BY <2>2, <3>1 DEF IsInjSession
  <2> HIDE DEF made, w, of
  <2>5. DOMAIN injSessions' = InjSessions /\ injSessions'[of] = made
        /\ \A x \in InjSessions : x # of => injSessions'[x] = injSessions[x]
    BY <2>2, <2>3 DEF InjInv
  <2>6. KeptSessions(injSessions, injSessions') /\ IsInjSession(injSessions'[of])
    BY <2>4, <2>5 DEF KeptSessions
  <2>7. Without(w) \in [InjWallets -> Seq(InjSessions)] /\ KeptHandlers(listening, Without(w), injSessions')
    BY <2>2, WithoutIs
  <2>8. listening' \in [InjWallets -> Seq(InjSessions)] /\ KeptHandlers(listening, listening', injSessions')
    BY <2>2, <2>3, <2>6, <2>7, JoinedIs
  <2> QED
    BY <2>2, <2>3, <2>4, <2>5, <2>6, <2>8, InjIndexStep
<1> QED
  BY <1>1, <1>2

\* The steps of a switch that is asked for, and of a wallet that lacks the chain.
LEMMA SwitchStep ==
  ASSUME InjInv, NEW c \in InjCalls, NEW s \in InjSessions, NEW chain \in InjChains,
         InjSwitchChain(c, s, chain) \/ WalletLacksChain(c)
  PROVE  InjInv'
<1>1. CASE InjSwitchChain(c, s, chain)
  <2> DEFINE w == injSessions[s].wallet
             address == injSessions[s].account[2]
             u == [pc |-> "switch", wallet |-> w, record |-> TRUE, of |-> s, chain |-> chain,
                   address |-> address, retried |-> FALSE]
  <2>1. IsInjSession(injSessions[s])
    BY <1>1 DEF InjSwitchChain, FindActive, InjInv
  <2>2. w \in InjWallets /\ activeSessions[w] # None
    BY <1>1, <2>1 DEF IsInjSession, InjSwitchChain, FindActive
  <2>3. IsInjSession(activeSessions[w])
    BY <2>2 DEF InjInv
  <2>4. Await(c, u) /\ UNCHANGED <<discovered, injSessions, activeSessions, listening>>
    BY <1>1 DEF InjSwitchChain, index
  <2> HIDE DEF w, address
  <2>5. Busy(u, injSessions, activeSessions)
    BY <2>1, <2>2, <2>3 DEF Busy
  <2> HIDE DEF u
  <2> QED
    BY <2>4, <2>5, InjCallStep
<1>2. CASE WalletLacksChain(c)
  <2> DEFINE t == injTasks[c]
             u == [t EXCEPT !.retried = TRUE]
  <2>1. Busy(t, injSessions, activeSessions) /\ t.pc = "switch"
    BY <1>2, IdleIs DEF InjInv, WalletLacksChain, InjAt
  <2>2. Await(c, Idle) \/ Await(c, u)
    BY <1>2 DEF WalletLacksChain
  <2>3. UNCHANGED <<discovered, injSessions, activeSessions, listening>>
    BY <1>2 DEF WalletLacksChain, index
  <2> HIDE DEF t
  <2>4. DOMAIN u = DOMAIN t /\ (\A f \in DOMAIN t : f # "retried" => u[f] = t[f])
    OBVIOUS
  <2>5. {"pc", "wallet", "record", "of", "address", "chain"} \subseteq DOMAIN t
    BY <2>1 DEF Busy
  <2> HIDE DEF u
  <2>6. u.pc = t.pc /\ u.wallet = t.wallet /\ u.record = t.record /\ u.of = t.of /\ u.chain = t.chain
    BY <2>4, <2>5
  <2>7. Busy(u, injSessions, activeSessions)
    BY <2>1, <2>4, <2>6 DEF Busy
  <2> QED
    BY <2>2, <2>3, <2>7, InjCallStep
<1> QED
  BY <1>1, <1>2

\* A batch goes on, one by one, only after a call the wallet did or did not support.
LEMMA BatchLogIs ==
  ASSUME NEW log \in Seq(BatchAnswers), Len(log) > 0, NEW answer \in BatchAnswers
  PROVE  LET set == [log EXCEPT ![Len(log)] = answer]
             next == Append(set, "asked")
         IN  /\ set \in Seq(BatchAnswers) /\ Len(set) = Len(log) /\ set[Len(log)] = answer
             /\ \A i \in 1 .. Len(log) - 1 : set[i] = log[i]
             /\ next \in Seq(BatchAnswers) /\ Len(next) = Len(log) + 1
             /\ \A i \in 1 .. Len(log) : next[i] = set[i]
<1> DEFINE set == [log EXCEPT ![Len(log)] = answer]
<1>1. Len(log) \in Nat /\ Len(log) \in 1 .. Len(log)
  OBVIOUS
<1>2. set \in Seq(BatchAnswers) /\ Len(set) = Len(log) /\ set[Len(log)] = answer
      /\ \A i \in 1 .. Len(log) - 1 : set[i] = log[i]
  BY <1>1
<1> HIDE DEF set
<1>0. "asked" \in BatchAnswers
  BY DEF BatchAnswers
<1>3. /\ Append(set, "asked") \in Seq(BatchAnswers) /\ Len(Append(set, "asked")) = Len(log) + 1
      /\ \A i \in 1 .. Len(log) : Append(set, "asked")[i] = set[i]
  BY <1>0, <1>1, <1>2
<1> QED
  BY <1>2, <1>3 DEF set

\* The log of a batch whose calls are sent one by one.
OneByOne(log) ==
  /\ log \in Seq(BatchAnswers) /\ Len(log) > 1 /\ log[1] = "unsupported"
  /\ \A i \in 2 .. Len(log) - 1 : log[i] = "done"

\* What is added to a log once its last request is answered.
GoesOn(old, answer, log, next) ==
  /\ old \in Seq(BatchAnswers) /\ next \in Seq(BatchAnswers)
  /\ (Len(old) = 1 /\ answer = "unsupported") \/ (OneByOne(old) /\ answer = "done")
  /\ log[Len(old)] = answer /\ \A i \in 1 .. Len(old) - 1 : log[i] = old[i]
  /\ Len(next) = Len(old) + 1 /\ \A i \in 1 .. Len(old) : next[i] = log[i]

LEMMA BatchGoesOn ==
  ASSUME NEW old, NEW answer, NEW log, NEW next, GoesOn(old, answer, log, next)
  PROVE  OneByOne(next)
<1> USE DEF GoesOn
<1>1. Len(old) > 0 /\ Len(old) \in Nat
  BY DEF OneByOne
<1>2. CASE Len(old) = 1 /\ answer = "unsupported"
  BY <1>1, <1>2 DEF OneByOne
<1>3. CASE OneByOne(old) /\ answer = "done"
  <2>1. Len(next) > 1 /\ next[1] = "unsupported"
    BY <1>1, <1>3 DEF OneByOne
  <2>2. ASSUME NEW i \in 2 .. Len(next) - 1 PROVE next[i] = "done"
    <3>1. i \in 2 .. Len(old) /\ next[i] = log[i]
      BY <1>1
    <3>2. CASE i = Len(old)
      BY <1>3, <3>1, <3>2
    <3>3. CASE i # Len(old)
      BY <1>1, <1>3, <3>1, <3>3 DEF OneByOne
    <3> QED
      BY <3>2, <3>3
  <2> QED
    BY <2>1, <2>2 DEF OneByOne
<1> QED
  BY <1>2, <1>3

LEMMA LastRequestIs ==
  ASSUME NEW old \in Seq(BatchAnswers), Len(old) = 1 \/ OneByOne(old)
  PROVE  Len(old) > 0
<1>1. Len(old) \in Nat
  OBVIOUS
<1>2. Len(old) = 1 \/ Len(old) > 1
  BY DEF OneByOne
<1> QED
  BY <1>1, <1>2

LEMMA BatchStep ==
  ASSUME InjInv, NEW c \in InjCalls, NEW answer \in {"done", "no id", "rejected", "unsupported"},
         BatchAnswered(c, answer)
  PROVE  InjInv'
<1> DEFINE t == injTasks[c]
           log == [t.log EXCEPT ![Len(t.log)] = answer]
           next == Append(log, "asked")
           ran == IF answer = "done" THEN t.ran \cup {injWallet[t.wallet].chain} ELSE t.ran
           u == [t EXCEPT !.pc = "one by one", !.log = next, !.ran = ran]
<1>1. Busy(t, injSessions, activeSessions) /\ t.pc \in {"batch", "one by one"}
  BY IdleIs DEF InjInv, BatchAnswered
<1>2. BatchLog(t) /\ {"pc", "wallet", "record", "log", "items", "atomic", "ran", "chain"} \subseteq DOMAIN t
      /\ t.wallet \in InjWallets /\ t.record \in BOOLEAN
  BY <1>1 DEF Busy
<1>3. UNCHANGED <<discovered, injSessions, activeSessions, listening>>
  BY DEF BatchAnswered, index
<1>4. CASE Await(c, Idle)
  BY <1>3, <1>4, InjCallStep
<1>5. CASE /\ Await(c, u)
           /\ \/ t.pc = "batch" /\ answer = "unsupported"
              \/ t.pc = "one by one" /\ answer = "done"
  <2> DEFINE old == t.log
  <2>0. /\ old \in Seq(BatchAnswers)
        /\ (Len(old) = 1 /\ answer = "unsupported") \/ (OneByOne(old) /\ answer = "done")
    <3>1. CASE t.pc = "batch"
      BY <1>2, <1>5, <3>1 DEF BatchLog
    <3>2. CASE t.pc = "one by one"
      BY <1>2, <1>5, <3>2 DEF BatchLog, OneByOne
    <3> QED
      BY <1>1, <3>1, <3>2
  <2>1. answer \in BatchAnswers
    BY DEF BatchAnswers
  <2> HIDE DEF old
  <2>2. Len(old) > 0
    BY <2>0, LastRequestIs
  <2> USE DEF old
  <2>3. GoesOn(old, answer, log, next)
    BY <2>0, <2>1, <2>2, BatchLogIs DEF GoesOn
  <2> HIDE DEF next, log, ran, old
  <2>4. next \in Seq(BatchAnswers) /\ OneByOne(next)
    BY <2>3, BatchGoesOn DEF GoesOn
  <2> HIDE DEF t
  <2>6. DOMAIN u = DOMAIN t /\ (\A f \in DOMAIN t : f \notin {"pc", "log", "ran"} => u[f] = t[f])
    OBVIOUS
  <2>7. u.pc = "one by one" /\ u.log = next /\ u.wallet = t.wallet /\ u.record = t.record
    BY <1>2, <2>6
  <2> HIDE DEF u
  <2>8. BatchLog(u)
    BY <2>4, <2>7 DEF BatchLog, OneByOne
  <2>9. Busy(u, injSessions, activeSessions)
    BY <1>2, <2>6, <2>7, <2>8 DEF Busy
  <2> QED
    BY <1>3, <1>5, <2>9, InjCallStep
<1> QED
  BY <1>4, <1>5 DEF BatchAnswered, InjAt, MayFallBack

LEMMA SendCallsStep ==
  ASSUME InjInv, NEW c \in InjCalls, NEW s \in InjSessions, NEW items, NEW atomic, NEW chain,
         InjSendCalls(c, s, items, atomic, chain)
  PROVE  InjInv'
<1> DEFINE w == injSessions[s].wallet
           on == injSessions[s].chains[1]
           u == [pc |-> "batch", wallet |-> w, record |-> TRUE, items |-> items, atomic |-> atomic,
                 chain |-> on, log |-> <<"asked">>, ran |-> {}]
<1>1. IsInjSession(injSessions[s])
  BY DEF InjSendCalls, FindActive, InjInv
<1>2. w \in InjWallets
  BY <1>1 DEF IsInjSession
<1>3. Await(c, u) /\ UNCHANGED <<discovered, injSessions, activeSessions, listening>>
  BY DEF InjSendCalls, index
<1> HIDE DEF w, on
<1>4. BatchLog(u)
  BY DEF BatchLog, BatchAnswers
<1>5. Busy(u, injSessions, activeSessions)
  BY <1>2, <1>4 DEF Busy
<1> HIDE DEF u
<1> QED
  BY <1>3, <1>5, InjCallStep

\* Events that touch no session, and those of a wallet that changes its chain or its
\* permissions.
LEMMA QuietStep ==
  ASSUME InjInv,
         \/ UNCHANGED injVars
         \/ \E w \in InjWallets : Announce(w) \/ PermissionsChanged(w)
         \/ \E s \in InjSessions : \E chain \in InjChains : AsksOnce(s, None, chain)
  PROVE  InjInv'
<1>1. UNCHANGED <<injSessions, activeSessions, listening, injTasks>>
  BY DEF injVars, index, Announce, PermissionsChanged, AsksOnce
<1>2. discovered' = discovered \/ \E w \in InjWallets : discovered' = Append(discovered, w)
  BY DEF injVars, Announce, PermissionsChanged, AsksOnce
<1>3. discovered' \in Seq(InjWallets)
  <2>1. discovered \in Seq(InjWallets)
    BY DEF InjInv
  <2> QED
    BY <1>2, <2>1
<1>4. DOMAIN injSessions' = InjSessions /\ KeptSessions(injSessions, injSessions') /\ DOMAIN activeSessions' = InjWallets
      /\ \A w \in InjWallets : KeptRecord(w, activeSessions, activeSessions')
  BY <1>1 DEF InjInv, KeptSessions, KeptRecord
<1> QED
  BY <1>1, <1>3, <1>4, InjEventStep

LEMMA WalletEventStep ==
  ASSUME InjInv, NEW w \in InjWallets, NEW chain \in InjChains, PermissionsAnswered(w) \/ InjChainChanged(w, chain)
  PROVE  InjInv'
<1>1. CASE PermissionsAnswered(w)
  <2>1. /\ UNCHANGED <<discovered, injSessions, listening>> /\ injTasks' = Detached(w, injTasks)
        /\ activeSessions' = [activeSessions EXCEPT ![w] = None]
    BY <1>1 DEF PermissionsAnswered
  <2>2. DOMAIN injSessions' = InjSessions /\ KeptSessions(injSessions, injSessions')
        /\ listening' \in [InjWallets -> Seq(InjSessions)] /\ KeptHandlers(listening, listening', injSessions')
    BY <2>1 DEF InjInv, KeptSessions, KeptHandlers
  <2> QED
    BY <2>1, <2>2, InjIndexStep
<1>2. CASE InjChainChanged(w, chain)
  <2>1. /\ injSessions' = OnChain(w, chain, injSessions) /\ activeSessions' = OnIndex(w, injSessions')
        /\ UNCHANGED <<discovered, listening, injTasks>>
    BY <1>2 DEF InjChainChanged
  <2>2. DOMAIN injSessions' = InjSessions /\ KeptSessions(injSessions, injSessions')
    BY <2>1, OnChainIs
  <2>3. DOMAIN activeSessions' = InjWallets /\ \A v \in InjWallets : KeptRecord(v, activeSessions, activeSessions')
    BY <2>1, <2>2, OnIndexIs
  <2>4. discovered' \in Seq(InjWallets)
    BY <2>1 DEF InjInv
  <2> QED
    BY <2>1, <2>2, <2>3, <2>4, InjEventStep
<1> QED
  BY <1>1, <1>2

LEMMA InjStep == ASSUME InjInv, InjWalletTypes, [InjNext]_injVars PROVE InjInv'
<1>1. CASE UNCHANGED injVars
  BY <1>1, QuietStep
<1>2. CASE Clear
  BY <1>2, ClearStep
<1>3. ASSUME NEW w \in InjWallets, Announce(w) \/ PermissionsChanged(w) PROVE InjInv'
  BY <1>3, QuietStep
<1>4. ASSUME NEW w \in InjWallets, NEW chain \in InjChains, PermissionsAnswered(w) \/ InjChainChanged(w, chain)
      PROVE  InjInv'
  BY <1>4, WalletEventStep
<1>5. ASSUME NEW w \in InjWallets, PermissionsAnswered(w) PROVE InjInv'
  <2>1. injWallet[w].chain \in InjChains
    BY DEF InjWalletTypes
  <2> QED
    BY <1>5, <2>1, WalletEventStep
<1>6. ASSUME NEW w \in InjWallets, NEW address, InjAccountsChanged(w, address) PROVE InjInv'
  BY <1>6, AccountsChangedStep
<1>7. ASSUME NEW s \in InjSessions, InjDisconnect(s) PROVE InjInv'
  BY <1>7, DropsStep DEF InjDisconnect
<1>8. ASSUME NEW s \in InjSessions, NEW chain \in InjChains, AsksOnce(s, None, chain) PROVE InjInv'
  BY <1>8, QuietStep
<1>9. ASSUME NEW c \in InjCalls, NEW input, InjConnect(c, input) \/ ConnectAccounts(c) PROVE InjInv'
  BY <1>9, ConnectStep
<1>10. ASSUME NEW c \in InjCalls, ConnectAccounts(c) PROVE InjInv'
  BY <1>10, ConnectStep
<1>11. ASSUME NEW c \in InjCalls, NEW s \in InjSessions, NEW required, ConnectChain(c, s, required) PROVE InjInv'
  BY <1>11, ConnectChainStep
<1>12. ASSUME NEW c \in InjCalls, NEW s \in InjSessions, InjReconnect(c, s) PROVE InjInv'
  BY <1>12, ReconnectStep
<1>13. ASSUME NEW c \in InjCalls, ReconnectChain(c) PROVE InjInv'
  <2>1. CASE InjSessions = {}
    <3>1. Busy(injTasks[c], injSessions, activeSessions) /\ injTasks[c].pc = "rechain"
      BY <1>13, IdleIs DEF InjInv, ReconnectChain, InjAt
    <3> QED
      BY <2>1, <3>1 DEF Busy
  <2>2. CASE InjSessions # {}
    BY <1>13, <2>2, ReconnectStep
  <2> QED
    BY <2>1, <2>2
<1>14. ASSUME NEW c \in InjCalls, WalletSwitches(c) PROVE InjInv'
  BY <1>14, SwitchesStep
<1>15. ASSUME NEW c \in InjCalls, NEW s \in InjSessions, NEW chain \in InjChains, InjSwitchChain(c, s, chain)
       PROVE  InjInv'
  BY <1>15, SwitchStep
<1>16. ASSUME NEW c \in InjCalls, WalletLacksChain(c) PROVE InjInv'
  <2>1. Busy(injTasks[c], injSessions, activeSessions) /\ injTasks[c].pc = "switch"
    BY <1>16, IdleIs DEF InjInv, WalletLacksChain, InjAt
  <2>2. injTasks[c].of \in InjSessions /\ injTasks[c].chain \in InjChains
    BY <2>1 DEF Busy
  <2> QED
    BY <1>16, <2>2, SwitchStep
<1>17. ASSUME NEW c \in InjCalls, NEW s \in InjSessions, NEW items, NEW atomic, NEW chain,
              InjSendCalls(c, s, items, atomic, chain)
       PROVE  InjInv'
  BY <1>17, SendCallsStep
<1>18. ASSUME NEW c \in InjCalls, NEW answer \in {"done", "no id", "rejected", "unsupported"}, BatchAnswered(c, answer)
       PROVE  InjInv'
  BY <1>18, BatchStep
<1> QED
  BY <1>1, <1>2, <1>3, <1>4, <1>5, <1>6, <1>7, <1>8, <1>9, <1>10, <1>11, <1>12, <1>13, <1>14, <1>15, <1>16,
     <1>17, <1>18, Zenon DEF InjNext

\* A wallet changes in what the user, a switch or an approval sets, and the stored
\* handlers are of a session that is there.
LEMMA InjWalletTypesStep ==
  ASSUME InjInv, InjWalletTypes, [InjNext]_injVars
  PROVE  InjWalletTypes'
<1> DEFINE WalletRecord == [chain : InjChains, account : InjAddresses \union {None}, permitted : BOOLEAN,
                            knows : SUBSET InjChains]
<1>1. injWallet \in [InjWallets -> WalletRecord] /\ storedHandlers \in [InjWallets -> InjSessions \cup {None}]
  BY DEF InjWalletTypes
<1>2. ASSUME NEW w \in InjWallets, NEW chain \in InjChains
      PROVE  [injWallet EXCEPT ![w].chain = chain] \in [InjWallets -> WalletRecord]
  BY <1>1
<1>3. ASSUME NEW w \in InjWallets, NEW address \in InjAddresses \union {None}
      PROVE  [injWallet EXCEPT ![w].account = address] \in [InjWallets -> WalletRecord]
  BY <1>1
<1>4. ASSUME NEW w \in InjWallets, NEW allowed \in BOOLEAN
      PROVE  [injWallet EXCEPT ![w].permitted = allowed] \in [InjWallets -> WalletRecord]
  BY <1>1
<1>5. ASSUME NEW w \in InjWallets, NEW chain \in InjChains
      PROVE  [injWallet EXCEPT ![w].knows = @ \union {chain}] \in [InjWallets -> WalletRecord]
  <2>1. injWallet[w].knows \union {chain} \in SUBSET InjChains
    BY <1>1
  <2> QED
    BY <1>1, <2>1
<1>6. ASSUME NEW w \in InjWallets, NEW s \in InjSessions \cup {None}
      PROVE  [storedHandlers EXCEPT ![w] = s] \in [InjWallets -> InjSessions \cup {None}]
  BY <1>1
<1>7. [w \in InjWallets |-> None] \in [InjWallets -> InjSessions \cup {None}]
  OBVIOUS
<1>8. ASSUME NEW c \in InjCalls, injTasks[c] # Idle
      PROVE  Busy(injTasks[c], injSessions, activeSessions)
  BY <1>8 DEF InjInv
<1>9. ASSUME NEW s \in InjSessions, Drops(s) PROVE storedHandlers' \in [InjWallets -> InjSessions \cup {None}]
  <2>1. CASE FindActive(s)
    <3>1. injSessions[s].wallet \in InjWallets
      BY <2>1 DEF FindActive, InjInv, IsInjSession
    <3> QED
      BY <1>6, <1>9, <2>1, <3>1 DEF Drops, RemoveHandlers
  <2>2. CASE ~FindActive(s)
    BY <1>1, <1>9, <2>2 DEF Drops, index
  <2> QED
    BY <2>1, <2>2
<1>10. ASSUME injWallet' \in [InjWallets -> WalletRecord], storedHandlers' \in [InjWallets -> InjSessions \cup {None}]
       PROVE  InjWalletTypes'
  BY <1>10 DEF InjWalletTypes
<1> HIDE DEF WalletRecord
<1>11. CASE UNCHANGED <<injWallet, storedHandlers>>
  BY <1>1, <1>10, <1>11
<1>12. ASSUME NEW c \in InjCalls, injTasks[c].pc \in {"accounts", "chain", "rechain", "switch"}
       PROVE  /\ injTasks[c].wallet \in InjWallets
              /\ injTasks[c].pc \in {"rechain", "switch"} => injTasks[c].of \in InjSessions
              /\ injTasks[c].pc = "switch" => injTasks[c].chain \in InjChains
  BY <1>8, <1>12, IdleIs DEF Busy
<1>13. CASE Clear
  BY <1>1, <1>7, <1>10, <1>13 DEF Clear
<1>14. ASSUME NEW w \in InjWallets, Announce(w) \/ PermissionsChanged(w) \/ PermissionsAnswered(w)
       PROVE  InjWalletTypes'
  BY <1>1, <1>4, <1>10, <1>14 DEF Announce, PermissionsChanged, PermissionsAnswered, index
<1>15. ASSUME NEW w \in InjWallets, NEW chain \in InjChains, InjChainChanged(w, chain) PROVE InjWalletTypes'
  BY <1>1, <1>2, <1>10, <1>15 DEF InjChainChanged
<1>16. ASSUME NEW w \in InjWallets, NEW address \in InjAddresses \union {None}, InjAccountsChanged(w, address)
       PROVE  InjWalletTypes'
  <2>1. injWallet' \in [InjWallets -> WalletRecord]
    BY <1>3, <1>16 DEF InjAccountsChanged
  <2>2. \A s \in ToSet(listening[w]) : s \in InjSessions
    BY DEF InjInv, ToSet
  <2>3. \/ UNCHANGED storedHandlers
        \/ /\ \E s \in ToSet(listening[w]) : FindActive(s)
           /\ Drops(CHOOSE s \in ToSet(listening[w]) : FindActive(s))
    BY <1>16, Zenon DEF InjAccountsChanged, index
  <2>4. storedHandlers' \in [InjWallets -> InjSessions \cup {None}]
    BY <1>1, <1>9, <2>2, <2>3
  <2> QED
    BY <1>10, <2>1, <2>4
<1>17. ASSUME NEW s \in InjSessions, InjDisconnect(s) PROVE InjWalletTypes'
  BY <1>1, <1>9, <1>10, <1>17 DEF InjDisconnect
<1>18. ASSUME NEW c \in InjCalls, ConnectAccounts(c) PROVE InjWalletTypes'
  <2>1. injTasks[c].wallet \in InjWallets
    BY <1>12, <1>18 DEF ConnectAccounts, InjAt
  <2>2. UNCHANGED injWallet \/ injWallet' = [injWallet EXCEPT ![injTasks[c].wallet].permitted = TRUE]
    BY <1>18, Zenon DEF ConnectAccounts
  <2>3. UNCHANGED storedHandlers
    BY <1>18 DEF ConnectAccounts, index
  <2> QED
    BY <1>1, <1>4, <1>10, <2>1, <2>2, <2>3
<1>19. ASSUME NEW c \in InjCalls, NEW s \in InjSessions, NEW required, ConnectChain(c, s, required)
       PROVE  InjWalletTypes'
  <2>1. injTasks[c].wallet \in InjWallets
    BY <1>12, <1>19 DEF ConnectChain, InjAt
  <2>2. UNCHANGED storedHandlers \/ storedHandlers' = [storedHandlers EXCEPT ![injTasks[c].wallet] = s]
    BY <1>19, Zenon DEF ConnectChain, NewHandlers, index
  <2>3. UNCHANGED injWallet
    BY <1>19 DEF ConnectChain
  <2> QED
    BY <1>1, <1>6, <1>10, <2>1, <2>2, <2>3
<1>20. ASSUME NEW c \in InjCalls, ReconnectChain(c) PROVE InjWalletTypes'
  <2>1. injTasks[c].wallet \in InjWallets /\ injTasks[c].of \in InjSessions
    BY <1>12, <1>20 DEF ReconnectChain, InjAt
  <2>2. storedHandlers' = [storedHandlers EXCEPT ![injTasks[c].wallet] = injTasks[c].of] /\ UNCHANGED injWallet
    BY <1>20, Zenon DEF ReconnectChain
  <2> QED
    BY <1>1, <1>6, <1>10, <2>1, <2>2
<1>21. ASSUME NEW c \in InjCalls, WalletSwitches(c) PROVE InjWalletTypes'
  <2>1. injTasks[c].wallet \in InjWallets /\ injTasks[c].chain \in InjChains
    BY <1>12, <1>21 DEF WalletSwitches, InjAt
  <2>2. injWallet' = [injWallet EXCEPT ![injTasks[c].wallet].chain = injTasks[c].chain] /\ UNCHANGED storedHandlers
    BY <1>21, Zenon DEF WalletSwitches
  <2> QED
    BY <1>1, <1>2, <1>10, <2>1, <2>2
<1>22. ASSUME NEW c \in InjCalls, WalletLacksChain(c) PROVE InjWalletTypes'
  <2>1. injTasks[c].wallet \in InjWallets /\ injTasks[c].chain \in InjChains
    BY <1>12, <1>22 DEF WalletLacksChain, InjAt
  <2>2. \/ UNCHANGED injWallet
        \/ injWallet' = [injWallet EXCEPT ![injTasks[c].wallet].knows = @ \union {injTasks[c].chain}]
    BY <1>22, Zenon DEF WalletLacksChain
  <2>3. UNCHANGED storedHandlers
    BY <1>22 DEF WalletLacksChain, index
  <2> QED
    BY <1>1, <1>5, <1>10, <2>1, <2>2, <2>3
<1>23. ASSUME NEW c \in InjCalls, NEW s \in InjSessions, NEW chain,
              InjReconnect(c, s) \/ InjSwitchChain(c, s, chain)
       PROVE  InjWalletTypes'
  BY <1>11, <1>23 DEF InjReconnect, InjSwitchChain, index
<1>24. ASSUME NEW c \in InjCalls, NEW s \in InjSessions, NEW items, NEW atomic, NEW chain,
              InjSendCalls(c, s, items, atomic, chain)
       PROVE  InjWalletTypes'
  BY <1>11, <1>24 DEF InjSendCalls, index
<1>25. ASSUME NEW c \in InjCalls, NEW answer, BatchAnswered(c, answer) PROVE InjWalletTypes'
  BY <1>11, <1>25, Zenon DEF BatchAnswered, index
<1>26. ASSUME NEW c \in InjCalls, NEW input, InjConnect(c, input) PROVE InjWalletTypes'
  BY <1>11, <1>26 DEF InjConnect, index
<1>27. ASSUME NEW s \in InjSessions, NEW chain \in InjChains, AsksOnce(s, None, chain) PROVE InjWalletTypes'
  BY <1>11, <1>27 DEF AsksOnce, injVars
<1>28. CASE UNCHANGED injVars
  BY <1>11, <1>28 DEF injVars, index
<1> QED
  BY <1>13, <1>14, <1>15, <1>16, <1>17, <1>18, <1>19, <1>20, <1>21, <1>22, <1>23, <1>24, <1>25, <1>26, <1>27,
     <1>28, Zenon DEF InjNext

LEMMA InjTyped ==
  /\ InjInit => InjWalletTypes
  /\ InjInv /\ InjWalletTypes => InjTypeOK
<1>1. InjInit => InjWalletTypes
  BY FirstWalletAssumption DEF InjInit, InjWalletTypes
<1>2. ASSUME InjInv, InjWalletTypes PROVE InjTypeOK
  <2>1. ASSUME NEW s \in InjSessions, injSessions[s] # None
        PROVE  injSessions[s].wallet \in InjWallets /\ ToSet(injSessions[s].chains) \subseteq InjChains
    BY <1>2, <2>1 DEF InjInv, IsInjSession, ToSet
  <2>2. ASSUME NEW w \in InjWallets PROVE ToSet(listening[w]) \subseteq InjSessions
    BY <1>2 DEF InjInv, ToSet
  <2>3. ASSUME NEW w \in InjWallets PROVE storedHandlers[w] \in InjSessions \union {None}
    BY <1>2 DEF InjWalletTypes
  <2> QED
    BY <2>1, <2>2, <2>3 DEF InjTypeOK
<1> QED
  BY <1>1, <1>2

LEMMA InjSafe == ASSUME InjInv PROVE AccountsQualified /\ BatchSentOnce
<1>1. AccountsQualified
  BY DEF InjInv, IsInjSession, AccountsQualified
<1>2. ASSUME NEW c \in InjCalls, injTasks[c].pc \in {"batch", "one by one"}
      PROVE  LET log == injTasks[c].log
             IN  \A i \in 1 .. Len(log) - 1 : log[i] # "rejected" /\ (i = 1 => log[i] = "unsupported")
  <2> DEFINE t == injTasks[c]
             log == t.log
  <2>1. BatchLog(t)
    BY <1>2, IdleIs DEF InjInv, Busy
  <2>2. log \in Seq(BatchAnswers)
    BY <2>1 DEF BatchLog
  <2>3. CASE t.pc = "batch"
    <3>1. Len(log) = 1
      BY <2>1, <2>3 DEF BatchLog
    <3> QED
      BY <3>1
  <2>4. CASE t.pc = "one by one"
    <3>1. log[1] = "unsupported" /\ \A i \in 2 .. Len(log) - 1 : log[i] = "done"
      BY <2>1, <2>4 DEF BatchLog
    <3> HIDE DEF log
    <3>2. \A i \in 1 .. Len(log) - 1 : i = 1 \/ i \in 2 .. Len(log) - 1
      BY <2>2
    <3>3. \A i \in 1 .. Len(log) - 1 : log[i] # "rejected" /\ (i = 1 => log[i] = "unsupported")
      BY <3>1, <3>2
    <3> QED
      BY <3>3 DEF log
  <2> QED
    BY <1>2, <2>3, <2>4
<1> QED
  BY <1>1, <1>2 DEF BatchSentOnce
\* The address of a session follows its wallet, because the handlers a wallet calls are
\* those of sessions with it, and so is the session a call writes to.
HoldsAddress(t, sessions) ==
  /\ t.pc \in {"chain", "rechain", "switch"} => "address" \in DOMAIN t /\ t.address \in InjAddresses
  /\ t.pc \in {"rechain", "switch"} => sessions[t.of] \in InjSession /\ sessions[t.of].wallet = t.wallet
FollowInv ==
  /\ \A s \in InjSessions : injSessions[s] \in InjSession \cup {None}
  /\ \A w \in InjWallets : \A s \in ToSet(listening[w]) : injSessions[s] \in InjSession /\ injSessions[s].wallet = w
  /\ \A c \in InjCalls : HoldsAddress(injTasks[c], injSessions)
  /\ AddressFollowsWallet
\* A session stays with its wallet, a call with its address and its session.
KeptPlace(old, new) ==
  \A s \in InjSessions : \/ new[s] = old[s]
                         \/ new[s] \in InjSession /\ (old[s] = None \/ new[s].wallet = old[s].wallet)
SameCall(t, u) ==
  /\ u.pc = t.pc
  /\ t.pc \in {"chain", "rechain", "switch"} => "address" \in DOMAIN u /\ u.address = t.address /\ u.wallet = t.wallet
  /\ t.pc \in {"rechain", "switch"} => u.of = t.of

LEMMA FollowStarts == InjInit => FollowInv
<1> SUFFICES ASSUME InjInit PROVE FollowInv
  OBVIOUS
<1>1. \A w \in InjWallets : ToSet(listening[w]) = {}
  BY DEF InjInit, ToSet
<1>2. \A c \in InjCalls : HoldsAddress(injTasks[c], injSessions)
  BY IdleIs DEF InjInit, HoldsAddress
<1>3. \A s \in InjSessions : injSessions[s] \in InjSession \cup {None}
  BY DEF InjInit
<1> QED
  BY <1>1, <1>2, <1>3 DEF FollowInv, AddressFollowsWallet

\* The calls that go on, and those that are new.
LEMMA CallsFollow ==
  ASSUME InjInv, FollowInv, NEW new, KeptPlace(injSessions, new), NEW tasks,
         \A c \in InjCalls : tasks[c] = Idle \/ SameCall(injTasks[c], tasks[c]) \/ HoldsAddress(tasks[c], new)
  PROVE  \A c \in InjCalls : HoldsAddress(tasks[c], new)
<1> TAKE c \in InjCalls
<1> DEFINE t == injTasks[c]
           u == tasks[c]
<1>1. CASE u = Idle
  BY <1>1, IdleIs DEF HoldsAddress
<1>2. CASE SameCall(t, u)
  <2>1. HoldsAddress(t, injSessions)
    BY DEF FollowInv
  <2>2. t.pc \in {"rechain", "switch"} => t.of \in InjSessions
    BY IdleIs DEF InjInv, Busy
  <2> HIDE DEF t, u
  <2>3. ASSUME t.pc \in {"rechain", "switch"}
        PROVE  new[t.of] \in InjSession /\ new[t.of].wallet = t.wallet
    <3>1. injSessions[t.of] \in InjSession /\ injSessions[t.of].wallet = t.wallet /\ t.of \in InjSessions
      BY <2>1, <2>2, <2>3 DEF HoldsAddress
    <3>2. injSessions[t.of] # None
      BY <3>1, NoSessionAssumption
    <3> QED
      BY <3>1, <3>2 DEF KeptPlace
  <2>4. HoldsAddress(u, new)
    BY <1>2, <2>1, <2>3 DEF SameCall, HoldsAddress
  <2> QED
    BY <2>4 DEF u
<1>3. CASE HoldsAddress(u, new)
  BY <1>3
<1> QED
  BY <1>1, <1>2, <1>3

\* A step of the session it writes to, of the handlers and of the calls.
LEMMA FollowFrame ==
  ASSUME InjInv, FollowInv, KeptPlace(injSessions, injSessions'),
         \A c \in InjCalls : injTasks'[c] = Idle \/ SameCall(injTasks[c], injTasks'[c]) \/ HoldsAddress(injTasks'[c], injSessions'),
         \A w \in InjWallets : \A s \in ToSet(listening'[w]) :
            s \in ToSet(listening[w]) \/ (injSessions'[s] \in InjSession /\ injSessions'[s].wallet = w),
         AddressFollowsWallet'
  PROVE  FollowInv'
<1>1. \A s \in InjSessions : injSessions'[s] \in InjSession \cup {None}
  BY DEF FollowInv, KeptPlace
<1>2. ASSUME NEW w \in InjWallets, NEW s \in ToSet(listening'[w])
      PROVE  injSessions'[s] \in InjSession /\ injSessions'[s].wallet = w
  <2>1. CASE s \in ToSet(listening[w])
    <3>1. injSessions[s] \in InjSession /\ injSessions[s].wallet = w
      BY <2>1 DEF FollowInv
    <3>2. s \in InjSessions
      BY <2>1 DEF InjInv, ToSet
    <3>3. injSessions[s] # None
      BY <3>1, NoSessionAssumption
    <3> QED
      BY <3>1, <3>2, <3>3 DEF KeptPlace
  <2>2. CASE s \notin ToSet(listening[w])
    BY <1>2, <2>2
  <2> QED
    BY <2>1, <2>2
<1>3. \A c \in InjCalls : HoldsAddress(injTasks'[c], injSessions')
  BY CallsFollow
<1> QED
  BY <1>1, <1>2, <1>3 DEF FollowInv, HoldsAddress

\* A step that leaves the wallets' accounts, the sessions and who strayed.
LEMMA FollowQuiet ==
  ASSUME InjInv, FollowInv, UNCHANGED <<injSessions, strayed>>,
         \A w \in InjWallets : injWallet'[w].account = injWallet[w].account,
         \A w \in InjWallets : ToSet(listening'[w]) \subseteq ToSet(listening[w]),
         \A c \in InjCalls : injTasks'[c] = Idle \/ SameCall(injTasks[c], injTasks'[c]) \/ HoldsAddress(injTasks'[c], injSessions)
  PROVE  FollowInv'
<1>1. injSessions' = injSessions /\ strayed' = strayed
  OBVIOUS
<1>2. KeptPlace(injSessions, injSessions')
  BY <1>1 DEF KeptPlace
<1>3. AddressFollowsWallet'
  BY <1>1 DEF FollowInv, AddressFollowsWallet
<1>4. \A c \in InjCalls : injTasks'[c] = Idle \/ SameCall(injTasks[c], injTasks'[c]) \/ HoldsAddress(injTasks'[c], injSessions')
  BY <1>1, Zenon
<1> QED
  BY <1>2, <1>3, <1>4, FollowFrame

\* A session moved to a chain stays of its wallet and keeps its address.
LEMMA MovedIs ==
  ASSUME InjInv, FollowInv, NEW w \in InjWallets, NEW chain \in InjChains
  PROVE  LET sessions == OnChain(w, chain, injSessions)
         IN  /\ KeptPlace(injSessions, sessions)
             /\ \A s \in InjSessions : sessions[s].account[2] = injSessions[s].account[2]
<1> DEFINE sessions == OnChain(w, chain, injSessions)
<1>1. ASSUME NEW s \in InjSessions
      PROVE  /\ sessions[s] = injSessions[s]
                \/ (sessions[s] \in InjSession /\ sessions[s].wallet = injSessions[s].wallet)
             /\ sessions[s].account[2] = injSessions[s].account[2]
  <2>1. CASE s \notin ToSet(listening[w])
    BY <2>1 DEF OnChain
  <2>2. CASE s \in ToSet(listening[w])
    <3> DEFINE x == injSessions[s]
               account == <<chain, x.account[2]>>
               chains == <<chain>>
               y == [x EXCEPT !.chains = chains, !.account = account]
    <3>1. x \in InjSession
      BY <2>2 DEF FollowInv
    <3>2. sessions[s] = y
      BY <2>2 DEF OnChain
    <3>3. x.account[2] \in InjAddresses
      BY <3>1 DEF InjSession
    <3>4. account \in InjChains \X InjAddresses /\ chains \in Seq(InjChains) /\ account[2] = x.account[2]
      BY <3>3
    <3> HIDE DEF account, chains, x
    <3>5. y \in InjSession /\ y.wallet = x.wallet /\ y.account = account
      BY <3>1, <3>4 DEF InjSession
    <3> QED
      BY <3>2, <3>4, <3>5 DEF x
  <2> QED
    BY <2>1, <2>2
<1> QED
  BY <1>1 DEF KeptPlace

\* A call writes its address to a session of its wallet.
LEMMA FollowWrite ==
  ASSUME InjInv, FollowInv, NEW w \in InjWallets, NEW of \in InjSessions, NEW address, Writes(w, of, address),
         \A v \in InjWallets : injWallet'[v].account = injWallet[v].account,
         injSessions'[of] \in InjSession, injSessions'[of].wallet = w, injSessions'[of].account[2] = address,
         injSessions[of] = None \/ injSessions[of].wallet = w,
         NEW sessions, KeptPlace(injSessions, sessions),
         \A s \in InjSessions : sessions[s].account[2] = injSessions[s].account[2],
         \A s \in InjSessions \ {of} : injSessions'[s] = sessions[s],
         \A v \in InjWallets : \A s \in ToSet(listening'[v]) : s \in ToSet(listening[v]) \/ (v = w /\ s = of),
         \A c \in InjCalls : injTasks'[c] = Idle \/ SameCall(injTasks[c], injTasks'[c])
  PROVE  FollowInv'
<1>1. KeptPlace(injSessions, injSessions')
  BY DEF KeptPlace
<1>2. ASSUME NEW v \in InjWallets, NEW s \in ToSet(listening'[v]), s \notin strayed', injWallet'[v].account # None
      PROVE  injSessions'[s].account[2] = injWallet'[v].account
  <2>1. CASE s = of
    <3>1. address = injWallet[w].account
      BY <1>2, <2>1 DEF Writes
    <3>2. v = w
      <4>1. CASE s \in ToSet(listening[v])
        <5>1. injSessions[of] \in InjSession /\ injSessions[of].wallet = v
          BY <2>1, <4>1 DEF FollowInv
        <5> QED
          BY <5>1, NoSessionAssumption
      <4> QED
        BY <1>2, <4>1
    <3> QED
      BY <2>1, <3>1, <3>2
  <2>2. CASE s # of
    <3>1. s \in ToSet(listening[v])
      BY <1>2, <2>2
    <3>2. s \notin strayed /\ s \in InjSessions
      BY <1>2, <2>2, <3>1 DEF Writes, InjInv, ToSet
    <3>3. injSessions[s].account[2] = injWallet[v].account
      BY <1>2, <3>1, <3>2 DEF FollowInv, AddressFollowsWallet
    <3>4. injSessions'[s].account[2] = injSessions[s].account[2]
      BY <2>2, <3>2
    <3> QED
      BY <3>3, <3>4
  <2> QED
    BY <2>1, <2>2
<1>3. AddressFollowsWallet'
  BY <1>2 DEF AddressFollowsWallet
<1>4. \A v \in InjWallets : \A s \in ToSet(listening'[v]) :
        s \in ToSet(listening[v]) \/ (injSessions'[s] \in InjSession /\ injSessions'[s].wallet = v)
  OBVIOUS
<1> QED
  BY <1>1, <1>3, <1>4, FollowFrame

\* A call whose record leaves the index stays the same call.
LEMMA DetachedSame ==
  ASSUME InjInv, FollowInv, NEW c \in InjCalls, injTasks[c] # Idle
  PROVE  SameCall(injTasks[c], [injTasks[c] EXCEPT !.record = FALSE]) /\ SameCall(injTasks[c], injTasks[c])
<1> DEFINE t == injTasks[c]
           u == [t EXCEPT !.record = FALSE]
<1>1. Busy(t, injSessions, activeSessions)
  BY DEF InjInv
<1>2. HoldsAddress(t, injSessions)
  BY DEF FollowInv
<1>3. {"pc", "wallet"} \subseteq DOMAIN t /\ (t.pc \in {"rechain", "switch"} => "of" \in DOMAIN t)
      /\ (t.pc \in {"chain", "rechain", "switch"} => "address" \in DOMAIN t)
  BY <1>1, <1>2 DEF Busy, HoldsAddress
<1> HIDE DEF t
<1>4. DOMAIN u = DOMAIN t /\ \A f \in DOMAIN t : f # "record" => u[f] = t[f]
  OBVIOUS
<1> HIDE DEF u
<1>5. SameCall(t, u) /\ SameCall(t, t)
  BY <1>3, <1>4 DEF SameCall
<1> QED
  BY <1>5 DEF t, u

LEMMA DetachedFollow ==
  ASSUME InjInv, FollowInv, NEW w, NEW tasks,
         tasks = Detached(w, injTasks) \/ \E c \in InjCalls : tasks = Detached(w, [injTasks EXCEPT ![c] = Idle])
  PROVE  \A c \in InjCalls : tasks[c] = Idle \/ SameCall(injTasks[c], tasks[c])
<1>1. \A c \in InjCalls : \/ tasks[c] = Idle
                          \/ injTasks[c] # Idle /\ tasks[c] = injTasks[c]
                          \/ injTasks[c] # Idle /\ tasks[c] = [injTasks[c] EXCEPT !.record = FALSE]
  BY DEF Detached, InjInv
<1>2. \A c \in InjCalls : injTasks[c] # Idle =>
        SameCall(injTasks[c], [injTasks[c] EXCEPT !.record = FALSE]) /\ SameCall(injTasks[c], injTasks[c])
  BY DetachedSame
<1> QED
  BY <1>1, <1>2, Zenon

\* The handlers that are left are among those there were.
LEMMA FewerHandlers ==
  ASSUME InjInv, NEW w \in InjWallets
  PROVE  \A v \in InjWallets : ToSet(Without(w)[v]) \subseteq ToSet(listening[v])
<1>1. \A sessions : KeptHandlers(listening, Without(w), sessions)
  BY WithoutIs
<1>2. listening \in [InjWallets -> Seq(InjSessions)]
  BY DEF InjInv
<1>3. \A v \in InjWallets : LET f == Front(listening[v])
                            IN \A i \in DOMAIN f : i \in DOMAIN listening[v] /\ f[i] = listening[v][i]
  BY <1>2 DEF Front
<1>4. \A v \in InjWallets : Without(w)[v] = listening[v] \/ Without(w)[v] = Front(listening[v])
  BY <1>2 DEF Without
<1> QED
  BY <1>3, <1>4 DEF ToSet

LEMMA SameCalls ==
  ASSUME InjInv, FollowInv
  PROVE  \A c \in InjCalls : injTasks[c] = Idle \/ SameCall(injTasks[c], injTasks[c])
  BY DetachedSame

LEMMA DropsFollow ==
  ASSUME InjInv, FollowInv, NEW s \in InjSessions, Drops(s), UNCHANGED <<injSessions, strayed>>,
         \A w \in InjWallets : injWallet'[w].account = injWallet[w].account
  PROVE  FollowInv'
<1> DEFINE w == injSessions[s].wallet
<1>1. CASE FindActive(s)
  <2>1. w \in InjWallets
    BY <1>1 DEF FindActive, InjInv, IsInjSession
  <2>2. listening' = Without(w) /\ injTasks' = Detached(w, injTasks)
    BY <1>1 DEF Drops, RemoveHandlers
  <2> HIDE DEF w
  <2>3. \A v \in InjWallets : ToSet(listening'[v]) \subseteq ToSet(listening[v])
    BY <2>1, <2>2, FewerHandlers
  <2>4. \A c \in InjCalls : injTasks'[c] = Idle \/ SameCall(injTasks[c], injTasks'[c])
    BY <2>2, DetachedFollow
  <2> QED
    BY <2>3, <2>4, FollowQuiet
<1>2. CASE ~FindActive(s)
  <2>1. UNCHANGED <<listening, injTasks>>
    BY <1>2 DEF Drops, index
  <2>2. \A v \in InjWallets : ToSet(listening'[v]) \subseteq ToSet(listening[v])
    BY <2>1
  <2>3. \A c \in InjCalls : injTasks'[c] = Idle \/ SameCall(injTasks[c], injTasks'[c])
    BY <2>1, SameCalls
  <2> QED
    BY <2>2, <2>3, FollowQuiet
<1> QED
  BY <1>1, <1>2

\* A step of one call that writes nothing.
LEMMA CallFollows ==
  ASSUME InjInv, FollowInv, NEW c \in InjCalls, NEW t, Await(c, t),
         UNCHANGED <<injSessions, strayed, listening>>,
         \A w \in InjWallets : injWallet'[w].account = injWallet[w].account,
         t = Idle \/ HoldsAddress(t, injSessions)
  PROVE  FollowInv'
<1>1. \A d \in InjCalls : injTasks'[d] = IF d = c THEN t ELSE injTasks[d]
  BY DEF Await, InjInv
<1>2. \A d \in InjCalls : injTasks'[d] = Idle \/ SameCall(injTasks[d], injTasks'[d]) \/ HoldsAddress(injTasks'[d], injSessions)
  BY <1>1, SameCalls
<1>3. \A w \in InjWallets : ToSet(listening'[w]) \subseteq ToSet(listening[w])
  OBVIOUS
<1> QED
  BY <1>2, <1>3, FollowQuiet

\* The account of a wallet changes: its sessions follow, or stray.
LEMMA AccountsFollow ==
  ASSUME InjInv, FollowInv, InjWalletTypes, NEW w \in InjWallets, NEW address \in InjAddresses \union {None},
         InjAccountsChanged(w, address)
  PROVE  FollowInv'
<1>1. /\ injWallet'[w].account = address
      /\ \A v \in InjWallets : v # w => injWallet'[v].account = injWallet[v].account
  <2>1. injWallet' = [injWallet EXCEPT ![w].account = address]
    BY DEF InjAccountsChanged
  <2> QED
    BY <2>1 DEF InjWalletTypes
<1>2. CASE address # None /\ injWallet[w].permitted
  <2> DEFINE moved == [s \in InjSessions |-> IF s \in ToSet(listening[w])
                         THEN [injSessions[s] EXCEPT !.account = <<injSessions[s].chains[1], address>>]
                         ELSE injSessions[s]]
  <2>1. injSessions' = moved /\ strayed' = strayed \ ToSet(listening[w]) /\ UNCHANGED <<listening, injTasks>>
    BY <1>2 DEF InjAccountsChanged
  <2>2. ASSUME NEW s \in InjSessions, s \in ToSet(listening[w])
        PROVE  moved[s] \in InjSession /\ moved[s].wallet = injSessions[s].wallet /\ moved[s].account[2] = address
    <3> DEFINE x == injSessions[s]
               account == <<x.chains[1], address>>
               y == [x EXCEPT !.account = account]
    <3>1. x \in InjSession
      BY <2>2 DEF FollowInv
    <3>2. x.account[1] = x.chains[1]
      BY <2>2 DEF InjInv, IsInjSession, ToSet
    <3>3. x.chains[1] \in InjChains
      BY <3>1, <3>2 DEF InjSession
    <3>4. account \in InjChains \X InjAddresses /\ account[2] = address
      BY <1>2, <3>3
    <3>5. moved[s] = y
      BY <2>2
    <3> HIDE DEF x, account, moved
    <3>6. y \in InjSession /\ y.wallet = x.wallet /\ y.account = account
      BY <3>1, <3>4 DEF InjSession
    <3> QED
      BY <3>4, <3>5, <3>6 DEF x
  <2>3. \A s \in InjSessions : s \notin ToSet(listening[w]) => moved[s] = injSessions[s]
    OBVIOUS
  <2> HIDE DEF moved
  <2>4. KeptPlace(injSessions, injSessions')
    BY <2>1, <2>2, <2>3 DEF KeptPlace
  <2>5. ASSUME NEW v \in InjWallets, NEW s \in ToSet(listening'[v]), s \notin strayed', injWallet'[v].account # None
        PROVE  injSessions'[s].account[2] = injWallet'[v].account
    <3>1. s \in InjSessions /\ s \in ToSet(listening[v])
      BY <2>1, <2>5 DEF InjInv, ToSet
    <3>2. CASE s \in ToSet(listening[w])
      <4>1. v = w
        BY <3>1, <3>2 DEF FollowInv
      <4> QED
        BY <1>1, <2>1, <2>2, <3>1, <3>2, <4>1
    <3>3. CASE s \notin ToSet(listening[w])
      <4>1. v # w /\ s \notin strayed /\ injSessions'[s] = injSessions[s]
        BY <2>1, <2>3, <2>5, <3>1, <3>3
      <4> QED
        BY <1>1, <2>5, <3>1, <4>1 DEF FollowInv, AddressFollowsWallet
    <3> QED
      BY <3>2, <3>3
  <2>6. AddressFollowsWallet'
    BY <2>5 DEF AddressFollowsWallet
  <2>7. \A c \in InjCalls : injTasks'[c] = Idle \/ SameCall(injTasks[c], injTasks'[c])
    BY <2>1, SameCalls
  <2>8. \A v \in InjWallets : \A s \in ToSet(listening'[v]) : s \in ToSet(listening[v])
    BY <2>1
  <2> QED
    BY <2>4, <2>6, <2>7, <2>8, FollowFrame
<1>3. CASE ~(address # None /\ injWallet[w].permitted)
  <2>1. injSessions' = injSessions /\ strayed' = IF address = None THEN strayed ELSE strayed \union ToSet(listening[w])
    BY <1>3 DEF InjAccountsChanged
  <2>2. /\ \A c \in InjCalls : injTasks'[c] = Idle \/ SameCall(injTasks[c], injTasks'[c])
        /\ \A v \in InjWallets : ToSet(listening'[v]) \subseteq ToSet(listening[v])
    <3>1. \/ UNCHANGED <<index, injTasks>>
          \/ /\ \E s \in ToSet(listening[w]) : FindActive(s)
             /\ Drops(CHOOSE s \in ToSet(listening[w]) : FindActive(s))
      BY <1>3, Zenon DEF InjAccountsChanged
    <3>2. ASSUME NEW s \in InjSessions, FindActive(s), Drops(s)
          PROVE  /\ \A c \in InjCalls : injTasks'[c] = Idle \/ SameCall(injTasks[c], injTasks'[c])
                 /\ \A v \in InjWallets : ToSet(listening'[v]) \subseteq ToSet(listening[v])
      <4> DEFINE u == injSessions[s].wallet
      <4>1. u \in InjWallets
        BY <3>2 DEF FindActive, InjInv, IsInjSession
      <4>2. listening' = Without(u) /\ injTasks' = Detached(u, injTasks)
        BY <3>2 DEF Drops, RemoveHandlers
      <4> HIDE DEF u
      <4> QED
        BY <4>1, <4>2, FewerHandlers, DetachedFollow
    <3>3. CASE UNCHANGED <<index, injTasks>>
      <4>1. listening' = listening /\ injTasks' = injTasks
        BY <3>3 DEF index
      <4> QED
        BY <4>1, SameCalls
    <3>4. CASE \E s \in ToSet(listening[w]) : FindActive(s) /\ Drops(s)
      <4>1. \A s \in ToSet(listening[w]) : s \in InjSessions
        BY DEF InjInv, ToSet
      <4> QED
        BY <3>2, <3>4, <4>1, Zenon
    <3>5. ASSUME \E s \in ToSet(listening[w]) : FindActive(s)
          PROVE  LET s == CHOOSE s \in ToSet(listening[w]) : FindActive(s)
                 IN  s \in ToSet(listening[w]) /\ FindActive(s)
      BY <3>5, Zenon
    <3> QED
      BY <3>1, <3>3, <3>4, <3>5, Zenon
  <2>3. ASSUME NEW v \in InjWallets, NEW s \in ToSet(listening'[v]), s \notin strayed', injWallet'[v].account # None
        PROVE  injSessions'[s].account[2] = injWallet'[v].account
    <3>1. s \in ToSet(listening[v]) /\ s \notin strayed
      BY <2>1, <2>2, <2>3
    <3>2. v # w
      BY <1>1, <2>1, <2>3, <3>1
    <3> QED
      BY <1>1, <2>1, <2>3, <3>1, <3>2 DEF FollowInv, AddressFollowsWallet
  <2>4. AddressFollowsWallet'
    BY <2>3 DEF AddressFollowsWallet
  <2>5. KeptPlace(injSessions, injSessions')
    BY <2>1 DEF KeptPlace
  <2>6. \A v \in InjWallets : \A s \in ToSet(listening'[v]) : s \in ToSet(listening[v])
    BY <2>2
  <2> QED
    BY <2>2, <2>4, <2>5, <2>6, FollowFrame
<1> QED
  BY <1>2, <1>3

LEMMA ChainFollows ==
  ASSUME InjInv, FollowInv, InjWalletTypes, NEW w \in InjWallets, NEW chain \in InjChains, InjChainChanged(w, chain)
  PROVE  FollowInv'
<1> DEFINE sessions == OnChain(w, chain, injSessions)
<1>1. injWallet' = [injWallet EXCEPT ![w].chain = chain] /\ injSessions' = sessions
      /\ UNCHANGED <<listening, strayed, injTasks>>
  BY DEF InjChainChanged
<1>2. KeptPlace(injSessions, sessions) /\ \A s \in InjSessions : sessions[s].account[2] = injSessions[s].account[2]
  BY MovedIs
<1> HIDE DEF sessions
<1>3. \A v \in InjWallets : injWallet'[v].account = injWallet[v].account
  BY <1>1 DEF InjWalletTypes
<1>4. \A v \in InjWallets : \A s \in ToSet(listening[v]) : s \in InjSessions
  BY DEF InjInv, ToSet
<1>5. AddressFollowsWallet'
  BY <1>1, <1>2, <1>3, <1>4 DEF FollowInv, AddressFollowsWallet
<1>6. \A c \in InjCalls : injTasks'[c] = Idle \/ SameCall(injTasks[c], injTasks'[c])
  BY <1>1, SameCalls
<1>7. KeptPlace(injSessions, injSessions') /\ \A v \in InjWallets : \A s \in ToSet(listening'[v]) : s \in ToSet(listening[v])
  BY <1>1, <1>2
<1> QED
  BY <1>5, <1>6, <1>7, FollowFrame

\* A session that is made, or made again, of the address asked for first.
LEMMA FollowMade ==
  ASSUME InjInv, FollowInv, NEW w \in InjWallets, NEW of \in InjSessions, NEW address, Writes(w, of, address),
         injWallet' = injWallet,
         injSessions'[of] \in InjSession, injSessions'[of].wallet = w, injSessions'[of].account[2] = address,
         injSessions[of] = None \/ injSessions[of].wallet = w,
         \A s \in InjSessions \ {of} : injSessions'[s] = injSessions[s],
         \A v \in InjWallets : \A s \in ToSet(listening'[v]) : s \in ToSet(listening[v]) \/ (v = w /\ s = of),
         \A c \in InjCalls : injTasks'[c] = Idle \/ SameCall(injTasks[c], injTasks'[c])
  PROVE  FollowInv'
<1>1. KeptPlace(injSessions, injSessions) /\ \A s \in InjSessions : injSessions[s].account[2] = injSessions[s].account[2]
  BY DEF KeptPlace
<1>2. \A v \in InjWallets : injWallet'[v].account = injWallet[v].account
  OBVIOUS
<1> QED
  BY <1>1, <1>2, FollowWrite

LEMMA MadeFollows ==
  ASSUME InjInv, FollowInv, InjWalletTypes, NEW c \in InjCalls, NEW s, NEW required,
         (s \in InjSessions /\ ConnectChain(c, s, required)) \/ ReconnectChain(c)
  PROVE  FollowInv'
<1> DEFINE t == injTasks[c]
           w == t.wallet
           chain == injWallet[w].chain
           made == [wallet |-> w, chains |-> <<chain>>, account |-> <<chain, t.address>>]
<1>1. Busy(t, injSessions, activeSessions) /\ HoldsAddress(t, injSessions)
  BY IdleIs DEF InjInv, FollowInv, ConnectChain, ReconnectChain, InjAt
<1>2. t.pc \in {"chain", "rechain"} /\ w \in InjWallets /\ t.address \in InjAddresses
  BY <1>1 DEF Busy, HoldsAddress, ConnectChain, ReconnectChain, InjAt
<1>3. injWallet' = injWallet
  BY DEF ConnectChain, ReconnectChain
<1>4. made \in InjSession /\ made.wallet = w /\ made.account[2] = t.address
  <2>1. chain \in InjChains
    BY <1>2 DEF InjWalletTypes
  <2> HIDE DEF chain
  <2> QED
    BY <1>2, <2>1 DEF InjSession
<1>6. ASSUME s \in InjSessions, ConnectChain(c, s, required) PROVE FollowInv'
  <2>1. CASE chain \notin required
    <3>1. Await(c, Idle) /\ UNCHANGED <<injSessions, strayed, listening>>
      BY <1>6, <2>1 DEF ConnectChain, index
    <3> QED
      BY <1>3, <3>1, CallFollows
  <2>2. CASE chain \in required
    <3>1. /\ injSessions' = [injSessions EXCEPT ![s] = made] /\ injSessions[s] = None
          /\ listening' = [listening EXCEPT ![w] = Append(listening[w], s)] /\ Writes(w, s, t.address)
          /\ injTasks' = Detached(w, [injTasks EXCEPT ![c] = Idle])
      BY <1>6, <2>2 DEF ConnectChain, NewHandlers
    <3> HIDE DEF made, w, t
    <3>2. injSessions'[s] = made /\ \A x \in InjSessions \ {s} : injSessions'[x] = injSessions[x]
      BY <1>6, <3>1 DEF InjInv
    <3>3. \A v \in InjWallets : \A x \in ToSet(listening'[v]) : x \in ToSet(listening[v]) \/ (v = w /\ x = s)
      <4>1. listening \in [InjWallets -> Seq(InjSessions)]
        BY DEF InjInv
      <4>2. \A i \in DOMAIN Append(listening[w], s) : Append(listening[w], s)[i] = s \/ (i \in DOMAIN listening[w] /\ Append(listening[w], s)[i] = listening[w][i])
        BY <1>2, <4>1
      <4>3. \A v \in InjWallets : listening'[v] = IF v = w THEN Append(listening[w], s) ELSE listening[v]
        BY <3>1, <4>1
      <4> QED
        BY <4>2, <4>3 DEF ToSet
    <3>4. \A d \in InjCalls : injTasks'[d] = Idle \/ SameCall(injTasks[d], injTasks'[d])
      BY <3>1, DetachedFollow
    <3> DEFINE address == t.address
    <3>5. Writes(w, s, address) /\ injSessions'[s] \in InjSession /\ injSessions'[s].wallet = w
          /\ injSessions'[s].account[2] = address /\ (injSessions[s] = None \/ injSessions[s].wallet = w)
      BY <1>4, <3>1, <3>2
    <3> HIDE DEF address
    <3>6. w \in InjWallets /\ \A x \in InjSessions \ {s} : injSessions'[x] = injSessions[x]
      BY <1>2, <3>2
    <3> QED
      BY <1>3, <1>6, <3>3, <3>4, <3>5, <3>6, FollowMade
  <2> QED
    BY <2>1, <2>2
<1>7. ASSUME ReconnectChain(c) PROVE FollowInv'
  <2> DEFINE of == t.of
             old == Without(w)[w]
  <2>1. of \in InjSessions /\ injSessions[of].wallet = w
    BY <1>1, <1>7 DEF Busy, HoldsAddress, ReconnectChain, InjAt
  <2>2. /\ injSessions' = [injSessions EXCEPT ![of] = made]
        /\ listening' = [listening EXCEPT ![w] = Append(old, of)] /\ Writes(w, of, t.address)
        /\ injTasks' = Detached(w, [injTasks EXCEPT ![c] = Idle])
    BY <1>7 DEF ReconnectChain
  <2> HIDE DEF made, w, of
  <2>3. injSessions'[of] = made /\ \A x \in InjSessions \ {of} : injSessions'[x] = injSessions[x]
    BY <2>1, <2>2 DEF InjInv
  <2>4. \A v \in InjWallets : \A x \in ToSet(listening'[v]) : x \in ToSet(listening[v]) \/ (v = w /\ x = of)
    <3>1. listening \in [InjWallets -> Seq(InjSessions)] /\ old \in Seq(InjSessions) /\ ToSet(old) \subseteq ToSet(listening[w])
      BY <1>2, WithoutIs, FewerHandlers DEF InjInv
    <3> HIDE DEF old
    <3>2. \A i \in DOMAIN Append(old, of) : Append(old, of)[i] = of \/ (i \in DOMAIN old /\ Append(old, of)[i] = old[i])
      BY <3>1
    <3>3. \A v \in InjWallets : listening'[v] = IF v = w THEN Append(old, of) ELSE listening[v]
      BY <2>2, <3>1
    <3>4. \A x \in ToSet(Append(old, of)) : x = of \/ x \in ToSet(old)
      BY <3>2 DEF ToSet
    <3> QED
      BY <3>1, <3>3, <3>4
  <2>5. \A d \in InjCalls : injTasks'[d] = Idle \/ SameCall(injTasks[d], injTasks'[d])
    BY <2>2, DetachedFollow
  <2> DEFINE address == t.address
  <2>6. Writes(w, of, address) /\ injSessions'[of] \in InjSession /\ injSessions'[of].wallet = w
        /\ injSessions'[of].account[2] = address
    BY <1>4, <2>2, <2>3
  <2> HIDE DEF address, t, old
  <2> QED
    BY <1>2, <1>3, <2>1, <2>3, <2>4, <2>5, <2>6, FollowMade
<1> QED
  BY <1>6, <1>7

\* A switch writes the address it read, and no other session's.
LEMMA SwitchFollows ==
  ASSUME InjInv, FollowInv, InjWalletTypes, NEW c \in InjCalls, WalletSwitches(c)
  PROVE  FollowInv'
<1> DEFINE t == injTasks[c]
           w == t.wallet
           of == t.of
           chain == t.chain
           address == t.address
           sessions == IF injWallet[w].chain = chain THEN injSessions ELSE OnChain(w, chain, injSessions)
           chains == <<chain>> \o Excluding(sessions[of].chains, chain)
           account == <<chain, address>>
<1>1. Busy(t, injSessions, activeSessions) /\ HoldsAddress(t, injSessions) /\ t.pc = "switch"
  BY IdleIs DEF InjInv, FollowInv, WalletSwitches, InjAt
<1>2. w \in InjWallets /\ of \in InjSessions /\ chain \in InjChains /\ address \in InjAddresses
      /\ injSessions[of] \in InjSession /\ injSessions[of].wallet = w
  BY <1>1 DEF Busy, HoldsAddress
<1>3. /\ injSessions' = [sessions EXCEPT ![of].chains = chains, ![of].account = account]
      /\ injWallet' = [injWallet EXCEPT ![w].chain = chain] /\ Writes(w, of, address)
      /\ listening' = listening /\ injTasks' = [injTasks EXCEPT ![c] = Idle]
  BY DEF WalletSwitches, Requalified, Await
<1>4. /\ KeptPlace(injSessions, sessions) /\ DOMAIN sessions = InjSessions
      /\ \A s \in InjSessions : sessions[s].account[2] = injSessions[s].account[2]
  BY <1>2, MovedIs, OnChainIs DEF KeptPlace, InjInv
<1> HIDE DEF sessions, t, w, of, chain, address
<1>5. sessions[of] \in InjSession /\ sessions[of].wallet = w
  <2>1. injSessions[of] # None
    BY <1>2, NoSessionAssumption
  <2> QED
    BY <1>2, <1>4, <2>1 DEF KeptPlace
<1>6. chains \in Seq(InjChains)
  <2> DEFINE rest == Excluding(sessions[of].chains, chain)
  <2>1. rest \in Seq(InjChains)
    BY <1>5, ExcludingIs DEF InjSession
  <2> HIDE DEF rest
  <2> QED
    BY <1>2, <2>1 DEF rest
<1>7. account \in InjChains \X InjAddresses /\ account[2] = address
  BY <1>2
<1> HIDE DEF chains, account
<1>8. /\ injSessions'[of] \in InjSession /\ injSessions'[of].wallet = w /\ injSessions'[of].account[2] = address
      /\ \A s \in InjSessions \ {of} : injSessions'[s] = sessions[s]
  BY <1>2, <1>3, <1>4, <1>5, <1>6, <1>7 DEF InjSession
<1>9. \A v \in InjWallets : injWallet'[v].account = injWallet[v].account
  BY <1>3 DEF InjWalletTypes
<1>10. \A d \in InjCalls : injTasks'[d] = Idle \/ SameCall(injTasks[d], injTasks'[d])
  <2>1. \A d \in InjCalls : injTasks'[d] = Idle \/ injTasks'[d] = injTasks[d]
    BY <1>3 DEF InjInv
  <2> QED
    BY <2>1, SameCalls
<1>11. \A v \in InjWallets : \A s \in ToSet(listening'[v]) : s \in ToSet(listening[v])
  BY <1>3
<1> QED
  BY <1>2, <1>3, <1>4, <1>8, <1>9, <1>10, <1>11, FollowWrite

LEMMA ClearFollows ==
  ASSUME InjInv, FollowInv, Clear
  PROVE  FollowInv'
<1>1. /\ injSessions' = injSessions /\ injWallet' = injWallet /\ strayed' = strayed
      /\ listening' = [w \in InjWallets |-> Without(w)[w]]
      /\ injTasks' = [c \in InjCalls |-> IF injTasks[c] = Idle THEN Idle ELSE [injTasks[c] EXCEPT !.record = FALSE]]
  BY DEF Clear
<1>2. \A w \in InjWallets : ToSet(listening'[w]) \subseteq ToSet(listening[w])
  BY <1>1, FewerHandlers
<1>3. \A c \in InjCalls : injTasks'[c] = Idle
                          \/ (injTasks[c] # Idle /\ injTasks'[c] = [injTasks[c] EXCEPT !.record = FALSE])
  BY <1>1
<1>4. \A c \in InjCalls : injTasks'[c] = Idle \/ SameCall(injTasks[c], injTasks'[c])
  BY <1>3, DetachedSame, Zenon
<1> QED
  BY <1>1, <1>2, <1>4, FollowQuiet

\* What a call reads of an address before it asks the wallet.
LEMMA ReadsFollow ==
  ASSUME InjInv, FollowInv, InjWalletTypes, NEW c \in InjCalls, NEW s, NEW input, NEW chain,
         \/ InjConnect(c, input) \/ ConnectAccounts(c) \/ WalletLacksChain(c)
         \/ s \in InjSessions /\ (InjReconnect(c, s) \/ InjSwitchChain(c, s, chain))
  PROVE  FollowInv'
<1> DEFINE t == injTasks[c]
<1>1. ASSUME InjConnect(c, input) PROVE FollowInv'
  <2> PICK w \in Chosen(input) : Await(c, [pc |-> "accounts", wallet |-> w, record |-> FALSE])
    BY <1>1 DEF InjConnect
  <2>1. UNCHANGED <<injSessions, strayed, listening, injWallet>>
    BY <1>1 DEF InjConnect, index
  <2>2. HoldsAddress([pc |-> "accounts", wallet |-> w, record |-> FALSE], injSessions)
    BY DEF HoldsAddress
  <2> QED
    BY <2>1, <2>2, CallFollows
<1>2. ASSUME ConnectAccounts(c) PROVE FollowInv'
  <2> DEFINE w == t.wallet
             address == injWallet[w].account
             u == [pc |-> "chain", wallet |-> w, record |-> t.record, address |-> address]
  <2>1. w \in InjWallets
    BY <1>2, IdleIs DEF InjInv, Busy, ConnectAccounts, InjAt
  <2>2. address \in InjAddresses \union {None}
    BY <2>1 DEF InjWalletTypes
  <2>3. UNCHANGED <<injSessions, strayed, listening>> /\ (Await(c, Idle) \/ (address # None /\ Await(c, u)))
        /\ (injWallet' = injWallet \/ injWallet' = [injWallet EXCEPT ![w].permitted = TRUE])
    BY <1>2 DEF ConnectAccounts, index
  <2>4. \A v \in InjWallets : injWallet'[v].account = injWallet[v].account
    BY <2>3 DEF InjWalletTypes
  <2> HIDE DEF w, address
  <2>5. address # None => HoldsAddress(u, injSessions)
    BY <2>2 DEF HoldsAddress
  <2> HIDE DEF u
  <2> QED
    BY <2>3, <2>4, <2>5, CallFollows
<1>3. ASSUME s \in InjSessions, InjReconnect(c, s) PROVE FollowInv'
  <2> DEFINE w == injSessions[s].wallet
             address == injWallet[w].account
             u == [pc |-> "rechain", wallet |-> w, record |-> FALSE, of |-> s, address |-> address]
  <2>1. UNCHANGED <<injSessions, strayed, listening, injWallet>> /\ Await(c, u)
        /\ injSessions[s] # None /\ address # None
    BY <1>3 DEF InjReconnect, index
  <2>2. injSessions[s] \in InjSession
    BY <1>3, <2>1 DEF FollowInv
  <2>3. w \in InjWallets
    BY <2>2 DEF InjSession
  <2>4. address \in InjAddresses
    BY <2>1, <2>3 DEF InjWalletTypes
  <2>5. injSessions[s].wallet = w
    OBVIOUS
  <2> HIDE DEF w, address
  <2>6. HoldsAddress(u, injSessions)
    BY <2>2, <2>4, <2>5 DEF HoldsAddress
  <2> HIDE DEF u
  <2> QED
    BY <2>1, <2>6, CallFollows
<1>4. ASSUME s \in InjSessions, InjSwitchChain(c, s, chain) PROVE FollowInv'
  <2> DEFINE w == injSessions[s].wallet
             address == injSessions[s].account[2]
             u == [pc |-> "switch", wallet |-> w, record |-> TRUE, of |-> s, chain |-> chain,
                   address |-> address, retried |-> FALSE]
  <2>1. UNCHANGED <<injSessions, strayed, listening, injWallet>> /\ Await(c, u) /\ injSessions[s] # None
    BY <1>4 DEF InjSwitchChain, FindActive, index
  <2>2. injSessions[s] \in InjSession
    BY <1>4, <2>1 DEF FollowInv
  <2>3. address \in InjAddresses
    BY <2>2 DEF InjSession
  <2>4. injSessions[s].wallet = w
    OBVIOUS
  <2> HIDE DEF w, address
  <2>5. HoldsAddress(u, injSessions)
    BY <2>2, <2>3, <2>4 DEF HoldsAddress
  <2> HIDE DEF u
  <2> QED
    BY <2>1, <2>5, CallFollows
<1>5. ASSUME WalletLacksChain(c) PROVE FollowInv'
  <2> DEFINE u == [t EXCEPT !.retried = TRUE]
             w == t.wallet
             chain2 == t.chain
  <2>1. Busy(t, injSessions, activeSessions) /\ HoldsAddress(t, injSessions) /\ t.pc = "switch"
    BY <1>5, IdleIs DEF InjInv, FollowInv, WalletLacksChain, InjAt
  <2>2. UNCHANGED <<injSessions, strayed, listening>> /\ (Await(c, Idle) \/ Await(c, u))
        /\ (injWallet' = injWallet \/ injWallet' = [injWallet EXCEPT ![w].knows = @ \union {chain2}])
    BY <1>5 DEF WalletLacksChain, index
  <2>3. \A v \in InjWallets : injWallet'[v].account = injWallet[v].account
    BY <2>2 DEF InjWalletTypes
  <2> HIDE DEF t, w, chain2
  <2>4. {"pc", "wallet", "of", "address"} \subseteq DOMAIN t
    BY <2>1 DEF Busy
  <2>5. DOMAIN u = DOMAIN t /\ \A f \in DOMAIN t : f # "retried" => u[f] = t[f]
    OBVIOUS
  <2> HIDE DEF u
  <2>6. u.pc = t.pc /\ u.wallet = t.wallet /\ u.of = t.of /\ u.address = t.address
    BY <2>4, <2>5
  <2>7. HoldsAddress(u, injSessions)
    BY <2>1, <2>4, <2>5, <2>6 DEF HoldsAddress
  <2> QED
    BY <2>2, <2>3, <2>7, CallFollows
<1> QED
  BY <1>1, <1>2, <1>3, <1>4, <1>5

LEMMA BatchFollows ==
  ASSUME InjInv, FollowInv, NEW c \in InjCalls, NEW s, NEW items, NEW atomic, NEW chain, NEW answer,
         InjSendCalls(c, s, items, atomic, chain) \/ BatchAnswered(c, answer)
  PROVE  FollowInv'
<1>1. UNCHANGED <<injSessions, strayed, listening, injWallet>>
  BY Zenon DEF InjSendCalls, BatchAnswered, index
<1>2. ASSUME InjSendCalls(c, s, items, atomic, chain) PROVE FollowInv'
  <2> DEFINE u == [pc |-> "batch", wallet |-> injSessions[s].wallet, record |-> TRUE, items |-> items, atomic |-> atomic,
                   chain |-> injSessions[s].chains[1], log |-> <<"asked">>, ran |-> {}]
  <2>1. Await(c, u)
    BY <1>2 DEF InjSendCalls
  <2>2. HoldsAddress(u, injSessions)
    BY DEF HoldsAddress
  <2> HIDE DEF u
  <2> QED
    BY <1>1, <2>1, <2>2, CallFollows
<1>3. ASSUME BatchAnswered(c, answer) PROVE FollowInv'
  <2> DEFINE t == injTasks[c]
             log == Append([t.log EXCEPT ![Len(t.log)] = answer], "asked")
             ran == IF answer = "done" THEN t.ran \union {injWallet[t.wallet].chain} ELSE t.ran
             u == [t EXCEPT !.pc = "one by one", !.log = log, !.ran = ran]
  <2>1. Busy(t, injSessions, activeSessions)
    BY <1>3, IdleIs DEF InjInv, BatchAnswered, InjAt
  <2>2. Await(c, Idle) \/ Await(c, u)
    BY <1>3, Zenon DEF BatchAnswered
  <2>3. "pc" \in DOMAIN t
    BY <2>1 DEF Busy
  <2> HIDE DEF t, log, ran
  <2>4. u.pc = "one by one"
    BY <2>3
  <2>5. HoldsAddress(u, injSessions)
    BY <2>4 DEF HoldsAddress
  <2> HIDE DEF u
  <2> QED
    BY <1>1, <2>2, <2>5, CallFollows
<1> QED
  BY <1>2, <1>3

\* Events that write to no session.
LEMMA EventsFollow ==
  ASSUME InjInv, FollowInv, InjWalletTypes,
         \/ UNCHANGED injVars
         \/ \E w \in InjWallets : Announce(w) \/ PermissionsChanged(w) \/ PermissionsAnswered(w)
         \/ \E s \in InjSessions : \E chain \in InjChains : AsksOnce(s, None, chain)
  PROVE  FollowInv'
<1>1. UNCHANGED <<injSessions, strayed, listening>>
  BY DEF injVars, index, Announce, PermissionsChanged, PermissionsAnswered, AsksOnce
<1>2. injWallet' = injWallet \/ \E w \in InjWallets : injWallet' = [injWallet EXCEPT ![w].permitted = FALSE]
  BY DEF injVars, Announce, PermissionsChanged, PermissionsAnswered, AsksOnce
<1>3. \A v \in InjWallets : injWallet'[v].account = injWallet[v].account
  BY <1>2 DEF InjWalletTypes
<1>4. injTasks' = injTasks \/ \E w \in InjWallets : injTasks' = Detached(w, injTasks)
  BY DEF injVars, Announce, PermissionsChanged, PermissionsAnswered, AsksOnce
<1>5. \A c \in InjCalls : injTasks'[c] = Idle \/ SameCall(injTasks[c], injTasks'[c])
  BY <1>4, SameCalls, DetachedFollow
<1>6. \A w \in InjWallets : ToSet(listening'[w]) \subseteq ToSet(listening[w])
  BY <1>1
<1> QED
  BY <1>1, <1>3, <1>5, <1>6, FollowQuiet

LEMMA FollowStep == ASSUME InjInv, FollowInv, InjWalletTypes, [InjNext]_injVars PROVE FollowInv'
<1>1. CASE UNCHANGED injVars
  BY <1>1, EventsFollow
<1>2. CASE Clear
  BY <1>2, ClearFollows
<1>3. ASSUME NEW w \in InjWallets, Announce(w) \/ PermissionsChanged(w) \/ PermissionsAnswered(w) PROVE FollowInv'
  BY <1>3, EventsFollow
<1>4. ASSUME NEW w \in InjWallets, NEW chain \in InjChains, InjChainChanged(w, chain) PROVE FollowInv'
  BY <1>4, ChainFollows
<1>5. ASSUME NEW w \in InjWallets, NEW address \in InjAddresses \union {None}, InjAccountsChanged(w, address)
      PROVE  FollowInv'
  BY <1>5, AccountsFollow
<1>6. ASSUME NEW s \in InjSessions, InjDisconnect(s) PROVE FollowInv'
  BY <1>6, DropsFollow DEF InjDisconnect
<1>7. ASSUME NEW s \in InjSessions, NEW chain \in InjChains, AsksOnce(s, None, chain) PROVE FollowInv'
  BY <1>7, EventsFollow
<1>8. ASSUME NEW c \in InjCalls, NEW s \in InjSessions, NEW chain, InjReconnect(c, s) \/ InjSwitchChain(c, s, chain)
      PROVE  FollowInv'
  BY <1>8, ReadsFollow
<1>9. ASSUME NEW c \in InjCalls, NEW input, InjConnect(c, input) \/ ConnectAccounts(c) \/ WalletLacksChain(c)
      PROVE  FollowInv'
  BY <1>9, ReadsFollow
<1>10. ASSUME NEW c \in InjCalls, NEW s \in InjSessions, NEW required, ConnectChain(c, s, required) PROVE FollowInv'
  BY <1>10, MadeFollows
<1>11. ASSUME NEW c \in InjCalls, ReconnectChain(c) PROVE FollowInv'
  BY <1>11, MadeFollows
<1>12. ASSUME NEW c \in InjCalls, WalletSwitches(c) PROVE FollowInv'
  BY <1>12, SwitchFollows
<1>13. ASSUME NEW c \in InjCalls, NEW s \in InjSessions, NEW items, NEW atomic, NEW chain,
              InjSendCalls(c, s, items, atomic, chain)
       PROVE  FollowInv'
  BY <1>13, BatchFollows
<1>14. ASSUME NEW c \in InjCalls, NEW answer, BatchAnswered(c, answer) PROVE FollowInv'
  BY <1>14, BatchFollows
<1>15. ASSUME NEW c \in InjCalls, ConnectAccounts(c) \/ WalletLacksChain(c) PROVE FollowInv'
  BY <1>15, ReadsFollow
<1>16. ASSUME NEW c \in InjCalls, NEW s \in InjSessions, InjReconnect(c, s) PROVE FollowInv'
  BY <1>8, <1>16
<1> QED
  BY <1>1, <1>2, <1>3, <1>4, <1>5, <1>6, <1>7, <1>8, <1>9, <1>10, <1>11, <1>12, <1>13, <1>14, <1>15, <1>16, Zenon
     DEF InjNext

-----------------------------------------------------------------------------
(* CoinbaseWallet *)

LEMMA CbStarts == CoinbaseInit => CbInv
<1> SUFFICES ASSUME CoinbaseInit PROVE CbInv
  OBVIOUS
<1>1. cbTasks \in [CbCalls -> CbTask] /\ \A c \in CbCalls : cbTasks[c].pc = "idle"
  BY DEF CoinbaseInit, CbTask, Idle
<1> QED
  BY <1>1, FirstCoinbaseAssumption DEF CoinbaseInit, CbInv, CbAt, Batches, MovedSessionStopsBatch

\* What the tasks and the sessions of the connector may become.
CbTaskInv(t, sessions) ==
  /\ t \in CbTask
  /\ t.pc \in {"switch", "batch", "one by one", "sent"} => sessions[t.of] \in CbTerms
  /\ t.pc \in {"batch", "one by one", "sent"} => t.asked \subseteq {t.terms}
CbWalletInv ==
  /\ coinbase \in [chain : CbChains, account : CbAddresses \cup {None}, supports : SUBSET CbChains]
  /\ cbSessions \in [CbSessions -> CbTerms \cup {None}]
  /\ adapter \in BOOLEAN /\ lastCoinbase \in CbSessions \cup {None}
  /\ lastCoinbase # None => cbSessions[lastCoinbase] \in CbTerms

LEMMA CbParts ==
  ASSUME CbInv
  PROVE  /\ CbWalletInv
         /\ cbTasks = [c \in CbCalls |-> cbTasks[c]]
         /\ \A c \in CbCalls : CbTaskInv(cbTasks[c], cbSessions)
<1>1. CbWalletInv
  BY DEF CbInv, CbWalletInv
<1> QED
  BY <1>1 DEF CbInv, CbTaskInv, CbAt, Batches, MovedSessionStopsBatch

LEMMA CbTaskOf ==
  ASSUME NEW t \in CbTask
  PROVE  /\ t.pc \in {"batch", "one by one", "sent"} => t \in CbBatchTask
         /\ t.pc = "switch" => t \in [pc : {"switch"}, of : CbSessions, chain : CbChains]
         /\ t.pc \in {"switch", "batch", "one by one", "sent"} => t.of \in CbSessions
         /\ t.pc = "chain" => t.account \in CbAddresses
<1>1. t \in {Idle} \cup [pc : {"accounts", "signing"}] => t.pc \in {"idle", "accounts", "signing"}
  BY IdleIs
<1>2. t \in [pc : {"chain"}, account : CbAddresses] => t.pc = "chain" /\ t.account \in CbAddresses
  OBVIOUS
<1>3. t \in [pc : {"switch"}, of : CbSessions, chain : CbChains] => t.pc = "switch" /\ t.of \in CbSessions
  OBVIOUS
<1>4. t \in CbBatchTask => t.pc \in {"batch", "one by one", "sent"} /\ t.of \in CbSessions
  BY DEF CbBatchTask
<1> QED
  BY <1>1, <1>2, <1>3, <1>4 DEF CbTask

\* A step that keeps the sessions that were made, and gives one call a good task.
LEMMA CbFrame ==
  ASSUME CbInv, CbWalletInv',
         \A s \in CbSessions : cbSessions[s] \in CbTerms => cbSessions'[s] \in CbTerms,
         \/ UNCHANGED cbTasks
         \/ \E c \in CbCalls : \E t : CbAwait(c, t) /\ CbTaskInv(t, cbSessions')
  PROVE  CbInv'
<1>1. \A c \in CbCalls : CbTaskInv(cbTasks[c], cbSessions)
  BY CbParts
<1>2. \A c \in CbCalls : cbTasks'[c] = cbTasks[c] => CbTaskInv(cbTasks'[c], cbSessions')
  BY <1>1, CbTaskOf DEF CbTaskInv
<1>3. cbTasks = [d \in CbCalls |-> cbTasks[d]]
  BY CbParts
<1>4. /\ cbTasks' = [d \in CbCalls |-> cbTasks'[d]]
      /\ \A c \in CbCalls : CbTaskInv(cbTasks'[c], cbSessions')
  BY <1>2, <1>3 DEF CbAwait
<1>5. cbTasks' \in [CbCalls -> CbTask]
  BY <1>4 DEF CbTaskInv
<1> QED
  BY <1>4, <1>5 DEF CbInv, CbWalletInv, CbTaskInv, CbAt, Batches, MovedSessionStopsBatch

LEMMA CbStep == ASSUME CbInv, [CoinbaseNext]_cbVars PROVE CbInv'
<1> USE CbFrame, CbParts DEF CbWalletInv
<1>i. \A t : t = Idle => CbTaskInv(t, cbSessions')
  BY IdleIs DEF CbTaskInv, CbTask
<1>1. CASE CbDisconnect
  BY <1>1 DEF CbDisconnect, Cleanup
<1>2. ASSUME NEW chain \in CbChains, CbChainChanged(chain) PROVE CbInv'
  BY <1>2 DEF CbChainChanged, CbOnChain, Heard, CbTerms
<1>3. ASSUME NEW account \in CbAddresses \cup {None}, CbAccountsChanged(account) PROVE CbInv'
  BY <1>3 DEF CbAccountsChanged, Heard, CbTerms
<1>4. ASSUME NEW c \in CbCalls, CbConnect(c) PROVE CbInv'
  <2>1. CbTaskInv([pc |-> "accounts"], cbSessions')
    BY DEF CbTaskInv, CbTask
  <2> QED
    BY <1>4, <2>1 DEF CbConnect
<1>5. ASSUME NEW c \in CbCalls, CbConnectAccounts(c) PROVE CbInv'
  <2>1. \A a \in CbAddresses : CbTaskInv([pc |-> "chain", account |-> a], cbSessions')
    BY DEF CbTaskInv, CbTask
  <2> QED
    BY <1>5, <1>i, <2>1 DEF CbConnectAccounts, Cleanup
<1>6. ASSUME NEW c \in CbCalls, CbSwitched(c) PROVE CbInv'
  <2>1. cbTasks[c].chain \in CbChains /\ cbTasks[c].of \in CbSessions /\ cbSessions[cbTasks[c].of] \in CbTerms
    BY <1>6, CbTaskOf DEF CbSwitched, CbAt, CbTaskInv
  <2>2. CASE UNCHANGED <<coinbase, cbSessions>>
    BY <1>6, <1>i, <2>2 DEF CbSwitched
  <2>3. CASE cbTasks[c].chain \in coinbase.supports
    BY <1>6, <1>i, <2>1, <2>3 DEF CbSwitched, CbOnChain, Heard, CbTerms
  <2> QED
    BY <1>6, <2>2, <2>3 DEF CbSwitched
<1>7. ASSUME NEW c \in CbCalls, CbBatchEnds(c) PROVE CbInv'
  BY <1>7, <1>i DEF CbBatchEnds
<1>8. ASSUME NEW c \in CbCalls, NEW answer, CbBatchAnswered(c, answer) PROVE CbInv'
  <2> DEFINE t == cbTasks[c]
             ran == t.ran \cup {[chain |-> coinbase.chain, account |-> coinbase.account]}
  <2>1. t \in CbBatchTask /\ CbTaskInv(t, cbSessions)
    BY <1>8, CbTaskOf DEF CbBatchAnswered, CbTaskInv
  <2>2. ASSUME NEW u \in CbBatchTask, u.of = t.of, u.terms = t.terms, u.asked = t.asked, NextCall(c, u),
               UNCHANGED <<coinbase, cbSessions, adapter, lastCoinbase>>
        PROVE  CbInv'
    <3> DEFINE v == [u EXCEPT !.pc = "one by one", !.left = @ - 1, !.asked = @ \cup {cbSessions[u.of]}]
               w == [u EXCEPT !.pc = "sent"]
    <3>1. ASSUME u.left > 0, SessionUnmoved(u) PROVE CbTaskInv(v, cbSessions')
      <4>1. cbSessions[u.of] = u.terms /\ u.terms \in CbTerms /\ u.asked \subseteq {u.terms}
        BY <2>1, <2>2, <3>1 DEF SessionUnmoved, CbBatchTask, CbTaskInv
      <4>5. u.left \in Nat
        BY <2>2 DEF CbBatchTask
      <4>2. u.left - 1 \in Nat
        BY <3>1, <4>5
      <4>3. v \in CbBatchTask
        BY <2>2, <4>1, <4>2 DEF CbBatchTask
      <4>4. v.of = u.of /\ v.asked = u.asked \cup {u.terms} /\ v.terms = u.terms
        BY <2>2, <4>1 DEF CbBatchTask
      <4> QED
        BY <2>2, <4>1, <4>3, <4>4 DEF CbTaskInv, CbTask
    <3>2. CbTaskInv(w, cbSessions')
      BY <2>1, <2>2 DEF CbTaskInv, CbTask, CbBatchTask
    <3> QED
      BY <2>2, <3>1, <3>2 DEF NextCall
  <2>3. Executes(t) => [t EXCEPT !.ran = ran] \in CbBatchTask
    BY <2>1 DEF Executes, CbBatchTask, CbTerms
  <2>4. UNCHANGED <<cbSessions>> => CbTaskInv([t EXCEPT !.pc = "sent"], cbSessions')
    BY <2>1 DEF CbTaskInv, CbTask, CbBatchTask
  <2>5. [t EXCEPT !.ran = ran].of = t.of /\ [t EXCEPT !.ran = ran].terms = t.terms
        /\ [t EXCEPT !.ran = ran].asked = t.asked
    BY <2>1 DEF CbBatchTask
  <2>6. [t EXCEPT !.ran = ran] = [t EXCEPT !.ran = @ \cup {[chain |-> coinbase.chain, account |-> coinbase.account]}]
    OBVIOUS
  <2> HIDE DEF ran
  <2> QED
    BY <1>8, <2>1, <2>2, <2>3, <2>4, <2>5, <2>6 DEF CbBatchAnswered
<1>9. ASSUME NEW c \in CbCalls, NEW s \in CbSessions, NEW requested, CbConnectChain(c, s, requested)
      PROVE  CbInv'
  <2>1. cbTasks[c].account \in CbAddresses
    BY <1>9, CbTaskOf DEF CbConnectChain, CbAt, CbTaskInv
  <2>2. CASE requested \in {None, coinbase.chain}
    BY <1>9, <1>i, <2>1, <2>2 DEF CbConnectChain, CbTerms
  <2>3. CASE requested \notin {None, coinbase.chain}
    BY <1>9, <1>i, <2>3 DEF CbConnectChain, Cleanup
  <2> QED
    BY <2>2, <2>3
<1>10. ASSUME NEW c \in CbCalls, NEW s \in CbSessions, NEW chain \in CbChains,
              CbSwitchChain(c, s, chain)
       PROVE  CbInv'
  <2>1. CbTaskInv([pc |-> "switch", of |-> s, chain |-> chain], cbSessions')
    BY <1>10 DEF CbSwitchChain, HasSession, CbTaskInv, CbTask
  <2> QED
    BY <1>10, <2>1 DEF CbSwitchChain
<1>11. ASSUME NEW c \in CbCalls, NEW s \in CbSessions, NEW from, CbTransact(c, s, from) PROVE CbInv'
  <2>1. CbTaskInv([pc |-> "one by one", of |-> s, terms |-> cbSessions[s], items |-> 1, atomic |-> TRUE,
                   left |-> 0, asked |-> {cbSessions[s]}, ran |-> {}], cbSessions')
    BY <1>11 DEF CbTransact, HasSession, CbTaskInv, CbTask, CbBatchTask
  <2> QED
    BY <1>11, <2>1 DEF CbTransact
<1>12. ASSUME NEW c \in CbCalls, NEW s \in CbSessions, NEW from, CbSignMessage(c, s, from) PROVE CbInv'
  <2>1. CbTaskInv([pc |-> "signing"], cbSessions')
    BY DEF CbTaskInv, CbTask
  <2> QED
    BY <1>12, <2>1 DEF CbSignMessage
<1>13. ASSUME NEW c \in CbCalls, NEW s \in CbSessions, NEW items \in Nat, NEW atomic \in BOOLEAN,
              CbSendCalls(c, s, items, atomic)
       PROVE  CbInv'
  <2>1. CbTaskInv([pc |-> "batch", of |-> s, terms |-> cbSessions[s], items |-> items, atomic |-> atomic,
                   left |-> items, asked |-> {}, ran |-> {}], cbSessions')
    BY <1>13 DEF CbSendCalls, HasSession, CbTaskInv, CbTask, CbBatchTask
  <2> QED
    BY <1>13, <2>1 DEF CbSendCalls
<1>14. CASE UNCHANGED cbVars
  BY <1>14 DEF cbVars
<1> QED
  BY <1>1, <1>2, <1>3, <1>4, <1>5, <1>6, <1>7, <1>8, <1>9, <1>10, <1>11, <1>12, <1>13, <1>14
  DEF CoinbaseNext
-----------------------------------------------------------------------------
(* XrplWallet *)

LEMMA XrplStarts == XrplInit => XrplInv
  BY DEF XrplInit, XrplInv, XrplTypeOK, PendingIsOfConnected, XrplWaits

\* The slot is taken by a call on the wallet that is connected, and emptied with it.
LEMMA XrplStep == ASSUME XrplInv, [XrplNext]_xrplVars PROVE XrplInv'
<1> USE DEF XrplInv, XrplTypeOK, PendingIsOfConnected, XrplWaits
<1>1. CASE XrplTimedOut
  BY <1>1 DEF XrplTimedOut
<1>2. CASE XrplDisconnect
  BY <1>2 DEF XrplDisconnect, CleanedUp
<1>3. ASSUME NEW signed \in BOOLEAN, XamanAnswers(signed) PROVE XrplInv'
  BY <1>3 DEF XamanAnswers
<1>4. ASSUME NEW chain \in XrplChains, SetNetwork(chain) PROVE XrplInv'
  BY <1>4 DEF SetNetwork
<1>5. ASSUME NEW chain \in XrplChains, NEW c \in XrplCalls, XrplConnect(c, chain) PROVE XrplInv'
  BY <1>5 DEF XrplConnect, Idle
<1>6. ASSUME NEW chain \in XrplChains, NEW s \in XrplSessions, XrplSwitchChain(s, chain) PROVE XrplInv'
  BY <1>6 DEF XrplSwitchChain
<1>7. ASSUME NEW address, NEW s \in XrplSessions, XamanConnected(address, s) PROVE XrplInv'
  BY <1>7 DEF XamanConnected
<1>8. ASSUME NEW d \in XrplDocs, NEW dest, NEW tag, CreatePaymentTx(d, dest, tag) PROVE XrplInv'
  BY <1>8 DEF CreatePaymentTx, NewDoc, IsXrplDoc
<1>9. ASSUME NEW d \in XrplDocs, NEW account, NEW dest, NEW tag, WriteTx(d, account, dest, tag)
      PROVE  XrplInv'
  BY <1>9 DEF WriteTx, NewDoc, IsXrplDoc
<1>10. ASSUME NEW c \in XrplCalls, NEW d \in XrplDocs, SignTx(c, d) PROVE XrplInv'
  <2> DEFINE doc == Normalized(xrplDocs[d])
  <2>1. IsXrplDoc(xrplDocs[d])
    BY <1>10 DEF SignTx
  <2>2. IsXrplDoc(doc) /\ doc.account = xrplDocs[d].account
    BY <2>1 DEF Normalized, IsXrplDoc
  <2> HIDE DEF doc
  <2>3. /\ xrplDocs' = [xrplDocs EXCEPT ![d] = doc]
        /\ \/ UNCHANGED <<xrplPending, xrplTasks>>
           \/ /\ xrplPending' = c
              /\ xrplTasks' = [xrplTasks EXCEPT ![c] = [pc |-> "sign", tx |-> doc]]
        /\ xrplWallet # None /\ xrplDocs[d].account = xrplWallet.of
        /\ UNCHANGED <<xrplChain, xrplWallet>>
    BY <1>10 DEF SignTx, WalletUsable, doc
  <2>4. XrplTypeOK' /\ DOMAIN xrplTasks' = XrplCalls /\ DOMAIN xrplDocs' = XrplDocs
    BY <2>3, IdleIs
  <2>5. \A e \in XrplDocs : xrplDocs'[e] # None => IsXrplDoc(xrplDocs'[e])
    BY <2>2, <2>3
  <2>6. PendingIsOfConnected'
    BY <2>2, <2>3, <2>4
  <2> QED
    BY <2>4, <2>5, <2>6 DEF IsXrplDoc
<1>11. CASE UNCHANGED xrplVars
  BY <1>11 DEF xrplVars
<1> QED
  BY <1>1, <1>2, <1>3, <1>4, <1>5, <1>6, <1>7, <1>8, <1>9, <1>10, <1>11 DEF XrplNext

-----------------------------------------------------------------------------
(* EmbeddedWallet *)

\* A signature is given only when the account that signs is the one asked for.
LEMMA EmbStep == ASSUME SignedAsRequested, [EmbNext]_embVars PROVE SignedAsRequested'
<1>1. ASSUME NEW c \in EmbCalls, SignGiven(c) PROVE SignedAsRequested'
  BY <1>1 DEF SignGiven, RequestAllowed, SignedAsRequested
<1>2. CASE UNCHANGED embSigned
  BY <1>2 DEF SignedAsRequested
<1>3. (\E c \in EmbCalls : SignGiven(c)) \/ UNCHANGED embSigned
  BY DEF EmbNext, embVars, EmbDisconnect, Backfill, EmbSave, EmbWipe, ImportPhrase, SetActiveNamespace,
         SwitchEmbeddedChain, EmbReconnected, EmbConnect, EmbConnected, SignAsked
<1> QED
  BY <1>1, <1>2, <1>3

\* The record in storage and the wallet's change together, from a record or a phrase.
LEMMA EmbDataStep == ASSUME EmbDataTypes, [EmbNext]_embVars PROVE EmbDataTypes'
<1> DEFINE Data == [of : EmbPhrases, spaces : SUBSET Spaces, active : Spaces]
           IsWallet(x) == DOMAIN x = {"data"} /\ (x.data # None => IsEmbData(x.data))
<1>1. (embStored # None => IsEmbData(embStored)) /\ (embWallet # None => IsWallet(embWallet))
  BY DEF EmbDataTypes
<1>2. ASSUME embStored' # None => IsEmbData(embStored'), embWallet' # None => IsWallet(embWallet')
      PROVE  EmbDataTypes'
  BY <1>2 DEF EmbDataTypes, IsEmbData
<1>3. \A p \in EmbPhrases : IsEmbData(Record(p, Spaces))
  BY DEF IsEmbData, Record, Spaces
<1>4. ASSUME NEW d, d = None \/ IsEmbData(d) PROVE IsWallet([data |-> d])
  <2> DEFINE x == [data |-> d]
  <2>1. DOMAIN x = {"data"} /\ x.data = d
    OBVIOUS
  <2> HIDE DEF x
  <2>2. IsWallet(x)
    BY <1>4, <2>1
  <2> QED
    BY <2>2 DEF x
<1> HIDE DEF IsWallet
<1>5. CASE UNCHANGED <<embStored, embWallet>>
  BY <1>1, <1>2, <1>5
<1>6. ASSUME EnsureWallet, UNCHANGED embStored PROVE EmbDataTypes'
  BY <1>1, <1>2, <1>4, <1>6 DEF EnsureWallet
<1>7. ASSUME NEW c \in EmbCalls, NEW t \in EmbSessions, NEW fresh \in EmbPhrases, EmbConnected(c, t, fresh)
      PROVE  EmbDataTypes'
  <2> DEFINE record == IF embStored # None THEN embStored ELSE Record(fresh, Spaces)
  <2>1. IsEmbData(record)
    BY <1>1, <1>3
  <2>2. embStored' = record /\ (embWallet' = [data |-> record] \/ embWallet' = embWallet)
    BY <1>7 DEF EmbConnected
  <2> HIDE DEF record
  <2>3. IsWallet([data |-> record])
    BY <1>4, <2>1
  <2> QED
    BY <1>1, <1>2, <2>1, <2>2, <2>3
<1>8. ASSUME NEW c \in EmbCalls, EmbReconnected(c) PROVE EmbDataTypes'
  <2>1. UNCHANGED embStored /\ (embWallet' = embWallet \/ (embStored # None /\ embWallet' = [data |-> embStored]))
    BY <1>8 DEF EmbReconnected
  <2> QED
    BY <1>1, <1>2, <1>4, <2>1
<1>9. CASE EmbDisconnect
  BY <1>1, <1>2, <1>9 DEF EmbDisconnect
<1>10. ASSUME NEW p \in EmbPhrases, ImportPhrase(p) PROVE EmbDataTypes'
  BY <1>2, <1>3, <1>4, <1>10 DEF ImportPhrase
<1>11. ASSUME Loaded PROVE embWallet # None /\ IsEmbData(embWallet.data) /\ embWallet.data # None
  BY <1>1, <1>11 DEF Loaded, IsWallet
<1>12. ASSUME NEW ns \in Spaces, SetActiveNamespace(ns) PROVE EmbDataTypes'
  <2> DEFINE d == embWallet.data
             e == [d EXCEPT !.active = ns]
  <2>1. IsEmbData(d) /\ ns \in d.spaces /\ embWallet' = [data |-> e] /\ UNCHANGED embStored
    BY <1>11, <1>12 DEF SetActiveNamespace
  <2> HIDE DEF d
  <2>2. e \in Data /\ e.active = ns /\ e.spaces = d.spaces
    BY <2>1 DEF IsEmbData
  <2>3. IsEmbData(e)
    BY <2>1, <2>2 DEF IsEmbData
  <2> HIDE DEF e
  <2> QED
    BY <1>1, <1>2, <1>4, <2>1, <2>3
<1>13. CASE Backfill
  <2> DEFINE d == embWallet.data
             e == [d EXCEPT !.spaces = Spaces]
  <2>1. IsEmbData(d) /\ embWallet' = [data |-> e] /\ embStored' = embWallet'.data
    BY <1>11, <1>13 DEF Backfill
  <2> HIDE DEF d
  <2>2. e \in Data /\ e.active = d.active /\ e.spaces = Spaces
    BY <2>1 DEF IsEmbData
  <2>3. IsEmbData(e)
    BY <2>2 DEF IsEmbData
  <2> HIDE DEF e
  <2>4. embStored' = e
    BY <2>1
  <2> QED
    BY <1>2, <1>4, <2>1, <2>3, <2>4
<1>14. CASE EmbSave
  BY <1>1, <1>2, <1>11, <1>14 DEF EmbSave
<1>15. CASE EmbWipe
  BY <1>2, <1>4, <1>15 DEF EmbWipe
<1>16. ASSUME NEW t \in EmbSessions, NEW chain \in EmbChains, SwitchEmbeddedChain(t, chain) PROVE EmbDataTypes'
  BY <1>6, <1>16 DEF SwitchEmbeddedChain
<1>17. ASSUME NEW c \in EmbCalls, NEW again, EmbConnect(c, again) PROVE EmbDataTypes'
  BY <1>6, <1>17 DEF EmbConnect
<1>18. ASSUME NEW c \in EmbCalls, NEW asked, SignAsked(c, asked) PROVE EmbDataTypes'
  BY <1>6, <1>18 DEF SignAsked
<1>19. ASSUME NEW c \in EmbCalls, SignGiven(c) PROVE EmbDataTypes'
  BY <1>5, <1>19 DEF SignGiven
<1>20. CASE UNCHANGED embVars
  BY <1>5, <1>20 DEF embVars
<1> QED
  BY <1>7, <1>8, <1>9, <1>10, <1>12, <1>13, <1>14, <1>15, <1>16, <1>17, <1>18, <1>19, <1>20, Zenon DEF EmbNext

\* The account a session is given is one of the wallet's.
LEMMA EmbAccountIs ==
  ASSUME EmbDataTypes
  PROVE  ActiveAddress # None => ActiveAddress \in [ns : Spaces, of : EmbPhrases]
<1>1. CASE Loaded
  <2>1. IsEmbData(embWallet.data)
    BY <1>1 DEF EmbDataTypes, Loaded
  <2> DEFINE d == embWallet.data
  <2> HIDE DEF d
  <2>2. d \in [of : EmbPhrases, spaces : SUBSET Spaces, active : Spaces]
    BY <2>1 DEF IsEmbData, d
  <2>3. Account(d.active, d) \in [ns : Spaces, of : EmbPhrases]
    BY <2>2 DEF Account
  <2> QED
    BY <1>1, <2>3 DEF ActiveAddress, d
<1>2. CASE ~Loaded
  BY <1>2 DEF ActiveAddress
<1> QED
  BY <1>1, <1>2

\* A session that is there stays one.
LEMMA EmbFrame ==
  ASSUME EmbSessionTypes, embChain' \in EmbChains, embSessions' \in [EmbSessions -> EmbSession \cup {None}],
         \A t \in EmbSessions : embSessions[t] \in EmbSession => embSessions'[t] \in EmbSession,
         \/ activeSession' \in {activeSession, None}
         \/ activeSession' \in EmbSessions /\ embSessions'[activeSession'] \in EmbSession,
         \/ UNCHANGED embTasks
         \/ \E c \in EmbCalls : \E t :
              /\ EmbAwait(c, t)
              /\ t.pc = "load" /\ t.again # None => t.again \in EmbSessions /\ embSessions[t.again] \in EmbSession
  PROVE  EmbSessionTypes'
<1> DEFINE Renews(t) == t.pc = "load" /\ t.again # None
<1>1. \A c \in EmbCalls : Renews(embTasks[c]) =>
        embTasks[c].again \in EmbSessions /\ embSessions[embTasks[c].again] \in EmbSession
  BY DEF EmbSessionTypes, EmbAt
<1>2. DOMAIN embTasks = EmbCalls
  BY DEF EmbSessionTypes
<1>3. DOMAIN embTasks' = EmbCalls
  BY <1>2 DEF EmbAwait
<1> HIDE DEF Renews
<1>4. \A d \in EmbCalls : embTasks'[d] = embTasks[d] \/
        (Renews(embTasks'[d]) => embTasks'[d].again \in EmbSessions /\ embSessions[embTasks'[d].again] \in EmbSession)
  BY <1>2 DEF EmbAwait, Renews
<1>5. \A d \in EmbCalls : Renews(embTasks'[d]) =>
        embTasks'[d].again \in EmbSessions /\ embSessions[embTasks'[d].again] \in EmbSession
  BY <1>1, <1>4
<1>6. \A d \in EmbCalls : Renews(embTasks'[d]) =>
        embTasks'[d].again \in EmbSessions /\ embSessions'[embTasks'[d].again] \in EmbSession
  BY <1>5
<1>7. activeSession' # None => activeSession' \in EmbSessions /\ embSessions'[activeSession'] \in EmbSession
  BY DEF EmbSessionTypes
<1> QED
  BY <1>3, <1>6, <1>7 DEF EmbSessionTypes, EmbAt, Renews, EmbSession, Spaces

LEMMA EmbSessionStep == ASSUME EmbDataTypes, EmbSessionTypes, [EmbNext]_embVars PROVE EmbSessionTypes'
<1>1. embChain \in EmbChains /\ embSessions \in [EmbSessions -> EmbSession \cup {None}]
  BY DEF EmbSessionTypes
<1>2. \A t : t.pc # "load" => (t.pc = "load" /\ t.again # None => t.again \in EmbSessions /\ embSessions[t.again] \in EmbSession)
  OBVIOUS
<1>3. ASSUME UNCHANGED <<embChain, embSessions>>, activeSession' \in {activeSession, None},
             UNCHANGED embTasks \/ \E c \in EmbCalls : \E t : EmbAwait(c, t) /\ t.pc # "load"
      PROVE  EmbSessionTypes'
  BY <1>1, <1>3, EmbFrame
<1>4. ASSUME NEW c \in EmbCalls, NEW t \in EmbSessions, NEW fresh \in EmbPhrases, EmbConnected(c, t, fresh)
      PROVE  EmbSessionTypes'
  <2> DEFINE record == IF embStored # None THEN embStored ELSE Record(fresh, Spaces)
             wallet == IF embWallet # None /\ embTasks[c].gen = embGen THEN [data |-> record] ELSE embWallet
             made == BuildNamespaces(wallet)
  <2>1. made \in EmbSession
    <3>1. IsEmbData(record)
      BY DEF EmbDataTypes, IsEmbData, Record, Spaces
    <3> HIDE DEF record
    <3>2. [data |-> record].data = record
      OBVIOUS
    <3>3. wallet = None \/ wallet.data = None \/ IsEmbData(wallet.data)
      BY <3>1, <3>2 DEF EmbDataTypes
    <3> HIDE DEF wallet
    <3>4. CASE wallet = None \/ wallet.data = None
      BY <3>4 DEF BuildNamespaces, EmbSession
    <3>5. CASE ~(wallet = None \/ wallet.data = None)
      <4> DEFINE d == wallet.data
      <4>1. d.of \in EmbPhrases
        BY <3>3, <3>5 DEF IsEmbData
      <4> HIDE DEF d
      <4>2. Account("eip155", d) \in [ns : Spaces, of : EmbPhrases]
        BY <4>1 DEF Account, Spaces
      <4>3. made = [chain |-> embChain, account |-> Account("eip155", d)]
        BY <3>5 DEF BuildNamespaces, d
      <4> HIDE DEF made
      <4> QED
        BY <1>1, <4>2, <4>3 DEF EmbSession
    <3> QED
      BY <3>4, <3>5
  <2>2. /\ embSessions' = [embSessions EXCEPT ![t] = made] /\ activeSession' = t
        /\ EmbAwait(c, Idle) /\ UNCHANGED embChain
    BY <1>4 DEF EmbConnected
  <2> HIDE DEF made
  <2>3. /\ embSessions' \in [EmbSessions -> EmbSession \cup {None}] /\ embSessions'[t] = made
        /\ \A u \in EmbSessions : embSessions[u] \in EmbSession => embSessions'[u] \in EmbSession
    BY <1>1, <2>1, <2>2
  <2> QED
    BY <1>1, <2>1, <2>2, <2>3, IdleIs, EmbFrame
<1>5. ASSUME NEW c \in EmbCalls, EmbReconnected(c) PROVE EmbSessionTypes'
  <2>1. UNCHANGED <<embChain, embSessions>> /\ EmbAwait(c, Idle)
        /\ (activeSession' = activeSession \/ activeSession' = embTasks[c].again)
    BY <1>5 DEF EmbReconnected
  <2>2. embTasks[c].again \in EmbSessions /\ embSessions[embTasks[c].again] \in EmbSession
    BY <1>5 DEF EmbReconnected, EmbSessionTypes
  <2> QED
    BY <1>1, <2>1, <2>2, IdleIs, EmbFrame
<1>6. ASSUME NEW c \in EmbCalls, NEW again \in EmbSessions \union {None}, EmbConnect(c, again) PROVE EmbSessionTypes'
  <2> DEFINE t == [pc |-> "load", gen |-> embGen', again |-> again]
  <2>1. UNCHANGED <<embChain, embSessions, activeSession>> /\ EmbAwait(c, t) /\ t.again = again
        /\ (again # None => embSessions[again] # None)
    BY <1>6 DEF EmbConnect
  <2>2. again # None => again \in EmbSessions /\ embSessions[again] \in EmbSession
    BY <1>1, <2>1
  <2> HIDE DEF t
  <2> QED
    BY <1>1, <2>1, <2>2, EmbFrame
<1>7. ASSUME NEW t \in EmbSessions, NEW chain \in EmbChains, SwitchEmbeddedChain(t, chain) PROVE EmbSessionTypes'
  <2> DEFINE account == IF ActiveAddress # None THEN ActiveAddress ELSE embSessions[t].account
             moved == [chain |-> chain, account |-> account]
  <2>1. /\ activeSession = t /\ embChain' = chain /\ UNCHANGED <<activeSession, embTasks>>
        /\ embSessions' = [embSessions EXCEPT ![t] = moved]
    BY <1>7 DEF SwitchEmbeddedChain
  <2>2. embSessions[t] \in EmbSession
    BY <2>1, EmbSessionAssumption DEF EmbSessionTypes
  <2>3. account \in [ns : Spaces, of : EmbPhrases] \union {None}
    BY <2>2, EmbAccountIs DEF EmbSession
  <2> HIDE DEF account
  <2>4. moved \in EmbSession
    BY <2>3 DEF EmbSession
  <2> HIDE DEF moved
  <2>5. /\ embSessions' \in [EmbSessions -> EmbSession \cup {None}]
        /\ \A u \in EmbSessions : embSessions[u] \in EmbSession => embSessions'[u] \in EmbSession
    BY <1>1, <2>1, <2>4
  <2> QED
    BY <2>1, <2>5, EmbFrame
<1>8. ASSUME NEW c \in EmbCalls, NEW asked, SignAsked(c, asked) PROVE EmbSessionTypes'
  <2> DEFINE t == [pc |-> "sign", of |-> activeSession, asked |-> asked]
  <2>1. UNCHANGED <<embChain, embSessions, activeSession>> /\ EmbAwait(c, t) /\ t.pc # "load"
    BY <1>8 DEF SignAsked
  <2> HIDE DEF t
  <2> QED
    BY <1>3, <2>1
<1>9. ASSUME NEW c \in EmbCalls, SignGiven(c) PROVE EmbSessionTypes'
  BY <1>3, <1>9, IdleIs DEF SignGiven
<1>10. ASSUME \/ UNCHANGED embVars \/ EmbDisconnect \/ Backfill \/ EmbSave \/ EmbWipe
              \/ (\E p \in EmbPhrases : ImportPhrase(p)) \/ (\E ns \in Spaces : SetActiveNamespace(ns))
       PROVE  UNCHANGED <<embChain, embSessions, embTasks>> /\ activeSession' \in {activeSession, None}
  BY <1>10 DEF embVars, EmbDisconnect, Backfill, EmbSave, EmbWipe, ImportPhrase, SetActiveNamespace
<1>11. ASSUME \/ UNCHANGED embVars \/ EmbDisconnect \/ Backfill \/ EmbSave \/ EmbWipe
              \/ (\E p \in EmbPhrases : ImportPhrase(p)) \/ (\E ns \in Spaces : SetActiveNamespace(ns))
       PROVE  EmbSessionTypes'
  BY <1>3, <1>10, <1>11
<1> QED
  BY <1>4, <1>5, <1>6, <1>7, <1>8, <1>9, <1>11, Zenon DEF EmbNext

LEMMA EmbTyped ==
  /\ EmbInit => EmbDataTypes /\ EmbSessionTypes
  /\ EmbDataTypes /\ EmbSessionTypes => EmbTypeOK
<1>1. ASSUME EmbInit PROVE EmbDataTypes
  <2>1. \A p \in EmbPhrases : IsEmbData(Record(p, {"eip155"}))
    BY DEF IsEmbData, Record, Spaces
  <2> QED
    BY <1>1, <2>1 DEF EmbInit, EmbDataTypes
<1>2. ASSUME EmbInit PROVE EmbSessionTypes
  BY <1>2, IdleIs DEF EmbInit, EmbSessionTypes, EmbAt
<1>3. ASSUME EmbDataTypes, EmbSessionTypes PROVE EmbTypeOK
  BY <1>3, EmbSessionAssumption DEF EmbDataTypes, EmbSessionTypes, EmbTypeOK, Loaded, IsEmbData
<1> QED
  BY <1>1, <1>2, <1>3

-----------------------------------------------------------------------------
(* Siwx: the nonces *)

LEMMA NoncesStart == SiwxInit => NoncesInv
  BY DEF SiwxInit, NoncesInv, NonceAcceptedOnce

\* A nonce that was consumed or removed is never issued again.
LEMMA NoncesStep == ASSUME NoncesInv, [SiwxNext]_siwxVars PROVE NoncesInv'
<1> USE DEF NoncesInv, NonceAcceptedOnce
<1>1. ASSUME NEW n, IssueNonce(n) PROVE NoncesInv'
  BY <1>1 DEF IssueNonce
<1>2. ASSUME NEW n, RemoveNonce(n) PROVE NoncesInv'
  BY <1>2 DEF RemoveNonce
<1>3. ASSUME NEW v \in Verifiers, VerifyEnds(v) PROVE NoncesInv'
  <2> DEFINE n == verifying[v].nonce
             S == nonces.consumed \cup nonces.removed
             T == S \cup {n}
  <2>1. CASE UNCHANGED <<nonces, accepted>>
    BY <2>1
  <2>2. CASE n \in nonces.issued \ nonces.consumed /\ nonces' = [nonces EXCEPT !.consumed = @ \cup {n}]
             /\ accepted' = Append(accepted, n)
    <3> HIDE DEF n
    <3>1. n \notin S
      BY <2>2
    <3>2. nonces'.consumed = nonces.consumed \cup {n} /\ nonces'.issued = nonces.issued
          /\ nonces'.removed = nonces.removed
          /\ nonces' = [issued |-> nonces'.issued, consumed |-> nonces'.consumed, removed |-> nonces'.removed]
      BY <2>2
    <3>3. nonces'.consumed \cup nonces'.removed = T
      BY <3>2
    <3> HIDE DEF S
    <3>4. accepted \in Seq(S) /\ \A i \in DOMAIN accepted : accepted[i] # n
      BY <3>1 DEF S
    <3>5. accepted' \in Seq(T)
      BY <2>2, <3>4
    <3>6. NonceAcceptedOnce'
      BY <2>2, <3>4
    <3> HIDE DEF T
    <3> QED
      BY <2>2, <3>2, <3>3, <3>5, <3>6
  <2> QED
    BY <1>3, <2>1, <2>2 DEF VerifyEnds, ConsumeIfValid
<1>4. CASE UNCHANGED <<nonces, accepted>>
  BY <1>4
<1>5. \/ \E n : IssueNonce(n) \/ RemoveNonce(n)
      \/ \E v \in Verifiers : VerifyEnds(v)
      \/ UNCHANGED <<nonces, accepted>>
  BY DEF SiwxNext, siwxVars, server, SignOut, SiwxTick, SignIn, Refresh, Persist, Persisted, Undo,
         Published, SignFails, RestoreBegins, RestoreEnds, RestoreCleared, VerifyBegins
<1> QED
  BY <1>1, <1>2, <1>3, <1>4, <1>5

-----------------------------------------------------------------------------
(* Siwx: the sessions *)

LEMMA SiwxStarts == SiwxInit => SiwxInv
<1> SUFFICES ASSUME SiwxInit PROVE SiwxInv
  OBVIOUS
<1>1. signedMsgs = <<>> /\ Len(signedMsgs) = 0 /\ siwxStored = None /\ siwxOvertaken = {}
      /\ siwxCalls = [c \in SiwxCalls |-> Idle]
  BY DEF SiwxInit
<1>2. SiwxCallInv(Idle, 0, {}, None) /\ Apart(Idle, Idle)
  BY IdleIs DEF SiwxCallInv, Apart, Signers
<1>3. \A c \in SiwxCalls : siwxCalls[c] = Idle
  BY <1>1
<1>4. \A c \in SiwxCalls : SiwxCallInv(siwxCalls[c], Len(signedMsgs), siwxOvertaken, siwxStored)
  BY <1>1, <1>2, <1>3, Zenon
<1>5. \A c \in SiwxCalls : \A e \in SiwxCalls \ {c} : Apart(siwxCalls[c], siwxCalls[e])
  BY <1>2, <1>3, Zenon
<1> QED
  BY <1>1, <1>4, <1>5, LifecycleAssumption DEF SiwxInit, SiwxInv, SignedBy, WrittenTo

\* What may change beside the calls.
SiwxRest(n, overtaken, stored) ==
  /\ overtaken \subseteq 1 .. n /\ SignedBy(stored, n)
  /\ WrittenTo(stored) \cap overtaken = {}
SiwxTypes ==
  /\ signedMsgs \in Seq([born : 0 .. 1]) /\ siwxNow \in 0 .. 1 /\ generation \in 0 .. MaxGeneration
  /\ SignedBy(session, Len(signedMsgs)) /\ SignedBy(timer, Len(signedMsgs))

\* A call that takes no part keeps what it may still write, as long as others write
\* and give up only what they signed themselves.
LEMMA SiwxOther ==
  ASSUME NEW t, NEW n \in Nat, NEW m \in Nat, n <= m, NEW overtaken, NEW stored, NEW over, NEW st,
         SiwxCallInv(t, n, overtaken, stored),
         t.pc \in Signers => /\ t.s.signature \in over => t.s.signature \in overtaken
                             /\ t.s.signature \in WrittenTo(st) => t.s.signature \in WrittenTo(stored)
  PROVE  SiwxCallInv(t, m, over, st)
<1>1. t.pc = "reading" => SignedBy(t.found, m)
  BY DEF SiwxCallInv, SignedBy
<1>2. t.pc \in Signers => t.s.signature \in (1 .. m) \ over
  BY DEF SiwxCallInv
<1>3. t.pc = "signing" => t.s.signature \notin WrittenTo(st)
  BY DEF SiwxCallInv, Signers
<1>4. t.pc = "undoing" /\ t.s.signature \in WrittenTo(st) => t.found # None /\ t.found.signature = t.s.signature
  BY DEF SiwxCallInv, Signers
<1> QED
  BY <1>1, <1>2, <1>3, <1>4 DEF SiwxCallInv

LEMMA SiwxCallStep ==
  ASSUME SiwxInv, SiwxTypes', NEW c \in SiwxCalls, NEW t, Step(c, t),
         Len(signedMsgs) <= Len(signedMsgs'),
         SiwxRest(Len(signedMsgs'), siwxOvertaken', siwxStored'),
         SiwxCallInv(t, Len(signedMsgs'), siwxOvertaken', siwxStored'),
         \A d \in SiwxCalls \ {c} : Apart(t, siwxCalls[d]),
         \A d \in SiwxCalls \ {c} : siwxCalls[d].pc \in Signers =>
           LET n == siwxCalls[d].s.signature
           IN  /\ n \in siwxOvertaken' => n \in siwxOvertaken
               /\ n \in WrittenTo(siwxStored') => n \in WrittenTo(siwxStored)
  PROVE  SiwxInv'
<1>1. DOMAIN siwxCalls' = SiwxCalls /\ siwxCalls'[c] = t /\ \A d \in SiwxCalls \ {c} : siwxCalls'[d] = siwxCalls[d]
  BY DEF Step, SiwxInv
<1>2. Len(signedMsgs) \in Nat /\ Len(signedMsgs') \in Nat
  BY DEF SiwxInv, SiwxTypes
<1>3. \A d \in SiwxCalls : SiwxCallInv(siwxCalls[d], Len(signedMsgs), siwxOvertaken, siwxStored)
  BY DEF SiwxInv
<1>4. \A d \in SiwxCalls \ {c} : SiwxCallInv(siwxCalls[d], Len(signedMsgs'), siwxOvertaken', siwxStored')
  BY <1>2, <1>3, SiwxOther
<1>5. \A d \in SiwxCalls : SiwxCallInv(siwxCalls'[d], Len(signedMsgs'), siwxOvertaken', siwxStored')
  BY <1>1, <1>4
<1>6. \A d \in SiwxCalls : \A e \in SiwxCalls \ {d} : Apart(siwxCalls[d], siwxCalls[e])
  BY DEF SiwxInv
<1>7. \A d \in SiwxCalls \ {c} : Apart(siwxCalls[d], t)
  BY DEF Apart
<1>8. \A d \in SiwxCalls : \A e \in SiwxCalls \ {d} : Apart(siwxCalls'[d], siwxCalls'[e])
  BY <1>1, <1>6, <1>7
<1>9. SiwxTypes' /\ SiwxRest(Len(signedMsgs'), siwxOvertaken', siwxStored')
  OBVIOUS
<1> QED
  BY <1>1, <1>5, <1>8, <1>9 DEF SiwxInv, SiwxTypes, SiwxRest, SiwxCallInv, Apart

\* The same for a step that no call takes part in, and that may empty the storage.
LEMMA SiwxOwnStep ==
  ASSUME SiwxInv, SiwxTypes', UNCHANGED <<siwxCalls, signedMsgs, siwxOvertaken>>,
         WrittenTo(siwxStored') \subseteq WrittenTo(siwxStored), SignedBy(siwxStored', Len(signedMsgs))
  PROVE  SiwxInv'
<1>1. Len(signedMsgs) \in Nat /\ signedMsgs' = signedMsgs /\ siwxOvertaken' = siwxOvertaken /\ siwxCalls' = siwxCalls
  BY DEF SiwxInv
<1>2. \A d \in SiwxCalls : SiwxCallInv(siwxCalls[d], Len(signedMsgs), siwxOvertaken, siwxStored)
  BY DEF SiwxInv
<1>3. \A d \in SiwxCalls : SiwxCallInv(siwxCalls[d], Len(signedMsgs), siwxOvertaken, siwxStored')
  BY <1>1, <1>2, SiwxOther
<1>4. \A d \in SiwxCalls : SiwxCallInv(siwxCalls'[d], Len(signedMsgs'), siwxOvertaken', siwxStored')
  BY <1>1, <1>3, Zenon
<1>5. \A d \in SiwxCalls : \A e \in SiwxCalls \ {d} : Apart(siwxCalls'[d], siwxCalls'[e])
  BY <1>1, Zenon DEF SiwxInv
<1>6. siwxOvertaken' \subseteq 1 .. Len(signedMsgs') /\ DOMAIN siwxCalls' = SiwxCalls
      /\ SignedBy(siwxStored', Len(signedMsgs')) /\ WrittenTo(siwxStored') \cap siwxOvertaken' = {}
  BY <1>1 DEF SiwxInv
<1>7. SiwxTypes'
  OBVIOUS
<1> QED
  BY <1>4, <1>5, <1>6, <1>7 DEF SiwxInv, SiwxTypes, SiwxCallInv, Apart

LEMMA SignedMore ==
  ASSUME NEW s, NEW n \in Nat, NEW m \in Nat, n <= m, SignedBy(s, n)
  PROVE  SignedBy(s, m)
  BY DEF SignedBy

\* What a storage answers is what it holds, or nothing.
LEMMA GetIs == Get \in {siwxStored, None}
  BY DEF Get

\* A new message is nobody else's.
LEMMA SignStep ==
  ASSUME SiwxInv, NEW c \in SiwxCalls, NEW id, NEW gen, Sign(c, id, gen),
         generation' \in 0 .. MaxGeneration, UNCHANGED <<siwxNow, session, timer, siwxStored, siwxOvertaken>>
  PROVE  SiwxInv'
<1> DEFINE n == Len(signedMsgs) + 1
           s == [id |-> IF id = None THEN n ELSE id.id, signature |-> n, born |-> siwxNow,
                 messageNonce |-> IF id = None THEN n ELSE id.messageNonce]
           t == [pc |-> "signing", gen |-> gen, s |-> s]
<1>1. Len(signedMsgs) \in Nat /\ signedMsgs \in Seq([born : 0 .. 1]) /\ siwxNow \in 0 .. 1
  BY DEF SiwxInv
<1>2. signedMsgs' = Append(signedMsgs, [born |-> siwxNow]) /\ Step(c, t)
  BY DEF Sign
<1>3. t.pc = "signing" /\ t.s.signature = n /\ t = [pc |-> t.pc, gen |-> t.gen, s |-> t.s]
  OBVIOUS
<1> HIDE DEF t
<1>4. signedMsgs' \in Seq([born : 0 .. 1]) /\ Len(signedMsgs') = n
  BY <1>1, <1>2
<1>5. siwxOvertaken \subseteq 1 .. Len(signedMsgs) /\ SignedBy(siwxStored, Len(signedMsgs))
      /\ SignedBy(session, Len(signedMsgs)) /\ SignedBy(timer, Len(signedMsgs))
      /\ WrittenTo(siwxStored) \cap siwxOvertaken = {}
  BY DEF SiwxInv
<1>6. SiwxTypes'
  BY <1>1, <1>4, <1>5, SignedMore DEF SiwxTypes
<1>7. SiwxRest(n, siwxOvertaken', siwxStored')
  BY <1>1, <1>5, SignedMore DEF SiwxRest
<1>8. n \notin siwxOvertaken /\ n \notin WrittenTo(siwxStored) /\ n \in 1 .. n
  BY <1>1, <1>5 DEF WrittenTo, SignedBy
<1>9. SiwxCallInv(t, n, siwxOvertaken', siwxStored')
  BY <1>3, <1>8 DEF SiwxCallInv, Signers
<1>10. \A d \in SiwxCalls : siwxCalls[d].pc \in Signers => siwxCalls[d].s.signature \in 1 .. Len(signedMsgs)
  BY DEF SiwxInv, SiwxCallInv
<1>11. \A d \in SiwxCalls \ {c} : Apart(t, siwxCalls[d])
  BY <1>1, <1>3, <1>10 DEF Apart
<1>12. Len(signedMsgs) <= Len(signedMsgs')
  BY <1>1, <1>4
<1>13. SiwxRest(Len(signedMsgs'), siwxOvertaken', siwxStored')
       /\ SiwxCallInv(t, Len(signedMsgs'), siwxOvertaken', siwxStored')
  BY <1>4, <1>7, <1>9, Zenon
<1>14. siwxOvertaken' = siwxOvertaken /\ siwxStored' = siwxStored
  OBVIOUS
<1> QED
  BY <1>2, <1>6, <1>11, <1>12, <1>13, <1>14, SiwxCallStep

\* A call that moves on, and signs nothing.
LEMMA SiwxMoves ==
  ASSUME SiwxInv, SiwxTypes', NEW c \in SiwxCalls, NEW t, Step(c, t), UNCHANGED signedMsgs,
         SiwxCallInv(t, Len(signedMsgs), siwxOvertaken', siwxStored'),
         t.pc \in Signers => siwxCalls[c].pc \in Signers /\ t.s.signature = siwxCalls[c].s.signature,
         \/ siwxOvertaken' = siwxOvertaken
         \/ siwxCalls[c].pc \in Signers /\ siwxOvertaken' = siwxOvertaken \cup {siwxCalls[c].s.signature},
         SignedBy(siwxStored', Len(signedMsgs)),
         \/ WrittenTo(siwxStored') \subseteq WrittenTo(siwxStored)
         \/ siwxCalls[c].pc \in Signers /\ WrittenTo(siwxStored') \subseteq {siwxCalls[c].s.signature},
         WrittenTo(siwxStored') \cap siwxOvertaken' = {}
  PROVE  SiwxInv'
<1>1. Len(signedMsgs) \in Nat /\ Len(signedMsgs') = Len(signedMsgs) /\ siwxOvertaken \subseteq 1 .. Len(signedMsgs)
  BY DEF SiwxInv
<1>2. \A d \in SiwxCalls \ {c} : Apart(siwxCalls[c], siwxCalls[d])
  BY DEF SiwxInv
<1>3. \A d \in SiwxCalls \ {c} : Apart(t, siwxCalls[d])
  BY <1>2 DEF Apart
<1>4. siwxCalls[c].pc \in Signers => siwxCalls[c].s.signature \in 1 .. Len(signedMsgs)
  BY DEF SiwxInv, SiwxCallInv
<1>5. SiwxRest(Len(signedMsgs'), siwxOvertaken', siwxStored')
  BY <1>1, <1>4 DEF SiwxRest
<1>6. \A d \in SiwxCalls \ {c} : siwxCalls[d].pc \in Signers =>
           LET n == siwxCalls[d].s.signature
           IN  /\ n \in siwxOvertaken' => n \in siwxOvertaken
               /\ n \in WrittenTo(siwxStored') => n \in WrittenTo(siwxStored)
  BY <1>2 DEF Apart
<1>7. SiwxCallInv(t, Len(signedMsgs'), siwxOvertaken', siwxStored') /\ Len(signedMsgs) <= Len(signedMsgs')
  BY <1>1
<1> QED
  BY <1>3, <1>5, <1>6, <1>7, SiwxCallStep

LEMMA SiwxStep == ASSUME SiwxInv, [SiwxNext]_siwxVars PROVE SiwxInv'
<1>a. /\ SiwxTypes /\ Len(signedMsgs) \in Nat
      /\ DOMAIN siwxCalls = SiwxCalls /\ SignedBy(siwxStored, Len(signedMsgs))
      /\ SignedBy(None, Len(signedMsgs)) /\ WrittenTo(None) = {}
      /\ WrittenTo(siwxStored) \cap siwxOvertaken = {}
  BY DEF SiwxInv, SiwxTypes, SignedBy, WrittenTo
<1>b. \A c \in SiwxCalls : SiwxCallInv(siwxCalls[c], Len(signedMsgs), siwxOvertaken, siwxStored)
  BY DEF SiwxInv
<1>c. \A over, stored : SiwxCallInv(Idle, Len(signedMsgs), over, stored) /\ Idle.pc \notin Signers
  BY IdleIs DEF SiwxCallInv, Signers
<1>d. SignedBy(Get, Len(signedMsgs)) /\ WrittenTo(Get) \subseteq WrittenTo(siwxStored)
  BY <1>a, GetIs
<1>1. CASE SignOut
  <2>1. SiwxTypes'
    BY <1>1, <1>a, LifecycleAssumption DEF SignOut, Decides, SiwxTypes
  <2> QED
    BY <1>1, <1>a, <2>1, SiwxOwnStep DEF SignOut
<1>2. CASE SiwxTick
  <2>1. SiwxTypes'
    BY <1>2, <1>a DEF SiwxTick, SiwxTypes
  <2> QED
    BY <1>2, <1>a, <2>1, SiwxOwnStep DEF SiwxTick
<1>3. ASSUME NEW c \in SiwxCalls, SignIn(c) PROVE SiwxInv'
  <2>1. generation' \in 0 .. MaxGeneration
    BY <1>3, <1>a, LifecycleAssumption DEF SignIn, Decides, SiwxTypes
  <2> QED
    BY <1>3, <2>1, SignStep DEF SignIn
<1>4. ASSUME NEW c \in SiwxCalls, Refresh(c) PROVE SiwxInv'
  <2>1. generation' \in 0 .. MaxGeneration
    BY <1>4, <1>a DEF Refresh, SiwxTypes
  <2> QED
    BY <1>4, <2>1, SignStep DEF Refresh
<1>5. ASSUME NEW c \in SiwxCalls, Persist(c) PROVE SiwxInv'
  <2> DEFINE s == siwxCalls[c].s
             t == [siwxCalls[c] EXCEPT !.pc = "stored"]
  <2>1. /\ siwxCalls[c].pc = "signing" /\ siwxCalls[c].pc \in Signers
        /\ siwxCalls[c] = [pc |-> siwxCalls[c].pc, gen |-> siwxCalls[c].gen, s |-> s]
        /\ s.signature \in (1 .. Len(signedMsgs)) \ siwxOvertaken /\ s.signature \notin WrittenTo(siwxStored)
        /\ SiwxTypes'
    BY <1>5, <1>a, <1>b DEF Persist, SiwxAt, SiwxCallInv, Signers, SiwxTypes
  <2>2. CASE ~Current(c)
    <3>1. /\ Step(c, Idle) /\ siwxOvertaken' = siwxOvertaken \cup {s.signature} /\ siwxStored' = siwxStored
          /\ signedMsgs' = signedMsgs
      BY <1>5, <2>2 DEF Persist, SiwxSuperseded
    <3>2. WrittenTo(siwxStored') \cap siwxOvertaken' = {}
      BY <1>a, <2>1, <3>1
    <3> QED
      BY <1>a, <1>c, <2>1, <3>1, <3>2, SiwxMoves
  <2>3. CASE Current(c)
    <3>1. /\ Step(c, t) /\ siwxOvertaken' = siwxOvertaken /\ siwxStored' = s /\ signedMsgs' = signedMsgs
      BY <1>5, <2>3 DEF Persist
    <3>2. t.pc = "stored" /\ t.s = s /\ t = [pc |-> t.pc, gen |-> t.gen, s |-> t.s]
      <4>1. t = [pc |-> "stored", gen |-> siwxCalls[c].gen, s |-> s]
        BY <2>1
      <4> QED
        BY <4>1
    <3> HIDE DEF t
    <3>3. SiwxCallInv(t, Len(signedMsgs), siwxOvertaken', siwxStored')
      BY <2>1, <3>1, <3>2 DEF SiwxCallInv, Signers
    <3>4. SignedBy(siwxStored', Len(signedMsgs)) /\ WrittenTo(siwxStored') \subseteq {s.signature}
      BY <2>1, <3>1 DEF SignedBy, WrittenTo
    <3>5. WrittenTo(siwxStored') \cap siwxOvertaken' = {}
      BY <2>1, <3>1, <3>4
    <3> QED
      BY <2>1, <3>1, <3>2, <3>3, <3>4, <3>5, SiwxMoves
  <2> QED
    BY <2>2, <2>3
<1>6. ASSUME NEW c \in SiwxCalls, Persisted(c) PROVE SiwxInv'
  <2> DEFINE s == siwxCalls[c].s
  <2>1. /\ siwxCalls[c].pc = "stored" /\ siwxCalls[c].pc \in Signers
        /\ siwxCalls[c] = [pc |-> siwxCalls[c].pc, gen |-> siwxCalls[c].gen, s |-> s]
        /\ s.signature \in (1 .. Len(signedMsgs)) \ siwxOvertaken
        /\ SiwxTypes' /\ siwxOvertaken' = siwxOvertaken /\ signedMsgs' = signedMsgs
    BY <1>6, <1>a, <1>b DEF Persisted, SiwxAt, SiwxCallInv, Signers, SiwxTypes
  <2>2. CASE Current(c)
    <3> DEFINE t == [siwxCalls[c] EXCEPT !.pc = "publishing"]
    <3>1. Step(c, t) /\ siwxStored' = siwxStored
      BY <1>6, <2>2 DEF Persisted
    <3>2. t.pc = "publishing" /\ t.s = s /\ t = [pc |-> t.pc, gen |-> t.gen, s |-> t.s]
      <4>1. t = [pc |-> "publishing", gen |-> siwxCalls[c].gen, s |-> s]
        BY <2>1
      <4> QED
        BY <4>1
    <3> HIDE DEF t
    <3>3. SiwxCallInv(t, Len(signedMsgs), siwxOvertaken', siwxStored')
      BY <2>1, <3>1, <3>2 DEF SiwxCallInv, Signers
    <3> QED
      BY <1>a, <2>1, <3>1, <3>2, <3>3, SiwxMoves
  <2>3. CASE ~Current(c)
    <3> DEFINE t == [pc |-> "undoing", gen |-> siwxCalls[c].gen, s |-> s, found |-> Get]
    <3>1. Step(c, t) /\ siwxStored' = Get
      BY <1>6, <2>3 DEF Persisted
    <3>2. t.pc = "undoing" /\ t.s = s /\ t.found = Get
      OBVIOUS
    <3> HIDE DEF t
    <3>3. SiwxCallInv(t, Len(signedMsgs), siwxOvertaken', siwxStored')
      BY <2>1, <3>1, <3>2 DEF SiwxCallInv, Signers, WrittenTo
    <3>4. WrittenTo(siwxStored') \subseteq WrittenTo(siwxStored) /\ SignedBy(siwxStored', Len(signedMsgs))
          /\ WrittenTo(siwxStored') \cap siwxOvertaken' = {}
      BY <1>a, <1>d, <2>1, <3>1
    <3> QED
      BY <2>1, <3>1, <3>2, <3>3, <3>4, SiwxMoves
  <2> QED
    BY <2>2, <2>3
<1>7. ASSUME NEW c \in SiwxCalls, Undo(c) PROVE SiwxInv'
  <2> DEFINE s == siwxCalls[c].s
  <2>1. /\ siwxCalls[c].pc = "undoing" /\ siwxCalls[c].pc \in Signers
        /\ SiwxTypes' /\ siwxOvertaken' = siwxOvertaken \cup {s.signature} /\ signedMsgs' = signedMsgs
        /\ Step(c, Idle) /\ siwxStored' = IF Mine(c) THEN None ELSE siwxStored
    BY <1>7, <1>a DEF Undo, SiwxAt, SiwxSuperseded, Signers, SiwxTypes
  <2>2. s.signature \in WrittenTo(siwxStored) => Mine(c)
    BY <1>b, <2>1 DEF SiwxCallInv, Mine
  <2>3. WrittenTo(siwxStored') \subseteq WrittenTo(siwxStored) /\ SignedBy(siwxStored', Len(signedMsgs))
        /\ WrittenTo(siwxStored') \cap siwxOvertaken' = {}
    BY <1>a, <2>1, <2>2
  <2> QED
    BY <1>c, <2>1, <2>3, SiwxMoves
<1>8. ASSUME NEW c \in SiwxCalls, Published(c) PROVE SiwxInv'
  <2>1. SignedBy(siwxCalls[c].s, Len(signedMsgs))
    BY <1>8, <1>b DEF Published, SiwxAt, SiwxCallInv, Signers, SignedBy
  <2>2. SiwxTypes'
    BY <1>8, <1>a, <2>1 DEF Published, Publish, Watch, SiwxTypes
  <2>3. Step(c, Idle) /\ siwxStored' = siwxStored /\ signedMsgs' = signedMsgs /\ siwxOvertaken' = siwxOvertaken
    BY <1>8 DEF Published
  <2> QED
    BY <1>a, <1>c, <2>2, <2>3, SiwxMoves
<1>9. ASSUME NEW c \in SiwxCalls, SignFails(c) PROVE SiwxInv'
  <2>2. SiwxTypes'
    BY <1>9, <1>a DEF SignFails, SiwxTypes
  <2>3. Step(c, Idle) /\ siwxStored' = siwxStored /\ signedMsgs' = signedMsgs /\ siwxOvertaken' = siwxOvertaken
    BY <1>9 DEF SignFails
  <2> QED
    BY <1>a, <1>c, <2>2, <2>3, SiwxMoves
<1>10. ASSUME NEW c \in SiwxCalls, RestoreBegins(c) PROVE SiwxInv'
  <2> DEFINE t == [pc |-> "reading", gen |-> generation, found |-> Get]
  <2>1. SiwxTypes' /\ Step(c, t) /\ siwxStored' = Get /\ signedMsgs' = signedMsgs /\ siwxOvertaken' = siwxOvertaken
    BY <1>10, <1>a DEF RestoreBegins, SiwxTypes
  <2>2. generation \in 0 .. MaxGeneration - 1
    BY <1>10, <1>a, LifecycleAssumption DEF RestoreBegins, Decides, SiwxTypes
  <2>3. t.pc = "reading" /\ t.gen = generation /\ t.found = Get
    OBVIOUS
  <2> HIDE DEF t
  <2>4. SiwxCallInv(t, Len(signedMsgs), siwxOvertaken', siwxStored') /\ t.pc \notin Signers
    BY <1>d, <2>2, <2>3 DEF SiwxCallInv, Signers
  <2>5. WrittenTo(siwxStored') \cap siwxOvertaken' = {} /\ WrittenTo(siwxStored') \subseteq WrittenTo(siwxStored)
        /\ SignedBy(siwxStored', Len(signedMsgs))
    BY <1>a, <1>d, <2>1
  <2> QED
    BY <2>1, <2>4, <2>5, SiwxMoves
<1>11. ASSUME NEW c \in SiwxCalls, RestoreEnds(c) PROVE SiwxInv'
  <2> DEFINE t == [pc |-> "clearing", gen |-> generation + 1]
             found == siwxCalls[c].found
  <2>1. siwxCalls[c].gen \in 0 .. MaxGeneration - 1 /\ SignedBy(found, Len(signedMsgs))
    BY <1>11, <1>b DEF RestoreEnds, SiwxAt, SiwxCallInv, Signers
  <2>2. \A over, stored : SiwxCallInv(t, Len(signedMsgs), over, stored) /\ t.pc \notin Signers
    BY DEF SiwxCallInv, Signers
  <2>3. /\ Step(c, Idle) \/ Step(c, t)
        /\ siwxStored' \in {siwxStored, None} /\ signedMsgs' = signedMsgs /\ siwxOvertaken' = siwxOvertaken
        /\ siwxNow' = siwxNow /\ session' \in {session, found} /\ timer' \in {timer, found}
        /\ generation' = generation \/ (siwxCalls[c].gen = generation /\ generation' = generation + 1)
    BY <1>11 DEF RestoreEnds, Publish
  <2>4. generation' \in 0 .. MaxGeneration
    BY <1>a, <2>1, <2>3, LifecycleAssumption DEF SiwxTypes
  <2>5. SiwxTypes'
    BY <1>a, <2>1, <2>3, <2>4 DEF SiwxTypes
  <2>6. WrittenTo(siwxStored') \cap siwxOvertaken' = {} /\ WrittenTo(siwxStored') \subseteq WrittenTo(siwxStored)
        /\ SignedBy(siwxStored', Len(signedMsgs))
    BY <1>a, <2>3
  <2> HIDE DEF t
  <2> QED
    BY <1>c, <2>2, <2>3, <2>5, <2>6, SiwxMoves
<1>12. ASSUME NEW c \in SiwxCalls, RestoreCleared(c) PROVE SiwxInv'
  <2>2. SiwxTypes'
    BY <1>12, <1>a DEF RestoreCleared, Publish, Watch, SiwxTypes
  <2>3. Step(c, Idle) /\ siwxStored' = siwxStored /\ signedMsgs' = signedMsgs /\ siwxOvertaken' = siwxOvertaken
    BY <1>12 DEF RestoreCleared
  <2> QED
    BY <1>a, <1>c, <2>2, <2>3, SiwxMoves
<1>13. CASE UNCHANGED <<siwxNow, session, timer, generation, siwxStored, siwxCalls, signedMsgs, siwxOvertaken>>
  <2>1. SiwxTypes'
    BY <1>13, <1>a DEF SiwxTypes
  <2> QED
    BY <1>13, <1>a, <2>1, SiwxOwnStep
<1>14. \/ SignOut \/ SiwxTick
       \/ \E c \in SiwxCalls :
            \/ SignIn(c) \/ Refresh(c) \/ Persist(c) \/ Persisted(c) \/ Undo(c) \/ Published(c) \/ SignFails(c)
            \/ RestoreBegins(c) \/ RestoreEnds(c) \/ RestoreCleared(c)
       \/ UNCHANGED <<siwxNow, session, timer, generation, siwxStored, siwxCalls, signedMsgs, siwxOvertaken>>
  BY DEF SiwxNext, siwxVars, IssueNonce, RemoveNonce, VerifyBegins, VerifyEnds
<1> QED
  BY <1>1, <1>2, <1>3, <1>4, <1>5, <1>6, <1>7, <1>8, <1>9, <1>10, <1>11, <1>12, <1>13, <1>14

LEMMA SiwxSafe == ASSUME SiwxInv PROVE OvertakenNotStored
  BY DEF SiwxInv, OvertakenNotStored, WrittenTo

-----------------------------------------------------------------------------
(* SolanaWallet *)

LEMMA SolStarts == SolInit => SolInv
  BY IdleIs DEF SolInit, SolInv, SolTaskInv

\* A call that goes on.
LEMMA SolCallStep ==
  ASSUME SolInv, NEW c \in SolCalls, NEW t, SolAwait(c, t), SolTaskInv(t, solKey),
         UNCHANGED <<solSessions, solKey>>,
         \/ UNCHANGED <<solActive, solAttached, solHandlers>>
         \/ solActive' = None
  PROVE  SolInv'
<1>1. DOMAIN solTasks' = SolCalls /\ \A d \in SolCalls : solTasks'[d] = IF d = c THEN t ELSE solTasks[d]
  BY DEF SolAwait, SolInv
<1>2. \A d \in SolCalls : SolTaskInv(solTasks[d], solKey)
  BY DEF SolInv
<1>3. solKey' = solKey /\ solSessions' = solSessions
  OBVIOUS
<1>4. \A d \in SolCalls : SolTaskInv(solTasks'[d], solKey')
  BY <1>1, <1>2, <1>3
<1>5. solActive' # None => SolActiveInv(solActive', solAttached', solHandlers', solSessions', solKey')
  BY <1>3, Zenon DEF SolInv
<1>6. DOMAIN solSessions' = SolSessions /\ DOMAIN solKey' = SolWallets
      /\ \A s \in SolSessions : solSessions'[s] # None => IsSolSession(solSessions'[s])
  BY <1>3 DEF SolInv
<1> QED
  BY <1>1, <1>4, <1>5, <1>6 DEF SolInv, SolActiveInv, SolTaskInv, IsSolSession

\* The session that becomes active is of the wallet whose handler is attached.
LEMMA SolConnectedStep ==
  ASSUME SolInv, NEW c \in SolCalls, NEW s \in SolSessions, NEW chain, SolConnected(c, s, chain)
  PROVE  SolInv'
<1> DEFINE t == solTasks[c]
           active == [wallet |-> t.wallet, object |-> t.object, key |-> t.key, of |-> s, missed |-> t.missed]
           new == [chain |-> chain, accounts |-> [chain |-> chain, key |-> t.key]]
<1>1. SolTaskInv(t, solKey) /\ t.pc = "genesis"
  BY DEF SolInv, SolConnected, SolAt
<1>2. t.wallet \in SolWallets /\ t.missed \in BOOLEAN /\ (~t.missed => t.key = solKey[t.wallet])
  BY <1>1 DEF SolTaskInv
<1>3. /\ solActive' = active /\ solSessions' = [solSessions EXCEPT ![s] = new] /\ solKey' = solKey
      /\ solAttached' = <<t.wallet, t.object>> /\ solAttached' \in solHandlers'
      /\ solTasks' = [solTasks EXCEPT ![c] = Idle]
  BY DEF SolConnected, SolAwait
<1>4. IsSolSession(new) /\ new.accounts.key = t.key
  BY DEF IsSolSession
<1>5. active.wallet = t.wallet /\ active.object = t.object /\ active.key = t.key /\ active.of = s
      /\ active.missed = t.missed
      /\ active = [wallet |-> active.wallet, object |-> active.object, key |-> active.key, of |-> active.of,
                   missed |-> active.missed]
  OBVIOUS
<1> HIDE DEF active, new, t
<1>6. solSessions'[s] = new /\ DOMAIN solSessions' = SolSessions
      /\ \A d \in SolSessions : d # s => solSessions'[d] = solSessions[d]
  BY <1>3 DEF SolInv
<1>7. SolActiveInv(active, solAttached', solHandlers', solSessions', solKey')
  BY <1>2, <1>3, <1>4, <1>5, <1>6 DEF SolActiveInv
<1>8. \A d \in SolSessions : solSessions'[d] # None => IsSolSession(solSessions'[d])
  BY <1>4, <1>6 DEF SolInv
<1>9. \A d \in SolCalls : SolTaskInv(solTasks'[d], solKey')
  BY <1>3, IdleIs DEF SolInv, SolTaskInv
<1>10. DOMAIN solTasks' = SolCalls /\ DOMAIN solKey' = SolWallets
  BY <1>3 DEF SolInv
<1>11. SolActiveInv(solActive', solAttached', solHandlers', solSessions', solKey')
  BY <1>3, <1>7, Zenon
<1> QED
  BY <1>6, <1>8, <1>9, <1>10, <1>11 DEF SolInv, SolActiveInv, SolTaskInv, IsSolSession

\* The handler that hears of another account is the one of the active session.
LEMMA AccountChangedStep ==
  ASSUME SolInv, NEW w \in SolWallets, NEW key, AccountChanged(w, key)
  PROVE  SolInv'
<1> DEFINE of == solActive.of
           new == [solSessions[of] EXCEPT !.accounts = [chain |-> solSessions[of].chain, key |-> key]]
<1>1. /\ DOMAIN solKey' = SolWallets /\ solKey'[w] = key /\ \A v \in SolWallets : v # w => solKey'[v] = solKey[v]
      /\ UNCHANGED <<solAttached, solHandlers>>
      /\ DOMAIN solTasks' = SolCalls
  BY DEF AccountChanged, SolInv
<1>2. \A c \in SolCalls : SolTaskInv(solTasks'[c], solKey')
  <2> TAKE c \in SolCalls
  <2>1. SolTaskInv(solTasks[c], solKey)
    BY DEF SolInv
  <2>2. CASE solTasks[c].pc = "genesis" /\ solTasks[c].wallet = w
    <3> DEFINE t == solTasks[c]
    <3>1. solTasks'[c] = [t EXCEPT !.missed = TRUE]
      BY <2>2 DEF AccountChanged, SolAt
    <3>2. PICK o, k, m : t = [pc |-> "genesis", wallet |-> w, object |-> o, key |-> k, missed |-> m]
      BY <2>1, <2>2 DEF SolTaskInv
    <3> HIDE DEF t
    <3>3. solTasks'[c] = [pc |-> "genesis", wallet |-> w, object |-> o, key |-> k, missed |-> TRUE]
      BY <3>1, <3>2
    <3> QED
      BY <3>3 DEF SolTaskInv
  <2>3. CASE ~(solTasks[c].pc = "genesis" /\ solTasks[c].wallet = w)
    <3>1. solTasks'[c] = solTasks[c]
      BY <2>3 DEF AccountChanged, SolAt
    <3> QED
      BY <1>1, <2>1, <2>3, <3>1 DEF SolTaskInv
  <2> QED
    BY <2>2, <2>3
<1>3. CASE ~Addressed(w)
  <2>1. solActive' = solActive /\ solSessions' = solSessions
    BY <1>3 DEF AccountChanged
  <2>2. solActive # None => solActive.wallet # w
    BY <1>3 DEF Addressed, SolInv, SolActiveInv
  <2>3. solActive' # None => SolActiveInv(solActive', solAttached', solHandlers', solSessions', solKey')
    BY <1>1, <2>1, <2>2 DEF SolInv, SolActiveInv
  <2> QED
    BY <1>1, <1>2, <2>1, <2>3 DEF SolInv, SolActiveInv, SolTaskInv, IsSolSession
<1>4. CASE Addressed(w)
  <2>1. /\ solActive.wallet = w /\ solActive # None
        /\ SolActiveInv(solActive, solAttached, solHandlers, solSessions, solKey)
    BY <1>4 DEF Addressed, SolInv
  <2>2. IsSolSession(solSessions[of]) /\ of \in SolSessions /\ solSessions[of].accounts.key = solActive.key
    BY <2>1 DEF SolActiveInv
  <2>3. IsSolSession(new) /\ new.accounts.key = key
    <3>1. PICK ch, ac : solSessions[of] = [chain |-> ch, accounts |-> ac]
      BY <2>2 DEF IsSolSession
    <3>2. new = [chain |-> ch, accounts |-> [chain |-> ch, key |-> key]]
      BY <3>1
    <3> QED
      BY <3>2 DEF IsSolSession
  <2>4. solSessions' = IF key \notin {None, solActive.key} THEN [solSessions EXCEPT ![of] = new] ELSE solSessions
    BY <1>4 DEF AccountChanged
  <2> HIDE DEF new
  <2>5. /\ DOMAIN solSessions' = SolSessions
        /\ \A s \in SolSessions : solSessions'[s] # None => IsSolSession(solSessions'[s])
        /\ key # None => IsSolSession(solSessions'[of]) /\ solSessions'[of].accounts.key = key
    BY <2>2, <2>3, <2>4 DEF SolInv
  <2>6. CASE key = None
    <3>1. solActive' = None
      BY <1>4, <2>6 DEF AccountChanged
    <3> QED
      BY <1>1, <1>2, <2>5, <3>1 DEF SolInv, SolTaskInv, IsSolSession
  <2>7. CASE key # None
    <3> DEFINE active == [solActive EXCEPT !.key = key, !.missed = FALSE]
    <3>1. solActive' = active
      BY <1>4, <2>7 DEF AccountChanged
    <3> DEFINE o == solActive.object
               R == [wallet : {w}, object : {o}, key : {solActive.key, key}, of : {of}, missed : BOOLEAN]
    <3>2. solActive \in R
      BY <2>1 DEF SolActiveInv
    <3>3. active \in R
      BY <3>2
    <3>4. active.wallet = w /\ active.object = o /\ active.key = key /\ active.of = of
      BY <3>2
    <3>9. active.missed = FALSE
      BY <3>2
    <3> HIDE DEF active, of
    <3>5. active = [wallet |-> active.wallet, object |-> active.object, key |-> active.key, of |-> active.of,
                    missed |-> active.missed]
      BY <3>3
    <3>6. solAttached' = <<w, o>> /\ solAttached' \in solHandlers'
      BY <1>1, <2>1 DEF SolActiveInv
    <3>7. SolActiveInv(active, solAttached', solHandlers', solSessions', solKey')
      BY <1>1, <2>2, <2>5, <2>7, <3>4, <3>5, <3>6, <3>9 DEF SolActiveInv
    <3>8. SolActiveInv(solActive', solAttached', solHandlers', solSessions', solKey')
      BY <3>1, <3>7, Zenon
    <3> QED
      BY <1>1, <1>2, <2>5, <3>8 DEF SolInv, SolActiveInv, SolTaskInv, IsSolSession
  <2> QED
    BY <2>6, <2>7
<1> QED
  BY <1>3, <1>4

LEMMA SolStep == ASSUME SolInv, [SolNext]_solVars PROVE SolInv'
<1>i. SolTaskInv(Idle, solKey)
  BY IdleIs DEF SolTaskInv
<1>t. \A c \in SolCalls : SolTaskInv(solTasks[c], solKey)
  BY DEF SolInv
<1>1. CASE UNCHANGED <<solKey, solSessions, solTasks>>
           /\ (UNCHANGED <<solActive, solAttached, solHandlers>> \/ solActive' = None)
  BY <1>1 DEF SolInv, SolActiveInv, SolTaskInv, IsSolSession
<1>2. ASSUME NEW w \in SolWallets, NEW key, AccountChanged(w, key) PROVE SolInv'
  BY <1>2, AccountChangedStep
<1>3. ASSUME NEW s \in SolSessions, NEW chain, SolSwitchChain(s, chain) PROVE SolInv'
  <2> DEFINE new == [solSessions[s] EXCEPT !.chain = chain]
  <2>1. IsSolSession(solSessions[s]) /\ solSessions' = [solSessions EXCEPT ![s] = new]
        /\ UNCHANGED <<solKey, solActive, solAttached, solHandlers, solTasks>>
    BY <1>3 DEF SolSwitchChain, SolInv
  <2>2. IsSolSession(new) /\ new.accounts = solSessions[s].accounts
    <3>1. PICK ch, ac : solSessions[s] = [chain |-> ch, accounts |-> ac]
      BY <2>1 DEF IsSolSession
    <3>2. new = [chain |-> chain, accounts |-> ac]
      BY <3>1
    <3> QED
      BY <3>1, <3>2 DEF IsSolSession
  <2> HIDE DEF new
  <2>3. /\ DOMAIN solSessions' = SolSessions /\ solSessions'[s] = new
        /\ \A d \in SolSessions : d # s => solSessions'[d] = solSessions[d]
    BY <2>1 DEF SolInv
  <2>4. \A d \in SolSessions : solSessions'[d] # None => IsSolSession(solSessions'[d])
    BY <2>2, <2>3 DEF SolInv
  <2>5. solActive # None => SolActiveInv(solActive, solAttached, solHandlers, solSessions', solKey)
    BY <2>2, <2>3 DEF SolInv, SolActiveInv
  <2>6. solActive' # None => SolActiveInv(solActive', solAttached', solHandlers', solSessions', solKey')
    BY <2>1, <2>5, Zenon
  <2> QED
    BY <2>1, <2>3, <2>4, <2>6 DEF SolInv, SolActiveInv, SolTaskInv, IsSolSession
<1>4. ASSUME NEW c \in SolCalls, SolApproved(c) PROVE SolInv'
  <2> DEFINE t == [pc |-> "genesis", wallet |-> solTasks[c].wallet, object |-> solTasks[c].object,
                   key |-> solKey[solTasks[c].wallet], missed |-> FALSE]
  <2>1. solTasks[c].wallet \in SolWallets
    BY <1>4, <1>t DEF SolApproved, SolAt, SolTaskInv
  <2>2. SolTaskInv(t, solKey)
    BY <2>1 DEF SolTaskInv
  <2>3. (SolAwait(c, t) \/ SolAwait(c, Idle)) /\ UNCHANGED <<solSessions, solKey, solActive, solAttached, solHandlers>>
    BY <1>4 DEF SolApproved, solLive
  <2> HIDE DEF t
  <2> QED
    BY <1>i, <2>2, <2>3, SolCallStep
<1>5. ASSUME NEW c \in SolCalls, NEW w \in SolWallets, SolConnect(c, w) PROVE SolInv'
  <2> DEFINE t == [pc |-> "connect", wallet |-> w, object |-> solDiscovered[w]]
  <2>1. SolTaskInv(t, solKey)
    BY DEF SolTaskInv
  <2>2. SolAwait(c, t) /\ UNCHANGED <<solSessions, solKey, solActive, solAttached, solHandlers>>
    BY <1>5 DEF SolConnect, solLive
  <2> HIDE DEF t
  <2> QED
    BY <2>1, <2>2, SolCallStep
<1>6. ASSUME NEW c \in SolCalls, SolGenesisFailed(c) \/ SolReturned(c) PROVE SolInv'
  BY <1>6, <1>i, SolCallStep DEF SolGenesisFailed, SolReturned, solLive
<1>7. ASSUME NEW c \in SolCalls, SolDisconnect(c) PROVE SolInv'
  <2>1. SolTaskInv([pc |-> "disconnect"], solKey)
    BY DEF SolTaskInv
  <2> QED
    BY <1>7, <2>1, SolCallStep DEF SolDisconnect, solLive
<1>8. ASSUME NEW c \in SolCalls, SolDisconnected(c) PROVE SolInv'
  BY <1>8, <1>i, SolCallStep DEF SolDisconnected
<1>9. ASSUME NEW c \in SolCalls, NEW s, SolSign(c, s) PROVE SolInv'
  <2> DEFINE t == [pc |-> "sign", wallet |-> solActive.wallet, of |-> s]
  <2>1. SolTaskInv(t, solKey)
    BY DEF SolTaskInv
  <2>2. SolAwait(c, t) /\ UNCHANGED <<solSessions, solKey, solActive, solAttached, solHandlers>>
    BY <1>9 DEF SolSign, solLive
  <2> HIDE DEF t
  <2> QED
    BY <2>1, <2>2, SolCallStep
<1>10. ASSUME NEW c \in SolCalls, SolSigned(c) PROVE SolInv'
  <2> DEFINE t == [pc |-> "signed", by |-> solKey[solTasks[c].wallet],
                   as |-> solSessions[solTasks[c].of].accounts.key]
  <2>1. SolTaskInv(t, solKey)
    BY DEF SolTaskInv
  <2>2. (SolAwait(c, t) \/ SolAwait(c, Idle)) /\ UNCHANGED <<solSessions, solKey, solActive, solAttached, solHandlers>>
    BY <1>10 DEF SolSigned, solLive
  <2> HIDE DEF t
  <2> QED
    BY <1>i, <2>1, <2>2, SolCallStep
<1>11. ASSUME SolClear \/ (\E w \in SolWallets : RegisterWallet(w) \/ Unregister(w)) \/ UNCHANGED solVars
       PROVE  UNCHANGED <<solKey, solSessions, solTasks>>
              /\ (UNCHANGED <<solActive, solAttached, solHandlers>> \/ solActive' = None)
  BY <1>11 DEF SolClear, RegisterWallet, Unregister, solVars, solLive
<1> QED
  BY <1>1, <1>2, <1>3, <1>4, <1>5, <1>6, <1>7, <1>8, <1>9, <1>10, <1>11, SolConnectedStep DEF SolNext

LEMMA SolSafe == ASSUME SolInv PROVE AccountFollowsWallet
  BY DEF SolInv, SolActiveInv, AccountFollowsWallet

\* A step that changes at most one call, and at most drops the active session.
LEMMA SolTypesFrame ==
  ASSUME SolInv, SolTypes, UNCHANGED <<solDiscovered, solObjects, solKey, solSteps, solSessions>>,
         \/ UNCHANGED <<solActive, solAttached, solHandlers>>
         \/ solActive' = None /\ solAttached' = None,
         \/ UNCHANGED solTasks
         \/ \E c \in SolCalls : \E t : SolAwait(c, t) /\ (t.pc = "genesis" => t.key \in SolKeys)
  PROVE  SolTypes'
<1>1. solDiscovered' = solDiscovered /\ solObjects' = solObjects /\ solKey' = solKey /\ solSteps' = solSteps
      /\ solSessions' = solSessions
  OBVIOUS
<1>2. solActive' # None => solActive'.of \in SolSessions /\ solSessions'[solActive'.of] \in SolSession
  BY <1>1, Zenon DEF SolTypes
<1>3. solAttached' # None => solAttached' \in solHandlers'
  BY DEF SolTypes
<1>4. \A d \in SolCalls : solTasks'[d].pc = "genesis" => solTasks'[d].key \in SolKeys
  <2>1. CASE UNCHANGED solTasks
    BY <2>1 DEF SolTypes, SolAt
  <2>2. ASSUME NEW c \in SolCalls, NEW t, SolAwait(c, t), t.pc = "genesis" => t.key \in SolKeys
        PROVE  \A d \in SolCalls : solTasks'[d].pc = "genesis" => solTasks'[d].key \in SolKeys
    <3>1. \A d \in SolCalls : solTasks'[d] = IF d = c THEN t ELSE solTasks[d]
      BY <2>2 DEF SolAwait, SolInv
    <3> QED
      BY <2>2, <3>1 DEF SolTypes, SolAt
  <2> QED
    BY <2>1, <2>2
<1> QED
  BY <1>1, <1>2, <1>3, <1>4 DEF SolTypes, SolAt, SolSession

\* A session that is made, or moves, is one of the types.
LEMMA SolMade ==
  ASSUME SolInv, SolTypes, NEW c \in SolCalls, NEW s \in SolSessions, NEW chain \in SolChains,
         SolConnected(c, s, chain)
  PROVE  SolTypes'
<1> DEFINE t == solTasks[c]
           made == [chain |-> chain, accounts |-> [chain |-> chain, key |-> t.key]]
<1>1. t.key \in SolKeys
  BY DEF SolConnected, SolTypes
<1>2. made \in SolSession
  BY <1>1 DEF SolSession
<1>3. /\ UNCHANGED <<solDiscovered, solObjects, solKey, solSteps>> /\ SolAwait(c, Idle)
      /\ solActive'.of = s /\ solSessions' = [solSessions EXCEPT ![s] = made]
      /\ solAttached' \in solHandlers'
  BY DEF SolConnected, solFound
<1> HIDE DEF t, made
<1>4. solSessions' \in [SolSessions -> SolSession \cup {None}] /\ solSessions'[s] = made
  BY <1>2, <1>3 DEF SolTypes
<1>5. \A d \in SolCalls : solTasks'[d] = IF d = c THEN Idle ELSE solTasks[d]
  BY <1>3 DEF SolAwait, SolInv
<1>6. \A d \in SolCalls : solTasks'[d].pc = "genesis" => solTasks'[d].key \in SolKeys
  BY <1>5, IdleIs DEF SolTypes, SolAt
<1>7. solDiscovered' = solDiscovered /\ solObjects' = solObjects /\ solKey' = solKey /\ solSteps' = solSteps
  BY <1>3
<1> QED
  BY <1>2, <1>3, <1>4, <1>6, <1>7 DEF SolTypes, SolAt, SolSession

LEMMA SolAccountTyped ==
  ASSUME SolInv, SolTypes, NEW w \in SolWallets, NEW key \in SolKeys \cup {None}, AccountChanged(w, key)
  PROVE  SolTypes'
<1>1. /\ solSteps' = solSteps + 1 /\ solSteps < MaxSolSteps /\ solKey' = [solKey EXCEPT ![w] = key]
      /\ solDiscovered' = solDiscovered /\ solObjects' = solObjects
      /\ solAttached' = solAttached /\ solHandlers' = solHandlers
  BY DEF AccountChanged, solFound
<1>2. solSteps' \in 0 .. MaxSolSteps /\ solKey' \in [SolWallets -> SolKeys \cup {None}]
  BY <1>1, SolAssumption DEF SolTypes
<1> DEFINE o == solActive.of
           moved == [solSessions[o] EXCEPT !.accounts = [chain |-> solSessions[o].chain, key |-> key]]
<1>3. /\ solSessions' \in [SolSessions -> SolSession \cup {None}]
      /\ \A s \in SolSessions : solSessions[s] \in SolSession => solSessions'[s] \in SolSession
  <2>1. CASE Addressed(w) /\ key \notin {None, solActive.key}
    <3>1. solActive # None /\ key \in SolKeys
      BY <2>1 DEF Addressed
    <3>2. o \in SolSessions /\ solSessions[o] \in SolSession
      BY <3>1 DEF SolTypes
    <3>3. solSessions' = [solSessions EXCEPT ![o] = moved]
      BY <2>1 DEF AccountChanged
    <3>4. moved \in SolSession
      <4>1. \A x \in SolSession : [x EXCEPT !.accounts = [chain |-> x.chain, key |-> key]] \in SolSession
        BY <3>1 DEF SolSession
      <4> QED
        BY <3>2, <4>1
    <3> HIDE DEF moved, o
    <3> QED
      BY <3>2, <3>3, <3>4 DEF SolTypes
  <2>2. CASE ~(Addressed(w) /\ key \notin {None, solActive.key})
    <3>1. solSessions' = solSessions
      BY <2>2 DEF AccountChanged
    <3> QED
      BY <3>1 DEF SolTypes
  <2> QED
    BY <2>1, <2>2
<1>4. solActive' # None => solActive # None /\ solActive'.of = solActive.of
  <2>1. CASE Addressed(w) /\ key # None
    <3>1. solActive # None /\ solActive' = [solActive EXCEPT !.key = key, !.missed = FALSE]
      BY <2>1 DEF AccountChanged, Addressed
    <3>2. SolActiveInv(solActive, solAttached, solHandlers, solSessions, solKey)
      BY <3>1, Zenon DEF SolInv
    <3>3. PICK a, b, d, e, f : solActive = [wallet |-> a, object |-> b, key |-> d, of |-> e, missed |-> f]
      BY <3>2 DEF SolActiveInv
    <3> QED
      BY <3>1, <3>3
  <2>2. CASE Addressed(w) /\ key = None
    BY <2>2 DEF AccountChanged
  <2>3. CASE ~Addressed(w)
    BY <2>3 DEF AccountChanged
  <2> QED
    BY <2>1, <2>2, <2>3
<1>5. solActive' # None => solActive'.of \in SolSessions /\ solSessions'[solActive'.of] \in SolSession
  BY <1>3, <1>4 DEF SolTypes
<1>6. \A d \in SolCalls : solTasks'[d].pc = "genesis" => solTasks'[d].key \in SolKeys
  <2> SUFFICES ASSUME NEW d \in SolCalls, solTasks'[d].pc = "genesis"
               PROVE  solTasks'[d].key \in SolKeys
    OBVIOUS
  <2> DEFINE t == solTasks[d]
  <2>1. solTasks'[d] = IF SolAt(d, "genesis") /\ t.wallet = w THEN [t EXCEPT !.missed = TRUE] ELSE t
    BY DEF AccountChanged
  <2>2. CASE SolAt(d, "genesis")
    <3>1. t.key \in SolKeys
      BY <2>2 DEF SolTypes
    <3>2. SolTaskInv(t, solKey) /\ t.pc = "genesis"
      BY <2>2 DEF SolInv, SolAt
    <3>3. PICK a, b, e, f, g : t = [pc |-> a, wallet |-> b, object |-> e, key |-> f, missed |-> g]
      BY <3>2 DEF SolTaskInv
    <3> HIDE DEF t
    <3> QED
      BY <2>1, <3>1, <3>3
  <2>3. CASE ~SolAt(d, "genesis")
    BY <2>1, <2>3 DEF SolAt
  <2> QED
    BY <2>2, <2>3
<1>7. solAttached' # None => solAttached' \in solHandlers'
  BY <1>1 DEF SolTypes
<1> QED
  BY <1>1, <1>2, <1>3, <1>5, <1>6, <1>7 DEF SolTypes, SolAt, SolSession

LEMMA SolTypesStep == ASSUME SolInv, SolTypes, [SolNext]_solVars PROVE SolTypes'
<1>i. Idle.pc # "genesis"
  BY IdleIs
<1>1. ASSUME NEW w \in SolWallets, RegisterWallet(w) \/ Unregister(w) PROVE SolTypes'
  <2>1. UNCHANGED <<solKey, solSteps, solSessions, solActive, solAttached, solHandlers, solTasks>>
    BY <1>1 DEF RegisterWallet, Unregister, solLive
  <2>2. solDiscovered' \in [SolWallets -> 0 .. MaxSolObjects] /\ solObjects' \in 0 .. MaxSolObjects
    BY <1>1, SolAssumption DEF RegisterWallet, Unregister, SolTypes
  <2> QED
    BY <2>1, <2>2 DEF SolTypes, SolAt, SolSession
<1>2. ASSUME SolClear PROVE SolTypes'
  <2>1. /\ UNCHANGED <<solKey, solSteps, solSessions, solTasks, solObjects>>
        /\ solActive' = None /\ solAttached' = None
        /\ solDiscovered' = [w \in SolWallets |-> 0]
    BY <1>2 DEF SolClear, Detach
  <2>2. solDiscovered' \in [SolWallets -> 0 .. MaxSolObjects]
    BY <2>1, SolAssumption
  <2> QED
    BY <2>1, <2>2 DEF SolTypes, SolAt, SolSession
<1>3. ASSUME NEW s \in SolSessions, NEW chain \in SolChains, SolSwitchChain(s, chain) PROVE SolTypes'
  <2> DEFINE moved == [solSessions[s] EXCEPT !.chain = chain]
  <2>1. /\ solSessions[s] # None /\ solSessions' = [solSessions EXCEPT ![s] = moved]
        /\ UNCHANGED <<solDiscovered, solObjects, solKey, solSteps, solActive, solAttached, solHandlers, solTasks>>
    BY <1>3 DEF SolSwitchChain, solFound
  <2>2. moved \in SolSession
    <3>1. solSessions[s] \in SolSession
      BY <2>1 DEF SolTypes
    <3> QED
      BY <3>1 DEF SolSession
  <2> HIDE DEF moved
  <2>3. /\ solSessions' \in [SolSessions -> SolSession \cup {None}]
        /\ \A u \in SolSessions : solSessions[u] \in SolSession => solSessions'[u] \in SolSession
    BY <2>1, <2>2 DEF SolTypes
  <2> QED
    BY <2>1, <2>3 DEF SolTypes, SolAt, SolSession
<1>4. ASSUME NEW c \in SolCalls, SolApproved(c) PROVE SolTypes'
  <2> DEFINE t == [pc |-> "genesis", wallet |-> solTasks[c].wallet, object |-> solTasks[c].object,
                   key |-> solKey[solTasks[c].wallet], missed |-> FALSE]
  <2>1. solTasks[c].wallet \in SolWallets
    BY <1>4 DEF SolApproved, SolAt, SolInv, SolTaskInv
  <2>2. solKey[solTasks[c].wallet] # None => t.key \in SolKeys
    BY <2>1 DEF SolTypes
  <2>3. (solKey[solTasks[c].wallet] # None /\ SolAwait(c, t)) \/ SolAwait(c, Idle)
    BY <1>4 DEF SolApproved
  <2>4. UNCHANGED <<solDiscovered, solObjects, solKey, solSteps, solSessions, solActive, solAttached, solHandlers>>
    BY <1>4 DEF SolApproved, solLive, solFound
  <2> HIDE DEF t
  <2> QED
    BY <1>i, <2>2, <2>3, <2>4, SolTypesFrame
<1>5. ASSUME NEW c \in SolCalls,
             SolGenesisFailed(c) \/ SolReturned(c) \/ SolDisconnect(c) \/ SolSigned(c)
               \/ (\E w \in SolWallets : SolConnect(c, w)) \/ (\E s \in SolSessions : SolSign(c, s))
      PROVE  SolTypes'
  <2>1. \A w, x : [pc |-> "connect", wallet |-> w, object |-> x].pc # "genesis"
    OBVIOUS
  <2>2. \A w, x : [pc |-> "sign", wallet |-> w, of |-> x].pc # "genesis"
    OBVIOUS
  <2>3. \A w, x : [pc |-> "signed", by |-> w, as |-> x].pc # "genesis"
    OBVIOUS
  <2>4. [pc |-> "disconnect"].pc # "genesis"
    OBVIOUS
  <2>5. UNCHANGED <<solDiscovered, solObjects, solKey, solSteps, solSessions, solActive, solAttached, solHandlers>>
    BY <1>5 DEF SolGenesisFailed, SolReturned, SolDisconnect, SolSigned, SolConnect, SolSign, solLive, solFound
  <2>6. \E t : SolAwait(c, t) /\ t.pc # "genesis"
    BY <1>5, <1>i, <2>1, <2>2, <2>3, <2>4, Zenon
       DEF SolGenesisFailed, SolReturned, SolDisconnect, SolSigned, SolConnect, SolSign
  <2> QED
    BY <2>5, <2>6, SolTypesFrame
<1>6. ASSUME NEW c \in SolCalls, SolDisconnected(c) PROVE SolTypes'
  <2>1. /\ UNCHANGED <<solDiscovered, solObjects, solKey, solSteps, solSessions>>
        /\ solActive' = None /\ solAttached' = None /\ SolAwait(c, Idle)
    BY <1>6 DEF SolDisconnected, Detach, solFound
  <2> QED
    BY <1>i, <2>1, SolTypesFrame
<1>7. CASE UNCHANGED solVars
  <2>1. UNCHANGED <<solDiscovered, solObjects, solKey, solSteps, solSessions, solActive, solAttached, solHandlers, solTasks>>
    BY <1>7 DEF solVars, solFound, solLive
  <2> QED
    BY <2>1, SolTypesFrame
<1> QED
  BY <1>1, <1>2, <1>3, <1>4, <1>5, <1>6, <1>7, SolMade, SolAccountTyped, Zenon DEF SolNext

LEMMA SolTyped ==
  /\ SolInit => SolTypes
  /\ SolTypes => SolTypeOK
<1>1. ASSUME SolInit PROVE SolTypes
  <2>1. solDiscovered \in [SolWallets -> 0 .. MaxSolObjects] /\ solObjects \in 0 .. MaxSolObjects
        /\ solSteps \in 0 .. MaxSolSteps
    BY <1>1, SolAssumption DEF SolInit
  <2> QED
    BY <1>1, <2>1, IdleIs DEF SolInit, SolTypes, SolAt
<1>2. ASSUME SolTypes PROVE SolTypeOK
  BY <1>2, SolAssumption, Zenon DEF SolTypes, SolTypeOK
<1> QED
  BY <1>1, <1>2


-----------------------------------------------------------------------------
(* The suite *)

\* What the types of a part need besides its invariant.
TypesInv ==
  /\ subject \in {"pairing", "requests", "injected", "coinbase", "embedded", "siwx", "solana", "xrpl"}
  /\ WcEventsCounted /\ InjWalletTypes /\ EmbDataTypes /\ EmbSessionTypes /\ SolTypes
SuiteInv ==
  /\ PairInv /\ WcInv /\ InjInv /\ FollowInv /\ CbInv /\ SignedAsRequested /\ SiwxInv /\ NoncesInv /\ SolInv
  /\ XrplInv /\ TypesInv

LEMMA TypesStart == SuiteInit => TypesInv
  BY EventsCounted, InjTyped, EmbTyped, SolTyped, Zenon DEF SuiteInit, TypesInv

LEMMA SuiteStarts == SuiteInit => SuiteInv
<1>1. EmbInit => SignedAsRequested
  BY DEF EmbInit, SignedAsRequested
<1> QED
  BY <1>1, PairStarts, WcStarts, InjStarts, FollowStarts, CbStarts, SiwxStarts, NoncesStart, SolStarts, XrplStarts, TypesStart, Zenon
     DEF SuiteInit, SuiteInv

\* Whatever a step is of, it is a step of each part or leaves it as it is.
LEMMA SuiteParts ==
  ASSUME [SuiteNext]_suiteVars
  PROVE  /\ [PairNext]_wcpVars /\ [WcNext]_wcVars /\ [InjNext]_injVars /\ [CoinbaseNext]_cbVars
         /\ [EmbNext]_embVars /\ [SiwxNext]_siwxVars /\ [SolNext]_solVars /\ [XrplNext]_xrplVars
  BY Zenon DEF SuiteNext, suiteVars

LEMMA SuiteStep == ASSUME SuiteInv, [SuiteNext]_suiteVars PROVE SuiteInv'
<1>1. PairInv' /\ WcInv' /\ InjInv' /\ FollowInv' /\ CbInv'
  BY SuiteParts, PairStep, WcStep, InjStep, FollowStep, CbStep, Zenon DEF SuiteInv, TypesInv
<1>2. SignedAsRequested' /\ SiwxInv' /\ NoncesInv' /\ SolInv' /\ XrplInv'
  BY SuiteParts, EmbStep, SiwxStep, NoncesStep, SolStep, XrplStep, Zenon DEF SuiteInv
<1>3. subject' = subject
  BY Zenon DEF SuiteNext, suiteVars
<1>4. WcEventsCounted' /\ InjWalletTypes' /\ EmbDataTypes' /\ EmbSessionTypes' /\ SolTypes'
  BY SuiteParts, EventsCounted, InjWalletTypesStep, EmbDataStep, EmbSessionStep, SolTypesStep, Zenon
     DEF SuiteInv, TypesInv
<1>5. TypesInv'
  BY <1>3, <1>4, Zenon DEF SuiteInv, TypesInv
<1> QED
  BY <1>1, <1>2, <1>5 DEF SuiteInv

\* The inductive invariant of the suite: that of each of its parts.
THEOREM SuiteHolds == SuiteSpec => []SuiteInv
  BY SuiteStarts, SuiteStep, PTL DEF SuiteSpec

\* Each connector keeps what its handlers read of the shape they read it in, whatever
\* order calls, wallet events and answers come in: an active session was made, the
\* active namespace is one the wallet holds an account of, the handler that is to be
\* removed is among those the provider calls, what an approval lists is on the chains
\* asked for, and the counters stay within their bounds.
THEOREM WalletsTypeCorrect == SuiteSpec => []TypeOK
<1>1. ASSUME SuiteInv PROVE TypeOK
  <2>0. /\ PairInv /\ WcInv /\ InjInv /\ CbInv /\ SiwxInv /\ NoncesInv /\ XrplInv
        /\ WcEventsCounted /\ InjWalletTypes /\ EmbDataTypes /\ EmbSessionTypes /\ SolTypes
        /\ subject \in {"pairing", "requests", "injected", "coinbase", "embedded", "siwx", "solana", "xrpl"}
    BY <1>1, Zenon DEF SuiteInv, TypesInv
  <2>1. PairTypeOK /\ XrplTypeOK
    BY <2>0, Zenon DEF PairInv, XrplInv
  <2>2. WcTypeOK /\ InjTypeOK /\ EmbTypeOK /\ SolTypeOK
    BY <2>0, WcTyped, InjTyped, EmbTyped, SolTyped, Zenon
  <2>3. CoinbaseTypeOK
    BY <2>0 DEF CbInv, CbTerms, CoinbaseTypeOK
  <2>4. SiwxTypeOK
    <3>1. generation \in 0 .. 2 * MaxGeneration
      BY <2>0, LifecycleAssumption DEF SiwxInv
    <3>2. 1 .. Len(signedMsgs) = DOMAIN signedMsgs
      BY <2>0 DEF SiwxInv
    <3>3. \A s \in {session, timer, siwxStored} : s = None \/ s.signature \in DOMAIN signedMsgs
      <4>1. \A s : SignedBy(s, Len(signedMsgs)) => s = None \/ s.signature \in DOMAIN signedMsgs
        BY <3>2 DEF SignedBy
      <4>2. SignedBy(session, Len(signedMsgs)) /\ SignedBy(timer, Len(signedMsgs)) /\ SignedBy(siwxStored, Len(signedMsgs))
        BY <2>0, Zenon DEF SiwxInv
      <4> QED
        BY <4>1, <4>2
    <3>4. siwxNow \in 0 .. 1 /\ siwxOvertaken \subseteq DOMAIN signedMsgs
      BY <2>0, <3>2 DEF SiwxInv
    <3>5. nonces.consumed \subseteq nonces.issued
      BY <2>0 DEF NoncesInv
    <3> QED
      BY <3>1, <3>3, <3>4, <3>5, Zenon DEF SiwxTypeOK
  <2> QED
    BY <2>0, <2>1, <2>2, <2>3, <2>4 DEF TypeOK
<1> QED
  BY <1>1, SuiteHolds, PTL

\* A WalletConnect pairing that was cancelled and that the wallet approves after all
\* is torn down: an answer that is not taken is always one that a watcher still
\* waits for, for any number of attempts.
THEOREM CancelledIsTornDown == SuiteSpec => []DeclinedIsTornDown
<1>1. SuiteInv => DeclinedIsTornDown
  BY DEF SuiteInv, PairInv
<1> QED
  BY <1>1, SuiteHolds, PTL

\* A request is not asked again of a wallet that did it or of a user who refused it,
\* when the calls of a batch are sent one by one: of WalletConnect and of injected
\* wallets, for any number of calls in a batch.
THEOREM NothingAskedTwice == SuiteSpec => []BatchesAskedOnce
<1>1. SuiteInv => BatchesAskedOnce
  BY WcSafe, InjSafe DEF SuiteInv, BatchesAskedOnce
<1> QED
  BY <1>1, SuiteHolds, PTL

\* A request names a sender the session approved for its chain, and an embedded
\* wallet signs as the account the request named.
THEOREM OnlyApprovedSign == SuiteSpec => []SignersApproved
<1>1. SuiteInv => SignersApproved
  BY WcSafe DEF SuiteInv, SignersApproved
<1> QED
  BY <1>1, SuiteHolds, PTL

\* The calls of a Coinbase batch stop when the wallet is moved to another chain or
\* account between two of them.
THEOREM BatchStopsWhenMoved == SuiteSpec => []MovedSessionStopsBatch
<1>1. SuiteInv => MovedSessionStopsBatch
  BY DEF SuiteInv, CbInv
<1> QED
  BY <1>1, SuiteHolds, PTL

\* A superseded sign-in leaves nothing in the storage and a nonce is accepted once,
\* for any number of sign-ins and verifications.
THEOREM SignInCountsOnce == SuiteSpec => []SignedInOnce
<1>1. SuiteInv => SignedInOnce
  BY SiwxSafe DEF SuiteInv, SignedInOnce, NoncesInv
<1> QED
  BY <1>1, SuiteHolds, PTL

\* What a session says of its account follows its wallet. Of an injected wallet: it is
\* qualified with the session's chain, and its address is the wallet's unless a connect,
\* a reconnect or a switch that read it earlier wrote it last, or the account changed
\* while the permission was withdrawn. Of Solana it is the account the wallet last
\* reported, and of XRPL the request asked of the wallet is the connected session's.
THEOREM SessionsFollowWallets == SuiteSpec => []AccountsFollowWallets
<1>1. SuiteInv => AccountsFollowWallets
  BY InjSafe, SolSafe DEF SuiteInv, FollowInv, XrplInv, AccountsFollowWallets
<1> QED
  BY <1>1, SuiteHolds, PTL
=============================================================================
