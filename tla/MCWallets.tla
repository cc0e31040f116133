------------------------------ MODULE MCWallets ------------------------------
(* The suite of the wallets an app connects to: the pairing and the requests *)
(* of WalletConnect, the connectors of injected, Coinbase, embedded, Solana  *)
(* and XRPL wallets, and sign-in with a wallet. A behaviour is one of its    *)
(* subject; the others keep one initial state.                               *)
EXTENDS WcPairing, WcRequests, InjectedWallet, CoinbaseWallet, EmbeddedWallet,
        Siwx, SolanaWallet, XrplWallet

CONSTANTS s1, s2,     \* sessions, proposals, verifications
          b1, b2,     \* seed phrases, XRPL accounts
          c1, c2,     \* calls
          e1, e2, sol, a1, a2, \* chains and addresses that are not alike
          w1, w2, r1, d1

VARIABLE subject
suiteVars ==
  <<subject, wcpVars, wcVars, injVars, cbVars, embVars, siwxVars, solVars, xrplVars>>

MCFirstChains == [eip155 |-> <<e1, e2>>, solana |-> <<sol>>]
MCFirstAccounts ==
  [eip155 |-> << <<e1, a1>>, <<e2, a2>> >>, solana |-> << <<sol, a1>> >>]
MCRdns == [w \in InjWallets |-> r1]
MCFirstWallet ==
  [w \in InjWallets |-> [chain |-> e1, account |-> a1, permitted |-> FALSE, knows |-> {e1}]]
MCFirstCoinbase == [chain |-> e1, account |-> a1, supports |-> {e1, e2}]

\* The parts share the model values, so that one symmetry serves them all.
Symmetry ==
  Permutations({s1, s2}) \cup Permutations({c1, c2})

\* That a call still has the record of the index makes a difference to a switch only,
\* and where the address of a session is from only while the session is listening.
View ==
  <<subject, wcpVars, wcVars, discovered, injWallet, injSessions, index, permissionAnswers,
    strayed \intersect UNION {ToSet(listening[w]) : w \in InjWallets},
    [c \in InjCalls |-> IF "record" \in DOMAIN injTasks[c] /\ injTasks[c].pc # "switch"
                        THEN [injTasks[c] EXCEPT !.record = FALSE] ELSE injTasks[c]],
    walletSteps, cbVars, embVars, siwxVars, solVars, xrplVars>>

SuiteInit ==
  /\ subject \in {"pairing", "requests", "injected", "coinbase",
                  "embedded", "siwx", "solana", "xrpl"}
  /\ PairInit /\ WcInit /\ InjInit /\ CoinbaseInit /\ EmbInit /\ SiwxInit
  /\ SolInit /\ XrplInit
  /\ subject # "embedded" => embStored = None /\ embChain = e1
  /\ subject # "solana" => \A w \in SolWallets : solKey[w] = a1
  /\ subject # "xrpl" => xrplChain = "xrpl:0"

SuiteNext ==
  /\ UNCHANGED subject
  /\ \/ subject = "pairing" /\ PairNext
        /\ UNCHANGED <<wcVars, injVars, cbVars, embVars, siwxVars, solVars, xrplVars>>
     \/ subject = "requests" /\ WcNext
        /\ UNCHANGED <<wcpVars, injVars, cbVars, embVars, siwxVars, solVars, xrplVars>>
     \/ subject = "injected" /\ InjNext
        /\ UNCHANGED <<wcpVars, wcVars, cbVars, embVars, siwxVars, solVars, xrplVars>>
     \/ subject = "coinbase" /\ CoinbaseNext
        /\ UNCHANGED <<wcpVars, wcVars, injVars, embVars, siwxVars, solVars, xrplVars>>
     \/ subject = "embedded" /\ EmbNext
        /\ UNCHANGED <<wcpVars, wcVars, injVars, cbVars, siwxVars, solVars, xrplVars>>
     \/ subject = "siwx" /\ SiwxNext
        /\ UNCHANGED <<wcpVars, wcVars, injVars, cbVars, embVars, solVars, xrplVars>>
     \/ subject = "solana" /\ SolNext
        /\ UNCHANGED <<wcpVars, wcVars, injVars, cbVars, embVars, siwxVars, xrplVars>>
     \/ subject = "xrpl" /\ XrplNext
        /\ UNCHANGED <<wcpVars, wcVars, injVars, cbVars, embVars, siwxVars, solVars>>
SuiteSpec == SuiteInit /\ [][SuiteNext]_suiteVars

\* The types of the variables of the part a behaviour is of.
TypeOK ==
  CASE subject = "pairing" -> PairTypeOK
    [] subject = "requests" -> WcTypeOK
    [] subject = "injected" -> InjTypeOK
    [] subject = "coinbase" -> CoinbaseTypeOK
    [] subject = "embedded" -> EmbTypeOK
    [] subject = "siwx" -> SiwxTypeOK
    [] subject = "solana" -> SolTypeOK
    [] subject = "xrpl" -> XrplTypeOK

\* What a wallet has done, or a user refused, is not asked of the wallet again when a
\* batch is sent one by one (sendCalls over WalletConnect and of injected wallets).
BatchesAskedOnce == NotAskedAgain /\ BatchSentOnce

\* Whoever signs is who the session approved: the sender of a request is an account
\* of the session on that chain, and a request that names an account is signed by it
\* or refused (WalletConnect and embedded wallets).
SignersApproved == SenderApprovedForChain /\ SignedAsRequested

\* A superseded sign-in leaves no session in the storage, and a nonce signs in once,
\* however many sign-ins, sign-outs and verifications overlap (core/src/siwx).
SignedInOnce == OvertakenNotStored /\ NonceAcceptedOnce

\* What a session says of its account follows its wallet through switches, reconnects,
\* account changes and timeouts: the chain it is qualified with and, unless a call wrote
\* an older one, the address (injected wallets), the account the wallet has reported
\* (Solana), the request it is asked for (XRPL).
AccountsFollowWallets ==
  AccountsQualified /\ AddressFollowsWallet /\ AccountFollowsWallet /\ PendingIsOfConnected
=============================================================================
