----------------------------- MODULE SolanaTransfers -----------------------------
(* The byte-by-byte checks of a signed Solana transaction, against what the    *)
(* chain does with it: the client's checks of what a wallet returned for a     *)
(* payment, an approval (core/src/solana-payment.ts) and a channel             *)
(* (solana-channel.ts), the x402 facilitator's and the MPP server's            *)
(* (server/svm.ts, server/solana.ts), and the later check of the settlement    *)
(* by balances (settlement-verification.ts). A token account is its owner and  *)
(* whether it is the associated one; an amount is right, or one less.          *)
EXTENDS ConnectLib, Integers, Functions

CONSTANTS Payer, Recipient, Sponsor, \* wallets
          Amount                     \* the amount asked for
ASSUME AmountAssumption == Amount \in Nat \ {0}
ASSUME WalletsAssumption == Payer # Recipient /\ Payer # Sponsor /\ Recipient # Sponsor

VARIABLES splTx,    \* the transaction under check
          verdicts  \* who has accepted it
splVars == <<splTx, verdicts>>

Ata(w) == [owner |-> w, assoc |-> TRUE]
TokenAccounts == {Ata(Payer), Ata(Recipient), Ata(Sponsor),
                  [owner |-> Payer, assoc |-> FALSE], [owner |-> Sponsor, assoc |-> FALSE]}

(* ------------------------------------------------------------ instructions *)
Limit == [prog |-> "limit"]
Price(high) == [prog |-> "price", high |-> high]
Memo(right) == [prog |-> "memo", right |-> right]
Lighthouse == [prog |-> "lighthouse"]
Stranger == [prog |-> "stranger"]
Transfer(from, to, authority, amount) ==
  [prog |-> "token", op |-> "transfer", from |-> from, to |-> to, authority |-> authority, amount |-> amount]
Asked(payer) == Transfer(Ata(payer), Ata(Recipient), payer, Amount)
\* ApproveChecked for a delegate, and a channel's open with its deposit: the
\* channel's token account is the recipient's here.
Approve(from, delegate, authority, amount) ==
  [prog |-> "token", op |-> "approve", from |-> from, to |-> Ata(delegate), authority |-> authority, amount |-> amount]
AskedApproval == Approve(Ata(Payer), Recipient, Payer, Amount)
Open(deposit) == [prog |-> "channel", from |-> Ata(Payer), to |-> Ata(Recipient), authority |-> Payer, amount |-> deposit]
Transfers == {Transfer(f, t, a, n) : f \in TokenAccounts, t \in {Ata(Recipient), Ata(Payer)},
                                     a \in {Payer, Sponsor}, n \in {Amount - 1, Amount}}

Approvals == {Approve(Ata(Payer), d, Payer, n) : d \in {Recipient, Sponsor}, n \in {Amount - 1, Amount}}
ChannelOpens == {Open(n) : n \in {Amount - 1, Amount}}

Prefixes == {<<Limit, Price(FALSE)>>, <<Limit, Price(TRUE)>>, <<Price(FALSE), Limit>>, <<Limit>>, <<>>}
Extras == {Memo(TRUE), Memo(FALSE), Lighthouse, Stranger, Asked(Payer)}
Suffixes == {<<>>} \union {<<a>> : a \in Extras} \union {<<a, b>> : a \in Extras, b \in Extras}
Body(p, t, s) == p \o <<t>> \o s
\* Who pays the fee, and the signatures that are there; whoever is an authority
\* must have signed for the chain to run it.
Transactions == [feePayer : {Payer, Sponsor}, signers : {{Payer}, {Sponsor}, {Payer, Sponsor}},
                 ixs : {Body(p, t, s) : p \in Prefixes, t \in Transfers \union Approvals \union ChannelOpens, s \in Suffixes}]

Of(tx, prog) == {i \in DOMAIN tx.ixs : tx.ixs[i].prog = prog}
Programs(tx) == {tx.ixs[i].prog : i \in DOMAIN tx.ixs}
Spends(tx) == Of(tx, "token") \union Of(tx, "channel")
Required(tx) == {tx.feePayer} \union {tx.ixs[i].authority : i \in Spends(tx)}

(* ------------------------------------------------------------------ checks *)
\* verifySignedSplTransfer: the instructions we built, unchanged and first, our
\* memo once, and after them only what wallets add.
ClientAccepts(tx, allowLighthouse) ==
  /\ tx.feePayer = Sponsor /\ Len(tx.ixs) \in 3..6
  /\ SubSeq(tx.ixs, 1, 3) = <<Limit, Price(FALSE), Asked(Payer)>>
  /\ \A i \in 4..Len(tx.ixs) :
       tx.ixs[i] = Memo(TRUE) \/ (tx.ixs[i] = Lighthouse /\ allowLighthouse)
  /\ Cardinality(Of(tx, "memo")) = 1
  /\ Payer \in tx.signers /\ Cardinality(Required(tx)) = 2

\* verifySignedOwnerTransaction: the owner pays and signs alone, for our one
\* token instruction.
OwnerAccepts(tx) ==
  /\ Required(tx) = {Payer} /\ Payer \in tx.signers /\ Len(tx.ixs) <= 6
  /\ Programs(tx) \subseteq {"limit", "price", "lighthouse", "token"}
  /\ {tx.ixs[i] : i \in Of(tx, "token")} = {AskedApproval} /\ Cardinality(Of(tx, "token")) = 1
\* verifySignedChannelOpen: our open, unchanged and first, then only Lighthouse.
OpenAccepts(tx) ==
  /\ tx.feePayer = Sponsor /\ Cardinality(Required(tx)) = 2 /\ Payer \in tx.signers
  /\ tx.ixs[1] = Open(Amount) /\ Len(tx.ixs) <= 6
  /\ \A i \in 2..Len(tx.ixs) : tx.ixs[i] = Lighthouse

\* checkTransaction, before anything is read: the fee payer neither authorizes the
\* transfer nor is its token account the source.
DrainsSponsor(t) == t.authority = Sponsor \/ t.from = Ata(Sponsor)
X402Accepts(tx) ==
  /\ tx.feePayer = Sponsor /\ Cardinality(Required(tx)) = 2 /\ Len(tx.ixs) \in 3..6
  /\ tx.ixs[1] = Limit /\ tx.ixs[2] = Price(FALSE) /\ tx.ixs[3].prog = "token" /\ tx.ixs[3].op = "transfer"
  /\ LET t == tx.ixs[3]
     IN /\ t.to = Ata(Recipient) /\ t.amount = Amount /\ t.from # t.to /\ ~DrainsSponsor(t)
        /\ t.authority \in tx.signers
  /\ \A i \in 4..Len(tx.ixs) :
       tx.ixs[i] = Memo(TRUE) \/ (tx.ixs[i] = Lighthouse /\ i < 6)
  /\ Cardinality(Of(tx, "memo")) = 1
\* A mutant of VerifiesSvm: the owner of the source is not looked at.
Bad_VerifiesSvm(tx) == X402Accepts(tx)
\* verifySvmPayload: the fee payer's tokens are never the source, delegated or not.
VerifiesSvm(tx) == X402Accepts(tx) /\ tx.ixs[3].from.owner # Sponsor

\* verifySolanaTransaction: one TransferChecked, in any place, and nothing but
\* compute budget and a memo beside it; sponsored or paid by the payer alone.
MppAccepts(tx, sponsored) ==
  /\ Required(tx) = IF sponsored THEN {Sponsor, Payer} ELSE {Payer}
  /\ tx.feePayer = IF sponsored THEN Sponsor ELSE Payer
  /\ Programs(tx) \subseteq {"limit", "price", "memo", "token"}
  /\ \A prog \in {"limit", "price", "memo"} : Cardinality(Of(tx, prog)) <= 1
  /\ \A i \in Of(tx, "memo") : tx.ixs[i] = Memo(TRUE)
  /\ Cardinality(Of(tx, "token")) = 1
  /\ \A i \in Of(tx, "token") :
       LET t == tx.ixs[i]
       IN t.op = "transfer" /\ t.to = Ata(Recipient) /\ t.amount = Amount /\ t.authority = Payer /\ t.from # t.to
  /\ sponsored => /\ Price(TRUE) \notin {tx.ixs[i] : i \in DOMAIN tx.ixs}
                  /\ Sponsor \notin tx.signers
  /\ Payer \in tx.signers

(* --------------------------------------------------------------- the chain *)
\* What an account gains, were every signature there. A wallet may spend its own
\* accounts, and the payer those it is the delegate of.
Movements(tx) == {i \in Spends(tx) : tx.ixs[i].prog = "channel" \/ tx.ixs[i].op = "transfer"}
Gains(tx, account) ==
  LET moved(S) == SumFunction([i \in S |-> tx.ixs[i].amount])
  IN moved({i \in Movements(tx) : tx.ixs[i].to = account}) - moved({i \in Movements(tx) : tx.ixs[i].from = account})
OwnerGains(tx, w) ==
  Gains(tx, Ata(w)) + (IF w = Recipient THEN 0 ELSE Gains(tx, [owner |-> w, assoc |-> FALSE]))
Runs(tx) == "stranger" \notin Programs(tx)

\* verifySolanaTransferSettlement: the owners' balances before and after.
SettlementVerified(tx) ==
  Runs(tx) /\ OwnerGains(tx, Recipient) = Amount /\ -OwnerGains(tx, Payer) >= Amount

(* -------------------------------------------------------------------- steps *)
SplInit == splTx \in Transactions /\ verdicts = {}
Accepts(who, tx) ==
  CASE who = "client" -> ClientAccepts(tx, TRUE)
    [] who = "mppClient" -> ClientAccepts(tx, FALSE)
    [] who = "owner" -> OwnerAccepts(tx)
    [] who = "channel" -> OpenAccepts(tx)
    [] who = "x402" -> VerifiesSvm(tx)
    [] who = "mpp" -> MppAccepts(tx, FALSE)
    [] who = "mppSponsored" -> MppAccepts(tx, TRUE)
    [] OTHER -> SettlementVerified(tx)
Checkers == {"client", "mppClient", "owner", "channel", "x402", "mpp", "mppSponsored", "settlement"}
CheckTransfer ==
  /\ verdicts = {}
  /\ verdicts' = {who \in Checkers : Accepts(who, splTx)} \union {"checked"}
  /\ UNCHANGED splTx
SplNext == CheckTransfer

SplTypeOK == splTx \in Transactions /\ verdicts \subseteq Checkers \union {"checked"}

\* Whoever accepts a transaction has accepted one that pays the recipient the
\* amount, no more and no less. What a client checks, and what the x402
\* facilitator does, takes nothing from a token account of the sponsor. The
\* sponsored MPP server makes sure of less: that the sponsor's signature, which
\* pays the fee, authorizes no transfer. What the MPP client sends its sponsored
\* server takes, and what it takes pays as the settlement check will ask.
AcceptedPays ==
  /\ verdicts \intersect (Checkers \ {"owner"}) # {} => OwnerGains(splTx, Recipient) = Amount
  /\ verdicts \intersect {"client", "mppClient", "channel", "x402"} # {} => OwnerGains(splTx, Sponsor) = 0
  /\ "mppSponsored" \in verdicts => \A i \in Movements(splTx) : splTx.ixs[i].authority # Sponsor
  /\ "owner" \in verdicts =>
       /\ \A w \in {Payer, Recipient, Sponsor} : OwnerGains(splTx, w) = 0
       /\ \A i \in Of(splTx, "token") : splTx.ixs[i] = AskedApproval
  /\ "mppClient" \in verdicts /\ Sponsor \notin splTx.signers =>
       verdicts \intersect {"mppSponsored", "x402", "settlement"} = {"mppSponsored", "x402", "settlement"}

\* Not so: a sponsored MPP transfer leaves the sponsor's token accounts alone.
\* verifySolanaTransaction asks who the authority is and not whose the source is:
\* a payer the sponsor made its delegate may pay with the sponsor's tokens.
SponsorKeepsTokens == "mppSponsored" \in verdicts => OwnerGains(splTx, Sponsor) = 0
==================================================================================
