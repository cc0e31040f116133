------------------------------- MODULE MCLive -------------------------------
(* What must eventually happen: calls of the voucher key manager, fetches of *)
(* an MPP session and watches of the transaction monitor end. A behaviour is *)
(* one of its subject; the others keep their initial state, and the fairness *)
(* of a part is that of its module, while it is the subject.                 *)
EXTENDS VoucherKeys, MppSession, TxMonitor

CONSTANTS c1, c2, k1, t1, t2, s1, x1, x2, o1, o2, p1, p2, e1, e2, e3, chain

VARIABLE subject
suiteVars == <<subject, vars, mppVars, txVars>>

MCTabOf == [c \in {c1, c2} |-> IF c = c1 THEN t1 ELSE t2]

\* The policy stops at 2, below the deposit of 3; it expires when the clock moves.
MCPolicies ==
  {[price |-> 1, maxCumulative |-> 2, maxDelta |-> 2, expiry |-> 1]}

MCChainOf == [t \in Txs |-> chain]

SuiteInit ==
  /\ subject \in {"keys", "session", "monitor"}
  /\ Init /\ MppInit /\ TxInit

SuiteNext ==
  /\ UNCHANGED subject
  /\ \/ subject = "keys" /\ Next /\ UNCHANGED <<mppVars, txVars>>
     \/ subject = "session" /\ MppNext /\ UNCHANGED <<vars, txVars>>
     \/ subject = "monitor" /\ TxNext /\ UNCHANGED <<vars, mppVars>>
SuiteSpec == SuiteInit /\ [][SuiteNext]_suiteVars

KeysFair ==
  \A c \in Callers :
    /\ WF_vars(subject = "keys" /\ Progress(c))
    /\ SF_vars(subject = "keys" /\ LockKey(c))
    /\ SF_vars(subject = "keys" /\ LockAll(c))
SessionFair ==
  /\ \A f \in Fetches : WF_mppVars(subject = "session" /\ FetchStep(f))
  /\ \A c \in Closers : WF_mppVars(subject = "session" /\ CloserStep(c))
  /\ \A c \in Forcers : WF_mppVars(subject = "session" /\ ForcerStep(c))
MonitorFair ==
  /\ \A t \in Txs : WF_txVars(subject = "monitor" /\ \E p \in Polls : TimerPoll(p, t))
  /\ \A c \in Chains : WF_txVars(subject = "monitor" /\ NewBlock(c))
  /\ \A e \in Entries :
       /\ WF_txVars(subject = "monitor" /\ BackoffEnds(e))
       /\ WF_txVars(subject = "monitor" /\ FiveMinutes(e))
  /\ \A p \in Polls :
       /\ WF_txVars(subject = "monitor" /\ PollStep(p))
       /\ SF_txVars(subject = "monitor" /\ ReceiptAnswer(p))
       /\ \A c \in Chains : SF_txVars(subject = "monitor" /\ HandleReceipt(p, head[c]))
LiveSpec == SuiteSpec /\ KeysFair /\ SessionFair /\ MonitorFair
=============================================================================
