------------------------------ MODULE UserOperations ------------------------------
(* ERC-4337 user operations (core/account-abstraction): sendUserOperation() reads   *)
(* the account's code, nonce and fees, asks a paymaster and the bundler for gas,    *)
(* checks the policy, signs and sends; a receipt is polled for afterwards. Several  *)
(* operations of one account are built at a time, the bundler includes them in any  *)
(* order, and an answer may be lost. Gas is counted in small units.                 *)
EXTENDS ConnectLib, Integers

CONSTANTS Ops,       \* calls of sendUserOperation, each used once
          AaVersions, \* of the chain's EntryPoint: a subset of {"0.6", "0.7"}
          MaxGas,    \* bound: the largest gas limit any party names
          PolicyGas, \* policy.maxGasPerUserOp, or None
          MaxPolls,  \* maxRetries of a receipt
          MaxSponsored \* bound: operations that ask for a paymaster

VARIABLES aaVersion, account, \* the chain: EntryPoint version; [deployed, nonce]
          opTasks,            \* running calls
          mempool, included   \* at the bundler: operations received; those executed
opVars == <<aaVersion, account, opTasks, mempool, included>>

Gas == 0..MaxGas
MaybeGas == Gas \union {None}
StubData == [verification : Gas, postOp : MaybeGas, final : BOOLEAN]
ASSUME OpsAssumption ==
  /\ MaxGas \in Nat /\ MaxPolls \in Nat /\ PolicyGas \in Nat \union {None}
  /\ None \notin Nat \union StubData
OpInit ==
  /\ aaVersion \in AaVersions /\ account \in [deployed : BOOLEAN, nonce : {0}]
  /\ opTasks = [c \in Ops |-> [pc |-> "new"]] /\ mempool = {} /\ included = {}

OpAt(c, pc) == opTasks[c].pc = pc
Awaits(c, pc, t) == opTasks' = [opTasks EXCEPT ![c] = [t EXCEPT !.pc = pc]]
OpFails(c) == opTasks' = [opTasks EXCEPT ![c] = [pc |-> "failed"]]
AtBundler == <<mempool, included>>

(* ------------------------------------------------------------ sendUserOperation *)
\* Whether the account has code, unless the deployment is skipped: then initCode.
Sponsored(t) == t.pc \notin {"new", "failed", "polling", "timed out", "executed"} /\ t.sponsored
InitCode(skip) == ~skip /\ ~account.deployed
ReadsCode(c, sponsored, skip) ==
  /\ OpAt(c, "new")
  /\ sponsored => Cardinality({d \in Ops : Sponsored(opTasks[d])}) < MaxSponsored
  /\ opTasks' = [opTasks EXCEPT ![c] =
       [pc |-> "nonce", op |-> c, sponsored |-> sponsored, init |-> InitCode(skip),
        nonce |-> None, gas |-> None, stub |-> None]]
  /\ UNCHANGED <<aaVersion, account, AtBundler>>
ReadsNonce(c) ==
  /\ OpAt(c, "nonce") /\ Awaits(c, "fees", [opTasks[c] EXCEPT !.nonce = account.nonce])
  /\ UNCHANGED <<aaVersion, account, AtBundler>>
\* The price is the caller's or twice the base fee and the tip, never below the tip.
MaxFee(override, base, tip) == IF override = None THEN 2 * base + tip ELSE override
AsksPaymaster(t) == t.sponsored
ReadsFees(c, override, base, tip) ==
  /\ OpAt(c, "fees")
  /\ IF tip > MaxFee(override, base, tip) THEN OpFails(c)
     ELSE Awaits(c, IF AsksPaymaster(opTasks[c]) THEN "stub" ELSE "estimate", opTasks[c])
  /\ UNCHANGED <<aaVersion, account, AtBundler>>
\* packStandardPaymasterResult(): a v0.7 stub must name the gas of postOp; a
\* field that is missing is that of the earlier data, and verification then 0.
Packed(answer, prior) ==
  [verification |-> Given(answer.verification, IF prior = None THEN 0 ELSE prior.verification),
   postOp |-> Given(answer.postOp, IF prior = None THEN None ELSE prior.postOp),
   final |-> answer.final]
Packs(data) == aaVersion = "0.6" \/ data.postOp # None
PaymasterStub(c, answer) ==
  /\ OpAt(c, "stub")
  /\ LET data == Packed(answer, None)
     IN IF Packs(data) THEN Awaits(c, "estimate", [opTasks[c] EXCEPT !.stub = data]) ELSE OpFails(c)
  /\ UNCHANGED <<aaVersion, account, AtBundler>>
\* The bundler estimates the operation with its stub; an override of the caller
\* comes first. The estimate of a v0.7 paymaster replaces the stub's, final or not.
GasLimits(override, est) == [call |-> Given(override, est.call), account |-> est.account, pre |-> est.pre]
Estimated(c, override, est) ==
  /\ OpAt(c, "estimate")
  /\ LET t == opTasks[c]
         stub == IF t.stub = None \/ aaVersion = "0.6" \/ est.paymaster = None THEN t.stub
                 ELSE [t.stub EXCEPT !.verification = est.paymaster]
     IN Awaits(c, IF stub = None \/ stub.final THEN "policy" ELSE "paymaster",
               [t EXCEPT !.gas = GasLimits(override, est), !.stub = stub])
  /\ UNCHANGED <<aaVersion, account, AtBundler>>
PaymasterFinal(c, answer) ==
  /\ OpAt(c, "paymaster")
  /\ Awaits(c, "policy", [opTasks[c] EXCEPT !.stub = Packed(answer, opTasks[c].stub)])
  /\ UNCHANGED <<aaVersion, account, AtBundler>>
OpRejected(c) ==
  /\ opTasks[c].pc \in {"nonce", "fees", "stub", "estimate", "paymaster", "signing"} /\ OpFails(c)
  /\ UNCHANGED <<aaVersion, account, AtBundler>>

\* What a v0.7 operation names for its paymaster; that of v0.6 is opaque bytes.
PaymasterGas(t) ==
  IF t.stub = None \/ aaVersion = "0.6" THEN 0 ELSE t.stub.verification + t.stub.postOp
\* A mutant of TotalGas: the paymaster's fields are not summed.
Bad_TotalGas(t) == t.gas.call + t.gas.account + t.gas.pre
\* POLICY_GAS_FIELDS, summed by assertGasWithinPolicy().
TotalGas(t) == t.gas.call + t.gas.account + t.gas.pre + PaymasterGas(t)
\* A policy is that of the paymaster configuration.
GasChecked(c) ==
  /\ OpAt(c, "policy")
  /\ IF opTasks[c].sponsored /\ PolicyGas # None /\ TotalGas(opTasks[c]) > PolicyGas
     THEN OpFails(c) ELSE Awaits(c, "signing", opTasks[c])
  /\ UNCHANGED <<aaVersion, account, AtBundler>>
OpSigned(c) ==
  /\ OpAt(c, "signing") /\ Awaits(c, "sending", opTasks[c]) /\ UNCHANGED <<aaVersion, account, AtBundler>>
\* serializeUserOperationForRpc(), with every limit it names in one sum.
Serialized(t) ==
  [op |-> t.op, nonce |-> t.nonce, init |-> t.init, sponsored |-> t.sponsored,
   gas |-> t.gas.call + t.gas.account + t.gas.pre
           + (IF t.stub = None \/ aaVersion = "0.6" THEN 0 ELSE t.stub.verification + t.stub.postOp)]
\* sendUserOpToBundler(): received and answered, or received and the answer lost,
\* or lost itself.
OpSent(c, received, answered) ==
  /\ OpAt(c, "sending")
  /\ mempool' = IF received THEN mempool \union {Serialized(opTasks[c])} ELSE mempool
  /\ IF received /\ answered
     THEN opTasks' = [opTasks EXCEPT ![c] = [pc |-> "polling", left |-> MaxPolls]] ELSE OpFails(c)
  /\ UNCHANGED <<aaVersion, account, included>>

(* -------------------------------------------------------- receipts and the chain *)
\* A mutant of IsReceiptOf: any receipt the bundler answers with is taken.
Bad_IsReceiptOf(c, op) == TRUE
IsReceiptOf(c, op) == op = c
\* A poll: nothing yet or a transport failure, tried again; the receipt of some
\* operation, which ends the polling whether it is the right one or not.
Polled(c, answer) ==
  /\ OpAt(c, "polling") /\ answer \in {None} \union {o.op : o \in included}
  /\ opTasks' = [opTasks EXCEPT ![c] =
       IF answer = None
       THEN IF @.left > 1 THEN [pc |-> "polling", left |-> @.left - 1] ELSE [pc |-> "timed out"]
       ELSE [pc |-> IF IsReceiptOf(c, answer) THEN "executed" ELSE "failed"]]
  /\ UNCHANGED <<aaVersion, account, AtBundler>>
\* The EntryPoint runs an operation with its nonce, and creates an account once.
Included(o) ==
  /\ o \in mempool /\ o.nonce = account.nonce /\ o.init # account.deployed
  /\ account' = [deployed |-> TRUE, nonce |-> account.nonce + 1]
  /\ included' = included \union {o} /\ mempool' = mempool \ {o} /\ UNCHANGED <<aaVersion, opTasks>>

OpNext ==
  \/ \E o \in mempool : Included(o)
  \/ \E c \in Ops :
       \/ ReadsNonce(c) \/ OpRejected(c) \/ GasChecked(c) \/ OpSigned(c)
       \/ \E sponsored \in BOOLEAN, skip \in BOOLEAN : ReadsCode(c, sponsored, skip)
       \/ \E override \in MaybeGas, base \in Gas, tip \in Gas : ReadsFees(c, override, base, tip)
       \/ \E verification \in MaybeGas, postOp \in MaybeGas, final \in BOOLEAN :
            LET answer == [verification |-> verification, postOp |-> postOp, final |-> final]
            IN PaymasterStub(c, answer) \/ (final /\ PaymasterFinal(c, answer))
       \/ \E override \in MaybeGas, paymaster \in MaybeGas, limit \in Gas : \* bound: one limit for all three
            Estimated(c, override, [call |-> limit, account |-> limit, pre |-> limit, paymaster |-> paymaster])
       \/ \E received \in BOOLEAN, answered \in BOOLEAN : OpSent(c, received, answered)
       \/ \E answer \in Ops \union {None} : Polled(c, answer)

(* ------------------------------------------------------------------ properties *)
OpTypeOK ==
  /\ account \in [deployed : BOOLEAN, nonce : Nat] /\ aaVersion \in AaVersions
  /\ \A o \in mempool \union included : o.op \in Ops /\ o.nonce \in Nat /\ o.gas \in Nat

\* A sponsored operation the bundler holds is within the policy, whoever named
\* each limit last: the caller, the stub, the estimate or the final data
\* ("Refuse, before signing, a total gas limit above the policy maximum").
WithinGasPolicy ==
  PolicyGas # None => \A o \in mempool \union included : o.sponsored => o.gas <= PolicyGas

\* A caller is told that its operation was executed only if it was, also when
\* another operation took its nonce and the bundler answers with that one.
ReportedWasExecuted == \A c \in Ops : OpAt(c, "executed") => \E o \in included : o.op = c
===================================================================================
