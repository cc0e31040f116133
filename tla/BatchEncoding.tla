-------------------------------- MODULE BatchEncoding --------------------------------
(* The calldata of a smart account (core/account-abstraction): execute() for one      *)
(* call, executeBatch() for several, with the ABI's offsets computed by hand, against *)
(* the decoder of the contract. A word is 32 bytes: a number, or a part of a call.    *)
EXTENDS ConnectLib, Integers, SequencesExt

CONSTANTS Targets,   \* call targets
          Lengths,   \* bytes of call data
          MaxBatchCalls \* bound: calls of a batch

VARIABLES abiVersion, abiCalls \* of the account; the calls to encode
abiVars == <<abiVersion, abiCalls>>
ASSUME BatchAssumption == MaxBatchCalls \in Nat /\ Lengths \subseteq Nat

AbiCall == [to : Targets, value : 0..1, bytes : Lengths]
AbiInit == abiVersion \in {"0.6", "0.7"} /\ abiCalls = <<>>
AddCall(call) ==
  /\ Len(abiCalls) < MaxBatchCalls /\ abiCalls' = Append(abiCalls, call) /\ UNCHANGED abiVersion
AbiNext == \E call \in AbiCall : AddCall(call)

(* --------------------------------------------------------------------- encoding *)
\* Bytes are their length and their words, the last one padded.
Bytes(calls, i) == <<calls[i].bytes>> \o [k \in 1..((calls[i].bytes + 31) \div 32) |-> <<"data", i, k>>]
\* A mutant of Offset: counted from the first bytes, not from the offsets before them.
Bad_Offset(calls, i) == 32 * SumFunction([j \in 1..(i - 1) |-> Len(Bytes(calls, j))])
\* Where the bytes of a call begin, after the array's own length.
Offset(calls, i) == 32 * (Len(calls) + SumFunction([j \in 1..(i - 1) |-> Len(Bytes(calls, j))]))
ArrayOf(words) == <<Len(words)>> \o words
TargetsOf(calls) == ArrayOf([i \in DOMAIN calls |-> calls[i].to])
ValuesOf(calls) == ArrayOf([i \in DOMAIN calls |-> calls[i].value])
DatasOf(calls) ==
  ArrayOf([i \in DOMAIN calls |-> Offset(calls, i)]) \o FlattenSeq([i \in DOMAIN calls |-> Bytes(calls, i)])
EncodeExecute(calls) == <<calls[1].to, calls[1].value, 96>> \o Bytes(calls, 1)
EncodeBatchV07(calls) ==
  LET array == 32 + Len(calls) * 32
  IN <<96, 96 + array, 96 + array + array>> \o TargetsOf(calls) \o ValuesOf(calls) \o DatasOf(calls)
EncodeBatchV06(calls) ==
  <<64, 64 + 32 + Len(calls) * 32>> \o TargetsOf(calls) \o DatasOf(calls)
\* buildCallData(): v0.6 batches carry no value; no calls are refused.
Encodable(calls) ==
  /\ calls # <<>>
  /\ abiVersion = "0.7" \/ Len(calls) = 1 \/ \A i \in DOMAIN calls : calls[i].value = 0
CallData(calls) ==
  IF Len(calls) = 1 THEN EncodeExecute(calls)
  ELSE IF abiVersion = "0.6" THEN EncodeBatchV06(calls) ELSE EncodeBatchV07(calls)

(* ------------------------------------------------------- the contract's decoder *)
\* A read past the calldata gives None.
WordAt(words, offset) == IF offset \div 32 < Len(words) THEN words[offset \div 32 + 1] ELSE None
ArrayAt(words, offset) == [i \in 1..WordAt(words, offset) |-> WordAt(words, offset + 32 * i)]
BytesAt(words, offset) ==
  [k \in 1..((WordAt(words, offset) + 31) \div 32) |-> WordAt(words, offset + 32 * k)]
\* What executes: targets, values, and the length and words of each call's data.
AbiDecoded(words, single) ==
  IF single
  THEN << [to |-> words[1], value |-> words[2], bytes |-> WordAt(words, words[3]), data |-> BytesAt(words, words[3])] >>
  ELSE LET datas == IF abiVersion = "0.6" THEN words[2] ELSE words[3]
           to == ArrayAt(words, words[1])
           at(i) == datas + 32 + WordAt(words, datas + 32 * i)
       IN [i \in DOMAIN to |->
            [to |-> to[i], value |-> IF abiVersion = "0.6" THEN 0 ELSE ArrayAt(words, words[2])[i],
             bytes |-> WordAt(words, at(i)), data |-> BytesAt(words, at(i))]]

(* ------------------------------------------------------------------ properties *)
AbiTypeOK == abiCalls \in Seq(AbiCall) /\ Len(abiCalls) <= MaxBatchCalls
\* The contract executes exactly the calls that were asked for: every target and
\* value, and every byte of data at the offset written for it, whatever lengths
\* share a batch (executeBatch(address[],uint256[],bytes[])).
BatchDecodes ==
  Encodable(abiCalls) =>
    AbiDecoded(CallData(abiCalls), Len(abiCalls) = 1) =
      [i \in DOMAIN abiCalls |->
        [to |-> abiCalls[i].to, value |-> abiCalls[i].value, bytes |-> abiCalls[i].bytes, data |-> Tail(Bytes(abiCalls, i))]]
======================================================================================
