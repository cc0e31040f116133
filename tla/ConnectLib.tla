------------------------------ MODULE ConnectLib ------------------------------
(* What the component modules share: the value of a variable that is          *)
(* undefined or null in the code, and the task of an async function.          *)
EXTENDS Naturals, FiniteSets, Sequences
CONSTANT None

\* An async function between its call and its end is a record with the step it
\* awaits ("pc") and what it captured; Idle is the task of no call.
Idle == [pc |-> "idle"]

\* value ?? default.
Given(value, default) == IF value = None THEN default ELSE value

\* list.filter((other) => other !== member), in the order of the list.
Excluding(list, member) ==
  LET kept[i \in 0..Len(list)] ==
        IF i = 0 THEN <<>>
        ELSE IF list[i] = member THEN kept[i - 1] ELSE Append(kept[i - 1], list[i])
  IN kept[Len(list)]
===============================================================================
