--------------------------- MODULE VoucherBudget ---------------------------
(***************************************************************************)
(* What a channel voucher key promises, whatever the managers, tabs,       *)
(* locks, crashes and failed writes underneath: an account per key whose   *)
(* spent amount only grows, never beyond the channel's budget, and         *)
(* vouchers that each pay for an interval of it nobody else pays for.      *)
(* VoucherKeys (the manager and its storage) is shown to implement this.   *)
(***************************************************************************)
EXTENDS Naturals, Sequences

CONSTANTS
  Keys,     \* voucher key ids
  Callers,  \* who may ask for a voucher
  Budgets,  \* what a channel may let a key spend: positive amounts
  Nobody    \* no voucher in a caller's hands

VARIABLES
  account,   \* account[k]: state, budget and spent amount of key k
  hand,      \* hand[c]: voucher signed for caller c and not yet handed over
  delivered  \* vouchers handed over, in order

vars == <<account, hand, delivered>>

State == {"absent", "unbound", "open", "revoked"}

Voucher == [key: Keys, from: Nat, to: Nat]

Closed == [state |-> "absent", budget |-> 0, spent |-> 0]

Init ==
  /\ account = [k \in Keys |-> Closed]
  /\ hand = [c \in Callers |-> Nobody]
  /\ delivered = <<>>

Create(k) ==
  /\ account[k].state = "absent"
  /\ account' = [account EXCEPT ![k].state = "unbound"]
  /\ UNCHANGED <<hand, delivered>>

\* A channel gives the key its budget, once. A revoked key may still be bound.
Bind(k) ==
  /\ account[k].budget = 0
  /\ account[k].state \in {"unbound", "revoked"}
  /\ \E b \in Budgets :
       account' = [account EXCEPT ![k] =
                     [state |-> IF @.state = "unbound" THEN "open" ELSE @.state,
                      budget |-> b, spent |-> @.spent]]
  /\ UNCHANGED <<hand, delivered>>

\* The account is debited in the same step that makes the voucher exist.
Spend(c, k) ==
  /\ account[k].state = "open"
  /\ hand[c] = Nobody
  /\ \E to \in (account[k].spent + 1) .. account[k].budget :
       /\ account' = [account EXCEPT ![k].spent = to]
       /\ hand' = [hand EXCEPT ![c] =
                     [key |-> k, from |-> account[k].spent, to |-> to]]
  /\ UNCHANGED delivered

HandOver(c) ==
  /\ hand[c] # Nobody
  /\ delivered' = Append(delivered, hand[c])
  /\ hand' = [hand EXCEPT ![c] = Nobody]
  /\ UNCHANGED account

\* A crash or a failed write loses signed vouchers; the account stays debited.
Lose ==
  /\ \E S \in SUBSET Callers :
       hand' = [c \in Callers |-> IF c \in S THEN Nobody ELSE hand[c]]
  /\ UNCHANGED <<account, delivered>>

Revoke(k) ==
  /\ account[k].state # "absent"
  /\ account' = [account EXCEPT ![k].state = "revoked"]
  /\ UNCHANGED <<hand, delivered>>

Next ==
  \/ \E k \in Keys : Create(k) \/ Bind(k) \/ Revoke(k)
  \/ \E c \in Callers, k \in Keys : Spend(c, k)
  \/ \E c \in Callers : HandOver(c)
  \/ Lose

Spec == Init /\ [][Next]_vars
=============================================================================
