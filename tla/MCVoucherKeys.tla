--------------------------- MODULE MCVoucherKeys ---------------------------
(* Two tabs, one call in each, and two keys in the array they both rewrite. *)
EXTENDS VoucherKeys, TLC

CONSTANTS c1, c2, k1, k2, t1, t2, s1

MCTabOf == [c \in {c1, c2} |-> IF c = c1 THEN t1 ELSE t2]

\* The policy stops at 2, below the deposit of 3; it expires when the clock moves.
MCPolicies ==
  {[price |-> 1, maxCumulative |-> 2, maxDelta |-> 2, expiry |-> 1]}

\* Keys are interchangeable, and so are the tabs, each with its call.
SwapTabs == (c1 :> c2) @@ (c2 :> c1) @@ (t1 :> t2) @@ (t2 :> t1)
Symmetry == Permutations({k1, k2}) \cup {SwapTabs}
=============================================================================
