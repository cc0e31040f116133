-------------------------- MODULE MCSessionManager --------------------------
(* Two wallet sessions over two chains, two calls of the app per page. *)
EXTENDS SessionManager

CONSTANTS s1, s2, n1, n2, b1, b2, c1, c2

Symmetry == Permutations(Sessions) \cup Permutations(Chains) \cup Permutations(Calls)

\* A bundle object is known by what refers to it.  Of one the manager no longer has,
\* only a switch of chain reads more than whose session it is.  What was granted to a
\* session makes no difference once no data is left that names it, nor what the
\* connector would pass on of a session that has ended, nor an id that is active
\* although its bundle is gone.
View ==
  LET live == {bundles[s] : s \in Sessions} \ {None}
      switching == {target[c] : c \in {d \in Calls : pc[d] \in {"switching", "fees"}}}
      objects == live \cup subscribers \cup switching
      data == {stored} \cup {read[c] : c \in Calls} \cup {heap[b] : b \in objects}
      named == {d.session : d \in data \ {None}}
      unused == {s \in Sessions \ named : wallet[s] = "ended" \/ (wallet[s] = "live" /\ s # lastSession)}
      over == lastSession # None /\ wallet[lastSession] = "ended"
      users(b) == {c \in Calls : target[c] = b}
      left == {c \in Calls : target[c] \notin objects \cup {None}}
  IN  <<[s \in Sessions \ unused |-> <<wallet[s], granted[s] \cup taken[s], taken[s]>>],
        IF over THEN None ELSE <<lastSession, holder = None>>,
        {<<heap[b], b \in live, users(b), b = holder /\ ~over, b \in subscribers, b \in unheard>> : b \in objects},
        [c \in left |-> {heap[target[c]].session} \ unused],
        {<<b \in objects \/ users(b) # {}, b = holder>> : b \in Bundles},
        IF ActiveBundle = None THEN None ELSE activeBundleId, byAge, registered, connecting, stored, pc,
        [c \in {d \in Calls : pc[d] # "fees"} |-> chain[c]], read, overtaken, reloads>>
=============================================================================
