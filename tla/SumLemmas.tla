------------------------------- MODULE SumLemmas -------------------------------
(* Sums over finite sets, and the steps by which a recursion over sets or      *)
(* numbers is reasoned about: the least number that fails does not exist.      *)
EXTENDS Functions, FiniteSets, FiniteSetTheorems, WellFoundedInduction, TLAPS

LEMMA LeastNat ==
  ASSUME NEW T, T \subseteq Nat, T # {}
  PROVE  \E n \in T : \A m \in T : n <= m
<1> DEFINE R == {p \in Nat \X Nat : p[1] < p[2]}
<1>1. IsWellFoundedOn(R, Nat)
  BY NatLessThanWellFounded DEF OpToRel
<1>2. \A x, y \in Nat : x < y => <<x, y>> \in R
  OBVIOUS
<1> HIDE DEF R
<1>3. PICK n \in T : \A m \in T : <<m, n>> \notin R
  BY <1>1, WFMin
<1>4. ASSUME NEW m \in T
      PROVE  n <= m
  <2>1. n \in Nat /\ m \in Nat /\ ~(m < n)
    BY <1>2, <1>3
  <2> QED
    BY <2>1
<1> QED
  BY <1>4

\* A property of natural numbers that steps from n to n + 1.
LEMMA NatSteps ==
  ASSUME NEW P, 0 \in P, \A n \in Nat : n \in P => n + 1 \in P
  PROVE  Nat \subseteq P
<1> SUFFICES ASSUME Nat \ P # {} PROVE FALSE
  OBVIOUS
<1>1. PICK n \in Nat \ P : \A m \in Nat \ P : n <= m
  BY LeastNat
<1>2. n # 0 /\ n - 1 \in Nat
  BY <1>1
<1>3. n - 1 \in P
  BY <1>1, <1>2
<1>4. (n - 1) + 1 = n
  BY <1>2
<1> QED
  BY <1>1, <1>2, <1>3, <1>4

\* SumFunction, and the recursion it stands for.
Pick(s) == CHOOSE x \in s : TRUE
Sums(g, s, it) == IF s = {} THEN 0 ELSE g[Pick(s)] + it[s \ {Pick(s)}]
Iter(g, S) == CHOOSE it : it = [s \in SUBSET S |-> Sums(g, s, it)]
SmallSets(S, n) == {s \in SUBSET S : Cardinality(s) <= n}

LEMMA SumIter ==
  ASSUME NEW g
  PROVE  SumFunction(g) = Iter(g, DOMAIN g)[DOMAIN g]
BY DEF SumFunction, SumFunctionOnSet, FoldFunctionOnSet, MapThenFoldSet, Iter, Sums, Pick

LEMMA PickIn ==
  ASSUME NEW s, s # {}
  PROVE  Pick(s) \in s
BY DEF Pick

LEMMA PickSmaller ==
  ASSUME NEW S, IsFiniteSet(S), NEW n \in Nat, NEW s \in SmallSets(S, n + 1), s # {}
  PROVE  s \ {Pick(s)} \in SmallSets(S, n)
<1>1. s \in SUBSET S /\ Cardinality(s) <= n + 1 /\ IsFiniteSet(s)
  BY FS_Subset DEF SmallSets
<1>2. Cardinality(s) \in Nat /\ Cardinality(s \ {Pick(s)}) = Cardinality(s) - 1
  BY <1>1, PickIn, FS_RemoveElement, FS_CardinalityType
<1> QED
  BY <1>1, <1>2 DEF SmallSets

\* A function that follows the recursion for the sets of at most n elements.
IterUpTo(g, S, n, it) ==
  it \in [SmallSets(S, n) -> Nat] /\ \A s \in SmallSets(S, n) : it[s] = Sums(g, s, it)

LEMMA IterExists ==
  ASSUME NEW S, IsFiniteSet(S), NEW g \in [S -> Nat]
  PROVE  /\ Iter(g, S) \in [SUBSET S -> Nat]
         /\ \A s \in SUBSET S : Iter(g, S)[s] = Sums(g, s, Iter(g, S))
<1> DEFINE P == {n \in Nat : \E it : IterUpTo(g, S, n, it)}
<1>1. 0 \in P
  <2> DEFINE it == [s \in SmallSets(S, 0) |-> 0]
  <2>1. \A s \in SmallSets(S, 0) : s = {}
    BY FS_Subset, FS_EmptySet, FS_CardinalityType DEF SmallSets
  <2>2. IterUpTo(g, S, 0, it)
    BY <2>1 DEF Sums, IterUpTo
  <2> QED
    BY <2>2
<1>2. ASSUME NEW n \in Nat, n \in P
      PROVE  n + 1 \in P
  <2>1. PICK old : IterUpTo(g, S, n, old)
    BY <1>2
  <2> DEFINE it == [s \in SmallSets(S, n + 1) |-> Sums(g, s, old)]
  <2>2. ASSUME NEW s \in SmallSets(S, n + 1), s # {}
        PROVE  s \ {Pick(s)} \in SmallSets(S, n) /\ Pick(s) \in S
    BY <2>2, PickSmaller, PickIn DEF SmallSets
  <2>3. it \in [SmallSets(S, n + 1) -> Nat]
    BY <2>1, <2>2 DEF Sums, IterUpTo
  <2>4. SmallSets(S, n) \subseteq SmallSets(S, n + 1)
  <3>1. \A s \in SUBSET S : Cardinality(s) \in Nat
    BY FS_Subset, FS_CardinalityType
  <3> QED
    BY <3>1 DEF SmallSets
  <2>5. \A s \in SmallSets(S, n) : it[s] = old[s]
    BY <2>1, <2>4 DEF IterUpTo
  <2>6. \A s \in SmallSets(S, n + 1) : it[s] = Sums(g, s, it)
    <3> SUFFICES ASSUME NEW s \in SmallSets(S, n + 1)
        PROVE  it[s] = Sums(g, s, it)
      OBVIOUS
    <3>1. s # {} => it[s \ {Pick(s)}] = old[s \ {Pick(s)}]
      BY <2>2, <2>5
    <3>2. it[s] = Sums(g, s, old)
      OBVIOUS
    <3> HIDE DEF it
    <3> QED
      BY <3>1, <3>2 DEF Sums
  <2>7. IterUpTo(g, S, n + 1, it)
    BY <2>3, <2>6 DEF IterUpTo
  <2> QED
    BY <2>7
<1>3. Nat \subseteq P
  <2> HIDE DEF P
  <2> QED
    BY <1>1, <1>2, NatSteps
<1>4. Cardinality(S) \in Nat /\ SmallSets(S, Cardinality(S)) = SUBSET S
  BY FS_Subset, FS_CardinalityType DEF SmallSets
<1>5. PICK it : IterUpTo(g, S, Cardinality(S), it)
  BY <1>3, <1>4
<1>6. it = [s \in SUBSET S |-> Sums(g, s, it)]
  BY <1>4, <1>5 DEF IterUpTo
<1>7. Iter(g, S) = [s \in SUBSET S |-> Sums(g, s, Iter(g, S))]
  BY <1>6 DEF Iter
<1>8. \A s \in SUBSET S : Iter(g, S)[s] = Sums(g, s, Iter(g, S))
  BY <1>7
<1> DEFINE Q == {n \in Nat : \A s \in SmallSets(S, n) : Iter(g, S)[s] \in Nat}
<1> HIDE DEF P
<1>9. 0 \in Q
  <2>1. \A s \in SmallSets(S, 0) : s = {}
    BY FS_Subset, FS_EmptySet, FS_CardinalityType DEF SmallSets
  <2> QED
    BY <2>1, <1>8 DEF Sums, SmallSets
<1>10. ASSUME NEW n \in Nat, n \in Q
       PROVE  n + 1 \in Q
  <2> SUFFICES ASSUME NEW s \in SmallSets(S, n + 1)
      PROVE  Iter(g, S)[s] \in Nat
    OBVIOUS
  <2>1. s \in SUBSET S
    BY DEF SmallSets
  <2>2. CASE s = {}
    <3>1. Iter(g, S)[s] = Sums(g, s, Iter(g, S)) /\ Sums(g, s, Iter(g, S)) = 0
      BY <1>8, <2>1, <2>2, Zenon DEF Sums
    <3> QED
      BY <3>1
  <2>3. CASE s # {}
    <3>1. s \ {Pick(s)} \in SmallSets(S, n) /\ Pick(s) \in s
      BY <2>3, PickSmaller, PickIn
    <3>2. g[Pick(s)] \in Nat /\ Iter(g, S)[s \ {Pick(s)}] \in Nat
      BY <1>10, <2>1, <3>1
    <3>3. Iter(g, S)[s] = g[Pick(s)] + Iter(g, S)[s \ {Pick(s)}]
      BY <1>8, <2>1, <2>3, Zenon DEF Sums
    <3> QED
      BY <3>2, <3>3
  <2> QED
    BY <2>2, <2>3
<1>11. Nat \subseteq Q
  <2> HIDE DEF Q
  <2> QED
    BY <1>9, <1>10, NatSteps
<1>12. \A s \in SUBSET S : Iter(g, S)[s] \in Nat
  BY <1>4, <1>11
<1> QED
  BY <1>7, <1>8, <1>12

LEMMA SumNat ==
  ASSUME NEW S, IsFiniteSet(S), NEW g \in [S -> Nat]
  PROVE  SumFunction(g) \in Nat
<1>1. Iter(g, S) \in [SUBSET S -> Nat] /\ S \in SUBSET S
  BY IterExists
<1>2. Iter(g, S)[S] \in Nat
  BY <1>1
<1> QED
  BY <1>2, SumIter

\* A sum changes by what the one value that changes does.
LEMMA SumChanges ==
  ASSUME NEW S, IsFiniteSet(S), NEW g \in [S -> Nat], NEW h \in [S -> Nat], NEW x \in S,
         \A y \in S : y # x => h[y] = g[y]
  PROVE  SumFunction(h) + g[x] = SumFunction(g) + h[x]
<1> DEFINE G == Iter(g, S)
           H == Iter(h, S)
           Moved(s) == H[s] + (IF x \in s THEN g[x] ELSE 0) = G[s] + (IF x \in s THEN h[x] ELSE 0)
           Q == {n \in Nat : \A s \in SmallSets(S, n) : Moved(s)}
<1>1. /\ G \in [SUBSET S -> Nat] /\ H \in [SUBSET S -> Nat]
      /\ \A s \in SUBSET S : G[s] = Sums(g, s, G) /\ H[s] = Sums(h, s, H)
  BY IterExists
<1> HIDE DEF G, H
<1>2. 0 \in Q
  <2>1. \A s \in SmallSets(S, 0) : s = {} /\ s \in SUBSET S
    BY FS_Subset, FS_EmptySet, FS_CardinalityType DEF SmallSets
  <2>2. \A s \in SmallSets(S, 0) : Moved(s)
    BY <1>1, <2>1 DEF Sums
  <2> HIDE DEF Moved
  <2> QED
    BY <2>2
<1>3. ASSUME NEW n \in Nat, n \in Q
      PROVE  n + 1 \in Q
  <2>1. ASSUME NEW s \in SmallSets(S, n + 1)
        PROVE  Moved(s)
    <3>1. s \in SUBSET S
      BY DEF SmallSets
    <3>2. CASE s = {}
      BY <1>1, <3>1, <3>2 DEF Sums
    <3>3. CASE s # {}
      <4> DEFINE p == Pick(s)
                 t == s \ {p}
      <4>1. p \in s /\ p \in S /\ t \in SmallSets(S, n) /\ t \in SUBSET S
        BY <3>1, <3>3, PickSmaller, PickIn
      <4>2. Moved(t)
        BY <1>3, <4>1
      <4>3. G[s] = g[p] + G[t] /\ H[s] = h[p] + H[t]
        BY <1>1, <3>1, <3>3 DEF Sums
      <4>4. /\ g[p] \in Nat /\ h[p] \in Nat /\ G[t] \in Nat /\ H[t] \in Nat
            /\ g[x] \in Nat /\ h[x] \in Nat
        BY <1>1, <4>1
      <4>5. x \in s <=> x = p \/ x \in t
        BY <4>1
      <4>6. x = p => x \notin t
        OBVIOUS
      <4>7. x # p => h[p] = g[p]
        BY <4>1
      <4> HIDE DEF p, t
      <4> QED
        BY <4>2, <4>3, <4>4, <4>5, <4>6, <4>7
    <3> QED
      BY <3>2, <3>3
  <2> HIDE DEF Moved
  <2> QED
    BY <2>1
<1>4. Nat \subseteq Q
  <2> HIDE DEF Q
  <2> QED
    BY <1>2, <1>3, NatSteps
<1>5. Moved(S)
  <2>1. Cardinality(S) \in Nat /\ S \in SmallSets(S, Cardinality(S))
    BY FS_CardinalityType DEF SmallSets
  <2> HIDE DEF Moved
  <2> QED
    BY <1>4, <2>1
<1> QED
  BY <1>5, SumIter DEF G, H

LEMMA ZeroesSum ==
  ASSUME NEW S, IsFiniteSet(S)
  PROVE  SumFunction([x \in S |-> 0]) = 0
<1> DEFINE g == [x \in S |-> 0]
           G == Iter(g, S)
           Q == {n \in Nat : \A s \in SmallSets(S, n) : G[s] = 0}
<1>1. g \in [S -> Nat] /\ \A x \in S : g[x] = 0
  OBVIOUS
<1> HIDE DEF g
<1>2. \A s \in SUBSET S : G[s] = Sums(g, s, G)
  BY <1>1, IterExists
<1> HIDE DEF G
<1>3. 0 \in Q
  <2>1. \A s \in SmallSets(S, 0) : s = {} /\ s \in SUBSET S
    BY FS_Subset, FS_EmptySet, FS_CardinalityType DEF SmallSets
  <2>2. \A s \in SmallSets(S, 0) : G[s] = 0
    BY <1>2, <2>1 DEF Sums
  <2> QED
    BY <2>2
<1>4. ASSUME NEW n \in Nat, n \in Q
      PROVE  n + 1 \in Q
  <2>1. ASSUME NEW s \in SmallSets(S, n + 1)
        PROVE  G[s] = 0
    <3>1. s \in SUBSET S
      BY DEF SmallSets
    <3>2. CASE s = {}
      BY <1>2, <3>1, <3>2 DEF Sums
    <3>3. CASE s # {}
      <4>1. s \ {Pick(s)} \in SmallSets(S, n) /\ Pick(s) \in s
        BY <3>3, PickSmaller, PickIn
      <4>2. g[Pick(s)] = 0 /\ G[s \ {Pick(s)}] = 0
        BY <1>1, <1>4, <3>1, <4>1
      <4>3. G[s] = g[Pick(s)] + G[s \ {Pick(s)}]
        BY <1>2, <3>1, <3>3 DEF Sums
      <4> QED
        BY <4>2, <4>3
    <3> QED
      BY <3>2, <3>3
  <2> QED
    BY <2>1
<1>5. Nat \subseteq Q
  <2> HIDE DEF Q
  <2> QED
    BY <1>3, <1>4, NatSteps
<1>6. Cardinality(S) \in Nat /\ S \in SmallSets(S, Cardinality(S))
  BY FS_CardinalityType DEF SmallSets
<1> QED
  BY <1>5, <1>6, SumIter DEF G, g

\* Any element may be taken out first.
LEMMA TakeOut ==
  ASSUME NEW S, IsFiniteSet(S), NEW g \in [S -> Nat]
  PROVE  \A s \in SUBSET S : \A x \in s : Iter(g, S)[s] = g[x] + Iter(g, S)[s \ {x}]
<1> DEFINE G == Iter(g, S)
           Splits(s) == \A x \in s : G[s] = g[x] + G[s \ {x}]
           Q == {n \in Nat : \A s \in SmallSets(S, n) : Splits(s)}
<1>1. G \in [SUBSET S -> Nat] /\ \A s \in SUBSET S : G[s] = Sums(g, s, G)
  BY IterExists
<1> HIDE DEF G
<1>2. 0 \in Q
  <2>1. \A s \in SmallSets(S, 0) : s = {}
    BY FS_Subset, FS_EmptySet, FS_CardinalityType DEF SmallSets
  <2> QED
    BY <2>1
<1>3. ASSUME NEW n \in Nat, n \in Q
      PROVE  n + 1 \in Q
  <2>1. ASSUME NEW s \in SmallSets(S, n + 1), NEW x \in s
        PROVE  G[s] = g[x] + G[s \ {x}]
    <3> DEFINE p == Pick(s)
               t == s \ {p}
               u == s \ {x}
               v == s \ {p, x}
    <3>1. s \in SUBSET S /\ p \in s /\ t \in SmallSets(S, n)
      BY PickSmaller, PickIn DEF SmallSets
    <3>2. G[s] = g[p] + G[t]
      BY <1>1, <3>1, Zenon DEF Sums
    <3>3. CASE p = x
      BY <3>2, <3>3
    <3>4. CASE p # x
      <4>1. u \in SmallSets(S, n)
        <5>1. IsFiniteSet(s) /\ Cardinality(s) <= n + 1
          BY <3>1, FS_Subset DEF SmallSets
        <5>2. Cardinality(s) \in Nat /\ Cardinality(u) = Cardinality(s) - 1
          BY <5>1, FS_RemoveElement, FS_CardinalityType
        <5> QED
          BY <3>1, <5>1, <5>2 DEF SmallSets
      <4>2. G[t] = g[x] + G[t \ {x}] /\ G[u] = g[p] + G[u \ {p}]
        BY <1>3, <3>1, <3>4, <4>1
      <4>3. t \ {x} = v /\ u \ {p} = v
        OBVIOUS
      <4>4. g[p] \in Nat /\ g[x] \in Nat /\ G[v] \in Nat
        BY <1>1, <3>1
      <4> HIDE DEF p, t, u, v
      <4>5. G[s] = g[p] + (g[x] + G[v]) /\ G[u] = g[p] + G[v]
        BY <3>2, <4>2, <4>3
      <4>6. G[s] = g[x] + G[u]
        BY <4>4, <4>5
      <4> QED
        BY <4>6 DEF u
    <3> QED
      BY <3>3, <3>4
  <2> QED
    BY <2>1
<1>4. Nat \subseteq Q
  <2> HIDE DEF Q
  <2> QED
    BY <1>2, <1>3, NatSteps
<1>5. SUBSET S = SmallSets(S, Cardinality(S)) /\ Cardinality(S) \in Nat
  BY FS_Subset, FS_CardinalityType DEF SmallSets
<1>6. \A s \in SUBSET S : Splits(s)
  BY <1>4, <1>5
<1> QED
  BY <1>6 DEF G

LEMMA TakeOne ==
  ASSUME NEW S, IsFiniteSet(S), NEW g \in [S -> Nat], NEW x \in S
  PROVE  Iter(g, S)[S] = g[x] + Iter(g, S)[S \ {x}]
<1>1. \A s \in SUBSET S : \A y \in s : Iter(g, S)[s] = g[y] + Iter(g, S)[s \ {y}]
  BY TakeOut
<1>2. S \in SUBSET S
  OBVIOUS
<1> QED
  BY <1>1, <1>2, Zenon

\* On the subsets of a smaller set the recursion is that of the smaller set.
LEMMA SmallerIter ==
  ASSUME NEW T, IsFiniteSet(T), NEW h \in [T -> Nat], NEW S \in SUBSET T, NEW g \in [S -> Nat],
         \A y \in S : h[y] = g[y]
  PROVE  \A s \in SUBSET S : Iter(h, T)[s] = Iter(g, S)[s]
<1> DEFINE G == Iter(g, S)
           H == Iter(h, T)
           Q == {n \in Nat : \A s \in SmallSets(S, n) : H[s] = G[s]}
<1>1. IsFiniteSet(S)
  BY FS_Subset
<1>2. /\ \A s \in SUBSET S : G[s] = Sums(g, s, G)
      /\ \A s \in SUBSET S : H[s] = Sums(h, s, H)
  BY <1>1, IterExists
<1> HIDE DEF G, H
<1>3. 0 \in Q
  <2>1. \A s \in SmallSets(S, 0) : s = {} /\ s \in SUBSET S
    BY <1>1, FS_Subset, FS_EmptySet, FS_CardinalityType DEF SmallSets
  <2> QED
    BY <1>2, <2>1 DEF Sums
<1>4. ASSUME NEW n \in Nat, n \in Q
      PROVE  n + 1 \in Q
  <2>1. ASSUME NEW s \in SmallSets(S, n + 1)
        PROVE  H[s] = G[s]
    <3>1. s \in SUBSET S
      BY DEF SmallSets
    <3>2. CASE s = {}
      BY <1>2, <3>1, <3>2 DEF Sums
    <3>3. CASE s # {}
      <4>1. s \ {Pick(s)} \in SmallSets(S, n) /\ Pick(s) \in s
        BY <1>1, <3>3, PickSmaller, PickIn
      <4>2. h[Pick(s)] = g[Pick(s)] /\ H[s \ {Pick(s)}] = G[s \ {Pick(s)}]
        BY <1>4, <3>1, <4>1
      <4>3. G[s] = g[Pick(s)] + G[s \ {Pick(s)}] /\ H[s] = h[Pick(s)] + H[s \ {Pick(s)}]
        BY <1>2, <3>1, <3>3 DEF Sums
      <4> QED
        BY <4>2, <4>3
    <3> QED
      BY <3>2, <3>3
  <2> QED
    BY <2>1
<1>5. Nat \subseteq Q
  <2> HIDE DEF Q
  <2> QED
    BY <1>3, <1>4, NatSteps
<1>6. SUBSET S = SmallSets(S, Cardinality(S)) /\ Cardinality(S) \in Nat
  BY <1>1, FS_Subset, FS_CardinalityType DEF SmallSets
<1> QED
  BY <1>5, <1>6 DEF G, H

\* A sum grows by what is added to its set.
LEMMA SumAdds ==
  ASSUME NEW S, IsFiniteSet(S), NEW x, x \notin S, NEW g \in [S -> Nat],
         NEW h \in [S \cup {x} -> Nat], \A y \in S : h[y] = g[y]
  PROVE  SumFunction(h) = SumFunction(g) + h[x]
<1> DEFINE T == S \cup {x}
<1>1. IsFiniteSet(T) /\ S \in SUBSET T /\ T \ {x} = S
  BY FS_AddElement
<1>2. h \in [T -> Nat] /\ DOMAIN h = T /\ DOMAIN g = S
  OBVIOUS
<1>3. SumFunction(h) = Iter(h, T)[T] /\ SumFunction(g) = Iter(g, S)[S]
  BY <1>2, SumIter
<1>4. Iter(h, T)[T] = h[x] + Iter(h, T)[S]
  <2>1. x \in T
    OBVIOUS
  <2> HIDE DEF T
  <2>2. Iter(h, T)[T] = h[x] + Iter(h, T)[T \ {x}]
    BY <1>1, <1>2, <2>1, TakeOne
  <2> QED
    BY <1>1, <2>2
<1>5. Iter(h, T)[S] = Iter(g, S)[S]
  <2> HIDE DEF T
  <2>1. \A s \in SUBSET S : Iter(h, T)[s] = Iter(g, S)[s]
    BY <1>1, <1>2, SmallerIter
  <2> QED
    BY <2>1, Zenon
<1>6. SumFunction(g) \in Nat /\ h[x] \in Nat
  BY SumNat
<1> QED
  BY <1>3, <1>4, <1>5, <1>6

\* The same, with its hypotheses under one name.
Grows(g, h, S, x) ==
  /\ IsFiniteSet(S) /\ x \notin S /\ g \in [S -> Nat] /\ h \in [S \cup {x} -> Nat]
  /\ \A y \in S : h[y] = g[y]

LEMMA SumGrows ==
  ASSUME NEW S, NEW x, NEW g, NEW h, Grows(g, h, S, x)
  PROVE  SumFunction(h) = SumFunction(g) + h[x] /\ SumFunction(g) \in Nat
<1>1. SumFunction(h) = SumFunction(g) + h[x]
  BY SumAdds DEF Grows
<1>2. SumFunction(g) \in Nat
  BY SumNat DEF Grows
<1> QED
  BY <1>1, <1>2

LEMMA SumEmpty ==
  ASSUME NEW g, DOMAIN g = {}
  PROVE  SumFunction(g) = 0
<1>1. g = [x \in {} |-> 0] /\ [x \in {} |-> 0] \in [{} -> Nat]
  OBVIOUS
<1>2. Iter(g, {})[{}] = 0
  BY <1>1, IterExists, FS_EmptySet DEF Sums
<1> QED
  BY <1>2, SumIter
================================================================================
