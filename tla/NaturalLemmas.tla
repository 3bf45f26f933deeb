---------------------------- MODULE NaturalLemmas -----------------------------
(***************************************************************************)
(* Induction over the natural numbers and definition by recursion, stated  *)
(* with sets and functions instead of operators, so that the provers can   *)
(* apply them.                                                             *)
(***************************************************************************)
EXTENDS Integers, WellFoundedInduction, TLAPS

\* Every set of natural numbers but the empty one has a least element.
LEMMA LeastNatural ==
  ASSUME NEW S \in SUBSET Nat, S # {}
  PROVE  \E n \in S : \A k \in S : n <= k
  <1>1. PICK n \in S : \A k \in S : ~(<<k, n>> \in OpToRel(<, Nat))
    BY WFMin, NatLessThanWellFounded
  <1>2. \A k \in S : k \in Nat /\ n \in Nat
    OBVIOUS
  <1>3. \A k \in S : ~(k < n)
    BY <1>1, <1>2 DEF OpToRel
  <1>4. QED
    BY <1>2, <1>3

\* Induction, for the set of numbers a property holds of.
LEMMA NaturalInduction ==
  ASSUME NEW S, 0 \in S, \A n \in Nat : n \in S => n + 1 \in S
  PROVE  Nat \subseteq S
  <1>1. SUFFICES ASSUME Nat \ S # {} PROVE FALSE
    OBVIOUS
  <1>2. PICK n \in Nat \ S : \A k \in Nat \ S : n <= k
    BY <1>1, LeastNatural
  <1>3. n # 0 /\ n - 1 \in Nat
    BY <1>2
  <1>4. n - 1 \in S
    BY <1>2, <1>3
  <1>5. QED
    BY <1>2, <1>3, <1>4

\* Induction up to a bound.
LEMMA BoundedInduction ==
  ASSUME NEW N \in Nat, NEW S, 0 \in S, \A n \in 1..N : n - 1 \in S => n \in S
  PROVE  0..N \subseteq S
  <1> DEFINE T == {n \in Nat : n <= N => n \in S}
  <1>1. 0 \in T
    OBVIOUS
  <1>2. \A n \in Nat : n \in T => n + 1 \in T
    OBVIOUS
  <1> HIDE DEF T
  <1>3. Nat \subseteq T
    BY <1>1, <1>2, NaturalInduction
  <1>4. QED
    BY <1>3 DEF T

-----------------------------------------------------------------------------
(* Recursion *)

\* f follows the step G from start up to n.
Follows(f, G, start, n) == f[0] = start /\ \A k \in 1..n : f[k] = G[<<k, f[k - 1]>>]

\* A recursive function up to a bound exists.
LEMMA RecursionExists ==
  ASSUME NEW V, NEW start \in V, NEW G \in [Nat \X V -> V], NEW N \in Nat
  PROVE  \E f \in [0..N -> V] : Follows(f, G, start, N)
  <1> DEFINE T == {n \in Nat : \E f \in [0..n -> V] : Follows(f, G, start, n)}
  <1>1. 0 \in T
    <2>1. [n \in 0..0 |-> start] \in [0..0 -> V]
      OBVIOUS
    <2>2. Follows([n \in 0..0 |-> start], G, start, 0)
      BY DEF Follows
    <2>3. QED
      BY <2>1, <2>2
  <1>2. ASSUME NEW n \in Nat, n \in T PROVE n + 1 \in T
    <2>1. PICK f \in [0..n -> V] : Follows(f, G, start, n)
      BY <1>2
    <2> DEFINE g == [k \in 0..(n + 1) |-> IF k = n + 1 THEN G[<<n + 1, f[n]>>] ELSE f[k]]
    <2>2. f[n] \in V /\ G[<<n + 1, f[n]>>] \in V
      OBVIOUS
    <2>3. g \in [0..(n + 1) -> V]
      BY <2>2
    <2>4. g[0] = start
      BY <2>1 DEF Follows
    <2>5. ASSUME NEW k \in 1..(n + 1) PROVE g[k] = G[<<k, g[k - 1]>>]
      <3>1. CASE k = n + 1
        <4>1. k - 1 = n /\ n # n + 1 /\ n \in 0..(n + 1) /\ n + 1 \in 0..(n + 1)
          BY <3>1
        <4>2. g[n + 1] = G[<<n + 1, f[n]>>] /\ g[n] = f[n]
          BY <4>1
        <4> HIDE DEF g
        <4>3. QED
          BY <3>1, <4>1, <4>2
      <3>2. CASE k # n + 1
        <4>1. k \in 1..n /\ k - 1 \in 0..n
          BY <3>2
        <4>2. g[k] = f[k] /\ g[k - 1] = f[k - 1]
          BY <3>2, <4>1
        <4>3. f[k] = G[<<k, f[k - 1]>>]
          BY <2>1, <4>1 DEF Follows
        <4>4. QED
          BY <4>2, <4>3
      <3>3. QED
        BY <3>1, <3>2
    <2> HIDE DEF g
    <2>6. Follows(g, G, start, n + 1)
      BY <2>4, <2>5 DEF Follows
    <2>7. QED
      BY <2>3, <2>6
  <1> HIDE DEF T
  <1>3. N \in T
    BY <1>1, <1>2, NaturalInduction
  <1>4. QED
    BY <1>3 DEF T

\* There is only one way to follow a step.
LEMMA RecursionUnique ==
  ASSUME NEW G, NEW start, NEW m \in Nat, NEW n \in Nat, NEW f, NEW g,
         Follows(f, G, start, m), Follows(g, G, start, n)
  PROVE  \A k \in Nat : k <= m /\ k <= n => f[k] = g[k]
  <1> DEFINE S == {k \in Nat : k <= m /\ k <= n => f[k] = g[k]}
  <1>1. 0 \in S
    BY DEF Follows
  <1>2. ASSUME NEW k \in Nat, k \in S PROVE k + 1 \in S
    <2>1. CASE k + 1 <= m /\ k + 1 <= n
      <3>1. k + 1 \in 1..m /\ k + 1 \in 1..n /\ (k + 1) - 1 = k /\ k <= m /\ k <= n
        BY <2>1
      <3>2. f[k + 1] = G[<<k + 1, f[(k + 1) - 1]>>]
        BY <3>1 DEF Follows
      <3>3. g[k + 1] = G[<<k + 1, g[(k + 1) - 1]>>]
        BY <3>1 DEF Follows
      <3>4. f[k] = g[k]
        BY <1>2, <3>1
      <3>5. f[k + 1] = g[k + 1]
        BY <3>1, <3>2, <3>3, <3>4
      <3>6. QED
        BY <3>5
    <2>2. QED
      BY <2>1
  <1> HIDE DEF S
  <1>3. Nat \subseteq S
    BY <1>1, <1>2, NaturalInduction
  <1>4. QED
    BY <1>3 DEF S

\* f follows the step G from start without end.
FollowsOn(f, G, start) == f[0] = start /\ \A k \in Nat \ {0} : f[k] = G[<<k, f[k - 1]>>]

\* A recursive function on all natural numbers exists.
LEMMA RecursionOnNat ==
  ASSUME NEW V, NEW start \in V, NEW G \in [Nat \X V -> V]
  PROVE  \E f \in [Nat -> V] : FollowsOn(f, G, start)
  <1> DEFINE Part(n) == CHOOSE f \in [0..n -> V] : Follows(f, G, start, n)
             h == [n \in Nat |-> Part(n)[n]]
  <1>1. ASSUME NEW n \in Nat
        PROVE  Part(n) \in [0..n -> V] /\ Follows(Part(n), G, start, n)
    BY RecursionExists
  <1> HIDE DEF Part
  <1>2. ASSUME NEW n \in Nat PROVE Part(n)[n] \in V
    <2>1. n \in 0..n
      OBVIOUS
    <2>2. QED
      BY <1>1, <2>1
  <1>3. h \in [Nat -> V] /\ \A n \in Nat : h[n] = Part(n)[n]
    BY <1>2
  <1>4. Part(0)[0] = start
    BY <1>1 DEF Follows
  <1>5. ASSUME NEW k \in Nat \ {0} PROVE Part(k)[k] = G[<<k, Part(k - 1)[k - 1]>>]
    <2>1. k \in Nat /\ k - 1 \in Nat /\ k \in 1..k /\ k - 1 <= k /\ k - 1 <= k - 1
      OBVIOUS
    <2>2. Part(k)[k] = G[<<k, Part(k)[k - 1]>>]
      BY <1>1, <2>1 DEF Follows
    <2>3. Part(k)[k - 1] = Part(k - 1)[k - 1]
      BY <1>1, <2>1, RecursionUnique
    <2>4. QED
      BY <2>2, <2>3
  <1> HIDE DEF h
  <1>6. ASSUME NEW k \in Nat \ {0} PROVE h[k] = G[<<k, h[k - 1]>>]
    <2>1. k \in Nat /\ k - 1 \in Nat
      OBVIOUS
    <2>2. QED
      BY <1>3, <1>5, <2>1
  <1>7. h[0] = start
    BY <1>3, <1>4
  <1>8. QED
    BY <1>3, <1>6, <1>7 DEF FollowsOn

=============================================================================
