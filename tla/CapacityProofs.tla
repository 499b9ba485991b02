---------------------------- MODULE CapacityProofs ----------------------------
(***************************************************************************)
(* Theorems about Capacity, for any jobs, sizes, limits and faults, and    *)
(* the lemmas about sums over a finite set that the account needs.         *)
(***************************************************************************)
EXTENDS Capacity, FiniteSetTheorems, WellFoundedInduction, TLAPS

(* What grow reserves.                                                      *)

\* The chunks that cover n bytes, and no chunk more than that.
LEMMA Chunks ==
  ASSUME NEW n \in Nat, NEW g \in Nat \ {0}
  PROVE  LET k == (n + g - 1) \div g
         IN k \in Nat /\ n <= k * g /\ k * g < n + g
  OBVIOUS

\* grow reserves what is required, and less than a chunk more (CapacityManager.grow).
THEOREM GrowSuffices ==
  ASSUME NEW current \in Nat, NEW required \in Nat
  PROVE  /\ Grown(current, required) \in Nat
         /\ current <= Grown(current, required)
         /\ required <= Grown(current, required)
         /\ required > current => Grown(current, required) < required + Growth
<1>1. CASE required <= current
  BY <1>1 DEF Grown
<1>2. CASE required > current
  <2> DEFINE n == required - current
             k == (n + Growth - 1) \div Growth
  <2>1. n \in Nat
    BY <1>2
  <2>2. k \in Nat /\ n <= k * Growth /\ k * Growth < n + Growth
    BY <2>1, Chunks, CapacityAssumption
  <2>3. Grown(current, required) = current + k * Growth
    BY <1>2 DEF Grown
  <2> HIDE DEF k
  <2> QED
    BY <1>2, <2>2, <2>3, CapacityAssumption
<1> QED
  BY <1>1, <1>2

------------------------------------------------------------------------------
(* Sums over a finite set.                                                  *)

\* The sum of f over S, as Bytes and Reserved take it.
Sum(f, S) == MapThenSumSet(LAMBDA x : f[x], S)

\* g adds f up, over each set of the family F.
AddsUp(g, f, F) ==
  g = [s \in F |-> IF s = {} THEN 0
                   ELSE LET x == CHOOSE x \in s : TRUE IN f[x] + g[s \ {x}]]

\* MapThenSumSet, taken apart: the function it applies is chosen among those that add up.
LEMMA SumIs ==
  ASSUME NEW f, NEW S
  PROVE Sum(f, S) = (CHOOSE g : AddsUp(g, f, SUBSET S))[S]
  BY DEF Sum, MapThenSumSet, MapThenFoldSet, AddsUp

\* A family of subsets that holds the empty set and grows by single elements holds
\* every subset.
LEMMA FiniteInduction ==
  ASSUME NEW S, IsFiniteSet(S), NEW P, {} \in P,
         \A T \in SUBSET S, x \in S : T \in P /\ x \notin T => T \cup {x} \in P
  PROVE S \in P
<1> DEFINE Missing == (SUBSET S) \ P
           Counts == {Cardinality(T) : T \in Missing}
           R == OpToRel(<, Nat)
<1>1. \A T \in SUBSET S : IsFiniteSet(T) /\ Cardinality(T) \in Nat
  BY FS_Subset, FS_CardinalityType
<1>2. Counts \subseteq Nat
  BY <1>1
<1>3. SUFFICES ASSUME S \notin P PROVE FALSE
  OBVIOUS
<1>4. Counts # {}
  BY <1>3
<1>5. \A x, y \in Nat : <<x, y>> \in R <=> x < y
  BY DEF OpToRel
<1>6. IsWellFoundedOn(R, Nat)
  BY NatLessThanWellFounded
<1> HIDE DEF R, Counts
<1>7. \E n \in Counts : \A m \in Counts : ~ (<<m, n>> \in R)
  BY <1>2, <1>4, <1>6, WFMin, Zenon
<1>8. PICK n \in Counts : \A m \in Counts : <<m, n>> \notin R
  BY <1>7
<1>9. PICK T \in Missing : n = Cardinality(T)
  BY <1>8 DEF Counts
<1>10. PICK x \in T : TRUE
  BY <1>9
<1>11. Cardinality(T \ {x}) \in Counts \/ T \ {x} \in P
  BY <1>9 DEF Counts
<1>12. Cardinality(T \ {x}) < Cardinality(T)
  BY <1>1, <1>9, <1>10, FS_RemoveElement
<1>13. T \ {x} \in P
  BY <1>1, <1>2, <1>5, <1>8, <1>9, <1>11, <1>12
<1>14. (T \ {x}) \cup {x} \in P
  BY <1>9, <1>10, <1>13
<1>15. (T \ {x}) \cup {x} = T
  BY <1>10
<1> QED
  BY <1>9, <1>14, <1>15

\* The subsets of S with no more than n elements.
UpTo(S, n) == {s \in SUBSET S : Cardinality(s) <= n}

\* One element more allows one element more.
LEMMA UpToStep ==
  ASSUME NEW S, IsFiniteSet(S), NEW T \in SUBSET S, NEW x \in S, x \notin T
  PROVE  /\ Cardinality(T) \in Nat /\ Cardinality(T \cup {x}) = Cardinality(T) + 1
         /\ \A s \in UpTo(S, Cardinality(T \cup {x})) : \A y \in s :
               s \ {y} \in UpTo(S, Cardinality(T))
         /\ UpTo(S, Cardinality(T)) \subseteq UpTo(S, Cardinality(T \cup {x}))
<1>1. \A s \in SUBSET S : IsFiniteSet(s) /\ Cardinality(s) \in Nat
  BY FS_Subset, FS_CardinalityType
<1>2. Cardinality(T) \in Nat /\ Cardinality(T \cup {x}) = Cardinality(T) + 1
  BY <1>1, FS_AddElement
<1>3. \A s \in SUBSET S : \A y \in s : Cardinality(s \ {y}) = Cardinality(s) - 1
  BY <1>1, FS_RemoveElement
<1> QED
  BY <1>1, <1>2, <1>3 DEF UpTo

\* The first and the last of these families.
LEMMA UpToBounds ==
  ASSUME NEW S, IsFiniteSet(S)
  PROVE  UpTo(S, Cardinality(S)) = SUBSET S /\ UpTo(S, Cardinality({})) = {{}}
<1>1. \A s \in SUBSET S : IsFiniteSet(s) /\ Cardinality(s) \in Nat /\ Cardinality(s) <= Cardinality(S)
  BY FS_Subset, FS_CardinalityType
<1>2. Cardinality({}) = 0 /\ \A s \in SUBSET S : Cardinality(s) = 0 => s = {}
  BY <1>1, FS_EmptySet
<1> QED
  BY <1>1, <1>2 DEF UpTo

\* There is a function that adds up: it is built for larger and larger subsets.
LEMMA SumExists ==
  ASSUME NEW f, NEW S, IsFiniteSet(S)
  PROVE \E g : AddsUp(g, f, SUBSET S)
<1> DEFINE P == {T \in SUBSET S : \E g : AddsUp(g, f, UpTo(S, Cardinality(T)))}
<1>1. {} \in P
  <2> DEFINE g == [s \in {{}} |-> 0]
  <2>1. AddsUp(g, f, {{}})
    BY DEF AddsUp
  <2> QED
    BY <2>1, UpToBounds
<1>2. ASSUME NEW T \in SUBSET S, NEW x \in S, T \in P, x \notin T
      PROVE  T \cup {x} \in P
  <2> DEFINE F == UpTo(S, Cardinality(T))
             G == UpTo(S, Cardinality(T \cup {x}))
             Step(g, s) == IF s = {} THEN 0
                           ELSE LET y == CHOOSE y \in s : TRUE IN f[y] + g[s \ {y}]
  <2>1. PICK g : AddsUp(g, f, F)
    BY <1>2
  <2> DEFINE h == [s \in G |-> Step(g, s)]
  <2>2. /\ F \subseteq G
        /\ \A s \in G : \A y \in s : s \ {y} \in F
    BY <1>2, UpToStep
  <2> HIDE DEF F, G
  <2>3. \A s \in F : h[s] = g[s]
    BY <2>1, <2>2 DEF AddsUp
  <2>4. \A s \in G : Step(g, s) = Step(h, s)
    <3> TAKE s \in G
    <3>1. CASE s = {}
      BY <3>1
    <3>2. CASE s # {}
      <4> DEFINE y == CHOOSE y \in s : TRUE
      <4>1. y \in s
        BY <3>2
      <4>2. h[s \ {y}] = g[s \ {y}]
        BY <2>2, <2>3, <4>1
      <4> QED
        BY <3>2, <4>2
    <3> QED
      BY <3>1, <3>2
  <2>5. h = [s \in G |-> Step(h, s)]
    <3> HIDE DEF Step
    <3> QED
      BY <2>4
  <2>6. AddsUp(h, f, G)
    BY <2>5, Zenon DEF AddsUp
  <2>7. T \cup {x} \in SUBSET S
    OBVIOUS
  <2> QED
    BY <2>6, <2>7 DEF G
<1>3. S \in P
  <2> HIDE DEF P
  <2> QED
    BY <1>1, <1>2, FiniteInduction
<1>4. UpTo(S, Cardinality(S)) = SUBSET S
  BY UpToBounds
<1>5. \E g : AddsUp(g, f, UpTo(S, Cardinality(S)))
  BY <1>3
<1> QED
  BY <1>4, <1>5

\* Two functions that add up agree wherever both are defined.
LEMMA SumUnique ==
  ASSUME NEW f, NEW S, IsFiniteSet(S), NEW T \in SUBSET S
  PROVE  \A g, h : AddsUp(g, f, SUBSET S) /\ AddsUp(h, f, SUBSET T) => g[T] = h[T]
<1> SUFFICES ASSUME NEW g, AddsUp(g, f, SUBSET S), NEW h, AddsUp(h, f, SUBSET T)
             PROVE  g[T] = h[T]
  OBVIOUS
<1> DEFINE P == {U \in SUBSET T : \A s \in UpTo(T, Cardinality(U)) : g[s] = h[s]}
<1>0. IsFiniteSet(T)
  BY FS_Subset
<1>1. {} \in P
  BY <1>0, UpToBounds DEF AddsUp
<1>2. ASSUME NEW U \in SUBSET T, NEW x \in T, U \in P, x \notin U
      PROVE  U \cup {x} \in P
  <2>1. ASSUME NEW s \in UpTo(T, Cardinality(U \cup {x})) PROVE g[s] = h[s]
    <3> DEFINE y == CHOOSE y \in s : TRUE
    <3>0. s \in SUBSET T /\ s \in SUBSET S
      BY <2>1 DEF UpTo
    <3>1. CASE s = {}
      BY <3>0, <3>1 DEF AddsUp
    <3>2. CASE s # {}
      <4>1. y \in s
        BY <3>2
      <4>2. s \ {y} \in UpTo(T, Cardinality(U))
        BY <1>0, <1>2, <2>1, <4>1, UpToStep
      <4>3. g[s \ {y}] = h[s \ {y}]
        BY <1>2, <4>2
      <4>4. g[s] = f[y] + g[s \ {y}] /\ h[s] = f[y] + h[s \ {y}]
        BY <3>0, <3>2 DEF AddsUp
      <4> QED
        BY <4>3, <4>4
    <3> QED
      BY <3>1, <3>2
  <2> QED
    BY <2>1
<1>3. T \in P
  <2> HIDE DEF P
  <2> QED
    BY <1>0, <1>1, <1>2, FiniteInduction
<1> QED
  BY <1>0, <1>3, UpToBounds

\* The sum is taken element by element, in the order CHOOSE fixes.
LEMMA SumStep ==
  ASSUME NEW f, NEW S, IsFiniteSet(S)
  PROVE  /\ Sum(f, {}) = 0
         /\ S # {} => \E x \in S : Sum(f, S) = f[x] + Sum(f, S \ {x})
<1> DEFINE Adder(T) == CHOOSE g : AddsUp(g, f, SUBSET T)
<1>1. ASSUME NEW T, IsFiniteSet(T) PROVE AddsUp(Adder(T), f, SUBSET T)
  BY <1>1, SumExists
<1>2. \A T : Sum(f, T) = Adder(T)[T]
  BY SumIs
<1> HIDE DEF Adder
<1>3. Sum(f, {}) = 0
  <2>1. AddsUp(Adder({}), f, SUBSET {})
    BY <1>1, FS_EmptySet
  <2> QED
    BY <1>2, <2>1 DEF AddsUp
<1>4. ASSUME S # {} PROVE \E x \in S : Sum(f, S) = f[x] + Sum(f, S \ {x})
  <2> DEFINE x == CHOOSE x \in S : TRUE
  <2>1. x \in S
    BY <1>4
  <2>2. Adder(S)[S] = f[x] + Adder(S)[S \ {x}]
    <3>1. AddsUp(Adder(S), f, SUBSET S)
      BY <1>1
    <3>2. \A g : AddsUp(g, f, SUBSET S) => g[S] = f[x] + g[S \ {x}]
      BY <1>4 DEF AddsUp
    <3> QED
      BY <3>1, <3>2
  <2>3. S \ {x} \in SUBSET S /\ IsFiniteSet(S \ {x})
    BY FS_Subset
  <2>4. AddsUp(Adder(S), f, SUBSET S) /\ AddsUp(Adder(S \ {x}), f, SUBSET (S \ {x}))
    BY <1>1, <2>3
  <2> HIDE DEF x
  <2>5. ASSUME NEW T \in SUBSET S
        PROVE  \A g, h : AddsUp(g, f, SUBSET S) /\ AddsUp(h, f, SUBSET T) => g[T] = h[T]
    BY SumUnique
  <2>6. Adder(S)[S \ {x}] = Adder(S \ {x})[S \ {x}]
    BY <2>3, <2>4, <2>5
  <2> QED
    BY <1>2, <2>1, <2>2, <2>6
<1> QED
  BY <1>3, <1>4

\* Any element may be taken first: the order does not matter.
LEMMA SumRemove ==
  ASSUME NEW f, NEW S, IsFiniteSet(S), \A x \in S : f[x] \in Int
  PROVE  Sum(f, S) \in Int /\ \A x \in S : Sum(f, S) = f[x] + Sum(f, S \ {x})
<1> DEFINE Fine(s) == Sum(f, s) \in Int /\ \A x \in s : Sum(f, s) = f[x] + Sum(f, s \ {x})
           P == {U \in SUBSET S : \A s \in UpTo(S, Cardinality(U)) : Fine(s)}
<1>0. \A s \in SUBSET S : IsFiniteSet(s)
  BY FS_Subset
<1>1. {} \in P
  <2>1. Sum(f, {}) = 0
    BY SumStep
  <2>2. \A s \in UpTo(S, Cardinality({})) : s = {}
    BY UpToBounds
  <2>3. \A s \in UpTo(S, Cardinality({})) : Fine(s)
    <3> TAKE s \in UpTo(S, Cardinality({}))
    <3>1. Sum(f, s) = 0
      BY <2>1, <2>2, Zenon
    <3> QED
      BY <2>2, <3>1
  <2> QED
    BY <2>3
<1>2. ASSUME NEW U \in SUBSET S, NEW z \in S, U \in P, z \notin U
      PROVE  U \cup {z} \in P
  <2>1. ASSUME NEW s \in UpTo(S, Cardinality(U \cup {z})) PROVE Fine(s)
    <3>0. s \in SUBSET S /\ IsFiniteSet(s)
      BY <1>0, <2>1 DEF UpTo
    <3>1. CASE s = {}
      BY <3>1, SumStep
    <3>2. CASE s # {}
      <4>1. PICK y \in s : Sum(f, s) = f[y] + Sum(f, s \ {y})
        BY <3>0, <3>2, SumStep
      <4>2. \A x \in s : Fine(s \ {x})
        BY <1>2, <2>1, UpToStep
      <4>3. Sum(f, s) \in Int
        BY <3>0, <4>1, <4>2
      <4>4. ASSUME NEW x \in s, x # y PROVE Sum(f, s) = f[x] + Sum(f, s \ {x})
        <5>1. Sum(f, s \ {y}) = f[x] + Sum(f, (s \ {y}) \ {x})
          BY <4>2, <4>4
        <5>2. Sum(f, s \ {x}) = f[y] + Sum(f, (s \ {x}) \ {y})
          BY <4>2, <4>4
        <5>3. (s \ {y}) \ {x} = (s \ {x}) \ {y}
          OBVIOUS
        <5>4. Sum(f, s \ {x}) \in Int /\ Sum(f, s \ {y}) \in Int /\ f[x] \in Int /\ f[y] \in Int
          BY <3>0, <4>2
        <5>5. Sum(f, (s \ {x}) \ {y}) \in Int
          <6>1. (s \ {x}) \ {y} \in UpTo(S, Cardinality(U))
            <7>1. s \ {x} \in UpTo(S, Cardinality(U)) /\ s \ {x} \in SUBSET S
              BY <1>2, <2>1, <3>0, UpToStep
            <7>2. Cardinality((s \ {x}) \ {y}) <= Cardinality(s \ {x})
                  /\ Cardinality((s \ {x}) \ {y}) \in Nat /\ Cardinality(s \ {x}) \in Nat
              BY <1>0, <7>1, FS_RemoveElement, FS_CardinalityType, FS_Subset
            <7>3. Cardinality(U) \in Nat
              BY <1>2, UpToStep
            <7> QED
              BY <7>1, <7>2, <7>3 DEF UpTo
          <6> QED
            BY <1>2, <6>1
        <5>6. Sum(f, s) = f[y] + (f[x] + Sum(f, (s \ {x}) \ {y}))
          BY <4>1, <5>1, <5>3
        <5>7. Sum(f, s) = f[x] + (f[y] + Sum(f, (s \ {x}) \ {y}))
          BY <5>4, <5>5, <5>6
        <5> QED
          BY <5>2, <5>7
      <4> QED
        BY <4>1, <4>3, <4>4
    <3> QED
      BY <3>1, <3>2
  <2> QED
    BY <2>1
<1>3. S \in P
  <2> HIDE DEF P
  <2> QED
    BY <1>1, <1>2, FiniteInduction
<1> QED
  BY <1>3, UpToBounds

\* Nothing but zeros.
LEMMA SumZero ==
  ASSUME NEW S, IsFiniteSet(S), NEW f, \A x \in S : f[x] = 0
  PROVE  Sum(f, S) = 0
<1> DEFINE P == {U \in SUBSET S : Sum(f, U) = 0}
<1>1. {} \in P
  BY SumStep
<1>2. ASSUME NEW U \in SUBSET S, NEW z \in S, U \in P, z \notin U
      PROVE  U \cup {z} \in P
  <2> DEFINE V == U \cup {z}
  <2>1. V \in SUBSET S /\ z \in V /\ V \ {z} = U /\ IsFiniteSet(V)
    BY <1>2, FS_Subset
  <2> HIDE DEF V
  <2>2. Sum(f, V) = f[z] + Sum(f, U)
    BY <2>1, SumRemove
  <2> QED
    BY <1>2, <2>1, <2>2 DEF V
<1>3. S \in P
  <2> HIDE DEF P
  <2> QED
    BY <1>1, <1>2, FiniteInduction
<1> QED
  BY <1>3

\* Larger values have a larger sum.
LEMMA SumOrder ==
  ASSUME NEW S, IsFiniteSet(S), NEW f, NEW g,
         \A x \in S : f[x] \in Int /\ g[x] \in Int /\ f[x] <= g[x]
  PROVE  Sum(f, S) <= Sum(g, S)
<1> DEFINE P == {U \in SUBSET S : Sum(f, U) <= Sum(g, U)}
<1>1. {} \in P
  BY SumStep, FS_EmptySet
<1>2. ASSUME NEW U \in SUBSET S, NEW z \in S, U \in P, z \notin U
      PROVE  U \cup {z} \in P
  <2> DEFINE V == U \cup {z}
  <2>1. V \in SUBSET S /\ z \in V /\ V \ {z} = U
    BY <1>2
  <2>2. IsFiniteSet(U) /\ IsFiniteSet(V)
    BY <2>1, FS_Subset
  <2> HIDE DEF V
  <2>3. Sum(f, V) = f[z] + Sum(f, U) /\ Sum(g, V) = g[z] + Sum(g, U)
    BY <2>1, <2>2, SumRemove
  <2>4. Sum(f, U) \in Int /\ Sum(g, U) \in Int
    BY <2>2, SumRemove
  <2>5. Sum(f, V) <= Sum(g, V)
    BY <1>2, <2>3, <2>4
  <2> QED
    BY <2>1, <2>5 DEF V
<1>3. S \in P
  <2> HIDE DEF P
  <2> QED
    BY <1>1, <1>2, FiniteInduction
<1> QED
  BY <1>3

\* A function that differs in one place.
LEMMA SumChange ==
  ASSUME NEW S, IsFiniteSet(S), NEW f, NEW g,
         \A y \in S : f[y] \in Int /\ g[y] \in Int
  PROVE  \A x \in S : (\A y \in S \ {x} : f[y] = g[y])
                      => Sum(g, S) = Sum(f, S) - f[x] + g[x]
<1> SUFFICES ASSUME NEW x \in S, \A y \in S \ {x} : f[y] = g[y]
             PROVE  Sum(g, S) = Sum(f, S) - f[x] + g[x]
  OBVIOUS
<1>1. IsFiniteSet(S \ {x})
  BY FS_Subset
<1>2. \A y \in S \ {x} : f[y] <= g[y] /\ g[y] <= f[y]
  OBVIOUS
<1>3. Sum(f, S \ {x}) <= Sum(g, S \ {x}) /\ Sum(g, S \ {x}) <= Sum(f, S \ {x})
  BY <1>1, <1>2, SumOrder
<1>4. Sum(f, S \ {x}) \in Int /\ Sum(g, S \ {x}) \in Int
  BY <1>1, SumRemove
<1>5. Sum(f, S) = f[x] + Sum(f, S \ {x}) /\ Sum(g, S) = g[x] + Sum(g, S \ {x})
  BY SumRemove
<1> QED
  BY <1>3, <1>4, <1>5

\* Sums over two parts of S stay below two sums over all of it when every element's share
\* does.
LEMMA SumParts ==
  ASSUME NEW S, IsFiniteSet(S), NEW A \in SUBSET S, NEW B \in SUBSET S,
         NEW f, NEW g, NEW c, NEW d,
         \A x \in S : f[x] \in Int /\ g[x] \in Int /\ c[x] \in Int /\ d[x] \in Int,
         \A x \in S : (IF x \in A THEN f[x] ELSE 0) + (IF x \in B THEN g[x] ELSE 0)
                         <= c[x] + d[x]
  PROVE  Sum(f, A) + Sum(g, B) <= Sum(c, S) + Sum(d, S)
<1> DEFINE P == {U \in SUBSET S : Sum(f, A \cap U) + Sum(g, B \cap U) <= Sum(c, U) + Sum(d, U)}
<1>1. {} \in P
  BY SumStep, FS_EmptySet
<1>2. ASSUME NEW U \in SUBSET S, NEW z \in S, U \in P, z \notin U
      PROVE  U \cup {z} \in P
  <2> DEFINE V == U \cup {z}
  <2>1. V \in SUBSET S /\ z \in V /\ V \ {z} = U
    BY <1>2
  <2>2. /\ z \in A => z \in A \cap V /\ (A \cap V) \ {z} = A \cap U
        /\ z \notin A => A \cap V = A \cap U
        /\ z \in B => z \in B \cap V /\ (B \cap V) \ {z} = B \cap U
        /\ z \notin B => B \cap V = B \cap U
    BY <1>2
  <2>3. /\ IsFiniteSet(U) /\ IsFiniteSet(V)
        /\ IsFiniteSet(A \cap U) /\ IsFiniteSet(A \cap V)
        /\ IsFiniteSet(B \cap U) /\ IsFiniteSet(B \cap V)
    BY <2>1, FS_Subset
  <2> HIDE DEF V
  <2>4. Sum(c, V) = c[z] + Sum(c, U) /\ Sum(d, V) = d[z] + Sum(d, U)
    BY <2>1, <2>3, SumRemove
  <2>5. Sum(f, A \cap V) = (IF z \in A THEN f[z] ELSE 0) + Sum(f, A \cap U)
    <3>1. \A y \in A \cap V : Sum(f, A \cap V) = f[y] + Sum(f, (A \cap V) \ {y})
      BY <2>3, SumRemove
    <3>2. Sum(f, A \cap U) \in Int
      BY <2>3, SumRemove
    <3>3. CASE z \in A
      BY <2>2, <3>1, <3>3
    <3>4. CASE z \notin A
      <4>1. Sum(f, A \cap V) = Sum(f, A \cap U)
        BY <2>2, <3>4, Zenon
      <4> QED
        BY <3>2, <3>4, <4>1
    <3> QED
      BY <3>3, <3>4
  <2>6. Sum(g, B \cap V) = (IF z \in B THEN g[z] ELSE 0) + Sum(g, B \cap U)
    <3>1. \A y \in B \cap V : Sum(g, B \cap V) = g[y] + Sum(g, (B \cap V) \ {y})
      BY <2>3, SumRemove
    <3>2. Sum(g, B \cap U) \in Int
      BY <2>3, SumRemove
    <3>3. CASE z \in B
      BY <2>2, <3>1, <3>3
    <3>4. CASE z \notin B
      <4>1. Sum(g, B \cap V) = Sum(g, B \cap U)
        BY <2>2, <3>4, Zenon
      <4> QED
        BY <3>2, <3>4, <4>1
    <3> QED
      BY <3>3, <3>4
  <2>7. /\ Sum(c, U) \in Int /\ Sum(d, U) \in Int /\ Sum(f, A \cap U) \in Int
        /\ Sum(g, B \cap U) \in Int
    BY <2>3, SumRemove
  <2>8. Sum(f, A \cap V) + Sum(g, B \cap V) <= Sum(c, V) + Sum(d, V)
    BY <1>2, <2>4, <2>5, <2>6, <2>7
  <2> QED
    BY <2>1, <2>8 DEF V
<1>3. S \in P
  <2> HIDE DEF P
  <2> QED
    BY <1>1, <1>2, FiniteInduction
<1>4. A \cap S = A /\ B \cap S = B
  OBVIOUS
<1> QED
  BY <1>3, <1>4

------------------------------------------------------------------------------
(* The inductive invariant.                                                 *)

\* The semaphore is down by one exactly while a job is launched; an exception
\* leaves it up by one.
SlotsAgree ==
  /\ dispatch.pc = "idle" => slots = Concurrency
  /\ dispatch.pc = "dead" => slots = Concurrency + 1
  /\ dispatch.pc \in {"payload", "ensure", "denied", "spawn"} => slots = Concurrency - 1

\* The dispatcher works on the job it claimed.
LaunchAgrees ==
  dispatch.pc \in {"payload", "ensure", "denied", "spawn"} => stage[dispatch.job] = "launching"

\* Before its publication moved it, a job has no file.
FilesArePublished ==
  restarts = 0 =>
    \A j \in file : stage[j] \in {"moved", "recorded", "accounted", "done", "over"}

IInv == TypeOK /\ SlotsAgree /\ LaunchAgrees /\ FilesArePublished /\ FilesArePaidFor

\* The process starts with an empty account.
LEMMA InitIInv == Init => IInv
  BY CapacityAssumption
     DEF Init, IInv, TypeOK, JobTypes, SlotsAgree, LaunchAgrees, FilesArePublished,
         FilesArePaidFor, Resting

\* What a size at least zero is.
LEMMA AtLeastZeroType ==
  ASSUME NEW n \in Int
  PROVE  AtLeastZero(n) \in Nat
  BY DEF AtLeastZero

\* Sizes and reservations are numbers of bytes.
LEMMA SizeType ==
  ASSUME TypeOK, NEW j \in Jobs
  PROVE  size[j] \in Nat /\ reserved[j] \in Nat
<1>1. size[j] \in Sizes \cup {0} /\ reserved[j] \in Nat
  BY DEF TypeOK, JobTypes
<1>2. \A n \in Sizes : n \in Nat
  BY CapacityAssumption
<1> QED
  BY <1>1, <1>2

\* The steps of launch keep the invariant.
LEMMA LaunchKeeps ==
  ASSUME IInv, LaunchStep
  PROVE  IInv'
<1> USE CapacityAssumption DEF IInv, TypeOK, JobTypes, SlotsAgree, LaunchAgrees,
        FilesArePublished, FilesArePaidFor, Resting, account, disk, launching, EndLaunch, Evictors
<1>1. CASE ReadPayload
  BY <1>1 DEF ReadPayload
<1>2. CASE Reserve
  BY <1>2 DEF Reserve
<1>3. CASE ReserveDenied
  BY <1>3 DEF ReserveDenied
<1>4. CASE ReportDenial
  BY <1>4 DEF ReportDenial
<1>5. CASE Spawn
  BY <1>5 DEF Spawn
<1>6. CASE LaunchRaises
  BY <1>6 DEF LaunchRaises
<1> QED
  BY <1>1, <1>2, <1>3, <1>4, <1>5, <1>6 DEF LaunchStep

\* The steps of publish_candidate keep it, those after a failure too.
LEMMA PublishKeeps ==
  ASSUME IInv, NEW j \in Jobs, PublishStep(j)
  PROVE  IInv'
<1> USE CapacityAssumption DEF IInv, TypeOK, JobTypes, SlotsAgree, LaunchAgrees,
        FilesArePublished, FilesArePaidFor, account, disk, launching, LeavePublish, Evictors
<1>1. CASE GrowAndMove(j)
  <2>0. reserved[j] \in Nat /\ size[j] \in Nat
    BY SizeType
  <2>1. PICK target \in Nat : target = Grown(reserved[j], size[j]) /\ size[j] <= target
    BY <2>0, GrowSuffices
  <2> QED
    BY <1>1, <2>1 DEF GrowAndMove
<1>2. CASE GrowDenied(j)
  BY <1>2 DEF GrowDenied
<1>3. CASE EnsureFails(j)
  BY <1>3 DEF EnsureFails
<1>4. CASE Record(j)
  BY <1>4 DEF Record
<1>5. CASE RecordFails(j)
  BY <1>5 DEF RecordFails
<1>6. CASE Account(j)
  BY <1>6, SizeType DEF Account
<1>7. CASE AccountFails(j)
  BY <1>7 DEF AccountFails
<1>8. CASE EndPublish(j)
  BY <1>8 DEF EndPublish
<1> QED
  BY <1>1, <1>2, <1>3, <1>4, <1>5, <1>6, <1>7, <1>8 DEF PublishStep

\* Claims, workers and deletions keep it.
LEMMA JobKeeps ==
  ASSUME IInv, NEW j \in Jobs,
         \/ Claim(j) \/ WorkerFails(j) \/ EnterPublish(j) \/ DeleteElsewhere(j)
         \/ \E n \in Sizes : Candidate(j, n)
         \/ \E e \in Evictors : EvictUnlink(e, j)
  PROVE  IInv'
<1> USE CapacityAssumption DEF IInv, TypeOK, JobTypes, SlotsAgree, LaunchAgrees,
        FilesArePublished, FilesArePaidFor, Resting, account, disk, launching
<1>1. CASE Claim(j)
  BY <1>1 DEF Claim
<1>2. CASE WorkerFails(j)
  BY <1>2 DEF WorkerFails
<1>3. CASE EnterPublish(j)
  BY <1>3 DEF EnterPublish
<1>4. CASE DeleteElsewhere(j)
  BY <1>4 DEF DeleteElsewhere
<1>5. CASE \E n \in Sizes : Candidate(j, n)
  BY <1>5 DEF Candidate
<1>6. CASE \E e \in Evictors : EvictUnlink(e, j)
  BY <1>6 DEF EvictUnlink
<1> QED
  BY <1>1, <1>2, <1>3, <1>4, <1>5, <1>6

\* Every step keeps it.
LEMMA NextKeeps == IInv /\ [Next]_vars => IInv'
<1> SUFFICES ASSUME IInv, [Next]_vars PROVE IInv'
  OBVIOUS
<1>1. CASE LaunchStep
  BY <1>1, LaunchKeeps
<1>2. ASSUME NEW j \in Jobs, PublishStep(j) PROVE IInv'
  BY <1>2, PublishKeeps
<1>3. ASSUME NEW j \in Jobs,
             \/ Claim(j) \/ WorkerFails(j) \/ EnterPublish(j) \/ DeleteElsewhere(j)
             \/ \E n \in Sizes : Candidate(j, n)
             \/ \E e \in Evictors : EvictUnlink(e, j)
      PROVE IInv'
  BY <1>3, JobKeeps
<1>4. ASSUME NEW e \in Evictors, EvictFinish(e) PROVE IInv'
  <2>0. evicting[e] \in Jobs /\ artifactBytes \in Nat
    BY <1>4 DEF EvictFinish, IInv, TypeOK
  <2>1. size[evicting[e]] \in Nat
    BY <2>0, SizeType DEF IInv
  <2>2. artifactBytes' \in Nat
    BY <1>4, <2>0, <2>1, AtLeastZeroType DEF EvictFinish
  <2> QED
    BY <1>4, <2>2 DEF EvictFinish, IInv, TypeOK, JobTypes, SlotsAgree, LaunchAgrees,
       FilesArePublished, FilesArePaidFor, account, disk, launching
<1>5. CASE Restart
  BY <1>5, CapacityAssumption DEF Restart, IInv, TypeOK, JobTypes, SlotsAgree, LaunchAgrees,
     FilesArePublished, FilesArePaidFor, Resting, disk
<1>6. CASE UNCHANGED vars
  BY <1>6 DEF vars, account, disk, launching, IInv, TypeOK, JobTypes, SlotsAgree,
     LaunchAgrees, FilesArePublished, FilesArePaidFor
<1> QED
  BY <1>1, <1>2, <1>3, <1>4, <1>5, <1>6 DEF Next

------------------------------------------------------------------------------
(* The account.                                                             *)

\* The artifact of such a job was added to the artifact bytes.
Counted == {"accounted", "done"}

\* What each job's artifact weighs in the artifact bytes, at least: an eviction takes the
\* size off even if it was not added yet.
Charge ==
  [j \in Jobs |->
     IF access[j] = "deleted"
       THEN IF stage[j] \in Counted THEN 0 ELSE -size[j]
       ELSE IF stage[j] \in Counted THEN size[j] ELSE 0]

\* Only recorded artifacts are deleted, each by one evictor, and a deleted one has no file.
DeletionsAgree ==
  /\ \A j \in Jobs : access[j] # "none" => stage[j] \in {"recorded", "accounted", "done", "over"}
  /\ \A j \in file : access[j] # "deleted"
  /\ \A e \in Evictors : evicting[e] # Nobody =>
        /\ access[evicting[e]] = "pending"
        /\ evicting[e] \notin file
        /\ \A d \in Evictors \ {e} : evicting[d] # evicting[e]

\* A moved file that was not accounted is paid for, even once it is evicted.
ReservationsCover ==
  restarts = 0 => \A j \in Jobs :
    stage[j] \in {"moved", "recorded"} \/ (stage[j] = "over" /\ access[j] # "none")
      => size[j] <= reserved[j]

\* Nothing was granted that did not fit.
AccountFits ==
  restarts = 0 /\ Headroom <= Total
    => artifactBytes + Sum(reserved, Jobs) <= Total - Headroom

\* The artifact bytes are never below what the jobs' artifacts weigh in them.
ChargesCovered ==
  restarts = 0 => Sum(Charge, Jobs) <= artifactBytes

AccountInv == DeletionsAgree /\ ReservationsCover /\ AccountFits /\ ChargesCovered

\* The types of the numbers the sums are taken of.
LEMMA SumTypes ==
  ASSUME TypeOK
  PROVE  /\ \A j \in Jobs : size[j] \in Int /\ reserved[j] \in Int /\ Charge[j] \in Int
         /\ Sum(reserved, Jobs) \in Int /\ Sum(Charge, Jobs) \in Int
<1>1. \A j \in Jobs : size[j] \in Nat /\ reserved[j] \in Nat
  BY SizeType
<1>2. \A j \in Jobs : Charge[j] \in Int
  BY <1>1 DEF Charge
<1>3. IsFiniteSet(Jobs)
  BY CapacityAssumption
<1> HIDE DEF Charge
<1>4. Sum(reserved, Jobs) \in Int /\ Sum(Charge, Jobs) \in Int
  BY <1>1, <1>2, <1>3, SumRemove
<1> QED
  BY <1>1, <1>2, <1>4

\* The account begins at zero.
LEMMA InitAccount == Init => AccountInv
<1> SUFFICES ASSUME Init PROVE AccountInv
  OBVIOUS
<1>0. TypeOK
  BY InitIInv DEF IInv
<1>1. DeletionsAgree /\ ReservationsCover
  BY DEF Init, DeletionsAgree, ReservationsCover
<1> DEFINE zero == [j \in Jobs |-> 0]
<1>2. /\ \A j \in Jobs : reserved[j] <= zero[j] /\ Charge[j] <= zero[j]
      /\ IsFiniteSet(Jobs) /\ \A j \in Jobs : zero[j] = 0
  BY CapacityAssumption DEF Init, Charge, Counted
<1> HIDE DEF zero
<1>3. Sum(reserved, Jobs) <= Sum(zero, Jobs) /\ Sum(Charge, Jobs) <= Sum(zero, Jobs)
  BY <1>0, <1>2, SumTypes, SumOrder
<1>4. Sum(zero, Jobs) = 0
  BY <1>2, SumZero
<1>5. artifactBytes = 0 /\ Total \in Nat /\ Headroom \in Nat
  BY CapacityAssumption DEF Init
<1>6. AccountFits /\ ChargesCovered
  BY <1>0, <1>3, <1>4, <1>5, SumTypes DEF AccountFits, ChargesCovered
<1> QED
  BY <1>1, <1>6 DEF AccountInv

\* Deletions stay in step with the publications.
LEMMA DeletionsKept ==
  ASSUME IInv, DeletionsAgree, [Next]_vars
  PROVE  DeletionsAgree'
<1> USE CapacityAssumption DEF DeletionsAgree, TypeOK, JobTypes, Resting, account, disk,
        launching, Evictors
<1>0. TypeOK /\ LaunchAgrees
  BY DEF IInv
<1>1. CASE LaunchStep
  BY <1>0, <1>1 DEF LaunchStep, ReadPayload, Reserve, ReserveDenied, ReportDenial, Spawn,
     LaunchRaises, EndLaunch, LaunchAgrees
<1>2. ASSUME NEW j \in Jobs, PublishStep(j) PROVE DeletionsAgree'
  <2> USE <1>0 DEF LeavePublish
  <2>1. CASE GrowAndMove(j)
    BY <2>1 DEF GrowAndMove
  <2>2. CASE GrowDenied(j) \/ EnsureFails(j)
    BY <2>2 DEF GrowDenied, EnsureFails
  <2>3. CASE Record(j) \/ RecordFails(j)
    BY <2>3 DEF Record, RecordFails
  <2>4. CASE Account(j) \/ AccountFails(j) \/ EndPublish(j)
    BY <2>4 DEF Account, AccountFails, EndPublish
  <2> QED
    BY <1>2, <2>1, <2>2, <2>3, <2>4 DEF PublishStep
<1>3. ASSUME NEW j \in Jobs,
             \/ Claim(j) \/ WorkerFails(j) \/ EnterPublish(j) \/ DeleteElsewhere(j)
             \/ \E n \in Sizes : Candidate(j, n)
             \/ \E e \in Evictors : EvictUnlink(e, j)
      PROVE DeletionsAgree'
  <2>1. CASE Claim(j) \/ WorkerFails(j) \/ EnterPublish(j) \/ \E n \in Sizes : Candidate(j, n)
    BY <1>0, <2>1 DEF Claim, WorkerFails, EnterPublish, Candidate
  <2>2. CASE DeleteElsewhere(j)
    BY <1>0, <2>2 DEF DeleteElsewhere
  <2>3. CASE \E e \in Evictors : EvictUnlink(e, j)
    BY <1>0, <2>3 DEF EvictUnlink
  <2> QED
    BY <1>3, <2>1, <2>2, <2>3
<1>4. ASSUME NEW e \in Evictors, EvictFinish(e) PROVE DeletionsAgree'
  BY <1>0, <1>4 DEF EvictFinish
<1>5. CASE Restart
  BY <1>0, <1>5 DEF Restart
<1>6. CASE UNCHANGED vars
  BY <1>6 DEF vars
<1> QED
  BY <1>1, <1>2, <1>3, <1>4, <1>5, <1>6 DEF Next

\* Until it is accounted, a moved file keeps a reservation of its size.
LEMMA ReservationsKept ==
  ASSUME IInv, DeletionsAgree, ReservationsCover, [Next]_vars
  PROVE  ReservationsCover'
<1> USE CapacityAssumption DEF ReservationsCover, JobTypes, Resting, account, disk,
        launching, Evictors
<1>0. JobTypes /\ LaunchAgrees
      /\ \A j \in Jobs : access[j] # "none" => stage[j] \in {"recorded", "accounted", "done", "over"}
      /\ restarts \in Nat
  BY DEF IInv, TypeOK, DeletionsAgree
<1>1. CASE LaunchStep
  BY <1>0, <1>1 DEF LaunchStep, ReadPayload, Reserve, ReserveDenied, ReportDenial, Spawn,
     LaunchRaises, EndLaunch, LaunchAgrees
<1>2. ASSUME NEW j \in Jobs, PublishStep(j) PROVE ReservationsCover'
  <2> USE <1>0 DEF LeavePublish
  <2>1. CASE GrowAndMove(j)
    <3>0. reserved[j] \in Nat /\ size[j] \in Nat
      BY SizeType DEF IInv
    <3>1. PICK target \in Nat : target = Grown(reserved[j], size[j]) /\ size[j] <= target
      BY <3>0, GrowSuffices
    <3> QED
      BY <2>1, <3>1 DEF GrowAndMove
  <2>2. CASE GrowDenied(j) \/ EnsureFails(j)
    BY <2>2 DEF GrowDenied, EnsureFails
  <2>3. CASE Record(j) \/ RecordFails(j)
    BY <2>3 DEF Record, RecordFails
  <2>4. CASE Account(j) \/ AccountFails(j) \/ EndPublish(j)
    BY <2>4 DEF Account, AccountFails, EndPublish
  <2> QED
    BY <1>2, <2>1, <2>2, <2>3, <2>4 DEF PublishStep
<1>3. ASSUME NEW j \in Jobs,
             \/ Claim(j) \/ WorkerFails(j) \/ EnterPublish(j) \/ DeleteElsewhere(j)
             \/ \E n \in Sizes : Candidate(j, n)
             \/ \E e \in Evictors : EvictUnlink(e, j)
      PROVE ReservationsCover'
  <2>1. CASE Claim(j) \/ WorkerFails(j) \/ EnterPublish(j) \/ \E n \in Sizes : Candidate(j, n)
    BY <1>0, <2>1 DEF Claim, WorkerFails, EnterPublish, Candidate
  <2>2. CASE DeleteElsewhere(j)
    BY <1>0, <2>2 DEF DeleteElsewhere
  <2>3. CASE \E e \in Evictors : EvictUnlink(e, j)
    BY <1>0, <2>3 DEF EvictUnlink
  <2> QED
    BY <1>3, <2>1, <2>2, <2>3
<1>4. ASSUME NEW e \in Evictors, EvictFinish(e) PROVE ReservationsCover'
  BY <1>0, <1>4, DeletionsKept DEF EvictFinish, DeletionsAgree
<1>5. CASE Restart
  BY <1>0, <1>5 DEF Restart
<1>6. CASE UNCHANGED vars
  BY <1>6 DEF vars
<1> QED
  BY <1>1, <1>2, <1>3, <1>4, <1>5, <1>6 DEF Next

\* What is available is what the account leaves of the capacity less its headroom.
LEMMA FitsLeaves ==
  ASSUME TypeOK, AccountFits, restarts = 0, Headroom <= Total, NEW n \in Nat, Fits(n)
  PROVE  artifactBytes + Sum(reserved, Jobs) + n <= Total - Headroom
<1>1. Reserved(Jobs) = Sum(reserved, Jobs)
  BY DEF Reserved, Sum
<1>2. Sum(reserved, Jobs) \in Int /\ artifactBytes \in Int /\ Total \in Int /\ Headroom \in Int
  BY SumTypes, CapacityAssumption DEF TypeOK
<1>3. artifactBytes + Sum(reserved, Jobs) <= Total - Headroom
  BY DEF AccountFits
<1>4. n <= AtLeastZero(Total - artifactBytes - Sum(reserved, Jobs) - Headroom)
  BY <1>1 DEF Fits, Available
<1> QED
  BY <1>2, <1>3, <1>4 DEF AtLeastZero

\* A reservation that is set anew changes the sum by the difference.
LEMMA ReservedChange ==
  ASSUME TypeOK, TypeOK', NEW j \in Jobs, NEW n \in Nat,
         reserved' = [reserved EXCEPT ![j] = n]
  PROVE  Sum(reserved', Jobs) = Sum(reserved, Jobs) - reserved[j] + n
<1>1. \A k \in Jobs : reserved[k] \in Int /\ reserved'[k] \in Int
  BY DEF TypeOK, JobTypes
<1>2. reserved'[j] = n /\ \A k \in Jobs \ {j} : reserved[k] = reserved'[k]
  BY DEF TypeOK, JobTypes
<1>3. IsFiniteSet(Jobs)
  BY CapacityAssumption
<1>4. ASSUME NEW f, NEW g, \A k \in Jobs : f[k] \in Int /\ g[k] \in Int,
             \A k \in Jobs \ {j} : f[k] = g[k]
      PROVE  Sum(g, Jobs) = Sum(f, Jobs) - f[j] + g[j]
  BY <1>3, <1>4, SumChange
<1>5. Sum(reserved', Jobs) = Sum(reserved, Jobs) - reserved[j] + reserved'[j]
  BY <1>1, <1>2, <1>4
<1> QED
  BY <1>2, <1>5

\* Only what fits is granted, and the size that is accounted was reserved.
LEMMA FitsKept ==
  ASSUME IInv, IInv', AccountInv, [Next]_vars
  PROVE  AccountFits'
<1> SUFFICES ASSUME restarts' = 0, Headroom <= Total
             PROVE  artifactBytes' + Sum(reserved', Jobs) <= Total - Headroom
  BY DEF AccountFits
<1>0. /\ TypeOK /\ TypeOK' /\ LaunchAgrees /\ AccountFits /\ ReservationsCover
      /\ \A j \in Jobs : reserved[j] \in Nat /\ size[j] \in Nat
      /\ artifactBytes \in Nat /\ artifactBytes' \in Nat /\ Total \in Nat /\ Headroom \in Nat
      /\ Initial \in Nat
      /\ Sum(reserved, Jobs) \in Int
      /\ restarts \in Nat
  BY SizeType, SumTypes, CapacityAssumption DEF IInv, AccountInv, TypeOK
<1> DEFINE Same == restarts = 0 /\ artifactBytes' <= artifactBytes /\ reserved' = reserved
<1>1. CASE Same
  BY <1>0, <1>1 DEF AccountFits
<1>2. CASE Reserve
  <2>1. restarts = 0 /\ dispatch.job \in Jobs
    BY <1>0, <1>2 DEF Reserve, TypeOK
  <2>2. Sum(reserved', Jobs) = Sum(reserved, Jobs) - reserved[dispatch.job] + Initial
    BY <1>0, <1>2, <2>1, ReservedChange DEF Reserve
  <2>3. artifactBytes + Sum(reserved, Jobs) + Initial <= Total - Headroom
    BY <1>0, <1>2, <2>1, FitsLeaves DEF Reserve
  <2>4. reserved[dispatch.job] \in Nat /\ artifactBytes' = artifactBytes
    BY <1>0, <1>2, <2>1 DEF Reserve
  <2> QED
    BY <1>0, <2>2, <2>3, <2>4
<1>3. ASSUME NEW j \in Jobs, GrowAndMove(j)
      PROVE  artifactBytes' + Sum(reserved', Jobs) <= Total - Headroom
  <2>1. PICK target \in Nat : target = Grown(reserved[j], size[j]) /\ reserved[j] <= target
    BY <1>0, GrowSuffices
  <2>2. restarts = 0 /\ artifactBytes' = artifactBytes /\ Fits(target - reserved[j])
        /\ reserved' = [reserved EXCEPT ![j] = target]
    BY <1>3, <2>1 DEF GrowAndMove
  <2>3. Sum(reserved', Jobs) = Sum(reserved, Jobs) - reserved[j] + target
    BY <1>0, <2>2, ReservedChange
  <2>4. target - reserved[j] \in Nat
    BY <1>0, <2>1
  <2>5. artifactBytes + Sum(reserved, Jobs) + (target - reserved[j]) <= Total - Headroom
    BY <1>0, <2>2, <2>4, FitsLeaves
  <2> QED
    BY <1>0, <2>1, <2>2, <2>3, <2>5
<1>4. ASSUME NEW j \in Jobs, Account(j)
      PROVE  artifactBytes' + Sum(reserved', Jobs) <= Total - Headroom
  <2>1. restarts = 0 /\ stage[j] = "recorded" /\ artifactBytes' = artifactBytes + size[j]
        /\ reserved' = [reserved EXCEPT ![j] = 0]
    BY <1>4 DEF Account
  <2>2. size[j] <= reserved[j]
    BY <1>0, <2>1 DEF ReservationsCover
  <2>3. Sum(reserved', Jobs) = Sum(reserved, Jobs) - reserved[j] + 0
    BY <1>0, <2>1, ReservedChange
  <2> QED
    BY <1>0, <2>1, <2>2, <2>3 DEF AccountFits
<1>5. CASE LaunchStep
  <2>1. Reserve \/ Same
    BY <1>0, <1>5 DEF LaunchStep, ReadPayload, ReserveDenied, ReportDenial, Spawn,
       LaunchRaises, account
  <2> QED
    BY <1>1, <1>2, <2>1
<1>6. ASSUME NEW j \in Jobs, PublishStep(j)
      PROVE  artifactBytes' + Sum(reserved', Jobs) <= Total - Headroom
  <2>1. GrowAndMove(j) \/ Account(j) \/ Same
    BY <1>0, <1>6 DEF PublishStep, GrowDenied, EnsureFails, Record, RecordFails, AccountFails,
       EndPublish, account
  <2> QED
    BY <1>1, <1>3, <1>4, <2>1
<1>7. ASSUME NEW j \in Jobs,
             \/ Claim(j) \/ WorkerFails(j) \/ EnterPublish(j) \/ DeleteElsewhere(j)
             \/ \E n \in Sizes : Candidate(j, n)
             \/ \E e \in Evictors : EvictUnlink(e, j)
      PROVE Same
  BY <1>0, <1>7 DEF Claim, WorkerFails, EnterPublish, DeleteElsewhere, Candidate, EvictUnlink,
     account
<1>8. ASSUME NEW e \in Evictors, EvictFinish(e) PROVE Same
  <2>1. size[evicting[e]] \in Nat
    BY <1>0, <1>8 DEF EvictFinish, TypeOK
  <2> QED
    BY <1>0, <1>8, <2>1 DEF EvictFinish, AtLeastZero
<1>9. CASE Restart
  <2>1. restarts' = restarts + 1
    BY <1>9 DEF Restart
  <2> QED
    BY <1>0, <2>1
<1>10. CASE UNCHANGED vars
  <2>1. Same
    BY <1>0, <1>10 DEF vars, account
  <2> QED
    BY <1>1, <2>1
<1> HIDE DEF Same
<1> QED
  BY <1>1, <1>5, <1>6, <1>7, <1>8, <1>9, <1>10 DEF Next

\* The weights and the artifact bytes move together.
LEMMA ChargesKept ==
  ASSUME IInv, IInv', AccountInv, [Next]_vars
  PROVE  ChargesCovered'
<1> SUFFICES ASSUME restarts' = 0
             PROVE  Sum(Charge', Jobs) <= artifactBytes'
  BY DEF ChargesCovered
<1>0. /\ TypeOK /\ TypeOK' /\ LaunchAgrees /\ DeletionsAgree /\ ChargesCovered
      /\ \A j \in Jobs : size[j] \in Nat /\ Charge[j] \in Int /\ Charge'[j] \in Int
      /\ artifactBytes \in Nat /\ artifactBytes' \in Nat
      /\ Sum(Charge, Jobs) \in Int /\ Sum(Charge', Jobs) \in Int
      /\ restarts \in Nat /\ IsFiniteSet(Jobs)
  <2>1. /\ \A j \in Jobs : Charge[j] \in Int /\ size[j] \in Nat
        /\ Sum(Charge, Jobs) \in Int
    BY SizeType, SumTypes DEF IInv
  <2>2. /\ \A j \in Jobs : Charge'[j] \in Int
        /\ Sum(Charge', Jobs) \in Int
    <3>0. \A n \in Sizes \cup {0} : n \in Nat
      BY CapacityAssumption
    <3>1. \A j \in Jobs : size'[j] \in Nat
      BY <3>0 DEF IInv, TypeOK, JobTypes
    <3>2. \A j \in Jobs : Charge'[j] \in Int
      BY <3>1 DEF Charge
    <3> HIDE DEF Charge
    <3> QED
      BY <3>2, SumRemove, CapacityAssumption
  <2>3. /\ TypeOK /\ TypeOK' /\ LaunchAgrees /\ DeletionsAgree /\ ChargesCovered
        /\ artifactBytes \in Nat /\ artifactBytes' \in Nat
        /\ restarts \in Nat /\ IsFiniteSet(Jobs)
    BY CapacityAssumption DEF IInv, AccountInv, TypeOK
  <2> QED
    BY <2>1, <2>2, <2>3
<1> DEFINE Lighter == /\ restarts = 0 /\ artifactBytes' = artifactBytes
                      /\ \A j \in Jobs : Charge'[j] <= Charge[j]
\* nothing weighs more than before
<1>1. CASE Lighter
  <2>1. Sum(Charge', Jobs) <= Sum(Charge, Jobs)
    BY <1>0, <1>1, SumOrder
  <2> QED
    BY <1>0, <1>1, <2>1 DEF ChargesCovered
\* one artifact's weight changes by d, and the artifact bytes by at least that
<1>2. ASSUME NEW j \in Jobs, NEW d \in Int, restarts = 0,
             Charge'[j] = Charge[j] + d,
             \A k \in Jobs \ {j} : Charge[k] = Charge'[k],
             artifactBytes' >= artifactBytes + d
      PROVE  Sum(Charge', Jobs) <= artifactBytes'
  <2>1. Sum(Charge', Jobs) = Sum(Charge, Jobs) - Charge[j] + Charge'[j]
    BY <1>0, <1>2, SumChange
  <2>2. Sum(Charge, Jobs) <= artifactBytes
    BY <1>0, <1>2 DEF ChargesCovered
  <2> QED
    BY <1>0, <1>2, <2>1, <2>2
<1>3. CASE LaunchStep
  <2>1. Lighter
    BY <1>0, <1>3 DEF LaunchStep, ReadPayload, Reserve, ReserveDenied, ReportDenial, Spawn,
       LaunchRaises, EndLaunch, LaunchAgrees, TypeOK, JobTypes, Charge, Counted, account, disk
  <2> HIDE DEF Lighter
  <2> QED
    BY <1>1, <2>1
<1>4. ASSUME NEW j \in Jobs, PublishStep(j)
      PROVE  Sum(Charge', Jobs) <= artifactBytes'
  <2>1. CASE Account(j)
    <3>1. /\ restarts = 0 /\ artifactBytes' = artifactBytes + size[j] /\ size[j] \in Nat
          /\ Charge'[j] = Charge[j] + size[j]
          /\ \A k \in Jobs \ {j} : Charge[k] = Charge'[k]
      BY <1>0, <2>1 DEF Account, TypeOK, JobTypes, Charge, Counted, disk
    <3>2. size[j] \in Int /\ artifactBytes' >= artifactBytes + size[j]
      BY <1>0, <3>1
    <3> QED
      BY <1>2, <3>1, <3>2
  <2> USE <1>0 DEF LeavePublish, TypeOK, JobTypes, Charge, Counted, account, disk
  <2>2. CASE GrowAndMove(j)
    <3>1. Lighter
      BY <2>2 DEF GrowAndMove
    <3> QED
      BY ONLY <1>1, <3>1
  <2>3. CASE GrowDenied(j) \/ EnsureFails(j)
    <3>1. Lighter
      BY <2>3 DEF GrowDenied, EnsureFails
    <3> QED
      BY ONLY <1>1, <3>1
  <2>4. CASE Record(j) \/ RecordFails(j)
    <3>1. Lighter
      BY <2>4 DEF Record, RecordFails, DeletionsAgree
    <3> QED
      BY ONLY <1>1, <3>1
  <2>5. CASE AccountFails(j) \/ EndPublish(j)
    <3>1. Lighter
      BY <2>5 DEF AccountFails, EndPublish
    <3> QED
      BY ONLY <1>1, <3>1
  <2> QED
    BY ONLY <1>4, <2>1, <2>2, <2>3, <2>4, <2>5 DEF PublishStep
<1>5. ASSUME NEW j \in Jobs,
             \/ Claim(j) \/ WorkerFails(j) \/ EnterPublish(j) \/ DeleteElsewhere(j)
             \/ \E n \in Sizes : Candidate(j, n)
             \/ \E e \in Evictors : EvictUnlink(e, j)
      PROVE Lighter
  <2> USE <1>0 DEF TypeOK, JobTypes, Charge, Counted, account, disk
  <2>1. CASE Claim(j) \/ WorkerFails(j) \/ EnterPublish(j)
    BY <2>1 DEF Claim, WorkerFails, EnterPublish
  <2>2. CASE \E n \in Sizes : Candidate(j, n)
    BY <2>2 DEF Candidate, DeletionsAgree
  <2>3. CASE DeleteElsewhere(j)
    BY <2>3 DEF DeleteElsewhere
  <2>4. CASE \E e \in Evictors : EvictUnlink(e, j)
    BY <2>4 DEF EvictUnlink
  <2> QED
    BY <1>5, <2>1, <2>2, <2>3, <2>4
<1>6. ASSUME NEW e \in Evictors, EvictFinish(e)
      PROVE  Sum(Charge', Jobs) <= artifactBytes'
  <2> DEFINE a == evicting[e]
  <2>1. a \in Jobs /\ access[a] = "pending"
    BY <1>0, <1>6 DEF EvictFinish, TypeOK, DeletionsAgree
  <2>2. /\ restarts = 0 /\ stage' = stage /\ size' = size
        /\ access' = [access EXCEPT ![a] = "deleted"]
        /\ artifactBytes' = AtLeastZero(artifactBytes - size[a])
    BY <1>6 DEF EvictFinish
  <2> HIDE DEF a
  <2>3. artifactBytes' >= artifactBytes + (-size[a]) /\ -size[a] \in Int
    BY <1>0, <2>1, <2>2 DEF AtLeastZero
  <2>4. /\ Charge'[a] = Charge[a] + (-size[a])
        /\ \A k \in Jobs \ {a} : Charge[k] = Charge'[k]
    BY <1>0, <2>1, <2>2 DEF Charge, Counted, TypeOK, JobTypes
  <2> QED
    BY <1>2, <2>1, <2>2, <2>3, <2>4
<1>7. CASE Restart
  <2>1. restarts' = restarts + 1
    BY <1>7 DEF Restart
  <2> QED
    BY <1>0, <2>1
<1>8. CASE UNCHANGED vars
  <2>1. Lighter
    BY <1>0, <1>8 DEF vars, account, disk, Charge
  <2> QED
    BY <1>1, <2>1
<1> HIDE DEF Lighter
<1> QED
  BY <1>1, <1>3, <1>4, <1>5, <1>6, <1>7, <1>8 DEF Next

\* A job's share of the disk is what it weighs in the account, or less.
LEMMA SharesCovered ==
  ASSUME IInv, DeletionsAgree, ReservationsCover, restarts = 0, NEW j \in Jobs
  PROVE  (IF j \in file THEN size[j] ELSE 0) + (IF j \in Writing THEN reserved[j] ELSE 0)
           <= Charge[j] + reserved[j]
<1>1. size[j] \in Nat /\ reserved[j] \in Nat
  BY SizeType DEF IInv
<1>2. stage[j] \in {"queued", "launching", "running", "candidate", "ensure", "moved",
                    "recorded", "accounted", "done", "over"}
  BY DEF IInv, TypeOK, JobTypes
<1>3. CASE j \in Writing
  <2>1. j \notin file
    BY <1>3 DEF IInv, FilesArePublished, Writing
  <2>2. Charge[j] = 0
    BY <1>3 DEF Writing, DeletionsAgree, Charge, Counted
  <2> QED
    BY <1>1, <1>3, <2>1, <2>2
<1>4. CASE j \notin Writing /\ stage[j] \in Counted
  <2>1. Charge[j] = IF access[j] = "deleted" THEN 0 ELSE size[j]
    BY <1>4 DEF Charge
  <2>2. access[j] = "deleted" => j \notin file
    BY DEF DeletionsAgree
  <2> QED
    BY <1>1, <1>4, <2>1, <2>2
<1>5. CASE j \notin Writing /\ stage[j] \notin Counted
  <2>1. Charge[j] = IF access[j] = "deleted" THEN -size[j] ELSE 0
    BY <1>5 DEF Charge
  <2>2. access[j] = "deleted" => j \notin file
    BY DEF DeletionsAgree
  <2>3. j \in file => size[j] <= reserved[j]
    BY <1>5 DEF IInv, FilesArePaidFor, Counted
  <2>4. access[j] = "deleted" => size[j] <= reserved[j]
    BY <1>5 DEF DeletionsAgree, ReservationsCover, Counted
  <2> QED
    BY <1>1, <1>5, <2>1, <2>2, <2>3, <2>4
<1> QED
  BY <1>3, <1>4, <1>5

\* Added over all jobs: the disk holds no more than the account has granted.
LEMMA SpaceFollows ==
  ASSUME IInv, AccountInv
  PROVE  PromisedSpaceExists
<1> SUFFICES ASSUME restarts = 0, Headroom <= Total
             PROVE  Bytes(file) + Reserved(Writing) <= Total - Headroom
  BY DEF PromisedSpaceExists
<1>1. /\ TypeOK /\ DeletionsAgree /\ ReservationsCover
      /\ file \in SUBSET Jobs /\ Writing \in SUBSET Jobs /\ IsFiniteSet(Jobs)
      /\ artifactBytes \in Int /\ Total \in Int /\ Headroom \in Int
  BY CapacityAssumption DEF IInv, AccountInv, TypeOK, JobTypes, Writing
<1>2. \A j \in Jobs : size[j] \in Int /\ reserved[j] \in Int /\ Charge[j] \in Int
  BY <1>1, SumTypes
<1>3. \A j \in Jobs :
         (IF j \in file THEN size[j] ELSE 0) + (IF j \in Writing THEN reserved[j] ELSE 0)
           <= Charge[j] + reserved[j]
  BY <1>1, SharesCovered
<1>4. Sum(size, file) + Sum(reserved, Writing) <= Sum(Charge, Jobs) + Sum(reserved, Jobs)
  BY <1>1, <1>2, <1>3, SumParts
<1>5. Sum(Charge, Jobs) <= artifactBytes
      /\ artifactBytes + Sum(reserved, Jobs) <= Total - Headroom
  BY DEF AccountInv, ChargesCovered, AccountFits
<1>6. /\ Sum(size, file) \in Int /\ Sum(reserved, Writing) \in Int
      /\ Sum(Charge, Jobs) \in Int /\ Sum(reserved, Jobs) \in Int
  <2>1. IsFiniteSet(file) /\ IsFiniteSet(Writing)
    BY <1>1, FS_Subset
  <2>2. (\A j \in file : size[j] \in Int) /\ (\A j \in Writing : reserved[j] \in Int)
    BY <1>1, <1>2
  <2> QED
    BY <1>1, <2>1, <2>2, SumTypes, SumRemove
<1>7. Bytes(file) = Sum(size, file) /\ Reserved(Writing) = Sum(reserved, Writing)
  BY DEF Bytes, Reserved, Sum
<1> QED
  BY <1>1, <1>4, <1>5, <1>6, <1>7

------------------------------------------------------------------------------
(* The theorems.                                                            *)

\* The invariant holds of the account, the dispatcher and the publisher.
THEOREM Invariance == Spec => []IInv
  BY InitIInv, NextKeeps, PTL DEF Spec

\* The account never leaves the natural numbers, and the semaphore is released at
\* most once too often (CapacityManager, ClockAwareDispatcher.run_once).
THEOREM TypeCorrect == Spec => []TypeOK
<1>1. IInv => TypeOK
  BY DEF IInv
<1> QED
  BY Invariance, <1>1, PTL

\* Whatever fails in publish_candidate, a file on disk is counted: as artifact bytes
\* or by its job's reservation.
THEOREM FilesPaid == Spec => []FilesArePaidFor
<1>1. IInv => FilesArePaidFor
  BY DEF IInv
<1> QED
  BY Invariance, <1>1, PTL

\* The account is right as well.
THEOREM AccountInvariance == Spec => []AccountInv
<1>1. IInv /\ IInv' /\ AccountInv /\ [Next]_vars => AccountInv'
  <2> SUFFICES ASSUME IInv, IInv', AccountInv, [Next]_vars PROVE AccountInv'
    OBVIOUS
  <2>1. DeletionsAgree /\ ReservationsCover
    BY DEF AccountInv
  <2>2. DeletionsAgree' /\ ReservationsCover'
    BY <2>1, DeletionsKept, ReservationsKept
  <2>3. AccountFits' /\ ChargesCovered'
    BY FitsKept, ChargesKept
  <2> QED
    BY <2>2, <2>3 DEF AccountInv
<1> QED
  BY Invariance, InitAccount, <1>1, PTL DEF Spec

\* Until a crash, whatever is evicted, published, denied or lost in between, the files on disk
\* and the space promised to the jobs that still write fit into the capacity less its
\* headroom (CapacityManager, PublishService.publish_candidate, CapacityEvictionService).
THEOREM PromisesKept == Spec => []PromisedSpaceExists
<1>1. IInv /\ AccountInv => PromisedSpaceExists
  BY SpaceFollows
<1> QED
  BY Invariance, AccountInvariance, <1>1, PTL
================================================================================
