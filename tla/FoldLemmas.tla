------------------------------ MODULE FoldLemmas ------------------------------
(***************************************************************************)
(* What the proofs about folds and sums rest on: induction over numbers    *)
(* and over finite sets, each for a set of the numbers or sets of which a  *)
(* statement holds, and the existence of the function by which             *)
(* MapThenFoldSet is defined.                                              *)
(***************************************************************************)
EXTENDS Integers, FiniteSetsExt, FiniteSetTheorems, WellFoundedInduction, TLAPS

\* A set that has 0, and n + 1 when it has n, has every natural number.
LEMMA NumberInduction ==
    ASSUME NEW T, 0 \in T, \A n \in Nat : n \in T => n + 1 \in T
    PROVE  \A n \in Nat : n \in T
<1> DEFINE B == {n \in Nat : n \notin T}
           less == OpToRel(<, Nat)
<1> SUFFICES ASSUME B # {} PROVE FALSE
  OBVIOUS
<1>1. PICK m \in B : \A k \in B : <<k, m>> \notin less
  <2>1. IsWellFoundedOn(less, Nat)
    BY NatLessThanWellFounded
  <2>2. B \subseteq Nat
    OBVIOUS
  <2>3. B # {}
    OBVIOUS
  <2> HIDE DEF B, less
  <2>4. \E x \in B : \A y \in B : ~ (<<y, x>> \in less)
    BY <2>1, <2>2, <2>3, WFMin, Zenon
  <2> QED
    BY <2>4, Zenon
<1> HIDE DEF less
<1>2. m \in Nat \ {0} /\ m - 1 \in Nat /\ m = (m - 1) + 1
  BY <1>1
<1>3. <<m - 1, m>> \in less
  BY <1>2 DEF OpToRel, less
<1>4. m - 1 \in T
  BY <1>1, <1>2, <1>3
<1> QED
  BY <1>2, <1>4

\* A set of subsets of S that has the empty one, and U with one element more
\* when it has U, has S.
LEMMA SetInduction ==
    ASSUME NEW S, IsFiniteSet(S), NEW T, {} \in T,
           \A U \in SUBSET S, x \in S : U \in T /\ x \notin U => U \cup {x} \in T
    PROVE  S \in T
<1> DEFINE N == {n \in Nat : \A U \in SUBSET S : Cardinality(U) = n => U \in T}
<1>1. 0 \in N
  <2>1. ASSUME NEW U \in SUBSET S, Cardinality(U) = 0 PROVE U \in T
    <3>1. IsFiniteSet(U)
      BY FS_Subset
    <3>2. U = {}
      BY <2>1, <3>1, FS_EmptySet
    <3> QED
      BY <3>2
  <2> QED
    BY <2>1
<1>2. ASSUME NEW n \in Nat, n \in N PROVE n + 1 \in N
  <2>1. ASSUME NEW U \in SUBSET S, Cardinality(U) = n + 1 PROVE U \in T
    <3>1. IsFiniteSet(U)
      BY FS_Subset
    <3>2. U # {}
      BY <2>1, FS_EmptySet
    <3>3. PICK x \in U : TRUE
      BY <3>2
    <3>4. Cardinality(U \ {x}) = Cardinality(U) - 1
      BY <3>1, <3>3, FS_RemoveElement
    <3>4a. U \ {x} \in SUBSET S /\ Cardinality(U \ {x}) = n
      BY <2>1, <3>4
    <3>5. U \ {x} \in T
      BY <1>2, <3>4a
    <3>6. (U \ {x}) \cup {x} \in T
      BY <3>3, <3>5
    <3>7. (U \ {x}) \cup {x} = U
      BY <3>3
    <3> QED
      BY <3>6, <3>7
  <2> QED
    BY <2>1
<1>3. \A n \in Nat : n \in N
  <2> HIDE DEF N
  <2> QED
    BY <1>1, <1>2, NumberInduction
<1>4. Cardinality(S) \in Nat
  BY FS_CardinalityType
<1> QED
  BY <1>3, <1>4

\* What a fold of the subsets of a finite set needs: a value to start from,
\* an element to take first, and a step that stays in the set of values.
Foldable(S, V, base, pick, step) ==
    /\ IsFiniteSet(S)
    /\ base \in V
    /\ \A U \in SUBSET S : U # {} => pick[U] \in U
    /\ \A x \in S, v \in V : step[x][v] \in V

IsFold(f, S, V, base, pick, step) ==
    /\ f \in [SUBSET S -> V]
    /\ f[{}] = base
    /\ \A U \in SUBSET S : U # {} => f[U] = step[pick[U]][f[U \ {pick[U]}]]

\* The function that folds the subsets of a finite set exists, whatever
\* element of a subset is taken first.
LEMMA FoldExists ==
    ASSUME NEW S, NEW V, NEW base, NEW pick, NEW step, Foldable(S, V, base, pick, step)
    PROVE  \E f : IsFold(f, S, V, base, pick, step)
<1> USE DEF Foldable
<1> DEFINE D(n) == {U \in SUBSET S : Cardinality(U) <= n}
           Folds(f, n) == \A U \in D(n) : f[U] = IF U = {} THEN base
                                                 ELSE step[pick[U]][f[U \ {pick[U]}]]
           N == {n \in Nat : \E f \in [D(n) -> V] : Folds(f, n)}
<1>1. ASSUME NEW U \in SUBSET S PROVE IsFiniteSet(U) /\ Cardinality(U) \in Nat
  BY FS_Subset, FS_CardinalityType
<1>2. ASSUME NEW n \in Nat, NEW U \in D(n + 1), U # {}
      PROVE  pick[U] \in S /\ U \ {pick[U]} \in D(n)
  <2>1. Cardinality(U \ {pick[U]}) = Cardinality(U) - 1
    BY <1>1, <1>2, FS_RemoveElement
  <2> QED
    BY <1>1, <1>2, <2>1
<1>3. 0 \in N
  <2>1. \A U \in D(0) : U = {}
    BY <1>1, FS_EmptySet
  <2>2. [U \in D(0) |-> base] \in [D(0) -> V]
    OBVIOUS
  <2> QED
    BY <2>1, <2>2
<1>4. ASSUME NEW n \in Nat, n \in N PROVE n + 1 \in N
  <2>1. PICK f \in [D(n) -> V] : Folds(f, n)
    BY <1>4
  <2> DEFINE g == [U \in D(n + 1) |-> IF U = {} THEN base
                                      ELSE step[pick[U]][f[U \ {pick[U]}]]]
  <2>2. g \in [D(n + 1) -> V]
    <3>1. ASSUME NEW U \in D(n + 1), U # {} PROVE step[pick[U]][f[U \ {pick[U]}]] \in V
      BY <1>2, <3>1
    <3> QED
      BY <3>1
  <2>3. ASSUME NEW U \in D(n) PROVE U \in D(n + 1) /\ g[U] = f[U]
    <3>1. U \in D(n + 1)
      BY <1>1
    <3> QED
      BY <2>1, <3>1
  <2>4. Folds(g, n + 1)
    <3>1. ASSUME NEW U \in D(n + 1), U # {}
          PROVE  g[U] = step[pick[U]][g[U \ {pick[U]}]]
      BY <1>2, <2>3, <3>1
    <3> QED
      BY <3>1
  <2> HIDE DEF g, D
  <2>5. \E h \in [D(n + 1) -> V] : Folds(h, n + 1)
    BY <2>2, <2>4
  <2>6. n + 1 \in Nat
    OBVIOUS
  <2> HIDE DEF Folds
  <2> QED
    BY <2>5, <2>6, Zenon
<1>5. \A n \in Nat : n \in N
  <2> HIDE DEF N
  <2> QED
    BY <1>3, <1>4, NumberInduction
<1> DEFINE c == Cardinality(S)
<1>6. c \in Nat /\ c \in N
  BY <1>5, FS_CardinalityType
<1>7. D(c) = SUBSET S
  BY FS_Subset
<1>8. PICK f \in [SUBSET S -> V] : Folds(f, c)
  BY <1>6, <1>7
<1>9. \A U \in SUBSET S : f[U] = IF U = {} THEN base ELSE step[pick[U]][f[U \ {pick[U]}]]
  BY <1>7, <1>8
<1> QED
  BY <1>8, <1>9 DEF IsFold

\* A finite set of numbers that is not empty has a greatest one.
LEMMA MaxExists ==
    ASSUME NEW S \in SUBSET Int, IsFiniteSet(S), S # {}
    PROVE  Max(S) \in S /\ \A y \in S : Max(S) >= y
<1> DEFINE T == {U \in SUBSET S : U = {} \/ \E x \in U : \A y \in U : x >= y}
<1>1. ASSUME NEW U \in SUBSET S, NEW x \in S, U \in T, x \notin U PROVE U \cup {x} \in T
  <2>1. CASE U = {}
    BY <2>1
  <2>2. ASSUME NEW m \in U, \A y \in U : m >= y PROVE \E z \in U \cup {x} : \A y \in U \cup {x} : z >= y
    <3>1. CASE x >= m
      BY <2>2, <3>1
    <3>2. CASE m >= x
      BY <2>2, <3>2
    <3> QED
      BY <3>1, <3>2
  <2> QED
    BY <1>1, <2>1, <2>2
<1>2. {} \in T
  OBVIOUS
<1>3. S \in T
  <2> HIDE DEF T
  <2> QED
    BY <1>1, <1>2, SetInduction
<1>4. \E x \in S : \A y \in S : x >= y
  BY <1>3
<1> QED
  BY <1>4 DEF Max

\* A finite set of numbers that is not empty has a least one.
LEMMA MinExists ==
    ASSUME NEW S \in SUBSET Int, IsFiniteSet(S), S # {}
    PROVE  Min(S) \in S /\ \A y \in S : Min(S) <= y
<1> DEFINE T == {U \in SUBSET S : U = {} \/ \E x \in U : \A y \in U : x <= y}
<1>1. ASSUME NEW U \in SUBSET S, NEW x \in S, U \in T, x \notin U PROVE U \cup {x} \in T
  <2>1. CASE U = {}
    BY <2>1
  <2>2. ASSUME NEW m \in U, \A y \in U : m <= y PROVE \E z \in U \cup {x} : \A y \in U \cup {x} : z <= y
    <3>1. CASE x <= m
      BY <2>2, <3>1
    <3>2. CASE m <= x
      BY <2>2, <3>2
    <3> QED
      BY <3>1, <3>2
  <2> QED
    BY <1>1, <2>1, <2>2
<1>2. {} \in T
  OBVIOUS
<1>3. S \in T
  <2> HIDE DEF T
  <2> QED
    BY <1>1, <1>2, SetInduction
<1>4. \E x \in S : \A y \in S : x <= y
  BY <1>3
<1> QED
  BY <1>4 DEF Min

\* The numbers up to n, as a fold over an interval takes them.
LEMMA LastOfPrefix ==
    ASSUME NEW n \in Nat \ {0}
    PROVE  /\ Max(1 .. n) = n
           /\ (1 .. n) \ {n} = 1 .. (n - 1)
           /\ 1 .. n # {}
<1>1. n \in 1 .. n
  OBVIOUS
<1>2. \A x : x \in (1 .. n) \ {n} <=> x \in 1 .. (n - 1)
  OBVIOUS
<1>3. IsFiniteSet(1 .. n) /\ 1 .. n \in SUBSET Int
  BY FS_Interval
<1>4. Max(1 .. n) \in 1 .. n /\ \A y \in 1 .. n : Max(1 .. n) >= y
  BY <1>1, <1>3, MaxExists
<1> QED
  BY <1>1, <1>2, <1>4

\* A loop of n turns stays in V: step[i][v] is what turn i makes of v.
TurnsOf(step, n, V) == \A i \in 1 .. n, v \in V : step[i][v] \in V

\* What FoldLeft computes for every set of turns, the last one taken last.
IsLoop(f, n, V, base, step) ==
    /\ f \in [SUBSET (1 .. n) -> V]
    /\ f[{}] = base
    /\ \A U \in SUBSET (1 .. n) :
           U # {} => Max(U) \in U /\ f[U] = step[Max(U)][f[U \ {Max(U)}]]

LEMMA LoopOfSets ==
    ASSUME NEW n \in Nat, NEW V, NEW base \in V, NEW step, TurnsOf(step, n, V)
    PROVE  \E f : IsLoop(f, n, V, base, step)
<1> DEFINE D == 1 .. n
           pick == [U \in SUBSET D |-> Max(U)]
<1>1. IsFiniteSet(D)
  BY FS_Interval
<1>2. ASSUME NEW U \in SUBSET D, U # {} PROVE Max(U) \in U /\ pick[U] = Max(U)
  <2>1. U \in SUBSET Int
    OBVIOUS
  <2>2. IsFiniteSet(U)
    <3> HIDE DEF D
    <3> QED
      BY <1>1, FS_Subset
  <2> QED
    BY <1>2, <2>1, <2>2, MaxExists
<1> HIDE DEF pick, D
<1>3. PICK f : IsFold(f, D, V, base, pick, step)
  <2>1. Foldable(D, V, base, pick, step)
    BY <1>1, <1>2 DEF Foldable, TurnsOf, D
  <2> QED
    BY <2>1, FoldExists
<1>4. f \in [SUBSET D -> V] /\ f[{}] = base
  BY <1>3 DEF IsFold
<1>5. \A U \in SUBSET D : U # {} => Max(U) \in U /\ f[U] = step[Max(U)][f[U \ {Max(U)}]]
  BY <1>2, <1>3 DEF IsFold
<1> QED
  BY <1>4, <1>5 DEF IsLoop, D

\* The values that a loop goes through.
LEMMA LoopExists ==
    ASSUME NEW n \in Nat, NEW V, NEW base \in V, NEW step, TurnsOf(step, n, V)
    PROVE  \E u \in [0 .. n -> V] : /\ u[0] = base
                                   /\ \A i \in 1 .. n : u[i] = step[i][u[i - 1]]
<1>1. PICK f : IsLoop(f, n, V, base, step)
  BY LoopOfSets
<1> DEFINE u == [i \in 0 .. n |-> f[1 .. i]]
<1>2. u \in [0 .. n -> V]
  BY <1>1 DEF IsLoop
<1>3. u[0] = base
  BY <1>1 DEF IsLoop
<1>4. ASSUME NEW i \in 1 .. n PROVE u[i] = step[i][u[i - 1]]
  <2>1. i \in Nat \ {0} /\ 1 .. i \in SUBSET (1 .. n)
    OBVIOUS
  <2>2. Max(1 .. i) = i /\ (1 .. i) \ {i} = 1 .. (i - 1) /\ 1 .. i # {}
    BY <2>1, LastOfPrefix
  <2>3. f[1 .. i] = step[i][f[1 .. (i - 1)]]
    BY <1>1, <2>1, <2>2 DEF IsLoop
  <2> QED
    BY <2>3
<1> HIDE DEF u
<1> QED
  BY <1>2, <1>3, <1>4

------------------------------------------------------------------------------
(* Sums                                                                    *)

\* The sum of the numbers f[x] of the elements of S.
SumOf(f, S) == MapThenSumSet(LAMBDA x : f[x], S)

\* g gives every subset of S its sum, in whatever order it is taken.
Additive(g, f, S) ==
    /\ g \in [SUBSET S -> Int]
    /\ g[{}] = 0
    /\ \A U \in SUBSET S, x \in S : x \notin U => g[U \cup {x}] = g[U] + f[x]

LEMMA AdditiveExists ==
    ASSUME NEW S, IsFiniteSet(S), NEW f, \A x \in S : f[x] \in Int
    PROVE  \E g : Additive(g, f, S)
<1> DEFINE T == {U \in SUBSET S : \E g : Additive(g, f, U)}
<1>1. {} \in T
  <2> DEFINE g == [U \in SUBSET {} |-> 0]
  <2>1. Additive(g, f, {})
    BY DEF Additive
  <2> QED
    BY <2>1
<1>2. ASSUME NEW U \in SUBSET S, NEW x \in S, U \in T, x \notin U PROVE U \cup {x} \in T
  <2>1. PICK g : Additive(g, f, U)
    BY <1>2
  <2> DEFINE h == [V \in SUBSET (U \cup {x}) |-> IF x \in V THEN g[V \ {x}] + f[x] ELSE g[V]]
  <2>2. \A V \in SUBSET (U \cup {x}) :
            /\ x \in V => V \ {x} \in SUBSET U
            /\ x \notin V => V \in SUBSET U
    OBVIOUS
  <2>3. h \in [SUBSET (U \cup {x}) -> Int] /\ h[{}] = 0
    BY <2>1, <2>2 DEF Additive
  <2>4. ASSUME NEW V \in SUBSET (U \cup {x}), NEW y \in U \cup {x}, y \notin V
        PROVE  h[V \cup {y}] = h[V] + f[y]
    <3>1. CASE y = x
      <4>1. (V \cup {y}) \ {x} = V /\ x \in V \cup {y} /\ x \notin V
        BY <2>4, <3>1
      <4> QED
        BY <3>1, <4>1
    <3>2. CASE y # x /\ x \in V
      <4>1. (V \cup {y}) \ {x} = (V \ {x}) \cup {y} /\ V \ {x} \in SUBSET U /\ y \in U
        BY <2>4, <3>2
      <4>2. g[(V \ {x}) \cup {y}] = g[V \ {x}] + f[y]
        BY <2>1, <2>4, <4>1 DEF Additive
      <4>3. g[V \ {x}] \in Int /\ f[x] \in Int /\ f[y] \in Int
        BY <2>1, <4>1 DEF Additive
      <4>4. h[V \cup {y}] = g[(V \ {x}) \cup {y}] + f[x] /\ h[V] = g[V \ {x}] + f[x]
        BY <3>2, <4>1
      <4> HIDE DEF h
      <4> QED
        BY <4>2, <4>3, <4>4
    <3>3. CASE y # x /\ x \notin V
      <4>1. V \in SUBSET U /\ y \in U /\ x \notin V \cup {y}
        BY <2>4, <3>3
      <4> QED
        BY <2>1, <2>4, <4>1 DEF Additive
    <3> QED
      BY <3>1, <3>2, <3>3
  <2> HIDE DEF h
  <2>5. Additive(h, f, U \cup {x})
    BY <2>3, <2>4 DEF Additive
  <2> QED
    BY <2>5
<1>3. S \in T
  <2> HIDE DEF T
  <2> QED
    BY <1>1, <1>2, SetInduction
<1> QED
  BY <1>3

\* The fold adds the numbers of a set up, whichever element it takes first.
LEMMA SumIsAdditive ==
    ASSUME NEW S, IsFiniteSet(S), NEW f, NEW g, Additive(g, f, S),
           \A x \in S : f[x] \in Int
    PROVE  SumOf(f, S) = g[S]
<1> DEFINE first(U) == CHOOSE x \in U : TRUE
           pick == [U \in SUBSET S |-> first(U)]
           step == [x \in S |-> [v \in Int |-> f[x] + v]]
           Eq(h) == h = [U \in SUBSET S |->
                           IF U = {} THEN 0 ELSE f[first(U)] + h[U \ {first(U)}]]
           iter == CHOOSE h : Eq(h)
<1>1. \A U \in SUBSET S : U # {} => first(U) \in U
  OBVIOUS
<1>2. \E h : Eq(h)
  <2>1. \A U \in SUBSET S : U # {} => pick[U] \in U
    BY <1>1
  <2>2. \A x \in S, v \in Int : step[x][v] \in Int
    OBVIOUS
  <2> HIDE DEF pick, step
  <2>3. PICK h : IsFold(h, S, Int, 0, pick, step)
    <3>1. Foldable(S, Int, 0, pick, step)
      BY <2>1, <2>2 DEF Foldable
    <3> QED
      BY <3>1, FoldExists
  <2>4. ASSUME NEW U \in SUBSET S, U # {}
        PROVE  h[U] = f[first(U)] + h[U \ {first(U)}]
    <3>1. pick[U] = first(U) /\ first(U) \in S
      BY <1>1, <2>4 DEF pick
    <3>2. h[U \ {first(U)}] \in Int
      BY <2>3 DEF IsFold
    <3>3. h[U] = step[first(U)][h[U \ {first(U)}]]
      BY <2>3, <2>4, <3>1 DEF IsFold
    <3> QED
      BY <3>1, <3>2, <3>3 DEF step
  <2>5. h[{}] = 0
    BY <2>3 DEF IsFold
  <2>6. Eq([U \in SUBSET S |-> h[U]])
    BY <2>4, <2>5
  <2> QED
    BY <2>6
<1>3. Eq(iter)
  <2> HIDE DEF Eq
  <2> QED
    BY <1>2, Zenon
<1>4. SumOf(f, S) = iter[S]
  BY DEF SumOf, MapThenSumSet, MapThenFoldSet
<1> HIDE DEF iter
<1>5. \A U \in SUBSET S : IsFiniteSet(U) /\ Cardinality(U) \in Nat
  BY FS_Subset, FS_CardinalityType
<1> DEFINE N == {n \in Nat : \A U \in SUBSET S : Cardinality(U) = n => iter[U] = g[U]}
<1>6. 0 \in N
  <2>1. \A U \in SUBSET S : Cardinality(U) = 0 => U = {}
    BY <1>5, FS_EmptySet
  <2>2. iter[{}] = 0
    BY <1>3
  <2> QED
    BY <2>1, <2>2 DEF Additive
<1>7. ASSUME NEW n \in Nat, n \in N PROVE n + 1 \in N
  <2>1. ASSUME NEW U \in SUBSET S, Cardinality(U) = n + 1 PROVE iter[U] = g[U]
    <3> DEFINE x == first(U)
               V == U \ {x}
    <3>1. U # {}
      BY <2>1, FS_EmptySet
    <3>2. x \in U /\ x \in S /\ V \in SUBSET S /\ x \notin V /\ V \cup {x} = U
      BY <1>1, <3>1
    <3>3. Cardinality(V) = n
      <4>1. IsFiniteSet(U) /\ x \in U
        BY <1>5, <3>2
      <4>2. Cardinality(U \ {x}) = Cardinality(U) - 1
        BY <4>1, FS_RemoveElement
      <4> QED
        BY <2>1, <4>2
    <3>4. iter[U] = f[x] + iter[V]
      BY <1>3, <3>1
    <3>5. iter[V] = g[V]
      BY <1>7, <3>2, <3>3
    <3> HIDE DEF x, V
    <3>6. g[U] = g[V] + f[x] /\ g[V] \in Int /\ f[x] \in Int
      BY <3>2 DEF Additive
    <3> QED
      BY <3>4, <3>5, <3>6
  <2> QED
    BY <2>1
<1>8. \A n \in Nat : n \in N
  <2> HIDE DEF N
  <2> QED
    BY <1>6, <1>7, NumberInduction
<1>9. Cardinality(S) \in N
  BY <1>5, <1>8
<1> QED
  BY <1>4, <1>9

\* One more element, one more number.
LEMMA SumAdds ==
    ASSUME NEW S, IsFiniteSet(S), NEW x, x \notin S, NEW f,
           \A y \in S \cup {x} : f[y] \in Int
    PROVE  /\ SumOf(f, {}) = 0
           /\ SumOf(f, S) \in Int
           /\ SumOf(f, S \cup {x}) = SumOf(f, S) + f[x]
<1>1. IsFiniteSet(S \cup {x}) /\ IsFiniteSet({})
  BY FS_AddElement, FS_EmptySet
<1>2. PICK g : Additive(g, f, S \cup {x})
  BY <1>1, AdditiveExists
<1>3. \A U \in SUBSET (S \cup {x}) : Additive([V \in SUBSET U |-> g[V]], f, U)
  BY <1>2 DEF Additive
<1>4. \A U \in SUBSET (S \cup {x}) : IsFiniteSet(U) => SumOf(f, U) = g[U]
  <2> SUFFICES ASSUME NEW U \in SUBSET (S \cup {x}), IsFiniteSet(U) PROVE SumOf(f, U) = g[U]
    OBVIOUS
  <2> DEFINE h == [V \in SUBSET U |-> g[V]]
  <2>1. Additive(h, f, U) /\ h[U] = g[U] /\ \A y \in U : f[y] \in Int
    BY <1>3
  <2> HIDE DEF h
  <2> QED
    BY <2>1, SumIsAdditive
<1>5. /\ SumOf(f, {}) = g[{}] /\ SumOf(f, S) = g[S] /\ SumOf(f, S \cup {x}) = g[S \cup {x}]
  BY <1>1, <1>4
<1>6. g[{}] = 0 /\ g[S] \in Int /\ g[S \cup {x}] = g[S] + f[x]
  BY <1>2 DEF Additive
<1> QED
  BY <1>5, <1>6

\* Only the numbers of the elements matter.
LEMMA SumDependsOn ==
    ASSUME NEW S, IsFiniteSet(S), NEW f, NEW h, \A x \in S : f[x] \in Int /\ h[x] = f[x]
    PROVE  SumOf(h, S) = SumOf(f, S)
<1>1. PICK g : Additive(g, f, S)
  BY AdditiveExists
<1>2. Additive(g, h, S)
  BY <1>1 DEF Additive
<1>3. SumOf(f, S) = g[S]
  BY <1>1, SumIsAdditive
<1>4. SumOf(h, S) = g[S]
  BY <1>2, SumIsAdditive
<1> QED
  BY <1>3, <1>4

LEMMA SumOfZeros ==
    ASSUME NEW S, IsFiniteSet(S), NEW f, \A x \in S : f[x] = 0
    PROVE  SumOf(f, S) = 0
<1> DEFINE g == [U \in SUBSET S |-> 0]
<1>1. Additive(g, f, S) /\ g[S] = 0
  BY DEF Additive
<1> HIDE DEF g
<1> QED
  BY <1>1, SumIsAdditive

\* One number that is one more makes the sum one more, where it is counted.
LEMMA SumIncrements ==
    ASSUME NEW D, NEW f \in [D -> Nat], NEW x \in D, NEW S \in SUBSET D, IsFiniteSet(S)
    PROVE  SumOf([f EXCEPT ![x] = @ + 1], S) = SumOf(f, S) + IF x \in S THEN 1 ELSE 0
<1> DEFINE h == [f EXCEPT ![x] = @ + 1]
           R == S \ {x}
<1>1. /\ h[x] = f[x] + 1 /\ \A y \in R : h[y] = f[y]
      /\ \A y \in D : f[y] \in Int /\ h[y] \in Int
  OBVIOUS
<1>2. IsFiniteSet(R) /\ x \notin R /\ R \in SUBSET D
  BY FS_Subset
<1> HIDE DEF h, R
<1>3. SumOf(h, R) = SumOf(f, R)
  <2>1. \A y \in R : f[y] \in Int /\ h[y] = f[y]
    BY <1>1, <1>2
  <2> QED
    BY <1>2, <2>1, SumDependsOn
<1>4. /\ SumOf(f, R) \in Int /\ SumOf(f, R \cup {x}) = SumOf(f, R) + f[x]
      /\ SumOf(h, R \cup {x}) = SumOf(h, R) + h[x]
  <2>1. \A y \in R \cup {x} : f[y] \in Int
    BY <1>1, <1>2
  <2>2. \A y \in R \cup {x} : h[y] \in Int
    BY <1>1, <1>2
  <2>3. SumOf(f, R) \in Int /\ SumOf(f, R \cup {x}) = SumOf(f, R) + f[x]
    BY <1>2, <2>1, SumAdds
  <2>4. SumOf(h, R \cup {x}) = SumOf(h, R) + h[x]
    BY <1>2, <2>2, SumAdds
  <2> QED
    BY <2>3, <2>4
<1>5. S = IF x \in S THEN R \cup {x} ELSE R
  BY DEF R
<1>6. SumOf(h, S) = SumOf(f, S) + IF x \in S THEN 1 ELSE 0
  <2>1. CASE x \in S
    <3>1. SumOf(h, S) = SumOf(f, R) + (f[x] + 1) /\ SumOf(f, S) = SumOf(f, R) + f[x]
      BY <1>1, <1>3, <1>4, <1>5, <2>1
    <3>2. f[x] \in Int
      BY <1>1
    <3> QED
      BY <1>4, <2>1, <3>1, <3>2
  <2>2. CASE x \notin S
    BY <1>3, <1>4, <1>5, <2>2
  <2> QED
    BY <2>1, <2>2
<1> QED
  BY <1>6 DEF h

\* More elements, no smaller a sum.
LEMMA SumGrows ==
    ASSUME NEW S, IsFiniteSet(S), NEW R \in SUBSET S, NEW f, \A x \in S : f[x] \in Nat
    PROVE  SumOf(f, R) \in Nat /\ SumOf(f, S) \in Nat /\ SumOf(f, R) <= SumOf(f, S)
<1>1. ASSUME NEW B \in SUBSET S, NEW A \in SUBSET B, SumOf(f, A) \in Nat
      PROVE  SumOf(f, B) \in Nat /\ SumOf(f, A) <= SumOf(f, B)
  <2> DEFINE M == B \ A
             T == {U \in SUBSET M : SumOf(f, A \cup U) \in Nat /\ SumOf(f, A) <= SumOf(f, A \cup U)}
  <2>1. IsFiniteSet(M) /\ A \cup M = B
    BY FS_Subset
  <2>2. {} \in T
    BY <1>1
  <2>3. ASSUME NEW U \in SUBSET M, NEW x \in M, U \in T, x \notin U PROVE U \cup {x} \in T
    <3>1. IsFiniteSet(A \cup U) /\ x \notin A \cup U /\ A \cup (U \cup {x}) = (A \cup U) \cup {x}
      BY <2>3, FS_Subset
    <3>2. \A y \in (A \cup U) \cup {x} : f[y] \in Int
      OBVIOUS
    <3>3. SumOf(f, (A \cup U) \cup {x}) = SumOf(f, A \cup U) + f[x]
      BY <3>1, <3>2, SumAdds
    <3>4. SumOf(f, A \cup U) \in Nat /\ SumOf(f, A) <= SumOf(f, A \cup U) /\ f[x] \in Nat
      BY <2>3
    <3>5. SumOf(f, A \cup (U \cup {x})) \in Nat /\ SumOf(f, A) <= SumOf(f, A \cup (U \cup {x}))
      <4>1. SumOf(f, A \cup (U \cup {x})) = SumOf(f, A \cup U) + f[x]
        BY <3>1, <3>3
      <4> QED
        BY <1>1, <3>4, <4>1
    <3> QED
      BY <3>5
  <2>4. M \in T
    <3> HIDE DEF T
    <3> QED
      BY <2>1, <2>2, <2>3, SetInduction
  <2> QED
    BY <2>1, <2>4
<1>2. SumOf(f, {}) = 0
  <2>1. PICK g : Additive(g, f, {})
    BY FS_EmptySet, AdditiveExists
  <2> QED
    BY <2>1, FS_EmptySet, SumIsAdditive DEF Additive
<1>3. SumOf(f, R) \in Nat
  BY <1>1, <1>2
<1> QED
  BY <1>1, <1>3
==============================================================================
