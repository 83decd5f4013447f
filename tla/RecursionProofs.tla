-------------------------- MODULE RecursionProofs ---------------------------
(***************************************************************************)
(* What the proofs of several components need about recursive functions    *)
(* and sums: that the functions exist which the models define by           *)
(* recursion, and that the sum over a finite set does not depend on the    *)
(* order in which it is taken.                                             *)
(*                                                                         *)
(* Induction is by the least counterexample.  The step of a recursion is a *)
(* function, not an operator.                                              *)
(***************************************************************************)
EXTENDS Integers, FiniteSetsExt, Functions, FiniteSetTheorems, WellFoundedInduction, TLAPS

-----------------------------------------------------------------------------
(* Induction *)

LEMMA MinimalElement ==
  ASSUME NEW R, IsWellFoundedOn(R, Nat), NEW S \in SUBSET Nat, S # {}
  PROVE  \E n \in S : \A m \in S : ~(<<m, n>> \in R)
BY WFMin, Zenon

\* A set of numbers has a least element.
LEMMA LeastNumber ==
  ASSUME NEW S \in SUBSET Nat, S # {}
  PROVE  \E n \in S : \A m \in S : n <= m
<1> DEFINE R == OpToRel(<, Nat)
<1>1. IsWellFoundedOn(R, Nat)
  BY NatLessThanWellFounded
<1>2. \A m, n \in Nat : <<m, n>> \in R <=> m < n
  BY Zenon DEF OpToRel
<1> HIDE DEF R
<1>3. PICK n \in S : \A m \in S : ~(<<m, n>> \in R)
  BY <1>1, MinimalElement
<1>4. \A m \in S : ~(m < n)
  BY <1>2, <1>3
<1> QED BY <1>4

\* A property of the elements of a set that are measured by numbers holds of
\* all when it holds of each of which it holds of all smaller ones.
LEMMA Induction ==
  ASSUME NEW D, NEW m \in [D -> Nat], NEW Good \in SUBSET D,
         \A d \in D : (\A e \in D : m[e] < m[d] => e \in Good) => d \in Good
  PROVE  Good = D
<1> SUFFICES ASSUME NEW bad \in D, bad \notin Good PROVE FALSE
  OBVIOUS
<1> DEFINE S == {m[d] : d \in D \ Good}
<1>1. S \in SUBSET Nat /\ S # {}
  OBVIOUS
<1> HIDE DEF S
<1>2. PICK n \in S : \A k \in S : n <= k
  BY <1>1, LeastNumber
<1>3. PICK d \in D \ Good : n = m[d]
  BY <1>2 DEF S
<1>4. \A e \in D \ Good : m[e] \in S
  BY DEF S
<1>5. \A e \in D : m[e] < m[d] => e \in Good
  BY <1>1, <1>2, <1>3, <1>4
<1> QED BY <1>3, <1>5

LEMMA NatInductionStrong ==
  ASSUME NEW Good \in SUBSET Nat,
         \A n \in Nat : (\A k \in Nat : k < n => k \in Good) => n \in Good
  PROVE  Good = Nat
<1> SUFFICES ASSUME Nat \ Good # {} PROVE FALSE
  OBVIOUS
<1>1. PICK n \in Nat \ Good : \A k \in Nat \ Good : n <= k
  BY LeastNumber
<1>2. \A k \in Nat : k < n => k \in Good
  BY <1>1
<1> QED BY <1>1, <1>2

-----------------------------------------------------------------------------
(* Recursive functions *)

\* f is, on the set D, what the recursion makes of it: leaf where it ends, and
\* elsewhere step of the value at the previous argument.
Recurses(f, D, Ends, prev, leaf, step) ==
  f = [d \in D |-> IF d \in Ends THEN leaf[d] ELSE step[<<d, f[prev[d]]>>]]

\* When the previous argument is always a smaller one, such a function exists.
LEMMA Recursion ==
  ASSUME NEW D, NEW V, NEW m \in [D -> Nat], NEW Ends \in SUBSET D,
         NEW prev \in [D -> D], \A d \in D \ Ends : m[prev[d]] < m[d],
         NEW leaf \in [D -> V], NEW step \in [D \X V -> V]
  PROVE  \E f \in [D -> V] : Recurses(f, D, Ends, prev, leaf, step)
<1> DEFINE Below(n) == {d \in D : m[d] < n}
           Sat(g, n) == /\ g \in [Below(n) -> V]
                        /\ \A d \in Below(n) :
                             g[d] = IF d \in Ends THEN leaf[d] ELSE step[<<d, g[prev[d]]>>]
           Good == {n \in Nat : \E g : Sat(g, n)}
<1>1. \A n \in Nat : \E g : Sat(g, n)
  <2>1. ASSUME NEW n \in Nat, \A k \in Nat : k < n => k \in Good
        PROVE  \E g : Sat(g, n)
    <3>1. CASE n = 0
      <4>1. Below(n) = {}
        BY <3>1
      <4>2. Sat([d \in {} |-> d], n)
        BY <4>1
      <4> QED BY <4>2
    <3>2. CASE n # 0
      <4>1. n - 1 \in Nat /\ n - 1 < n
        BY <3>2
      <4>2. n - 1 \in Good
        BY <2>1, <4>1
      <4>3. PICK g : Sat(g, n - 1)
        BY <4>2
      <4> DEFINE h == [d \in Below(n) |->
                         IF d \in Ends THEN leaf[d] ELSE step[<<d, g[prev[d]]>>]]
      <4>4. \A d \in Below(n) \ Ends : prev[d] \in Below(n - 1)
        BY <4>1
      <4>5. \A d \in Below(n) \ Ends : g[prev[d]] \in V
        BY <4>3, <4>4
      <4>6. h \in [Below(n) -> V]
        BY <4>5
      <4>7. \A d \in Below(n - 1) : d \in Below(n) /\ h[d] = g[d]
        BY <4>1, <4>3
      <4>8. ASSUME NEW d \in Below(n)
            PROVE  h[d] = IF d \in Ends THEN leaf[d] ELSE step[<<d, h[prev[d]]>>]
        BY <4>4, <4>7
      <4>9. Sat(h, n)
        BY <4>6, <4>8
      <4> QED BY <4>9
    <3> QED BY <3>1, <3>2
  <2>2. Good \in SUBSET Nat /\ \A n \in Nat : (\A k \in Nat : k < n => k \in Good) => n \in Good
    <3> HIDE DEF Sat
    <3> QED BY <2>1
  <2>3. Good = Nat
    <3> HIDE DEF Good
    <3> QED BY <2>2, NatInductionStrong
  <2> HIDE DEF Sat
  <2> QED BY <2>3
<1> DEFINE G == [n \in Nat |-> CHOOSE g : Sat(g, n)]
<1>2. ASSUME NEW n \in Nat PROVE Sat(G[n], n)
  <2> HIDE DEF Sat
  <2> QED BY <1>1
<1> HIDE DEF G
<1>3. ASSUME NEW n \in Nat, NEW d \in D, m[d] < n
      PROVE  /\ G[n][d] \in V
             /\ G[n][d] = IF d \in Ends THEN leaf[d] ELSE step[<<d, G[n][prev[d]]>>]
  BY <1>2, <1>3
<1>4. ASSUME NEW n \in Nat, NEW k \in Nat, NEW d \in D, m[d] < n, m[d] < k
      PROVE  G[n][d] = G[k][d]
  <2> DEFINE Same == {e \in D : m[e] < n /\ m[e] < k => G[n][e] = G[k][e]}
  <2>1. ASSUME NEW e \in D, \A c \in D : m[c] < m[e] => c \in Same
        PROVE  e \in Same
    <3> SUFFICES ASSUME m[e] < n, m[e] < k PROVE G[n][e] = G[k][e]
      OBVIOUS
    <3>1. e \notin Ends => /\ m[prev[e]] < m[e] /\ prev[e] \in D
                           /\ m[prev[e]] < n /\ m[prev[e]] < k
      OBVIOUS
    <3>2. e \notin Ends => G[n][prev[e]] = G[k][prev[e]]
      BY <2>1, <3>1
    <3>3. G[n][e] = IF e \in Ends THEN leaf[e] ELSE step[<<e, G[n][prev[e]]>>]
      BY <1>3
    <3>4. G[k][e] = IF e \in Ends THEN leaf[e] ELSE step[<<e, G[k][prev[e]]>>]
      BY <1>3
    <3> QED BY <3>2, <3>3, <3>4
  <2>2. Same \in SUBSET D
    OBVIOUS
  <2>3. Same = D
    <3> HIDE DEF Same
    <3> QED BY <2>1, <2>2, Induction
  <2> QED BY <1>4, <2>3
<1> DEFINE f == [d \in D |-> G[m[d] + 1][d]]
<1>5. f \in [D -> V]
  <2>1. \A d \in D : m[d] + 1 \in Nat /\ m[d] < m[d] + 1
    OBVIOUS
  <2> QED BY <1>3, <2>1
<1>6. ASSUME NEW d \in D
      PROVE  f[d] = IF d \in Ends THEN leaf[d] ELSE step[<<d, f[prev[d]]>>]
  <2>1. d \notin Ends => f[prev[d]] = G[m[d] + 1][prev[d]]
    <3> SUFFICES ASSUME d \notin Ends PROVE f[prev[d]] = G[m[d] + 1][prev[d]]
      OBVIOUS
    <3>1. prev[d] \in D /\ m[prev[d]] < m[d] /\ m[d] \in Nat /\ m[prev[d]] \in Nat
      OBVIOUS
    <3>2. G[m[prev[d]] + 1][prev[d]] = G[m[d] + 1][prev[d]]
      BY <1>4, <3>1
    <3> QED BY <3>1, <3>2
  <2>2. m[d] + 1 \in Nat /\ m[d] < m[d] + 1
    OBVIOUS
  <2> QED BY <1>3, <2>1, <2>2
<1> HIDE DEF f
<1>7. Recurses(f, D, Ends, prev, leaf, step)
  BY <1>5, <1>6 DEF Recurses
<1> QED BY <1>5, <1>7

-----------------------------------------------------------------------------
(* Finite sets *)

LEMMA ImageFinite ==
  ASSUME NEW S, IsFiniteSet(S), NEW f, f \in [S -> {f[x] : x \in S}]
  PROVE  IsFiniteSet({f[x] : x \in S})
<1>1. f \in Surjection(S, {f[x] : x \in S})
  BY DEF Surjection
<1> QED BY <1>1, FS_Surjection

\* The greatest of finitely many numbers.
LEMMA Greatest ==
  ASSUME NEW m \in Nat, NEW S \in SUBSET 0..m, S # {}
  PROVE  Max(S) \in S /\ \A n \in S : n <= Max(S)
<1> DEFINE D == {m - n : n \in S}
<1>1. D \in SUBSET Nat /\ D # {}
  OBVIOUS
<1> HIDE DEF D
<1>2. PICK d \in D : \A e \in D : d <= e
  BY <1>1, LeastNumber
<1>3. PICK x \in S : d = m - x
  BY <1>2 DEF D
<1>4. ASSUME NEW n \in S PROVE x >= n
  <2>1. m - n \in D
    BY DEF D
  <2> QED BY <1>2, <1>3, <2>1
<1>5. \E y \in S : \A n \in S : y >= n
  BY <1>4
<1>6. Max(S) \in S /\ \A n \in S : Max(S) >= n
  BY <1>5 DEF Max
<1> QED BY <1>6

-----------------------------------------------------------------------------
(* Sums *)

Picked(S) == CHOOSE x \in S : TRUE

\* g[T] is the sum of f over the subset T of S, added up in the order of CHOOSE.
Sums(f, S, g) ==
  g = [T \in SUBSET S |-> IF T = {} THEN 0 ELSE f[Picked(T)] + g[T \ {Picked(T)}]]

\* The subsets of a finite set are measured by their cardinality.
LEMMA SubsetSizes ==
  ASSUME NEW S, IsFiniteSet(S)
  PROVE  /\ [T \in SUBSET S |-> Cardinality(T)] \in [SUBSET S -> Nat]
         /\ \A T \in SUBSET S : IsFiniteSet(T)
         /\ \A T \in SUBSET S : \A x \in T :
              Cardinality(T \ {x}) < Cardinality(T)
<1>1. \A T \in SUBSET S : IsFiniteSet(T)
  BY FS_Subset
<1>2. \A T \in SUBSET S : Cardinality(T) \in Nat
  BY <1>1, FS_CardinalityType
<1>3. ASSUME NEW T \in SUBSET S, NEW x \in T
      PROVE  Cardinality(T \ {x}) < Cardinality(T)
  <2>1. IsFiniteSet(T) /\ Cardinality(T) \in Nat
    BY <1>1, <1>2
  <2>2. Cardinality(T \ {x}) = Cardinality(T) - 1
    BY <2>1, FS_RemoveElement
  <2> QED BY <2>1, <2>2
<1> QED BY <1>1, <1>2, <1>3

LEMMA SumExists ==
  ASSUME NEW S, IsFiniteSet(S), NEW f, \A x \in S : f[x] \in Int
  PROVE  /\ \E g : Sums(f, S, g)
         /\ \A g : Sums(f, S, g) => g \in [SUBSET S -> Int]
<1> DEFINE size == [T \in SUBSET S |-> Cardinality(T)]
           prev == [T \in SUBSET S |-> T \ {Picked(T)}]
           leaf == [T \in SUBSET S |-> 0]
           step == [p \in (SUBSET S) \X Int |->
                      IF p[1] = {} THEN 0 ELSE f[Picked(p[1])] + p[2]]
<1>1. \A T \in SUBSET S : T # {} => Picked(T) \in T /\ f[Picked(T)] \in Int
  BY DEF Picked
<1>2. size \in [SUBSET S -> Nat]
  BY SubsetSizes
<1>3. prev \in [SUBSET S -> SUBSET S] /\ leaf \in [SUBSET S -> Int] /\ {{}} \in SUBSET SUBSET S
  OBVIOUS
<1>4. step \in [(SUBSET S) \X Int -> Int]
  BY <1>1
<1>5. \A T \in (SUBSET S) \ {{}} : size[prev[T]] < size[T]
  <2> SUFFICES ASSUME NEW T \in SUBSET S, T # {} PROVE size[prev[T]] < size[T]
    OBVIOUS
  <2>1. Picked(T) \in T /\ T \ {Picked(T)} \in SUBSET S
    BY <1>1
  <2>2. Cardinality(T \ {Picked(T)}) < Cardinality(T)
    BY <2>1, SubsetSizes
  <2> QED BY <2>1, <2>2
<1> HIDE DEF size, prev, leaf, step
<1>6. PICK g \in [SUBSET S -> Int] : Recurses(g, SUBSET S, {{}}, prev, leaf, step)
  BY <1>2, <1>3, <1>4, <1>5, Recursion
<1>7. ASSUME NEW T \in SUBSET S
      PROVE  g[T] = IF T = {} THEN 0 ELSE f[Picked(T)] + g[T \ {Picked(T)}]
  <2>1. g[T] = IF T \in {{}} THEN leaf[T] ELSE step[<<T, g[prev[T]]>>]
    BY <1>6 DEF Recurses
  <2>2. prev[T] = T \ {Picked(T)} /\ leaf[T] = 0 /\ g[prev[T]] \in Int
    BY <1>3 DEF prev, leaf
  <2>3. T # {} => step[<<T, g[prev[T]]>>] = f[Picked(T)] + g[prev[T]]
    BY <2>2 DEF step
  <2> QED BY <2>1, <2>2, <2>3
<1>8. Sums(f, S, g)
  BY <1>6, <1>7 DEF Sums
<1>9. ASSUME NEW h, Sums(f, S, h) PROVE h \in [SUBSET S -> Int]
  <2> DEFINE Good == {T \in SUBSET S : h[T] \in Int}
  <2>1. ASSUME NEW T \in SUBSET S, \A U \in SUBSET S : size[U] < size[T] => U \in Good
        PROVE  T \in Good
    <3>1. h[T] = IF T = {} THEN 0 ELSE f[Picked(T)] + h[T \ {Picked(T)}]
      BY <1>9 DEF Sums
    <3>2. T # {} => T \ {Picked(T)} \in Good
      BY <2>1, <1>5 DEF prev
    <3> QED BY <1>1, <3>1, <3>2
  <2>2. Good \in SUBSET SUBSET S
    OBVIOUS
  <2>3. Good = SUBSET S
    <3> HIDE DEF Good
    <3> QED BY <1>2, <2>1, <2>2, Induction
  <2>4. \A T \in SUBSET S : h[T] \in Int
    BY <2>3
  <2>5. h = [T \in SUBSET S |-> h[T]]
    BY <1>9 DEF Sums
  <2> QED BY <2>4, <2>5
<1> QED BY <1>8, <1>9

SubsetSums(f, S, g) ==
  /\ g \in [SUBSET S -> Int]
  /\ Sums(f, S, g)
  /\ \A T \in SUBSET S : SumFunctionOnSet(f, T) = g[T]

\* The sums over the subsets of a set are the values of one function.
LEMMA SumsOfSubsets ==
  ASSUME NEW S, IsFiniteSet(S), NEW f, \A x \in S : f[x] \in Int
  PROVE  \E g : SubsetSums(f, S, g)
<1>1. PICK g \in [SUBSET S -> Int] : Sums(f, S, g)
  BY SumExists
<1>2. ASSUME NEW T \in SUBSET S
      PROVE  SumFunctionOnSet(f, T) = g[T]
  <2>1. IsFiniteSet(T) /\ \A x \in T : f[x] \in Int
    BY FS_Subset
  <2>2. \E h : Sums(f, T, h)
    BY <2>1, SumExists
  <2>3. SumFunctionOnSet(f, T) = (CHOOSE h : Sums(f, T, h))[T]
    BY DEF SumFunctionOnSet, FoldFunctionOnSet, MapThenFoldSet, Sums, Picked
  <2>4. PICK h : Sums(f, T, h) /\ SumFunctionOnSet(f, T) = h[T]
    BY <2>2, <2>3
  <2> DEFINE size == [U \in SUBSET T |-> Cardinality(U)]
             Good == {U \in SUBSET T : h[U] = g[U]}
  <2>5. ASSUME NEW U \in SUBSET T, \A W \in SUBSET T : size[W] < size[U] => W \in Good
        PROVE  U \in Good
    <3>1. h[U] = IF U = {} THEN 0 ELSE f[Picked(U)] + h[U \ {Picked(U)}]
      BY <2>4 DEF Sums
    <3>2. g[U] = IF U = {} THEN 0 ELSE f[Picked(U)] + g[U \ {Picked(U)}]
      BY <1>1 DEF Sums
    <3>3. U # {} => U \ {Picked(U)} \in Good
      <4> SUFFICES ASSUME U # {} PROVE U \ {Picked(U)} \in Good
        OBVIOUS
      <4>1. Picked(U) \in U /\ U \ {Picked(U)} \in SUBSET T
        BY DEF Picked
      <4>2. Cardinality(U \ {Picked(U)}) < Cardinality(U)
        BY <2>1, <4>1, SubsetSizes
      <4> QED BY <2>5, <4>1, <4>2
    <3> QED BY <3>1, <3>2, <3>3
  <2>6. size \in [SUBSET T -> Nat] /\ Good \in SUBSET SUBSET T
    BY <2>1, SubsetSizes
  <2>7. Good = SUBSET T
    <3> HIDE DEF Good, size
    <3> QED BY <2>5, <2>6, Induction
  <2> QED BY <2>4, <2>7
<1> QED BY <1>1, <1>2 DEF SubsetSums

\* A sum may be begun with any element of the set.
LEMMA SumStep ==
  ASSUME NEW S, IsFiniteSet(S), NEW f, \A x \in S : f[x] \in Int
  PROVE  /\ SumFunctionOnSet(f, {}) = 0
         /\ SumFunctionOnSet(f, S) \in Int
         /\ \A x \in S : /\ SumFunctionOnSet(f, S \ {x}) \in Int
                         /\ SumFunctionOnSet(f, S) = f[x] + SumFunctionOnSet(f, S \ {x})
<1>1. PICK g : SubsetSums(f, S, g)
  BY SumsOfSubsets
<1>2. /\ g \in [SUBSET S -> Int]
      /\ \A T \in SUBSET S : SumFunctionOnSet(f, T) = g[T]
  BY <1>1 DEF SubsetSums
<1>3. \A T \in SUBSET S :
        g[T] = IF T = {} THEN 0 ELSE f[Picked(T)] + g[T \ {Picked(T)}]
  BY <1>1 DEF Sums, SubsetSums
<1> DEFINE size == [T \in SUBSET S |-> Cardinality(T)]
           Good == {T \in SUBSET S : \A x \in T : g[T] = f[x] + g[T \ {x}]}
<1>4. ASSUME NEW T \in SUBSET S, \A U \in SUBSET S : size[U] < size[T] => U \in Good
      PROVE  T \in Good
  <2> SUFFICES ASSUME NEW x \in T PROVE g[T] = f[x] + g[T \ {x}]
    OBVIOUS
  <2> DEFINE c == Picked(T)
  <2>1. c \in T
    BY DEF Picked
  <2> HIDE DEF c
  <2>2. g[T] = f[c] + g[T \ {c}]
    BY <1>3 DEF c
  <2>3. CASE x # c
    <3>1. T \ {c} \in Good /\ T \ {x} \in Good
      <4>1. T \ {c} \in SUBSET S /\ T \ {x} \in SUBSET S
        OBVIOUS
      <4>2. Cardinality(T \ {c}) < Cardinality(T) /\ Cardinality(T \ {x}) < Cardinality(T)
        BY <2>1, SubsetSizes
      <4> QED BY <1>4, <4>1, <4>2
    <3>2. g[T \ {c}] = f[x] + g[(T \ {c}) \ {x}]
      BY <2>3, <3>1
    <3>3. g[T \ {x}] = f[c] + g[(T \ {c}) \ {x}]
      <4>1. (T \ {x}) \ {c} = (T \ {c}) \ {x}
        OBVIOUS
      <4>2. g[T \ {x}] = f[c] + g[(T \ {x}) \ {c}]
        BY <2>1, <2>3, <3>1
      <4> QED BY <4>1, <4>2
    <3>4. f[x] \in Int /\ f[c] \in Int /\ g[(T \ {c}) \ {x}] \in Int
      BY <1>2, <2>1
    <3> DEFINE rest == g[(T \ {c}) \ {x}]
    <3> HIDE DEF rest
    <3>5. /\ g[T] = f[c] + (f[x] + rest)
          /\ g[T \ {x}] = f[c] + rest
          /\ rest \in Int
      BY <2>2, <3>2, <3>3, <3>4 DEF rest
    <3> QED BY <3>4, <3>5
  <2> QED BY <2>2, <2>3
<1>5. size \in [SUBSET S -> Nat] /\ Good \in SUBSET SUBSET S
  BY SubsetSizes
<1>6. Good = SUBSET S
  <2> HIDE DEF Good, size
  <2> QED BY <1>4, <1>5, Induction
<1>7. S \in SUBSET S /\ {} \in SUBSET S /\ \A x \in S : S \ {x} \in SUBSET S
  OBVIOUS
<1>8. SumFunctionOnSet(f, {}) = 0
  BY <1>2, <1>3, <1>7
<1>9. \A x \in S : g[S] = f[x] + g[S \ {x}]
  BY <1>6, <1>7
<1>10. SumFunctionOnSet(f, S) = g[S] /\ g[S] \in Int
  BY <1>2, <1>7
<1>11. ASSUME NEW x \in S
       PROVE  SumFunctionOnSet(f, S \ {x}) = g[S \ {x}] /\ g[S \ {x}] \in Int
  BY <1>2, <1>7
<1> QED BY <1>8, <1>9, <1>10, <1>11

\* The sum of a difference; with a function that is 0 it also says that the sum
\* depends on no value outside the set.
LEMMA SumDifference ==
  ASSUME NEW S, IsFiniteSet(S), NEW f, NEW g, NEW h,
         \A x \in S : f[x] \in Int /\ g[x] \in Int /\ h[x] = f[x] - g[x]
  PROVE  SumFunctionOnSet(h, S) = SumFunctionOnSet(f, S) - SumFunctionOnSet(g, S)
<1> DEFINE size == [T \in SUBSET S |-> Cardinality(T)]
           Good == {T \in SUBSET S :
             SumFunctionOnSet(h, T) = SumFunctionOnSet(f, T) - SumFunctionOnSet(g, T)}
<1>1. ASSUME NEW T \in SUBSET S, \A U \in SUBSET S : size[U] < size[T] => U \in Good
      PROVE  T \in Good
  <2>1. IsFiniteSet(T) /\ \A x \in T : f[x] \in Int /\ g[x] \in Int /\ h[x] \in Int
    BY FS_Subset
  <2>2. CASE T = {}
    <3>1. /\ SumFunctionOnSet(f, {}) = 0 /\ SumFunctionOnSet(g, {}) = 0
          /\ SumFunctionOnSet(h, {}) = 0
      BY <2>1, SumStep
    <3> QED BY <2>2, <3>1
  <2>3. ASSUME NEW x \in T
        PROVE  T \in Good
    <3>1. /\ SumFunctionOnSet(f, T) = f[x] + SumFunctionOnSet(f, T \ {x})
          /\ SumFunctionOnSet(f, T \ {x}) \in Int
      BY <2>1, SumStep
    <3>2. /\ SumFunctionOnSet(g, T) = g[x] + SumFunctionOnSet(g, T \ {x})
          /\ SumFunctionOnSet(g, T \ {x}) \in Int
      BY <2>1, SumStep
    <3>3. SumFunctionOnSet(h, T) = h[x] + SumFunctionOnSet(h, T \ {x})
      BY <2>1, SumStep
    <3>4. T \ {x} \in Good
      <4>1. T \ {x} \in SUBSET S /\ Cardinality(T \ {x}) < Cardinality(T)
        BY SubsetSizes
      <4> QED BY <1>1, <4>1
    <3>5. /\ f[x] \in Int /\ g[x] \in Int /\ h[x] = f[x] - g[x]
          /\ SumFunctionOnSet(h, T \ {x})
               = SumFunctionOnSet(f, T \ {x}) - SumFunctionOnSet(g, T \ {x})
      BY <3>4
    <3> QED BY <3>1, <3>2, <3>3, <3>5
  <2> QED BY <2>2, <2>3
<1>2. size \in [SUBSET S -> Nat] /\ Good \in SUBSET SUBSET S
  BY SubsetSizes
<1>3. Good = SUBSET S
  <2> HIDE DEF Good, size
  <2> QED BY <1>1, <1>2, Induction
<1> QED BY <1>3

\* The sum over two sets that have nothing in common.
LEMMA SumUnion ==
  ASSUME NEW A, NEW B, IsFiniteSet(A), IsFiniteSet(B), A \cap B = {},
         NEW f, \A x \in A \cup B : f[x] \in Int
  PROVE  SumFunctionOnSet(f, A \cup B) = SumFunctionOnSet(f, A) + SumFunctionOnSet(f, B)
<1> DEFINE size == [T \in SUBSET B |-> Cardinality(T)]
           Good == {T \in SUBSET B :
             SumFunctionOnSet(f, A \cup T) = SumFunctionOnSet(f, A) + SumFunctionOnSet(f, T)}
<1>1. ASSUME NEW T \in SUBSET B, \A U \in SUBSET B : size[U] < size[T] => U \in Good
      PROVE  T \in Good
  <2>1. IsFiniteSet(T) /\ IsFiniteSet(A \cup T)
    BY FS_Subset, FS_Union
  <2>2. SumFunctionOnSet(f, A) \in Int /\ SumFunctionOnSet(f, {}) = 0
    BY SumStep
  <2>3. CASE T = {}
    BY <2>2, <2>3
  <2>4. ASSUME NEW x \in T
        PROVE  T \in Good
    <3>1. x \in A \cup T /\ (A \cup T) \ {x} = A \cup (T \ {x})
      OBVIOUS
    <3>2. SumFunctionOnSet(f, A \cup T) = f[x] + SumFunctionOnSet(f, (A \cup T) \ {x})
      BY <2>1, <3>1, SumStep
    <3>3. /\ SumFunctionOnSet(f, T) = f[x] + SumFunctionOnSet(f, T \ {x})
          /\ SumFunctionOnSet(f, T \ {x}) \in Int
      BY <2>1, SumStep
    <3>4. T \ {x} \in Good
      <4>1. T \ {x} \in SUBSET B /\ Cardinality(T \ {x}) < Cardinality(T)
        BY SubsetSizes
      <4> QED BY <1>1, <4>1
    <3>5. /\ f[x] \in Int
          /\ SumFunctionOnSet(f, A \cup (T \ {x}))
               = SumFunctionOnSet(f, A) + SumFunctionOnSet(f, T \ {x})
      BY <3>4
    <3> DEFINE a == SumFunctionOnSet(f, A)
               t == SumFunctionOnSet(f, T \ {x})
    <3> HIDE DEF a, t
    <3>6. a \in Int /\ t \in Int /\ f[x] \in Int
      BY <2>2, <3>3, <3>5 DEF a, t
    <3>7. /\ SumFunctionOnSet(f, A \cup T) = f[x] + (a + t)
          /\ SumFunctionOnSet(f, T) = f[x] + t
      BY <3>1, <3>2, <3>3, <3>5 DEF a, t
    <3>8. SumFunctionOnSet(f, A \cup T) = a + SumFunctionOnSet(f, T)
      BY <3>6, <3>7
    <3> QED BY <3>8 DEF a
  <2> QED BY <2>3, <2>4
<1>2. size \in [SUBSET B -> Nat] /\ Good \in SUBSET SUBSET B
  BY SubsetSizes
<1>3. Good = SUBSET B
  <2> HIDE DEF Good, size
  <2> QED BY <1>1, <1>2, Induction
<1> QED BY <1>3

LEMMA SumOfZeros ==
  ASSUME NEW S, IsFiniteSet(S), NEW f, \A x \in S : f[x] = 0
  PROVE  SumFunctionOnSet(f, S) = 0
<1>1. \A x \in S : f[x] \in Int /\ f[x] = f[x] - f[x]
  OBVIOUS
<1>2. SumFunctionOnSet(f, S) \in Int
  BY <1>1, SumStep
<1>3. SumFunctionOnSet(f, S) = SumFunctionOnSet(f, S) - SumFunctionOnSet(f, S)
  BY <1>1, SumDifference
<1> QED BY <1>2, <1>3

LEMMA SumSame ==
  ASSUME NEW S, IsFiniteSet(S), NEW f, NEW g, \A x \in S : f[x] \in Int /\ g[x] = f[x]
  PROVE  SumFunctionOnSet(g, S) = SumFunctionOnSet(f, S)
<1> DEFINE z == [x \in S |-> 0]
<1>1. SumFunctionOnSet(z, S) = 0
  BY SumOfZeros
<1>2. \A x \in S : z[x] \in Int /\ g[x] = f[x] - z[x]
  OBVIOUS
<1> HIDE DEF z
<1>3. SumFunctionOnSet(g, S) = SumFunctionOnSet(f, S) - SumFunctionOnSet(z, S)
  BY <1>2, SumDifference
<1>4. SumFunctionOnSet(f, S) \in Int
  BY SumStep
<1> QED BY <1>1, <1>3, <1>4

\* What is 0 outside a part of the set adds nothing.
LEMMA SumOfPart ==
  ASSUME NEW S, IsFiniteSet(S), NEW P \in SUBSET S, NEW f, NEW g,
         \A x \in P : f[x] \in Int /\ g[x] = f[x],
         \A x \in S \ P : g[x] = 0
  PROVE  SumFunctionOnSet(g, S) = SumFunctionOnSet(f, P)
<1>1. IsFiniteSet(P) /\ IsFiniteSet(S \ P)
  BY FS_Subset
<1>2. P \cap (S \ P) = {} /\ P \cup (S \ P) = S
  OBVIOUS
<1>3. SumFunctionOnSet(g, P \cup (S \ P)) = SumFunctionOnSet(g, P) + SumFunctionOnSet(g, S \ P)
  <2>1. \A x \in P \cup (S \ P) : g[x] \in Int
    OBVIOUS
  <2> QED BY <1>1, <1>2, <2>1, SumUnion
<1>4. SumFunctionOnSet(g, S \ P) = 0
  BY <1>1, SumOfZeros
<1>5. SumFunctionOnSet(g, P) = SumFunctionOnSet(f, P)
  BY <1>1, SumSame
<1>6. SumFunctionOnSet(f, P) \in Int
  BY <1>1, SumStep
<1>7. SumFunctionOnSet(g, S) = SumFunctionOnSet(f, P) + 0
  BY <1>2, <1>3, <1>4, <1>5
<1> QED BY <1>6, <1>7

=============================================================================
