------------------------------ MODULE SetLemmas ------------------------------
(***************************************************************************)
(* Finite sets: images, least and greatest elements, and the sums that     *)
(* SumFunction and SumFunctionOnSet take over them, however the elements   *)
(* are enumerated.  Induction is over the subsets of a finite set, by the  *)
(* well-foundedness of their strict inclusion.                             *)
(***************************************************************************)
EXTENDS Integers, Functions, FiniteSets, FiniteSetsExt, FiniteSetTheorems, TLAPS

-----------------------------------------------------------------------------
(* Induction.                                                              *)

\* Strict inclusion among the subsets of a finite set is well founded.
LEMMA SubsetsWellFounded ==
  ASSUME NEW S, IsFiniteSet(S)
  PROVE  IsWellFoundedOn(StrictSubsetOrdering(S), SUBSET S)
  BY FS_StrictSubsetOrderingWellFounded, FS_FiniteSubsetsOfFinite

\* What holds of {} and is kept when an element is added holds of a finite set.
LEMMA SetInduction ==
  ASSUME NEW S, IsFiniteSet(S), NEW T, {} \in T,
         \A A \in SUBSET S : \A x \in S \ A : A \in T => A \union {x} \in T
  PROVE  S \in T
PROOF
  <1> SUFFICES ASSUME S \notin T PROVE FALSE
    OBVIOUS
  <1> DEFINE R == StrictSubsetOrdering(S)
             B == {A \in SUBSET S : A \notin T}
  <1>1. IsWellFoundedOn(R, SUBSET S)
    BY SubsetsWellFounded
  <1>2. \A A \in SUBSET S : \A x \in A : <<A \ {x}, A>> \in R
    BY DEF StrictSubsetOrdering
  <1> HIDE DEF R
  <1>3. PICK A \in B : \A C \in B : <<C, A>> \notin R
    <2>1. B \subseteq SUBSET S /\ B # {}
      OBVIOUS
    <2> HIDE DEF B
    <2> QED
      BY <1>1, <2>1, WFMin
  <1>4. PICK x \in A : TRUE
    OBVIOUS
  <1>5. A \ {x} \in T
    BY <1>2, <1>3, <1>4
  <1>6. (A \ {x}) \union {x} = A
    BY <1>4
  <1> QED
    BY <1>3, <1>4, <1>5, <1>6

\* What holds of a subset whenever it does with an element less holds of every one.
LEMMA RemovalInduction ==
  ASSUME NEW S, IsFiniteSet(S), NEW T,
         \A A \in SUBSET S : (\A x \in A : A \ {x} \in T) => A \in T
  PROVE  SUBSET S \subseteq T
PROOF
  <1> SUFFICES ASSUME ~(SUBSET S \subseteq T) PROVE FALSE
    OBVIOUS
  <1> DEFINE R == StrictSubsetOrdering(S)
             B == {A \in SUBSET S : A \notin T}
  <1>1. IsWellFoundedOn(R, SUBSET S)
    BY SubsetsWellFounded
  <1>2. \A A \in SUBSET S : \A x \in A : <<A \ {x}, A>> \in R
    BY DEF StrictSubsetOrdering
  <1> HIDE DEF R
  <1>3. PICK A \in B : \A C \in B : <<C, A>> \notin R
    <2>1. B \subseteq SUBSET S /\ B # {}
      OBVIOUS
    <2> HIDE DEF B
    <2> QED
      BY <1>1, <2>1, WFMin
  <1>4. \A x \in A : A \ {x} \in T
    BY <1>2, <1>3
  <1> QED
    BY <1>3, <1>4

\* Induction over the natural numbers, by the intervals below them.
LEMMA UpwardInduction ==
  ASSUME NEW T, 0 \in T, \A n \in Nat : n \in T => n + 1 \in T
  PROVE  Nat \subseteq T
PROOF
  <1> SUFFICES ASSUME NEW k \in Nat PROVE k \in T
    OBVIOUS
  <1>1. IsFiniteSet(1..k) /\ Cardinality(1..k) = k
    BY FS_Interval
  <1> DEFINE U == {A \in SUBSET (1..k) : Cardinality(A) \in T}
  <1>2. {} \in U
    BY FS_EmptySet
  <1>3. ASSUME NEW A \in SUBSET (1..k), NEW x \in (1..k) \ A, A \in U
        PROVE  A \union {x} \in U
    <2>1. IsFiniteSet(A)
      BY <1>1, FS_Subset
    <2>2. Cardinality(A) \in Nat /\ Cardinality(A \union {x}) = Cardinality(A) + 1
      BY <2>1, FS_AddElement, FS_CardinalityType
    <2> QED
      BY <1>3, <2>2
  <1>4. 1..k \in U
    <2> HIDE DEF U
    <2> QED
      BY <1>1, <1>2, <1>3, SetInduction
  <1> QED
    BY <1>1, <1>4

-----------------------------------------------------------------------------
(* Least and greatest elements, and finite images.                         *)

\* A set of naturals that is not empty has a least element, its Min.
LEMMA LeastIsMin ==
  ASSUME NEW S, S \subseteq Nat, S # {}
  PROVE  Min(S) \in S /\ \A y \in S : Min(S) <= y
PROOF
  <1> DEFINE Less == OpToRel(<, Nat)
  <1>1. IsWellFoundedOn(Less, Nat)
    BY NatLessThanWellFounded
  <1>2. \A x, y \in Nat : y < x => <<y, x>> \in Less
    BY DEF OpToRel
  <1> HIDE DEF Less
  <1>3. PICK x \in S : \A y \in S : ~(<<y, x>> \in Less)
    BY <1>1, WFMin
  <1>4. ASSUME NEW y \in S
        PROVE  x <= y
    <2>1. ~(<<y, x>> \in Less)
      BY <1>3
    <2>2. x \in Nat /\ y \in Nat
      OBVIOUS
    <2>3. ~(y < x)
      BY <1>2, <2>1, <2>2, Zenon
    <2> QED
      BY <2>2, <2>3
  <1> QED
    BY <1>4 DEF Min

\* A set of naturals below a bound has a greatest element, its Max.
LEMMA GreatestIsMax ==
  ASSUME NEW S, S \subseteq Nat, S # {}, NEW n \in Nat, \A y \in S : y <= n
  PROVE  Max(S) \in S /\ \A y \in S : y <= Max(S)
PROOF
  <1> DEFINE T == {n - y : y \in S}
  <1>1. T \subseteq Nat /\ T # {}
    <2>1. \A y \in S : n - y \in Nat
      OBVIOUS
    <2> QED
      BY <2>1
  <1>2. Min(T) \in T /\ \A z \in T : Min(T) <= z
    BY <1>1, LeastIsMin
  <1>3. PICK x \in S : Min(T) = n - x
    BY <1>2
  <1>4. \A y \in S : x >= y
    BY <1>2, <1>3
  <1> QED
    BY <1>4 DEF Max

\* The distinct values of a function on a finite set are no more than the set.
LEMMA FiniteImage ==
  ASSUME NEW S, IsFiniteSet(S), NEW f, f = [x \in S |-> f[x]]
  PROVE  /\ IsFiniteSet({f[x] : x \in S})
         /\ Cardinality({f[x] : x \in S}) \in Nat
         /\ Cardinality({f[x] : x \in S}) <= Cardinality(S)
PROOF
  <1> DEFINE T == {f[x] : x \in S}
  <1>1. f \in Surjection(S, T)
    BY DEF Surjection
  <1> QED
    BY <1>1, FS_Surjection, FS_CardinalityType

\* The values of a function over a finite set are finitely many.
LEMMA FiniteValues ==
  ASSUME NEW S, IsFiniteSet(S), NEW f
  PROVE  IsFiniteSet({f[x] : x \in S})
PROOF
  <1> DEFINE g == [x \in S |-> f[x]]
  <1>1. g = [x \in S |-> g[x]] /\ {g[x] : x \in S} = {f[x] : x \in S}
    OBVIOUS
  <1> HIDE DEF g
  <1>2. IsFiniteSet({g[x] : x \in S})
    BY <1>1, FiniteImage
  <1> QED
    BY <1>1, <1>2

\* A finite set of integers that is not empty has a least element, its Min.
LEMMA FiniteMin ==
  ASSUME NEW S, IsFiniteSet(S), S \subseteq Int, S # {}
  PROVE  Min(S) \in S /\ \A y \in S : Min(S) <= y
PROOF
  <1> DEFINE T == {A \in SUBSET S : A = {} \/ \E x \in A : \A y \in A : x <= y}
  <1>1. {} \in T
    OBVIOUS
  <1>2. ASSUME NEW A \in SUBSET S, NEW x \in S \ A, A \in T
        PROVE  A \union {x} \in T
    <2>1. CASE A = {}
      BY <2>1
    <2>2. CASE A # {}
      <3>1. PICK z \in A : \A y \in A : z <= y
        BY <1>2, <2>2
      <3>2. CASE z <= x
        BY <3>1, <3>2
      <3>3. CASE ~(z <= x)
        BY <3>1, <3>3
      <3> QED
        BY <3>2, <3>3
    <2> QED
      BY <2>1, <2>2
  <1>3. S \in T
    <2> HIDE DEF T
    <2> QED
      BY <1>1, <1>2, SetInduction
  <1>4. \E x \in S : \A y \in S : x <= y
    BY <1>3
  <1> QED
    BY <1>4 DEF Min

\* And a greatest element, its Max.
LEMMA FiniteMax ==
  ASSUME NEW S, IsFiniteSet(S), S \subseteq Int, S # {}
  PROVE  Max(S) \in S /\ \A y \in S : y <= Max(S)
PROOF
  <1> DEFINE T == {A \in SUBSET S : A = {} \/ \E x \in A : \A y \in A : x >= y}
  <1>1. {} \in T
    OBVIOUS
  <1>2. ASSUME NEW A \in SUBSET S, NEW x \in S \ A, A \in T
        PROVE  A \union {x} \in T
    <2>1. CASE A = {}
      BY <2>1
    <2>2. CASE A # {}
      <3>1. PICK z \in A : \A y \in A : z >= y
        BY <1>2, <2>2
      <3>2. CASE z >= x
        BY <3>1, <3>2
      <3>3. CASE ~(z >= x)
        BY <3>1, <3>3
      <3> QED
        BY <3>2, <3>3
    <2> QED
      BY <2>1, <2>2
  <1>3. S \in T
    <2> HIDE DEF T
    <2> QED
      BY <1>1, <1>2, SetInduction
  <1>4. \E x \in S : \A y \in S : x >= y
    BY <1>3
  <1>5. Max(S) \in S /\ \A y \in S : Max(S) >= y
    BY <1>4 DEF Max
  <1> QED
    BY <1>5

-----------------------------------------------------------------------------
(* Sums.                                                                   *)

Sum(f, S) == SumFunctionOnSet(f, S)

Pick(s) == CHOOSE x \in s : TRUE

\* g is the fold by which a sum over D is defined.
Folds(g, f, D) ==
  g = [s \in SUBSET D |-> IF s = {} THEN 0 ELSE f[Pick(s)] + g[s \ {Pick(s)}]]

\* A sum is the value of such a fold.
LEMMA SumIsFold ==
  ASSUME NEW f, NEW S
  PROVE  Sum(f, S) = (CHOOSE g : Folds(g, f, S))[S]
  BY DEF Sum, SumFunctionOnSet, FoldFunctionOnSet, MapThenFoldSet, Folds, Pick

\* There is such a fold for every finite set.
LEMMA FoldExists ==
  ASSUME NEW D, IsFiniteSet(D), NEW f
  PROVE  \E g : Folds(g, f, D)
PROOF
  <1> DEFINE Upto(n) == {s \in SUBSET D : Cardinality(s) <= n}
             Step(g, s) == IF s = {} THEN 0 ELSE f[Pick(s)] + g[s \ {Pick(s)}]
             T == {n \in Nat : \E g : g = [s \in Upto(n) |-> Step(g, s)]}
  <1>1. \A s \in SUBSET D : IsFiniteSet(s) /\ Cardinality(s) \in Nat
                              /\ (Cardinality(s) = 0 <=> s = {})
    BY FS_Subset, FS_CardinalityType, FS_EmptySet
  <1>2. ASSUME NEW s \in SUBSET D, s # {}
        PROVE  Pick(s) \in s /\ s \ {Pick(s)} \in SUBSET D
                 /\ Cardinality(s \ {Pick(s)}) = Cardinality(s) - 1
    <2>1. Pick(s) \in s
      BY <1>2 DEF Pick
    <2> QED
      BY <1>1, <2>1, FS_RemoveElement
  <1>3. 0 \in T
    <2>1. \A s \in Upto(0) : s = {}
      BY <1>1
    <2>2. [s \in Upto(0) |-> 0] = [s \in Upto(0) |-> Step([u \in Upto(0) |-> 0], s)]
      BY <2>1
    <2> QED
      BY <2>2
  <1>4. ASSUME NEW n \in Nat, n \in T
        PROVE  n + 1 \in T
    <2>1. PICK g : g = [s \in Upto(n) |-> Step(g, s)]
      BY <1>4
    <2> DEFINE h == [s \in Upto(n + 1) |-> Step(g, s)]
    <2>2. \A s \in Upto(n) : s \in Upto(n + 1)
      BY <1>1
    <2>3. \A s \in Upto(n) : h[s] = g[s]
      BY <2>1, <2>2
    <2>4. \A s \in Upto(n + 1) : s # {} => s \ {Pick(s)} \in Upto(n)
      BY <1>1, <1>2
    <2> HIDE DEF Upto
    <2>5. h = [s \in Upto(n + 1) |-> Step(h, s)]
      BY <2>3, <2>4
    <2> HIDE DEF h
    <2>6. \E k : k = [s \in Upto(n + 1) |-> Step(k, s)]
      <3> WITNESS h
      <3> QED
        BY <2>5
    <2> QED
      BY <2>6
  <1>5. Cardinality(D) \in T
    <2> HIDE DEF T
    <2>1. Nat \subseteq T
      BY <1>3, <1>4, UpwardInduction
    <2> QED
      BY <1>1, <2>1
  <1>6. Upto(Cardinality(D)) = SUBSET D
    BY FS_Subset
  <1> QED
    BY <1>5, <1>6 DEF Folds

Summable(f, S) == IsFiniteSet(S) /\ \A x \in S : f[x] \in Int

\* A fold takes any element first, not only the one picked.
LEMMA FoldStep ==
  ASSUME NEW D, NEW f, Summable(f, D), NEW g, Folds(g, f, D)
  PROVE  /\ g[{}] = 0
         /\ \A s \in SUBSET D : g[s] \in Int
         /\ \A s \in SUBSET D : \A x \in s : g[s] = f[x] + g[s \ {x}]
PROOF
  <1> USE DEF Summable
  <1>1. \A s \in SUBSET D : s # {} => Pick(s) \in s /\ g[s] = f[Pick(s)] + g[s \ {Pick(s)}]
    BY DEF Folds, Pick
  <1>2. g[{}] = 0
    BY DEF Folds
  <1> DEFINE T == {s \in SUBSET D : g[s] \in Int}
             U == {s \in SUBSET D : \A x \in s : g[s] = f[x] + g[s \ {x}]}
  <1>3. SUBSET D \subseteq T
    <2>1. ASSUME NEW A \in SUBSET D, \A x \in A : A \ {x} \in T
          PROVE  A \in T
      <3>1. CASE A = {}
        BY <1>2, <3>1
      <3>2. CASE A # {}
        <4>1. Pick(A) \in A /\ g[A] = f[Pick(A)] + g[A \ {Pick(A)}]
          BY <1>1, <3>2
        <4>2. g[A \ {Pick(A)}] \in Int /\ f[Pick(A)] \in Int
          BY <2>1, <4>1
        <4> QED
          BY <4>1, <4>2
      <3> QED
        BY <3>1, <3>2
    <2> HIDE DEF T
    <2> QED
      BY <2>1, RemovalInduction
  <1>4. SUBSET D \subseteq U
    <2>1. ASSUME NEW A \in SUBSET D, \A x \in A : A \ {x} \in U
          PROVE  A \in U
      <3> SUFFICES ASSUME NEW x \in A PROVE g[A] = f[x] + g[A \ {x}]
        OBVIOUS
      <3> DEFINE p == Pick(A)
      <3>1. p \in A /\ g[A] = f[p] + g[A \ {p}]
        BY <1>1
      <3> HIDE DEF p
      <3>2. CASE x = p
        BY <3>1, <3>2
      <3>3. CASE x # p
        <4>1. g[A \ {p}] = f[x] + g[(A \ {p}) \ {x}]
          BY <2>1, <3>1, <3>3
        <4>2. g[A \ {x}] = f[p] + g[(A \ {x}) \ {p}]
          BY <2>1, <3>1, <3>3
        <4>3. (A \ {x}) \ {p} = (A \ {p}) \ {x}
          OBVIOUS
        <4> DEFINE c == g[(A \ {p}) \ {x}]
        <4>4. c \in Int /\ f[x] \in Int /\ f[p] \in Int
          BY <1>3, <3>1
        <4>5. g[A] = f[p] + (f[x] + c) /\ g[A \ {x}] = f[p] + c
          BY <3>1, <4>1, <4>2, <4>3
        <4> HIDE DEF c
        <4>6. f[p] + (f[x] + c) = f[x] + (f[p] + c)
          BY <4>4
        <4> QED
          BY <4>5, <4>6
      <3> QED
        BY <3>2, <3>3
    <2> HIDE DEF U
    <2> QED
      BY <2>1, RemovalInduction
  <1> QED
    BY <1>2, <1>3, <1>4

\* The folds over a set and over a part of it agree on the part.
LEMMA FoldAgrees ==
  ASSUME NEW D, IsFiniteSet(D), NEW E \in SUBSET D, NEW f,
         NEW g, Folds(g, f, D), NEW h, Folds(h, f, E)
  PROVE  \A s \in SUBSET E : h[s] = g[s]
PROOF
  <1> DEFINE T == {s \in SUBSET E : h[s] = g[s]}
  <1>1. IsFiniteSet(E)
    BY FS_Subset
  <1>2. ASSUME NEW A \in SUBSET E, \A x \in A : A \ {x} \in T
        PROVE  A \in T
    <2>1. CASE A = {}
      BY <2>1 DEF Folds
    <2>2. CASE A # {}
      <3>1. Pick(A) \in A
        BY <2>2 DEF Pick
      <3>2. h[A] = f[Pick(A)] + h[A \ {Pick(A)}]
        BY <2>2 DEF Folds
      <3>3. g[A] = f[Pick(A)] + g[A \ {Pick(A)}]
        BY <2>2 DEF Folds
      <3> QED
        BY <1>2, <3>1, <3>2, <3>3
    <2> QED
      BY <2>1, <2>2
  <1> HIDE DEF T
  <1>3. SUBSET E \subseteq T
    BY <1>1, <1>2, RemovalInduction
  <1> QED
    BY <1>3 DEF T

-----------------------------------------------------------------------------

\* So there is a fold that a sum is the value of.
LEMMA SumByFold ==
  ASSUME NEW S, IsFiniteSet(S), NEW f
  PROVE  \E g : Folds(g, f, S) /\ Sum(f, S) = g[S]
  BY SumIsFold, FoldExists

\* The sum of nothing.
LEMMA SumEmpty == ASSUME NEW f PROVE Sum(f, {}) = 0
  BY SumByFold, FS_EmptySet DEF Folds

\* A sum is any of its terms and the sum of the others.
LEMMA SumStep ==
  ASSUME NEW S, NEW f, Summable(f, S)
  PROVE  /\ Sum(f, S) \in Int
         /\ \A x \in S : Sum(f, S) = f[x] + Sum(f, S \ {x})
PROOF
  <1>1. PICK G : Folds(G, f, S) /\ Sum(f, S) = G[S]
    BY SumByFold DEF Summable
  <1>2. /\ G[S] \in Int
        /\ \A x \in S : G[S] = f[x] + G[S \ {x}]
    <2>1. S \in SUBSET S
      OBVIOUS
    <2> QED
      BY <1>1, <2>1, FoldStep
  <1>3. ASSUME NEW x \in S
        PROVE  Sum(f, S \ {x}) = G[S \ {x}]
    <2>1. IsFiniteSet(S \ {x}) /\ IsFiniteSet(S)
      BY FS_RemoveElement DEF Summable
    <2>2. PICK H : Folds(H, f, S \ {x}) /\ Sum(f, S \ {x}) = H[S \ {x}]
      BY <2>1, SumByFold
    <2>3. \A s \in SUBSET (S \ {x}) : H[s] = G[s]
      BY <1>1, <2>1, <2>2, FoldAgrees
    <2> QED
      BY <2>2, <2>3
  <1> QED
    BY <1>1, <1>2, <1>3

\* The sum with a further term.
LEMMA SumAdds ==
  ASSUME NEW f, NEW A, NEW x, x \notin A, Summable(f, A \union {x})
  PROVE  Sum(f, A \union {x}) = f[x] + Sum(f, A)
PROOF
  <1>1. (A \union {x}) \ {x} = A
    OBVIOUS
  <1> QED
    BY <1>1, SumStep

\* A sum depends on its terms alone.
LEMMA SumSame ==
  ASSUME NEW S, IsFiniteSet(S), NEW f, NEW g, \A x \in S : f[x] = g[x]
  PROVE  Sum(f, S) = Sum(g, S)
PROOF
  <1>1. PICK F : Folds(F, f, S) /\ Sum(f, S) = F[S]
    BY SumByFold
  <1>2. PICK G : Folds(G, g, S) /\ Sum(g, S) = G[S]
    BY SumByFold
  <1>3. \A s \in SUBSET S : s # {} => f[Pick(s)] = g[Pick(s)]
    BY DEF Pick
  <1>4. Folds(G, f, S)
    BY <1>2, <1>3 DEF Folds
  <1>5. S \in SUBSET S
    OBVIOUS
  <1> QED
    BY <1>1, <1>2, <1>4, <1>5, FoldAgrees

\* Part of what can be summed can be.
LEMMA SummablePart ==
  ASSUME NEW S, NEW f, Summable(f, S), NEW A \in SUBSET S
  PROVE  Summable(f, A)
  BY FS_Subset DEF Summable

\* The sum of one term.
LEMMA SumOne ==
  ASSUME NEW f, NEW x, f[x] \in Int
  PROVE  Sum(f, {x}) = f[x]
PROOF
  <1>1. {x} = {} \union {x} /\ x \notin {}
    OBVIOUS
  <1>2. Summable(f, {} \union {x})
    BY <1>1, FS_Singleton DEF Summable
  <1>3. Sum(f, {x}) = f[x] + Sum(f, {})
    BY <1>1, <1>2, SumAdds
  <1>4. Sum(f, {}) = 0
    BY SumEmpty
  <1> QED
    BY <1>3, <1>4

\* Sums whose terms are sums.
LEMMA SumOfSums ==
  ASSUME NEW S, NEW f, Summable(f, S), NEW g, Summable(g, S),
         NEW h, \A x \in S : h[x] = f[x] + g[x]
  PROVE  Sum(h, S) = Sum(f, S) + Sum(g, S)
PROOF
  <1> DEFINE T == {A \in SUBSET S : Sum(h, A) = Sum(f, A) + Sum(g, A)}
  <1>1. IsFiniteSet(S) /\ Summable(h, S)
    BY DEF Summable
  <1>2. {} \in T
    BY SumEmpty
  <1>3. ASSUME NEW A \in SUBSET S, NEW x \in S \ A, A \in T
        PROVE  A \union {x} \in T
    <2>1. A \union {x} \in SUBSET S
      OBVIOUS
    <2>2. /\ Summable(f, A \union {x}) /\ Summable(g, A \union {x}) /\ Summable(h, A \union {x})
          /\ Summable(f, A) /\ Summable(g, A)
      BY <1>1, <2>1, SummablePart
    <2>3. /\ Sum(f, A \union {x}) = f[x] + Sum(f, A)
          /\ Sum(g, A \union {x}) = g[x] + Sum(g, A)
          /\ Sum(h, A \union {x}) = h[x] + Sum(h, A)
      BY <2>2, SumAdds
    <2>4. /\ Sum(f, A) \in Int /\ Sum(g, A) \in Int /\ f[x] \in Int /\ g[x] \in Int
          /\ h[x] = f[x] + g[x] /\ Sum(h, A) = Sum(f, A) + Sum(g, A)
      BY <1>3, <2>2, SumStep DEF Summable
    <2> QED
      BY <2>3, <2>4
  <1> HIDE DEF T
  <1> QED
    BY <1>1, <1>2, <1>3, SetInduction DEF T

\* A constant factor of the terms is one of the sum.
LEMMA SumScaled ==
  ASSUME NEW S, NEW f, Summable(f, S), NEW c \in Int, NEW h, \A x \in S : h[x] = c * f[x]
  PROVE  Sum(h, S) = c * Sum(f, S)
PROOF
  <1> DEFINE T == {A \in SUBSET S : Sum(h, A) = c * Sum(f, A)}
  <1>1. IsFiniteSet(S) /\ Summable(h, S)
    BY DEF Summable
  <1>2. {} \in T
    BY SumEmpty
  <1>3. ASSUME NEW A \in SUBSET S, NEW x \in S \ A, A \in T
        PROVE  A \union {x} \in T
    <2>1. A \union {x} \in SUBSET S
      OBVIOUS
    <2>2. Summable(f, A \union {x}) /\ Summable(h, A \union {x}) /\ Summable(f, A)
      BY <1>1, <2>1, SummablePart
    <2>3. /\ Sum(f, A \union {x}) = f[x] + Sum(f, A)
          /\ Sum(h, A \union {x}) = h[x] + Sum(h, A)
      BY <2>2, SumAdds
    <2>4. /\ Sum(f, A) \in Int /\ f[x] \in Int
          /\ h[x] = c * f[x] /\ Sum(h, A) = c * Sum(f, A)
      BY <1>3, <2>2, SumStep DEF Summable
    <2>5. \A a, b \in Int : c * (a + b) = c * a + c * b
      OBVIOUS
    <2> QED
      BY <2>3, <2>4, <2>5
  <1> HIDE DEF T
  <1> QED
    BY <1>1, <1>2, <1>3, SetInduction DEF T

\* The sum of zeros.
LEMMA SumZeros ==
  ASSUME NEW S, IsFiniteSet(S), NEW f, \A x \in S : f[x] = 0
  PROVE  Sum(f, S) = 0
PROOF
  <1>1. Summable(f, S) /\ \A x \in S : f[x] = f[x] + f[x]
    BY DEF Summable
  <1>2. Sum(f, S) = Sum(f, S) + Sum(f, S)
    BY <1>1, SumOfSums
  <1>3. Sum(f, S) \in Int
    BY <1>1, SumStep
  <1>4. \A n \in Int : n = n + n => n = 0
    OBVIOUS
  <1> QED
    BY <1>2, <1>3, <1>4

\* The sum of natural numbers is one, none less than a term.
LEMMA SumNat ==
  ASSUME NEW S, IsFiniteSet(S), NEW f, \A x \in S : f[x] \in Nat
  PROVE  Sum(f, S) \in Nat /\ \A x \in S : f[x] <= Sum(f, S)
PROOF
  <1> DEFINE T == {A \in SUBSET S : Sum(f, A) \in Nat}
  <1>1. Summable(f, S)
    BY DEF Summable
  <1>2. {} \in T
    BY SumEmpty
  <1>3. ASSUME NEW A \in SUBSET S, NEW x \in S \ A, A \in T
        PROVE  A \union {x} \in T
    <2>1. A \union {x} \in SUBSET S
      OBVIOUS
    <2>2. Sum(f, A \union {x}) = f[x] + Sum(f, A)
      BY <1>1, <2>1, SummablePart, SumAdds
    <2> QED
      BY <1>3, <2>1, <2>2
  <1>4. \A A \in SUBSET S : Sum(f, A) \in Nat
    <2> SUFFICES ASSUME NEW A \in SUBSET S PROVE Sum(f, A) \in Nat
      OBVIOUS
    <2> DEFINE U == {B \in SUBSET A : B \in T}
    <2>1. IsFiniteSet(A)
      BY FS_Subset
    <2>2. {} \in U
      BY <1>2
    <2> HIDE DEF T
    <2>3. ASSUME NEW B \in SUBSET A, NEW x \in A \ B, B \in U
          PROVE  B \union {x} \in U
      BY <1>3, <2>3
    <2> HIDE DEF U
    <2>4. A \in U
      BY <2>1, <2>2, <2>3, SetInduction
    <2> QED
      BY <2>4 DEF T, U
  <1>5. ASSUME NEW x \in S
        PROVE  f[x] <= Sum(f, S)
    <2>1. Sum(f, S) = f[x] + Sum(f, S \ {x})
      BY <1>1, SumStep
    <2>2. Sum(f, S \ {x}) \in Nat
      BY <1>4
    <2> QED
      BY <2>1, <2>2
  <1> QED
    BY <1>4, <1>5

\* Summing ones counts.
LEMMA SumOnes ==
  ASSUME NEW S, IsFiniteSet(S), NEW f, \A x \in S : f[x] = 1
  PROVE  Sum(f, S) = Cardinality(S)
PROOF
  <1> DEFINE T == {A \in SUBSET S : Sum(f, A) = Cardinality(A)}
  <1>1. Summable(f, S)
    BY DEF Summable
  <1>2. {} \in T
    BY SumEmpty, FS_EmptySet
  <1>3. ASSUME NEW A \in SUBSET S, NEW x \in S \ A, A \in T
        PROVE  A \union {x} \in T
    <2>1. A \union {x} \in SUBSET S
      OBVIOUS
    <2>2. Sum(f, A \union {x}) = f[x] + Sum(f, A)
      BY <1>1, <2>1, SummablePart, SumAdds
    <2>3. Cardinality(A \union {x}) = Cardinality(A) + 1 /\ Cardinality(A) \in Nat
      BY FS_Subset, FS_AddElement, FS_CardinalityType
    <2>4. f[x] = 1 /\ Sum(f, A) = Cardinality(A)
      BY <1>3
    <2> QED
      BY <2>1, <2>2, <2>3, <2>4
  <1> HIDE DEF T
  <1> QED
    BY <1>2, <1>3, SetInduction DEF T

\* b names the members of S by those of T, one by one.
Renames(b, S, T) ==
  /\ \A x, y \in S : b[x] = b[y] => x = y
  /\ T = {b[x] : x \in S}

\* Renaming what is summed over.
LEMMA SumRenamed ==
  ASSUME NEW S, NEW f, Summable(f, S), NEW b, NEW U, Renames(b, S, U),
         NEW g, \A x \in S : g[b[x]] = f[x]
  PROVE  Summable(g, U) /\ Sum(g, U) = Sum(f, S)
PROOF
  <1> USE DEF Renames
  <1> DEFINE Image(A) == {b[x] : x \in A}
             T == {A \in SUBSET S : Summable(g, Image(A)) /\ Sum(g, Image(A)) = Sum(f, A)}
  <1>1. IsFiniteSet(S)
    BY DEF Summable
  <1>2. {} \in T
    <2>1. Image({}) = {}
      OBVIOUS
    <2> QED
      BY <2>1, SumEmpty, FS_EmptySet DEF Summable
  <1>3. ASSUME NEW A \in SUBSET S, NEW x \in S \ A, A \in T
        PROVE  A \union {x} \in T
    <2>1. A \union {x} \in SUBSET S
      OBVIOUS
    <2>2. Sum(f, A \union {x}) = f[x] + Sum(f, A)
      BY <2>1, SummablePart, SumAdds
    <2>3. Image(A \union {x}) = Image(A) \union {b[x]} /\ b[x] \notin Image(A)
      OBVIOUS
    <2>4. Summable(g, Image(A)) /\ Sum(g, Image(A)) = Sum(f, A) /\ g[b[x]] = f[x] /\ f[x] \in Int
      BY <1>3 DEF Summable
    <2> HIDE DEF Image
    <2>5. Summable(g, Image(A) \union {b[x]})
      BY <2>4, FS_AddElement DEF Summable
    <2>6. Sum(g, Image(A) \union {b[x]}) = g[b[x]] + Sum(g, Image(A))
      BY <2>3, <2>5, SumAdds
    <2> QED
      BY <2>1, <2>2, <2>3, <2>4, <2>5, <2>6
  <1>4. S \in T
    <2> HIDE DEF T
    <2> QED
      BY <1>1, <1>2, <1>3, SetInduction
  <1>5. U = Image(S)
    OBVIOUS
  <1> HIDE DEF Image
  <1> QED
    BY <1>4, <1>5

\* A renamed set has as many members.
LEMMA CountRenamed ==
  ASSUME NEW S, IsFiniteSet(S), NEW b, NEW U, Renames(b, S, U)
  PROVE  IsFiniteSet(U) /\ Cardinality(U) = Cardinality(S)
PROOF
  <1> DEFINE f == [x \in S |-> 1]
             g == [y \in U |-> 1]
  <1>1. Summable(f, S)
    BY DEF Summable
  <1>2. \A x \in S : f[x] = 1 /\ g[b[x]] = f[x]
    BY DEF Renames
  <1>3. \A y \in U : g[y] = 1
    OBVIOUS
  <1> HIDE DEF f, g
  <1>4. Summable(g, U) /\ Sum(g, U) = Sum(f, S)
    BY <1>1, <1>2, SumRenamed
  <1>5. IsFiniteSet(U)
    BY <1>4 DEF Summable
  <1>6. Sum(g, U) = Cardinality(U)
    BY <1>3, <1>5, SumOnes
  <1>7. Sum(f, S) = Cardinality(S)
    BY <1>2, SumOnes
  <1> QED
    BY <1>4, <1>5, <1>6, <1>7

\* The members of S with key k, and that every key is one of K.
Of(key, S, k)     == {x \in S : key[x] = k}
Keyed(key, S, K)  == \A x \in S : key[x] \in K

\* Summing by key: the sum of the sums of those with one key.
LEMMA SumByKey ==
  ASSUME NEW S, NEW f, Summable(f, S), NEW K, IsFiniteSet(K), NEW key, Keyed(key, S, K),
         NEW g, \A k \in K : g[k] = Sum(f, Of(key, S, k))
  PROVE  Summable(g, K) /\ Sum(g, K) = Sum(f, S)
PROOF
  <1> DEFINE G(A) == [k \in K |-> Sum(f, Of(key, A, k))]
             T == {A \in SUBSET S : Sum(G(A), K) = Sum(f, A)}
  <1>1. IsFiniteSet(S)
    BY DEF Summable
  <1>2. ASSUME NEW A \in SUBSET S
        PROVE  Summable(G(A), K)
    <2>1. ASSUME NEW k \in K
          PROVE  Sum(f, Of(key, A, k)) \in Int
      <3>1. Of(key, A, k) \in SUBSET S
        BY DEF Of
      <3> QED
        BY <3>1, SummablePart, SumStep
    <2> QED
      BY <2>1 DEF Summable
  <1>3. {} \in T
    <2>1. \A k \in K : Of(key, {}, k) = {}
      BY DEF Of
    <2>2. \A k \in K : G({})[k] = 0
      BY <2>1, SumEmpty
    <2> HIDE DEF G
    <2>3. Sum(G({}), K) = 0
      BY <2>2, SumZeros
    <2> QED
      BY <2>3, SumEmpty
  <1>4. ASSUME NEW A \in SUBSET S, NEW x \in S \ A, A \in T
        PROVE  A \union {x} \in T
    <2> DEFINE k == key[x]
               B == A \union {x}
    <2>1. B \in SUBSET S /\ k \in K
      BY DEF Keyed
    <2>2. Sum(f, B) = f[x] + Sum(f, A)
      BY <2>1, SummablePart, SumAdds
    <2>3. Of(key, B, k) = Of(key, A, k) \union {x} /\ x \notin Of(key, A, k) /\ Of(key, B, k) \in SUBSET S
      BY DEF Of
    <2>4. \A j \in K \ {k} : Of(key, B, j) = Of(key, A, j)
      BY DEF Of
    <2> HIDE DEF k, B
    <2>5. Sum(f, Of(key, B, k)) = f[x] + Sum(f, Of(key, A, k))
      BY <2>3, SummablePart, SumAdds
    <2>6. G(B)[k] = f[x] + G(A)[k] /\ \A j \in K \ {k} : G(B)[j] = G(A)[j]
      BY <2>1, <2>4, <2>5
    <2>7. Summable(G(A), K) /\ Summable(G(B), K)
      BY <1>2, <2>1
    <2> HIDE DEF G
    <2>8. /\ Sum(G(B), K) = G(B)[k] + Sum(G(B), K \ {k})
          /\ Sum(G(A), K) = G(A)[k] + Sum(G(A), K \ {k})
      BY <2>1, <2>7, SumStep
    <2>9. Sum(G(B), K \ {k}) = Sum(G(A), K \ {k})
      BY <2>6, FS_RemoveElement, SumSame
    <2>10. Summable(G(A), K \ {k})
      BY <2>7, SummablePart
    <2>11. Sum(G(A), K \ {k}) \in Int /\ G(A)[k] \in Int /\ f[x] \in Int
      BY <2>1, <2>7, <2>10, SumStep DEF Summable
    <2>12. Sum(G(A), K) = Sum(f, A)
      BY <1>4
    <2>13. Sum(G(B), K) = (f[x] + G(A)[k]) + Sum(G(A), K \ {k})
      BY <2>6, <2>8, <2>9
    <2>14. Sum(G(B), K) = f[x] + Sum(f, A)
      BY <2>8, <2>11, <2>12, <2>13
    <2> QED
      BY <2>1, <2>2, <2>14 DEF B
  <1>5. S \in T
    <2> HIDE DEF T
    <2> QED
      BY <1>1, <1>3, <1>4, SetInduction
  <1>6. \A k \in K : g[k] = G(S)[k]
    OBVIOUS
  <1>7. Summable(G(S), K)
    BY <1>2
  <1>8. Sum(G(S), K) = Sum(f, S)
    BY <1>5
  <1> HIDE DEF G
  <1> QED
    BY <1>6, <1>7, <1>8, SumSame DEF Summable
=============================================================================
