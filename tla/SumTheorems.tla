---------------------------- MODULE SumTheorems ----------------------------
(***************************************************************************)
(* What SumFunction of the Functions module computes on finite domains;    *)
(* the places a strict total order gives the elements of a finite set; and *)
(* what a running sum along such an order is.                              *)
(***************************************************************************)
EXTENDS Integers, FiniteSets, Functions, FiniteSetTheorems, FunctionTheorems,
        WellFoundedInduction, TLAPS

LessThan == {ss \in Nat \X Nat : ss[1] < ss[2]}

LEMMA LessThanWellFounded == IsWellFoundedOn(LessThan, Nat)
BY NatLessThanWellFounded, Zenon DEF LessThan, OpToRel

\* A set of naturals that is not empty has a least element.
LEMMA LeastNatural ==
  ASSUME NEW T, T \subseteq Nat, T # {}
  PROVE  \E x \in T : \A y \in T : x <= y
<1>1. PICK x \in T : \A y \in T : ~(<<y, x>> \in LessThan)
  BY LessThanWellFounded, WFMin
<1>2. ASSUME NEW y \in T PROVE x <= y
  <2>1. <<y, x>> \in Nat \X Nat /\ x \in Nat /\ y \in Nat
    OBVIOUS
  <2>2. ~(<<y, x>>[1] < <<y, x>>[2])
    BY <1>1, <2>1, Zenon DEF LessThan
  <2> QED
    BY <2>1, <2>2
<1> QED
  BY <1>2

\* Induction on the subsets of a finite set.
LEMMA SubsetInduction ==
  ASSUME NEW S, IsFiniteSet(S), NEW Good,
         \A s \in SUBSET S : (\A t \in SUBSET s : t # s => t \in Good) => s \in Good
  PROVE  SUBSET S \subseteq Good
<1> SUFFICES ASSUME NEW z \in SUBSET S, z \notin Good
             PROVE  FALSE
  OBVIOUS
<1> DEFINE Bad == {s \in SUBSET S : s \notin Good}
           Sizes == {Cardinality(s) : s \in Bad}
<1>1. \A s \in SUBSET S : IsFiniteSet(s) /\ Cardinality(s) \in Nat
  BY FS_Subset, FS_CardinalityType
<1>2. Sizes \subseteq Nat /\ Sizes # {}
  BY <1>1
<1>3. PICK n \in Sizes : \A m \in Sizes : n <= m
  <2> HIDE DEF Sizes
  <2> QED
    BY <1>2, LeastNatural
<1>4. PICK s \in Bad : n = Cardinality(s)
  OBVIOUS
<1>5. PICK t \in SUBSET s : t # s /\ t \notin Good
  OBVIOUS
<1>6. Cardinality(t) < Cardinality(s)
  BY <1>1, <1>5, FS_Subset
<1>7. Cardinality(t) \in Sizes
  BY <1>5
<1>8. n <= Cardinality(t)
  <2> HIDE DEF Sizes
  <2> QED
    BY <1>3, <1>7
<1> QED
  BY <1>1, <1>4, <1>6, <1>8

pick(s) == CHOOSE x \in s : TRUE

\* The function the fold is defined with, and the equation that defines it.
Iter(f, S) ==
  CHOOSE g : g = [s \in SUBSET S |->
                    IF s = {} THEN 0 ELSE f[pick(s)] + g[s \ {pick(s)}]]

Solves(g, f, S) ==
  g = [s \in SUBSET S |->
         IF s = {} THEN 0 ELSE f[pick(s)] + g[s \ {pick(s)}]]

Total(f, S) == Iter(f, S)[S]

LEMMA SumIsTotal ==
  ASSUME NEW f
  PROVE  SumFunction(f) = Total(f, DOMAIN f)
BY DEF SumFunction, SumFunctionOnSet, FoldFunctionOnSet, MapThenFoldSet, Total, Iter, pick

LEMMA SolutionsAgree ==
  ASSUME NEW f, NEW g, NEW S, NEW T, NEW u, IsFiniteSet(S), u \subseteq S, u \subseteq T,
         Solves(g, f, S), NEW h, Solves(h, f, T)
  PROVE  g[u] = h[u]
<1> DEFINE Good == {s \in SUBSET u : g[s] = h[s]}
<1>1. {} \in Good
  BY DEF Solves
<1>2. ASSUME NEW s \in SUBSET u, s # {}, \A t \in SUBSET s : t # s => t \in Good
      PROVE  s \in Good
  <2>1. pick(s) \in s
    BY <1>2 DEF pick
  <2>2. g[s] = f[pick(s)] + g[s \ {pick(s)}]
    BY <1>2 DEF Solves
  <2>3. h[s] = f[pick(s)] + h[s \ {pick(s)}]
    BY <1>2 DEF Solves
  <2>4. g[s \ {pick(s)}] = h[s \ {pick(s)}]
    BY <1>2, <2>1
  <2> QED
    BY <2>2, <2>3, <2>4
<1>3. IsFiniteSet(u)
  BY FS_Subset
<1>4. \A s \in SUBSET u : (\A t \in SUBSET s : t # s => t \in Good) => s \in Good
  BY <1>1, <1>2
<1> HIDE DEF Good
<1>5. u \in Good
  BY <1>3, <1>4, SubsetInduction
<1> QED
  BY <1>5 DEF Good

LEMMA SolutionExists ==
  ASSUME NEW f, NEW S, IsFiniteSet(S)
  PROVE  Solves(Iter(f, S), f, S)
<1> DEFINE Good == {s \in SUBSET S : Solves(Iter(f, s), f, s)}
<1>1. ASSUME NEW s \in SUBSET S, \A t \in SUBSET s : t # s => t \in Good
      PROVE  s \in Good
  <2> DEFINE g == [t \in SUBSET s |-> IF t = {} THEN 0 ELSE
                     f[pick(t)] + Total(f, t \ {pick(t)})]
  <2>1. IsFiniteSet(s)
    BY FS_Subset
  <2>2. ASSUME NEW t \in SUBSET s, t # s
        PROVE  g[t] = Total(f, t)
    <3>1. Solves(Iter(f, t), f, t)
      BY <1>1, <2>2
    <3>2. CASE t = {}
      BY <3>1, <3>2 DEF Solves, Total
    <3>3. CASE t # {}
      <4>1. pick(t) \in t
        BY <3>3 DEF pick
      <4>2. Total(f, t) = f[pick(t)] + Iter(f, t)[t \ {pick(t)}]
        BY <3>1, <3>3 DEF Solves, Total
      <4>3. Solves(Iter(f, t \ {pick(t)}), f, t \ {pick(t)})
        BY <1>1, <4>1, <2>2
      <4>4. Iter(f, t)[t \ {pick(t)}] = Total(f, t \ {pick(t)})
        <5>1. IsFiniteSet(t)
          BY <2>1, FS_Subset
        <5> QED
          BY <3>1, <4>3, <5>1, SolutionsAgree DEF Total
      <4> QED
        BY <3>3, <4>2, <4>4
    <3> QED
      BY <3>2, <3>3
  <2>3. Solves(g, f, s)
    <3>1. ASSUME NEW t \in SUBSET s, t # {}
          PROVE  g[t] = f[pick(t)] + g[t \ {pick(t)}]
      <4>1. pick(t) \in t
        BY <3>1 DEF pick
      <4> QED
        BY <2>2, <3>1, <4>1
    <3> QED
      BY <3>1 DEF Solves
  <2> HIDE DEF g
  <2>4. Solves(Iter(f, s), f, s)
    BY <2>3 DEF Solves, Iter
  <2> QED
    BY <2>4
<1> HIDE DEF Good
<1>2. S \in Good
  BY <1>1, SubsetInduction
<1> QED
  BY <1>2 DEF Good

LEMMA TotalEmpty == ASSUME NEW f PROVE Total(f, {}) = 0
<1>1. Solves(Iter(f, {}), f, {})
  BY FS_EmptySet, SolutionExists
<1> QED
  BY <1>1 DEF Solves, Total

LEMMA TotalStep ==
  ASSUME NEW f, NEW S, IsFiniteSet(S), S # {}
  PROVE  pick(S) \in S /\ Total(f, S) = f[pick(S)] + Total(f, S \ {pick(S)})
<1>1. pick(S) \in S
  BY DEF pick
<1>2. IsFiniteSet(S \ {pick(S)})
  BY FS_Subset
<1>3. Solves(Iter(f, S), f, S) /\ Solves(Iter(f, S \ {pick(S)}), f, S \ {pick(S)})
  BY <1>2, SolutionExists
<1>4. Total(f, S) = f[pick(S)] + Iter(f, S)[S \ {pick(S)}]
  BY <1>3 DEF Solves, Total
<1>5. Iter(f, S)[S \ {pick(S)}] = Total(f, S \ {pick(S)})
  BY <1>3, SolutionsAgree DEF Total
<1> QED
  BY <1>1, <1>4, <1>5

LEMMA TotalType ==
  ASSUME NEW f, NEW S, IsFiniteSet(S), \A x \in S : f[x] \in Int
  PROVE  /\ Total(f, S) \in Int
         /\ (\A x \in S : f[x] \in Nat) => Total(f, S) \in Nat
<1> DEFINE Right(s) == /\ Total(f, s) \in Int
                       /\ (\A x \in S : f[x] \in Nat) => Total(f, s) \in Nat
           Good == {s \in SUBSET S : Right(s)}
<1>1. ASSUME NEW s \in SUBSET S, \A t \in SUBSET s : t # s => t \in Good
      PROVE  s \in Good
  <2>1. CASE s = {}
    BY <2>1, TotalEmpty
  <2>2. CASE s # {}
    <3>1. pick(s) \in s /\ Total(f, s) = f[pick(s)] + Total(f, s \ {pick(s)})
      BY <2>2, FS_Subset, TotalStep
    <3>2. Right(s \ {pick(s)})
      BY <1>1, <3>1
    <3>3. f[pick(s)] \in Int
      BY <3>1
    <3>4. (\A x \in S : f[x] \in Nat) => f[pick(s)] \in Nat
      BY <3>1
    <3> QED
      BY <3>1, <3>2, <3>3, <3>4
  <2> QED
    BY <2>1, <2>2
<1> HIDE DEF Good
<1>2. S \in Good
  BY <1>1, SubsetInduction
<1> QED
  BY <1>2 DEF Good

LEMMA TotalSame ==
  ASSUME NEW f, NEW g, NEW S, IsFiniteSet(S), \A x \in S : f[x] = g[x]
  PROVE  Total(f, S) = Total(g, S)
<1> DEFINE Good == {s \in SUBSET S : Total(f, s) = Total(g, s)}
<1>1. ASSUME NEW s \in SUBSET S, \A t \in SUBSET s : t # s => t \in Good
      PROVE  s \in Good
  <2>1. CASE s = {}
    BY <2>1, TotalEmpty
  <2>2. CASE s # {}
    <3>1. /\ pick(s) \in s /\ Total(f, s) = f[pick(s)] + Total(f, s \ {pick(s)})
          /\ Total(g, s) = g[pick(s)] + Total(g, s \ {pick(s)})
      BY <2>2, FS_Subset, TotalStep
    <3>2. Total(f, s \ {pick(s)}) = Total(g, s \ {pick(s)})
      BY <1>1, <3>1
    <3> QED
      BY <3>1, <3>2
  <2> QED
    BY <2>1, <2>2
<1> HIDE DEF Good
<1>2. S \in Good
  BY <1>1, SubsetInduction
<1> QED
  BY <1>2 DEF Good

\* Any element may be taken out first, not only the one the fold picks.
LEMMA TotalRemove ==
  ASSUME NEW f, NEW S, IsFiniteSet(S), \A x \in S : f[x] \in Int, NEW e \in S
  PROVE  Total(f, S) = f[e] + Total(f, S \ {e})
<1> DEFINE Right(s) == \A x \in s : Total(f, s) = f[x] + Total(f, s \ {x})
           Good == {s \in SUBSET S : Right(s)}
<1>1. ASSUME NEW s \in SUBSET S, \A t \in SUBSET s : t # s => t \in Good
      PROVE  s \in Good
  <2>1. ASSUME NEW x \in s
        PROVE  Total(f, s) = f[x] + Total(f, s \ {x})
    <3> DEFINE p == pick(s)
               rest == (s \ {x}) \ {p}
    <3>1. p \in s /\ Total(f, s) = f[p] + Total(f, s \ {p})
      BY FS_Subset, TotalStep
    <3>2. CASE x = p
      BY <3>1, <3>2
    <3>3. CASE x # p
      <4> HIDE DEF p
      <4>1. Right(s \ {p}) /\ Right(s \ {x})
        BY <1>1, <2>1, <3>1
      <4>2. Total(f, s \ {p}) = f[x] + Total(f, (s \ {p}) \ {x})
        BY <2>1, <3>3, <4>1
      <4>3. Total(f, s \ {x}) = f[p] + Total(f, rest)
        BY <3>1, <3>3, <4>1
      <4>4. (s \ {p}) \ {x} = rest
        OBVIOUS
      <4>5. f[x] \in Int /\ f[p] \in Int /\ Total(f, rest) \in Int
        <5>1. IsFiniteSet(rest)
          BY FS_Subset
        <5> QED
          BY <3>1, <5>1, TotalType
      <4> HIDE DEF rest
      <4>6. Total(f, s) = f[p] + (f[x] + Total(f, rest))
        BY <3>1, <4>2, <4>4
      <4>7. f[p] + (f[x] + Total(f, rest)) = f[x] + (f[p] + Total(f, rest))
        BY <4>5
      <4> QED
        BY <4>3, <4>6, <4>7
    <3> QED
      BY <3>2, <3>3
  <2> QED
    BY <2>1
<1> HIDE DEF Good
<1>2. S \in Good
  BY <1>1, SubsetInduction
<1> QED
  BY <1>2 DEF Good
----------------------------------------------------------------------------
(***************************************************************************)
(* SumFunction.                                                            *)
(***************************************************************************)

\* Nothing sums to 0.
LEMMA SumEmpty == ASSUME NEW f, DOMAIN f = {} PROVE SumFunction(f) = 0
BY SumIsTotal, TotalEmpty

\* A finite sum of integers is one, of naturals a natural.
LEMMA SumType ==
  ASSUME NEW f, IsFiniteSet(DOMAIN f), \A x \in DOMAIN f : f[x] \in Int
  PROVE  /\ SumFunction(f) \in Int
         /\ (\A x \in DOMAIN f : f[x] \in Nat) => SumFunction(f) \in Nat
BY SumIsTotal, TotalType

\* Only the values count.
LEMMA SumSame ==
  ASSUME NEW f, NEW g, IsFiniteSet(DOMAIN f), DOMAIN g = DOMAIN f,
         \A x \in DOMAIN f : g[x] = f[x]
  PROVE  SumFunction(g) = SumFunction(f)
BY SumIsTotal, TotalSame

\* One more summand.
LEMMA SumAdd ==
  ASSUME NEW f, NEW g, NEW e, IsFiniteSet(DOMAIN f), e \notin DOMAIN f,
         DOMAIN g = DOMAIN f \cup {e}, g[e] \in Int,
         \A x \in DOMAIN f : f[x] \in Int /\ g[x] = f[x]
  PROVE  SumFunction(g) = SumFunction(f) + g[e]
<1>1. IsFiniteSet(DOMAIN g)
  BY FS_AddElement
<1>2. Total(g, DOMAIN g) = g[e] + Total(g, DOMAIN g \ {e})
  BY <1>1, TotalRemove
<1>3. DOMAIN g \ {e} = DOMAIN f
  OBVIOUS
<1>4. Total(g, DOMAIN f) = Total(f, DOMAIN f)
  BY TotalSame
<1>5. Total(f, DOMAIN f) \in Int
  BY TotalType
<1> QED
  BY <1>2, <1>3, <1>4, <1>5, SumIsTotal

\* One summand less.
LEMMA SumDrop ==
  ASSUME NEW f, NEW g, NEW e, IsFiniteSet(DOMAIN f), e \in DOMAIN f,
         DOMAIN g = DOMAIN f \ {e}, f[e] \in Int,
         \A x \in DOMAIN g : f[x] \in Int /\ g[x] = f[x]
  PROVE  SumFunction(g) = SumFunction(f) - f[e]
<1>1. IsFiniteSet(DOMAIN g) /\ DOMAIN f = DOMAIN g \cup {e} /\ e \notin DOMAIN g
  BY FS_Subset
<1>2. SumFunction(f) = SumFunction(g) + f[e]
  BY <1>1, SumAdd
<1>3. SumFunction(g) \in Int
  BY <1>1, SumType
<1> QED
  BY <1>2, <1>3

\* One summand changed.
LEMMA SumChange ==
  ASSUME NEW f, NEW g, NEW e, IsFiniteSet(DOMAIN f), e \in DOMAIN f,
         DOMAIN g = DOMAIN f, f[e] \in Int, g[e] \in Int,
         \A x \in DOMAIN f : x # e => f[x] \in Int /\ g[x] = f[x]
  PROVE  SumFunction(g) = SumFunction(f) - f[e] + g[e]
<1> DEFINE h == [x \in DOMAIN f \ {e} |-> f[x]]
<1>1. SumFunction(h) = SumFunction(f) - f[e]
  BY SumDrop
<1>2. IsFiniteSet(DOMAIN h)
  BY FS_Subset
<1>3. SumFunction(g) = SumFunction(h) + g[e]
  BY <1>2, SumAdd
<1>4. SumFunction(f) \in Int
  BY SumType
<1> QED
  BY <1>1, <1>3, <1>4
----------------------------------------------------------------------------
(***************************************************************************)
(* Ranks.  In a finite set with a strict total order R, given as the set   *)
(* of its pairs, the number of elements before an element tells its place. *)
(***************************************************************************)
StrictTotalOrder(R, S) ==
  /\ \A x \in S : <<x, x>> \notin R
  /\ \A x, y, z \in S : <<x, y>> \in R /\ <<y, z>> \in R => <<x, z>> \in R
  /\ \A x, y \in S : x = y \/ <<x, y>> \in R \/ <<y, x>> \in R

RankIn(R, S, x) == Cardinality({y \in S : <<y, x>> \in R})

\* Ranks agree with the order.
LEMMA RankIsOrder ==
  ASSUME NEW S, NEW R, IsFiniteSet(S), StrictTotalOrder(R, S), NEW x \in S, NEW y \in S
  PROVE  /\ RankIn(R, S, x) \in 0..(Cardinality(S) - 1)
         /\ <<x, y>> \in R => RankIn(R, S, x) < RankIn(R, S, y)
         /\ RankIn(R, S, x) = RankIn(R, S, y) => x = y
<1> DEFINE Below(z) == {u \in S : <<u, z>> \in R}
<1>1. \A z : Below(z) \in SUBSET S /\ IsFiniteSet(Below(z)) /\ Cardinality(Below(z)) \in Nat
  BY FS_Subset, FS_CardinalityType
<1>2. Cardinality(S) \in Nat
  BY FS_CardinalityType
<1>3. ASSUME NEW u \in S, NEW v \in S, <<u, v>> \in R
      PROVE  Cardinality(Below(u)) < Cardinality(Below(v))
  <2>1. Below(u) \subseteq Below(v) /\ u \in Below(v) /\ u \notin Below(u)
    BY <1>3 DEF StrictTotalOrder
  <2>2. Below(u) \in SUBSET Below(v) /\ Below(u) # Below(v)
    BY <2>1
  <2> HIDE DEF Below
  <2> QED
    BY <1>1, <2>2, FS_Subset
<1>4. Below(x) # S
  BY DEF StrictTotalOrder
<1>5. Cardinality(Below(x)) <= Cardinality(S) /\ Cardinality(Below(x)) # Cardinality(S)
  <2> HIDE DEF Below
  <2> QED
    BY <1>1, <1>4, FS_Subset
<1>6. x = y \/ <<x, y>> \in R \/ <<y, x>> \in R
  BY DEF StrictTotalOrder
<1>7. /\ RankIn(R, S, x) = Cardinality(Below(x))
      /\ RankIn(R, S, y) = Cardinality(Below(y))
  BY DEF RankIn
<1> HIDE DEF Below
<1>8. Cardinality(Below(x)) \in 0..(Cardinality(S) - 1)
  BY <1>1, <1>2, <1>5
<1> QED
  BY <1>1, <1>3, <1>6, <1>7, <1>8

\* Every place is taken.
LEMMA RankIsOnto ==
  ASSUME NEW S, NEW R, IsFiniteSet(S), StrictTotalOrder(R, S), NEW n \in 1..Cardinality(S)
  PROVE  \E x \in S : RankIn(R, S, x) = n - 1
<1> DEFINE T == 0..(Cardinality(S) - 1)
           rank == [x \in S |-> RankIn(R, S, x)]
<1>1. Cardinality(S) \in Nat
  BY FS_CardinalityType
<1>2. IsFiniteSet(T) /\ Cardinality(T) = Cardinality(S)
  <2>1. 0 \in Int /\ Cardinality(S) - 1 \in Int /\ Cardinality(S) >= 1
    BY <1>1
  <2>2. /\ IsFiniteSet(T)
        /\ Cardinality(T) = IF 0 > Cardinality(S) - 1 THEN 0 ELSE (Cardinality(S) - 1) - 0 + 1
    BY <2>1, FS_Interval, Zenon
  <2> QED
    BY <1>1, <2>1, <2>2
<1>3. \A x \in S : RankIn(R, S, x) \in T
  BY RankIsOrder
<1>4. \A x, y \in S : RankIn(R, S, x) = RankIn(R, S, y) => x = y
  BY RankIsOrder
<1>5. rank \in [S -> T] /\ \A x, y \in S : rank[x] = rank[y] => x = y
  BY <1>3, <1>4
<1>6. rank \in Injection(S, T)
  <2> HIDE DEF rank, T
  <2> QED
    BY <1>5, Fun_IsInj
<1>7. rank \in Surjection(S, T)
  <2> HIDE DEF rank, T
  <2> QED
    BY <1>2, <1>6, FS_Injection
<1>8. n - 1 \in T
  BY <1>1
<1>9. \E x \in S : rank[x] = n - 1
  <2> HIDE DEF rank, T
  <2> QED
    BY <1>7, <1>8, Fun_SurjectionProperties
<1> QED
  BY <1>9

\* The element of each place, and that there is no other way to place them.
AtPlace(R, S, n) == CHOOSE x \in S : RankIn(R, S, x) = n - 1

LEMMA PlacesAreElements ==
  ASSUME NEW S, NEW R, IsFiniteSet(S), StrictTotalOrder(R, S)
  PROVE  /\ Cardinality(S) \in Nat
         /\ \A n \in 1..Cardinality(S) : /\ AtPlace(R, S, n) \in S
                                         /\ RankIn(R, S, AtPlace(R, S, n)) = n - 1
         /\ \A x \in S : \E n \in 1..Cardinality(S) : AtPlace(R, S, n) = x
         /\ \A m, n \in 1..Cardinality(S) :
              m < n => <<AtPlace(R, S, m), AtPlace(R, S, n)>> \in R
<1>1. Cardinality(S) \in Nat
  BY FS_CardinalityType
<1>2. ASSUME NEW n \in 1..Cardinality(S)
      PROVE  AtPlace(R, S, n) \in S /\ RankIn(R, S, AtPlace(R, S, n)) = n - 1
  BY RankIsOnto DEF AtPlace
<1>3. ASSUME NEW x \in S PROVE \E n \in 1..Cardinality(S) : AtPlace(R, S, n) = x
  <2> DEFINE n == RankIn(R, S, x) + 1
  <2>1. RankIn(R, S, x) \in 0..(Cardinality(S) - 1)
    BY RankIsOrder
  <2>2. n \in 1..Cardinality(S) /\ RankIn(R, S, x) = n - 1
    BY <1>1, <2>1
  <2> HIDE DEF n
  <2>3. AtPlace(R, S, n) = x
    BY <1>2, <2>2, RankIsOrder
  <2> QED
    BY <2>2, <2>3
<1>4. ASSUME NEW m \in 1..Cardinality(S), NEW n \in 1..Cardinality(S), m < n
      PROVE  <<AtPlace(R, S, m), AtPlace(R, S, n)>> \in R
  <2> DEFINE x == AtPlace(R, S, m)
             y == AtPlace(R, S, n)
  <2>1. x \in S /\ y \in S /\ RankIn(R, S, x) = m - 1 /\ RankIn(R, S, y) = n - 1
    BY <1>2
  <2> HIDE DEF x, y
  <2>2. RankIn(R, S, x) < RankIn(R, S, y)
    BY <1>1, <1>4, <2>1
  <2>3. x # y /\ <<y, x>> \notin R
    BY <1>1, <2>1, <2>2, RankIsOrder
  <2>4. <<x, y>> \in R
    BY <2>1, <2>3 DEF StrictTotalOrder
  <2> QED
    BY <2>4 DEF x, y
<1> QED
  BY <1>1, <1>2, <1>3, <1>4
----------------------------------------------------------------------------
(***************************************************************************)
(* Running sums along an order of the summands.                            *)
(***************************************************************************)
First(order, n) == {order[k] : k \in 1..n}
SumOfFirst(order, val, n) == SumFunction([x \in First(order, n) |-> val[x]])

\* The equation of a running sum.
Runs(g, start, order, val, N) ==
  g = [n \in 0..N |-> IF n = 0 THEN start ELSE g[n - 1] + val[order[n]]]

AddsUp(g, start, order, val, N) == \A n \in 0..N : g[n] = start + SumOfFirst(order, val, n)

LEMMA FirstIsFinite == ASSUME NEW order, NEW n \in Nat PROVE IsFiniteSet(First(order, n))
<1> DEFINE f == [k \in 1..n |-> order[k]]
<1>1. f \in Surjection(1..n, First(order, n))
  <2>1. f \in [1..n -> First(order, n)] /\ \A x \in First(order, n) : \E k \in 1..n : f[k] = x
    BY DEF First
  <2> HIDE DEF f
  <2> QED
    BY <2>1, Fun_IsSurj
<1>2. IsFiniteSet(1..n)
  BY FS_Interval
<1> HIDE DEF f
<1> QED
  BY <1>1, <1>2, FS_Surjection

LEMMA SumOfOneMore ==
  ASSUME NEW N \in Nat, NEW order, NEW val, NEW n \in 1..N,
         \A k \in 1..N : val[order[k]] \in Int,
         \A j, k \in 1..N : order[j] = order[k] => j = k
  PROVE  /\ SumOfFirst(order, val, 0) = 0
         /\ SumOfFirst(order, val, n - 1) \in Int
         /\ SumOfFirst(order, val, n) = SumOfFirst(order, val, n - 1) + val[order[n]]
<1> DEFINE f == [x \in First(order, n - 1) |-> val[x]]
           g == [x \in First(order, n) |-> val[x]]
<1>1. n - 1 \in Nat /\ n \in Nat /\ 1..n = 1..(n - 1) \cup {n} /\ n \notin 1..(n - 1)
  OBVIOUS
<1>2. 1..n \subseteq 1..N /\ 1..(n - 1) \subseteq 1..N
  OBVIOUS
<1>3. First(order, n) = First(order, n - 1) \cup {order[n]}
  BY <1>1 DEF First
<1>4. order[n] \notin First(order, n - 1)
  BY <1>1, <1>2 DEF First
<1>5. \A x \in First(order, n - 1) : val[x] \in Int
  BY <1>2 DEF First
<1>6. DOMAIN f = First(order, n - 1) /\ DOMAIN g = First(order, n) /\ g[order[n]] = val[order[n]]
  BY <1>3
<1>7. \A x \in DOMAIN f : f[x] \in Int /\ g[x] = f[x]
  BY <1>3, <1>5
<1>8. IsFiniteSet(DOMAIN f)
  BY <1>1, <1>6, FirstIsFinite
<1>9. SumFunction(f) \in Int
  <2> HIDE DEF f
  <2> QED
    BY <1>7, <1>8, SumType
<1>10. SumFunction(g) = SumFunction(f) + g[order[n]]
  <2>1. order[n] \notin DOMAIN f /\ DOMAIN g = DOMAIN f \cup {order[n]} /\ g[order[n]] \in Int
    BY <1>3, <1>4, <1>6
  <2> HIDE DEF f, g
  <2> QED
    BY <1>7, <1>8, <2>1, SumAdd
<1>11. SumOfFirst(order, val, 0) = 0
  <2>1. First(order, 0) = {}
    BY DEF First
  <2> QED
    BY <2>1, SumEmpty DEF SumOfFirst
<1> QED
  BY <1>6, <1>9, <1>10, <1>11 DEF SumOfFirst

\* A running sum exists, and after n steps it is the sum of the first n.  A
\* definition running[n \in 0..N] == ... is one, whatever it is chosen to be.
LEMMA RunningSum ==
  ASSUME NEW N \in Nat, NEW order, NEW val, NEW start \in Int,
         \A k \in 1..N : val[order[k]] \in Int,
         \A j, k \in 1..N : order[j] = order[k] => j = k
  PROVE  /\ \E g : Runs(g, start, order, val, N)
         /\ \A g : Runs(g, start, order, val, N) => AddsUp(g, start, order, val, N)
<1> DEFINE h == [n \in 0..N |-> start + SumOfFirst(order, val, n)]
<1>1. \A n \in 1..N : /\ SumOfFirst(order, val, 0) = 0
                      /\ SumOfFirst(order, val, n - 1) \in Int
                      /\ SumOfFirst(order, val, n) = SumOfFirst(order, val, n - 1) + val[order[n]]
  BY SumOfOneMore
<1>2. SumOfFirst(order, val, 0) = 0
  <2>1. First(order, 0) = {}
    BY DEF First
  <2> QED
    BY <2>1, SumEmpty DEF SumOfFirst
<1>3. \A n \in 0..N : h[n] = IF n = 0 THEN start ELSE h[n - 1] + val[order[n]]
  <2>1. h[0] = start
    BY <1>2
  <2>2. ASSUME NEW n \in 1..N PROVE h[n] = h[n - 1] + val[order[n]]
    <3>1. n \in 0..N /\ n - 1 \in 0..N
      OBVIOUS
    <3> QED
      BY <1>1, <3>1
  <2>3. \A n \in 0..N : n = 0 \/ n \in 1..N
    OBVIOUS
  <2> HIDE DEF h
  <2> QED
    BY <2>1, <2>2, <2>3
<1>4. Runs(h, start, order, val, N)
  <2>1. h = [n \in 0..N |-> h[n]]
    OBVIOUS
  <2> HIDE DEF h
  <2>2. [n \in 0..N |-> h[n]] = [n \in 0..N |-> IF n = 0 THEN start ELSE h[n - 1] + val[order[n]]]
    BY <1>3
  <2> QED
    BY <2>1, <2>2 DEF Runs
<1>5. ASSUME NEW g, Runs(g, start, order, val, N)
      PROVE  \A n \in 0..N : g[n] = h[n]
  <2>1. \A n \in 0..N : g[n] = IF n = 0 THEN start ELSE g[n - 1] + val[order[n]]
    BY <1>5 DEF Runs
  <2> DEFINE Differ == {n \in 0..N : g[n] # h[n]}
  <2>2. ASSUME Differ # {} PROVE FALSE
    <3>1. PICK n \in Differ : \A m \in Differ : n <= m
      <4>1. Differ \subseteq Nat
        OBVIOUS
      <4> HIDE DEF Differ
      <4> QED
        BY <2>2, <4>1, LeastNatural
    <3>2. n # 0
      BY <1>3, <2>1, <3>1
    <3>3. n - 1 \in 0..N /\ n - 1 \notin Differ
      BY <3>1, <3>2
    <3>4. g[n - 1] = h[n - 1]
      BY <3>3
    <3>5. g[n] = h[n]
      <4> HIDE DEF h
      <4> QED
        BY <1>3, <2>1, <3>1, <3>2, <3>4
    <3> QED
      BY <3>1, <3>5
  <2> QED
    BY <2>2
<1>6. \A g : Runs(g, start, order, val, N) => AddsUp(g, start, order, val, N)
  BY <1>5 DEF AddsUp
<1> QED
  BY <1>4, <1>6
=============================================================================
