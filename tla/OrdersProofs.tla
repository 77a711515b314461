---------------------------- MODULE OrdersProofs ----------------------------
(***************************************************************************)
(* What Orders promises, for all finite sets and all strict total orders:  *)
(* the listing of a set has every element of it and nothing else, and a    *)
(* selection from a sequence keeps the elements at the chosen positions.   *)
(* Then how a function that is recursive along a measure into the naturals *)
(* is shown to exist and how something is proved along the measure, and    *)
(* that the sums over the subsets of a finite set exist.                   *)
(***************************************************************************)
EXTENDS Orders, Sequences, FiniteSetTheorems, WellFoundedInduction, TLAPS

(* The smallest and the greatest number of a set.                          *)
LEMMA LeastNat ==
  ASSUME NEW S \in SUBSET Nat, S # {}
  PROVE  \E m \in S : \A k \in S : m <= k
<1>1. PICK m \in S : \A k \in S : ~ (<<k, m>> \in OpToRel(<, Nat))
  BY NatLessThanWellFounded, WFMin, Zenon
<1>2. \A k \in S : k \in Nat /\ m \in Nat /\ ~ (k < m)
  BY <1>1 DEF OpToRel
<1>3. \A k \in S : m <= k
  BY <1>2
<1> QED BY <1>3

(* The positions of a sequence of n elements.                              *)
LEMMA PositionsFinite ==
  ASSUME NEW n \in Nat PROVE IsFiniteSet(1 .. n) /\ Cardinality(1 .. n) = n
BY FS_Interval

(* An element has fewer elements before it than the set has in all.        *)
LEMMA BeforeCount ==
  ASSUME NEW S, IsFiniteSet(S), NEW Rel, StrictTotalOrder(S, Rel), NEW x \in S
  PROVE  /\ IsFiniteSet(Before(S, Rel, x))
         /\ Cardinality(Before(S, Rel, x)) \in 0 .. Cardinality(S) - 1
<1> DEFINE rest == S \ {x}
<1>1. Before(S, Rel, x) \subseteq rest
  BY DEF Before, StrictTotalOrder
<1>2. IsFiniteSet(rest) /\ Cardinality(rest) = Cardinality(S) - 1
  BY FS_RemoveElement
<1>3. IsFiniteSet(Before(S, Rel, x)) /\ Cardinality(Before(S, Rel, x)) <= Cardinality(rest)
  BY <1>1, <1>2, FS_Subset
<1>4. Cardinality(Before(S, Rel, x)) \in Nat /\ Cardinality(S) \in Nat
  BY <1>3, FS_CardinalityType
<1> QED BY <1>2, <1>3, <1>4

(* The later of two elements has more elements before it.                  *)
LEMMA BeforeGrows ==
  ASSUME NEW S, IsFiniteSet(S), NEW Rel, StrictTotalOrder(S, Rel),
         NEW x \in S, NEW y \in S, <<x, y>> \in Rel
  PROVE  Cardinality(Before(S, Rel, x)) < Cardinality(Before(S, Rel, y))
<1>1. /\ IsFiniteSet(Before(S, Rel, x)) /\ IsFiniteSet(Before(S, Rel, y))
      /\ Cardinality(Before(S, Rel, x)) \in Nat /\ Cardinality(Before(S, Rel, y)) \in Nat
  BY BeforeCount, FS_CardinalityType
<1>2. Before(S, Rel, x) \cup {x} \subseteq Before(S, Rel, y)
  BY DEF Before, StrictTotalOrder
<1>3. x \notin Before(S, Rel, x)
  BY DEF Before, StrictTotalOrder
<1>4. Cardinality(Before(S, Rel, x) \cup {x}) = Cardinality(Before(S, Rel, x)) + 1
  BY <1>1, <1>3, FS_AddElement
<1>5. Cardinality(Before(S, Rel, x) \cup {x}) <= Cardinality(Before(S, Rel, y))
  BY <1>1, <1>2, FS_Subset
<1> QED BY <1>1, <1>4, <1>5

(* Listing: an element of the set at every place, and every element at     *)
(* some place; at the k-th place the one with k - 1 elements before it.    *)
LEMMA ListingPlaces ==
  ASSUME NEW S, IsFiniteSet(S), NEW Rel, StrictTotalOrder(S, Rel)
  PROVE  /\ Listing(S, Rel) \in [1 .. Cardinality(S) -> S]
         /\ \A x \in S : \E k \in 1 .. Cardinality(S) : Listing(S, Rel)[k] = x
         /\ \A k \in 1 .. Cardinality(S) : Cardinality(Before(S, Rel, Listing(S, Rel)[k])) = k - 1
<1> DEFINE n      == Cardinality(S)
           places == 1 .. n
           before == [x \in S |-> Cardinality(Before(S, Rel, x))]
           place  == [x \in S |-> Cardinality(Before(S, Rel, x)) + 1]
<1>1. n \in Nat
  BY FS_CardinalityType
<1>2. \A x \in S : before[x] \in 0 .. n - 1
  BY BeforeCount
<1>3. \A x, y \in S : x # y => before[x] # before[y]
  <2> SUFFICES ASSUME NEW x \in S, NEW y \in S, x # y PROVE before[x] # before[y]
    OBVIOUS
  <2>1. before[x] \in Nat /\ before[y] \in Nat
    BY <1>1, <1>2
  <2>2. CASE <<x, y>> \in Rel
    BY <2>1, <2>2, BeforeGrows
  <2>3. CASE <<y, x>> \in Rel
    BY <2>1, <2>3, BeforeGrows
  <2> QED BY <2>2, <2>3 DEF StrictTotalOrder
<1>4. place \in Injection(S, places)
  <2>1. \A x \in S : place[x] = before[x] + 1
    OBVIOUS
  <2>2. place \in [S -> places]
    BY <1>1, <1>2, <2>1
  <2>3. \A x, y \in S : place[x] = place[y] => x = y
    BY <1>1, <1>2, <1>3, <2>1
  <2> HIDE DEF place, places
  <2> QED BY <2>2, <2>3 DEF Injection, IsInjective
<1>5. IsFiniteSet(places) /\ Cardinality(places) = n
  BY <1>1, FS_Interval
<1>6. place \in Surjection(S, places)
  BY <1>4, <1>5, FS_Injection
<1>7. \A k \in places : \E x \in S : before[x] = k - 1
  <2> SUFFICES ASSUME NEW k \in places PROVE \E x \in S : before[x] = k - 1
    OBVIOUS
  <2>1. PICK x \in S : place[x] = k
    BY <1>6 DEF Surjection
  <2> QED BY <1>1, <1>2, <2>1
<1>8. Listing(S, Rel) = [k \in places |-> CHOOSE x \in S : before[x] = k - 1]
  BY DEF Listing
<1>9. \A k \in places : Listing(S, Rel)[k] \in S /\ before[Listing(S, Rel)[k]] = k - 1
  BY <1>7, <1>8
<1>10. ASSUME NEW x \in S PROVE \E k \in places : Listing(S, Rel)[k] = x
  <2>1. before[x] + 1 \in places /\ (before[x] + 1) - 1 = before[x]
    BY <1>1, <1>2
  <2>2. before[Listing(S, Rel)[before[x] + 1]] = before[x] /\ Listing(S, Rel)[before[x] + 1] \in S
    BY <1>9, <2>1
  <2> QED BY <1>3, <2>1, <2>2
<1>11. \A k \in places : Cardinality(Before(S, Rel, Listing(S, Rel)[k])) = k - 1
  BY <1>9
<1> HIDE DEF before, place
<1> QED BY <1>8, <1>9, <1>10, <1>11

(* The same without the places.                                            *)
LEMMA ListingFacts ==
  ASSUME NEW S, IsFiniteSet(S), NEW Rel, StrictTotalOrder(S, Rel)
  PROVE  /\ Listing(S, Rel) \in [1 .. Cardinality(S) -> S]
         /\ \A x \in S : \E k \in 1 .. Cardinality(S) : Listing(S, Rel)[k] = x
BY ListingPlaces

(* No element is listed twice.                                             *)
LEMMA ListingOnce ==
  ASSUME NEW S, IsFiniteSet(S), NEW Rel, StrictTotalOrder(S, Rel),
         NEW k \in 1 .. Cardinality(S), NEW l \in 1 .. Cardinality(S),
         Listing(S, Rel)[k] = Listing(S, Rel)[l]
  PROVE  k = l
<1>1. Cardinality(Before(S, Rel, Listing(S, Rel)[k])) = k - 1
      /\ Cardinality(Before(S, Rel, Listing(S, Rel)[l])) = l - 1
  BY ListingPlaces
<1>2. k - 1 = l - 1 /\ Cardinality(S) \in Nat
  BY <1>1, FS_CardinalityType
<1> QED BY <1>2

(* The numbers in ascending order are strictly and totally ordered.        *)
LEMMA IncreasingOrder ==
  ASSUME NEW I \in SUBSET Int
  PROVE  StrictTotalOrder(I, Increasing(I))
BY DEF StrictTotalOrder, Increasing

(* Keep: what is kept are the elements at the chosen positions.            *)
LEMMA KeepFacts ==
  ASSUME NEW T, NEW A \in Seq(T), NEW I \in SUBSET DOMAIN A
  PROVE  /\ Keep(A, I) \in Seq(T)
         /\ \A k \in DOMAIN Keep(A, I) : \E j \in I : Keep(A, I)[k] = A[j]
         /\ \A j \in I : \E k \in DOMAIN Keep(A, I) : Keep(A, I)[k] = A[j]
<1> DEFINE at == Listing(I, Increasing(I))
<1>1. IsFiniteSet(I) /\ I \subseteq Int /\ Cardinality(I) \in Nat
  <2>1. DOMAIN A = 1 .. Len(A) /\ Len(A) \in Nat
    OBVIOUS
  <2>2. IsFiniteSet(I)
    <3>1. IsFiniteSet(1 .. Len(A)) /\ I \in SUBSET (1 .. Len(A))
      BY <2>1, FS_Interval
    <3> QED BY <3>1, FS_Subset
  <2> QED BY <2>1, <2>2, FS_CardinalityType
<1>2. StrictTotalOrder(I, Increasing(I))
  BY <1>1, IncreasingOrder
<1>3. /\ at \in [1 .. Cardinality(I) -> I]
      /\ \A x \in I : \E k \in 1 .. Cardinality(I) : at[k] = x
  BY <1>1, <1>2, ListingFacts
<1> HIDE DEF at
<1>4. Keep(A, I) = [k \in 1 .. Cardinality(I) |-> A[at[k]]]
  BY DEF Keep, at
<1>5. \A j \in I : A[j] \in T
  OBVIOUS
<1>6. DOMAIN Keep(A, I) = 1 .. Cardinality(I)
  BY <1>4
<1>7. \A k \in 1 .. Cardinality(I) : at[k] \in I /\ Keep(A, I)[k] = A[at[k]]
  BY <1>3, <1>4
<1>8. Keep(A, I) \in [1 .. Cardinality(I) -> T]
  BY <1>4, <1>5, <1>7
<1>9. Keep(A, I) \in Seq(T)
  BY <1>1, <1>8
<1> QED BY <1>3, <1>6, <1>7, <1>9

(* What holds of each element if it holds of those of smaller measure,     *)
(* holds of all.                                                           *)
LEMMA MeasureInduction ==
  ASSUME NEW S, NEW m \in [S -> Nat], NEW P,
         \A x \in S : (\A y \in S : m[y] < m[x] => y \in P) => x \in P
  PROVE  S \subseteq P
<1> SUFFICES ASSUME ~ (S \subseteq P) PROVE FALSE
  OBVIOUS
<1> DEFINE N == {m[x] : x \in S \ P}
<1>1. N \in SUBSET Nat /\ N # {}
  OBVIOUS
<1>2. PICK k \in N : \A l \in N : k <= l
  BY <1>1, LeastNat
<1>3. PICK x \in S \ P : m[x] = k
  BY <1>2
<1>4. \A y \in S : m[y] < m[x] => y \in P
  <2> SUFFICES ASSUME NEW y \in S, m[y] < m[x], y \notin P PROVE FALSE
    OBVIOUS
  <2>1. m[y] \in N /\ m[y] \in Nat /\ m[x] \in Nat
    OBVIOUS
  <2> QED BY <1>2, <1>3, <2>1, SMTT(30)
<1> QED BY <1>3, <1>4

(***************************************************************************)
(* A function can be defined by recursion along a measure: B maps a        *)
(* function to what the body of the definition makes of it, and looks only *)
(* at the values for arguments of smaller measure.                         *)
(***************************************************************************)
Recursion(S, V, m, B) ==
  /\ V # {} /\ m \in [S -> Nat] /\ B \in [[S -> V] -> [S -> V]]
  /\ \A f \in [S -> V], g \in [S -> V], x \in S :
        (\A y \in S : m[y] < m[x] => f[y] = g[y]) => B[f][x] = B[g][x]

(* A functional that looks only at smaller elements has a fixed point.     *)
THEOREM MeasureRecursion ==
  ASSUME NEW S, NEW V, NEW m, NEW B, Recursion(S, V, m, B)
  PROVE  \E h \in [S -> V] : h = B[h]
<1> USE DEF Recursion
<1> DEFINE Good(f, n) == \A x \in S : m[x] < n => B[f][x] = f[x]
           N == {n \in Nat : \E f \in [S -> V] : Good(f, n)}
           Pick(n) == CHOOSE f \in [S -> V] : Good(f, n)
           h == [x \in S |-> Pick(m[x] + 1)[x]]
<1>0. \A f \in [S -> V], x \in S : f[x] \in V /\ m[x] \in Nat /\ B[f] \in [S -> V] /\ B[f][x] \in V
  OBVIOUS
<1>1. 0 \in N
  <2>1. PICK v \in V : TRUE
    OBVIOUS
  <2>2. [x \in S |-> v] \in [S -> V]
    OBVIOUS
  <2>3. Good([x \in S |-> v], 0)
    BY <1>0
  <2> QED BY <2>2, <2>3
<1>2. ASSUME NEW n \in N PROVE n + 1 \in N
  <2>1. PICK f \in [S -> V] : Good(f, n)
    BY <1>2
  <2> DEFINE g == [x \in S |-> IF m[x] < n THEN f[x] ELSE B[f][x]]
  <2>2. g \in [S -> V]
    BY <1>0
  <2>3. \A x \in S : m[x] < n => g[x] = f[x]
    OBVIOUS
  <2>4. \A x \in S : ~ (m[x] < n) => g[x] = B[f][x]
    OBVIOUS
  <2> HIDE DEF g
  <2>5. ASSUME NEW x \in S, m[x] < n + 1 PROVE B[g][x] = g[x]
    <3>1. n \in Nat /\ m[x] \in Nat
      BY <1>0
    <3>2. \A y \in S : m[y] < m[x] => f[y] = g[y]
      <4> SUFFICES ASSUME NEW y \in S, m[y] < m[x] PROVE f[y] = g[y]
        OBVIOUS
      <4>1. m[y] \in Nat /\ m[y] < n
        BY <1>0, <2>5, <3>1
      <4> QED BY <2>3, <4>1
    <3>3. B[f][x] = B[g][x]
      BY <2>2, <3>2
    <3>4. CASE m[x] < n
      BY <2>1, <2>3, <3>3, <3>4
    <3>5. CASE ~ (m[x] < n)
      BY <2>4, <3>3, <3>5
    <3> QED BY <3>4, <3>5
  <2> QED BY <2>2, <2>5
<1>3. N = Nat
  <2> SUFFICES ASSUME Nat \ N # {} PROVE FALSE
    OBVIOUS
  <2>1. PICK k \in Nat \ N : \A l \in Nat \ N : k <= l
    BY LeastNat
  <2>2. k # 0 /\ k - 1 \in Nat /\ (k - 1) + 1 = k
    BY <1>1, <2>1
  <2>3. k - 1 \in N
    BY <2>1, <2>2, SMTT(30)
  <2>4. k \in N
    BY <1>2, <2>2, <2>3
  <2> QED BY <2>1, <2>4
<1>4. \A n \in Nat : Pick(n) \in [S -> V] /\ Good(Pick(n), n)
  <2> SUFFICES ASSUME NEW n \in Nat PROVE Pick(n) \in [S -> V] /\ Good(Pick(n), n)
    OBVIOUS
  <2>1. \E f \in [S -> V] : Good(f, n)
    BY <1>3
  <2> HIDE DEF Good
  <2> QED BY <2>1
<1>5. h \in [S -> V]
  <2>1. ASSUME NEW x \in S PROVE Pick(m[x] + 1)[x] \in V
    <3>1. m[x] + 1 \in Nat
      BY <1>0
    <3> HIDE DEF Pick, Good
    <3>2. Pick(m[x] + 1) \in [S -> V]
      BY <1>4, <3>1
    <3> QED BY <3>2
  <2> HIDE DEF Pick
  <2> QED BY <2>1
(* Functions that are good up to a measure agree up to it.                 *)
<1>6. ASSUME NEW f \in [S -> V], NEW g \in [S -> V], NEW n \in Nat, NEW k \in Nat, k <= n,
             Good(f, n), Good(g, k)
      PROVE  \A x \in S : m[x] < k => f[x] = g[x]
  <2> DEFINE P == {x \in S : m[x] < k => f[x] = g[x]}
  <2>1. ASSUME NEW x \in S, \A y \in S : m[y] < m[x] => y \in P PROVE x \in P
    <3> SUFFICES ASSUME m[x] < k PROVE f[x] = g[x]
      OBVIOUS
    <3>1. \A y \in S : m[y] < m[x] => f[y] = g[y]
      <4> SUFFICES ASSUME NEW y \in S, m[y] < m[x] PROVE f[y] = g[y]
        OBVIOUS
      <4>1. m[y] < k
        BY <1>0
      <4> QED BY <2>1, <4>1
    <3>2. B[f][x] = B[g][x]
      BY <3>1
    <3>3. m[x] < n
      BY <1>0, <1>6
    <3> QED BY <1>6, <3>2, <3>3
  <2> HIDE DEF P
  <2>2. S \subseteq P
    BY <2>1, MeasureInduction
  <2> QED BY <2>2 DEF P
<1>7. ASSUME NEW x \in S PROVE B[h][x] = h[x]
  <2> DEFINE f == Pick(m[x] + 1)
  <2>1. m[x] + 1 \in Nat /\ f \in [S -> V] /\ Good(f, m[x] + 1)
    <3>1. m[x] + 1 \in Nat
      BY <1>0
    <3> HIDE DEF Good, Pick
    <3> QED BY <1>4, <3>1
  <2>2. h[x] = f[x]
    OBVIOUS
  <2>3. \A y \in S : m[y] < m[x] => h[y] = f[y]
    <3> SUFFICES ASSUME NEW y \in S, m[y] < m[x] PROVE h[y] = f[y]
      OBVIOUS
    <3>1. m[y] + 1 \in Nat /\ m[y] + 1 <= m[x] + 1 /\ m[y] < m[y] + 1
      BY <1>0
    <3>2. Pick(m[y] + 1) \in [S -> V] /\ Good(Pick(m[y] + 1), m[y] + 1)
      BY <1>4, <3>1
    <3>3. h[y] = Pick(m[y] + 1)[y]
      OBVIOUS
    <3> HIDE DEF f, Pick, Good, h
    <3>4. f[y] = Pick(m[y] + 1)[y]
      BY <1>6, <2>1, <3>1, <3>2
    <3> QED BY <3>3, <3>4
  <2> HIDE DEF f, h
  <2>4. B[h][x] = B[f][x]
    BY <1>5, <2>1, <2>3
  <2>5. B[f][x] = f[x]
    BY <1>0, <2>1
  <2> QED BY <2>2, <2>4, <2>5
<1> HIDE DEF h
<1>8. B[h] = h
  <2>1. B[h] \in [S -> V]
    BY <1>5
  <2> QED BY <1>5, <1>7, <2>1
<1> QED BY <1>5, <1>8

(* A finite set has an element at which a function is the greatest.        *)
LEMMA ArgMax ==
  ASSUME NEW S, IsFiniteSet(S), S # {}, NEW f \in [S -> Nat]
  PROVE  \E v \in S : \A w \in S : f[w] <= f[v]
<1> DEFINE m == [Q \in SUBSET S |-> Cardinality(Q)]
           P == {Q \in SUBSET S : Q # {} => \E v \in Q : \A w \in Q : f[w] <= f[v]}
<1>1. \A Q \in SUBSET S : IsFiniteSet(Q) /\ Cardinality(Q) \in Nat
  BY FS_Subset, FS_CardinalityType
<1>2. m \in [SUBSET S -> Nat]
  BY <1>1
<1>3. ASSUME NEW Q \in SUBSET S, \A y \in SUBSET S : m[y] < m[Q] => y \in P PROVE Q \in P
  <2> SUFFICES ASSUME Q # {} PROVE \E v \in Q : \A w \in Q : f[w] <= f[v]
    OBVIOUS
  <2>1. PICK x \in Q : TRUE
    OBVIOUS
  <2>2. IsFiniteSet(Q) /\ Cardinality(Q) \in Nat /\ Cardinality(Q \ {x}) = Cardinality(Q) - 1
    BY <1>1, <2>1, FS_RemoveElement
  <2>3. Q \ {x} \in P
    <3>1. Q \ {x} \in SUBSET S /\ m[Q \ {x}] = Cardinality(Q) - 1 /\ m[Q] = Cardinality(Q)
      BY <2>2
    <3>2. m[Q \ {x}] < m[Q]
      BY <2>2, <3>1
    <3> HIDE DEF m, P
    <3> QED BY <1>3, <3>1, <3>2
  <2>4. \A w \in Q : f[w] \in Nat
    OBVIOUS
  <2>5. CASE Q \ {x} = {}
    BY <2>1, <2>4, <2>5
  <2>6. CASE Q \ {x} # {}
    <3>1. PICK v \in Q \ {x} : \A w \in Q \ {x} : f[w] <= f[v]
      BY <2>3, <2>6
    <3>2. CASE f[x] <= f[v]
      BY <3>1, <3>2
    <3>3. CASE ~ (f[x] <= f[v])
      BY <2>1, <2>4, <3>1, <3>3
    <3> QED BY <3>2, <3>3
  <2> QED BY <2>5, <2>6
<1> HIDE DEF P, m
<1>4. SUBSET S \subseteq P
  BY <1>2, <1>3, MeasureInduction
<1> QED BY <1>4 DEF P

(* The length of a selection.                                              *)
LEMMA KeepLen ==
  ASSUME NEW T, NEW A \in Seq(T), NEW I \in SUBSET DOMAIN A
  PROVE  /\ Len(Keep(A, I)) = Cardinality(I) /\ Len(Keep(A, I)) \in Nat /\ Len(Keep(A, I)) <= Len(A)
         /\ DOMAIN Keep(A, I) = 1 .. Cardinality(I)
         /\ I # DOMAIN A => Len(Keep(A, I)) < Len(A)
         /\ Keep(A, I) = <<>> <=> I = {}
<1>1. DOMAIN A = 1 .. Len(A) /\ Len(A) \in Nat
  OBVIOUS
<1>2. IsFiniteSet(DOMAIN A) /\ Cardinality(DOMAIN A) = Len(A)
  BY <1>1, PositionsFinite
<1>3. IsFiniteSet(I) /\ Cardinality(I) \in Nat /\ Cardinality(I) <= Len(A)
  BY <1>2, FS_Subset, FS_CardinalityType
<1>4. Keep(A, I) \in Seq(T)
  BY KeepFacts
<1>5. DOMAIN Keep(A, I) = 1 .. Cardinality(I)
  BY DEF Keep
<1>6. Len(Keep(A, I)) = Cardinality(I)
  BY <1>3, <1>4, <1>5
<1>7. ASSUME I # DOMAIN A PROVE Len(Keep(A, I)) < Len(A)
  <2>1. Cardinality(I) < Cardinality(DOMAIN A)
    BY <1>2, <1>3, <1>7, FS_Subset
  <2> QED BY <1>2, <1>6, <2>1
<1>8. Keep(A, I) = <<>> <=> Len(Keep(A, I)) = 0
  BY <1>4
<1>9. Cardinality(I) = 0 <=> I = {}
  BY <1>3, FS_EmptySet
<1> QED BY <1>3, <1>5, <1>6, <1>7, <1>8, <1>9

(***************************************************************************)
(* Sums over a finite set, element by element as the folds take them.      *)
(***************************************************************************)
Taken(s) == CHOOSE x \in s : TRUE
Summed(S, f, h) ==
  [s \in SUBSET S |-> IF s = {} THEN 0 ELSE f[Taken(s)] + h[s \ {Taken(s)}]]

(* What is taken from a set is in it, and leaves a smaller one.            *)
LEMMA TakenFrom ==
  ASSUME NEW S, IsFiniteSet(S), NEW s \in SUBSET S, s # {}
  PROVE  /\ Taken(s) \in s /\ s \ {Taken(s)} \in SUBSET S
         /\ Cardinality(s) \in Nat /\ Cardinality(s \ {Taken(s)}) \in Nat
         /\ Cardinality(s \ {Taken(s)}) < Cardinality(s)
<1>1. Taken(s) \in s
  BY DEF Taken
<1>2. IsFiniteSet(s) /\ IsFiniteSet(s \ {Taken(s)})
  BY FS_Subset
<1>3. Cardinality(s) \in Nat /\ Cardinality(s \ {Taken(s)}) \in Nat
  BY <1>2, FS_CardinalityType
<1>4. Cardinality(s \ {Taken(s)}) = Cardinality(s) - 1
  BY <1>1, <1>2, FS_RemoveElement
<1> QED BY <1>1, <1>3, <1>4

(* The sums over the subsets of a finite set exist.                        *)
LEMMA SumsExist ==
  ASSUME NEW S, IsFiniteSet(S), NEW f \in [S -> Nat]
  PROVE  \E h \in [SUBSET S -> Nat] : h = Summed(S, f, h)
<1> DEFINE m == [s \in SUBSET S |-> Cardinality(s)]
           B == [h \in [SUBSET S -> Nat] |-> Summed(S, f, h)]
<1>1. ASSUME NEW s \in SUBSET S PROVE Cardinality(s) \in Nat
  BY FS_Subset, FS_CardinalityType
<1>2. m \in [SUBSET S -> Nat]
  BY <1>1
<1>3. ASSUME NEW h \in [SUBSET S -> Nat] PROVE Summed(S, f, h) \in [SUBSET S -> Nat]
  <2>1. ASSUME NEW s \in SUBSET S, s # {} PROVE f[Taken(s)] + h[s \ {Taken(s)}] \in Nat
    <3>1. f[Taken(s)] \in Nat /\ h[s \ {Taken(s)}] \in Nat
      BY <2>1, TakenFrom
    <3> QED BY <3>1
  <2> QED BY <2>1 DEF Summed
<1>4. B \in [[SUBSET S -> Nat] -> [SUBSET S -> Nat]]
  BY <1>3
<1>5. ASSUME NEW g \in [SUBSET S -> Nat], NEW h \in [SUBSET S -> Nat], NEW s \in SUBSET S,
             \A t \in SUBSET S : m[t] < m[s] => g[t] = h[t]
      PROVE  B[g][s] = B[h][s]
  <2>1. B[g][s] = Summed(S, f, g)[s] /\ B[h][s] = Summed(S, f, h)[s]
    OBVIOUS
  <2>2. CASE s = {}
    BY <2>1, <2>2 DEF Summed
  <2>3. CASE s # {}
    <3>1. s \ {Taken(s)} \in SUBSET S /\ m[s \ {Taken(s)}] < m[s]
      BY <2>3, TakenFrom
    <3>2. g[s \ {Taken(s)}] = h[s \ {Taken(s)}]
      BY <1>5, <3>1
    <3> QED BY <2>1, <3>2 DEF Summed
  <2> QED BY <2>2, <2>3
<1> HIDE DEF m, B
<1>6. Recursion(SUBSET S, Nat, m, B)
  BY <1>2, <1>4, <1>5 DEF Recursion
<1>7. PICK h \in [SUBSET S -> Nat] : h = B[h]
  <2> DEFINE Subs == SUBSET S
             V == Nat
  <2>1. Recursion(Subs, V, m, B)
    BY <1>6
  <2> HIDE DEF Subs, V
  <2>2. \E h \in [Subs -> V] : h = B[h]
    BY <2>1, MeasureRecursion
  <2> QED BY <2>2 DEF Subs, V
<1> QED BY <1>7 DEF B
=============================================================================
