---------------------------- MODULE CubesProofs ----------------------------
(***************************************************************************)
(* What the operations on cubes and covers promise, for any number of      *)
(* variables and parts: the orders of qsort are strict total orders, so    *)
(* that sorting loses and invents nothing; the sorted and thinned families *)
(* have only cubes of the old one; unravelling yields all the pieces of    *)
(* the cubes and nothing else; and how distance behaves as cubes grow.     *)
(*                                                                         *)
(* Then the recursive questions of the unate recursion, each a function    *)
(* that is shown to exist, to have its recursion equation and to answer    *)
(* rightly along a measure that falls from call to call: sccc finds all    *)
(* the parts that the points outside a cover have, a cover that tautology  *)
(* or ftautology accepts misses no point, and the table that irredundant   *)
(* makes of the answers names enough cubes to cover every other one.       *)
(*                                                                         *)
(* And the minimum column cover: dominance, essential columns, blocks,     *)
(* Gimpel's reduction and branching always come back with a cover, which   *)
(* takes all columns only if each is the only one of some row; so what     *)
(* irredundant keeps of a cover it leaves whole is needed, cube by cube.   *)
(***************************************************************************)
EXTENDS Irredundant, OrdersProofs, SequenceTheorems

(* The elements of B are elements of A.                                    *)
From(B, A) == \A k \in DOMAIN B : \E j \in DOMAIN A : B[k] = A[j]

(* A cube has finitely many parts.                                         *)
LEMMA PartsFinite ==
  /\ Vars \subseteq Nat /\ IsFiniteSet(Vars)
  /\ size \in Nat /\ Parts \subseteq Nat /\ IsFiniteSet(Parts) /\ IsFiniteSet(Cubes)
  /\ \A c \in Cubes : c \subseteq Nat /\ IsFiniteSet(c)
<1>1. num_vars \in Nat /\ first_part[num_vars] \in Nat
  BY CubeAssumption
<1>2. Vars \subseteq Nat /\ IsFiniteSet(Vars)
  BY <1>1, FS_Interval DEF Vars
<1>3. size \in Nat /\ Parts \subseteq Nat /\ IsFiniteSet(Parts)
  <2>1. size \in Nat
    BY <1>1 DEF size
  <2>2. Parts \subseteq Nat /\ IsFiniteSet(Parts)
    BY <2>1, FS_Interval DEF Parts
  <2> QED BY <2>1, <2>2
<1>4. IsFiniteSet(Cubes)
  BY <1>3, FS_SUBSET DEF Cubes
<1>5. \A c \in Cubes : c \subseteq Nat /\ IsFiniteSet(c)
  BY <1>3, FS_Subset DEF Cubes
<1> QED BY <1>2, <1>3, <1>4, <1>5

(* The greatest element of a set of numbers that is bounded.               *)
LEMMA GreatestNat ==
  ASSUME NEW n \in Nat, NEW S \in SUBSET (0 .. n), S # {}
  PROVE  \E m \in S : \A k \in S : k <= m
<1> DEFINE T == {n - k : k \in S}
<1>1. T \in SUBSET Nat /\ T # {}
  <2>1. \A k \in S : n - k \in Nat
    OBVIOUS
  <2>2. T \in SUBSET Nat
    BY <2>1
  <2>3. PICK k \in S : TRUE
    OBVIOUS
  <2>4. n - k \in T
    OBVIOUS
  <2> QED BY <2>2, <2>4
<1>2. PICK t \in T : \A u \in T : t <= u
  BY <1>1, LeastNat
<1>3. PICK m \in S : t = n - m
  BY <1>2
<1>4. \A k \in S : n - m <= n - k
  BY <1>2, <1>3
<1>5. \A k \in S : k \in Int /\ m \in Int /\ n - m <= n - k
  BY <1>4
<1> QED BY <1>3, <1>5

(* Of two different cubes one is the higher; nothing is higher than itself;*)
(* and what is higher than a higher one is higher.                         *)
LEMMA HigherTotal ==
  ASSUME NEW a \in Cubes, NEW b \in Cubes, a # b
  PROVE  Higher(a, b) \/ Higher(b, a)
<1> DEFINE d == (a \ b) \cup (b \ a)
<1>1. d \in SUBSET (0 .. size) /\ d # {} /\ size \in Nat
  <2>1. size \in Nat /\ d # {}
    BY PartsFinite
  <2>2. a \subseteq 0 .. size /\ b \subseteq 0 .. size
    BY <2>1 DEF Cubes, Parts
  <2> QED BY <2>1, <2>2
<1>2. PICK m \in d : \A k \in d : k <= m
  BY <1>1, GreatestNat
<1>3. \A k \in d : k \in Int
  BY <1>1
<1> QED BY <1>2, <1>3 DEF Higher

(* The descending lexicographic order is irreflexive and transitive.       *)
LEMMA HigherOrder ==
  ASSUME NEW a \in Cubes, NEW b \in Cubes, NEW c \in Cubes
  PROVE  /\ ~ Higher(a, a)
         /\ Higher(a, b) /\ Higher(b, c) => Higher(a, c)
<1>1. \A p \in a \cup b \cup c : p \in Int
  BY PartsFinite DEF Cubes
<1>2. ~ Higher(a, a)
  BY DEF Higher
<1>3. ASSUME Higher(a, b), Higher(b, c) PROVE Higher(a, c)
  <2>1. PICK p \in a \ b : \A x \in b \ a : x < p
    BY <1>3 DEF Higher
  <2>2. PICK q \in b \ c : \A x \in c \ b : x < q
    BY <1>3 DEF Higher
  <2>3. p # q /\ p \in Int /\ q \in Int
    BY <1>1, <2>1, <2>2
  <2>4. CASE q < p
    <3>1. p \in a \ c
      BY <2>1, <2>2, <2>3, <2>4
    <3>2. \A x \in c \ a : x < p
      BY <1>1, <2>1, <2>2, <2>3, <2>4
    <3> QED BY <3>1, <3>2 DEF Higher
  <2>5. CASE p < q
    <3>1. q \in a \ c
      BY <2>1, <2>2, <2>3, <2>5
    <3>2. \A x \in c \ a : x < q
      BY <1>1, <2>1, <2>2, <2>3, <2>5
    <3> QED BY <3>1, <3>2 DEF Higher
  <2> QED BY <2>3, <2>4, <2>5
<1> QED BY <1>2, <1>3

(* The same for the order by the lowest part.                              *)
LEMMA LowerTotal ==
  ASSUME NEW a \in Cubes, NEW b \in Cubes, a # b
  PROVE  Lower(a, b) \/ Lower(b, a)
<1> DEFINE d == (a \ b) \cup (b \ a)
<1>1. d \in SUBSET Nat /\ d # {}
  BY PartsFinite
<1>2. PICK m \in d : \A k \in d : m <= k
  BY <1>1, LeastNat
<1>3. \A k \in d : k \in Int
  BY <1>1
<1> QED BY <1>2, <1>3 DEF Lower

(* The ascending lexicographic order is irreflexive and transitive.        *)
LEMMA LowerOrder ==
  ASSUME NEW a \in Cubes, NEW b \in Cubes, NEW c \in Cubes
  PROVE  /\ ~ Lower(a, a)
         /\ Lower(a, b) /\ Lower(b, c) => Lower(a, c)
<1>1. \A p \in a \cup b \cup c : p \in Int
  BY PartsFinite DEF Cubes
<1>2. ~ Lower(a, a)
  BY DEF Lower
<1>3. ASSUME Lower(a, b), Lower(b, c) PROVE Lower(a, c)
  <2>1. PICK p \in a \ b : \A x \in b \ a : p < x
    BY <1>3 DEF Lower
  <2>2. PICK q \in b \ c : \A x \in c \ b : q < x
    BY <1>3 DEF Lower
  <2>3. p # q /\ p \in Int /\ q \in Int
    BY <1>1, <2>1, <2>2
  <2>4. CASE p < q
    <3>1. p \in a \ c
      BY <2>1, <2>2, <2>3, <2>4
    <3>2. \A x \in c \ a : p < x
      BY <1>1, <2>1, <2>2, <2>3, <2>4
    <3> QED BY <3>1, <3>2 DEF Lower
  <2>5. CASE q < p
    <3>1. q \in a \ c
      BY <2>1, <2>2, <2>3, <2>5
    <3>2. \A x \in c \ a : q < x
      BY <1>1, <2>1, <2>2, <2>3, <2>5
    <3> QED BY <3>1, <3>2 DEF Lower
  <2> QED BY <2>3, <2>4, <2>5
<1> QED BY <1>2, <1>3

(***************************************************************************)
(* Sorting: what is listed in an order of the positions are the elements.  *)
(***************************************************************************)
LEMMA Permuted ==
  ASSUME NEW T, NEW A \in Seq(T), NEW Rel, StrictTotalOrder(DOMAIN A, Rel), NEW B,
         B = [k \in DOMAIN A |-> A[Listing(DOMAIN A, Rel)[k]]]
  PROVE  B \in Seq(T) /\ From(B, A) /\ From(A, B)
<1>1. DOMAIN A = 1 .. Len(A) /\ Len(A) \in Nat
  OBVIOUS
<1>2. IsFiniteSet(DOMAIN A) /\ Cardinality(DOMAIN A) = Len(A)
  <2>1. IsFiniteSet(1 .. Len(A)) /\ Cardinality(1 .. Len(A)) = Len(A)
    BY <1>1, PositionsFinite
  <2> QED BY <1>1, <2>1
<1>3. Listing(DOMAIN A, Rel) \in [1 .. Len(A) -> DOMAIN A]
  BY <1>2, ListingFacts
<1>4. \A j \in DOMAIN A : A[j] \in T
  OBVIOUS
<1>5. \A k \in DOMAIN A : Listing(DOMAIN A, Rel)[k] \in DOMAIN A
  BY <1>1, <1>3
<1>6. B \in [1 .. Len(A) -> T]
  BY <1>1, <1>4, <1>5
<1>7. \A j \in DOMAIN A : \E k \in DOMAIN B : B[k] = A[j]
  <2> DEFINE S == DOMAIN A
             at == Listing(S, Rel)
  <2>1. DOMAIN B = S /\ \A k \in S : B[k] = A[at[k]]
    BY <1>6
  <2>2. \A j \in S : \E k \in 1 .. Cardinality(S) : at[k] = j
    <3> HIDE DEF S
    <3> QED BY <1>2, ListingFacts DEF S
  <2>3. 1 .. Cardinality(S) = S
    BY <1>1, <1>2
  <2> SUFFICES ASSUME NEW j \in S PROVE \E k \in DOMAIN B : B[k] = A[j]
    OBVIOUS
  <2> HIDE DEF S, at
  <2>4. PICK k \in S : at[k] = j
    BY <2>2, <2>3
  <2> QED BY <2>1, <2>4
<1>8. From(B, A)
  <2>1. DOMAIN B = DOMAIN A
    BY <1>1, <1>6
  <2>2. \A k \in DOMAIN B : B[k] = A[Listing(DOMAIN A, Rel)[k]]
    BY <2>1
  <2> QED BY <1>5, <2>1, <2>2 DEF From
<1>9. From(A, B)
  BY <1>7 DEF From
<1> QED BY <1>6, <1>8, <1>9

(* The orders that descend and ascend put the positions in, equal cubes    *)
(* as they came.                                                           *)
LEMMA DescendOrder ==
  ASSUME NEW A \in Seq(Cubes), NEW key, \A j \in DOMAIN A : key[j] \in Int
  PROVE  StrictTotalOrder(DOMAIN A,
           {x \in (DOMAIN A) \X (DOMAIN A) :
              \/ descend(A[x[1]], key[x[1]], A[x[2]], key[x[2]])
              \/ key[x[1]] = key[x[2]] /\ A[x[1]] = A[x[2]] /\ x[1] < x[2]})
<1> DEFINE lt(x, y) == \/ descend(A[x], key[x], A[y], key[y])
                       \/ key[x] = key[y] /\ A[x] = A[y] /\ x < y
           Rel == {x \in (DOMAIN A) \X (DOMAIN A) :
                     \/ descend(A[x[1]], key[x[1]], A[x[2]], key[x[2]])
                     \/ key[x[1]] = key[x[2]] /\ A[x[1]] = A[x[2]] /\ x[1] < x[2]}
<1>1. \A x, y \in DOMAIN A : <<x, y>> \in Rel <=> lt(x, y)
  OBVIOUS
<1>2. \A x \in DOMAIN A : x \in Int /\ key[x] \in Int /\ A[x] \in Cubes
  OBVIOUS
<1>3. \A x \in DOMAIN A : ~ lt(x, x)
  BY <1>2, HigherOrder DEF descend
<1>4. \A x, y \in DOMAIN A : x # y => lt(x, y) \/ lt(y, x)
  BY <1>2, HigherTotal DEF descend
<1>5. ASSUME NEW x \in DOMAIN A, NEW y \in DOMAIN A, NEW z \in DOMAIN A, lt(x, y), lt(y, z)
      PROVE  lt(x, z)
  <2>1. Higher(A[x], A[y]) /\ Higher(A[y], A[z]) => Higher(A[x], A[z])
    BY <1>2, HigherOrder
  <2> QED BY <1>2, <1>5, <2>1 DEF descend
<1> HIDE DEF lt, Rel
<1>6. StrictTotalOrder(DOMAIN A, Rel)
  BY <1>1, <1>3, <1>4, <1>5 DEF StrictTotalOrder
<1> QED BY <1>6 DEF Rel

(* The order by size is a strict total order.                              *)
LEMMA AscendOrder ==
  ASSUME NEW A \in Seq(Cubes), NEW key, \A j \in DOMAIN A : key[j] \in Int
  PROVE  StrictTotalOrder(DOMAIN A,
           {x \in (DOMAIN A) \X (DOMAIN A) :
              \/ ascend(A[x[1]], key[x[1]], A[x[2]], key[x[2]])
              \/ key[x[1]] = key[x[2]] /\ A[x[1]] = A[x[2]] /\ x[1] < x[2]})
<1> DEFINE lt(x, y) == \/ ascend(A[x], key[x], A[y], key[y])
                       \/ key[x] = key[y] /\ A[x] = A[y] /\ x < y
           Rel == {x \in (DOMAIN A) \X (DOMAIN A) :
                     \/ ascend(A[x[1]], key[x[1]], A[x[2]], key[x[2]])
                     \/ key[x[1]] = key[x[2]] /\ A[x[1]] = A[x[2]] /\ x[1] < x[2]}
<1>1. \A x, y \in DOMAIN A : <<x, y>> \in Rel <=> lt(x, y)
  OBVIOUS
<1>2. \A x \in DOMAIN A : x \in Int /\ key[x] \in Int /\ A[x] \in Cubes
  OBVIOUS
<1>3. \A x \in DOMAIN A : ~ lt(x, x)
  BY <1>2, HigherOrder DEF ascend
<1>4. \A x, y \in DOMAIN A : x # y => lt(x, y) \/ lt(y, x)
  BY <1>2, HigherTotal DEF ascend
<1>5. ASSUME NEW x \in DOMAIN A, NEW y \in DOMAIN A, NEW z \in DOMAIN A, lt(x, y), lt(y, z)
      PROVE  lt(x, z)
  <2>1. Higher(A[z], A[y]) /\ Higher(A[y], A[x]) => Higher(A[z], A[x])
    BY <1>2, HigherOrder
  <2> QED BY <1>2, <1>5, <2>1 DEF ascend
<1> HIDE DEF lt, Rel
<1>6. StrictTotalOrder(DOMAIN A, Rel)
  BY <1>1, <1>3, <1>4, <1>5 DEF StrictTotalOrder
<1> QED BY <1>6 DEF Rel

(* sf_sort, sf_dupl and sf_contain have only cubes of the family.          *)
LEMMA FromFrom ==
  ASSUME NEW A, NEW B, NEW C, From(B, A), From(C, B) PROVE From(C, A)
BY DEF From

(* Sorting gives back the cubes of the cover.                              *)
LEMMA SortFacts ==
  ASSUME NEW A \in Seq(Cubes)
  PROVE  sf_sort(A) \in Seq(Cubes) /\ From(sf_sort(A), A) /\ From(A, sf_sort(A))
<1> DEFINE key == [j \in DOMAIN A |-> Cardinality(A[j])]
           Rel == {x \in (DOMAIN A) \X (DOMAIN A) :
                     BySize(A[x[1]], A[x[2]]) \/ (A[x[1]] = A[x[2]] /\ x[1] < x[2])}
           Rel2 == {x \in (DOMAIN A) \X (DOMAIN A) :
                     \/ descend(A[x[1]], key[x[1]], A[x[2]], key[x[2]])
                     \/ key[x[1]] = key[x[2]] /\ A[x[1]] = A[x[2]] /\ x[1] < x[2]}
<1>1. \A j \in DOMAIN A : key[j] \in Int
  BY PartsFinite, FS_CardinalityType
<1>2. Rel = Rel2
  <2>1. \A x, y \in DOMAIN A : <<x, y>> \in Rel <=> <<x, y>> \in Rel2
    BY DEF BySize
  <2>2. Rel \subseteq (DOMAIN A) \X (DOMAIN A) /\ Rel2 \subseteq (DOMAIN A) \X (DOMAIN A)
    OBVIOUS
  <2> HIDE DEF Rel, Rel2
  <2> QED BY <2>1, <2>2
<1>3. StrictTotalOrder(DOMAIN A, Rel)
  <2> HIDE DEF key
  <2> QED BY <1>1, <1>2, DescendOrder
<1>4. sf_sort(A) = [k \in DOMAIN A |-> A[Listing(DOMAIN A, Rel)[k]]]
  BY DEF sf_sort, SortBy
<1> HIDE DEF key, Rel
<1> QED BY <1>3, <1>4, Permuted

(* What is kept of a cover are cubes of it.                                *)
LEMMA KeepFrom ==
  ASSUME NEW T, NEW A \in Seq(T), NEW I \in SUBSET DOMAIN A
  PROVE  Keep(A, I) \in Seq(T) /\ From(Keep(A, I), A)
BY KeepFacts DEF From

(* Removing equal cubes leaves cubes of the cover.                         *)
LEMMA DuplFacts ==
  ASSUME NEW A \in Seq(Cubes)
  PROVE  sf_dupl(A) \in Seq(Cubes) /\ From(sf_dupl(A), A)
<1>1. sf_sort(A) \in Seq(Cubes) /\ From(sf_sort(A), A)
  BY SortFacts
<1>2. sf_dupl(A) \in Seq(Cubes) /\ From(sf_dupl(A), sf_sort(A))
  BY <1>1, KeepFrom DEF sf_dupl, rm_equal
<1> QED BY <1>1, <1>2, FromFrom

(* Removing contained cubes leaves cubes of the cover.                     *)
LEMMA ContainFacts ==
  ASSUME NEW A \in Seq(Cubes)
  PROVE  sf_contain(A) \in Seq(Cubes) /\ From(sf_contain(A), A)
<1>1. sf_dupl(A) \in Seq(Cubes) /\ From(sf_dupl(A), A)
  BY DuplFacts
<1>2. sf_contain(A) \in Seq(Cubes) /\ From(sf_contain(A), sf_dupl(A))
  BY <1>1, KeepFrom DEF sf_contain, rm_contain, sf_dupl
<1> QED BY <1>1, <1>2, FromFrom

(***************************************************************************)
(* Unravelling: the pieces of the cubes, all of them and only them, each   *)
(* of them part of its cube.                                               *)
(***************************************************************************)
LEMMA PieceWithin ==
  ASSUME NEW c, NEW V, NEW u \in Unravelled(c, V) PROVE u \subseteq c
<1> DEFINE split   == {v \in V : set_dist(c, var_mask[v]) > 1}
           choices == {f \in [split -> c] : \A v \in split : f[v] \in var_mask[v]}
<1>1. PICK f \in choices : u = (c \ InVars(split)) \cup {f[v] : v \in split}
  BY DEF Unravelled
<1>2. \A v \in split : f[v] \in c
  BY <1>1
<1> HIDE DEF split
<1> QED BY <1>1, <1>2

(* A set of cubes listed has just these cubes.                             *)
LEMMA ListedFacts ==
  ASSUME NEW S \in SUBSET Cubes
  PROVE  /\ Listed(S) \in Seq(S) /\ Listed(S) \in Seq(Cubes)
         /\ \A c \in S : \E k \in DOMAIN Listed(S) : Listed(S)[k] = c
<1> DEFINE Rel == {x \in S \X S : Lower(x[1], x[2])}
<1>1. IsFiniteSet(S) /\ Cardinality(S) \in Nat
  BY PartsFinite, FS_Subset, FS_CardinalityType
<1>2. \A a, b \in S : <<a, b>> \in Rel <=> Lower(a, b)
  OBVIOUS
<1>3. StrictTotalOrder(S, Rel)
  <2> HIDE DEF Rel
  <2>1. \A a \in S : ~ Lower(a, a)
    BY LowerOrder
  <2>2. \A a, b \in S : a # b => Lower(a, b) \/ Lower(b, a)
    BY LowerTotal
  <2>3. \A a, b, c \in S : Lower(a, b) /\ Lower(b, c) => Lower(a, c)
    BY LowerOrder
  <2> QED BY <1>2, <2>1, <2>2, <2>3 DEF StrictTotalOrder
<1>4. Listed(S) = Listing(S, Rel)
  BY DEF Listed
<1> HIDE DEF Rel
<1>5. /\ Listed(S) \in [1 .. Cardinality(S) -> S]
      /\ \A x \in S : \E k \in 1 .. Cardinality(S) : Listed(S)[k] = x
  BY <1>1, <1>3, <1>4, ListingFacts
<1>6. Listed(S) \in [1 .. Cardinality(S) -> Cubes]
  BY <1>5
<1> QED BY <1>1, <1>5, <1>6

(* Every unravelled cube lies in the cube it comes from.                   *)
LEMMA UnravelFacts ==
  ASSUME NEW A \in Seq(Cubes), NEW start
  PROVE  /\ unravel(A, start) \in Seq(Cubes)
         /\ \A k \in DOMAIN unravel(A, start) :
               \E j \in DOMAIN A : unravel(A, start)[k] \subseteq A[j]
         /\ \A k \in DOMAIN unravel(A, start) :
               \E j \in DOMAIN A : unravel(A, start)[k] \in Unravelled(A[j], start .. num_vars - 1)
         /\ \A j \in DOMAIN A : \A u \in Unravelled(A[j], start .. num_vars - 1) :
               \E k \in DOMAIN unravel(A, start) : unravel(A, start)[k] = u
<1> DEFINE V      == start .. num_vars - 1
           pieces == UNION {{j} \X Unravelled(A[j], V) : j \in DOMAIN A}
           Rel    == {x \in pieces \X pieces :
                        \/ x[1][1] < x[2][1]
                        \/ x[1][1] = x[2][1] /\ Lower(x[1][2], x[2][2])}
           at     == Listing(pieces, Rel)
<1>1. DOMAIN A = 1 .. Len(A) /\ Len(A) \in Nat /\ \A j \in DOMAIN A : A[j] \in Cubes
  OBVIOUS
<1>2. \A j \in DOMAIN A : \A u \in Unravelled(A[j], V) : u \subseteq A[j] /\ u \in Cubes
  BY <1>1, PieceWithin DEF Cubes
<1>3. pieces \in SUBSET ((DOMAIN A) \X Cubes)
  BY <1>2
<1>4. \A x \in pieces : /\ x[1] \in DOMAIN A /\ x[1] \in Int /\ x[2] \in Cubes
                        /\ x = <<x[1], x[2]>> /\ x[2] \in Unravelled(A[x[1]], V)
  BY <1>1, <1>2
<1>5. \A j \in DOMAIN A : \A u \in Unravelled(A[j], V) : <<j, u>> \in pieces
  OBVIOUS
<1>6. IsFiniteSet(pieces) /\ Cardinality(pieces) \in Nat
  <2>1. IsFiniteSet(DOMAIN A)
    BY <1>1, PositionsFinite
  <2>2. IsFiniteSet((DOMAIN A) \X Cubes)
    BY <2>1, PartsFinite, FS_Product
  <2> QED BY <1>3, <2>2, FS_Subset, FS_CardinalityType
<1> HIDE DEF pieces
<1>7. StrictTotalOrder(pieces, Rel)
  <2> DEFINE lt(x, y) == x[1] < y[1] \/ (x[1] = y[1] /\ Lower(x[2], y[2]))
  <2>1. \A x, y \in pieces : <<x, y>> \in Rel <=> lt(x, y)
    OBVIOUS
  <2>2. \A x \in pieces : ~ lt(x, x)
    BY <1>4, LowerOrder
  <2>3. \A x, y \in pieces : x # y => lt(x, y) \/ lt(y, x)
    <3> SUFFICES ASSUME NEW x \in pieces, NEW y \in pieces, x # y PROVE lt(x, y) \/ lt(y, x)
      OBVIOUS
    <3>1. x[1] # y[1] \/ x[2] # y[2]
      BY <1>4
    <3>2. x[2] # y[2] => Lower(x[2], y[2]) \/ Lower(y[2], x[2])
      BY <1>4, LowerTotal
    <3> QED BY <1>4, <3>1, <3>2
  <2>4. ASSUME NEW x \in pieces, NEW y \in pieces, NEW z \in pieces, lt(x, y), lt(y, z)
        PROVE  lt(x, z)
    <3>1. Lower(x[2], y[2]) /\ Lower(y[2], z[2]) => Lower(x[2], z[2])
      BY <1>4, LowerOrder
    <3> QED BY <1>4, <2>4, <3>1
  <2> HIDE DEF lt, Rel
  <2> QED BY <2>1, <2>2, <2>3, <2>4 DEF StrictTotalOrder
<1>8. /\ at \in [1 .. Cardinality(pieces) -> pieces]
      /\ \A x \in pieces : \E k \in 1 .. Cardinality(pieces) : at[k] = x
  <2> HIDE DEF Rel
  <2> QED BY <1>6, <1>7, ListingFacts
<1>9. unravel(A, start) = [k \in 1 .. Cardinality(pieces) |-> at[k][2]]
  BY DEF unravel, unravel_range, pieces
<1> HIDE DEF at
<1>10. \A k \in 1 .. Cardinality(pieces) :
         /\ at[k][1] \in DOMAIN A /\ at[k][2] \in Cubes /\ at[k][2] \subseteq A[at[k][1]]
  BY <1>2, <1>4, <1>8
<1>11. unravel(A, start) \in Seq(Cubes)
  BY <1>6, <1>9, <1>10
<1>12. ASSUME NEW j \in DOMAIN A, NEW u \in Unravelled(A[j], V)
       PROVE  \E k \in DOMAIN unravel(A, start) : unravel(A, start)[k] = u
  <2>1. PICK k \in 1 .. Cardinality(pieces) : at[k] = <<j, u>>
    BY <1>5, <1>8, <1>12
  <2> QED BY <1>9, <2>1
<1>13. \A k \in 1 .. Cardinality(pieces) : at[k][2] \in Unravelled(A[at[k][1]], V)
  BY <1>4, <1>8
<1> QED BY <1>9, <1>10, <1>11, <1>12, <1>13

(***************************************************************************)
(* Distance.  It does not grow when a cube grows; it stays if no part of p *)
(* is raised in a variable in which p and c do not meet; and for that it   *)
(* is enough that every piece of the blocking set of p has a part that is  *)
(* kept low, if the cube has a part in every binary variable.              *)
(***************************************************************************)
LEMMA Distance0 ==
  ASSUME NEW a, NEW b PROVE cdist01(a, b) = 0 <=> cdist0(a, b)
<1>1. Conflicts(a, b) \in SUBSET Vars
  BY DEF Conflicts
<1>2. IsFiniteSet(Conflicts(a, b))
  BY <1>1, PartsFinite, FS_Subset
<1>3. Cardinality(Conflicts(a, b)) \in Nat
  BY <1>2, FS_CardinalityType
<1>4. Cardinality(Conflicts(a, b)) = 0 <=> Conflicts(a, b) = {}
  BY <1>2, FS_EmptySet
<1> QED BY <1>3, <1>4 DEF cdist01, cdist, cdist0, Conflicts

(* The distance never grows when parts are raised.                         *)
LEMMA DistanceMonotone ==
  ASSUME NEW p, NEW c, NEW d, c \subseteq d, cdist0(p, c) PROVE cdist0(p, d)
BY DEF cdist0

(* Two cubes apart stay apart if no part of force_lower is raised.         *)
LEMMA Lowered ==
  ASSUME NEW p, NEW c, NEW d, ~ cdist0(p, c), force_lower(p, c) \cap d = {}
  PROVE  ~ cdist0(p, c \cup d)
<1>1. PICK v \in Vars : var_mask[v] \cap p \cap c = {}
  BY DEF cdist0
<1>2. p \cap var_mask[v] \subseteq force_lower(p, c)
  BY <1>1 DEF force_lower, InVars, Conflicts
<1>3. var_mask[v] \cap p \cap (c \cup d) = {}
  BY <1>1, <1>2
<1> QED BY <1>3 DEF cdist0

(* A set of at most one element has no two different ones.                 *)
LEMMA OneMember ==
  ASSUME NEW S, IsFiniteSet(S), ~ (Cardinality(S) > 1), NEW x \in S, NEW y \in S
  PROVE  x = y
<1>1. SUFFICES ASSUME x # y PROVE FALSE
  OBVIOUS
<1>2. IsFiniteSet({x}) /\ Cardinality({x}) = 1
  BY FS_Singleton
<1>3. IsFiniteSet({x} \cup {y}) /\ Cardinality({x} \cup {y}) = 2
  <2>1. y \notin {x}
    BY <1>1
  <2>2. Cardinality({x} \cup {y}) = Cardinality({x}) + 1 /\ IsFiniteSet({x} \cup {y})
    BY <1>2, <2>1, FS_AddElement
  <2> QED BY <1>2, <2>2
<1>4. {x} \cup {y} \in SUBSET S
  OBVIOUS
<1>5. Cardinality({x} \cup {y}) <= Cardinality(S) /\ Cardinality(S) \in Nat
  BY <1>4, FS_Subset, FS_CardinalityType
<1> QED BY <1>3, <1>5

(* The parts of the variables are laid out one after the other.            *)
LEMMA PartsApart ==
  ASSUME NEW v \in Vars, NEW w \in Vars, v < w
  PROVE  first_part[v + 1] <= first_part[w]
<1> DEFINE S == {n \in Nat : v + 1 + n <= num_vars /\ first_part[v + 1 + n] < first_part[v + 1]}
<1>1. num_vars \in Nat /\ v \in 0 .. num_vars - 1 /\ w \in 0 .. num_vars - 1
  BY CubeAssumption DEF Vars
<1>2. \A u \in 0 .. num_vars : first_part[u] \in Nat
  BY CubeAssumption
<1>3. \A u \in Vars : first_part[u + 1] = first_part[u] + part_size[u] /\ part_size[u] \in Nat
  BY CubeAssumption
<1>4. S = {}
  <2> SUFFICES ASSUME S # {} PROVE FALSE
    OBVIOUS
  <2>1. PICK n \in S : \A k \in S : n <= k
    BY LeastNat
  <2>2. n \in Nat /\ v + 1 + n <= num_vars /\ first_part[v + 1 + n] < first_part[v + 1]
    BY <2>1
  <2>3. n # 0
    BY <1>1, <1>2, <2>2
  <2>4. n - 1 \in Nat /\ n - 1 \notin S /\ v + 1 + (n - 1) = v + n
    BY <1>1, <2>1, <2>2, <2>3
  <2>5. ~ (first_part[v + n] < first_part[v + 1]) /\ v + n \in Vars
    BY <1>1, <2>2, <2>3, <2>4 DEF Vars
  <2>6. (v + n) + 1 = v + 1 + n
    BY <1>1, <2>2
  <2>7. first_part[v + 1 + n] = first_part[v + n] + part_size[v + n] /\ part_size[v + n] \in Nat
    BY <1>3, <2>5, <2>6
  <2>8. first_part[v + n] \in Nat /\ first_part[v + 1] \in Nat
    BY <1>1, <1>2, <2>5 DEF Vars
  <2> QED BY <2>2, <2>5, <2>7, <2>8
<1>5. w - v - 1 \in Nat /\ v + 1 + (w - v - 1) = w
  BY <1>1
<1>6. ~ (first_part[w] < first_part[v + 1])
  <2>1. w - v - 1 \notin S
    BY <1>4
  <2>2. v + 1 + (w - v - 1) <= num_vars
    BY <1>1, <1>5
  <2> QED BY <1>5, <2>1, <2>2
<1>7. first_part[w] \in Nat /\ first_part[v + 1] \in Nat
  BY <1>1, <1>2
<1> QED BY <1>6, <1>7

(* A part belongs to one variable only.                                    *)
LEMMA OneVariable ==
  ASSUME NEW v \in Vars, NEW w \in Vars, NEW q \in var_mask[v], q \in var_mask[w]
  PROVE  v = w
<1>1. v \in Int /\ w \in Int /\ v + 1 \in 0 .. num_vars /\ w + 1 \in 0 .. num_vars
      /\ v \in 0 .. num_vars /\ w \in 0 .. num_vars
  BY CubeAssumption DEF Vars
<1>2. /\ first_part[v] \in Nat /\ first_part[w] \in Nat
      /\ first_part[v + 1] \in Nat /\ first_part[w + 1] \in Nat
  BY <1>1, CubeAssumption
<1>3. /\ q \in Int /\ first_part[v] <= q /\ q < first_part[v + 1]
      /\ first_part[w] <= q /\ q < first_part[w + 1]
  BY <1>2 DEF var_mask
<1>4. ~ (v < w)
  <2>1. v < w => first_part[v + 1] <= first_part[w]
    BY PartsApart
  <2> QED BY <1>2, <1>3, <2>1
<1>5. ~ (w < v)
  <2>1. w < v => first_part[w + 1] <= first_part[v]
    BY PartsApart
  <2> QED BY <1>2, <1>3, <2>1
<1> QED BY <1>1, <1>4, <1>5

(* A binary variable in which p and c do not meet, though c has a part     *)
(* there, leaves p one part at most.                                       *)
LEMMA OnePart ==
  ASSUME NEW v \in 0 .. num_binary_vars - 1, NEW p, NEW c,
         var_mask[v] \cap p \cap c = {}, c \cap var_mask[v] # {},
         NEW x \in p \cap var_mask[v], NEW y \in p \cap var_mask[v]
  PROVE  x = y
<1>1. v \in Vars /\ v \in 0 .. num_vars /\ v + 1 = v + 1 /\ part_size[v] = 2
  BY CubeAssumption DEF Vars
<1>2. first_part[v] \in Nat /\ first_part[v + 1] = first_part[v] + 2
  BY <1>1, CubeAssumption
<1>3. var_mask[v] = first_part[v] .. first_part[v + 1] - 1
  BY <1>1 DEF var_mask
<1>4. \A q \in var_mask[v] : q = first_part[v] \/ q = first_part[v] + 1
  BY <1>2, <1>3
<1>5. PICK q \in c \cap var_mask[v] : TRUE
  OBVIOUS
<1>6. q # x /\ q # y
  BY <1>5
<1> QED BY <1>4, <1>5, <1>6

(* A row that hits each unravelled piece, kept low, keeps a cube apart.    *)
LEMMA Hit ==
  ASSUME NEW p \in Cubes, NEW c, NEW row, NEW free,
         \A v \in 0 .. num_binary_vars - 1 : c \cap var_mask[v] # {},
         ~ cdist0(p, c),
         \A u \in Unravelled(force_lower(p, c), num_binary_vars .. num_vars - 1) :
           u # {} => u \cap row # {}
  PROVE  ~ cdist0(p, c \cup (free \ row))
<1> DEFINE low   == force_lower(p, c)
           V     == num_binary_vars .. num_vars - 1
           split == {v \in V : set_dist(low, var_mask[v]) > 1}
<1> SUFFICES ASSUME cdist0(p, c \cup (free \ row)) PROVE FALSE
  OBVIOUS
<1>1. PICK w \in Conflicts(p, c) : TRUE
  BY DEF cdist0, Conflicts
<1>2. \A v \in Conflicts(p, c) : /\ v \in Vars /\ p \cap var_mask[v] \subseteq low
                               /\ var_mask[v] \cap p \cap c = {}
  BY DEF force_lower, InVars, Conflicts
<1>3. \A v \in Conflicts(p, c) : \E q \in low \cap var_mask[v] : q \notin row
  BY <1>2 DEF cdist0
<1> DEFINE raised == [v \in Conflicts(p, c) |-> CHOOSE q \in low \cap var_mask[v] : q \notin row]
<1>4. \A v \in Conflicts(p, c) : raised[v] \in low \cap var_mask[v] /\ raised[v] \notin row
  BY <1>3
<1>5. low \in Cubes /\ low = p \cap low /\ \A q \in low : \E v \in Conflicts(p, c) : q \in var_mask[v]
  BY DEF force_lower, InVars, Cubes
<1>6. Vars = 0 .. num_vars - 1 /\ num_binary_vars \in Vars
      /\ V = {v \in Vars : v \notin 0 .. num_binary_vars - 1}
  BY CubeAssumption, SMTT(20) DEF Vars
<1>7. split \subseteq Conflicts(p, c)
  <2> SUFFICES ASSUME NEW v \in split PROVE v \in Conflicts(p, c)
    OBVIOUS
  <2>1. v \in Vars /\ Cardinality(low \cap var_mask[v]) > 1
    BY <1>6 DEF set_dist
  <2>2. low \cap var_mask[v] # {}
    <3>1. Cardinality({}) = 0 /\ ~ (0 > 1)
      BY FS_EmptySet
    <3> QED BY <2>1, <3>1
  <2>3. PICK q \in low \cap var_mask[v] : TRUE
    BY <2>2
  <2>4. PICK u \in Conflicts(p, c) : q \in var_mask[u]
    BY <1>5
  <2> QED BY <1>2, <2>1, <2>3, <2>4, OneVariable
<1> DEFINE f     == [v \in split |-> raised[v]]
           piece == (low \ InVars(split)) \cup {f[v] : v \in split}
<1>8. piece \in Unravelled(low, V)
  <2>1. \A v \in split : f[v] \in low /\ f[v] \in var_mask[v]
    BY <1>4, <1>7
  <2>2. f \in {g \in [split -> low] : \A v \in split : g[v] \in var_mask[v]}
    BY <2>1
  <2> HIDE DEF f, low
  <2> QED BY <2>2 DEF Unravelled
<1>9. \A v \in split : f[v] \notin row
  BY <1>4, <1>7
<1>10. ASSUME NEW q \in low \ InVars(split) PROVE q \notin row
  <2>1. PICK v \in Conflicts(p, c) : q \in var_mask[v]
    BY <1>5
  <2>2. v \notin split /\ v \in Vars
    BY <1>2, <1>10, <2>1 DEF InVars
  <2>3. raised[v] \in low \cap var_mask[v] /\ raised[v] \notin row
    BY <1>4
  <2>4. CASE v \in 0 .. num_binary_vars - 1
    <3>1. q \in p \cap var_mask[v] /\ raised[v] \in p \cap var_mask[v]
      BY <1>5, <1>10, <2>1, <2>3
    <3>2. q = raised[v]
      BY <1>2, <2>4, <3>1, OnePart
    <3> QED BY <2>3, <3>2
  <2>5. CASE v \notin 0 .. num_binary_vars - 1
    <3>1. ~ (Cardinality(low \cap var_mask[v]) > 1)
      BY <1>6, <2>2, <2>5 DEF set_dist
    <3>2. IsFiniteSet(low \cap var_mask[v])
      BY <1>5, PartsFinite, FS_Intersection
    <3>3. q = raised[v]
      BY <1>10, <2>1, <2>3, <3>1, <3>2, OneMember, SMTT(30)
    <3> QED BY <2>3, <3>3
  <2> QED BY <2>4, <2>5
<1>11. piece # {}
  <2>1. raised[w] \in low \cap var_mask[w]
    BY <1>4
  <2>2. CASE raised[w] \in InVars(split)
    <3>1. PICK v \in split : TRUE
      BY <2>2 DEF InVars
    <3>2. f[v] \in {f[k] : k \in split}
      BY <3>1
    <3> QED BY <3>2
  <2>3. CASE raised[w] \notin InVars(split)
    BY <2>1, <2>3
  <2> QED BY <2>2, <2>3
<1>12. piece \cap row = {}
  BY <1>9, <1>10
<1> HIDE DEF piece, low
<1> QED BY <1>8, <1>11, <1>12 DEF low

(* The variables divide the parts among them.                              *)
LEMMA MaskFacts ==
  /\ \A v \in Vars : /\ v \in Nat /\ first_part[v] \in Nat /\ first_part[v + 1] \in Nat
                     /\ first_part[v] < first_part[v + 1] /\ first_part[v + 1] <= size
                     /\ var_mask[v] = first_part[v] .. first_part[v + 1] - 1
                     /\ var_mask[v] \subseteq Parts /\ var_mask[v] # {} /\ IsFiniteSet(var_mask[v])
  /\ \A p \in Parts : \E v \in Vars : p \in var_mask[v]
<1>1. /\ num_vars \in Nat /\ num_vars # 0 /\ size \in Nat /\ Vars = 0 .. num_vars - 1
      /\ first_part[0] = 0 /\ size = first_part[num_vars]
      /\ \A v \in 0 .. num_vars : first_part[v] \in Nat
  BY CubeAssumption, PartsFinite DEF size, Vars
<1>2. \A v \in Vars : /\ v \in Nat /\ v \in 0 .. num_vars /\ v + 1 \in 0 .. num_vars
                      /\ first_part[v] < first_part[v + 1]
  <2> SUFFICES ASSUME NEW v \in Vars PROVE first_part[v] < first_part[v + 1] /\ v + 1 \in 0 .. num_vars
                                             /\ v \in Nat /\ v \in 0 .. num_vars
    OBVIOUS
  <2>1. v \in Nat /\ v \in 0 .. num_vars /\ v + 1 \in 0 .. num_vars
    BY <1>1
  <2>2. first_part[v + 1] = first_part[v] + part_size[v] /\ part_size[v] \in Nat \ {0}
    BY CubeAssumption
  <2> QED BY <1>1, <2>1, <2>2
<1>3. \A v \in Vars : first_part[v + 1] <= size
  <2> SUFFICES ASSUME NEW v \in Vars PROVE first_part[v + 1] <= size
    OBVIOUS
  <2>1. num_vars - 1 \in Vars /\ (num_vars - 1) + 1 = num_vars
    BY <1>1
  <2>2. first_part[num_vars - 1] < size
    BY <1>1, <1>2, <2>1
  <2>3. CASE v = num_vars - 1
    BY <1>1, <2>1, <2>3
  <2>4. CASE v # num_vars - 1
    <3>1. v < num_vars - 1
      BY <1>1, <2>4
    <3>2. first_part[v + 1] <= first_part[num_vars - 1]
      BY <2>1, <3>1, PartsApart
    <3>3. first_part[v + 1] \in Nat /\ first_part[num_vars - 1] \in Nat
      BY <1>1, <1>2, <2>1
    <3> QED BY <1>1, <2>2, <3>2, <3>3
  <2> QED BY <2>3, <2>4
<1>4. \A v \in Vars : /\ var_mask[v] = first_part[v] .. first_part[v + 1] - 1
                      /\ var_mask[v] \subseteq Parts /\ var_mask[v] # {} /\ IsFiniteSet(var_mask[v])
  <2> SUFFICES ASSUME NEW v \in Vars
               PROVE  /\ var_mask[v] = first_part[v] .. first_part[v + 1] - 1
                      /\ var_mask[v] \subseteq Parts /\ var_mask[v] # {} /\ IsFiniteSet(var_mask[v])
    OBVIOUS
  <2>1. var_mask[v] = first_part[v] .. first_part[v + 1] - 1
    BY DEF var_mask
  <2>2. first_part[v] \in Nat /\ first_part[v + 1] \in Nat /\ first_part[v] < first_part[v + 1]
        /\ first_part[v + 1] <= size
    BY <1>1, <1>2, <1>3
  <2>3. var_mask[v] \subseteq Parts
    BY <1>1, <2>1, <2>2 DEF Parts
  <2>4. first_part[v] \in var_mask[v]
    BY <2>1, <2>2
  <2>5. IsFiniteSet(var_mask[v])
    BY <2>3, PartsFinite, FS_Subset
  <2> QED BY <2>1, <2>3, <2>4, <2>5
<1>5. ASSUME NEW p \in Parts PROVE \E v \in Vars : p \in var_mask[v]
  <2> DEFINE N == {n \in 0 .. num_vars : p < first_part[n]}
  <2>1. p \in Nat /\ p < first_part[num_vars] /\ num_vars \in 0 .. num_vars
    BY <1>1 DEF Parts
  <2>2. N \in SUBSET Nat /\ N # {}
    BY <1>1, <2>1
  <2>3. PICK n \in N : \A k \in N : n <= k
    BY <2>2, LeastNat
  <2>4. n # 0
    BY <1>1, <2>1, <2>3
  <2>5. n - 1 \in Vars /\ n - 1 \in 0 .. num_vars /\ (n - 1) + 1 = n /\ n - 1 \notin N
    BY <1>1, <2>3, <2>4
  <2>6. first_part[n - 1] <= p /\ p < first_part[n] /\ first_part[n - 1] \in Nat /\ first_part[n] \in Nat
    BY <1>1, <2>1, <2>3, <2>5
  <2>7. p \in var_mask[n - 1]
    BY <1>4, <2>1, <2>5, <2>6
  <2> QED BY <2>5, <2>7
<1> QED BY <1>1, <1>2, <1>3, <1>4, <1>5

(* The variable that massive_count calls the best has the most active      *)
(* parts.                                                                  *)
LEMMA MostActiveFacts ==
  ASSUME NEW active \in [Vars -> Nat], NEW total \in [Vars -> Nat], NEW peak \in [Vars -> Nat]
  PROVE  /\ MostActive(active, total, peak) \in Vars
         /\ \A w \in Vars : active[w] <= active[MostActive(active, total, peak)]
<1> DEFINE better(v, w) == \/ active[v] > active[w]
                           \/ active[v] = active[w] /\ total[v] > total[w]
                           \/ active[v] = active[w] /\ total[v] = total[w] /\ peak[v] < peak[w]
           Best(v) == \A w \in Vars \ {v} : better(v, w) \/ (~better(w, v) /\ v < w)
           S1 == {v \in Vars : \A w \in Vars : active[w] <= active[v]}
           S2 == {v \in S1 : \A w \in S1 : total[w] <= total[v]}
           S3 == {v \in S2 : \A w \in S2 : peak[v] <= peak[w]}
<1>0. IsFiniteSet(Vars) /\ Vars \subseteq Nat /\ 0 \in Vars
  BY PartsFinite, CubeAssumption DEF Vars
<1>1. \A v \in Vars : active[v] \in Nat /\ total[v] \in Nat /\ peak[v] \in Nat
  OBVIOUS
<1>2. S1 # {} /\ S1 \subseteq Vars
  BY <1>0, ArgMax
<1>3. S2 # {} /\ S2 \subseteq Vars
  <2> DEFINE f == [v \in S1 |-> total[v]]
  <2>1. IsFiniteSet(S1)
    BY <1>0, <1>2, FS_Subset
  <2>2. f \in [S1 -> Nat]
    BY <1>1
  <2>3. PICK v \in S1 : \A w \in S1 : f[w] <= f[v]
    BY <1>2, <2>1, <2>2, ArgMax
  <2> QED BY <1>2, <2>3
<1>4. S3 # {} /\ S3 \subseteq Vars
  <2> DEFINE N == {peak[v] : v \in S2}
  <2>1. N \in SUBSET Nat /\ N # {}
    BY <1>1, <1>3
  <2>2. PICK k \in N : \A l \in N : k <= l
    BY <2>1, LeastNat
  <2>3. PICK v \in S2 : k = peak[v]
    BY <2>2
  <2>4. v \in S3
    BY <2>2, <2>3
  <2> QED BY <1>3, <2>4
<1>5. PICK v \in S3 : \A k \in S3 : v <= k
  BY <1>0, <1>4, LeastNat
<1>6. v \in Vars /\ v \in S1 /\ v \in S2
  BY <1>4
<1>7. Best(v)
  <2> SUFFICES ASSUME NEW w \in Vars, w # v PROVE better(v, w) \/ (~better(w, v) /\ v < w)
    OBVIOUS
  <2>0. v \in Nat /\ w \in Nat
    BY <1>0, <1>6
  <2>1. CASE w \notin S1
    <3>1. PICK u \in Vars : ~ (active[u] <= active[w])
      BY <2>1
    <3>2. active[u] <= active[v]
      BY <1>6
    <3> QED BY <1>1, <1>6, <3>1, <3>2
  <2>2. CASE w \in S1 /\ w \notin S2
    <3>1. PICK u \in S1 : ~ (total[u] <= total[w])
      BY <2>2
    <3>2. total[u] <= total[v] /\ active[v] <= active[w] /\ active[w] <= active[v] /\ u \in Vars
      BY <1>6, <2>2, <1>2, <3>1
    <3> HIDE DEF S1, S2, S3
    <3> QED BY <1>1, <1>6, <3>1, <3>2
  <2>3. CASE w \in S2 /\ w \notin S3
    <3>1. PICK u \in S2 : ~ (peak[w] <= peak[u])
      BY <2>3
    <3>2. /\ peak[v] <= peak[u] /\ active[v] <= active[w] /\ active[w] <= active[v] /\ u \in Vars
          /\ total[v] <= total[w] /\ total[w] <= total[v]
      BY <1>6, <2>3, <1>3, <3>1
    <3> HIDE DEF S1, S2, S3
    <3> QED BY <1>1, <1>6, <3>1, <3>2
  <2>4. CASE w \in S3
    <3>1. /\ peak[v] <= peak[w] /\ peak[w] <= peak[v] /\ active[v] <= active[w] /\ active[w] <= active[v]
          /\ total[v] <= total[w] /\ total[w] <= total[v] /\ v <= w
      BY <1>5, <1>6, <2>4
    <3> HIDE DEF S1, S2, S3
    <3> QED BY <1>1, <1>6, <2>0, <3>1
  <2> QED BY <2>1, <2>2, <2>3, <2>4
<1>8. MostActive(active, total, peak) = CHOOSE u \in Vars : Best(u)
  BY DEF MostActive
<1>9. PICK u \in Vars : u = MostActive(active, total, peak) /\ Best(u)
  <2> HIDE DEF Best
  <2> QED BY <1>6, <1>7, <1>8
<1>10. ASSUME NEW w \in Vars PROVE active[w] <= active[u]
  <2>1. CASE w = u
    BY <1>1, <2>1
  <2>2. CASE w # u
    <3>1. better(u, w) \/ ~ better(w, u)
      BY <1>9, <2>2
    <3> QED BY <1>1, <3>1
  <2> QED BY <2>1, <2>2
<1> QED BY <1>9, <1>10

(* The parts of a variable that some cube of the list lacks.               *)
Missing(T, v) == {p \in var_mask[v] : p \notin T.cof /\ \E k \in DOMAIN T.cubes : p \notin T.cubes[k]}

(* What is in a cubelist, and the parts some of its cubes miss of a        *)
(* variable.                                                               *)
LEMMA ListFacts ==
  ASSUME NEW T \in CubelistType
  PROVE  /\ T.cof \in Cubes /\ T.cubes \in Seq(Cubes)
         /\ DOMAIN T.cubes = 1 .. Len(T.cubes) /\ Len(T.cubes) \in Nat /\ IsFiniteSet(DOMAIN T.cubes)
         /\ \A k \in DOMAIN T.cubes : T.cubes[k] \in Cubes /\ T.cubes[k] \subseteq Parts
         /\ \A v \in Vars : /\ Missing(T, v) \subseteq var_mask[v] /\ IsFiniteSet(Missing(T, v))
                            /\ Cardinality(Missing(T, v)) \in Nat
<1>1. T.cof \in Cubes /\ T.cubes \in Seq(Cubes)
  BY DEF CubelistType
<1>2. DOMAIN T.cubes = 1 .. Len(T.cubes) /\ Len(T.cubes) \in Nat
  BY <1>1
<1>3. \A k \in DOMAIN T.cubes : T.cubes[k] \in Cubes /\ T.cubes[k] \subseteq Parts
  BY <1>1, <1>2 DEF Cubes
<1>4. \A v \in Vars : /\ Missing(T, v) \subseteq var_mask[v] /\ IsFiniteSet(Missing(T, v))
                      /\ Cardinality(Missing(T, v)) \in Nat
  <2> SUFFICES ASSUME NEW v \in Vars
               PROVE  /\ Missing(T, v) \subseteq var_mask[v] /\ IsFiniteSet(Missing(T, v))
                      /\ Cardinality(Missing(T, v)) \in Nat
    OBVIOUS
  <2>1. Missing(T, v) \subseteq var_mask[v]
    BY DEF Missing
  <2> QED BY <2>1, MaskFacts, FS_Subset, FS_CardinalityType
<1>5. IsFiniteSet(DOMAIN T.cubes)
  BY <1>2, FS_Interval
<1> QED BY <1>1, <1>2, <1>3, <1>4, <1>5

(* What massive_count says of the variables.                               *)
LEMMA SummaryFacts ==
  ASSUME NEW T \in CubelistType
  PROVE  /\ massive_count(T).active = {v \in Vars : Missing(T, v) # {}}
         /\ massive_count(T).unate = {v \in Vars : Cardinality(Missing(T, v)) = 1}
         /\ massive_count(T).best \in Vars
         /\ \A w \in Vars : Cardinality(Missing(T, w)) <= Cardinality(Missing(T, massive_count(T).best))
<1> DEFINE zeros == [p \in Parts |-> IF p \in T.cof THEN 0
                       ELSE Cardinality({k \in DOMAIN T.cubes : p \notin T.cubes[k]})]
           active == [v \in Vars |-> Cardinality({p \in var_mask[v] : zeros[p] > 0})]
           total == [v \in Vars |-> Cardinality({x \in (DOMAIN T.cubes) \X (var_mask[v] \ T.cof) :
                                                   x[2] \notin T.cubes[x[1]]})]
           peak == [v \in Vars |-> IF v < num_binary_vars
                                     THEN Max({zeros[p] : p \in var_mask[v]}) ELSE active[v]]
<1>1. \A p \in Parts : /\ zeros[p] \in Nat
                       /\ zeros[p] > 0 <=> (p \notin T.cof /\ \E k \in DOMAIN T.cubes : p \notin T.cubes[k])
  <2> SUFFICES ASSUME NEW p \in Parts
               PROVE  /\ zeros[p] \in Nat
                      /\ zeros[p] > 0 <=> (p \notin T.cof /\ \E k \in DOMAIN T.cubes : p \notin T.cubes[k])
    OBVIOUS
  <2> DEFINE Q == {k \in DOMAIN T.cubes : p \notin T.cubes[k]}
  <2>1. IsFiniteSet(Q) /\ Cardinality(Q) \in Nat
    BY ListFacts, FS_Subset, FS_CardinalityType
  <2>2. Cardinality(Q) > 0 <=> Q # {}
    BY <2>1, FS_EmptySet
  <2>3. zeros[p] = IF p \in T.cof THEN 0 ELSE Cardinality(Q)
    OBVIOUS
  <2> HIDE DEF zeros
  <2>4. CASE p \in T.cof
    BY <2>3, <2>4
  <2>5. CASE p \notin T.cof
    BY <2>1, <2>2, <2>3, <2>5
  <2> QED BY <2>4, <2>5
<1> HIDE DEF zeros
<1>2. \A v \in Vars : active[v] = Cardinality(Missing(T, v)) /\ active[v] \in Nat
  <2> SUFFICES ASSUME NEW v \in Vars PROVE active[v] = Cardinality(Missing(T, v)) /\ active[v] \in Nat
    OBVIOUS
  <2>1. {p \in var_mask[v] : zeros[p] > 0} = Missing(T, v)
    BY <1>1, MaskFacts DEF Missing
  <2> QED BY <2>1, ListFacts
<1>3. active \in [Vars -> Nat]
  <2> HIDE DEF active
  <2>1. active = [v \in Vars |-> active[v]]
    BY DEF active
  <2> QED BY <1>2, <2>1
<1>4. total \in [Vars -> Nat]
  <2> SUFFICES ASSUME NEW v \in Vars
               PROVE  Cardinality({x \in (DOMAIN T.cubes) \X (var_mask[v] \ T.cof) :
                                                   x[2] \notin T.cubes[x[1]]}) \in Nat
    OBVIOUS
  <2>1. IsFiniteSet(var_mask[v] \ T.cof)
    BY MaskFacts, FS_Subset
  <2>2. IsFiniteSet((DOMAIN T.cubes) \X (var_mask[v] \ T.cof))
    BY <2>1, ListFacts, FS_Product
  <2> QED BY <2>2, FS_Subset, FS_CardinalityType
<1>5. peak \in [Vars -> Nat]
  <2> SUFFICES ASSUME NEW v \in Vars
               PROVE  (IF v < num_binary_vars THEN Max({zeros[p] : p \in var_mask[v]}) ELSE active[v]) \in Nat
    OBVIOUS
  <2> DEFINE S == {zeros[p] : p \in var_mask[v]}
  <2>1. \E y \in S : \A z \in S : z <= y
    <3> DEFINE f == [p \in var_mask[v] |-> zeros[p]]
    <3>1. f \in [var_mask[v] -> Nat]
      BY <1>1, MaskFacts
    <3>2. PICK p \in var_mask[v] : \A q \in var_mask[v] : f[q] <= f[p]
      BY <3>1, MaskFacts, ArgMax
    <3> QED BY <3>2
  <2>2. S \subseteq Nat
    BY <1>1, MaskFacts
  <2>3. \E y \in S : \A z \in S : y >= z
    BY <2>1, <2>2
  <2> HIDE DEF S, active
  <2>4. Max(S) \in S
    BY <2>3 DEF Max
  <2>5. Max(S) \in Nat
    BY <2>2, <2>4
  <2> QED BY <1>2, <2>5 DEF S
<1>6. massive_count(T) = Summary(zeros, active, total)
  BY DEF massive_count, VarSummary, zeros
<1> HIDE DEF active, total, peak
<1>7. /\ massive_count(T).active = {v \in Vars : active[v] > 0}
      /\ massive_count(T).unate = {v \in Vars : active[v] = 1}
      /\ massive_count(T).best = MostActive(active, total, peak)
  BY <1>6 DEF Summary, peak
<1>8. \A v \in Vars : active[v] > 0 <=> Missing(T, v) # {}
  <2> SUFFICES ASSUME NEW v \in Vars PROVE active[v] > 0 <=> Missing(T, v) # {}
    OBVIOUS
  <2> QED BY <1>2, ListFacts, FS_EmptySet
<1>9. /\ MostActive(active, total, peak) \in Vars
      /\ \A w \in Vars : active[w] <= active[MostActive(active, total, peak)]
  BY <1>3, <1>4, <1>5, MostActiveFacts
<1> QED BY <1>2, <1>7, <1>8, <1>9

(* When some active variable is not unate, the best one has at least two   *)
(* parts that are missing somewhere.                                       *)
LEMMA BestFacts ==
  ASSUME NEW T \in CubelistType, massive_count(T).unate # massive_count(T).active
  PROVE  /\ massive_count(T).best \in Vars
         /\ Cardinality(Missing(T, massive_count(T).best)) >= 2
<1>1. PICK v \in Vars : ~ (Missing(T, v) # {} <=> Cardinality(Missing(T, v)) = 1)
  BY SummaryFacts
<1>2. IsFiniteSet(Missing(T, v)) /\ Cardinality(Missing(T, v)) \in Nat
  BY ListFacts
<1>3. Missing(T, v) # {} /\ Cardinality(Missing(T, v)) >= 2
  BY <1>1, <1>2, FS_EmptySet
<1>4. massive_count(T).best \in Vars /\ Cardinality(Missing(T, massive_count(T).best)) \in Nat
  BY SummaryFacts, ListFacts
<1> QED BY <1>2, <1>3, <1>4, SummaryFacts

(* Half of two or more parts are some, and not all.                        *)
LEMMA HalfFacts ==
  ASSUME NEW S \in SUBSET Nat, IsFiniteSet(S), Cardinality(S) >= 2
  PROVE  LowerHalf(S) # {} /\ LowerHalf(S) # S /\ LowerHalf(S) \subseteq S
<1>1. S # {} /\ Cardinality(S) \in Nat
  BY FS_EmptySet, FS_CardinalityType
<1>2. PICK x \in S : \A y \in S : x <= y
  BY <1>1, LeastNat
<1>0. \A q \in S : q \in Nat
  OBVIOUS
<1>3. {q \in S : q < x} = {}
  <2>1. \A q \in S : ~ (q < x)
    BY <1>0, <1>2
  <2> QED BY <2>1
<1>4. x \in LowerHalf(S)
  BY <1>1, <1>3, FS_EmptySet DEF LowerHalf
<1>5. PICK z \in S : \A y \in S : y <= z
  <2> DEFINE f == [y \in S |-> y]
  <2>1. f \in [S -> Nat]
    OBVIOUS
  <2>2. PICK z \in S : \A y \in S : f[y] <= f[z]
    BY <1>1, <2>1, ArgMax
  <2> QED BY <2>2
<1>6. {q \in S : q < z} = S \ {z}
  <2>1. \A q \in S : q < z <=> q # z
    BY <1>0, <1>5
  <2> QED BY <2>1
<1>7. Cardinality({q \in S : q < z}) = Cardinality(S) - 1
  BY <1>6, FS_RemoveElement
<1>8. z \notin LowerHalf(S)
  BY <1>1, <1>7 DEF LowerHalf
<1> QED BY <1>4, <1>8 DEF LowerHalf

(* Each step of a recursion makes a subproblem smaller: fewer free parts,  *)
(* or fewer cubes.                                                         *)
mu == [T \in CubelistType |-> Cardinality(Parts \ T.cof) + Len(T.cubes)]

(* A cubelist cofactored further, or with fewer cubes, is smaller.         *)
LEMMA SmallerList ==
  ASSUME NEW T \in CubelistType, NEW S \in CubelistType, T.cof \subseteq S.cof,
         Len(S.cubes) <= Len(T.cubes)
  PROVE  /\ mu[T] \in Nat /\ mu[S] \in Nat /\ mu[S] <= mu[T]
         /\ S.cof # T.cof \/ Len(S.cubes) < Len(T.cubes) => mu[S] < mu[T]
<1>1. /\ IsFiniteSet(Parts \ T.cof) /\ Cardinality(Parts \ T.cof) \in Nat
      /\ IsFiniteSet(Parts \ S.cof) /\ Cardinality(Parts \ S.cof) \in Nat
  BY PartsFinite, FS_Subset, FS_CardinalityType
<1>2. Len(T.cubes) \in Nat /\ Len(S.cubes) \in Nat
  BY ListFacts
<1>3. Cardinality(Parts \ S.cof) <= Cardinality(Parts \ T.cof)
  BY <1>1, FS_Subset
<1>4. ASSUME S.cof # T.cof PROVE Cardinality(Parts \ S.cof) < Cardinality(Parts \ T.cof)
  <2>1. S.cof \subseteq Parts /\ T.cof \subseteq Parts
    BY ListFacts DEF Cubes
  <2>2. Parts \ S.cof # Parts \ T.cof /\ Parts \ S.cof \subseteq Parts \ T.cof
    BY <1>4, <2>1
  <2> QED BY <1>1, <2>2, FS_Subset
<1>5. mu[T] = Cardinality(Parts \ T.cof) + Len(T.cubes) /\ mu[S] = Cardinality(Parts \ S.cof) + Len(S.cubes)
  BY DEF mu
<1> QED BY <1>1, <1>2, <1>3, <1>4, <1>5, SMTT(30)

(* The size of a cubelist is a number.                                     *)
LEMMA MuType == mu \in [CubelistType -> Nat]
<1>1. \A T \in CubelistType : mu[T] \in Nat
  <2> SUFFICES ASSUME NEW T \in CubelistType PROVE mu[T] \in Nat
    OBVIOUS
  <2>1. Len(T.cubes) <= Len(T.cubes)
    BY ListFacts
  <2> QED BY <2>1, SmallerList
<1> QED BY <1>1 DEF mu

(* The two halves of the best variable.                                    *)
LEMMA SplitFacts ==
  ASSUME NEW T \in CubelistType, NEW best \in Vars, Cardinality(Missing(T, best)) >= 2,
         NEW half, half = binate_split_select(T, best)
  PROVE  /\ half.left \in Cubes /\ half.right \in Cubes
         /\ Parts \ var_mask[best] \subseteq half.left /\ Parts \ var_mask[best] \subseteq half.right
         /\ var_mask[best] \subseteq half.left \cup half.right \cup T.cof
         /\ half.left \cap half.right \cap var_mask[best] = {}
         /\ half.left \cap T.cof \cap var_mask[best] = {} /\ half.right \cap T.cof \cap var_mask[best] = {}
         /\ half.left \cap var_mask[best] # {} /\ half.right \cap var_mask[best] # {}
<1> DEFINE free == var_mask[best] \ T.cof
<1>1. half = [left |-> (Parts \ var_mask[best]) \cup LowerHalf(free),
              right |-> (Parts \ var_mask[best]) \cup (free \ LowerHalf(free))]
  BY DEF binate_split_select
<1>2. Missing(T, best) \subseteq free /\ free \subseteq Parts /\ IsFiniteSet(free) /\ Cardinality(free) \in Nat
  BY MaskFacts, FS_Subset, FS_CardinalityType DEF Missing
<1>3. Cardinality(free) >= 2
  <2>1. Cardinality(Missing(T, best)) <= Cardinality(free) /\ Cardinality(Missing(T, best)) \in Nat
    BY <1>2, ListFacts, FS_Subset
  <2> QED BY <1>2, <2>1
<1>4. LowerHalf(free) # {} /\ LowerHalf(free) # free /\ LowerHalf(free) \subseteq free
  <2>1. free \in SUBSET Nat
    BY <1>2, PartsFinite
  <2> QED BY <1>2, <1>3, <2>1, HalfFacts
<1>5. free \subseteq var_mask[best] /\ free \cap T.cof = {} /\ var_mask[best] \subseteq free \cup T.cof
  OBVIOUS
<1> HIDE DEF free
<1> QED BY <1>1, <1>2, <1>4, <1>5 DEF Cubes

(* The Shannon cofactors are smaller problems.                             *)
LEMMA ScofactorFacts ==
  ASSUME NEW T \in CubelistType, NEW h \in Cubes, NEW v
  PROVE  /\ scofactor(T, h, v) \in CubelistType
         /\ scofactor(T, h, v).cof = T.cof \cup (Parts \ h)
         /\ Len(scofactor(T, h, v).cubes) <= Len(T.cubes)
         /\ \A k \in DOMAIN T.cubes : T.cubes[k] \cap h \cap var_mask[v] # {} =>
               \E l \in DOMAIN scofactor(T, h, v).cubes : scofactor(T, h, v).cubes[l] = T.cubes[k]
         /\ \A l \in DOMAIN scofactor(T, h, v).cubes : \E k \in DOMAIN T.cubes :
               /\ scofactor(T, h, v).cubes[l] = T.cubes[k]
               /\ T.cubes[k] \cap h \cap var_mask[v] # {}
<1> DEFINE I == {k \in DOMAIN T.cubes : T.cubes[k] \cap h \cap var_mask[v] # {}}
<1>1. scofactor(T, h, v) = [cof |-> T.cof \cup (Parts \ h), cubes |-> Keep(T.cubes, I)]
  BY DEF scofactor
<1>2. T.cubes \in Seq(Cubes) /\ T.cof \in Cubes /\ T.cof \cup (Parts \ h) \in Cubes
  BY ListFacts DEF Cubes
<1>3. Keep(T.cubes, I) \in Seq(Cubes) /\ Len(Keep(T.cubes, I)) <= Len(T.cubes)
  BY <1>2, KeepFacts, KeepLen
<1>4. scofactor(T, h, v) \in CubelistType
  BY <1>1, <1>2, <1>3 DEF CubelistType
<1>8. I \in SUBSET DOMAIN T.cubes
  OBVIOUS
<1> HIDE DEF I
<1>5. \A k \in I : \E l \in DOMAIN Keep(T.cubes, I) : Keep(T.cubes, I)[l] = T.cubes[k]
  BY <1>2, <1>8, KeepFacts
<1>6. \A l \in DOMAIN Keep(T.cubes, I) : \E k \in I : Keep(T.cubes, I)[l] = T.cubes[k]
  BY <1>2, <1>8, KeepFacts
<1>7. scofactor(T, h, v).cubes = Keep(T.cubes, I) /\ scofactor(T, h, v).cof = T.cof \cup (Parts \ h)
  BY <1>1
<1> QED BY <1>3, <1>4, <1>5, <1>6, <1>7 DEF I

(* Both halves of a split are smaller cubelists.                           *)
LEMMA SplitSmaller ==
  ASSUME NEW T \in CubelistType, NEW best \in Vars, Cardinality(Missing(T, best)) >= 2,
         NEW half, half = binate_split_select(T, best)
  PROVE  /\ scofactor(T, half.left, best) \in CubelistType
         /\ scofactor(T, half.right, best) \in CubelistType
         /\ mu[scofactor(T, half.left, best)] < mu[T]
         /\ mu[scofactor(T, half.right, best)] < mu[T]
<1> DEFINE l == half.left
           r == half.right
<1>0. /\ l \in Cubes /\ r \in Cubes
      /\ l \cap r \cap var_mask[best] = {}
      /\ l \cap T.cof \cap var_mask[best] = {} /\ r \cap T.cof \cap var_mask[best] = {}
      /\ l \cap var_mask[best] # {} /\ r \cap var_mask[best] # {}
  BY SplitFacts
<1>1. /\ T.cof \cup (Parts \ l) # T.cof
      /\ T.cof \cup (Parts \ r) # T.cof
  <2>1. PICK p \in r \cap var_mask[best] : TRUE
    BY <1>0
  <2>2. p \in Parts /\ p \notin l /\ p \notin T.cof
    BY <1>0, <2>1 DEF Cubes
  <2>3. PICK q \in l \cap var_mask[best] : TRUE
    BY <1>0
  <2>4. q \in Parts /\ q \notin r /\ q \notin T.cof
    BY <1>0, <2>3 DEF Cubes
  <2> QED BY <2>2, <2>4
<1> HIDE DEF l, r
<1>2. /\ scofactor(T, l, best) \in CubelistType /\ scofactor(T, r, best) \in CubelistType
      /\ scofactor(T, l, best).cof = T.cof \cup (Parts \ l)
      /\ scofactor(T, r, best).cof = T.cof \cup (Parts \ r)
      /\ Len(scofactor(T, l, best).cubes) <= Len(T.cubes)
      /\ Len(scofactor(T, r, best).cubes) <= Len(T.cubes)
  BY <1>0, ScofactorFacts
<1>3. mu[scofactor(T, l, best)] < mu[T]
  BY <1>1, <1>2, SmallerList
<1>4. mu[scofactor(T, r, best)] < mu[T]
  BY <1>1, <1>2, SmallerList
<1> QED BY <1>2, <1>3, <1>4 DEF l, r

(* A point has one part of every variable.                                 *)
LEMMA PointFacts ==
  ASSUME NEW x \in Points
  PROVE  /\ x \in Cubes /\ x \subseteq Parts
         /\ \A v \in Vars : \E p \in Parts : x \cap var_mask[v] = {p}
<1>1. x \in Cubes /\ x \subseteq Parts
  BY DEF Points, Cubes
<1>2. ASSUME NEW v \in Vars PROVE \E p \in Parts : x \cap var_mask[v] = {p}
  <2>1. IsFiniteSet(x \cap var_mask[v]) /\ Cardinality(x \cap var_mask[v]) = 1
    BY MaskFacts, FS_Subset DEF Points
  <2>2. PICK p : x \cap var_mask[v] = {p}
    BY <2>1, FS_Singleton
  <2> QED BY <1>1, <2>2
<1> QED BY <1>1, <1>2

(* A list with some of the cubes of another.                               *)
Selected(T, I) == [cof |-> T.cof, cubes |-> Keep(T.cubes, I)]

(* Selecting cubes of a list changes nothing else of it.                   *)
LEMMA SelectedExcept ==
  ASSUME NEW T \in CubelistType, NEW I
  PROVE  [T EXCEPT !.cubes = Keep(T.cubes, I)] = Selected(T, I)
BY DEF CubelistType, Selected

(* A selection of the cubes of a list is a cubelist, smaller unless it is  *)
(* all of them, with the selected cubes and no others.                     *)
LEMMA KeptList ==
  ASSUME NEW T \in CubelistType, NEW I \in SUBSET DOMAIN T.cubes
  PROVE  /\ Selected(T, I) \in CubelistType /\ Selected(T, I).cof = T.cof
         /\ mu[Selected(T, I)] \in Nat /\ mu[T] \in Nat /\ mu[Selected(T, I)] <= mu[T]
         /\ I # DOMAIN T.cubes => mu[Selected(T, I)] < mu[T]
         /\ Selected(T, I).cubes = <<>> <=> I = {}
         /\ \A k \in I : \E l \in DOMAIN Selected(T, I).cubes : Selected(T, I).cubes[l] = T.cubes[k]
         /\ \A l \in DOMAIN Selected(T, I).cubes : \E k \in I : Selected(T, I).cubes[l] = T.cubes[k]
<1> DEFINE S == Selected(T, I)
<1>1. T.cubes \in Seq(Cubes) /\ T.cof \in Cubes
  BY ListFacts
<1>2. S.cubes = Keep(T.cubes, I) /\ S.cof = T.cof /\ S = [cof |-> T.cof, cubes |-> Keep(T.cubes, I)]
  BY DEF Selected
<1>3. Keep(T.cubes, I) \in Seq(Cubes) /\ Len(Keep(T.cubes, I)) <= Len(T.cubes)
  BY <1>1, KeepFacts, KeepLen
<1>4. S \in CubelistType
  BY <1>1, <1>2, <1>3 DEF CubelistType
<1> HIDE DEF S
<1>5. mu[S] \in Nat /\ mu[T] \in Nat /\ mu[S] <= mu[T]
  BY <1>2, <1>3, <1>4, SmallerList
<1>6. ASSUME I # DOMAIN T.cubes PROVE mu[S] < mu[T]
  <2>1. Len(S.cubes) < Len(T.cubes)
    BY <1>1, <1>2, <1>6, KeepLen
  <2> QED BY <1>2, <1>3, <1>4, <2>1, SmallerList
<1>7. S.cubes = <<>> <=> I = {}
  BY <1>1, <1>2, KeepLen
<1>8. /\ \A k \in I : \E l \in DOMAIN Keep(T.cubes, I) : Keep(T.cubes, I)[l] = T.cubes[k]
      /\ \A l \in DOMAIN Keep(T.cubes, I) : \E k \in I : Keep(T.cubes, I)[l] = T.cubes[k]
  BY <1>1, KeepFacts
<1> QED BY <1>2, <1>4, <1>5, <1>6, <1>7, <1>8 DEF S

(* Fewer cubes are left when those that are not full in the unate          *)
(* variables go.                                                           *)
LEMMA UnateSmaller ==
  ASSUME NEW T \in CubelistType, massive_count(T).unate # {}
  PROVE  /\ UnateReduced(T, massive_count(T).unate) \in CubelistType
         /\ UnateReduced(T, massive_count(T).unate).cof = T.cof
         /\ mu[UnateReduced(T, massive_count(T).unate)] < mu[T]
         /\ \A l \in DOMAIN UnateReduced(T, massive_count(T).unate).cubes : \E k \in DOMAIN T.cubes :
               UnateReduced(T, massive_count(T).unate).cubes[l] = T.cubes[k]
<1> DEFINE I == {k \in DOMAIN T.cubes : InVars(massive_count(T).unate) \subseteq T.cubes[k] \cup T.cof}
<1>1. UnateReduced(T, massive_count(T).unate) = Selected(T, I)
  BY SelectedExcept DEF UnateReduced
<1>2. PICK v \in Vars : v \in massive_count(T).unate /\ Cardinality(Missing(T, v)) = 1
  BY SummaryFacts
<1>3. PICK p \in Missing(T, v) : TRUE
  BY <1>2, ListFacts, FS_EmptySet
<1>4. PICK k \in DOMAIN T.cubes : p \notin T.cubes[k] /\ p \notin T.cof /\ p \in var_mask[v]
  BY <1>3 DEF Missing
<1>5. k \notin I
  BY <1>2, <1>4 DEF InVars
<1>6. I \in SUBSET DOMAIN T.cubes /\ I # DOMAIN T.cubes
  BY <1>5
<1> HIDE DEF I
<1>7. /\ Selected(T, I) \in CubelistType /\ Selected(T, I).cof = T.cof /\ mu[Selected(T, I)] < mu[T]
      /\ \A l \in DOMAIN Selected(T, I).cubes : \E k1 \in I : Selected(T, I).cubes[l] = T.cubes[k1]
  BY ONLY <1>6, T \in CubelistType, KeptList
<1> QED BY <1>1, <1>6, <1>7

(* The two blocks of a partition.                                          *)
LEMMA PartitionFacts ==
  ASSUME NEW T \in CubelistType, T.cubes # <<>>, NEW split, split = cubelist_partition(T)
  PROVE  /\ split.A \in CubelistType /\ split.B \in CubelistType
         /\ split.A.cof = T.cof /\ split.B.cof = T.cof
         /\ split.B.cubes # <<>> => mu[split.A] < mu[T] /\ mu[split.B] < mu[T]
         /\ \A l \in DOMAIN split.A.cubes : \E k \in DOMAIN T.cubes : split.A.cubes[l] = T.cubes[k]
         /\ \A l \in DOMAIN split.B.cubes : \E k \in DOMAIN T.cubes : split.B.cubes[l] = T.cubes[k]
<1>1. PICK seed : split = [A |-> [T EXCEPT !.cubes = Keep(T.cubes, {1} \cup Joined(T, seed))],
                           B |-> [T EXCEPT !.cubes = Keep(T.cubes, DOMAIN T.cubes \ ({1} \cup Joined(T, seed)))]]
  BY DEF cubelist_partition
<1> DEFINE I == {1} \cup Joined(T, seed)
<1>2. I \in SUBSET DOMAIN T.cubes /\ I # {}
  BY ListFacts DEF Joined
<1>3. DOMAIN T.cubes \ I \in SUBSET DOMAIN T.cubes /\ DOMAIN T.cubes \ I # DOMAIN T.cubes
  BY <1>2
<1>4. split.A = Selected(T, I) /\ split.B = Selected(T, DOMAIN T.cubes \ I)
  BY <1>1, SelectedExcept
<1> HIDE DEF I
<1>5. /\ split.A \in CubelistType /\ split.A.cof = T.cof
      /\ I # DOMAIN T.cubes => mu[split.A] < mu[T]
      /\ \A l \in DOMAIN split.A.cubes : \E k \in I : split.A.cubes[l] = T.cubes[k]
  BY ONLY <1>2, <1>4, T \in CubelistType, KeptList
<1>6. /\ split.B \in CubelistType /\ split.B.cof = T.cof
      /\ mu[split.B] < mu[T]
      /\ split.B.cubes = <<>> <=> DOMAIN T.cubes \ I = {}
      /\ \A l \in DOMAIN split.B.cubes : \E k \in DOMAIN T.cubes \ I : split.B.cubes[l] = T.cubes[k]
  <2> DEFINE J == DOMAIN T.cubes \ I
  <2>1. J \in SUBSET DOMAIN T.cubes /\ J # DOMAIN T.cubes
    BY <1>3
  <2>2. split.B = Selected(T, J)
    BY <1>4
  <2> HIDE DEF J
  <2>3. /\ split.B \in CubelistType /\ split.B.cof = T.cof
        /\ mu[split.B] < mu[T]
        /\ split.B.cubes = <<>> <=> J = {}
        /\ \A l \in DOMAIN split.B.cubes : \E k \in J : split.B.cubes[l] = T.cubes[k]
    BY ONLY <2>1, <2>2, T \in CubelistType, KeptList
  <2> QED BY <2>3 DEF J
<1> QED BY <1>2, <1>5, <1>6

(* The cubes of a list contain the points that have no part in cof.        *)
Fills(T) == \A x \in Points : x \cap T.cof = {} => \E k \in DOMAIN T.cubes : x \subseteq T.cubes[k]

(* What some of the cubes fill, all of them fill.                          *)
LEMMA FewerFill ==
  ASSUME NEW T, NEW S, S.cof = T.cof, Fills(S),
         \A l \in DOMAIN S.cubes : \E k \in DOMAIN T.cubes : S.cubes[l] = T.cubes[k]
  PROVE  Fills(T)
BY DEF Fills

(* A list whose halves are filled is filled.                               *)
LEMMA HalvesFill ==
  ASSUME NEW T \in CubelistType, NEW best \in Vars, Cardinality(Missing(T, best)) >= 2,
         NEW half, half = binate_split_select(T, best),
         Fills(scofactor(T, half.left, best)), Fills(scofactor(T, half.right, best))
  PROVE  Fills(T)
<1> SUFFICES ASSUME NEW x \in Points, x \cap T.cof = {}
             PROVE  \E k \in DOMAIN T.cubes : x \subseteq T.cubes[k]
  BY DEF Fills
<1>1. PICK p \in Parts : x \cap var_mask[best] = {p}
  BY PointFacts
<1>2. p \in half.left \/ p \in half.right
  BY <1>1, SplitFacts
<1>3. ASSUME NEW h \in Cubes, p \in h, Parts \ var_mask[best] \subseteq h, Fills(scofactor(T, h, best))
      PROVE  \E k \in DOMAIN T.cubes : x \subseteq T.cubes[k]
  <2>1. x \cap (T.cof \cup (Parts \ h)) = {}
    BY <1>1, <1>3
  <2>2. PICK l \in DOMAIN scofactor(T, h, best).cubes : x \subseteq scofactor(T, h, best).cubes[l]
    <3>1. scofactor(T, h, best).cof = T.cof \cup (Parts \ h)
      BY ScofactorFacts
    <3> QED BY <1>3, <2>1, <3>1 DEF Fills
  <2>3. PICK k \in DOMAIN T.cubes : scofactor(T, h, best).cubes[l] = T.cubes[k]
    BY ScofactorFacts
  <2> QED BY <2>2, <2>3
<1> QED BY <1>2, <1>3, SplitFacts

(* So is one with a full row,                                              *)
LEMMA FullRowFills ==
  ASSUME NEW T \in CubelistType, HasFullRow(T) PROVE Fills(T)
<1>1. PICK k \in DOMAIN T.cubes : T.cubes[k] \cup T.cof = Parts
  <2>1. PICK p \in ToSet(T.cubes) : p \cup T.cof = Parts
    BY DEF HasFullRow, full_row
  <2> QED BY <2>1 DEF ToSet
<1> QED BY <1>1, PointFacts DEF Fills

(* and one without empty columns in which a single variable is active.     *)
LEMMA OneVariableFills ==
  ASSUME NEW T \in CubelistType, Ceiling(T) = Parts, Cardinality(massive_count(T).active) = 1
  PROVE  Fills(T)
<1>1. PICK v : massive_count(T).active = {v}
  <2>1. massive_count(T).active \subseteq Vars
    BY SummaryFacts
  <2>2. IsFiniteSet(massive_count(T).active)
    BY <2>1, PartsFinite, FS_Subset
  <2> QED BY <2>2, FS_Singleton
<1>2. v \in Vars /\ Missing(T, v) # {} /\ \A w \in Vars : w # v => Missing(T, w) = {}
  BY <1>1, SummaryFacts
<1> SUFFICES ASSUME NEW x \in Points, x \cap T.cof = {}
             PROVE  \E k \in DOMAIN T.cubes : x \subseteq T.cubes[k]
  BY DEF Fills
<1>3. PICK p \in Parts : x \cap var_mask[v] = {p}
  BY <1>2, PointFacts
<1>4. PICK k \in DOMAIN T.cubes : p \in T.cubes[k]
  <2>1. p \in UNION ToSet(T.cubes)
    BY <1>3 DEF Ceiling, sf_or
  <2> QED BY <2>1 DEF ToSet
<1>5. ASSUME NEW q \in x PROVE q \in T.cubes[k]
  <2>1. PICK w \in Vars : q \in var_mask[w]
    BY PointFacts, MaskFacts
  <2>2. CASE w = v
    BY <1>3, <1>4, <2>1, <2>2
  <2>3. CASE w # v
    BY <1>2, <2>1, <2>3 DEF Missing
  <2> QED BY <2>2, <2>3
<1> QED BY <1>5

(* What taut answers for a list depends on its answers for smaller lists.  *)
LEMMA TautReducedLocal ==
  ASSUME NEW S \in CubelistType,
         NEW f \in [CubelistType -> BOOLEAN], NEW g \in [CubelistType -> BOOLEAN],
         NEW r \in [CubelistType -> BOOLEAN], NEW q \in [CubelistType -> BOOLEAN],
         \A y \in CubelistType : mu[y] < mu[S] => f[y] = g[y] /\ r[y] = q[y]
  PROVE  /\ TautReduced(S, massive_count(S), f, r) = TautReduced(S, massive_count(S), g, q)
         /\ TautReduced(S, massive_count(S), f, r) \in BOOLEAN
<1> DEFINE count == massive_count(S)
<1>1. CASE count.unate = count.active
  BY <1>1 DEF TautReduced
<1>2. CASE count.unate # count.active
  <2>1. count.best \in Vars /\ Cardinality(Missing(S, count.best)) >= 2
    BY <1>2, BestFacts
  <2>2. S.cubes # <<>>
    <3>1. PICK p \in Missing(S, count.best) : TRUE
      BY <2>1, FS_EmptySet
    <3> QED BY <3>1, ListFacts DEF Missing
  <2> DEFINE UR == UnateReduced(S, count.unate)
             split == cubelist_partition(S)
             half == binate_split_select(S, count.best)
             sl == scofactor(S, half.left, count.best)
             sr == scofactor(S, half.right, count.best)
  <2>3. count.unate # {} => UR \in CubelistType /\ r[UR] = q[UR] /\ r[UR] \in BOOLEAN
    <3> SUFFICES ASSUME count.unate # {} PROVE UR \in CubelistType /\ r[UR] = q[UR] /\ r[UR] \in BOOLEAN
      OBVIOUS
    <3>1. UR \in CubelistType /\ mu[UR] < mu[S]
      BY UnateSmaller
    <3> HIDE DEF UR
    <3> QED BY <3>1
  <2>4. /\ f[sl] = g[sl] /\ f[sl] \in BOOLEAN
        /\ f[sr] = g[sr] /\ f[sr] \in BOOLEAN
    <3>1. sl \in CubelistType /\ sr \in CubelistType /\ mu[sl] < mu[S] /\ mu[sr] < mu[S]
      BY <2>1, SplitSmaller
    <3> HIDE DEF sl, sr
    <3> QED BY <3>1
  <2>5. split.B.cubes # <<>> =>
          f[split.A] = g[split.A] /\ f[split.A] \in BOOLEAN /\ f[split.B] = g[split.B] /\ f[split.B] \in BOOLEAN
    <3> SUFFICES ASSUME split.B.cubes # <<>>
                 PROVE f[split.A] = g[split.A] /\ f[split.A] \in BOOLEAN /\ f[split.B] = g[split.B] /\ f[split.B] \in BOOLEAN
      OBVIOUS
    <3>1. split.A \in CubelistType /\ split.B \in CubelistType /\ mu[split.A] < mu[S] /\ mu[split.B] < mu[S]
      BY <2>2, PartitionFacts
    <3> HIDE DEF split
    <3> QED BY <3>1
  <2>6. TautSplit(S, count.best, f) = TautSplit(S, count.best, g) /\ TautSplit(S, count.best, f) \in BOOLEAN
    <3>1. TautSplit(S, count.best, f) = (f[sl] /\ f[sr]) /\ TautSplit(S, count.best, g) = (g[sl] /\ g[sr])
      BY DEF TautSplit, TautHalves
    <3> HIDE DEF sl, sr
    <3> QED BY <2>4, <3>1
  <2>7. TautParts(S, split, count.best, f) = TautParts(S, split, count.best, g)
        /\ TautParts(S, split, count.best, f) \in BOOLEAN
    <3> HIDE DEF split
    <3> QED BY <2>5, <2>6 DEF TautParts
  <2> HIDE DEF split, half, sl, sr, UR
  <2>8. /\ TautReduced(S, count, f, r) =
           (/\ Ceiling(S) = Parts
            /\ count.unate # count.active
            /\ \/ Cardinality(count.active) = 1
               \/ IF count.unate # {} THEN r[UR]
                  ELSE IF count.var_zeros[count.best] < Len(S.cubes) \div 2
                       THEN TautParts(S, split, count.best, f) ELSE TautSplit(S, count.best, f))
        /\ TautReduced(S, count, g, q) =
           (/\ Ceiling(S) = Parts
            /\ count.unate # count.active
            /\ \/ Cardinality(count.active) = 1
               \/ IF count.unate # {} THEN q[UR]
                  ELSE IF count.var_zeros[count.best] < Len(S.cubes) \div 2
                       THEN TautParts(S, split, count.best, g) ELSE TautSplit(S, count.best, g))
    BY DEF TautReduced, UR, split
  <2> QED BY <2>3, <2>6, <2>7, <2>8
<1> QED BY <1>1, <1>2

(* If the answers for smaller lists are right when they are yes, so is the *)
(* answer for a list.                                                      *)
LEMMA TautReducedFills ==
  ASSUME NEW S \in CubelistType,
         NEW f \in [CubelistType -> BOOLEAN], NEW r \in [CubelistType -> BOOLEAN],
         \A y \in CubelistType : mu[y] < mu[S] => (f[y] => Fills(y)) /\ (r[y] => Fills(y)),
         TautReduced(S, massive_count(S), f, r)
  PROVE  Fills(S)
<1> DEFINE count == massive_count(S)
<1>1. Ceiling(S) = Parts /\ count.unate # count.active
  BY DEF TautReduced
<1>2. CASE Cardinality(count.active) = 1
  BY <1>1, <1>2, OneVariableFills
<1>3. CASE count.unate # {} /\ r[UnateReduced(S, count.unate)]
  <2> DEFINE UR == UnateReduced(S, count.unate)
  <2>1. /\ UR \in CubelistType /\ mu[UR] < mu[S] /\ UR.cof = S.cof
        /\ \A l \in DOMAIN UR.cubes : \E k \in DOMAIN S.cubes : UR.cubes[l] = S.cubes[k]
    BY <1>3, UnateSmaller
  <2>2. r[UR]
    BY <1>3
  <2> HIDE DEF UR
  <2>3. Fills(UR)
    BY <2>1, <2>2
  <2> QED BY <2>1, <2>3, FewerFill
<1>4. CASE TautSplit(S, count.best, f)
  <2> DEFINE half == binate_split_select(S, count.best)
             sl == scofactor(S, half.left, count.best)
             sr == scofactor(S, half.right, count.best)
  <2>1. count.best \in Vars /\ Cardinality(Missing(S, count.best)) >= 2
    BY <1>1, BestFacts
  <2>2. sl \in CubelistType /\ sr \in CubelistType /\ mu[sl] < mu[S] /\ mu[sr] < mu[S]
    BY <2>1, SplitSmaller
  <2>3. f[sl] /\ f[sr]
    BY <1>4 DEF TautSplit, TautHalves
  <2>4. Fills(sl) /\ Fills(sr)
    <3> HIDE DEF sl, sr
    <3> QED BY <2>2, <2>3
  <2> QED BY <2>1, <2>4, HalvesFill
<1>5. CASE cubelist_partition(S).B.cubes # <<>>
           /\ (f[cubelist_partition(S).A] \/ f[cubelist_partition(S).B])
  <2> DEFINE split == cubelist_partition(S)
  <2>1. count.best \in Vars /\ Cardinality(Missing(S, count.best)) >= 2
    BY <1>1, BestFacts
  <2>2. S.cubes # <<>>
    <3>1. PICK p \in Missing(S, count.best) : TRUE
      BY <2>1, FS_EmptySet
    <3> QED BY <3>1, ListFacts DEF Missing
  <2>3. /\ split.A \in CubelistType /\ split.B \in CubelistType
        /\ split.A.cof = S.cof /\ split.B.cof = S.cof
        /\ mu[split.A] < mu[S] /\ mu[split.B] < mu[S]
        /\ \A l \in DOMAIN split.A.cubes : \E k \in DOMAIN S.cubes : split.A.cubes[l] = S.cubes[k]
        /\ \A l \in DOMAIN split.B.cubes : \E k \in DOMAIN S.cubes : split.B.cubes[l] = S.cubes[k]
    BY <1>5, <2>2, PartitionFacts
  <2>4. f[split.A] \/ f[split.B]
    BY <1>5
  <2> HIDE DEF split
  <2>5. Fills(split.A) \/ Fills(split.B)
    BY <2>3, <2>4
  <2>6. CASE Fills(split.A)
    BY <2>3, <2>6, FewerFill
  <2>7. CASE Fills(split.B)
    BY <2>3, <2>7, FewerFill
  <2> QED BY <2>5, <2>6, <2>7
<1>6. \/ Cardinality(count.active) = 1
      \/ count.unate # {} /\ r[UnateReduced(S, count.unate)]
      \/ TautParts(S, cubelist_partition(S), count.best, f)
      \/ TautSplit(S, count.best, f)
  BY DEF TautReduced
<1> HIDE DEF count
<1> QED BY <1>2, <1>3, <1>4, <1>5, <1>6 DEF TautParts

(* The inner recursion of taut, over the unate reductions.                 *)
LEMMA TautNoRowUnfold ==
  ASSUME NEW f \in [CubelistType -> BOOLEAN]
  PROVE  \E r \in [CubelistType -> BOOLEAN] :
           /\ \A S \in CubelistType : r[S] = TautReduced(S, massive_count(S), f, r)
           /\ \A T : TautNoRow(T, f) = r[T]
<1> DEFINE D == CubelistType
           body(r) == [S \in D |-> TautReduced(S, massive_count(S), f, r)]
           B == [r \in [D -> BOOLEAN] |-> body(r)]
<1>1. \A r \in [D -> BOOLEAN], S \in D : TautReduced(S, massive_count(S), f, r) \in BOOLEAN
  <2> SUFFICES ASSUME NEW r \in [D -> BOOLEAN], NEW S \in D
               PROVE  TautReduced(S, massive_count(S), f, r) \in BOOLEAN
    OBVIOUS
  <2> QED BY TautReducedLocal
<1>2. B \in [[D -> BOOLEAN] -> [D -> BOOLEAN]]
  BY <1>1
<1>3. ASSUME NEW r \in [D -> BOOLEAN], NEW q \in [D -> BOOLEAN], NEW S \in D,
             \A y \in D : mu[y] < mu[S] => r[y] = q[y]
      PROVE  B[r][S] = B[q][S]
  <2>1. TautReduced(S, massive_count(S), f, r) = TautReduced(S, massive_count(S), f, q)
    BY <1>3, TautReducedLocal
  <2> QED BY <2>1
<1>4. \E r \in [D -> BOOLEAN] : r = B[r]
  <2>1. \A r \in [D -> BOOLEAN], q \in [D -> BOOLEAN], S \in D :
          (\A y \in D : mu[y] < mu[S] => r[y] = q[y]) => B[r][S] = B[q][S]
    <3> HIDE DEF B, D
    <3> QED BY <1>3
  <2>2. Recursion(D, BOOLEAN, mu, B)
    <3> HIDE DEF B, D
    <3> QED BY <1>2, <2>1, MuType DEF Recursion, D
  <2> HIDE DEF B, D
  <2> QED BY <2>2, MeasureRecursion
<1> DEFINE red == CHOOSE r : r = body(r)
<1>5. PICK r \in [D -> BOOLEAN] : r = body(r)
  BY <1>4
<1>6. red = body(red)
  <2> HIDE DEF body
  <2> QED BY <1>5
<1>7. \A T : TautNoRow(T, f) = red[T]
  BY DEF TautNoRow
<1>8. red \in [D -> BOOLEAN]
  <2> HIDE DEF red
  <2>1. red = [S \in D |-> TautReduced(S, massive_count(S), f, red)]
    BY <1>6
  <2>2. \A S \in D : red[S] = TautReduced(S, massive_count(S), f, red)
    BY <2>1
  <2>3. \A S \in D : red[S] \in BOOLEAN
    BY <2>2 DEF TautReduced
  <2> QED BY <2>1, <2>3
<1> HIDE DEF red
<1>9. \A S \in D : red[S] = TautReduced(S, massive_count(S), f, red)
  BY <1>6
<1> QED BY <1>7, <1>8, <1>9

(* The answer of tautology looks only at smaller cubelists.                *)
LEMMA TautNoRowLocal ==
  ASSUME NEW f \in [CubelistType -> BOOLEAN], NEW g \in [CubelistType -> BOOLEAN],
         NEW T \in CubelistType, \A y \in CubelistType : mu[y] < mu[T] => f[y] = g[y]
  PROVE  TautNoRow(T, f) = TautNoRow(T, g) /\ TautNoRow(T, f) \in BOOLEAN
<1> DEFINE D == CubelistType
<1>1. PICK r \in [D -> BOOLEAN] :
        /\ \A S \in D : r[S] = TautReduced(S, massive_count(S), f, r)
        /\ \A S : TautNoRow(S, f) = r[S]
  BY TautNoRowUnfold
<1>2. PICK q \in [D -> BOOLEAN] :
        /\ \A S \in D : q[S] = TautReduced(S, massive_count(S), g, q)
        /\ \A S : TautNoRow(S, g) = q[S]
  BY TautNoRowUnfold
<1> DEFINE P == {S \in D : mu[S] <= mu[T] => r[S] = q[S]}
<1>3. \A S \in D : mu[S] \in Nat
  BY MuType
<1>4. ASSUME NEW S \in D, \A y \in D : mu[y] < mu[S] => y \in P PROVE S \in P
  <2> SUFFICES ASSUME mu[S] <= mu[T] PROVE r[S] = q[S]
    OBVIOUS
  <2>1. ASSUME NEW y \in D, mu[y] < mu[S] PROVE f[y] = g[y] /\ r[y] = q[y]
    <3>1. mu[y] < mu[T] /\ mu[y] <= mu[T]
      BY <1>3, <2>1
    <3> QED BY <1>4, <2>1, <3>1
  <2>2. TautReduced(S, massive_count(S), f, r) = TautReduced(S, massive_count(S), g, q)
    BY <2>1, TautReducedLocal, SMTT(30)
  <2> QED BY <1>1, <1>2, <2>2
<1>5. \A S \in D : (\A y \in D : mu[y] < mu[S] => y \in P) => S \in P
  BY <1>4
<1> HIDE DEF P
<1>6. D \subseteq P
  BY <1>5, MuType, MeasureInduction
<1>7. r[T] = q[T] /\ r[T] \in BOOLEAN
  BY <1>3, <1>6 DEF P
<1> QED BY <1>1, <1>2, <1>7

(* taut is what its definition says: its recursion ends.                   *)
LEMMA TautUnfold ==
  /\ taut \in [CubelistType -> BOOLEAN]
  /\ \A T \in CubelistType : taut[T] = (HasFullRow(T) \/ TautNoRow(T, taut))
<1> DEFINE D == CubelistType
           body(f) == [T \in D |-> HasFullRow(T) \/ TautNoRow(T, f)]
           B == [f \in [D -> BOOLEAN] |-> body(f)]
<1>1. B \in [[D -> BOOLEAN] -> [D -> BOOLEAN]]
  <2>1. \A f \in [D -> BOOLEAN], T \in D : (HasFullRow(T) \/ TautNoRow(T, f)) \in BOOLEAN
    OBVIOUS
  <2> QED BY <2>1
<1>2. \A f \in [D -> BOOLEAN], g \in [D -> BOOLEAN], T \in D :
        (\A y \in D : mu[y] < mu[T] => f[y] = g[y]) => B[f][T] = B[g][T]
  <2> SUFFICES ASSUME NEW f \in [D -> BOOLEAN], NEW g \in [D -> BOOLEAN], NEW T \in D,
                      \A y \in D : mu[y] < mu[T] => f[y] = g[y]
               PROVE  B[f][T] = B[g][T]
    OBVIOUS
  <2>1. TautNoRow(T, f) = TautNoRow(T, g)
    BY TautNoRowLocal
  <2>2. B[f] = body(f) /\ B[g] = body(g)
    OBVIOUS
  <2>3. body(f)[T] = (HasFullRow(T) \/ TautNoRow(T, f)) /\ body(g)[T] = (HasFullRow(T) \/ TautNoRow(T, g))
    OBVIOUS
  <2> HIDE DEF body, B
  <2> QED BY <2>1, <2>2, <2>3
<1>3. \E f \in [D -> BOOLEAN] : f = B[f]
  <2>1. Recursion(D, BOOLEAN, mu, B)
    <3> HIDE DEF B, D
    <3> QED BY <1>1, <1>2, MuType DEF Recursion, D
  <2> HIDE DEF B, D
  <2> QED BY <2>1, MeasureRecursion
<1>4. PICK f \in [D -> BOOLEAN] : f = body(f)
  BY <1>3
<1>5. taut = body(taut)
  <2>1. taut = CHOOSE t : t = body(t)
    BY DEF taut
  <2> HIDE DEF body
  <2> QED BY <1>4, <2>1
<1>6. \A T \in D : taut[T] = (HasFullRow(T) \/ TautNoRow(T, taut))
  BY <1>5
<1>7. taut \in [D -> BOOLEAN]
  <2>1. \A T \in D : taut[T] \in BOOLEAN
    BY <1>6
  <2> QED BY <1>5, <2>1
<1> QED BY <1>6, <1>7

(* A list that taut calls a tautology is filled: it contains every point   *)
(* that has no part cofactored against.                                    *)
THEOREM TautFills ==
  ASSUME NEW T \in CubelistType, taut[T]
  PROVE  Fills(T)
<1> DEFINE D == CubelistType
           P == {S \in D : taut[S] => Fills(S)}
<1>1. ASSUME NEW S \in D, \A y \in D : mu[y] < mu[S] => y \in P PROVE S \in P
  <2> SUFFICES ASSUME taut[S] PROVE Fills(S)
    OBVIOUS
  <2>1. HasFullRow(S) \/ TautNoRow(S, taut)
    BY TautUnfold
  <2>2. CASE HasFullRow(S)
    BY <2>2, FullRowFills
  <2>3. CASE TautNoRow(S, taut)
    <3>1. PICK r \in [D -> BOOLEAN] :
            /\ \A S1 \in D : r[S1] = TautReduced(S1, massive_count(S1), taut, r)
            /\ \A S1 : TautNoRow(S1, taut) = r[S1]
      BY TautUnfold, TautNoRowUnfold
    <3> DEFINE Q == {S1 \in D : mu[S1] <= mu[S] => (r[S1] => Fills(S1))}
    <3>2. ASSUME NEW S1 \in D, \A y \in D : mu[y] < mu[S1] => y \in Q PROVE S1 \in Q
      <4> SUFFICES ASSUME mu[S1] <= mu[S], r[S1] PROVE Fills(S1)
        OBVIOUS
      <4>1. \A y \in D : mu[y] \in Nat
        BY MuType
      <4>2. ASSUME NEW y \in D, mu[y] < mu[S1] PROVE (taut[y] => Fills(y)) /\ (r[y] => Fills(y))
        <5>1. mu[y] < mu[S] /\ mu[y] <= mu[S]
          BY <4>1, <4>2
        <5> QED BY <1>1, <3>2, <4>2, <5>1
      <4>3. TautReduced(S1, massive_count(S1), taut, r)
        BY <3>1
      <4> QED BY <4>2, <4>3, TautReducedFills, TautUnfold
    <3>3. \A S1 \in D : (\A y \in D : mu[y] < mu[S1] => y \in Q) => S1 \in Q
      BY <3>2
    <3> HIDE DEF Q
    <3>4. D \subseteq Q
      BY <3>3, MuType, MeasureInduction
    <3>5. mu[S] <= mu[S] /\ r[S]
      BY <2>3, <3>1, MuType
    <3> QED BY <3>4, <3>5 DEF Q
  <2> QED BY <2>1, <2>2, <2>3
<1>2. \A S \in D : (\A y \in D : mu[y] < mu[S] => y \in P) => S \in P
  BY <1>1
<1> HIDE DEF P
<1>3. D \subseteq P
  BY <1>2, MuType, MeasureInduction
<1> QED BY <1>3 DEF P

(* What a cube takes from the complement's supercube: nothing, or its      *)
(* parts of the only variable that is active in it.                        *)
LEMMA ScccCubeFacts ==
  ASSUME NEW p \in Cubes
  PROVE  /\ \/ sccc_cube(Parts, p) = Parts
            \/ \E v \in Vars : /\ ActiveVars(p) = {v}
                               /\ sccc_cube(Parts, p) = Parts \ (var_mask[v] \cap p)
         /\ \A x \in Points : ~ (x \subseteq p) => x \subseteq sccc_cube(Parts, p)
<1>0. p \subseteq Parts
  BY DEF Cubes
<1>1. CASE \E v \in Vars : ActiveVars(p) = {v}
  <2>1. PICK v \in Vars : ActiveVars(p) = {v} /\ cactive(p) = v
    BY <1>1 DEF cactive
  <2>2. v >= 0 /\ cactive(p) = v
    BY <2>1 DEF Vars
  <2>3. sccc_cube(Parts, p) = Parts \cap ((p \ var_mask[v]) \cup (var_mask[v] \ p))
    BY <2>2 DEF sccc_cube
  <2>4. \A w \in Vars : w # v => var_mask[w] \subseteq p
    BY <2>1 DEF ActiveVars
  <2>5. \A q \in Parts : q \in var_mask[v] \/ q \in p
    BY <2>4, MaskFacts
  <2>6. sccc_cube(Parts, p) = Parts \ (var_mask[v] \cap p)
    BY <1>0, <2>3, <2>5
  <2>7. ASSUME NEW x \in Points, ~ (x \subseteq p) PROVE x \subseteq sccc_cube(Parts, p)
    <3>1. PICK q \in x : q \notin p
      BY <2>7
    <3>2. x \subseteq Parts /\ q \in var_mask[v]
      BY <2>5, <3>1, PointFacts
    <3>3. x \cap var_mask[v] = {q}
      BY <3>1, <3>2, <2>1, PointFacts
    <3> QED BY <2>6, <3>1, <3>2, <3>3
  <2> QED BY <2>1, <2>6, <2>7
<1>2. CASE ~ \E v \in Vars : ActiveVars(p) = {v}
  <2>1. cactive(p) = -1
    BY <1>2 DEF cactive
  <2>2. sccc_cube(Parts, p) = Parts
    BY <2>1 DEF sccc_cube
  <2> QED BY <2>2, PointFacts
<1> QED BY <1>1, <1>2

(* The points outside the list are in s;                                   *)
Inside(T, s) ==
  \A x \in Points : x \cap T.cof = {} /\ (\A k \in DOMAIN T.cubes : ~ (x \subseteq T.cubes[k])) => x \subseteq s

(* every binary variable has a part that is not cofactored against, and so *)
(* it has in s, which has all those parts of a variable that is not active *)
(* -- unless s has nothing at all.                                         *)
Binary == 0 .. num_binary_vars - 1
Room(T) == \A v \in Binary : var_mask[v] \ T.cof # {}
Whole(T, s) ==
  Room(T) => \/ s \ T.cof = {}
             \/ \A v \in Binary : /\ (var_mask[v] \cap s) \ T.cof # {}
                                  /\ Missing(T, v) = {} => var_mask[v] \ T.cof \subseteq s

(* The binary variables are variables.                                     *)
LEMMA BinaryVars == Binary \subseteq Vars
BY CubeAssumption DEF Binary, Vars

(* Nothing is outside the cube of all parts: an empty list.                *)
LEMMA ScccNone == ASSUME NEW T \in CubelistType, T.cubes = <<>> PROVE Inside(T, Parts) /\ Whole(T, Parts)
<1>1. Inside(T, Parts)
  BY PointFacts DEF Inside
<1>2. \A v \in Binary : var_mask[v] \subseteq Parts
  BY MaskFacts, BinaryVars
<1>3. Whole(T, Parts)
  BY <1>2 DEF Whole, Room
<1> QED BY <1>1, <1>3

(* No point is left out by a list that fills everything.                   *)
LEMMA ScccFilled == ASSUME NEW T, Fills(T) PROVE Inside(T, {}) /\ Whole(T, {})
BY DEF Fills, Inside, Whole

(* In a unate list the smallest cube around the complement is what         *)
(* sccc_special_cases computes directly.                                   *)
LEMMA ScccUnateFacts ==
  ASSUME NEW T \in CubelistType,
         massive_count(T).unate = massive_count(T).active \/ Len(T.cubes) = 1
  PROVE  ScccUnate(T) \in Cubes /\ Inside(T, ScccUnate(T)) /\ Whole(T, ScccUnate(T))
<1>0. \A p \in ToSet(T.cubes) : p \in Cubes /\ p \cup T.cof \in Cubes /\ \E k \in DOMAIN T.cubes : p = T.cubes[k]
  BY ListFacts DEF ToSet, Cubes
<1>1. Inside(T, ScccUnate(T))
  <2> SUFFICES ASSUME NEW x \in Points, x \cap T.cof = {},
                      \A k \in DOMAIN T.cubes : ~ (x \subseteq T.cubes[k])
               PROVE  x \subseteq ScccUnate(T)
    BY DEF Inside
  <2>1. \A p \in ToSet(T.cubes) : ~ (x \subseteq p \cup T.cof)
    BY <1>0
  <2>2. \A p \in ToSet(T.cubes) : x \subseteq sccc_cube(Parts, p \cup T.cof)
    BY <1>0, <2>1, ScccCubeFacts
  <2> QED BY <2>2, PointFacts DEF ScccUnate
<1>2. ASSUME NEW v \in Binary, Room(T)
      PROVE  (var_mask[v] \cap ScccUnate(T)) \ T.cof # {}
  <2>0. v \in Vars /\ var_mask[v] \subseteq Parts
    BY BinaryVars, MaskFacts
  <2>1. CASE \E k \in DOMAIN T.cubes : ActiveVars(T.cubes[k] \cup T.cof) = {v}
    <3>1. PICK k \in DOMAIN T.cubes : ActiveVars(T.cubes[k] \cup T.cof) = {v}
      BY <2>1
    <3>2. PICK q \in var_mask[v] : q \notin T.cubes[k] /\ q \notin T.cof
      BY <3>1 DEF ActiveVars
    <3>3. q \in Missing(T, v)
      BY <3>2 DEF Missing
    <3>4. ASSUME NEW l \in DOMAIN T.cubes, ActiveVars(T.cubes[l] \cup T.cof) = {v} PROVE q \notin T.cubes[l]
      <4>1. CASE Len(T.cubes) = 1
        <5>1. k = l
          BY <4>1, ListFacts
        <5> QED BY <3>2, <5>1
      <4>2. CASE massive_count(T).unate = massive_count(T).active
        <5>1. PICK r \in var_mask[v] : r \notin T.cubes[l] /\ r \notin T.cof
          BY <3>4 DEF ActiveVars
        <5>2. r \in Missing(T, v)
          BY <5>1 DEF Missing
        <5>3. Cardinality(Missing(T, v)) = 1
          BY <2>0, <4>2, <3>3, SummaryFacts
        <5>4. r = q
          BY <2>0, <3>3, <5>2, <5>3, ListFacts, OneMember
        <5> QED BY <5>1, <5>4
      <4> QED BY <4>1, <4>2
    <3>5. ASSUME NEW p \in ToSet(T.cubes) PROVE q \in sccc_cube(Parts, p \cup T.cof)
      <4>1. PICK l \in DOMAIN T.cubes : p = T.cubes[l]
        BY <1>0
      <4>2. CASE sccc_cube(Parts, p \cup T.cof) = Parts
        BY <2>0, <3>2, <4>2
      <4>3. CASE sccc_cube(Parts, p \cup T.cof) # Parts
        <5>1. PICK w \in Vars : /\ ActiveVars(p \cup T.cof) = {w}
                                /\ sccc_cube(Parts, p \cup T.cof) = Parts \ (var_mask[w] \cap (p \cup T.cof))
          BY <1>0, <4>3, ScccCubeFacts
        <5>2. CASE w = v
          BY <2>0, <3>2, <3>4, <4>1, <5>1, <5>2
        <5>3. CASE w # v
          <6>1. q \notin var_mask[w]
            BY <2>0, <3>2, <5>3, OneVariable
          <6> QED BY <2>0, <3>2, <5>1, <6>1
        <5> QED BY <5>2, <5>3
      <4> QED BY <4>2, <4>3
    <3>6. q \in ScccUnate(T)
      BY <2>0, <3>2, <3>5 DEF ScccUnate
    <3> QED BY <3>2, <3>6
  <2>2. CASE ~ \E k \in DOMAIN T.cubes : ActiveVars(T.cubes[k] \cup T.cof) = {v}
    <3>1. PICK q \in var_mask[v] : q \notin T.cof
      BY <1>2 DEF Room
    <3>2. ASSUME NEW p \in ToSet(T.cubes) PROVE q \in sccc_cube(Parts, p \cup T.cof)
      <4>2. CASE sccc_cube(Parts, p \cup T.cof) = Parts
        BY <2>0, <3>1, <4>2
      <4>3. CASE sccc_cube(Parts, p \cup T.cof) # Parts
        <5>1. PICK w \in Vars : /\ ActiveVars(p \cup T.cof) = {w}
                                /\ sccc_cube(Parts, p \cup T.cof) = Parts \ (var_mask[w] \cap (p \cup T.cof))
          BY <1>0, <4>3, ScccCubeFacts
        <5>2. w # v
          BY <1>0, <2>2, <5>1
        <5>3. q \notin var_mask[w]
          BY <2>0, <3>1, <5>2, OneVariable
        <5> QED BY <2>0, <3>1, <5>1, <5>3
      <4> QED BY <4>2, <4>3
    <3>3. q \in ScccUnate(T)
      BY <2>0, <3>1, <3>2 DEF ScccUnate
    <3> QED BY <3>1, <3>3
  <2> QED BY <2>1, <2>2
<1>3. ASSUME NEW v \in Binary, Missing(T, v) = {} PROVE var_mask[v] \ T.cof \subseteq ScccUnate(T)
  <2>0. v \in Vars /\ var_mask[v] \subseteq Parts
    BY BinaryVars, MaskFacts
  <2> SUFFICES ASSUME NEW q \in var_mask[v], q \notin T.cof PROVE q \in ScccUnate(T)
    OBVIOUS
  <2>1. ASSUME NEW p \in ToSet(T.cubes) PROVE q \in sccc_cube(Parts, p \cup T.cof)
    <3>1. PICK l \in DOMAIN T.cubes : p = T.cubes[l]
      BY <1>0
    <3>2. CASE sccc_cube(Parts, p \cup T.cof) = Parts
      BY <2>0, <3>2
    <3>3. CASE sccc_cube(Parts, p \cup T.cof) # Parts
      <4>1. PICK w \in Vars : /\ ActiveVars(p \cup T.cof) = {w}
                              /\ sccc_cube(Parts, p \cup T.cof) = Parts \ (var_mask[w] \cap (p \cup T.cof))
        BY <1>0, <3>3, ScccCubeFacts
      <4>2. var_mask[v] \subseteq p \cup T.cof
        BY <1>3, <3>1 DEF Missing
      <4>3. w # v
        BY <4>1, <4>2 DEF ActiveVars
      <4>4. q \notin var_mask[w]
        BY <2>0, <4>3, OneVariable
      <4> QED BY <2>0, <4>1, <4>4
    <3> QED BY <3>2, <3>3
  <2> QED BY <2>0, <2>1 DEF ScccUnate
<1>4. Whole(T, ScccUnate(T))
  BY <1>2, <1>3 DEF Whole
<1>5. ScccUnate(T) \in Cubes
  BY DEF ScccUnate, Cubes
<1> QED BY <1>1, <1>4, <1>5

(* The cube of all parts is around every complement.                       *)
LEMMA PartsWhole == ASSUME NEW T PROVE Inside(T, Parts) /\ Whole(T, Parts)
<1>1. Inside(T, Parts)
  BY PointFacts DEF Inside
<1>2. \A v \in Binary : var_mask[v] \subseteq Parts
  BY MaskFacts, BinaryVars
<1>3. Whole(T, Parts)
  BY <1>2 DEF Whole, Room
<1> QED BY <1>1, <1>3

(* Where the cubes leave a column empty.                                   *)
LEMMA CeilingFacts ==
  ASSUME NEW T \in CubelistType
  PROVE  /\ Ceiling(T) \in Cubes /\ T.cof \subseteq Ceiling(T)
         /\ \A k \in DOMAIN T.cubes : T.cubes[k] \subseteq Ceiling(T)
<1>1. \A k \in DOMAIN T.cubes : T.cubes[k] \in ToSet(T.cubes)
  BY DEF ToSet
<1>2. sf_or(T.cubes) \subseteq Parts
  BY ListFacts DEF sf_or, ToSet
<1>3. T.cof \subseteq Parts
  BY ListFacts DEF Cubes
<1> QED BY <1>1, <1>2, <1>3 DEF Ceiling, sf_or, Cubes

(* A cofactor is a cubelist no larger than the list, of the cubes that     *)
(* meet the cube.                                                          *)
LEMMA CofactorFacts ==
  ASSUME NEW T \in CubelistType, NEW c \in Cubes
  PROVE  /\ cofactor(T, c) \in CubelistType /\ cofactor(T, c).cof = T.cof \cup (Parts \ c)
         /\ mu[cofactor(T, c)] <= mu[T]
         /\ T.cof \cup (Parts \ c) # T.cof => mu[cofactor(T, c)] < mu[T]
         /\ \A l \in DOMAIN cofactor(T, c).cubes : \E k \in DOMAIN T.cubes :
               cofactor(T, c).cubes[l] = T.cubes[k] /\ cdist0(T.cubes[k], c)
         /\ \A k \in DOMAIN T.cubes : cdist0(T.cubes[k], c) =>
               \E l \in DOMAIN cofactor(T, c).cubes : cofactor(T, c).cubes[l] = T.cubes[k]
<1> DEFINE I == {k \in DOMAIN T.cubes : cdist0(T.cubes[k], c)}
           S == cofactor(T, c)
<1>1. T.cubes \in Seq(Cubes) /\ T.cof \in Cubes /\ I \in SUBSET DOMAIN T.cubes
  BY ListFacts
<1>2. S.cubes = Keep(T.cubes, I) /\ S.cof = T.cof \cup (Parts \ c)
      /\ S = [cof |-> T.cof \cup (Parts \ c), cubes |-> Keep(T.cubes, I)]
  BY DEF cofactor
<1> HIDE DEF I
<1>3. Keep(T.cubes, I) \in Seq(Cubes) /\ Len(Keep(T.cubes, I)) <= Len(T.cubes)
  BY <1>1, KeepFacts, KeepLen
<1>4. S \in CubelistType
  BY <1>1, <1>2, <1>3 DEF CubelistType, Cubes
<1> HIDE DEF S
<1>5. mu[S] <= mu[T] /\ (S.cof # T.cof => mu[S] < mu[T])
  <2>1. T.cof \subseteq S.cof
    BY <1>2
  <2> QED BY <1>2, <1>3, <1>4, <2>1, SmallerList
<1>6. /\ \A l \in DOMAIN S.cubes : \E k \in I : S.cubes[l] = T.cubes[k]
      /\ \A k \in I : \E l \in DOMAIN S.cubes : S.cubes[l] = T.cubes[k]
  BY <1>1, <1>2, KeepFacts
<1> QED BY <1>2, <1>4, <1>5, <1>6 DEF S, I

(* The list cofactored against its own supercube is smaller.               *)
LEMMA CeilingSmaller ==
  ASSUME NEW T \in CubelistType, Ceiling(T) # Parts
  PROVE  cofactor(T, Ceiling(T)) \in CubelistType /\ mu[cofactor(T, Ceiling(T))] < mu[T]
<1>1. PICK q \in Parts : q \notin Ceiling(T)
  BY CeilingFacts DEF Cubes
<1>2. T.cof \cup (Parts \ Ceiling(T)) # T.cof
  BY <1>1, CeilingFacts
<1> QED BY <1>2, CeilingFacts, CofactorFacts

(* The smallest cube around the complement, from that of the list          *)
(* cofactored against its supercube.                                       *)
LEMMA ScccCeilingFacts ==
  ASSUME NEW T \in CubelistType, T.cubes # <<>>, Ceiling(T) # Parts,
         NEW f, f[cofactor(T, Ceiling(T))] \in Cubes,
         Inside(cofactor(T, Ceiling(T)), f[cofactor(T, Ceiling(T))]),
         NEW s, s = ScccCeiling(T, Ceiling(T), sccc_cube(Parts, Ceiling(T)), f)
  PROVE  s \in Cubes /\ Inside(T, s) /\ Whole(T, s)
<1> DEFINE ceil == Ceiling(T)
           other == sccc_cube(Parts, ceil)
           S == cofactor(T, ceil)
           t == f[S]
<1>0. ceil \in Cubes /\ ceil \subseteq Parts /\ ceil # Parts /\ T.cof \subseteq ceil /\ t \subseteq Parts
      /\ \A k \in DOMAIN T.cubes : T.cubes[k] \subseteq ceil
  BY CeilingFacts DEF Cubes
<1>1. CASE other = Parts
  <2>1. s = Parts
    BY <1>1 DEF ScccCeiling
  <2> QED BY <2>1, PartsWhole DEF Cubes
<1>2. CASE other # Parts
  <2>1. PICK v \in Vars : ActiveVars(ceil) = {v} /\ other = Parts \ (var_mask[v] \cap ceil)
    BY <1>0, <1>2, ScccCubeFacts
  <2>2. s = (t \cap ceil) \cup (Parts \cap other)
    BY <1>2 DEF ScccCeiling, sccc_merge
  <2>3. s \in Cubes
    BY <1>0, <2>2 DEF Cubes
  <2>4. Inside(T, s)
    <3> SUFFICES ASSUME NEW x \in Points, x \cap T.cof = {},
                        \A k \in DOMAIN T.cubes : ~ (x \subseteq T.cubes[k])
                 PROVE  x \subseteq s
      BY DEF Inside
    <3>1. CASE ~ (x \subseteq ceil)
      <4>1. x \subseteq other /\ x \subseteq Parts
        BY <1>0, <3>1, ScccCubeFacts, PointFacts
      <4> QED BY <2>2, <4>1
    <3>2. CASE x \subseteq ceil
      <4>1. x \cap (T.cof \cup (Parts \ ceil)) = {}
        BY <3>2
      <4>2. /\ S.cof = T.cof \cup (Parts \ ceil)
            /\ \A l \in DOMAIN S.cubes : \E k \in DOMAIN T.cubes : S.cubes[l] = T.cubes[k]
        BY <1>0, CofactorFacts
      <4>3. Inside(S, t)
        OBVIOUS
      <4> HIDE DEF S, t
      <4>4. x \subseteq t
        BY <4>1, <4>2, <4>3 DEF Inside
      <4> QED BY <2>2, <3>2, <4>4
    <3> QED BY <3>1, <3>2
  <2>5. ASSUME NEW w \in Binary, Room(T)
        PROVE  /\ (var_mask[w] \cap s) \ T.cof # {}
               /\ Missing(T, w) = {} => var_mask[w] \ T.cof \subseteq s
    <3>0. w \in Vars /\ var_mask[w] \subseteq Parts /\ var_mask[w] \ T.cof # {}
      BY <2>5, BinaryVars, MaskFacts DEF Room
    <3>1. CASE w # v
      <4>1. var_mask[w] \cap var_mask[v] = {}
        BY <2>1, <3>0, <3>1, OneVariable
      <4>2. var_mask[w] \subseteq other
        BY <2>1, <3>0, <4>1
      <4> QED BY <2>2, <3>0, <4>2
    <3>2. CASE w = v
      <4>1. PICK q \in var_mask[v] : q \notin ceil
        BY <2>1 DEF ActiveVars
      <4>2. q \in other /\ q \notin T.cof
        BY <1>0, <2>1, <3>0, <3>2, <4>1
      <4>3. 1 \in DOMAIN T.cubes
        BY ListFacts
      <4>4. q \in Missing(T, v)
        BY <1>0, <4>1, <4>2, <4>3 DEF Missing
      <4> QED BY <2>2, <3>0, <3>2, <4>1, <4>2, <4>4
    <3> QED BY <3>1, <3>2
  <2> QED BY <2>3, <2>4, <2>5 DEF Whole
<1> QED BY <1>1, <1>2

(* A half whose answer is not empty has room, and so has the whole.        *)
LEMMA HalfWhole ==
  ASSUME NEW T \in CubelistType, NEW best \in Vars, Missing(T, best) # {},
         NEW h \in Cubes, Parts \ var_mask[best] \subseteq h,
         h \cap var_mask[best] # {}, h \cap T.cof \cap var_mask[best] = {},
         NEW a \in Cubes, Whole(scofactor(T, h, best), a), (a \cap h) \ T.cof # {},
         Room(T), NEW s, a \cap h \subseteq s, NEW v \in Binary
  PROVE  /\ (var_mask[v] \cap s) \ T.cof # {}
         /\ Missing(T, v) = {} => var_mask[v] \ T.cof \subseteq s
<1> DEFINE S == scofactor(T, h, best)
<1>0. /\ h \subseteq Parts /\ a \subseteq Parts /\ S \in CubelistType /\ S.cof = T.cof \cup (Parts \ h)
      /\ \A l \in DOMAIN S.cubes : \E k \in DOMAIN T.cubes : S.cubes[l] = T.cubes[k]
  <2>1. h \subseteq Parts /\ a \subseteq Parts
    BY DEF Cubes
  <2>2. /\ S \in CubelistType /\ S.cof = T.cof \cup (Parts \ h)
        /\ \A l \in DOMAIN S.cubes : \E k \in DOMAIN T.cubes : S.cubes[l] = T.cubes[k]
    BY ScofactorFacts, SMTT(30)
  <2> QED BY <2>1, <2>2
<1> HIDE DEF S
<1>1. \A w \in Binary : w \in Vars /\ var_mask[w] \subseteq Parts
  BY BinaryVars, MaskFacts
<1>2. \A w \in Binary : w # best => var_mask[w] \subseteq h
  BY <1>1, OneVariable
<1>3. Room(S)
  <2> SUFFICES ASSUME NEW w \in Binary PROVE var_mask[w] \ S.cof # {}
    BY DEF Room
  <2>1. CASE w = best
    <3>1. PICK q \in h \cap var_mask[best] : TRUE
      OBVIOUS
    <3> QED BY <1>0, <2>1, <3>1
  <2>2. CASE w # best
    <3>1. PICK q \in var_mask[w] : q \notin T.cof
      BY DEF Room
    <3> QED BY <1>0, <1>2, <2>2, <3>1
  <2> QED BY <2>1, <2>2
<1>4. a \ S.cof = (a \cap h) \ T.cof
  BY <1>0
<1>5. Whole(S, a)
  BY DEF S
<1>6. /\ (var_mask[v] \cap a) \ S.cof # {}
      /\ Missing(S, v) = {} => var_mask[v] \ S.cof \subseteq a
  BY <1>3, <1>4, <1>5 DEF Whole
<1>7. (var_mask[v] \cap s) \ T.cof # {}
  <2>1. PICK q \in var_mask[v] \cap a : q \notin S.cof
    BY <1>6
  <2> QED BY <1>0, <2>1
<1>8. ASSUME Missing(T, v) = {} PROVE var_mask[v] \ T.cof \subseteq s
  <2>1. v # best /\ var_mask[v] \subseteq h
    BY <1>2, <1>8
  <2>2. Missing(S, v) = {}
    BY <1>0, <1>8 DEF Missing
  <2> QED BY <1>0, <1>6, <2>1, <2>2
<1> QED BY <1>7, <1>8

(* The smallest cube around the complement, merged from those of the two   *)
(* halves of a split.                                                      *)
LEMMA ScccSplitFacts ==
  ASSUME NEW T \in CubelistType, NEW best \in Vars, Cardinality(Missing(T, best)) >= 2,
         NEW half, half = binate_split_select(T, best),
         NEW a \in Cubes, NEW b \in Cubes,
         Inside(scofactor(T, half.left, best), a), Inside(scofactor(T, half.right, best), b),
         Whole(scofactor(T, half.left, best), a), Whole(scofactor(T, half.right, best), b),
         NEW s, s = sccc_merge(a, b, half.left, half.right)
  PROVE  s \in Cubes /\ Inside(T, s) /\ Whole(T, s)
<1> DEFINE l == half.left
           r == half.right
<1>0. /\ l \in Cubes /\ r \in Cubes
      /\ Parts \ var_mask[best] \subseteq l /\ Parts \ var_mask[best] \subseteq r
      /\ var_mask[best] \subseteq l \cup r \cup T.cof
      /\ l \cap T.cof \cap var_mask[best] = {} /\ r \cap T.cof \cap var_mask[best] = {}
      /\ l \cap var_mask[best] # {} /\ r \cap var_mask[best] # {}
  BY SplitFacts
<1>1. s = (a \cap l) \cup (b \cap r)
  BY DEF sccc_merge
<1>2. s \in Cubes
  BY <1>1 DEF Cubes
<1>3. Inside(scofactor(T, l, best), a) /\ Inside(scofactor(T, r, best), b)
      /\ Whole(scofactor(T, l, best), a) /\ Whole(scofactor(T, r, best), b)
  OBVIOUS
<1> HIDE DEF l, r
<1>4. Inside(T, s)
  <2> SUFFICES ASSUME NEW x \in Points, x \cap T.cof = {},
                      \A k \in DOMAIN T.cubes : ~ (x \subseteq T.cubes[k])
               PROVE  x \subseteq s
    BY DEF Inside
  <2>1. PICK p \in Parts : x \cap var_mask[best] = {p}
    BY PointFacts
  <2>2. p \in l \/ p \in r
    BY <1>0, <2>1
  <2>3. ASSUME NEW h \in Cubes, p \in h, Parts \ var_mask[best] \subseteq h, NEW c,
               Inside(scofactor(T, h, best), c)
        PROVE  x \subseteq c \cap h
    <3>1. x \subseteq h /\ x \cap (T.cof \cup (Parts \ h)) = {}
      BY <2>1, <2>3, PointFacts
    <3>2. /\ scofactor(T, h, best).cof = T.cof \cup (Parts \ h)
          /\ \A k \in DOMAIN scofactor(T, h, best).cubes : \E j \in DOMAIN T.cubes :
                scofactor(T, h, best).cubes[k] = T.cubes[j]
      BY ScofactorFacts
    <3>3. x \subseteq c
      BY <2>3, <3>1, <3>2 DEF Inside
    <3> QED BY <3>1, <3>3
  <2>4. p \in l => x \subseteq a \cap l
    BY <1>0, <1>3, <2>3
  <2>5. p \in r => x \subseteq b \cap r
    BY <1>0, <1>3, <2>3
  <2> QED BY <1>1, <2>2, <2>4, <2>5
<1>5. Whole(T, s)
  <2>1. Missing(T, best) # {}
    BY FS_EmptySet
  <2> SUFFICES ASSUME Room(T), s \ T.cof # {}, NEW v \in Binary
               PROVE  /\ (var_mask[v] \cap s) \ T.cof # {}
                      /\ Missing(T, v) = {} => var_mask[v] \ T.cof \subseteq s
    BY DEF Whole
  <2>2. CASE (a \cap l) \ T.cof # {}
    BY <1>0, <1>1, <1>3, <2>1, <2>2, HalfWhole
  <2>3. CASE (b \cap r) \ T.cof # {}
    BY <1>0, <1>1, <1>3, <2>1, <2>3, HalfWhole
  <2> QED BY <1>1, <2>2, <2>3
<1> QED BY <1>2, <1>4, <1>5

(* cubelist_partition: the seed shrinks until it is the intersection with  *)
(* all the cubes it is connected with, so the two blocks have no active    *)
(* variable in common.                                                     *)
Shrunk(T, seed) == {p \in seed : \A i \in Joined(T, seed) : p \in T.cubes[i]}

IsGrow(T, g) == g = [seed \in Cubes |-> IF Shrunk(T, seed) = seed THEN seed ELSE g[Shrunk(T, seed)]]

(* The closure that partitions a cubelist ends, at a set of cubes closed   *)
(* under shared variables.                                                 *)
LEMMA ShrinkingEnds ==
  ASSUME NEW T
  PROVE  /\ \E g : IsGrow(T, g)
         /\ \A g : IsGrow(T, g) =>
               \A seed \in Cubes : g[seed] \subseteq seed /\ Shrunk(T, g[seed]) = g[seed]
<1> DEFINE m == [c \in Cubes |-> Cardinality(c)]
           body(g) == [seed \in Cubes |-> IF Shrunk(T, seed) = seed THEN seed ELSE g[Shrunk(T, seed)]]
           B == [g \in [Cubes -> Cubes] |-> body(g)]
<1>1. m \in [Cubes -> Nat]
  <2>1. \A c \in Cubes : Cardinality(c) \in Nat
    BY PartsFinite, FS_CardinalityType
  <2> QED BY <2>1
<1>2. ASSUME NEW seed \in Cubes, Shrunk(T, seed) # seed
      PROVE  Shrunk(T, seed) \in Cubes /\ Shrunk(T, seed) \subseteq seed /\ m[Shrunk(T, seed)] < m[seed]
  <2>1. Shrunk(T, seed) \subseteq seed
    BY DEF Shrunk
  <2>2. Shrunk(T, seed) \in Cubes
    BY <2>1 DEF Cubes
  <2>3. Cardinality(Shrunk(T, seed)) < Cardinality(seed)
    <3>1. IsFiniteSet(seed)
      BY PartsFinite
    <3> QED BY <1>2, <2>1, <3>1, FS_Subset, FS_CardinalityType
  <2> QED BY <2>1, <2>2, <2>3
<1>3. B \in [[Cubes -> Cubes] -> [Cubes -> Cubes]]
  <2> HIDE DEF m
  <2> QED BY <1>2
<1>4. \A f \in [Cubes -> Cubes], g \in [Cubes -> Cubes], x \in Cubes :
        (\A y \in Cubes : m[y] < m[x] => f[y] = g[y]) => B[f][x] = B[g][x]
  <2> HIDE DEF m
  <2> SUFFICES ASSUME NEW f \in [Cubes -> Cubes], NEW g \in [Cubes -> Cubes], NEW x \in Cubes,
                      \A y \in Cubes : m[y] < m[x] => f[y] = g[y]
               PROVE  B[f][x] = B[g][x]
    OBVIOUS
  <2>1. B[f][x] = IF Shrunk(T, x) = x THEN x ELSE f[Shrunk(T, x)]
    OBVIOUS
  <2>2. B[g][x] = IF Shrunk(T, x) = x THEN x ELSE g[Shrunk(T, x)]
    OBVIOUS
  <2> HIDE DEF B
  <2> QED BY <1>2, <2>1, <2>2
<1>5. \E g \in [Cubes -> Cubes] : g = B[g]
  <2>1. Recursion(Cubes, Cubes, m, B)
    <3> HIDE DEF B, m
    <3>1. Cubes # {}
      BY DEF Cubes
    <3> QED BY <1>1, <1>3, <1>4, <3>1 DEF Recursion
  <2> HIDE DEF B
  <2> QED BY <2>1, MeasureRecursion
<1>6. \E g : g = body(g)
  BY <1>5
<1>7. ASSUME NEW g, g = body(g)
      PROVE  \A seed \in Cubes : g[seed] \subseteq seed /\ Shrunk(T, g[seed]) = g[seed]
  <2> DEFINE P == {seed \in Cubes : g[seed] \subseteq seed /\ Shrunk(T, g[seed]) = g[seed]}
  <2>0. \A x \in Cubes : g[x] = IF Shrunk(T, x) = x THEN x ELSE g[Shrunk(T, x)]
    BY <1>7
  <2>1. \A x \in Cubes : (\A y \in Cubes : m[y] < m[x] => y \in P) => x \in P
    <3> HIDE DEF m
    <3> SUFFICES ASSUME NEW x \in Cubes, \A y \in Cubes : m[y] < m[x] => y \in P
                 PROVE  g[x] \subseteq x /\ Shrunk(T, g[x]) = g[x]
      OBVIOUS
    <3>1. g[x] = IF Shrunk(T, x) = x THEN x ELSE g[Shrunk(T, x)]
      BY <2>0
    <3> HIDE DEF body, B
    <3> QED BY <1>2, <3>1
  <2> HIDE DEF P
  <2>2. Cubes \subseteq P
    <3> HIDE DEF m
    <3> QED BY <1>1, <2>1, MeasureInduction
  <2> QED BY <2>2 DEF P
<1> QED BY <1>6, <1>7 DEF IsGrow

(* The two halves of a partition have no active variable in common.        *)
LEMMA PartitionApart ==
  ASSUME NEW T \in CubelistType, T.cubes # <<>>, NEW split, split = cubelist_partition(T),
         NEW v \in Vars
  PROVE  Missing(split.A, v) = {} \/ Missing(split.B, v) = {}
<1>0. 1 \in DOMAIN T.cubes /\ T.cubes[1] \in Cubes
  BY ListFacts
<1>1. PICK seed \in Cubes :
        /\ split = [A |-> [T EXCEPT !.cubes = Keep(T.cubes, {1} \cup Joined(T, seed))],
                    B |-> [T EXCEPT !.cubes = Keep(T.cubes, DOMAIN T.cubes \ ({1} \cup Joined(T, seed)))]]
        /\ seed \subseteq T.cubes[1] /\ Shrunk(T, seed) = seed
  <2> DEFINE grow == CHOOSE g : IsGrow(T, g)
  <2>1. IsGrow(T, grow)
    <3>1. \E g : IsGrow(T, g)
      BY ShrinkingEnds
    <3> QED BY <3>1
  <2>2. grow[T.cubes[1]] \subseteq T.cubes[1] /\ Shrunk(T, grow[T.cubes[1]]) = grow[T.cubes[1]]
    <3> HIDE DEF grow
    <3>1. \A seed \in Cubes : grow[seed] \subseteq seed /\ Shrunk(T, grow[seed]) = grow[seed]
      BY ONLY <2>1, ShrinkingEnds
    <3> QED BY <1>0, <3>1
  <2>3. split = [A |-> [T EXCEPT !.cubes = Keep(T.cubes, {1} \cup Joined(T, grow[T.cubes[1]]))],
                 B |-> [T EXCEPT !.cubes = Keep(T.cubes, DOMAIN T.cubes \ ({1} \cup Joined(T, grow[T.cubes[1]])))]]
    BY DEF cubelist_partition, Shrunk, IsGrow
  <2>4. grow[T.cubes[1]] \in Cubes
    <3> HIDE DEF grow
    <3> QED BY <1>0, <2>2 DEF Cubes
  <2> HIDE DEF grow
  <2> QED BY <2>2, <2>3, <2>4
<1> DEFINE I == {1} \cup Joined(T, seed)
<1>2. I \in SUBSET DOMAIN T.cubes /\ DOMAIN T.cubes \ I \in SUBSET DOMAIN T.cubes
  BY <1>0 DEF Joined
<1>3. split.A = Selected(T, I) /\ split.B = Selected(T, DOMAIN T.cubes \ I)
  <2>1. split.A = [T EXCEPT !.cubes = Keep(T.cubes, I)]
        /\ split.B = [T EXCEPT !.cubes = Keep(T.cubes, DOMAIN T.cubes \ I)]
    BY <1>1
  <2> HIDE DEF I
  <2> QED BY <2>1, SelectedExcept
<1>4. \A k \in I : seed \subseteq T.cubes[k]
  BY <1>1 DEF Shrunk
<1> DEFINE J == DOMAIN T.cubes \ I
<1>5. \A k \in J : ActiveVars(T.cubes[k] \cup T.cof) \cap ActiveVars(seed \cup T.cof) = {}
  BY DEF Joined, ccommon
<1>6. J \in SUBSET DOMAIN T.cubes /\ split.B = Selected(T, J)
  BY <1>2, <1>3
<1> HIDE DEF I, J
<1>7. /\ split.A.cof = T.cof /\ split.B.cof = T.cof
      /\ \A l \in DOMAIN split.A.cubes : \E k \in I : split.A.cubes[l] = T.cubes[k]
      /\ \A l \in DOMAIN split.B.cubes : \E k \in J : split.B.cubes[l] = T.cubes[k]
  <2>1. /\ Selected(T, I).cof = T.cof
        /\ \A l \in DOMAIN Selected(T, I).cubes : \E k \in I : Selected(T, I).cubes[l] = T.cubes[k]
    BY <1>2, KeptList
  <2>2. /\ Selected(T, J).cof = T.cof
        /\ \A l \in DOMAIN Selected(T, J).cubes : \E k \in J : Selected(T, J).cubes[l] = T.cubes[k]
    BY <1>6, KeptList
  <2>3. split.A = Selected(T, I) /\ split.B = Selected(T, J)
    BY <1>3, <1>6
  <2>4. /\ split.A.cof = T.cof
        /\ \A l \in DOMAIN split.A.cubes : \E k \in I : split.A.cubes[l] = T.cubes[k]
    BY ONLY <2>1, <2>3
  <2>5. /\ split.B.cof = T.cof
        /\ \A l \in DOMAIN split.B.cubes : \E k \in J : split.B.cubes[l] = T.cubes[k]
    BY ONLY <2>2, <2>3
  <2> QED BY <2>4, <2>5
<1> SUFFICES ASSUME NEW p \in Missing(split.A, v), NEW q \in Missing(split.B, v) PROVE FALSE
  OBVIOUS
<1>8. PICK k \in I : p \notin T.cubes[k] /\ p \notin T.cof /\ p \in var_mask[v]
  BY <1>7 DEF Missing
<1>9. PICK j \in J : q \notin T.cubes[j] /\ q \notin T.cof /\ q \in var_mask[v]
  BY <1>7 DEF Missing
<1>10. v \in ActiveVars(T.cubes[j] \cup T.cof)
  BY <1>9 DEF ActiveVars
<1>11. v \in ActiveVars(seed \cup T.cof)
  BY <1>4, <1>8 DEF ActiveVars
<1> QED BY <1>5, <1>10, <1>11

(* What sccc answers for a list depends on its answers for smaller lists,  *)
LEMMA ScccLocal ==
  ASSUME NEW T \in CubelistType, NEW f, NEW g,
         \A y \in CubelistType : mu[y] < mu[T] => f[y] = g[y]
  PROVE  sccc_special_cases(T, massive_count(T), f) = sccc_special_cases(T, massive_count(T), g)
<1> DEFINE count == massive_count(T)
<1>1. CASE T.cubes = <<>> \/ HasFullRow(T)
  BY <1>1 DEF sccc_special_cases
<1>2. CASE T.cubes # <<>> /\ ~ HasFullRow(T)
  <2>1. CASE count.unate = count.active \/ Len(T.cubes) = 1
    BY <1>2, <2>1 DEF sccc_special_cases
  <2>2. CASE ~ (count.unate = count.active \/ Len(T.cubes) = 1) /\ Ceiling(T) # Parts
    <3>1. cofactor(T, Ceiling(T)) \in CubelistType /\ mu[cofactor(T, Ceiling(T))] < mu[T]
      BY <2>2, CeilingSmaller
    <3>2. f[cofactor(T, Ceiling(T))] = g[cofactor(T, Ceiling(T))]
      BY <3>1
    <3> QED BY <1>2, <2>2, <3>2 DEF sccc_special_cases, ScccCeiling
  <2>3. CASE ~ (count.unate = count.active \/ Len(T.cubes) = 1) /\ Ceiling(T) = Parts
    <3> DEFINE half == binate_split_select(T, count.best)
               sl == scofactor(T, half.left, count.best)
               sr == scofactor(T, half.right, count.best)
               split == cubelist_partition(T)
    <3>1. count.best \in Vars /\ Cardinality(Missing(T, count.best)) >= 2
      BY <2>3, BestFacts
    <3>2. sl \in CubelistType /\ sr \in CubelistType /\ mu[sl] < mu[T] /\ mu[sr] < mu[T]
      BY <3>1, SplitSmaller
    <3>3. f[sl] = g[sl] /\ f[sr] = g[sr]
      <4> HIDE DEF sl, sr
      <4> QED BY <3>2
    <3>4. ScccSplit(T, count.best, f) = ScccSplit(T, count.best, g)
      BY <3>3 DEF ScccSplit, ScccHalves
    <3>5. split.B.cubes # <<>> => f[split.A] = g[split.A] /\ f[split.B] = g[split.B]
      <4> SUFFICES ASSUME split.B.cubes # <<>> PROVE f[split.A] = g[split.A] /\ f[split.B] = g[split.B]
        OBVIOUS
      <4>1. split.A \in CubelistType /\ split.B \in CubelistType /\ mu[split.A] < mu[T] /\ mu[split.B] < mu[T]
        BY <1>2, PartitionFacts
      <4> HIDE DEF split
      <4> QED BY <4>1
    <3>6. ScccParts(T, split, count.best, f) = ScccParts(T, split, count.best, g)
      <4> HIDE DEF split, count
      <4> QED BY <3>4, <3>5 DEF ScccParts
    <3> HIDE DEF split, half, sl, sr
    <3> QED BY <1>2, <2>3, <3>4, <3>6 DEF sccc_special_cases, split
  <2> QED BY <2>1, <2>2, <2>3
<1> QED BY <1>1, <1>2

(* and has the right contents and room if they have.                       *)
LEMMA ScccBody ==
  ASSUME NEW T \in CubelistType, NEW f \in [CubelistType -> Cubes],
         \A y \in CubelistType : mu[y] < mu[T] => Inside(y, f[y]) /\ Whole(y, f[y]),
         NEW s, s = sccc_special_cases(T, massive_count(T), f)
  PROVE  s \in Cubes /\ Inside(T, s) /\ Whole(T, s)
<1> DEFINE count == massive_count(T)
<1>0. {} \in Cubes /\ Parts \in Cubes
  BY DEF Cubes
<1>1. CASE T.cubes = <<>>
  <2>1. s = Parts
    BY <1>1 DEF sccc_special_cases
  <2> QED BY <1>0, <2>1, PartsWhole
<1>2. CASE T.cubes # <<>> /\ HasFullRow(T)
  <2>1. s = {}
    BY <1>2 DEF sccc_special_cases
  <2> QED BY <1>0, <1>2, <2>1, FullRowFills, ScccFilled
<1>3. CASE T.cubes # <<>> /\ ~ HasFullRow(T)
  <2>1. CASE count.unate = count.active \/ Len(T.cubes) = 1
    <3>1. s = ScccUnate(T)
      BY <1>3, <2>1 DEF sccc_special_cases
    <3> QED BY <2>1, <3>1, ScccUnateFacts
  <2>2. CASE ~ (count.unate = count.active \/ Len(T.cubes) = 1) /\ Ceiling(T) # Parts
    <3>1. s = ScccCeiling(T, Ceiling(T), sccc_cube(Parts, Ceiling(T)), f)
      BY <1>3, <2>2 DEF sccc_special_cases
    <3>2. cofactor(T, Ceiling(T)) \in CubelistType /\ mu[cofactor(T, Ceiling(T))] < mu[T]
      BY <2>2, CeilingSmaller
    <3>3. f[cofactor(T, Ceiling(T))] \in Cubes /\ Inside(cofactor(T, Ceiling(T)), f[cofactor(T, Ceiling(T))])
      BY <3>2
    <3> QED BY <1>3, <2>2, <3>1, <3>3, ScccCeilingFacts
  <2>3. CASE ~ (count.unate = count.active \/ Len(T.cubes) = 1) /\ Ceiling(T) = Parts
             /\ Cardinality(count.active) = 1
    <3>1. s = {}
      BY <1>3, <2>3 DEF sccc_special_cases
    <3> QED BY <1>0, <2>3, <3>1, OneVariableFills, ScccFilled
  <2>4. CASE ~ (count.unate = count.active \/ Len(T.cubes) = 1) /\ Ceiling(T) = Parts
             /\ Cardinality(count.active) # 1
    <3> DEFINE half == binate_split_select(T, count.best)
               sl == scofactor(T, half.left, count.best)
               sr == scofactor(T, half.right, count.best)
               split == cubelist_partition(T)
    <3>1. count.best \in Vars /\ Cardinality(Missing(T, count.best)) >= 2
      BY <2>4, BestFacts
    <3>2. CASE s = ScccSplit(T, count.best, f)
      <4>1. sl \in CubelistType /\ sr \in CubelistType /\ mu[sl] < mu[T] /\ mu[sr] < mu[T]
        BY <3>1, SplitSmaller
      <4>2. f[sl] \in Cubes /\ f[sr] \in Cubes /\ Inside(sl, f[sl]) /\ Whole(sl, f[sl])
            /\ Inside(sr, f[sr]) /\ Whole(sr, f[sr])
        <5> HIDE DEF sl, sr
        <5> QED BY <4>1
      <4>3. s = sccc_merge(f[sl], f[sr], half.left, half.right)
        BY <3>2 DEF ScccSplit, ScccHalves
      <4> QED BY <3>1, <4>2, <4>3, ScccSplitFacts
    <3>3. CASE split.B.cubes # <<>> /\ s = f[split.A] \cap f[split.B]
      <4>1. /\ split.A \in CubelistType /\ split.B \in CubelistType
            /\ split.A.cof = T.cof /\ split.B.cof = T.cof
            /\ mu[split.A] < mu[T] /\ mu[split.B] < mu[T]
            /\ \A l \in DOMAIN split.A.cubes : \E k \in DOMAIN T.cubes : split.A.cubes[l] = T.cubes[k]
            /\ \A l \in DOMAIN split.B.cubes : \E k \in DOMAIN T.cubes : split.B.cubes[l] = T.cubes[k]
        BY <1>3, <3>3, PartitionFacts
      <4>2. \A v \in Vars : Missing(split.A, v) = {} \/ Missing(split.B, v) = {}
        BY <1>3, PartitionApart
      <4>3. s = f[split.A] \cap f[split.B]
        BY <3>3
      <4> HIDE DEF split
      <4> DEFINE a == f[split.A]
                 b == f[split.B]
      <4>4. a \in Cubes /\ b \in Cubes /\ Inside(split.A, a) /\ Whole(split.A, a)
            /\ Inside(split.B, b) /\ Whole(split.B, b) /\ s = a \cap b
        BY <4>1, <4>3
      <4> HIDE DEF a, b
      <4>5. s \in Cubes
        BY <4>4 DEF Cubes
      <4>6. Inside(T, s)
        <5>1. Inside(T, a)
          BY <4>1, <4>4 DEF Inside
        <5>2. Inside(T, b)
          BY <4>1, <4>4 DEF Inside
        <5> QED BY <4>4, <5>1, <5>2 DEF Inside
      <4>7. Whole(T, s)
        <5> SUFFICES ASSUME Room(T), s \ T.cof # {}, NEW v \in Binary
                     PROVE  /\ (var_mask[v] \cap s) \ T.cof # {}
                            /\ Missing(T, v) = {} => var_mask[v] \ T.cof \subseteq s
          BY DEF Whole
        <5>1. Room(split.A) /\ Room(split.B)
          BY <4>1 DEF Room
        <5>2. a \ split.A.cof # {} /\ b \ split.B.cof # {}
          BY <4>1, <4>4
        <5>3. /\ (var_mask[v] \cap a) \ T.cof # {} /\ (var_mask[v] \cap b) \ T.cof # {}
              /\ Missing(split.A, v) = {} => var_mask[v] \ T.cof \subseteq a
              /\ Missing(split.B, v) = {} => var_mask[v] \ T.cof \subseteq b
          BY <4>1, <4>4, <5>1, <5>2 DEF Whole
        <5>4. Missing(split.A, v) \subseteq Missing(T, v) /\ Missing(split.B, v) \subseteq Missing(T, v)
          BY <4>1 DEF Missing
        <5>5. v \in Vars
          BY BinaryVars
        <5>6. (var_mask[v] \cap s) \ T.cof # {}
          <6>1. CASE Missing(split.A, v) = {}
            BY <4>4, <5>3, <6>1
          <6>2. CASE Missing(split.B, v) = {}
            BY <4>4, <5>3, <6>2
          <6> QED BY <4>2, <5>5, <6>1, <6>2
        <5>7. ASSUME Missing(T, v) = {} PROVE var_mask[v] \ T.cof \subseteq s
          BY <4>4, <5>3, <5>4, <5>7
        <5> QED BY <5>6, <5>7
      <4> QED BY <4>5, <4>6, <4>7
    <3>4. s = ScccSplit(T, count.best, f) \/ s = ScccParts(T, split, count.best, f)
      <4> HIDE DEF split
      <4> QED BY <1>3, <2>4 DEF sccc_special_cases, split
    <3> HIDE DEF split, half, sl, sr
    <3> QED BY <3>2, <3>3, <3>4 DEF ScccParts
  <2> QED BY <2>1, <2>2, <2>3, <2>4
<1> QED BY <1>1, <1>2, <1>3

(* sccc_special_cases returns a cube whatever the smaller lists give.      *)
LEMMA ScccType ==
  ASSUME NEW T \in CubelistType, NEW f \in [CubelistType -> Cubes]
  PROVE  sccc_special_cases(T, massive_count(T), f) \in Cubes
<1> DEFINE count == massive_count(T)
<1>0. {} \in Cubes /\ Parts \in Cubes /\ ScccUnate(T) \in Cubes
  BY DEF Cubes, ScccUnate
<1>1. CASE T.cubes = <<>> \/ HasFullRow(T)
  BY <1>0, <1>1 DEF sccc_special_cases
<1>2. CASE T.cubes # <<>> /\ ~ HasFullRow(T)
  <2>1. CASE count.unate = count.active \/ Len(T.cubes) = 1
    BY <1>0, <1>2, <2>1 DEF sccc_special_cases
  <2>2. CASE ~ (count.unate = count.active \/ Len(T.cubes) = 1) /\ Ceiling(T) # Parts
    <3>1. sccc_special_cases(T, count, f) = ScccCeiling(T, Ceiling(T), sccc_cube(Parts, Ceiling(T)), f)
      BY <1>2, <2>2 DEF sccc_special_cases
    <3>2. f[cofactor(T, Ceiling(T))] \in Cubes
      BY <2>2, CeilingSmaller
    <3> QED BY <1>0, <3>1, <3>2 DEF ScccCeiling, sccc_merge, Cubes
  <2>3. CASE ~ (count.unate = count.active \/ Len(T.cubes) = 1) /\ Ceiling(T) = Parts
    <3> DEFINE half == binate_split_select(T, count.best)
               sl == scofactor(T, half.left, count.best)
               sr == scofactor(T, half.right, count.best)
               split == cubelist_partition(T)
    <3>1. count.best \in Vars /\ Cardinality(Missing(T, count.best)) >= 2
      BY <2>3, BestFacts
    <3>2. sl \in CubelistType /\ sr \in CubelistType
      BY <3>1, SplitSmaller
    <3>3. f[sl] \in Cubes /\ f[sr] \in Cubes
      <4> HIDE DEF sl, sr
      <4> QED BY <3>2
    <3>4. ScccSplit(T, count.best, f) \in Cubes
      BY <3>3 DEF ScccSplit, ScccHalves, sccc_merge, Cubes
    <3>5. split.B.cubes # <<>> => f[split.A] \in Cubes
      <4> SUFFICES ASSUME split.B.cubes # <<>> PROVE f[split.A] \in Cubes
        OBVIOUS
      <4>1. split.A \in CubelistType
        BY <1>2, PartitionFacts
      <4> HIDE DEF split
      <4> QED BY <4>1
    <3>6. ScccParts(T, split, count.best, f) \in Cubes
      <4> HIDE DEF split, count
      <4> QED BY <3>4, <3>5 DEF ScccParts, Cubes
    <3> HIDE DEF split, half, sl, sr
    <3> QED BY <1>0, <1>2, <2>3, <3>4, <3>6 DEF sccc_special_cases, split
  <2> QED BY <2>1, <2>2, <2>3
<1> QED BY <1>1, <1>2

(* sccc is what its definition says: its recursion ends.                   *)
LEMMA ScccUnfold ==
  /\ sccc \in [CubelistType -> Cubes]
  /\ \A T \in CubelistType : sccc[T] = sccc_special_cases(T, massive_count(T), sccc)
<1> DEFINE D == CubelistType
           body(f) == [T \in D |-> sccc_special_cases(T, massive_count(T), f)]
           B == [f \in [D -> Cubes] |-> body(f)]
<1>1. B \in [[D -> Cubes] -> [D -> Cubes]]
  BY ScccType
<1>2. \A f \in [D -> Cubes], g \in [D -> Cubes], T \in D :
        (\A y \in D : mu[y] < mu[T] => f[y] = g[y]) => B[f][T] = B[g][T]
  <2> SUFFICES ASSUME NEW f \in [D -> Cubes], NEW g \in [D -> Cubes], NEW T \in D,
                      \A y \in D : mu[y] < mu[T] => f[y] = g[y]
               PROVE  B[f][T] = B[g][T]
    OBVIOUS
  <2>1. sccc_special_cases(T, massive_count(T), f) = sccc_special_cases(T, massive_count(T), g)
    BY ScccLocal
  <2> QED BY <2>1
<1>3. \E f \in [D -> Cubes] : f = B[f]
  <2>1. Recursion(D, Cubes, mu, B)
    <3>1. Cubes # {}
      BY DEF Cubes
    <3> HIDE DEF B, D
    <3> QED BY <1>1, <1>2, <3>1, MuType DEF Recursion, D
  <2> HIDE DEF B, D
  <2> QED BY <2>1, MeasureRecursion
<1>4. PICK f \in [D -> Cubes] : f = body(f)
  BY <1>3
<1>5. sccc = body(sccc)
  <2>1. sccc = CHOOSE t : t = body(t)
    BY DEF sccc
  <2> HIDE DEF body
  <2> QED BY <1>4, <2>1
<1>6. \A T \in D : sccc[T] = sccc_special_cases(T, massive_count(T), sccc)
  BY <1>5
<1>7. \A T \in D : f[T] = sccc_special_cases(T, massive_count(T), f)
  BY <1>4
<1> DEFINE P == {T \in D : sccc[T] = f[T]}
<1>8. \A T \in D : (\A y \in D : mu[y] < mu[T] => y \in P) => T \in P
  <2> SUFFICES ASSUME NEW T \in D, \A y \in D : mu[y] < mu[T] => y \in P
               PROVE  sccc[T] = f[T]
    OBVIOUS
  <2>1. sccc_special_cases(T, massive_count(T), sccc) = sccc_special_cases(T, massive_count(T), f)
    <3>1. \A y \in D : mu[y] < mu[T] => sccc[y] = f[y]
      OBVIOUS
    <3> HIDE DEF body, B
    <3> QED BY <3>1, ScccLocal
  <2> QED BY <1>6, <1>7, <2>1
<1> HIDE DEF P
<1>9. D \subseteq P
  BY <1>8, MuType, MeasureInduction
<1>10. sccc \in [D -> Cubes]
  <2>1. \A T \in D : sccc[T] \in Cubes
    BY <1>9 DEF P
  <2> QED BY <1>5, <2>1
<1> QED BY <1>6, <1>10

(* The complement's supercube contains every point outside the list, and   *)
(* if it is not empty it leaves every binary variable some part.           *)
THEOREM ScccFacts ==
  ASSUME NEW T \in CubelistType
  PROVE  sccc[T] \in Cubes /\ Inside(T, sccc[T]) /\ Whole(T, sccc[T])
<1> DEFINE D == CubelistType
           P == {S \in D : Inside(S, sccc[S]) /\ Whole(S, sccc[S])}
<1>1. \A S \in D : (\A y \in D : mu[y] < mu[S] => y \in P) => S \in P
  <2> SUFFICES ASSUME NEW S \in D, \A y \in D : mu[y] < mu[S] => y \in P
               PROVE  Inside(S, sccc[S]) /\ Whole(S, sccc[S])
    OBVIOUS
  <2>1. \A y \in D : mu[y] < mu[S] => Inside(y, sccc[y]) /\ Whole(y, sccc[y])
    OBVIOUS
  <2> QED BY <2>1, ScccUnfold, ScccBody
<1> HIDE DEF P
<1>2. D \subseteq P
  BY <1>1, MuType, MeasureInduction
<1> QED BY <1>2, ScccUnfold DEF P

(* cube_is_covered, when it says yes, is right: the cube's points are in   *)
(* the two covers.                                                         *)
LEMMA ListType ==
  ASSUME NEW A \in Seq(Cubes), NEW B \in Seq(Cubes)
  PROVE  /\ cube2list(A, B) \in CubelistType /\ cube2list(A, B).cof = {}
         /\ \A k \in DOMAIN cube2list(A, B).cubes :
              \/ \E j \in DOMAIN A : cube2list(A, B).cubes[k] = A[j]
              \/ \E j \in DOMAIN B : cube2list(A, B).cubes[k] = B[j]
<1>1. cube2list(A, B) = [cof |-> {}, cubes |-> A \o B]
  BY DEF cube2list, cube1list
<1>2. A \o B \in Seq(Cubes) /\ {} \in Cubes
  BY DEF Cubes
<1>3. \A k \in DOMAIN (A \o B) : \/ \E j \in DOMAIN A : (A \o B)[k] = A[j]
                                 \/ \E j \in DOMAIN B : (A \o B)[k] = B[j]
  <2> SUFFICES ASSUME NEW k \in DOMAIN (A \o B)
               PROVE  \/ \E j \in DOMAIN A : (A \o B)[k] = A[j]
                      \/ \E j \in DOMAIN B : (A \o B)[k] = B[j]
    OBVIOUS
  <2>1. k \in 1 .. Len(A) + Len(B) /\ Len(A) \in Nat /\ Len(B) \in Nat
        /\ DOMAIN A = 1 .. Len(A) /\ DOMAIN B = 1 .. Len(B)
    OBVIOUS
  <2>2. CASE k <= Len(A)
    <3>1. k \in DOMAIN A /\ (A \o B)[k] = A[k]
      BY <2>1, <2>2
    <3> QED BY <3>1
  <2>3. CASE ~ (k <= Len(A))
    <3>1. k - Len(A) \in DOMAIN B /\ (A \o B)[k] = B[k - Len(A)]
      BY <2>1, <2>3
    <3> QED BY <3>1
  <2> QED BY <2>2, <2>3
<1> HIDE DEF cube2list
<1>4. cube2list(A, B) \in CubelistType
  BY <1>1, <1>2 DEF CubelistType
<1> QED BY <1>1, <1>3, <1>4

(* irred.c, cube_is_covered: what it calls covered is covered. Every       *)
(* point of the cube is in a cube of one of the two covers.                *)
THEOREM CubeCovered ==
  ASSUME NEW A \in Seq(Cubes), NEW B \in Seq(Cubes), NEW c \in Cubes,
         cube_is_covered(cube2list(A, B), c)
  PROVE  Pts(c) \subseteq PtsOf(A) \cup PtsOf(B)
<1> DEFINE T == cube2list(A, B)
           S == cofactor(T, c)
<1>1. /\ T \in CubelistType /\ T.cof = {}
      /\ \A k \in DOMAIN T.cubes : (\E j \in DOMAIN A : T.cubes[k] = A[j]) \/ (\E j \in DOMAIN B : T.cubes[k] = B[j])
  BY ListType
<1> HIDE DEF T
<1>0. c \in Cubes /\ T \in CubelistType
  BY <1>1
<1>a. cofactor(T, c) \in CubelistType /\ cofactor(T, c).cof = T.cof \cup (Parts \ c)
  BY ONLY <1>0, CofactorFacts
<1>b. \A l \in DOMAIN cofactor(T, c).cubes : \E k \in DOMAIN T.cubes :
        cofactor(T, c).cubes[l] = T.cubes[k] /\ cdist0(T.cubes[k], c)
  BY ONLY <1>0, CofactorFacts
<1>2. /\ S \in CubelistType /\ S.cof = T.cof \cup (Parts \ c)
      /\ \A l \in DOMAIN S.cubes : \E k \in DOMAIN T.cubes : S.cubes[l] = T.cubes[k]
  BY <1>a, <1>b
<1>3. taut[S]
  BY DEF cube_is_covered, tautology, T
<1> HIDE DEF S
<1>4. Fills(S)
  BY <1>2, <1>3, TautFills
<1> SUFFICES ASSUME NEW x \in Points, x \subseteq c PROVE x \in PtsOf(A) \cup PtsOf(B)
  BY DEF Pts
<1>5. PICK l \in DOMAIN S.cubes : x \subseteq S.cubes[l]
  BY <1>1, <1>2, <1>4 DEF Fills
<1>6. PICK k \in DOMAIN T.cubes : x \subseteq T.cubes[k]
  BY <1>2, <1>5
<1>7. (\E j \in DOMAIN A : x \subseteq A[j]) \/ (\E j \in DOMAIN B : x \subseteq B[j])
  BY <1>1, <1>6
<1> QED BY <1>7 DEF PtsOf, Pts

(* The reduction of a cube against two covers keeps the points that they   *)
(* do not have, and is empty or keeps a part in every binary variable that *)
(* the cube has one of.                                                    *)
THEOREM ReduceCubeFacts ==
  ASSUME NEW A \in Seq(Cubes), NEW B \in Seq(Cubes), NEW p \in Cubes,
         NEW s, s = reduce_cube(cube2list(A, B), p)
  PROVE  /\ s \in Cubes /\ s \subseteq p
         /\ Pts(p) \subseteq Pts(s) \cup PtsOf(A) \cup PtsOf(B)
         /\ (\A v \in Binary : p \cap var_mask[v] # {}) =>
               s = {} \/ \A v \in Binary : s \cap var_mask[v] # {}
<1> DEFINE T == cube2list(A, B)
           S == cofactor(T, p)
<1>1. /\ T \in CubelistType /\ T.cof = {}
      /\ \A k \in DOMAIN T.cubes : (\E j \in DOMAIN A : T.cubes[k] = A[j]) \/ (\E j \in DOMAIN B : T.cubes[k] = B[j])
  BY ListType
<1> HIDE DEF T
<1>0. p \in Cubes /\ T \in CubelistType
  BY <1>1
<1>a. cofactor(T, p) \in CubelistType /\ cofactor(T, p).cof = T.cof \cup (Parts \ p)
  BY ONLY <1>0, CofactorFacts
<1>b. \A l \in DOMAIN cofactor(T, p).cubes : \E k \in DOMAIN T.cubes :
        cofactor(T, p).cubes[l] = T.cubes[k] /\ cdist0(T.cubes[k], p)
  BY ONLY <1>0, CofactorFacts
<1>2. /\ S \in CubelistType /\ S.cof = T.cof \cup (Parts \ p)
      /\ \A l \in DOMAIN S.cubes : \E k \in DOMAIN T.cubes : S.cubes[l] = T.cubes[k]
  BY <1>a, <1>b
<1>3. s = sccc[S] \cap p
  BY DEF reduce_cube, T
<1> HIDE DEF S
<1>4. sccc[S] \in Cubes /\ Inside(S, sccc[S]) /\ Whole(S, sccc[S])
  BY <1>2, ScccFacts
<1>5. s \in Cubes /\ s \subseteq p
  BY <1>3 DEF Cubes
<1>6. ASSUME NEW x \in Points, x \subseteq p, x \notin PtsOf(A), x \notin PtsOf(B)
      PROVE  x \subseteq s
  <2>1. \A j \in DOMAIN A : ~ (x \subseteq A[j])
    BY <1>6 DEF PtsOf, Pts
  <2>2. \A j \in DOMAIN B : ~ (x \subseteq B[j])
    BY <1>6 DEF PtsOf, Pts
  <2>3. \A l \in DOMAIN S.cubes : ~ (x \subseteq S.cubes[l])
    BY <1>1, <1>2, <2>1, <2>2
  <2>4. x \cap S.cof = {}
    BY <1>1, <1>2, <1>6
  <2>5. x \subseteq sccc[S]
    BY <1>4, <2>3, <2>4 DEF Inside
  <2> QED BY <1>3, <1>6, <2>5
<1>7. ASSUME \A v \in Binary : p \cap var_mask[v] # {}, s # {}
      PROVE  \A v \in Binary : s \cap var_mask[v] # {}
  <2>0. \A v \in Binary : var_mask[v] \subseteq Parts
    BY BinaryVars, MaskFacts
  <2>1. p \subseteq Parts /\ sccc[S] \subseteq Parts
    BY <1>4 DEF Cubes
  <2>2. S.cof = Parts \ p
    BY <1>1, <1>2
  <2>3. Room(S)
    BY <1>7, <2>0, <2>2 DEF Room
  <2>4. sccc[S] \ S.cof = s
    BY <1>3, <2>1, <2>2
  <2>5. \A v \in Binary : (var_mask[v] \cap sccc[S]) \ S.cof # {}
    BY <1>4, <1>7, <2>3, <2>4 DEF Whole
  <2> QED BY <2>4, <2>5
<1>8. Pts(p) \subseteq Pts(s) \cup PtsOf(A) \cup PtsOf(B)
  BY <1>6 DEF Pts
<1> QED BY <1>5, <1>7, <1>8

(***************************************************************************)
(* ftautology.  The subproblems of its recursion, and what it does with    *)
(* one of them.                                                            *)
(***************************************************************************)
FtProblems(L)       == Cubes \X SUBSET (DOMAIN L)
FtStart(L, c)       == <<Parts \ L[c], {i \in DOMAIN L \ {c} : cdist0(L[i], L[c])}>>
FtList(L, x)        == [cof |-> x[1], cubes |-> Keep(L, x[2])]
FtCount(L, x)       == massive_count(FtList(L, x))
FtFull(L, x)        == {i \in x[2] : full_row(L[i], x[1])}
FtUnate(L, x)       == <<x[1], {i \in x[2] : InVars(FtCount(L, x).unate) \subseteq L[i] \cup x[1]}>>
FtSide(L, x, h)     == <<x[1] \cup (Parts \ h),
                         {i \in x[2] : L[i] \cap h \cap var_mask[FtCount(L, x).best] # {}}>>
FtHalf(L, x)        == binate_split_select(FtList(L, x), FtCount(L, x).best)
FtRows(L, redund, c, x, rows) ==
  IF \E i \in FtFull(L, x) : i < redund THEN <<>>
  ELSE IF FtCount(L, x).unate = FtCount(L, x).active THEN <<{c} \cup FtFull(L, x)>>
  ELSE IF FtCount(L, x).unate # {} THEN rows[FtUnate(L, x)]
  ELSE rows[FtSide(L, x, FtHalf(L, x).left)] \o rows[FtSide(L, x, FtHalf(L, x).right)]
FtSize(L) == [x \in FtProblems(L) |-> Cardinality(Parts \ x[1]) + Cardinality(x[2])]

(* The subproblems get smaller.                                            *)
LEMMA FtSmaller ==
  ASSUME NEW L \in Seq(Cubes), NEW x \in FtProblems(L), NEW y \in FtProblems(L),
         x[1] \subseteq y[1], y[2] \subseteq x[2], x[1] # y[1] \/ x[2] # y[2]
  PROVE  FtSize(L)[y] < FtSize(L)[x] /\ FtSize(L)[x] \in Nat /\ FtSize(L)[y] \in Nat
<1>1. /\ x[1] \subseteq Parts /\ y[1] \subseteq Parts
      /\ x[2] \subseteq DOMAIN L /\ y[2] \subseteq DOMAIN L
  BY DEF FtProblems, Cubes
<1>2. IsFiniteSet(Parts) /\ IsFiniteSet(DOMAIN L)
  BY PartsFinite, PositionsFinite
<1>3. /\ IsFiniteSet(Parts \ x[1]) /\ IsFiniteSet(Parts \ y[1]) /\ IsFiniteSet(x[2]) /\ IsFiniteSet(y[2])
  BY <1>1, <1>2, FS_Subset
<1>4. /\ Cardinality(Parts \ x[1]) \in Nat /\ Cardinality(Parts \ y[1]) \in Nat
      /\ Cardinality(x[2]) \in Nat /\ Cardinality(y[2]) \in Nat
  BY <1>3, FS_CardinalityType
<1>5. Cardinality(Parts \ y[1]) <= Cardinality(Parts \ x[1]) /\ Cardinality(y[2]) <= Cardinality(x[2])
  BY <1>3, FS_Subset
<1>6. ASSUME x[1] # y[1] PROVE Cardinality(Parts \ y[1]) < Cardinality(Parts \ x[1])
  <2>1. Parts \ y[1] # Parts \ x[1] /\ Parts \ y[1] \subseteq Parts \ x[1]
    BY <1>1, <1>6
  <2> QED BY <1>3, <1>4, <2>1, FS_Subset
<1>7. ASSUME x[2] # y[2] PROVE Cardinality(y[2]) < Cardinality(x[2])
  BY <1>3, <1>4, <1>7, FS_Subset
<1>8. /\ FtSize(L)[x] = Cardinality(Parts \ x[1]) + Cardinality(x[2])
      /\ FtSize(L)[y] = Cardinality(Parts \ y[1]) + Cardinality(y[2])
  BY DEF FtSize
<1> QED BY <1>4, <1>5, <1>6, <1>7, <1>8

(* The size of a subproblem is a number.                                   *)
LEMMA FtSizeType ==
  ASSUME NEW L \in Seq(Cubes) PROVE FtSize(L) \in [FtProblems(L) -> Nat]
<1>1. ASSUME NEW x \in FtProblems(L) PROVE Cardinality(Parts \ x[1]) + Cardinality(x[2]) \in Nat
  <2>1. x[2] \subseteq DOMAIN L
    BY DEF FtProblems
  <2>2. IsFiniteSet(Parts \ x[1]) /\ IsFiniteSet(x[2])
    BY <2>1, PartsFinite, PositionsFinite, FS_Subset
  <2>3. Cardinality(Parts \ x[1]) \in Nat /\ Cardinality(x[2]) \in Nat
    BY <2>2, FS_CardinalityType
  <2> QED BY <2>3
<1> QED BY <1>1 DEF FtSize

(* The cubelist of a subproblem.                                           *)
LEMMA FtListFacts ==
  ASSUME NEW L \in Seq(Cubes), NEW x \in FtProblems(L)
  PROVE  /\ FtList(L, x) \in CubelistType /\ FtList(L, x).cof = x[1]
         /\ \A k \in DOMAIN FtList(L, x).cubes : \E i \in x[2] : FtList(L, x).cubes[k] = L[i]
<1>1. x[1] \in Cubes /\ x[2] \in SUBSET DOMAIN L
  BY DEF FtProblems
<1>2. /\ Keep(L, x[2]) \in Seq(Cubes)
      /\ \A k \in DOMAIN Keep(L, x[2]) : \E i \in x[2] : Keep(L, x[2])[k] = L[i]
  BY <1>1, KeepFacts
<1> QED BY <1>1, <1>2 DEF FtList, CubelistType

(* Fixing the unate variables makes a subproblem smaller.                  *)
LEMMA FtUnateSmaller ==
  ASSUME NEW L \in Seq(Cubes), NEW x \in FtProblems(L), FtCount(L, x).unate # {}
  PROVE  /\ FtUnate(L, x) \in FtProblems(L)
         /\ FtUnate(L, x)[1] = x[1] /\ FtUnate(L, x)[2] \subseteq x[2]
         /\ FtSize(L)[FtUnate(L, x)] < FtSize(L)[x]
<1> DEFINE T == FtList(L, x)
           J == {i \in x[2] : InVars(FtCount(L, x).unate) \subseteq L[i] \cup x[1]}
<1>1. T \in CubelistType /\ T.cof = x[1]
      /\ \A k \in DOMAIN T.cubes : \E i \in x[2] : T.cubes[k] = L[i]
  BY FtListFacts
<1>2. PICK v \in Vars : v \in FtCount(L, x).unate /\ Cardinality(Missing(T, v)) = 1
  <2> HIDE DEF T
  <2>1. massive_count(T).unate # {}
    BY DEF T, FtCount
  <2>2. massive_count(T).unate = {v \in Vars : Cardinality(Missing(T, v)) = 1}
    BY <1>1, SummaryFacts
  <2> QED BY <2>1, <2>2 DEF T, FtCount
<1> HIDE DEF T
<1>3. PICK p \in Missing(T, v) : TRUE
  BY <1>1, <1>2, ListFacts, FS_EmptySet
<1>4. PICK k \in DOMAIN T.cubes : p \notin T.cubes[k] /\ p \notin T.cof /\ p \in var_mask[v]
  BY <1>3 DEF Missing
<1>5. PICK i \in x[2] : T.cubes[k] = L[i]
  BY <1>1
<1>6. i \notin J
  BY <1>1, <1>2, <1>4, <1>5 DEF InVars
<1>7. J \subseteq x[2] /\ J # x[2] /\ FtUnate(L, x) = <<x[1], J>>
  BY <1>5, <1>6 DEF FtUnate
<1> HIDE DEF J
<1>8. FtUnate(L, x) \in FtProblems(L) /\ FtUnate(L, x)[1] = x[1] /\ FtUnate(L, x)[2] = J
  BY <1>7 DEF FtProblems
<1> QED BY <1>7, <1>8, FtSmaller

(* Both sides of a split are smaller, and each point is on one of them.    *)
LEMMA FtSideSmaller ==
  ASSUME NEW L \in Seq(Cubes), NEW x \in FtProblems(L), FtCount(L, x).unate # FtCount(L, x).active
  PROVE  /\ FtSide(L, x, FtHalf(L, x).left) \in FtProblems(L)
         /\ FtSide(L, x, FtHalf(L, x).right) \in FtProblems(L)
         /\ FtSide(L, x, FtHalf(L, x).left)[2] \subseteq x[2]
         /\ FtSide(L, x, FtHalf(L, x).right)[2] \subseteq x[2]
         /\ FtSize(L)[FtSide(L, x, FtHalf(L, x).left)] < FtSize(L)[x]
         /\ FtSize(L)[FtSide(L, x, FtHalf(L, x).right)] < FtSize(L)[x]
         /\ \A q \in Points : q \cap x[1] = {} =>
              \/ q \cap FtSide(L, x, FtHalf(L, x).left)[1] = {}
              \/ q \cap FtSide(L, x, FtHalf(L, x).right)[1] = {}
<1> DEFINE T == FtList(L, x)
           best == FtCount(L, x).best
           l == FtHalf(L, x).left
           r == FtHalf(L, x).right
<1>1. T \in CubelistType /\ T.cof = x[1]
  BY FtListFacts
<1> HIDE DEF T
<1>2. best \in Vars /\ Cardinality(Missing(T, best)) >= 2
  <2>1. massive_count(T).unate # massive_count(T).active /\ best = massive_count(T).best
    BY DEF T, FtCount
  <2> HIDE DEF best
  <2> QED BY <1>1, <2>1, BestFacts
<1>3. FtHalf(L, x) = binate_split_select(T, best)
  BY DEF FtHalf, T
<1> HIDE DEF best
<1>4. /\ l \in Cubes /\ r \in Cubes
      /\ Parts \ var_mask[best] \subseteq l /\ Parts \ var_mask[best] \subseteq r
      /\ var_mask[best] \subseteq l \cup r \cup T.cof
      /\ l \cap r \cap var_mask[best] = {}
      /\ l \cap T.cof \cap var_mask[best] = {} /\ r \cap T.cof \cap var_mask[best] = {}
      /\ l \cap var_mask[best] # {} /\ r \cap var_mask[best] # {}
  BY <1>1, <1>2, <1>3, SplitFacts
<1> HIDE DEF l, r
<1>5. /\ x[1] \cup (Parts \ l) # x[1]
      /\ x[1] \cup (Parts \ r) # x[1]
  <2>1. PICK p \in r \cap var_mask[best] : TRUE
    BY <1>4
  <2>2. p \in Parts /\ p \notin l /\ p \notin T.cof
    BY <1>4, <2>1 DEF Cubes
  <2>3. PICK q \in l \cap var_mask[best] : TRUE
    BY <1>4
  <2>4. q \in Parts /\ q \notin r /\ q \notin T.cof
    BY <1>4, <2>3 DEF Cubes
  <2> QED BY <1>1, <2>2, <2>4
<1>6. ASSUME NEW h \in Cubes, x[1] \cup (Parts \ h) # x[1]
      PROVE  /\ FtSide(L, x, h) \in FtProblems(L)
             /\ FtSide(L, x, h)[1] = x[1] \cup (Parts \ h) /\ FtSide(L, x, h)[2] \subseteq x[2]
             /\ FtSize(L)[FtSide(L, x, h)] < FtSize(L)[x]
  <2> DEFINE J == {i \in x[2] : L[i] \cap h \cap var_mask[FtCount(L, x).best] # {}}
  <2>1. FtSide(L, x, h) = <<x[1] \cup (Parts \ h), J>> /\ J \subseteq x[2]
    BY DEF FtSide
  <2> HIDE DEF J
  <2>2. x[1] \in Cubes /\ x[2] \in SUBSET DOMAIN L
    BY DEF FtProblems
  <2>3. x[1] \cup (Parts \ h) \in Cubes
    BY <2>2 DEF Cubes
  <2>a. J \in SUBSET DOMAIN L
    BY <2>1, <2>2
  <2> DEFINE cof == x[1] \cup (Parts \ h)
  <2>b. cof \in Cubes /\ FtSide(L, x, h) = <<cof, J>>
    BY <2>1, <2>3
  <2> HIDE DEF cof
  <2>c. <<cof, J>> \in FtProblems(L) /\ <<cof, J>>[1] = cof /\ <<cof, J>>[2] = J
    BY <2>a, <2>b DEF FtProblems
  <2>4. FtSide(L, x, h) \in FtProblems(L) /\ FtSide(L, x, h)[1] = x[1] \cup (Parts \ h) /\ FtSide(L, x, h)[2] = J
    BY <2>b, <2>c DEF cof
  <2>5. FtSize(L)[FtSide(L, x, h)] < FtSize(L)[x]
    BY <1>6, <2>1, <2>4, FtSmaller
  <2> QED BY <2>1, <2>4, <2>5
<1>7. /\ FtSide(L, x, l) \in FtProblems(L)
      /\ FtSide(L, x, l)[1] = x[1] \cup (Parts \ l) /\ FtSide(L, x, l)[2] \subseteq x[2]
      /\ FtSize(L)[FtSide(L, x, l)] < FtSize(L)[x]
  BY <1>4, <1>5, <1>6
<1>8. /\ FtSide(L, x, r) \in FtProblems(L)
      /\ FtSide(L, x, r)[1] = x[1] \cup (Parts \ r) /\ FtSide(L, x, r)[2] \subseteq x[2]
      /\ FtSize(L)[FtSide(L, x, r)] < FtSize(L)[x]
  BY <1>4, <1>5, <1>6
<1>9. ASSUME NEW q \in Points, q \cap x[1] = {}
      PROVE  q \cap (x[1] \cup (Parts \ l)) = {} \/ q \cap (x[1] \cup (Parts \ r)) = {}
  <2>1. PICK p \in Parts : q \cap var_mask[best] = {p}
    BY <1>2, PointFacts
  <2>2. p \in l \/ p \in r
    BY <1>1, <1>4, <1>9, <2>1
  <2> QED BY <1>4, <1>9, <2>1, <2>2
<1> QED BY <1>7, <1>8, <1>9 DEF l, r

(* What ftautology makes of a subproblem depends on smaller ones.          *)
LEMMA FtLocal ==
  ASSUME NEW L \in Seq(Cubes), NEW redund, NEW c \in DOMAIN L, NEW x \in FtProblems(L),
         NEW f, NEW g,
         \A y \in FtProblems(L) :
            FtSize(L)[y] < FtSize(L)[x] => f[y] = g[y] /\ f[y] \in Seq(SUBSET DOMAIN L)
  PROVE  /\ FtRows(L, redund, c, x, f) = FtRows(L, redund, c, x, g)
         /\ FtRows(L, redund, c, x, f) \in Seq(SUBSET DOMAIN L)
<1> DEFINE u == FtUnate(L, x)
           l == FtSide(L, x, FtHalf(L, x).left)
           r == FtSide(L, x, FtHalf(L, x).right)
<1>1. CASE \E i \in FtFull(L, x) : i < redund
  BY <1>1 DEF FtRows
<1>2. CASE ~ (\E i \in FtFull(L, x) : i < redund) /\ FtCount(L, x).unate = FtCount(L, x).active
  <2>1. FtFull(L, x) \subseteq DOMAIN L
    BY DEF FtFull, FtProblems
  <2>2. <<{c} \cup FtFull(L, x)>> \in Seq(SUBSET DOMAIN L)
    BY <2>1
  <2> QED BY <1>2, <2>2 DEF FtRows
<1>3. CASE /\ ~ (\E i \in FtFull(L, x) : i < redund)
           /\ FtCount(L, x).unate # FtCount(L, x).active /\ FtCount(L, x).unate # {}
  <2>1. u \in FtProblems(L) /\ FtSize(L)[u] < FtSize(L)[x]
    BY <1>3, FtUnateSmaller
  <2>2. FtRows(L, redund, c, x, f) = f[u] /\ FtRows(L, redund, c, x, g) = g[u]
    BY <1>3 DEF FtRows
  <2> HIDE DEF u
  <2> QED BY <2>1, <2>2
<1>4. CASE /\ ~ (\E i \in FtFull(L, x) : i < redund)
           /\ FtCount(L, x).unate # FtCount(L, x).active /\ FtCount(L, x).unate = {}
  <2>1. l \in FtProblems(L) /\ FtSize(L)[l] < FtSize(L)[x]
        /\ r \in FtProblems(L) /\ FtSize(L)[r] < FtSize(L)[x]
    BY <1>4, FtSideSmaller
  <2>2. FtRows(L, redund, c, x, f) = f[l] \o f[r] /\ FtRows(L, redund, c, x, g) = g[l] \o g[r]
    BY <1>4 DEF FtRows
  <2> HIDE DEF l, r
  <2>3. f[l] = g[l] /\ f[r] = g[r] /\ f[l] \in Seq(SUBSET DOMAIN L) /\ f[r] \in Seq(SUBSET DOMAIN L)
    BY <2>1
  <2>4. f[l] \o f[r] \in Seq(SUBSET DOMAIN L)
    BY <2>3
  <2> QED BY <2>2, <2>3, <2>4
<1> QED BY <1>1, <1>2, <1>3, <1>4

(* Its recursion ends.                                                     *)
LEMMA FtUnfold ==
  ASSUME NEW L \in Seq(Cubes), NEW redund, NEW c \in DOMAIN L
  PROVE  \E rows \in [FtProblems(L) -> Seq(SUBSET DOMAIN L)] :
           /\ \A x \in FtProblems(L) : rows[x] = FtRows(L, redund, c, x, rows)
           /\ ftautology(L, redund, c) = rows[FtStart(L, c)]
<1> DEFINE S == FtProblems(L)
           V == Seq(SUBSET DOMAIN L)
           body(f) == [x \in S |-> FtRows(L, redund, c, x, f)]
           B == [f \in [S -> V] |-> body(f)]
<1>1. \A f \in [S -> V], x \in S : FtRows(L, redund, c, x, f) \in V
  <2> SUFFICES ASSUME NEW f \in [S -> V], NEW x \in S PROVE FtRows(L, redund, c, x, f) \in V
    OBVIOUS
  <2> QED BY FtLocal
<1>2. B \in [[S -> V] -> [S -> V]]
  BY <1>1
<1>3. \A f \in [S -> V], g \in [S -> V], x \in S :
        (\A y \in S : FtSize(L)[y] < FtSize(L)[x] => f[y] = g[y]) => B[f][x] = B[g][x]
  <2> SUFFICES ASSUME NEW f \in [S -> V], NEW g \in [S -> V], NEW x \in S,
                      \A y \in S : FtSize(L)[y] < FtSize(L)[x] => f[y] = g[y]
               PROVE  B[f][x] = B[g][x]
    OBVIOUS
  <2>1. \A y \in S : FtSize(L)[y] < FtSize(L)[x] => f[y] = g[y] /\ f[y] \in V
    OBVIOUS
  <2>2. FtRows(L, redund, c, x, f) = FtRows(L, redund, c, x, g)
    BY <2>1, FtLocal
  <2> QED BY <2>2
<1>4. <<>> \in V
  OBVIOUS
<1>5. FtSize(L) \in [S -> Nat]
  BY FtSizeType
<1> DEFINE m == FtSize(L)
<1>6. \E f \in [S -> V] : f = B[f]
  <2>1. Recursion(S, V, m, B)
    <3> HIDE DEF B, S, V, m
    <3> QED BY <1>2, <1>3, <1>4, <1>5 DEF Recursion, m
  <2> HIDE DEF B, S, V, m
  <2> QED BY <2>1, MeasureRecursion
<1>7. PICK f \in [S -> V] : f = body(f)
  BY <1>6
<1> DEFINE rows == CHOOSE t : t = body(t)
<1>8. rows = body(rows)
  <2> HIDE DEF body
  <2> QED BY <1>7
<1>9. ftautology(L, redund, c) = rows[FtStart(L, c)]
  BY DEF ftautology, FtStart, FtProblems, FtRows, FtFull, FtUnate, FtSide, FtHalf, FtCount, FtList
<1> HIDE DEF rows
<1>10. \A x \in S : rows[x] = FtRows(L, redund, c, x, rows)
  BY <1>8
<1>11. S \subseteq {x \in S : rows[x] \in V}
  <2> DEFINE P == {x \in S : rows[x] \in V}
  <2>1. ASSUME NEW x \in S, \A y \in S : m[y] < m[x] => y \in P PROVE x \in P
    <3>1. \A y \in S : FtSize(L)[y] < FtSize(L)[x] => rows[y] = rows[y] /\ rows[y] \in V
      BY <2>1
    <3>2. FtRows(L, redund, c, x, rows) \in V
      BY <3>1, FtLocal
    <3> QED BY <3>2, <1>10
  <2> HIDE DEF P, S, m
  <2>2. m \in [S -> Nat]
    BY <1>5 DEF m
  <2>3. S \subseteq P
    BY <2>1, <2>2, MeasureInduction
  <2> QED BY <2>3 DEF P
<1>12. rows = [x \in S |-> FtRows(L, redund, c, x, rows)]
  BY <1>8
<1>13. rows \in [S -> V]
  BY <1>11, <1>12
<1> QED BY <1>9, <1>10, <1>13

(* What is in the concatenation of two sequences.                          *)
LEMMA JoinFacts ==
  ASSUME NEW T, NEW A \in Seq(T), NEW B \in Seq(T)
  PROVE  /\ A \o B \in Seq(T) /\ Len(A \o B) = Len(A) + Len(B)
         /\ \A n \in DOMAIN (A \o B) : \/ n \in DOMAIN A /\ (A \o B)[n] = A[n]
                                      \/ \E m \in DOMAIN B : (A \o B)[n] = B[m]
         /\ \A n \in DOMAIN A : n \in DOMAIN (A \o B) /\ (A \o B)[n] = A[n]
         /\ \A m \in DOMAIN B : \E n \in DOMAIN (A \o B) : (A \o B)[n] = B[m]
<1>1. A \o B \in Seq(T) /\ Len(A \o B) = Len(A) + Len(B)
      /\ DOMAIN A = 1 .. Len(A) /\ DOMAIN B = 1 .. Len(B) /\ Len(A) \in Nat /\ Len(B) \in Nat
      /\ DOMAIN (A \o B) = 1 .. Len(A) + Len(B)
  OBVIOUS
<1>2. \A n \in DOMAIN A : n \in DOMAIN (A \o B) /\ (A \o B)[n] = A[n]
  BY <1>1
<1>3. ASSUME NEW m \in DOMAIN B
      PROVE  Len(A) + m \in DOMAIN (A \o B) /\ (A \o B)[Len(A) + m] = B[m]
  BY <1>1
<1>4. ASSUME NEW n \in DOMAIN (A \o B), n \notin DOMAIN A
      PROVE  \E m \in DOMAIN B : (A \o B)[n] = B[m]
  <2>1. n - Len(A) \in DOMAIN B /\ n = Len(A) + (n - Len(A))
    BY <1>1, <1>4
  <2> QED BY <1>3, <2>1
<1> QED BY <1>1, <1>2, <1>3, <1>4

(* The rows of a subproblem name c and redundant cubes of it.  A point in  *)
(* reach is in a cube that is not redundant, or in every cube, c apart,    *)
(* that some row names.                                                    *)
FtSound(L, redund, c, x, row) ==
  /\ \A n \in DOMAIN row : /\ c \in row[n]
                           /\ \A k \in row[n] : k = c \/ (k \in x[2] /\ k >= redund)
  /\ \A q \in Points : q \cap x[1] = {} =>
       \/ \E k \in x[2] : k < redund /\ q \subseteq L[k]
       \/ \E n \in DOMAIN row : \A k \in row[n] \ {c} : q \subseteq L[k]

(* One subproblem, from those it is split into.                            *)
LEMMA FtStep ==
  ASSUME NEW L \in Seq(Cubes), NEW redund \in Nat, NEW c \in DOMAIN L, NEW x \in FtProblems(L),
         NEW rows \in [FtProblems(L) -> Seq(SUBSET DOMAIN L)],
         \A y \in FtProblems(L) : FtSize(L)[y] < FtSize(L)[x] => FtSound(L, redund, c, y, rows[y])
  PROVE  FtSound(L, redund, c, x, FtRows(L, redund, c, x, rows))
<1> DEFINE u == FtUnate(L, x)
           l == FtSide(L, x, FtHalf(L, x).left)
           r == FtSide(L, x, FtHalf(L, x).right)
           full == FtFull(L, x)
<1>0. /\ x[1] \in Cubes /\ x[2] \subseteq DOMAIN L /\ DOMAIN L \subseteq Nat
      /\ full \subseteq x[2]
      /\ \A k \in full, q \in Points : q \cap x[1] = {} => q \subseteq L[k]
  <2>1. x[1] \in Cubes /\ x[2] \subseteq DOMAIN L /\ DOMAIN L \subseteq Nat
    BY DEF FtProblems
  <2>2. full \subseteq x[2]
    BY DEF FtFull
  <2>3. \A k \in full, q \in Points : q \cap x[1] = {} => q \subseteq L[k]
    <3> SUFFICES ASSUME NEW k \in full, NEW q \in Points, q \cap x[1] = {} PROVE q \subseteq L[k]
      OBVIOUS
    <3>1. L[k] \cup x[1] = Parts
      BY DEF FtFull, full_row
    <3>2. q \subseteq Parts
      BY PointFacts DEF Points, Cubes
    <3> QED BY <3>1, <3>2
  <2> QED BY <2>1, <2>2, <2>3
<1>1. CASE \E k \in full : k < redund
  <2>1. FtRows(L, redund, c, x, rows) = <<>>
    BY <1>1 DEF FtRows
  <2>2. FtSound(L, redund, c, x, <<>>)
    BY <1>0, <1>1 DEF FtSound
  <2> QED BY <2>1, <2>2
<1>2. CASE ~ (\E k \in full : k < redund) /\ FtCount(L, x).unate = FtCount(L, x).active
  <2>1. FtRows(L, redund, c, x, rows) = <<{c} \cup full>>
    BY <1>2 DEF FtRows
  <2> HIDE DEF full
  <2> DEFINE row == <<{c} \cup full>>
  <2>2. DOMAIN row = {1} /\ row[1] = {c} \cup full
    OBVIOUS
  <2> HIDE DEF row
  <2>3. \A k \in full : k >= redund
    BY <1>0, <1>2
  <2>4. \A q \in Points : q \cap x[1] = {} => \A k \in row[1] \ {c} : q \subseteq L[k]
    BY <1>0, <2>2
  <2>5. FtSound(L, redund, c, x, row)
    BY <1>0, <2>2, <2>3, <2>4 DEF FtSound
  <2> QED BY <2>1, <2>5 DEF row
<1>3. CASE /\ ~ (\E k \in full : k < redund)
           /\ FtCount(L, x).unate # FtCount(L, x).active /\ FtCount(L, x).unate # {}
  <2>1. u \in FtProblems(L) /\ FtSize(L)[u] < FtSize(L)[x] /\ u[1] = x[1] /\ u[2] \subseteq x[2]
    BY <1>3, FtUnateSmaller
  <2>2. FtRows(L, redund, c, x, rows) = rows[u]
    BY <1>3 DEF FtRows
  <2> HIDE DEF u, full
  <2>3. FtSound(L, redund, c, u, rows[u])
    BY <2>1
  <2>4. FtSound(L, redund, c, x, rows[u])
    BY <2>1, <2>3 DEF FtSound
  <2> QED BY <2>2, <2>4
<1>4. CASE /\ ~ (\E k \in full : k < redund)
           /\ FtCount(L, x).unate # FtCount(L, x).active /\ FtCount(L, x).unate = {}
  <2>1. /\ l \in FtProblems(L) /\ FtSize(L)[l] < FtSize(L)[x] /\ l[2] \subseteq x[2]
        /\ r \in FtProblems(L) /\ FtSize(L)[r] < FtSize(L)[x] /\ r[2] \subseteq x[2]
        /\ \A q \in Points : q \cap x[1] = {} => q \cap l[1] = {} \/ q \cap r[1] = {}
    BY <1>4, FtSideSmaller
  <2>2. FtRows(L, redund, c, x, rows) = rows[l] \o rows[r]
    BY <1>4 DEF FtRows
  <2> HIDE DEF l, r, full
  <2>3. FtSound(L, redund, c, l, rows[l]) /\ FtSound(L, redund, c, r, rows[r])
    BY <2>1
  <2> DEFINE all == rows[l] \o rows[r]
  <2>4. /\ \A n \in DOMAIN all : \/ n \in DOMAIN rows[l] /\ all[n] = rows[l][n]
                                 \/ \E m \in DOMAIN rows[r] : all[n] = rows[r][m]
        /\ \A n \in DOMAIN rows[l] : n \in DOMAIN all /\ all[n] = rows[l][n]
        /\ \A m \in DOMAIN rows[r] : \E n \in DOMAIN all : all[n] = rows[r][m]
    <3>1. rows[l] \in Seq(SUBSET DOMAIN L) /\ rows[r] \in Seq(SUBSET DOMAIN L)
      BY <2>1
    <3> DEFINE V == SUBSET DOMAIN L
               A == rows[l]
               B == rows[r]
    <3>2. A \in Seq(V) /\ B \in Seq(V)
      BY <3>1
    <3> HIDE DEF V, A, B
    <3>3. /\ \A n \in DOMAIN (A \o B) : \/ n \in DOMAIN A /\ (A \o B)[n] = A[n]
                                       \/ \E m \in DOMAIN B : (A \o B)[n] = B[m]
          /\ \A n \in DOMAIN A : n \in DOMAIN (A \o B) /\ (A \o B)[n] = A[n]
          /\ \A m \in DOMAIN B : \E n \in DOMAIN (A \o B) : (A \o B)[n] = B[m]
      <4>1. \A n \in DOMAIN (A \o B) : \/ n \in DOMAIN A /\ (A \o B)[n] = A[n]
                                      \/ \E m \in DOMAIN B : (A \o B)[n] = B[m]
        BY <3>2, JoinFacts
      <4>2. \A n \in DOMAIN A : n \in DOMAIN (A \o B) /\ (A \o B)[n] = A[n]
        BY <3>2, JoinFacts
      <4>3. \A m \in DOMAIN B : \E n \in DOMAIN (A \o B) : (A \o B)[n] = B[m]
        BY <3>2, JoinFacts, SMTT(30)
      <4> QED BY <4>1, <4>2, <4>3
    <3> QED BY <3>3 DEF A, B
  <2> HIDE DEF all
  <2>5. ASSUME NEW n \in DOMAIN all
        PROVE  c \in all[n] /\ \A k \in all[n] : k = c \/ (k \in x[2] /\ k >= redund)
    <3>1. CASE n \in DOMAIN rows[l] /\ all[n] = rows[l][n]
      BY <2>1, <2>3, <3>1 DEF FtSound
    <3>2. CASE \E m \in DOMAIN rows[r] : all[n] = rows[r][m]
      BY <2>1, <2>3, <3>2 DEF FtSound
    <3> QED BY <2>4, <3>1, <3>2
  <2>6. ASSUME NEW q \in Points, q \cap x[1] = {},
               ~ \E k \in x[2] : k < redund /\ q \subseteq L[k]
        PROVE  \E n \in DOMAIN all : \A k \in all[n] \ {c} : q \subseteq L[k]
    <3>1. CASE q \cap l[1] = {}
      <4>1. PICK n \in DOMAIN rows[l] : \A k \in rows[l][n] \ {c} : q \subseteq L[k]
        BY <2>1, <2>3, <2>6, <3>1 DEF FtSound
      <4> QED BY <2>4, <4>1
    <3>2. CASE q \cap r[1] = {}
      <4>1. PICK n \in DOMAIN rows[r] : \A k \in rows[r][n] \ {c} : q \subseteq L[k]
        BY <2>1, <2>3, <2>6, <3>2 DEF FtSound
      <4> QED BY <2>4, <4>1
    <3> QED BY <2>1, <2>6, <3>1, <3>2
  <2>7. FtSound(L, redund, c, x, all)
    BY <2>5, <2>6 DEF FtSound
  <2> QED BY <2>2, <2>7 DEF all
<1> QED BY <1>1, <1>2, <1>3, <1>4

(* irred.c, ftautology: the rows for the cube at c name it and cubes from  *)
(* position redund on; a point of the cube is in a cube before redund or   *)
(* in every other cube that some row names.                                *)
THEOREM FtautologySound ==
  ASSUME NEW L \in Seq(Cubes), NEW redund \in Nat, NEW c \in DOMAIN L
  PROVE  /\ ftautology(L, redund, c) \in Seq(SUBSET DOMAIN L)
         /\ \A n \in DOMAIN ftautology(L, redund, c) :
              /\ c \in ftautology(L, redund, c)[n]
              /\ \A k \in ftautology(L, redund, c)[n] : k = c \/ k >= redund
         /\ \A q \in Pts(L[c]) :
              \/ \E k \in DOMAIN L : k < redund /\ q \subseteq L[k]
              \/ \E n \in DOMAIN ftautology(L, redund, c) :
                    \A k \in ftautology(L, redund, c)[n] \ {c} : q \subseteq L[k]
<1> DEFINE S == FtProblems(L)
           m == FtSize(L)
           x == FtStart(L, c)
<1>1. PICK rows \in [S -> Seq(SUBSET DOMAIN L)] :
        /\ \A y \in S : rows[y] = FtRows(L, redund, c, y, rows)
        /\ ftautology(L, redund, c) = rows[x]
  BY FtUnfold
<1> DEFINE P == {y \in S : FtSound(L, redund, c, y, rows[y])}
<1>2. ASSUME NEW y \in S, \A z \in S : m[z] < m[y] => z \in P PROVE y \in P
  <2>1. FtSound(L, redund, c, y, FtRows(L, redund, c, y, rows))
    <3>1. \A z \in FtProblems(L) : FtSize(L)[z] < FtSize(L)[y] => FtSound(L, redund, c, z, rows[z])
      BY <1>2
    <3> QED BY <3>1, FtStep
  <2> QED BY <1>1, <2>1
<1>3. m \in [S -> Nat]
  BY FtSizeType
<1>4. S \subseteq P
  <2> HIDE DEF P, S, m
  <2> QED BY <1>2, <1>3, MeasureInduction
<1>5. x \in S /\ x[1] = Parts \ L[c] /\ x[2] \subseteq DOMAIN L
  BY DEF FtProblems, FtStart, Cubes
<1> HIDE DEF x
<1>6. FtSound(L, redund, c, x, rows[x])
  BY <1>4, <1>5
<1>7. \A q \in Pts(L[c]) : q \in Points /\ q \cap x[1] = {}
  BY <1>5 DEF Pts
<1> QED BY <1>1, <1>5, <1>6, <1>7, SMTT(30) DEF FtSound

(* The elements of the first k sequences of S are those of t.              *)
Flat(S, k, t) ==
  /\ \A n \in DOMAIN t : \E j \in 1 .. k : \E m \in DOMAIN S[j] : t[n] = S[j][m]
  /\ \A j \in 1 .. k : \A m \in DOMAIN S[j] : \E n \in DOMAIN t : t[n] = S[j][m]

(* Appending one more of them.                                            *)
LEMMA FlatJoin ==
  ASSUME NEW T, NEW S, NEW i \in Nat, i # 0, NEW t \in Seq(T), Flat(S, i - 1, t), S[i] \in Seq(T)
  PROVE  t \o S[i] \in Seq(T) /\ Flat(S, i, t \o S[i])
<1> DEFINE u == S[i]
           all == t \o u
<1>1. u \in Seq(T)
  OBVIOUS
<1>2. 1 .. i = (1 .. i - 1) \cup {i}
  OBVIOUS
<1>3. all \in Seq(T)
  BY <1>1
<1>4. \A n \in DOMAIN all : \/ n \in DOMAIN t /\ all[n] = t[n]
                           \/ \E k \in DOMAIN u : all[n] = u[k]
  <2> HIDE DEF u
  <2> QED BY <1>1, JoinFacts
<1>5. \A n \in DOMAIN t : n \in DOMAIN all /\ all[n] = t[n]
  <2> HIDE DEF u
  <2> QED BY <1>1, JoinFacts
<1>6. \A k \in DOMAIN u : \E n \in DOMAIN all : all[n] = u[k]
  <2> HIDE DEF u
  <2> QED BY <1>1, JoinFacts
<1> HIDE DEF all
<1>7. ASSUME NEW n \in DOMAIN all PROVE \E j \in 1 .. i : \E k \in DOMAIN S[j] : all[n] = S[j][k]
  <2>1. CASE n \in DOMAIN t /\ all[n] = t[n]
    <3>1. PICK j \in 1 .. i - 1 : \E k \in DOMAIN S[j] : t[n] = S[j][k]
      BY <2>1 DEF Flat
    <3> QED BY <1>2, <2>1, <3>1
  <2>2. CASE \E k \in DOMAIN u : all[n] = u[k]
    BY <1>2, <2>2
  <2> QED BY <1>4, <2>1, <2>2
<1>8. ASSUME NEW j \in 1 .. i, NEW k \in DOMAIN S[j] PROVE \E n \in DOMAIN all : all[n] = S[j][k]
  <2>1. CASE j \in 1 .. i - 1
    <3>1. PICK n \in DOMAIN t : t[n] = S[j][k]
      BY <2>1 DEF Flat
    <3> QED BY <1>5, <3>1
  <2>2. CASE j = i
    BY <1>6, <2>2
  <2> QED BY <1>2, <2>1, <2>2
<1>9. Flat(S, i, all)
  BY <1>7, <1>8 DEF Flat
<1> QED BY <1>3, <1>9 DEF all

(* Flattening a sequence of sequences loses and invents nothing.           *)
LEMMA FlattenFacts ==
  ASSUME NEW T, NEW S \in Seq(Seq(T))
  PROVE  FlattenSeq(S) \in Seq(T) /\ Flat(S, Len(S), FlattenSeq(S))
<1>1. Len(S) \in Nat /\ DOMAIN S = 1 .. Len(S) /\ \A j \in 1 .. Len(S) : S[j] \in Seq(T)
  OBVIOUS
<1>2. CASE Len(S) = 0
  <2>1. FlattenSeq(S) = S
    BY <1>2 DEF FlattenSeq
  <2>2. S = <<>> /\ 1 .. Len(S) = {}
    BY <1>1, <1>2
  <2>3. S \in Seq(T) /\ DOMAIN S = {}
    BY <2>2
  <2> QED BY <2>1, <2>2, <2>3 DEF Flat
<1>3. CASE Len(S) # 0
  <2> DEFINE I == 1 .. Len(S)
             V == Seq(T)
             body(f) == [i \in I |-> IF i = 1 THEN S[i] ELSE f[i - 1] \o S[i]]
             B == [f \in [I -> V] |-> body(f)]
             m == [i \in I |-> i]
  <2>1. \A f \in [I -> V], i \in I : (IF i = 1 THEN S[i] ELSE f[i - 1] \o S[i]) \in V
    <3> SUFFICES ASSUME NEW f \in [I -> V], NEW i \in I, i # 1 PROVE f[i - 1] \o S[i] \in V
      BY <1>1
    <3>1. i - 1 \in I
      BY <1>1
    <3>2. f[i - 1] \in Seq(T) /\ S[i] \in Seq(T)
      BY <1>1, <3>1
    <3> QED BY <3>2
  <2>2. B \in [[I -> V] -> [I -> V]]
    BY <2>1
  <2>3. \A f \in [I -> V], g \in [I -> V], i \in I :
          (\A y \in I : m[y] < m[i] => f[y] = g[y]) => B[f][i] = B[g][i]
    <3> SUFFICES ASSUME NEW f \in [I -> V], NEW g \in [I -> V], NEW i \in I,
                        \A y \in I : m[y] < m[i] => f[y] = g[y]
                 PROVE  B[f][i] = B[g][i]
      OBVIOUS
    <3>1. CASE i = 1
      BY <3>1
    <3>2. CASE i # 1
      <4>1. i - 1 \in I /\ i - 1 < i
        BY <1>1, <3>2
      <4>2. f[i - 1] = g[i - 1]
        BY <4>1
      <4> QED BY <3>2, <4>2
    <3> QED BY <3>1, <3>2
  <2>4. <<>> \in V
    OBVIOUS
  <2>5. m \in [I -> Nat]
    BY <1>1
  <2>6. \E f \in [I -> V] : f = B[f]
    <3>1. Recursion(I, V, m, B)
      <4> HIDE DEF B, I, V, m
      <4> QED BY <2>2, <2>3, <2>4, <2>5 DEF Recursion
    <3> HIDE DEF B, I, V, m
    <3> QED BY <3>1, MeasureRecursion
  <2>7. PICK f \in [I -> V] : f = body(f)
    BY <2>6
  <2> DEFINE flatten == CHOOSE t : t = body(t)
  <2>8. flatten = body(flatten)
    <3> HIDE DEF body
    <3> QED BY <2>7
  <2>9. FlattenSeq(S) = flatten[Len(S)]
    BY <1>3 DEF FlattenSeq
  <2> HIDE DEF flatten
  <2>10. /\ 1 \in I /\ flatten[1] = S[1]
         /\ \A i \in I : i # 1 => i - 1 \in I /\ i - 1 < i /\ flatten[i] = flatten[i - 1] \o S[i]
    <3>1. 1 \in I /\ \A i \in I : i # 1 => i - 1 \in I /\ i - 1 < i
      BY <1>1, <1>3
    <3>2. \A i \in I : flatten[i] = IF i = 1 THEN S[i] ELSE flatten[i - 1] \o S[i]
      BY <2>8
    <3> QED BY <3>1, <3>2
  <2> DEFINE P == {i \in I : flatten[i] \in V /\ Flat(S, i, flatten[i])}
  <2>11. ASSUME NEW i \in I, \A y \in I : m[y] < m[i] => y \in P PROVE i \in P
    <3>1. CASE i = 1
      <4>1. flatten[i] = S[i] /\ S[i] \in Seq(T) /\ 1 .. i = {i}
        BY <1>1, <2>10, <3>1
      <4>2. Flat(S, i, S[i])
        BY <4>1 DEF Flat
      <4> QED BY <4>1, <4>2
    <3>2. CASE i # 1
      <4>1. /\ flatten[i - 1] \in Seq(T) /\ Flat(S, i - 1, flatten[i - 1])
            /\ S[i] \in Seq(T) /\ flatten[i] = flatten[i - 1] \o S[i] /\ i \in Nat
        BY <1>1, <2>10, <2>11, <3>2
      <4>2. flatten[i - 1] \o S[i] \in Seq(T) /\ Flat(S, i, flatten[i - 1] \o S[i])
        BY <3>2, <4>1, FlatJoin
      <4> QED BY <4>1, <4>2
    <3> QED BY <3>1, <3>2
  <2>12. I \subseteq P
    <3> HIDE DEF P, I, m
    <3> QED BY <2>5, <2>11, MeasureInduction
  <2>13. Len(S) \in I
    BY <1>1, <1>3
  <2> QED BY <2>9, <2>12, <2>13
<1> QED BY <1>2, <1>3

(* What a matrix has at a row, and that a solution found covers every row. *)
LEMMA CoverVerified ==
  ASSUME NEW A, NEW heuristic, sm_minimum_cover(A, heuristic) # NIL
  PROVE  verify_cover(A, sm_minimum_cover(A, heuristic).row)
<1>1. CASE A = {}
  BY <1>1 DEF verify_cover, Rows
<1>2. CASE A # {}
  <2> DEFINE best == sm_mincov[<<A, solution_alloc, 0, Cardinality(Cols(A)) + 1, heuristic>>]
  <2>1. sm_minimum_cover(A, heuristic) = Verified(A, best)
    BY <1>2 DEF sm_minimum_cover
  <2> HIDE DEF best
  <2>2. Verified(A, best) = best /\ verify_cover(A, best.row)
    BY <2>1 DEF Verified
  <2> QED BY <2>1, <2>2
<1> QED BY <1>1, <1>2

(* Where the elements of two and of three sequences are in their           *)
(* concatenation L.                                                        *)
TwoJoined(L, A, B) ==
  /\ Len(L) = Len(A) + Len(B)
  /\ \A i \in DOMAIN L : i <= Len(A) => i \in DOMAIN A /\ L[i] = A[i]
  /\ \A i \in DOMAIN L : i > Len(A) => i - Len(A) \in DOMAIN B
  /\ \A k \in DOMAIN B : Len(A) + k \in DOMAIN L /\ L[Len(A) + k] = B[k]
ThreeJoined(L, A, B, C) ==
  /\ Len(L) = Len(A) + Len(B) + Len(C)
  /\ \A i \in DOMAIN L : i <= Len(A) + Len(B) =>
       \/ \E j \in DOMAIN A : L[i] = A[j]
       \/ \E j \in DOMAIN B : L[i] = B[j]
  /\ \A i \in DOMAIN L : i > Len(A) + Len(B) => i - (Len(A) + Len(B)) \in DOMAIN C
  /\ \A k \in DOMAIN C : /\ Len(A) + Len(B) + k \in DOMAIN L
                         /\ L[Len(A) + Len(B) + k] = C[k]

(* The places in the concatenation of two sequences.                       *)
LEMMA TwoJoinedFacts ==
  ASSUME NEW T, NEW A \in Seq(T), NEW B \in Seq(T)
  PROVE  A \o B \in Seq(T) /\ TwoJoined(A \o B, A, B)
<1>1. /\ A \o B \in Seq(T) /\ Len(A \o B) = Len(A) + Len(B) /\ Len(A) \in Nat /\ Len(B) \in Nat
      /\ DOMAIN A = 1 .. Len(A) /\ DOMAIN B = 1 .. Len(B) /\ DOMAIN (A \o B) = 1 .. Len(A) + Len(B)
  OBVIOUS
<1>2. \A i \in DOMAIN (A \o B) : i <= Len(A) => i \in DOMAIN A /\ (A \o B)[i] = A[i]
  BY <1>1
<1>3. \A i \in DOMAIN (A \o B) : i > Len(A) => i - Len(A) \in DOMAIN B
  BY <1>1
<1>4. \A k \in DOMAIN B : Len(A) + k \in DOMAIN (A \o B) /\ (A \o B)[Len(A) + k] = B[k]
  BY <1>1
<1> QED BY <1>1, <1>2, <1>3, <1>4 DEF TwoJoined

(* The places in the concatenation of three sequences.                     *)
LEMMA ThreeJoinedFacts ==
  ASSUME NEW T, NEW A \in Seq(T), NEW B \in Seq(T), NEW C \in Seq(T)
  PROVE  A \o B \o C \in Seq(T) /\ ThreeJoined(A \o B \o C, A, B, C)
<1> DEFINE AB == A \o B
           all == AB \o C
<1>1. AB \in Seq(T) /\ TwoJoined(AB, A, B)
  BY TwoJoinedFacts
<1> HIDE DEF AB
<1>2. all \in Seq(T) /\ TwoJoined(all, AB, C)
  BY <1>1, TwoJoinedFacts
<1> HIDE DEF all
<1>3. /\ Len(A) \in Nat /\ Len(B) \in Nat /\ Len(C) \in Nat
      /\ DOMAIN A = 1 .. Len(A) /\ DOMAIN B = 1 .. Len(B)
      /\ DOMAIN AB = 1 .. Len(AB) /\ Len(AB) = Len(A) + Len(B) /\ DOMAIN all \subseteq Nat
  <2>1. Len(A) \in Nat /\ Len(B) \in Nat /\ Len(C) \in Nat /\ DOMAIN A = 1 .. Len(A) /\ DOMAIN B = 1 .. Len(B)
    OBVIOUS
  <2>2. DOMAIN AB = 1 .. Len(AB) /\ Len(AB) = Len(A) + Len(B)
    BY <1>1 DEF TwoJoined
  <2>3. DOMAIN all \subseteq Nat
    BY <1>2
  <2> QED BY <2>1, <2>2, <2>3
<1>4. ASSUME NEW i \in DOMAIN AB
      PROVE  (\E j \in DOMAIN A : AB[i] = A[j]) \/ (\E j \in DOMAIN B : AB[i] = B[j])
  <2>1. CASE i <= Len(A)
    BY <1>1, <2>1 DEF TwoJoined
  <2>2. CASE i > Len(A)
    <3>1. i - Len(A) \in DOMAIN B /\ Len(A) + (i - Len(A)) = i
      BY <1>1, <1>3, <2>2 DEF TwoJoined
    <3>2. AB[Len(A) + (i - Len(A))] = B[i - Len(A)]
      BY <1>1, <3>1 DEF TwoJoined
    <3> QED BY <3>1, <3>2
  <2> QED BY <1>3, <2>1, <2>2
<1>5. \A i \in DOMAIN all : i <= Len(A) + Len(B) =>
        (\E j \in DOMAIN A : all[i] = A[j]) \/ (\E j \in DOMAIN B : all[i] = B[j])
  <2> SUFFICES ASSUME NEW i \in DOMAIN all, i <= Len(A) + Len(B)
               PROVE  (\E j \in DOMAIN A : all[i] = A[j]) \/ (\E j \in DOMAIN B : all[i] = B[j])
    OBVIOUS
  <2>1. i \in DOMAIN AB /\ all[i] = AB[i]
    BY <1>2, <1>3 DEF TwoJoined
  <2> QED BY <1>4, <2>1
<1>6. /\ Len(all) = Len(A) + Len(B) + Len(C)
      /\ \A i \in DOMAIN all : i > Len(A) + Len(B) => i - (Len(A) + Len(B)) \in DOMAIN C
      /\ \A k \in DOMAIN C : /\ Len(A) + Len(B) + k \in DOMAIN all
                             /\ all[Len(A) + Len(B) + k] = C[k]
  BY <1>2, <1>3 DEF TwoJoined
<1>7. ThreeJoined(all, A, B, C)
  BY <1>5, <1>6 DEF ThreeJoined
<1> QED BY <1>2, <1>7 DEF all, AB

(* irred.c, irred_derive_table: whatever covers the rows of the table      *)
(* covers, with the essential cubes and D, the partially redundant ones.   *)
LEMMA TableSound ==
  ASSUME NEW F \in Seq(Cubes), NEW D \in Seq(Cubes),
         NEW essen \in SUBSET DOMAIN F, NEW partial \in SUBSET DOMAIN F,
         NEW cover, verify_cover(irred_derive_table(F, D, essen, partial), cover),
         NEW q \in Points, NEW l \in partial, q \subseteq F[l]
  PROVE  \/ \E j \in DOMAIN D : q \subseteq D[j]
         \/ \E j \in essen : q \subseteq F[j]
         \/ \E j \in cover \cap partial : q \subseteq F[j]
<1> DEFINE ess  == Keep(F, essen)
           part == Keep(F, partial)
           L    == D \o ess \o part
           n    == Cardinality(partial)
           base == Len(L) - n
           at   == Listing(partial, Increasing(partial))
           named(row) == {at[k - base] : k \in row}
           parts == [k \in 1 .. n |-> ftautology(L, base + k, base + k)]
           rows == FlattenSeq(parts)
           M == {x \in (DOMAIN rows) \X partial : x[2] \in named(rows[x[1]])}
<1>1. M = irred_derive_table(F, D, essen, partial)
  BY DEF irred_derive_table
<1>2. /\ IsFiniteSet(partial) /\ n \in Nat /\ DOMAIN F \subseteq Nat
  <2>1. IsFiniteSet(DOMAIN F) /\ DOMAIN F \subseteq Nat
    BY PositionsFinite
  <2> QED BY <2>1, FS_Subset, FS_CardinalityType
<1>3. at \in [1 .. n -> partial] /\ \A x \in partial : \E k \in 1 .. n : at[k] = x
  <2>1. StrictTotalOrder(partial, Increasing(partial))
    BY <1>2, IncreasingOrder
  <2> QED BY <1>2, <2>1, ListingFacts, SMTT(30)
<1>4. /\ ess \in Seq(Cubes) /\ part \in Seq(Cubes) /\ Len(part) = n /\ DOMAIN part = 1 .. n
      /\ \A k \in 1 .. n : part[k] = F[at[k]]
      /\ \A k \in DOMAIN ess : \E j \in essen : ess[k] = F[j]
  <2>1. ess \in Seq(Cubes) /\ part \in Seq(Cubes) /\ Len(part) = n /\ DOMAIN part = 1 .. n
    BY KeepFacts, KeepLen
  <2>2. \A k \in 1 .. n : part[k] = F[at[k]]
    BY DEF Keep
  <2>3. \A k \in DOMAIN ess : \E j \in essen : ess[k] = F[j]
    BY KeepFacts
  <2> QED BY <2>1, <2>2, <2>3
<1> HIDE DEF ess, part, at
<1>5. /\ L \in Seq(Cubes) /\ base = Len(D) + Len(ess) /\ base \in Nat
      /\ DOMAIN L \subseteq Nat
  <2>1. L \in Seq(Cubes) /\ Len(L) = Len(D) + Len(ess) + Len(part)
    <3>1. L \in Seq(Cubes)
      BY <1>4, ThreeJoinedFacts
    <3>2. ThreeJoined(L, D, ess, part)
      BY <1>4, ThreeJoinedFacts
    <3> HIDE DEF L
    <3> QED BY <3>1, <3>2 DEF ThreeJoined
  <2>2. Len(D) \in Nat /\ Len(ess) \in Nat
    BY <1>4
  <2> QED BY <1>2, <1>4, <2>1, <2>2
<1>6. /\ \A k \in DOMAIN L : k <= base =>
           (\E j \in DOMAIN D : L[k] = D[j]) \/ (\E j \in DOMAIN ess : L[k] = ess[j])
      /\ \A k \in DOMAIN L : k > base => k - base \in 1 .. n
      /\ \A k \in 1 .. n : base + k \in DOMAIN L /\ L[base + k] = F[at[k]]
  <2>1. ThreeJoined(L, D, ess, part)
    BY <1>4, ThreeJoinedFacts
  <2> HIDE DEF L, base
  <2>2. \A k \in DOMAIN L : k <= base =>
          (\E j \in DOMAIN D : L[k] = D[j]) \/ (\E j \in DOMAIN ess : L[k] = ess[j])
    BY <1>5, <2>1 DEF ThreeJoined
  <2>3. \A k \in DOMAIN L : k > base => k - base \in 1 .. n
    BY <1>4, <1>5, <2>1 DEF ThreeJoined
  <2>4. \A k \in 1 .. n : base + k \in DOMAIN L /\ L[base + k] = F[at[k]]
    BY <1>4, <1>5, <2>1 DEF ThreeJoined
  <2> QED BY <2>2, <2>3, <2>4
<1> HIDE DEF L, base
<1>7. ASSUME NEW k \in 1 .. n
      PROVE  /\ base + k \in DOMAIN L /\ base + k \in Nat
             /\ parts[k] = ftautology(L, base + k, base + k)
             /\ parts[k] \in Seq(SUBSET DOMAIN L)
             /\ \A r \in DOMAIN parts[k] :
                  base + k \in parts[k][r] /\ \A x \in parts[k][r] : x = base + k \/ x >= base + k
             /\ q \subseteq L[base + k] =>
                  \/ \E x \in DOMAIN L : x < base + k /\ q \subseteq L[x]
                  \/ \E r \in DOMAIN parts[k] : \A x \in parts[k][r] \ {base + k} : q \subseteq L[x]
  <2>1. base + k \in DOMAIN L /\ base + k \in Nat /\ parts[k] = ftautology(L, base + k, base + k)
    BY <1>5, <1>6
  <2> DEFINE c == base + k
  <2> HIDE DEF c
  <2>2. c \in DOMAIN L /\ c \in Nat /\ parts[k] = ftautology(L, c, c)
    BY <2>1 DEF c
  <2> HIDE DEF parts
  <2>3. /\ ftautology(L, c, c) \in Seq(SUBSET DOMAIN L)
        /\ \A r \in DOMAIN ftautology(L, c, c) :
              /\ c \in ftautology(L, c, c)[r]
              /\ \A x \in ftautology(L, c, c)[r] : x = c \/ x >= c
        /\ \A p \in Pts(L[c]) :
              \/ \E x \in DOMAIN L : x < c /\ p \subseteq L[x]
              \/ \E r \in DOMAIN ftautology(L, c, c) :
                    \A x \in ftautology(L, c, c)[r] \ {c} : p \subseteq L[x]
    BY <1>5, <2>2, FtautologySound
  <2>4. q \subseteq L[c] => q \in Pts(L[c])
    BY DEF Pts
  <2>5. /\ parts[k] \in Seq(SUBSET DOMAIN L)
        /\ \A r \in DOMAIN parts[k] : c \in parts[k][r] /\ \A x \in parts[k][r] : x = c \/ x >= c
        /\ q \subseteq L[c] =>
             \/ \E x \in DOMAIN L : x < c /\ q \subseteq L[x]
             \/ \E r \in DOMAIN parts[k] : \A x \in parts[k][r] \ {c} : q \subseteq L[x]
    BY <2>2, <2>3, <2>4
  <2> QED BY <2>1, <2>5 DEF c
<1>8. /\ rows \in Seq(SUBSET DOMAIN L)
      /\ \A k \in 1 .. n : \A r \in DOMAIN parts[k] : \E m \in DOMAIN rows : rows[m] = parts[k][r]
  <2> DEFINE V == SUBSET DOMAIN L
  <2>1. parts \in Seq(Seq(V)) /\ Len(parts) = n
    <3> HIDE DEF V
    <3>1. parts \in [1 .. n -> Seq(V)]
      BY <1>7 DEF V
    <3> HIDE DEF parts
    <3> QED BY <1>2, <3>1
  <2> HIDE DEF parts, V
  <2>2. FlattenSeq(parts) \in Seq(V) /\ Flat(parts, Len(parts), FlattenSeq(parts))
    BY <2>1, FlattenFacts
  <2> QED BY <2>1, <2>2 DEF Flat, V
<1> HIDE DEF parts, rows
<1> DEFINE K == {k \in 1 .. n : q \subseteq F[at[k]]}
<1>9. PICK k \in K : \A h \in K : k <= h
  <2>1. K \subseteq Nat /\ K # {}
    BY <1>2, <1>3, SMTT(30)
  <2> HIDE DEF K
  <2> QED BY <2>1, LeastNat
<1>10. q \subseteq L[base + k] /\ k \in 1 .. n
  BY <1>6
<1>11. CASE \E x \in DOMAIN L : x < base + k /\ q \subseteq L[x]
  <2>1. PICK x \in DOMAIN L : x < base + k /\ q \subseteq L[x]
    BY <1>11
  <2>2. CASE x <= base
    BY <1>4, <1>6, <2>1, <2>2
  <2>3. CASE x > base
    <3>1. x - base \in 1 .. n /\ x - base < k /\ base + (x - base) = x
      <4>1. x - base \in 1 .. n
        BY <1>6, <2>3
      <4>2. x \in Nat /\ base \in Nat /\ k \in Nat
        BY <1>2, <1>5, <1>10
      <4> QED BY <2>1, <4>1, <4>2
    <3>2. L[x] = F[at[x - base]]
      BY <1>6, <3>1
    <3>3. x - base \in K
      BY <2>1, <3>1, <3>2
    <3> QED BY <1>2, <1>9, <1>10, <3>1, <3>3
  <2>4. x \in Nat /\ base \in Nat
    BY <1>5
  <2> QED BY <2>2, <2>3, <2>4
<1>12. CASE \E r \in DOMAIN parts[k] : \A x \in parts[k][r] \ {base + k} : q \subseteq L[x]
  <2>1. PICK r \in DOMAIN parts[k] : \A x \in parts[k][r] \ {base + k} : q \subseteq L[x]
    BY <1>12
  <2>2. PICK m \in DOMAIN rows : rows[m] = parts[k][r]
    BY <1>8, <1>10, <2>1
  <2>3. base + k \in rows[m] /\ rows[m] \subseteq DOMAIN L /\ \A x \in rows[m] : x = base + k \/ x >= base + k
    BY <1>7, <1>8, <1>10, <2>1, <2>2, SMTT(30)
  <2>4. at[k] \in partial /\ at[k] \in named(rows[m])
    <3>1. (base + k) - base = k
      BY <1>2, <1>5, <1>10
    <3> QED BY <1>3, <1>10, <2>3, <3>1
  <2>5. <<m, at[k]>> \in M
    BY <2>2, <2>4
  <2>6. m \in Rows(M)
    BY <2>5 DEF Rows
  <2>7. PICK j \in cover : j \in sm_row(M, m)
    <3> HIDE DEF M
    <3> QED BY <1>1, <2>6 DEF verify_cover
  <2>8. j \in partial /\ j \in named(rows[m])
    BY <2>7 DEF sm_row
  <2>9. PICK x \in rows[m] : j = at[x - base]
    BY <2>8
  <2>10. x \in DOMAIN L /\ x > base /\ x - base \in 1 .. n /\ base + (x - base) = x
    <3>1. x \in DOMAIN L /\ x \in Nat /\ base \in Nat /\ k \in Nat /\ k >= 1
      BY <1>2, <1>5, <1>10, <2>3, <2>9
    <3>2. x >= base + k
      BY <2>3, <2>9, <3>1
    <3>3. x > base /\ base + (x - base) = x
      BY <3>1, <3>2
    <3>4. x - base \in 1 .. n
      BY <1>6, <3>1, <3>3
    <3> QED BY <3>1, <3>3, <3>4
  <2>11. q \subseteq L[x]
    BY <1>10, <2>1, <2>2, <2>9
  <2>12. L[x] = F[j]
    BY <1>6, <2>9, <2>10
  <2> QED BY <2>7, <2>8, <2>11, <2>12
<1>13. (\E x \in DOMAIN L : x < base + k /\ q \subseteq L[x])
       \/ (\E r \in DOMAIN parts[k] : \A x \in parts[k][r] \ {base + k} : q \subseteq L[x])
  BY <1>7, <1>10
<1> QED BY <1>11, <1>12, <1>13

(***************************************************************************)
(* Nothing is lost: every cube of A is within one of B.                    *)
(***************************************************************************)
Below(A, B) == \A k \in DOMAIN A : \E j \in DOMAIN B : A[k] \subseteq B[j]

(* Larger cubes have all the points.                                       *)
LEMMA BelowPts ==
  ASSUME NEW A, NEW B, Below(A, B) PROVE PtsOf(A) \subseteq PtsOf(B)
<1> SUFFICES ASSUME NEW x \in PtsOf(A) PROVE x \in PtsOf(B)
  OBVIOUS
<1>1. PICK k \in DOMAIN A : x \in Pts(A[k])
  BY DEF PtsOf
<1>2. PICK j \in DOMAIN B : A[k] \subseteq B[j]
  BY DEF Below
<1>3. x \in Pts(B[j])
  BY <1>1, <1>2 DEF Pts
<1> QED BY <1>3 DEF PtsOf

(* Containment is transitive, and cubes that stay are within themselves.   *)
LEMMA BelowBelow ==
  ASSUME NEW A, NEW B, NEW C, Below(A, B), Below(B, C) PROVE Below(A, C)
<1> SUFFICES ASSUME NEW k \in DOMAIN A PROVE \E j \in DOMAIN C : A[k] \subseteq C[j]
  BY DEF Below
<1>1. PICK l \in DOMAIN B : A[k] \subseteq B[l]
  BY DEF Below
<1>2. PICK j \in DOMAIN C : B[l] \subseteq C[j]
  BY DEF Below
<1> QED BY <1>1, <1>2
(* Taking cubes of a cover from it is the plainest case.                   *)
LEMMA FromBelow ==
  ASSUME NEW A, NEW B, From(A, B) PROVE Below(A, B)
BY DEF From, Below

(* A point is in a cover if it is in a cube of it.                         *)
LEMMA InCover ==
  ASSUME NEW x, NEW A PROVE x \in PtsOf(A) <=> x \in Points /\ \E k \in DOMAIN A : x \subseteq A[k]
<1>1. ASSUME x \in PtsOf(A) PROVE x \in Points /\ \E k \in DOMAIN A : x \subseteq A[k]
  BY <1>1 DEF PtsOf, Pts
<1>2. ASSUME x \in Points, NEW k \in DOMAIN A, x \subseteq A[k] PROVE x \in PtsOf(A)
  BY <1>2 DEF PtsOf, Pts
<1> QED BY <1>1, <1>2

(* Of equal cubes in a row rm_equal keeps the last.                        *)
LEMMA EqualKept ==
  ASSUME NEW A \in Seq(Cubes) PROVE From(A, rm_equal(A))
<1> DEFINE I == {k \in DOMAIN A : k < Len(A) => A[k] # A[k + 1]}
<1>1. rm_equal(A) = Keep(A, I) /\ I \in SUBSET DOMAIN A
  BY DEF rm_equal
<1>2. DOMAIN A = 1 .. Len(A) /\ Len(A) \in Nat
  OBVIOUS
<1>3. ASSUME NEW j \in DOMAIN A PROVE \E k \in I : A[k] = A[j]
  <2> DEFINE S == {k \in DOMAIN A : A[k] = A[j]}
  <2>1. S \subseteq 0 .. Len(A) /\ j \in S
    BY <1>2
  <2>2. PICK m \in S : \A k \in S : k <= m
    <3> HIDE DEF S
    <3> QED BY <1>2, <2>1, GreatestNat
  <2>3. ASSUME m < Len(A), A[m] = A[m + 1] PROVE FALSE
    <3>1. m + 1 \in S
      BY <1>2, <2>3
    <3> QED BY <1>2, <2>2, <3>1
  <2> QED BY <2>2, <2>3
<1> HIDE DEF I
<1>4. \A k \in I : \E l \in DOMAIN Keep(A, I) : Keep(A, I)[l] = A[k]
  BY <1>1, KeepFacts
<1> QED BY <1>1, <1>3, <1>4 DEF From

(* A cube that is contained in another is within one that is in none.      *)
LEMMA LargestKept ==
  ASSUME NEW A \in Seq(Cubes) PROVE Below(A, rm_contain(A))
<1> DEFINE I == {k \in DOMAIN A : ~ Contained(A[k], ToSet(A))}
<1>1. rm_contain(A) = Keep(A, I) /\ I \in SUBSET DOMAIN A
  BY DEF rm_contain
<1>2. IsFiniteSet(DOMAIN A) /\ \A k \in DOMAIN A : A[k] \in Cubes /\ IsFiniteSet(A[k]) /\ Cardinality(A[k]) \in Nat
  BY PositionsFinite, PartsFinite, FS_CardinalityType
<1>3. ASSUME NEW j \in DOMAIN A PROVE \E k \in I : A[j] \subseteq A[k]
  <2> DEFINE S == {k \in DOMAIN A : A[j] \subseteq A[k]}
             f == [k \in S |-> Cardinality(A[k])]
  <2>1. IsFiniteSet(S) /\ S # {} /\ f \in [S -> Nat]
    <3>1. S \subseteq DOMAIN A /\ j \in S
      OBVIOUS
    <3>2. f \in [S -> Nat]
      BY <1>2
    <3> QED BY <1>2, <3>1, <3>2, FS_Subset
  <2>2. PICK m \in S : \A k \in S : f[k] <= f[m]
    <3> HIDE DEF S, f
    <3> QED BY <2>1, ArgMax
  <2>3. ASSUME Contained(A[m], ToSet(A)) PROVE FALSE
    <3>1. PICK k \in DOMAIN A : A[m] \subseteq A[k] /\ A[m] # A[k]
      BY <2>3 DEF Contained, ToSet
    <3>2. k \in S
      BY <3>1
    <3>3. Cardinality(A[m]) < Cardinality(A[k])
      BY <1>2, <3>1, FS_Subset
    <3>4. f[k] <= f[m] /\ f[k] = Cardinality(A[k]) /\ f[m] = Cardinality(A[m])
      BY <2>2, <3>2
    <3> QED BY <1>2, <3>3, <3>4
  <2> QED BY <2>2, <2>3
<1> HIDE DEF I
<1>4. \A k \in I : \E l \in DOMAIN Keep(A, I) : Keep(A, I)[l] = A[k]
  BY <1>1, KeepFacts
<1> QED BY <1>1, <1>3, <1>4 DEF Below

(* contain.c: sf_dupl and sf_contain lose no point.                        *)
LEMMA DuplKept ==
  ASSUME NEW A \in Seq(Cubes) PROVE From(A, sf_dupl(A))
<1>1. sf_sort(A) \in Seq(Cubes) /\ From(A, sf_sort(A))
  BY SortFacts
<1>2. From(sf_sort(A), sf_dupl(A))
  BY <1>1, EqualKept DEF sf_dupl
<1> QED BY <1>1, <1>2, FromFrom
(* sf_contain drops only cubes that lie in another one.                    *)
LEMMA ContainKept ==
  ASSUME NEW A \in Seq(Cubes) PROVE Below(A, sf_contain(A))
<1>1. sf_dupl(A) \in Seq(Cubes) /\ From(A, sf_dupl(A))
  BY DuplFacts, DuplKept
<1>2. Below(sf_dupl(A), sf_contain(A))
  BY <1>1, LargestKept DEF sf_contain, sf_dupl
<1> QED BY <1>1, <1>2, FromBelow, BelowBelow

(* cvrm.c, unravel: every point of a cube is in one of its pieces.         *)
LEMMA UnravelKept ==
  ASSUME NEW A \in Seq(Cubes), NEW start \in Nat
  PROVE  PtsOf(A) \subseteq PtsOf(unravel(A, start))
<1> SUFFICES ASSUME NEW x \in PtsOf(A) PROVE x \in PtsOf(unravel(A, start))
  OBVIOUS
<1>1. PICK j \in DOMAIN A : x \subseteq A[j] /\ x \in Points
  BY InCover
<1> DEFINE V     == start .. num_vars - 1
           c     == A[j]
           split == {v \in V : set_dist(c, var_mask[v]) > 1}
           f     == [v \in split |-> CHOOSE p \in Parts : x \cap var_mask[v] = {p}]
           piece == (c \ InVars(split)) \cup {f[v] : v \in split}
<1>2. V \subseteq Vars
  BY CubeAssumption DEF Vars
<1>3. \A v \in split : f[v] \in Parts /\ x \cap var_mask[v] = {f[v]}
  <2>1. \A v \in Vars : \E p \in Parts : x \cap var_mask[v] = {p}
    BY <1>1, PointFacts
  <2> QED BY <1>2, <2>1
<1> HIDE DEF f
<1>4. f \in [split -> c] /\ \A v \in split : f[v] \in var_mask[v]
  <2>1. \A v \in split : f[v] \in c /\ f[v] \in var_mask[v]
    BY <1>1, <1>3
  <2>2. DOMAIN f = split /\ f = [v \in split |-> f[v]]
    BY DEF f
  <2> HIDE DEF split, c
  <2> QED BY <2>1, <2>2
<1>5. piece \in Unravelled(c, V)
  BY <1>4 DEF Unravelled
<1>6. x \subseteq piece
  <2> SUFFICES ASSUME NEW p \in x, p \in InVars(split) PROVE p \in {f[v] : v \in split}
    BY <1>1
  <2>1. PICK v \in split : p \in var_mask[v]
    BY DEF InVars
  <2> QED BY <1>3, <2>1
<1> HIDE DEF piece
<1>7. PICK k \in DOMAIN unravel(A, start) : unravel(A, start)[k] = piece
  BY <1>5, UnravelFacts
<1> QED BY <1>1, <1>6, <1>7, InCover

(* irred.c, mark_irredundant: what stays covers, with D, all that was.     *)
THEOREM MarkSound ==
  ASSUME NEW F \in Seq(Cubes), NEW D \in Seq(Cubes), NEW m, m = mark_irredundant(F, D), m.ok
  PROVE  /\ m.active \subseteq DOMAIN F
         /\ \A q \in PtsOf(F) : q \in PtsOf(D) \/ \E j \in m.active : q \subseteq F[j]
<1> DEFINE essen == RelativelyEssential(F, D)
           partial == PartiallyRedundant(F, D, essen)
           M == irred_derive_table(F, D, essen, partial)
           cover == sm_minimum_cover(M, TRUE)
<1>1. m.active = {k \in DOMAIN F : k \in essen \cup cover.row} /\ cover # NIL
  BY DEF mark_irredundant, CoverTheRest, MinimalSubset
<1>2. essen \in SUBSET DOMAIN F /\ partial \in SUBSET DOMAIN F
  BY DEF RelativelyEssential, PartiallyRedundant
<1>3. \A k \in DOMAIN F : k \in essen \/ k \in partial \/ cube_is_covered(cube2list(Keep(F, essen), D), F[k])
  <2> HIDE DEF essen
  <2> QED BY DEF PartiallyRedundant
<1> HIDE DEF essen, partial
<1>4. verify_cover(M, cover.row)
  <2> HIDE DEF M
  <2> QED BY <1>1, CoverVerified
<1>5. Keep(F, essen) \in Seq(Cubes)
      /\ \A k \in DOMAIN Keep(F, essen) : \E j \in essen : Keep(F, essen)[k] = F[j]
  BY <1>2, KeepFacts
<1> HIDE DEF cover
<1>6. ASSUME NEW q \in Points, NEW k \in DOMAIN F, q \subseteq F[k], q \notin PtsOf(D)
      PROVE  \E j \in m.active : q \subseteq F[j]
  <2>1. CASE k \in essen
    BY <1>1, <1>6, <2>1
  <2>2. CASE k \in partial
    <3>1. ~ \E j \in DOMAIN D : q \subseteq D[j]
      BY <1>6, InCover
    <3>2. (\E j \in essen : q \subseteq F[j]) \/ (\E j \in cover.row \cap partial : q \subseteq F[j])
      BY <1>2, <1>4, <1>6, <2>2, <3>1, TableSound, SMTT(30)
    <3> QED BY <1>1, <1>2, <3>2
  <2>3. CASE cube_is_covered(cube2list(Keep(F, essen), D), F[k])
    <3>1. F[k] \in Cubes
      OBVIOUS
    <3>2. Pts(F[k]) \subseteq PtsOf(Keep(F, essen)) \cup PtsOf(D)
      BY <1>5, <2>3, <3>1, CubeCovered
    <3>3. q \in PtsOf(Keep(F, essen))
      BY <1>6, <3>2 DEF Pts
    <3>4. PICK l \in DOMAIN Keep(F, essen) : q \subseteq Keep(F, essen)[l]
      BY <3>3, InCover
    <3>5. PICK j \in essen : Keep(F, essen)[l] = F[j]
      BY <1>5
    <3> QED BY <1>1, <1>2, <3>4, <3>5
  <2> QED BY <1>3, <2>1, <2>2, <2>3
<1>7. \A q \in PtsOf(F) : q \in Points /\ \E k \in DOMAIN F : q \subseteq F[k]
  BY InCover
<1> QED BY <1>1, <1>6, <1>7

(***************************************************************************)
(* The other direction: what is a tautology taut calls one.  A list is     *)
(* filled along the same recursion; where taut would answer no, there is a *)
(* point in none of its cubes.                                             *)
(***************************************************************************)
(* A variable is open in a list when one of its parts has not been         *)
(* cofactored against: only then are there points for the cubes to fill.   *)
Open(T) == \A v \in Vars : var_mask[v] \ T.cof # {}

(* One part of each variable make a point.                                 *)
Assembled(f) == {f[v] : v \in Vars}

(* It has just that part of each variable.                                 *)
LEMMA AssembledPoint ==
  ASSUME NEW f, \A v \in Vars : f[v] \in var_mask[v]
  PROVE  /\ Assembled(f) \in Points
         /\ \A v \in Vars : Assembled(f) \cap var_mask[v] = {f[v]}
         /\ \A q \in Assembled(f) : \E v \in Vars : q = f[v] /\ q \in var_mask[v] /\ q \in Parts
<1>1. \A q \in Assembled(f) : \E v \in Vars : q = f[v] /\ q \in var_mask[v] /\ q \in Parts
  BY MaskFacts DEF Assembled
<1>2. ASSUME NEW v \in Vars PROVE Assembled(f) \cap var_mask[v] = {f[v]}
  <2>1. ASSUME NEW q \in Assembled(f), q \in var_mask[v] PROVE q = f[v]
    <3>1. PICK w \in Vars : q = f[w] /\ q \in var_mask[w]
      BY <1>1, <2>1
    <3> QED BY <2>1, <3>1, OneVariable
  <2>2. f[v] \in Assembled(f) /\ f[v] \in var_mask[v]
    BY DEF Assembled
  <2> QED BY <2>1, <2>2
<1>3. \A v \in Vars : Cardinality(Assembled(f) \cap var_mask[v]) = 1
  BY <1>2, FS_Singleton
<1>4. Assembled(f) \in Cubes
  BY <1>1 DEF Cubes
<1> QED BY <1>1, <1>2, <1>3, <1>4 DEF Points

(* An open list has a point for each part that is still there.             *)
LEMMA OpenPoint ==
  ASSUME NEW T, Open(T), NEW w \in Vars, NEW p \in var_mask[w] \ T.cof
  PROVE  \E x \in Points : x \cap T.cof = {} /\ p \in x
<1> DEFINE f == [v \in Vars |-> IF v = w THEN p ELSE CHOOSE q \in var_mask[v] : q \notin T.cof]
<1>1. \A v \in Vars : f[v] \in var_mask[v] /\ f[v] \notin T.cof
  <2> SUFFICES ASSUME NEW v \in Vars PROVE f[v] \in var_mask[v] /\ f[v] \notin T.cof
    OBVIOUS
  <2>1. \E q \in var_mask[v] : q \notin T.cof
    BY DEF Open
  <2> QED BY <2>1
<1>2. f[w] = p
  OBVIOUS
<1> HIDE DEF f
<1>3. Assembled(f) \in Points /\ Assembled(f) \cap T.cof = {}
  <2>1. Assembled(f) \in Points
    BY <1>1, AssembledPoint
  <2>2. \A q \in Assembled(f) : q \notin T.cof
    BY <1>1 DEF Assembled
  <2> QED BY <2>1, <2>2
<1>4. p \in Assembled(f)
  BY <1>2 DEF Assembled
<1> QED BY <1>3, <1>4

(* A filled list has no empty column.                                      *)
LEMMA FilledCeiling ==
  ASSUME NEW T \in CubelistType, Open(T), Fills(T)
  PROVE  Ceiling(T) = Parts
<1>1. Ceiling(T) \subseteq Parts
  BY CeilingFacts DEF Cubes
<1> SUFFICES ASSUME NEW p \in Parts, p \notin T.cof PROVE p \in Ceiling(T)
  BY <1>1 DEF Ceiling
<1>2. PICK w \in Vars : p \in var_mask[w]
  BY MaskFacts
<1>3. PICK x \in Points : x \cap T.cof = {} /\ p \in x
  BY <1>2, OpenPoint
<1>4. PICK k \in DOMAIN T.cubes : x \subseteq T.cubes[k]
  BY <1>3 DEF Fills
<1> QED BY <1>3, <1>4 DEF Ceiling, sf_or, ToSet

(* A filled list stays filled when only the cubes are kept that are full   *)
(* in the unate variables: the point that has the missing part of each of  *)
(* them is in such a cube.                                                 *)
LEMMA UnateStaysFilled ==
  ASSUME NEW T \in CubelistType, Open(T), Fills(T), NEW x \in Points, x \cap T.cof = {}
  PROVE  \E k \in DOMAIN T.cubes : /\ InVars(massive_count(T).unate) \subseteq T.cubes[k] \cup T.cof
                                   /\ x \subseteq T.cubes[k]
<1> DEFINE U == massive_count(T).unate
           f == [v \in Vars |-> IF v \in U THEN CHOOSE q : q \in Missing(T, v)
                                           ELSE CHOOSE q : q \in x \cap var_mask[v]]
<1>1. U \subseteq Vars
  BY SummaryFacts
<1>2. ASSUME NEW v \in U PROVE f[v] \in Missing(T, v) /\ Missing(T, v) = {f[v]}
  <2>1. v \in Vars /\ Cardinality(Missing(T, v)) = 1 /\ IsFiniteSet(Missing(T, v))
    BY <1>1, SummaryFacts, ListFacts
  <2>2. PICK m : Missing(T, v) = {m}
    BY <2>1, FS_Singleton
  <2> HIDE DEF U
  <2>3. f[v] = CHOOSE q : q \in Missing(T, v)
    BY <2>1
  <2> HIDE DEF f
  <2> QED BY <2>2, <2>3
<1>3. ASSUME NEW v \in Vars, v \notin U PROVE f[v] \in x /\ f[v] \in var_mask[v] /\ x \cap var_mask[v] = {f[v]}
  <2>1. PICK m : x \cap var_mask[v] = {m}
    BY PointFacts
  <2> HIDE DEF U
  <2>2. f[v] = CHOOSE q : q \in x \cap var_mask[v]
    BY <1>3
  <2> HIDE DEF f
  <2> QED BY <2>1, <2>2
<1> HIDE DEF f, U
<1>4. \A v \in Vars : f[v] \in var_mask[v] /\ f[v] \notin T.cof
  <2> SUFFICES ASSUME NEW v \in Vars PROVE f[v] \in var_mask[v] /\ f[v] \notin T.cof
    OBVIOUS
  <2>1. CASE v \in U
    BY <1>2, <2>1 DEF Missing
  <2>2. CASE v \notin U
    BY <1>3, <2>2
  <2> QED BY <2>1, <2>2
<1>5. Assembled(f) \in Points /\ \A v \in Vars : f[v] \in Assembled(f)
  BY <1>4, AssembledPoint DEF Assembled
<1>6. Assembled(f) \cap T.cof = {}
  BY <1>4 DEF Assembled
<1>7. PICK k \in DOMAIN T.cubes : Assembled(f) \subseteq T.cubes[k]
  BY <1>5, <1>6 DEF Fills
<1>8. ASSUME NEW v \in U, NEW q \in var_mask[v] PROVE q \in T.cubes[k] \cup T.cof
  <2> SUFFICES ASSUME q \notin T.cubes[k], q \notin T.cof PROVE FALSE
    OBVIOUS
  <2>1. q \in Missing(T, v)
    BY <1>8 DEF Missing
  <2>2. q = f[v] /\ v \in Vars
    BY <1>1, <1>2, <2>1
  <2> QED BY <1>5, <1>7, <2>2
<1>9. InVars(U) \subseteq T.cubes[k] \cup T.cof
  BY <1>8 DEF InVars
<1>10. ASSUME NEW q \in x PROVE q \in T.cubes[k]
  <2>1. PICK v \in Vars : q \in var_mask[v]
    BY PointFacts, MaskFacts
  <2>2. CASE v \in U
    BY <1>8, <2>1, <2>2
  <2>3. CASE v \notin U
    BY <1>3, <1>5, <1>7, <2>1, <2>3
  <2> QED BY <2>2, <2>3
<1> QED BY <1>9, <1>10 DEF U

(* When all active variables are unate, that is a full row.                *)
LEMMA UnateFullRow ==
  ASSUME NEW T \in CubelistType, Open(T), Fills(T), massive_count(T).unate = massive_count(T).active
  PROVE  HasFullRow(T)
<1>1. PICK x \in Points : x \cap T.cof = {}
  <2>1. PICK w \in Vars : TRUE
    BY SummaryFacts
  <2>2. PICK p \in var_mask[w] \ T.cof : TRUE
    BY DEF Open
  <2> QED BY <2>2, OpenPoint
<1>2. PICK k \in DOMAIN T.cubes : InVars(massive_count(T).unate) \subseteq T.cubes[k] \cup T.cof
  BY <1>1, UnateStaysFilled
<1>3. ASSUME NEW q \in Parts PROVE q \in T.cubes[k] \cup T.cof
  <2>1. PICK v \in Vars : q \in var_mask[v]
    BY MaskFacts
  <2>2. CASE Missing(T, v) = {}
    BY <2>1, <2>2 DEF Missing
  <2>3. CASE Missing(T, v) # {}
    <3>1. v \in massive_count(T).unate
      BY <2>3, SummaryFacts
    <3> QED BY <1>2, <2>1, <3>1 DEF InVars
  <2> QED BY <2>2, <2>3
<1>4. T.cubes[k] \cup T.cof = Parts
  BY <1>3, ListFacts DEF Cubes
<1> QED BY <1>4 DEF HasFullRow, full_row, ToSet

(* The reduction to those cubes is filled, open, and has no new full row.  *)
LEMMA UnateReducedFilled ==
  ASSUME NEW T \in CubelistType, Open(T), Fills(T), ~ HasFullRow(T), massive_count(T).unate # {}
  PROVE  LET UR == UnateReduced(T, massive_count(T).unate)
         IN Open(UR) /\ Fills(UR) /\ ~ HasFullRow(UR)
<1> DEFINE I == {k \in DOMAIN T.cubes : InVars(massive_count(T).unate) \subseteq T.cubes[k] \cup T.cof}
           UR == UnateReduced(T, massive_count(T).unate)
<1>1. UR = Selected(T, I)
  BY SelectedExcept DEF UnateReduced
<1>2. I \in SUBSET DOMAIN T.cubes
  OBVIOUS
<1>3. ASSUME NEW x \in Points, x \cap T.cof = {} PROVE \E k \in I : x \subseteq T.cubes[k]
  BY <1>3, UnateStaysFilled
<1> HIDE DEF I, UR
<1>4. /\ UR.cof = T.cof
      /\ \A k \in I : \E l \in DOMAIN UR.cubes : UR.cubes[l] = T.cubes[k]
      /\ \A l \in DOMAIN UR.cubes : \E k \in I : UR.cubes[l] = T.cubes[k]
  <2>1. /\ Selected(T, I).cof = T.cof
        /\ \A k \in I : \E l \in DOMAIN Selected(T, I).cubes : Selected(T, I).cubes[l] = T.cubes[k]
        /\ \A l \in DOMAIN Selected(T, I).cubes : \E k \in I : Selected(T, I).cubes[l] = T.cubes[k]
    BY ONLY <1>2, T \in CubelistType, KeptList
  <2> QED BY <1>1, <2>1
<1>5. Open(UR)
  BY <1>4 DEF Open
<1>6. Fills(UR)
  BY <1>3, <1>4 DEF Fills
<1>7. ~ HasFullRow(UR)
  BY <1>2, <1>4 DEF HasFullRow, full_row, ToSet
<1> QED BY <1>5, <1>6, <1>7 DEF UR

(* Each cube of a list is in one of the two blocks of its partition.       *)
LEMMA PartitionAll ==
  ASSUME NEW T \in CubelistType, T.cubes # <<>>, NEW split, split = cubelist_partition(T),
         NEW k \in DOMAIN T.cubes
  PROVE  \/ \E l \in DOMAIN split.A.cubes : split.A.cubes[l] = T.cubes[k]
         \/ \E l \in DOMAIN split.B.cubes : split.B.cubes[l] = T.cubes[k]
<1>1. PICK seed : split = [A |-> [T EXCEPT !.cubes = Keep(T.cubes, {1} \cup Joined(T, seed))],
                           B |-> [T EXCEPT !.cubes = Keep(T.cubes, DOMAIN T.cubes \ ({1} \cup Joined(T, seed)))]]
  BY DEF cubelist_partition
<1> DEFINE I == {1} \cup Joined(T, seed)
           J == DOMAIN T.cubes \ I
<1>2. I \in SUBSET DOMAIN T.cubes /\ J \in SUBSET DOMAIN T.cubes /\ DOMAIN T.cubes \subseteq I \cup J
  BY ListFacts DEF Joined
<1>3. split.A = Selected(T, I) /\ split.B = Selected(T, J)
  BY <1>1, SelectedExcept
<1> HIDE DEF I, J
<1>4. \A j \in I : \E l \in DOMAIN Selected(T, I).cubes : Selected(T, I).cubes[l] = T.cubes[j]
  BY ONLY <1>2, T \in CubelistType, KeptList
<1>5. \A j \in J : \E l \in DOMAIN Selected(T, J).cubes : Selected(T, J).cubes[l] = T.cubes[j]
  BY ONLY <1>2, T \in CubelistType, KeptList
<1>6. CASE k \in I
  BY ONLY <1>3, <1>4, <1>6
<1>7. CASE k \in J
  BY ONLY <1>3, <1>5, <1>7
<1> QED BY <1>2, <1>6, <1>7

(* One block of a partition of a filled list is filled: two points in no   *)
(* cube of their blocks would make one in no cube at all.                  *)
LEMMA PartFilled ==
  ASSUME NEW T \in CubelistType, T.cubes # <<>>, Fills(T), NEW split, split = cubelist_partition(T)
  PROVE  Fills(split.A) \/ Fills(split.B)
<1>1. /\ split.A.cof = T.cof /\ split.B.cof = T.cof
  BY PartitionFacts
<1> SUFFICES ASSUME ~ Fills(split.A), ~ Fills(split.B) PROVE FALSE
  OBVIOUS
<1>2. PICK a \in Points : a \cap T.cof = {} /\ \A l \in DOMAIN split.A.cubes : ~ (a \subseteq split.A.cubes[l])
  BY <1>1 DEF Fills
<1>3. PICK b \in Points : b \cap T.cof = {} /\ \A l \in DOMAIN split.B.cubes : ~ (b \subseteq split.B.cubes[l])
  BY <1>1 DEF Fills
<1> DEFINE f == [v \in Vars |-> IF Missing(split.A, v) # {} THEN CHOOSE q : q \in a \cap var_mask[v]
                                                            ELSE CHOOSE q : q \in b \cap var_mask[v]]
<1>4. ASSUME NEW v \in Vars, Missing(split.A, v) # {}
      PROVE  f[v] \in var_mask[v] /\ f[v] \in a /\ a \cap var_mask[v] = {f[v]}
  <2>1. PICK m : a \cap var_mask[v] = {m}
    BY PointFacts
  <2>2. f[v] = CHOOSE q : q \in a \cap var_mask[v]
    BY <1>4
  <2> HIDE DEF f
  <2> QED BY <2>1, <2>2
<1>5. ASSUME NEW v \in Vars, Missing(split.A, v) = {}
      PROVE  f[v] \in var_mask[v] /\ f[v] \in b /\ b \cap var_mask[v] = {f[v]}
  <2>1. PICK m : b \cap var_mask[v] = {m}
    BY PointFacts
  <2>2. f[v] = CHOOSE q : q \in b \cap var_mask[v]
    BY <1>5
  <2> HIDE DEF f
  <2> QED BY <2>1, <2>2
<1> HIDE DEF f
<1>6. \A v \in Vars : f[v] \in var_mask[v] /\ f[v] \notin T.cof
  <2> SUFFICES ASSUME NEW v \in Vars PROVE f[v] \in var_mask[v] /\ f[v] \notin T.cof
    OBVIOUS
  <2>1. CASE Missing(split.A, v) = {}
    BY <1>3, <1>5, <2>1
  <2>2. CASE Missing(split.A, v) # {}
    BY <1>2, <1>4, <2>2
  <2> QED BY <2>1, <2>2
<1>7. Assembled(f) \in Points /\ \A v \in Vars : f[v] \in Assembled(f)
  BY <1>6, AssembledPoint DEF Assembled
<1>8. Assembled(f) \cap T.cof = {}
  BY <1>6 DEF Assembled
<1>9. PICK k \in DOMAIN T.cubes : Assembled(f) \subseteq T.cubes[k]
  BY <1>7, <1>8 DEF Fills
<1>10. ASSUME NEW l \in DOMAIN split.A.cubes, split.A.cubes[l] = T.cubes[k] PROVE FALSE
  <2>1. ASSUME NEW q \in a PROVE q \in split.A.cubes[l]
    <3>1. PICK v \in Vars : q \in var_mask[v]
      BY PointFacts, MaskFacts
    <3>2. CASE Missing(split.A, v) = {}
      BY <1>1, <1>2, <2>1, <3>1, <3>2 DEF Missing
    <3>3. CASE Missing(split.A, v) # {}
      BY <1>4, <1>7, <1>9, <1>10, <2>1, <3>1, <3>3
    <3> QED BY <3>2, <3>3
  <2> QED BY <1>2, <2>1
<1>11. ASSUME NEW l \in DOMAIN split.B.cubes, split.B.cubes[l] = T.cubes[k] PROVE FALSE
  <2>1. ASSUME NEW q \in b PROVE q \in split.B.cubes[l]
    <3>1. PICK v \in Vars : q \in var_mask[v]
      BY PointFacts, MaskFacts
    <3>2. CASE Missing(split.A, v) = {}
      BY <1>5, <1>7, <1>9, <1>11, <2>1, <3>1, <3>2
    <3>3. CASE Missing(split.A, v) # {}
      <4>1. Missing(split.B, v) = {}
        BY <3>3, PartitionApart
      <4> QED BY <1>1, <1>3, <2>1, <3>1, <4>1 DEF Missing
    <3> QED BY <3>2, <3>3
  <2> QED BY <1>3, <2>1
<1> QED BY <1>10, <1>11, PartitionAll

(* The halves of a filled open list are filled and open.                   *)
LEMMA HalfFilled ==
  ASSUME NEW T \in CubelistType, Open(T), Fills(T), NEW best \in Vars, NEW h \in Cubes,
         Parts \ var_mask[best] \subseteq h, h \cap T.cof \cap var_mask[best] = {},
         h \cap var_mask[best] # {}
  PROVE  Open(scofactor(T, h, best)) /\ Fills(scofactor(T, h, best))
<1> DEFINE S == scofactor(T, h, best)
<1>1. /\ S.cof = T.cof \cup (Parts \ h)
      /\ \A k \in DOMAIN T.cubes : T.cubes[k] \cap h \cap var_mask[best] # {} =>
           \E l \in DOMAIN S.cubes : S.cubes[l] = T.cubes[k]
  BY ScofactorFacts
<1> HIDE DEF S
<1>2. ASSUME NEW v \in Vars PROVE var_mask[v] \ S.cof # {}
  <2>1. CASE v = best
    BY <1>1, <2>1
  <2>2. CASE v # best
    <3>1. PICK q \in var_mask[v] : q \notin T.cof
      BY DEF Open
    <3>2. q \in Parts /\ q \notin var_mask[best]
      BY <2>2, MaskFacts, OneVariable
    <3> QED BY <1>1, <3>1, <3>2
  <2> QED BY <2>1, <2>2
<1>3. ASSUME NEW x \in Points, x \cap S.cof = {} PROVE \E l \in DOMAIN S.cubes : x \subseteq S.cubes[l]
  <2>1. x \cap T.cof = {} /\ x \subseteq h
    BY <1>1, <1>3, PointFacts
  <2>2. PICK k \in DOMAIN T.cubes : x \subseteq T.cubes[k]
    BY <2>1 DEF Fills
  <2>3. PICK q : x \cap var_mask[best] = {q}
    BY PointFacts
  <2> QED BY <1>1, <2>1, <2>2, <2>3
<1> QED BY <1>2, <1>3 DEF Open, Fills, S

(* If the answers for smaller lists are yes when they are filled, so is    *)
(* the answer for a list.                                                  *)
LEMMA TautReducedSeen ==
  ASSUME NEW S \in CubelistType, Open(S), Fills(S), ~ HasFullRow(S),
         NEW f \in [CubelistType -> BOOLEAN], NEW r \in [CubelistType -> BOOLEAN],
         \A y \in CubelistType : mu[y] < mu[S] /\ Open(y) /\ Fills(y) => f[y],
         \A y \in CubelistType : mu[y] < mu[S] /\ Open(y) /\ Fills(y) /\ ~ HasFullRow(y) => r[y]
  PROVE  TautReduced(S, massive_count(S), f, r)
<1> DEFINE count == massive_count(S)
           UR == UnateReduced(S, count.unate)
           split == cubelist_partition(S)
           half == binate_split_select(S, count.best)
           sl == scofactor(S, half.left, count.best)
           sr == scofactor(S, half.right, count.best)
<1>1. Ceiling(S) = Parts /\ count.unate # count.active
  BY FilledCeiling, UnateFullRow
<1>2. count.best \in Vars /\ Cardinality(Missing(S, count.best)) >= 2
  BY <1>1, BestFacts
<1>3. S.cubes # <<>>
  <2>1. PICK p \in Missing(S, count.best) : TRUE
    BY <1>2, FS_EmptySet
  <2> QED BY <2>1, ListFacts DEF Missing
<1>4. ASSUME count.unate # {} PROVE r[UR]
  <2>1. UR \in CubelistType /\ mu[UR] < mu[S]
    BY <1>4, UnateSmaller
  <2>2. Open(UR) /\ Fills(UR) /\ ~ HasFullRow(UR)
    BY <1>4, UnateReducedFilled
  <2> HIDE DEF UR
  <2> QED BY <2>1, <2>2
<1>5. f[sl] /\ f[sr]
  <2>1. sl \in CubelistType /\ sr \in CubelistType /\ mu[sl] < mu[S] /\ mu[sr] < mu[S]
    BY <1>2, SplitSmaller
  <2>2. /\ half.left \in Cubes /\ half.right \in Cubes
        /\ Parts \ var_mask[count.best] \subseteq half.left /\ Parts \ var_mask[count.best] \subseteq half.right
        /\ half.left \cap S.cof \cap var_mask[count.best] = {} /\ half.right \cap S.cof \cap var_mask[count.best] = {}
        /\ half.left \cap var_mask[count.best] # {} /\ half.right \cap var_mask[count.best] # {}
    BY <1>2, SplitFacts
  <2>3. Open(sl) /\ Fills(sl)
    <3> HIDE DEF half, count
    <3> QED BY <1>2, <2>2, HalfFilled
  <2>4. Open(sr) /\ Fills(sr)
    <3> HIDE DEF half, count
    <3> QED BY <1>2, <2>2, HalfFilled
  <2> HIDE DEF sl, sr
  <2> QED BY <2>1, <2>3, <2>4
<1>6. TautSplit(S, count.best, f)
  BY <1>5 DEF TautSplit, TautHalves
<1>7. TautParts(S, split, count.best, f)
  <2> SUFFICES ASSUME split.B.cubes # <<>> PROVE f[split.A] \/ f[split.B]
    BY <1>6 DEF TautParts
  <2>1. /\ split.A \in CubelistType /\ split.B \in CubelistType
        /\ split.A.cof = S.cof /\ split.B.cof = S.cof
        /\ mu[split.A] < mu[S] /\ mu[split.B] < mu[S]
    BY <1>3, PartitionFacts
  <2>2. Fills(split.A) \/ Fills(split.B)
    BY <1>3, PartFilled
  <2> HIDE DEF split
  <2>3. Open(split.A) /\ Open(split.B)
    BY <2>1 DEF Open
  <2> QED BY <2>1, <2>2, <2>3
<1>8. TautReduced(S, count, f, r) =
         (/\ Ceiling(S) = Parts
          /\ count.unate # count.active
          /\ \/ Cardinality(count.active) = 1
             \/ IF count.unate # {} THEN r[UR]
                ELSE IF count.var_zeros[count.best] < Len(S.cubes) \div 2
                     THEN TautParts(S, split, count.best, f) ELSE TautSplit(S, count.best, f))
  BY DEF TautReduced
<1> DEFINE few == count.var_zeros[count.best] < Len(S.cubes) \div 2
           parts == TautParts(S, split, count.best, f)
           halves == TautSplit(S, count.best, f)
<1>9. parts /\ halves
  BY <1>6, <1>7
<1> HIDE DEF count, UR, split, few, parts, halves
<1>10. IF count.unate # {} THEN r[UR] ELSE IF few THEN parts ELSE halves
  BY <1>4, <1>9, Zenon
<1>11. TautReduced(S, count, f, r) = (/\ Ceiling(S) = Parts
                                     /\ count.unate # count.active
                                     /\ \/ Cardinality(count.active) = 1
                                        \/ IF count.unate # {} THEN r[UR] ELSE IF few THEN parts ELSE halves)
  BY <1>8 DEF few, parts, halves
<1> QED BY <1>1, <1>10, <1>11, Zenon DEF count

(* A filled open list is what taut calls a tautology.                      *)
THEOREM TautSeen ==
  ASSUME NEW T \in CubelistType, Open(T), Fills(T)
  PROVE  taut[T]
<1> DEFINE D == CubelistType
           P == {S \in D : Open(S) /\ Fills(S) => taut[S]}
<1>1. ASSUME NEW S \in D, \A y \in D : mu[y] < mu[S] => y \in P PROVE S \in P
  <2> SUFFICES ASSUME Open(S), Fills(S), ~ HasFullRow(S) PROVE TautNoRow(S, taut)
    BY TautUnfold
  <2>1. PICK r \in [D -> BOOLEAN] :
          /\ \A S1 \in D : r[S1] = TautReduced(S1, massive_count(S1), taut, r)
          /\ \A S1 : TautNoRow(S1, taut) = r[S1]
    BY TautUnfold, TautNoRowUnfold
  <2> DEFINE Q == {S1 \in D : mu[S1] <= mu[S] /\ Open(S1) /\ Fills(S1) /\ ~ HasFullRow(S1) => r[S1]}
  <2>2. ASSUME NEW S1 \in D, \A y \in D : mu[y] < mu[S1] => y \in Q PROVE S1 \in Q
    <3> SUFFICES ASSUME mu[S1] <= mu[S], Open(S1), Fills(S1), ~ HasFullRow(S1) PROVE r[S1]
      OBVIOUS
    <3>1. \A y \in D : mu[y] \in Nat
      BY MuType
    <3>2. ASSUME NEW y \in D, mu[y] < mu[S1], Open(y), Fills(y)
          PROVE  taut[y] /\ (~ HasFullRow(y) => r[y])
      <4>1. mu[y] < mu[S] /\ mu[y] <= mu[S]
        BY <3>1, <3>2
      <4> QED BY <1>1, <2>2, <3>2, <4>1
    <3>3. TautReduced(S1, massive_count(S1), taut, r)
      <4>1. \A y \in D : mu[y] < mu[S1] /\ Open(y) /\ Fills(y) => taut[y]
        BY <3>2
      <4>2. \A y \in D : mu[y] < mu[S1] /\ Open(y) /\ Fills(y) /\ ~ HasFullRow(y) => r[y]
        BY <3>2
      <4> QED BY <4>1, <4>2, TautReducedSeen, TautUnfold
    <3> QED BY <2>1, <3>3
  <2>3. \A S1 \in D : (\A y \in D : mu[y] < mu[S1] => y \in Q) => S1 \in Q
    BY <2>2
  <2> HIDE DEF Q
  <2>4. D \subseteq Q
    BY <2>3, MuType, MeasureInduction
  <2>5. mu[S] <= mu[S] /\ (mu[S] <= mu[S] => r[S])
    BY <2>4, MuType DEF Q
  <2> QED BY <2>1, <2>5
<1>2. \A S \in D : (\A y \in D : mu[y] < mu[S] => y \in P) => S \in P
  BY <1>1
<1> HIDE DEF P
<1>3. D \subseteq P
  BY <1>2, MuType, MeasureInduction
<1> QED BY <1>3 DEF P

(* irred.c, cube_is_covered: what is covered it calls so.  A cube with a   *)
(* part in each variable, whose points are all in the two covers.          *)
THEOREM CoveredSeen ==
  ASSUME NEW A \in Seq(Cubes), NEW B \in Seq(Cubes), NEW c \in Cubes,
         \A v \in Vars : var_mask[v] \cap c # {},
         Pts(c) \subseteq PtsOf(A) \cup PtsOf(B)
  PROVE  cube_is_covered(cube2list(A, B), c)
<1> DEFINE T == cube2list(A, B)
           S == cofactor(T, c)
<1>1. T \in CubelistType /\ T.cof = {} /\ T.cubes = A \o B
  BY ListType DEF cube2list, cube1list
<1>2. ASSUME NEW x \in PtsOf(A) \cup PtsOf(B) PROVE \E k \in DOMAIN T.cubes : x \subseteq T.cubes[k]
  <2>1. \/ \E j \in DOMAIN A : x \subseteq A[j]
        \/ \E j \in DOMAIN B : x \subseteq B[j]
    BY <1>2 DEF PtsOf, Pts
  <2>2. DOMAIN A \subseteq DOMAIN (A \o B) /\ \A j \in DOMAIN A : (A \o B)[j] = A[j]
    OBVIOUS
  <2>3. \A k \in DOMAIN B : Len(A) + k \in DOMAIN (A \o B) /\ (A \o B)[Len(A) + k] = B[k]
    OBVIOUS
  <2> QED BY <1>1, <2>1, <2>2, <2>3
<1> HIDE DEF T
<1>3. /\ S \in CubelistType /\ S.cof = Parts \ c
      /\ \A k \in DOMAIN T.cubes : cdist0(T.cubes[k], c) => \E l \in DOMAIN S.cubes : S.cubes[l] = T.cubes[k]
  <2>0. T \in CubelistType /\ c \in Cubes
    BY <1>1
  <2>1. cofactor(T, c) \in CubelistType /\ cofactor(T, c).cof = T.cof \cup (Parts \ c)
    BY ONLY <2>0, CofactorFacts
  <2>2. \A k \in DOMAIN T.cubes : cdist0(T.cubes[k], c) =>
          \E l \in DOMAIN cofactor(T, c).cubes : cofactor(T, c).cubes[l] = T.cubes[k]
    BY ONLY <2>0, CofactorFacts
  <2>3. T.cof \cup (Parts \ c) = Parts \ c
    BY <1>1
  <2>4. S = cofactor(T, c)
    OBVIOUS
  <2> HIDE DEF S
  <2> QED BY <2>1, <2>2, <2>3, <2>4
<1> HIDE DEF S
<1>4. Open(S)
  BY <1>3, MaskFacts DEF Open
<1>5. ASSUME NEW x \in Points, x \cap S.cof = {} PROVE \E l \in DOMAIN S.cubes : x \subseteq S.cubes[l]
  <2>1. x \subseteq c
    BY <1>3, <1>5, PointFacts
  <2>2. PICK k \in DOMAIN T.cubes : x \subseteq T.cubes[k]
    BY <1>2, <2>1 DEF Pts
  <2>3. cdist0(T.cubes[k], c)
    <3> SUFFICES ASSUME NEW v \in Vars PROVE var_mask[v] \cap T.cubes[k] \cap c # {}
      BY DEF cdist0
    <3>1. PICK q : x \cap var_mask[v] = {q}
      BY PointFacts
    <3> QED BY <2>1, <2>2, <3>1
  <2> QED BY <1>3, <2>2, <2>3
<1>6. taut[S]
  BY <1>3, <1>4, <1>5, TautSeen DEF Fills
<1> QED BY <1>6 DEF cube_is_covered, tautology, S, T

(***************************************************************************)
(* Minimum column covers.  The elements of a finite matrix.                *)
(***************************************************************************)
LEMMA MatrixFacts ==
  ASSUME NEW A \in Matrices
  PROVE  /\ IsFiniteSet(A) /\ A \subseteq Nat \X Nat
         /\ Rows(A) \subseteq Nat /\ Cols(A) \subseteq Nat
         /\ IsFiniteSet(Rows(A)) /\ IsFiniteSet(Cols(A))
         /\ Cardinality(Rows(A)) \in Nat /\ Cardinality(Cols(A)) \in Nat /\ Cardinality(A) \in Nat
         /\ \A r : /\ sm_row(A, r) \subseteq Cols(A) /\ IsFiniteSet(sm_row(A, r))
                   /\ Cardinality(sm_row(A, r)) \in Nat
                   /\ r \in Rows(A) <=> sm_row(A, r) # {}
         /\ \A c : /\ sm_col(A, c) \subseteq Rows(A) /\ IsFiniteSet(sm_col(A, c))
                   /\ Cardinality(sm_col(A, c)) \in Nat
                   /\ c \in Cols(A) <=> sm_col(A, c) # {}
         /\ \A r, c : (<<r, c>> \in A <=> c \in sm_row(A, r)) /\ (<<r, c>> \in A <=> r \in sm_col(A, c))
<1>1. IsFiniteSet(A) /\ A \subseteq Nat \X Nat
  BY DEF Matrices, Finite
<1>2. \A p \in A : p = <<p[1], p[2]>> /\ p[1] \in Nat /\ p[2] \in Nat
  BY <1>1
<1>3. \A r, c : (<<r, c>> \in A <=> c \in sm_row(A, r)) /\ (<<r, c>> \in A <=> r \in sm_col(A, c))
  BY <1>2 DEF sm_row, sm_col
<1>4. Rows(A) \subseteq Nat /\ Cols(A) \subseteq Nat
  BY <1>2 DEF Rows, Cols
<1>5. IsFiniteSet(Rows(A)) /\ IsFiniteSet(Cols(A))
  <2> DEFINE row == [p \in A |-> p[1]]
             col == [p \in A |-> p[2]]
  <2>1. row \in Surjection(A, Rows(A)) /\ col \in Surjection(A, Cols(A))
    BY DEF Surjection, Rows, Cols
  <2> HIDE DEF row, col
  <2> QED BY <1>1, <2>1, FS_Surjection
<1>6. ASSUME NEW r PROVE /\ sm_row(A, r) \subseteq Cols(A)
                         /\ r \in Rows(A) <=> sm_row(A, r) # {}
  BY <1>2 DEF sm_row, Cols, Rows
<1>7. ASSUME NEW c PROVE /\ sm_col(A, c) \subseteq Rows(A)
                         /\ c \in Cols(A) <=> sm_col(A, c) # {}
  BY <1>2 DEF sm_col, Cols, Rows
<1>8. \A r : IsFiniteSet(sm_row(A, r)) /\ Cardinality(sm_row(A, r)) \in Nat
  BY <1>5, <1>6, FS_Subset, FS_CardinalityType
<1>9. \A c : IsFiniteSet(sm_col(A, c)) /\ Cardinality(sm_col(A, c)) \in Nat
  BY <1>5, <1>7, FS_Subset, FS_CardinalityType
<1>10. Cardinality(Rows(A)) \in Nat /\ Cardinality(Cols(A)) \in Nat /\ Cardinality(A) \in Nat
  BY <1>1, <1>5, FS_CardinalityType
<1> QED BY <1>1, <1>3, <1>4, <1>5, <1>6, <1>7, <1>8, <1>9, <1>10

(* A part of a matrix is one.                                              *)
LEMMA PartMatrix ==
  ASSUME NEW A \in Matrices, NEW B \in SUBSET A
  PROVE  /\ B \in Matrices /\ Cardinality(B) <= Cardinality(A)
         /\ B # A => Cardinality(B) < Cardinality(A)
         /\ Rows(B) \subseteq Rows(A) /\ Cols(B) \subseteq Cols(A)
         /\ Cardinality(Cols(B)) <= Cardinality(Cols(A))
         /\ Cols(B) # Cols(A) => Cardinality(Cols(B)) < Cardinality(Cols(A))
         /\ \A r : sm_row(B, r) \subseteq sm_row(A, r)
<1>1. B \in Matrices
  BY MatrixFacts, FS_Subset DEF Matrices, Finite
<1>2. Cardinality(B) <= Cardinality(A) /\ (Cardinality(A) = Cardinality(B) => A = B)
  BY MatrixFacts, FS_Subset
<1>3. Rows(B) \subseteq Rows(A) /\ Cols(B) \subseteq Cols(A)
  BY DEF Rows, Cols
<1>4. Cardinality(Cols(B)) <= Cardinality(Cols(A)) /\ (Cardinality(Cols(A)) = Cardinality(Cols(B)) => Cols(A) = Cols(B))
  BY <1>3, MatrixFacts, FS_Subset
<1>5. Cardinality(A) \in Nat /\ Cardinality(B) \in Nat /\ Cardinality(Cols(A)) \in Nat /\ Cardinality(Cols(B)) \in Nat
  BY <1>1, MatrixFacts
<1>6. \A r : sm_row(B, r) \subseteq sm_row(A, r)
  BY DEF sm_row
<1>7. (B # A => Cardinality(B) < Cardinality(A)) /\ (Cols(B) # Cols(A) => Cardinality(Cols(B)) < Cardinality(Cols(A)))
  BY <1>2, <1>4, <1>5
<1> QED BY <1>1, <1>2, <1>3, <1>4, <1>6, <1>7

(* Deleting rows leaves the others as they are.                            *)
LEMMA DelRowFacts ==
  ASSUME NEW A \in Matrices, NEW R
  PROVE  /\ sm_delrow(A, R) \in SUBSET A
         /\ Rows(sm_delrow(A, R)) = Rows(A) \ R
         /\ \A r : r \notin R => sm_row(sm_delrow(A, R), r) = sm_row(A, r)
<1>1. sm_delrow(A, R) \in SUBSET A
  BY DEF sm_delrow
<1>2. Rows(sm_delrow(A, R)) = Rows(A) \ R
  BY DEF sm_delrow, Rows
<1>3. ASSUME NEW r, r \notin R PROVE sm_row(sm_delrow(A, R), r) = sm_row(A, r)
  BY <1>3 DEF sm_delrow, sm_row
<1> QED BY <1>1, <1>2, <1>3

(* Deleting columns takes them from every row.                             *)
LEMMA DelColFacts ==
  ASSUME NEW A \in Matrices, NEW C
  PROVE  /\ sm_delcol(A, C) \in SUBSET A
         /\ Cols(sm_delcol(A, C)) = Cols(A) \ C
         /\ \A r : sm_row(sm_delcol(A, C), r) = sm_row(A, r) \ C
<1>1. sm_delcol(A, C) \in SUBSET A
  BY DEF sm_delcol
<1>2. Cols(sm_delcol(A, C)) = Cols(A) \ C
  BY DEF sm_delcol, Cols
<1>3. ASSUME NEW r PROVE sm_row(sm_delcol(A, C), r) = sm_row(A, r) \ C
  BY DEF sm_delcol, sm_row
<1> QED BY <1>1, <1>2, <1>3

(* The greatest of two numbers in lexicographic order.                     *)
LEMMA LexMax ==
  ASSUME NEW S, IsFiniteSet(S), S # {}, NEW f \in [S -> Nat], NEW g \in [S -> Nat]
  PROVE  \E v \in S : \A w \in S : f[w] < f[v] \/ (f[w] = f[v] /\ g[w] <= g[v])
<1>1. PICK m \in S : \A w \in S : f[w] <= f[m]
  BY ArgMax
<1> DEFINE T == {w \in S : f[w] = f[m]}
           h == [w \in T |-> g[w]]
<1>2. IsFiniteSet(T) /\ T # {} /\ h \in [T -> Nat]
  BY FS_Subset
<1>3. \E v \in T : \A w \in T : h[w] <= h[v]
  <2> HIDE DEF T, h
  <2> QED BY <1>2, ArgMax
<1>4. PICK v \in T : \A w \in T : g[w] <= g[v]
  BY <1>3
<1>5. ASSUME NEW w \in S PROVE f[w] < f[v] \/ (f[w] = f[v] /\ g[w] <= g[v])
  <2>1. f[w] \in Nat /\ f[m] \in Nat /\ f[v] = f[m] /\ f[w] <= f[m]
    BY <1>1
  <2>2. CASE f[w] = f[m]
    BY <1>4, <2>1, <2>2
  <2>3. CASE f[w] # f[m]
    BY <2>1, <2>3
  <2> QED BY <2>2, <2>3
<1> QED BY <1>5

(***************************************************************************)
(* What a solution below has to do with the matrix above: it extends the   *)
(* selection by columns of the matrix that meet every row, and if it has   *)
(* all the columns then every column has a row of its own.                 *)
(***************************************************************************)
Alone(A) == \A c \in Cols(A) : \E r \in Rows(A) : sm_row(A, r) = {c}
Solves(P, s) ==
  /\ P.select.row \subseteq s.row /\ s.row \subseteq P.select.row \cup Cols(P.A)
  /\ \A r \in Rows(P.A) : sm_row(P.A, r) \cap s.row # {}
  /\ Cols(P.A) \subseteq s.row => Alone(P.A)

(* A problem that leaves room below the bound.                             *)
Problems == [A : Matrices, select : Solutions]
Roomy(P, bound) ==
  /\ P.select.row \cap Cols(P.A) = {} /\ P.select.cost \in Nat
  /\ P.select.cost + Cardinality(Cols(P.A)) < bound

(* Some row of fewest columns is in each row and stays.                    *)
LEMMA RowDominance ==
  ASSUME NEW A \in Matrices
  PROVE  /\ sm_row_dominance(A) \in SUBSET A
         /\ \A r \in Rows(sm_row_dominance(A)) : sm_row(sm_row_dominance(A), r) = sm_row(A, r)
         /\ \A r \in Rows(A) : \E q \in Rows(sm_row_dominance(A)) :
               sm_row(sm_row_dominance(A), q) \subseteq sm_row(A, r)
<1> DEFINE after(r1, r) == \/ Cardinality(sm_row(A, r1)) > Cardinality(sm_row(A, r))
                           \/ sm_row(A, r1) = sm_row(A, r) /\ r1 > r
           gone == {r1 \in Rows(A) : \E r \in Rows(A) : after(r1, r) /\ sm_row(A, r) \subseteq sm_row(A, r1)}
<1>1. sm_row_dominance(A) = sm_delrow(A, gone)
  BY DEF sm_row_dominance
<1>2. ASSUME NEW r \in Rows(A) PROVE \E q \in Rows(A) \ gone : sm_row(A, q) \subseteq sm_row(A, r)
  <2> DEFINE S == {q \in Rows(A) : sm_row(A, q) \subseteq sm_row(A, r)}
             n == Cardinality(Cols(A))
             m == [q \in S |-> Cardinality(sm_row(A, q))]
  <2>1. \A q \in S : q \in Nat /\ m[q] = Cardinality(sm_row(A, q)) /\ m[q] \in Nat
    BY MatrixFacts
  <2>2. m \in [S -> Nat] /\ r \in S
    BY <2>1
  <2>3. PICK k \in Nat : (\E q \in S : m[q] = k) /\ \A q \in S : k <= m[q]
    <3> DEFINE N == {m[q] : q \in S}
    <3>1. N \in SUBSET Nat /\ N # {}
      BY <2>1, <2>2
    <3>2. PICK k \in N : \A j \in N : k <= j
      <4> HIDE DEF N
      <4> QED BY <3>1, LeastNat
    <3> QED BY <3>1, <3>2
  <2> DEFINE least == {q \in S : m[q] = k}
  <2>4. least \in SUBSET Nat /\ least # {}
    BY <2>1, <2>3
  <2>5. PICK q \in least : \A p \in least : q <= p
    <3> HIDE DEF least
    <3> QED BY <2>4, LeastNat
  <2>6. ASSUME q \in gone PROVE FALSE
    <3>1. PICK p \in Rows(A) : after(q, p) /\ sm_row(A, p) \subseteq sm_row(A, q)
      BY <2>6
    <3>2. p \in S /\ q \in S
      BY <3>1
    <3>3. m[p] \in Nat /\ m[q] = k /\ k <= m[p] /\ p \in Nat /\ q \in Nat
      BY <2>1, <2>3, <3>2
    <3>4. CASE Cardinality(sm_row(A, q)) > Cardinality(sm_row(A, p))
      BY <2>1, <3>2, <3>3, <3>4
    <3>5. CASE sm_row(A, q) = sm_row(A, p) /\ q > p
      <4>1. m[p] = k
        BY <3>2, <3>3, <3>5
      <4>2. q <= p
        BY <2>5, <3>2, <4>1
      <4> QED BY <3>3, <3>5, <4>2
    <3> QED BY <3>1, <3>4, <3>5
  <2> QED BY <2>6
<1> HIDE DEF gone
<1>3. /\ sm_delrow(A, gone) \in SUBSET A /\ Rows(sm_delrow(A, gone)) = Rows(A) \ gone
      /\ \A r : r \notin gone => sm_row(sm_delrow(A, gone), r) = sm_row(A, r)
  BY DelRowFacts
<1>4. ASSUME NEW r \in Rows(A)
      PROVE  \E q \in Rows(sm_delrow(A, gone)) : sm_row(sm_delrow(A, gone), q) \subseteq sm_row(A, r)
  BY <1>2, <1>3
<1> QED BY <1>1, <1>3, <1>4

(* Every row keeps one of its columns.                                     *)
LEMMA ColDominance ==
  ASSUME NEW A \in Matrices
  PROVE  /\ sm_col_dominance(A) \in SUBSET A /\ Rows(sm_col_dominance(A)) = Rows(A)
         /\ \A r : sm_row(sm_col_dominance(A), r) \subseteq sm_row(A, r)
         /\ Cols(sm_col_dominance(A)) = Cols(A) => sm_col_dominance(A) = A
<1> DEFINE after(c1, c) == \/ Cardinality(sm_col(A, c1)) > Cardinality(sm_col(A, c))
                           \/ sm_col(A, c1) = sm_col(A, c) /\ c1 > c
           gone == {c \in Cols(A) : \E c1 \in Cols(A) : after(c1, c) /\ sm_col(A, c) \subseteq sm_col(A, c1)}
<1>1. sm_col_dominance(A) = sm_delcol(A, gone)
  BY DEF sm_col_dominance
<1>2. ASSUME NEW r \in Rows(A) PROVE \E c \in sm_row(A, r) : c \notin gone
  <2> DEFINE S == sm_row(A, r)
             f == [c \in S |-> Cardinality(sm_col(A, c))]
             g == [c \in S |-> c]
  <2>1. IsFiniteSet(S) /\ S # {} /\ S \subseteq Cols(A) /\ S \subseteq Nat /\ f \in [S -> Nat] /\ g \in [S -> Nat]
    BY MatrixFacts
  <2>2. PICK c \in S : \A d \in S : f[d] < f[c] \/ (f[d] = f[c] /\ g[d] <= g[c])
    <3> HIDE DEF S, f, g
    <3> QED BY <2>1, LexMax
  <2>3. ASSUME c \in gone PROVE FALSE
    <3>1. PICK d \in Cols(A) : after(d, c) /\ sm_col(A, c) \subseteq sm_col(A, d)
      BY <2>3
    <3>2. r \in sm_col(A, c)
      BY MatrixFacts
    <3>3. d \in S
      BY <3>1, <3>2, MatrixFacts
    <3>4. f[d] = Cardinality(sm_col(A, d)) /\ f[c] = Cardinality(sm_col(A, c)) /\ f[d] \in Nat /\ f[c] \in Nat
          /\ g[d] = d /\ g[c] = c /\ c \in Nat /\ d \in Nat
      BY <2>1, <3>3
    <3>5. f[d] < f[c] \/ (f[d] = f[c] /\ d <= c)
      BY <2>2, <3>3, <3>4
    <3>6. f[d] > f[c] \/ (f[d] = f[c] /\ d > c)
      BY <3>1, <3>4
    <3> HIDE DEF f
    <3> QED BY <3>4, <3>5, <3>6
  <2> QED BY <2>3
<1> HIDE DEF gone
<1>3. /\ sm_delcol(A, gone) \in SUBSET A /\ Cols(sm_delcol(A, gone)) = Cols(A) \ gone
      /\ \A r : sm_row(sm_delcol(A, gone), r) = sm_row(A, r) \ gone
  BY DelColFacts
<1>4. sm_delcol(A, gone) \in Matrices
  BY <1>3, PartMatrix
<1>5. Rows(sm_delcol(A, gone)) = Rows(A)
  <2>1. \A r : r \in Rows(sm_delcol(A, gone)) <=> sm_row(A, r) \ gone # {}
    BY <1>3, <1>4, MatrixFacts
  <2>2. \A r : r \in Rows(A) <=> sm_row(A, r) # {}
    BY MatrixFacts
  <2> QED BY <1>2, <2>1, <2>2
<1>6. ASSUME Cols(sm_delcol(A, gone)) = Cols(A) PROVE sm_delcol(A, gone) = A
  <2>1. \A p \in A : p[2] \in Cols(A)
    BY DEF Cols
  <2>2. \A p \in A : p[2] \notin gone
    BY <1>3, <1>6, <2>1
  <2> QED BY <2>2 DEF sm_delcol
<1> QED BY <1>1, <1>3, <1>5, <1>6

(* A function that calls itself last, on ever smaller arguments, exists.   *)
LastCall(S, stop, out, next, h) == [x \in S |-> IF x \in stop THEN out[x] ELSE h[next[x]]]

(* Every call is stopped or goes on with a smaller argument.               *)
Descends(S, V, m, stop, out, next) ==
  /\ V # {} /\ m \in [S -> Nat]
  /\ \A x \in S : x \in stop => out[x] \in V
  /\ \A x \in S : x \notin stop => next[x] \in S /\ m[next[x]] < m[x]

(* Such a function is found by recursion along the measure.                *)
LEMMA LastCallsExist ==
  ASSUME NEW S, NEW V, NEW m, NEW stop, NEW out, NEW next, Descends(S, V, m, stop, out, next)
  PROVE  \E h \in [S -> V] : h = LastCall(S, stop, out, next, h)
<1> USE DEF Descends
<1> DEFINE B == [f \in [S -> V] |-> LastCall(S, stop, out, next, f)]
<1>1. B \in [[S -> V] -> [S -> V]]
  BY DEF LastCall
<1>2. \A f \in [S -> V], g \in [S -> V], x \in S :
        (\A y \in S : m[y] < m[x] => f[y] = g[y]) => B[f][x] = B[g][x]
  BY DEF LastCall
<1>3. \E h \in [S -> V] : h = B[h]
  <2>1. Recursion(S, V, m, B)
    <3> HIDE DEF B
    <3> QED BY <1>1, <1>2 DEF Recursion
  <2> HIDE DEF B
  <2> QED BY <2>1, MeasureRecursion
<1> QED BY <1>3

(* A fold over the subsets of a finite set, one element after the other.   *)
Folding(S, e, g, h) == [s \in SUBSET S |-> IF s = {} THEN e ELSE g[<<Taken(s), h[s \ {Taken(s)}]>>]]

(* Folds exist and keep the type of what they add up.                      *)
FoldExists(S, V, e, g) == \E h \in [SUBSET S -> V] : h = Folding(S, e, g, h)

(* There are folds.                                                        *)
LEMMA FoldsExist ==
  ASSUME NEW S, IsFiniteSet(S), NEW V, NEW e \in V, NEW g \in [S \X V -> V]
  PROVE  FoldExists(S, V, e, g)
<1> DEFINE D == SUBSET S
           m == [s \in D |-> Cardinality(s)]
           B == [h \in [D -> V] |-> Folding(S, e, g, h)]
<1>1. m \in [D -> Nat]
  BY FS_Subset, FS_CardinalityType
<1>2. \A s \in D : s # {} => Taken(s) \in S /\ s \ {Taken(s)} \in D /\ m[s \ {Taken(s)}] < m[s]
  BY TakenFrom
<1> HIDE DEF m
<1>3. B \in [[D -> V] -> [D -> V]]
  <2> SUFFICES ASSUME NEW h \in [D -> V], NEW s \in D, s # {} PROVE g[<<Taken(s), h[s \ {Taken(s)}]>>] \in V
    BY DEF Folding
  <2>1. Taken(s) \in S /\ h[s \ {Taken(s)}] \in V
    BY <1>2
  <2> QED BY <2>1
<1>4. \A f \in [D -> V], h \in [D -> V], s \in D :
        (\A t \in D : m[t] < m[s] => f[t] = h[t]) => B[f][s] = B[h][s]
  <2> SUFFICES ASSUME NEW f \in [D -> V], NEW h \in [D -> V], NEW s \in D,
                      \A t \in D : m[t] < m[s] => f[t] = h[t]
               PROVE  Folding(S, e, g, f)[s] = Folding(S, e, g, h)[s]
    OBVIOUS
  <2>1. CASE s = {}
    BY <2>1 DEF Folding
  <2>2. CASE s # {}
    <3>1. f[s \ {Taken(s)}] = h[s \ {Taken(s)}]
      BY <1>2, <2>2
    <3> QED BY <2>2, <3>1 DEF Folding
  <2> QED BY <2>1, <2>2
<1>5. \E h \in [D -> V] : h = B[h]
  <2>1. Recursion(D, V, m, B)
    <3> HIDE DEF B, D
    <3> QED BY <1>1, <1>3, <1>4 DEF Recursion
  <2> HIDE DEF B, D
  <2> QED BY <2>1, MeasureRecursion
<1> QED BY <1>5 DEF FoldExists

(* A fold that keeps a type as it goes on has it in the end.               *)
LEMMA FoldsTyped ==
  ASSUME NEW S, IsFiniteSet(S), NEW V, NEW h, h[{}] \in V,
         \A s \in SUBSET S : s # {} /\ h[s \ {Taken(s)}] \in V => h[s] \in V
  PROVE  h[S] \in V
<1> DEFINE D == SUBSET S
           m == [s \in D |-> Cardinality(s)]
           P == {s \in D : h[s] \in V}
<1>1. m \in [D -> Nat]
  BY FS_Subset, FS_CardinalityType
<1>2. \A s \in D : s # {} => s \ {Taken(s)} \in D /\ m[s \ {Taken(s)}] < m[s]
  BY TakenFrom
<1> HIDE DEF m
<1>3. \A s \in D : (\A t \in D : m[t] < m[s] => t \in P) => s \in P
  <2> SUFFICES ASSUME NEW s \in D, \A t \in D : m[t] < m[s] => t \in P PROVE h[s] \in V
    OBVIOUS
  <2>1. CASE s = {}
    BY <2>1
  <2>2. CASE s # {}
    <3>1. h[s \ {Taken(s)}] \in V
      BY <1>2, <2>2
    <3> QED BY <2>2, <3>1
  <2> QED BY <2>1, <2>2
<1>4. D \subseteq P
  <2> HIDE DEF P, D
  <2> QED BY <1>1, <1>3, MeasureInduction
<1> QED BY <1>4

(* Every element of a finite set of numbers is listed once.                *)
LEMMA InOrderFacts ==
  ASSUME NEW S \in SUBSET Nat, IsFiniteSet(S)
  PROVE  /\ Cardinality(S) \in Nat
         /\ \A k \in 1 .. Cardinality(S) : InOrder(S)[k] \in S
         /\ \A x \in S : \E k \in 1 .. Cardinality(S) : InOrder(S)[k] = x
BY IncreasingOrder, ListingFacts, FS_CardinalityType DEF InOrder

(* The smaller and the greater of two numbers.                             *)
LEMMA MinMax ==
  ASSUME NEW a \in Int, NEW b \in Int
  PROVE  /\ Min({a, b}) = IF a <= b THEN a ELSE b
         /\ Max({a, b}) = IF a >= b THEN a ELSE b
<1>1. CASE a <= b
  <2>1. \A x \in {a, b} : (\A y \in {a, b} : x =< y) <=> x = a
    BY <1>1
  <2> QED BY <1>1, <2>1 DEF Min, Max
<1>2. CASE ~ (a <= b)
  BY <1>2 DEF Min, Max
<1> QED BY <1>1, <1>2

(* A finite set with an element counts at least one.                       *)
LEMMA AtLeastOne ==
  ASSUME NEW S, IsFiniteSet(S), S # {} PROVE Cardinality(S) \in Nat /\ Cardinality(S) >= 1
<1>1. Cardinality(S) \in Nat /\ Cardinality(S) # 0
  BY FS_EmptySet, FS_CardinalityType
<1> QED BY <1>1

(* The columns that some row needs are columns, and none is one when the   *)
(* list is empty.                                                          *)
LEMMA EssenFacts ==
  ASSUME NEW A \in Matrices
  PROVE  /\ Essen(A) \subseteq Cols(A) /\ Essen(A) \subseteq Nat /\ IsFiniteSet(Essen(A))
         /\ Cardinality(Essen(A)) \in Nat /\ Cardinality(Essen(A)) <= Cardinality(Cols(A))
         /\ \A c : c \in Essen(A) <=> \E r \in Rows(A) : sm_row(A, r) = {c}
<1>1. \A r \in Rows(A) : IsFiniteSet(sm_row(A, r)) /\ sm_row(A, r) \subseteq Cols(A)
  BY MatrixFacts
<1>2. ASSUME NEW r \in Rows(A) PROVE Cardinality(sm_row(A, r)) = 1 <=> \E c : sm_row(A, r) = {c}
  BY <1>1, FS_Singleton
<1>3. \A c : c \in Essen(A) <=> \E r \in Rows(A) : sm_row(A, r) = {c}
  BY <1>2 DEF Essen
<1>4. Essen(A) \subseteq Cols(A)
  BY <1>1, <1>3
<1>5. IsFiniteSet(Cols(A)) /\ Cols(A) \subseteq Nat
  BY MatrixFacts
<1>6. IsFiniteSet(Essen(A)) /\ Cardinality(Essen(A)) <= Cardinality(Cols(A)) /\ Cardinality(Essen(A)) \in Nat
  BY <1>4, <1>5, FS_Subset, FS_CardinalityType
<1> QED BY <1>3, <1>4, <1>5, <1>6

(* What accepting columns makes of a problem.                              *)
Accepted(P, C, Q) ==
  /\ Q \in Problems /\ Q.A \in SUBSET P.A
  /\ Q.select.row = P.select.row \cup C /\ Q.select.cost = P.select.cost + Cardinality(C)
  /\ Cols(Q.A) \subseteq Cols(P.A) \ C
  /\ C # {} => Q.A # P.A
  /\ C = {} => Q = P
  /\ \A r \in Rows(Q.A) : sm_row(Q.A, r) = sm_row(P.A, r)
  /\ \A r \in Rows(P.A) : r \in Rows(Q.A) \/ sm_row(P.A, r) \cap C # {}
  /\ IsFiniteSet(C) /\ Cardinality(C) \in Nat

(* Accepting columns takes them and drops the rows they meet.              *)
LEMMA AcceptFacts ==
  ASSUME NEW P \in Problems, NEW C \in SUBSET Cols(P.A)
  PROVE  Accepted(P, C, solution_accept(P, C))
<1> DEFINE Q == solution_accept(P, C)
<1> DEFINE gone == UNION {sm_col(P.A, c) : c \in C}
<1>0. /\ P.A \in Matrices /\ P.select \in Solutions /\ P.select.row \subseteq Nat
      /\ IsFiniteSet(P.select.row) /\ P.select.cost \in Int
      /\ P = [A |-> P.A, select |-> [row |-> P.select.row, cost |-> P.select.cost]]
  BY DEF Problems, Solutions, Finite
<1>1. Q.A = sm_delrow(P.A, gone) /\ Q.select = solution_add(P.select, C)
      /\ Q = [A |-> Q.A, select |-> Q.select]
  BY DEF solution_accept
<1> HIDE DEF Q
<1> HIDE DEF gone
<1>2. Q.A \in SUBSET P.A /\ Q.A \in Matrices /\ Rows(Q.A) = Rows(P.A) \ gone
      /\ \A r : r \notin gone => sm_row(Q.A, r) = sm_row(P.A, r)
  BY <1>0, <1>1, DelRowFacts, PartMatrix
<1>3. IsFiniteSet(C) /\ C \subseteq Nat /\ Cardinality(C) \in Nat
  BY <1>0, MatrixFacts, FS_Subset, FS_CardinalityType
<1>4. /\ Q.select.row = P.select.row \cup C /\ Q.select.cost = P.select.cost + Cardinality(C)
      /\ Q.select = [row |-> Q.select.row, cost |-> Q.select.cost]
  BY <1>1 DEF solution_add
<1>5. IsFiniteSet(P.select.row \cup C)
  BY <1>0, <1>3, FS_Union
<1>6. Q.select \in Solutions
  <2>1. Q.select.row \in Finite(Nat)
    BY <1>0, <1>3, <1>4, <1>5 DEF Finite
  <2>2. Q.select.cost \in Int
    BY <1>0, <1>3, <1>4
  <2> QED BY <1>4, <2>1, <2>2 DEF Solutions
<1>7. Q \in Problems
  BY <1>1, <1>2, <1>6 DEF Problems
<1>8. \A r : r \in gone <=> \E c \in C : c \in sm_row(P.A, r)
  <2>1. \A r, c : r \in sm_col(P.A, c) <=> c \in sm_row(P.A, r)
    BY <1>0, MatrixFacts
  <2> QED BY <2>1 DEF gone
<1>9. ASSUME NEW c \in Cols(Q.A) PROVE c \in Cols(P.A) \ C
  <2>1. PICK r : r \in sm_col(Q.A, c)
    BY <1>2, <1>9, MatrixFacts
  <2>2. r \in Rows(Q.A) /\ c \in sm_row(Q.A, r)
    BY <1>2, <2>1, MatrixFacts
  <2>3. r \notin gone /\ c \in sm_row(P.A, r)
    BY <1>2, <2>2
  <2> QED BY <1>0, <1>8, <2>3, MatrixFacts
<1>10. ASSUME C # {} PROVE Q.A # P.A
  <2>1. PICK c \in C : TRUE
    BY <1>10
  <2> QED BY <1>9, <2>1
<1>11. ASSUME C = {} PROVE Q = P
  <2>1. gone = {}
    BY <1>11 DEF gone
  <2>2. Q.A = P.A
    BY <1>1, <2>1 DEF sm_delrow
  <2>3. Cardinality(C) = 0
    BY <1>11, FS_EmptySet
  <2>4. Q.select.row = P.select.row /\ Q.select.cost = P.select.cost
    BY <1>0, <1>4, <1>11, <2>3
  <2> QED BY <1>0, <1>1, <1>4, <2>2, <2>4
<1>12. \A r \in Rows(Q.A) : sm_row(Q.A, r) = sm_row(P.A, r)
  BY <1>2
<1>13. \A r \in Rows(P.A) : r \in Rows(Q.A) \/ sm_row(P.A, r) \cap C # {}
  BY <1>2, <1>8
<1>14. Accepted(P, C, Q)
  BY <1>2, <1>3, <1>4, <1>7, <1>9, <1>10, <1>11, <1>12, <1>13 DEF Accepted
<1> QED BY <1>14 DEF Q

(* The needed columns are taken, all of them if there is room.             *)
LEMMA SelectEssenFacts ==
  ASSUME NEW P \in Problems, NEW bound \in Int
  PROVE  \E C \in SUBSET Essen(P.A) :
           /\ SelectEssen(P, bound) = solution_accept(P, C)
           /\ C = {} <=> Essen(P.A) = {}
           /\ Roomy(P, bound) => C = Essen(P.A)
<1> DEFINE E == Essen(P.A)
           at == InOrder(E)
           count == Min({Cardinality(E), Max({1, bound - P.select.cost})})
           C == {at[k] : k \in 1 .. count}
<1>0. P.A \in Matrices /\ P.select.cost \in Int
  BY DEF Problems, Solutions
<1>1. /\ E \subseteq Cols(P.A) /\ E \subseteq Nat /\ IsFiniteSet(E)
      /\ Cardinality(E) \in Nat /\ Cardinality(E) <= Cardinality(Cols(P.A))
  BY <1>0, EssenFacts
<1>2. /\ \A k \in 1 .. Cardinality(E) : at[k] \in E
      /\ \A x \in E : \E k \in 1 .. Cardinality(E) : at[k] = x
  <2> HIDE DEF E
  <2> QED BY <1>1, InOrderFacts
<1>3. SelectEssen(P, bound) = solution_accept(P, C)
  BY DEF SelectEssen
<1> DEFINE most == Max({1, bound - P.select.cost})
<1>4. most \in Int /\ most >= 1 /\ most >= bound - P.select.cost
  <2>1. bound - P.select.cost \in Int
    BY <1>0
  <2> DEFINE room == bound - P.select.cost
  <2>2. room \in Int /\ most = Max({1, room})
    BY <2>1
  <2> HIDE DEF most, room
  <2>3. most = IF 1 >= room THEN 1 ELSE room
    <3>1. ASSUME NEW a \in Int, a = 1 PROVE Max({a, room}) = IF a >= room THEN a ELSE room
      BY <2>2, MinMax
    <3> QED BY <2>2, <3>1
  <2>4. most \in Int /\ most >= 1 /\ most >= room
    BY <2>2, <2>3
  <2> QED BY <2>4 DEF room
<1>5. count = IF Cardinality(E) <= most THEN Cardinality(E) ELSE most
  <2> HIDE DEF most, E
  <2>1. count = Min({Cardinality(E), most})
    BY DEF most
  <2> HIDE DEF count
  <2> QED BY <1>1, <1>4, <2>1, MinMax
<1> HIDE DEF most, count, E, at
<1>6. count \in Nat /\ count <= Cardinality(E)
  BY <1>1, <1>4, <1>5
<1>7. C \in SUBSET E
  <2>1. \A k \in 1 .. count : k \in 1 .. Cardinality(E)
    BY <1>1, <1>6
  <2> QED BY <1>2, <2>1
<1>8. C = {} <=> E = {}
  <2>1. E = {} <=> Cardinality(E) = 0
    BY <1>1, FS_EmptySet
  <2>2. E = {} => count = 0
    BY <1>6, <2>1
  <2>3. E # {} => count >= 1
    <3>1. E # {} => Cardinality(E) >= 1
      BY <1>1, AtLeastOne
    <3> QED BY <1>1, <1>4, <1>5, <3>1
  <2> QED BY <1>6, <2>2, <2>3, <1>7
<1>9. ASSUME Roomy(P, bound) PROVE C = E
  <2>1. Cardinality(E) <= most
    <3>1. Cardinality(Cols(P.A)) \in Nat
      BY <1>0, MatrixFacts
    <3> QED BY <1>0, <1>1, <1>4, <1>9, <3>1 DEF Roomy
  <2>2. count = Cardinality(E)
    BY <1>5, <2>1
  <2> QED BY <1>2, <1>7, <2>2
<1> QED BY <1>3, <1>7, <1>8, <1>9 DEF E

(* Problems are equal when matrix and selection are.                       *)
LEMMA ProblemParts ==
  ASSUME NEW P \in Problems
  PROVE  /\ P.A \in Matrices /\ P.select \in Solutions /\ P.select.cost \in Int
         /\ P = [A |-> P.A, select |-> P.select]
BY DEF Problems, Solutions

(* The matrix of a problem replaced by a part of it.                       *)
Pruned(P, Q) == Q \in Problems /\ Q.A \in SUBSET P.A /\ Q.select = P.select /\ (Q.A = P.A => Q = P)

(* Such a replacement leaves a problem.                                    *)
LEMMA PrunedFacts ==
  ASSUME NEW P \in Problems, NEW B \in SUBSET P.A, NEW Q, Q = [P EXCEPT !.A = B]
  PROVE  Pruned(P, Q) /\ Q.A = B
<1>1. Q.A = B /\ Q.select = P.select /\ Q = [A |-> B, select |-> P.select]
  BY ProblemParts DEF Problems
<1>2. B \in Matrices
  BY ProblemParts, PartMatrix
<1> QED BY <1>1, <1>2, ProblemParts DEF Pruned, Problems

(* Less of a matrix leaves more room.                                      *)
LEMMA PrunedRoomy ==
  ASSUME NEW P \in Problems, NEW Q, Pruned(P, Q), NEW bound \in Int, Roomy(P, bound)
  PROVE  Roomy(Q, bound)
<1>1. Q.A \in SUBSET P.A /\ Q.select = P.select /\ P.A \in Matrices /\ Q.A \in Matrices
  BY ProblemParts DEF Pruned
<1>2. Cols(Q.A) \subseteq Cols(P.A) /\ Cardinality(Cols(Q.A)) <= Cardinality(Cols(P.A))
  BY <1>1, PartMatrix
<1>3. Cardinality(Cols(Q.A)) \in Nat /\ Cardinality(Cols(P.A)) \in Nat
  BY <1>1, MatrixFacts
<1> QED BY <1>1, <1>2, <1>3 DEF Roomy

(* What solves a problem without its dominated columns solves it.          *)
LEMMA DominatedFacts ==
  ASSUME NEW P \in Problems
  PROVE  /\ Pruned(P, Dominated(P))
         /\ \A bound \in Int : \A s : Roomy(P, bound) /\ Solves(Dominated(P), s) => Solves(P, s)
<1> DEFINE Q == Dominated(P)
<1>0. P.A \in Matrices
  BY ProblemParts
<1>1. /\ sm_col_dominance(P.A) \in SUBSET P.A /\ Rows(sm_col_dominance(P.A)) = Rows(P.A)
      /\ \A r : sm_row(sm_col_dominance(P.A), r) \subseteq sm_row(P.A, r)
      /\ Cols(sm_col_dominance(P.A)) = Cols(P.A) => sm_col_dominance(P.A) = P.A
  BY <1>0, ColDominance
<1>2. Q = [P EXCEPT !.A = sm_col_dominance(P.A)]
  BY DEF Dominated
<1>3. Pruned(P, Q) /\ Q.A = sm_col_dominance(P.A)
  BY <1>1, <1>2, PrunedFacts
<1> HIDE DEF Q
<1>4. ASSUME NEW bound \in Int, NEW s, Roomy(P, bound), Solves(Q, s) PROVE Solves(P, s)
  <2>1. Q.A \in SUBSET P.A /\ Q.select = P.select /\ Rows(Q.A) = Rows(P.A)
        /\ \A r : sm_row(Q.A, r) \subseteq sm_row(P.A, r)
    BY <1>1, <1>3 DEF Pruned
  <2>2. Cols(Q.A) \subseteq Cols(P.A)
    BY <1>0, <2>1, PartMatrix
  <2>3. ASSUME Cols(P.A) \subseteq s.row PROVE Alone(P.A)
    <3>1. Cols(Q.A) = Cols(P.A)
      BY <1>4, <2>1, <2>2, <2>3 DEF Roomy, Solves
    <3>2. Q.A = P.A
      BY <1>1, <1>3, <3>1
    <3> QED BY <1>4, <2>3, <3>2 DEF Solves
  <2> QED BY <1>4, <2>1, <2>2, <2>3 DEF Solves
<1> QED BY <1>3, <1>4 DEF Q

(* The same of the dominated rows.                                         *)
LEMMA DominatedRowsFacts ==
  ASSUME NEW P \in Problems, NEW Q, Q = [P EXCEPT !.A = sm_row_dominance(P.A)]
  PROVE  /\ Pruned(P, Q)
         /\ \A bound \in Int : \A s : Roomy(P, bound) /\ Solves(Q, s) => Solves(P, s)
<1>0. P.A \in Matrices
  BY ProblemParts
<1>1. /\ sm_row_dominance(P.A) \in SUBSET P.A
      /\ \A r \in Rows(sm_row_dominance(P.A)) : sm_row(sm_row_dominance(P.A), r) = sm_row(P.A, r)
      /\ \A r \in Rows(P.A) : \E q \in Rows(sm_row_dominance(P.A)) :
            sm_row(sm_row_dominance(P.A), q) \subseteq sm_row(P.A, r)
  BY <1>0, RowDominance
<1>2. Pruned(P, Q) /\ Q.A = sm_row_dominance(P.A)
  BY <1>1, PrunedFacts
<1>3. ASSUME NEW bound \in Int, NEW s, Roomy(P, bound), Solves(Q, s) PROVE Solves(P, s)
  <2>1. /\ Q.A \in SUBSET P.A /\ Q.select = P.select
        /\ \A r \in Rows(Q.A) : sm_row(Q.A, r) = sm_row(P.A, r)
        /\ \A r \in Rows(P.A) : \E q \in Rows(Q.A) : sm_row(Q.A, q) \subseteq sm_row(P.A, r)
    BY <1>1, <1>2 DEF Pruned
  <2>2. Cols(Q.A) \subseteq Cols(P.A) /\ Rows(Q.A) \subseteq Rows(P.A)
    BY <1>0, <2>1, PartMatrix
  <2>3. ASSUME Cols(P.A) \subseteq s.row PROVE Alone(P.A)
    <3>1. Cols(Q.A) = Cols(P.A)
      BY <1>3, <2>1, <2>2, <2>3 DEF Roomy, Solves
    <3>2. Alone(Q.A)
      BY <1>3, <2>2, <2>3 DEF Solves
    <3> QED BY <2>1, <2>2, <3>1, <3>2 DEF Alone
  <2>4. ASSUME NEW r \in Rows(P.A) PROVE sm_row(P.A, r) \cap s.row # {}
    <3>1. PICK q \in Rows(Q.A) : sm_row(Q.A, q) \subseteq sm_row(P.A, r)
      BY <2>1
    <3>2. sm_row(Q.A, q) \cap s.row # {}
      BY <1>3 DEF Solves
    <3> QED BY <3>1, <3>2
  <2> QED BY <1>3, <2>1, <2>2, <2>3, <2>4 DEF Solves
<1> QED BY <1>2, <1>3

(* And of the needed columns: none of them may be missing.                 *)
LEMMA AcceptSolves ==
  ASSUME NEW P \in Problems, NEW bound \in Int, Roomy(P, bound),
         NEW Q, Q = solution_accept(P, Essen(P.A))
  PROVE  /\ Roomy(Q, bound)
         /\ \A s : Solves(Q, s) => Solves(P, s)
<1> DEFINE C == Essen(P.A)
<1>0. P.A \in Matrices /\ P.select.cost \in Int
  BY ProblemParts
<1>1. /\ C \subseteq Cols(P.A) /\ Cardinality(C) \in Nat /\ IsFiniteSet(C)
      /\ \A c : c \in C <=> \E r \in Rows(P.A) : sm_row(P.A, r) = {c}
  BY <1>0, EssenFacts
<1> HIDE DEF C
<1>2. Q = solution_accept(P, C)
  BY DEF C
<1>3. /\ Q \in Problems /\ Q.A \in SUBSET P.A
      /\ Q.select.row = P.select.row \cup C /\ Q.select.cost = P.select.cost + Cardinality(C)
      /\ Cols(Q.A) \subseteq Cols(P.A) \ C
      /\ \A r \in Rows(Q.A) : sm_row(Q.A, r) = sm_row(P.A, r)
      /\ \A r \in Rows(P.A) : r \in Rows(Q.A) \/ sm_row(P.A, r) \cap C # {}
  <2>1. Accepted(P, C, solution_accept(P, C))
    BY <1>1, AcceptFacts
  <2> QED BY <1>2, <2>1 DEF Accepted
<1>4. Roomy(Q, bound)
  <2>1. IsFiniteSet(Cols(P.A)) /\ Cardinality(Cols(P.A)) \in Nat
    BY <1>0, MatrixFacts
  <2>2. /\ IsFiniteSet(Cols(P.A) \ C) /\ Cardinality(Cols(P.A) \ C) \in Nat
        /\ Cardinality(Cols(P.A) \ C) = Cardinality(Cols(P.A)) - Cardinality(C)
    <3>1. Cols(P.A) \cap C = C
      BY <1>1
    <3> QED BY <2>1, <3>1, FS_Difference, FS_CardinalityType
  <2>3. Cardinality(Cols(Q.A)) <= Cardinality(Cols(P.A) \ C) /\ Cardinality(Cols(Q.A)) \in Nat
    BY <1>3, <2>2, FS_Subset, FS_CardinalityType
  <2>4. Q.select.row \cap Cols(Q.A) = {}
    BY <1>3 DEF Roomy
  <2>5. P.select.cost \in Nat /\ P.select.cost + Cardinality(Cols(P.A)) < bound
    BY DEF Roomy
  <2> QED BY <1>1, <1>3, <2>1, <2>2, <2>3, <2>4, <2>5 DEF Roomy
<1>5. ASSUME NEW s, Solves(Q, s) PROVE Solves(P, s)
  <2>0. Rows(Q.A) \subseteq Rows(P.A)
    BY <1>0, <1>3, PartMatrix
  <2>1. P.select.row \subseteq s.row /\ C \subseteq s.row /\ s.row \subseteq P.select.row \cup Cols(P.A)
    BY <1>1, <1>3, <1>5 DEF Solves
  <2>2. ASSUME NEW r \in Rows(P.A) PROVE sm_row(P.A, r) \cap s.row # {}
    <3>1. CASE r \in Rows(Q.A)
      BY <1>3, <1>5, <3>1 DEF Solves
    <3>2. CASE sm_row(P.A, r) \cap C # {}
      BY <2>1, <3>2
    <3> QED BY <1>3, <3>1, <3>2
  <2>3. ASSUME Cols(P.A) \subseteq s.row PROVE Alone(P.A)
    <3>1. Alone(Q.A)
      BY <1>3, <1>5, <2>3 DEF Solves
    <3>2. ASSUME NEW c \in Cols(P.A) PROVE \E r \in Rows(P.A) : sm_row(P.A, r) = {c}
      <4>1. CASE c \in C
        BY <1>1, <4>1
      <4>2. CASE c \notin C
        <5>1. c \in Cols(Q.A)
          BY <1>3, <1>5, <2>3, <4>2 DEF Solves, Roomy
        <5>2. PICK r \in Rows(Q.A) : sm_row(Q.A, r) = {c}
          BY <3>1, <5>1 DEF Alone
        <5> QED BY <1>3, <2>0, <5>2
      <4> QED BY <4>1, <4>2
    <3> QED BY <3>2 DEF Alone
  <2> QED BY <2>1, <2>2, <2>3 DEF Solves
<1> QED BY <1>4, <1>5

(* A round of select_essential that leaves the matrix as it was changes    *)
(* nothing, and then there is no needed column.                            *)
LEMMA RoundFacts ==
  ASSUME NEW P \in Problems, NEW bound \in Int, NEW Q, Q = Round(P, bound)
  PROVE  /\ Q \in Problems /\ Q.A \in SUBSET P.A
         /\ Q.A = P.A => Q = P /\ Essen(P.A) = {}
         /\ SelectEssen(Dominated(P), bound) \in Problems
         /\ SelectEssen(Dominated(P), bound).A \in SUBSET P.A
         /\ Roomy(P, bound) => /\ SelectEssen(Dominated(P), bound).select.cost < bound
                               /\ Roomy(Q, bound)
                               /\ \A s : Solves(Q, s) => Solves(P, s)
<1> DEFINE D == Dominated(P)
           S == SelectEssen(D, bound)
<1>1. Pruned(P, D) /\ (\A s : Roomy(P, bound) /\ Solves(D, s) => Solves(P, s))
  BY DominatedFacts
<1>2. D \in Problems /\ D.A \in SUBSET P.A /\ D.A \in Matrices /\ (D.A = P.A => D = P)
  BY <1>1, ProblemParts DEF Pruned
<1> HIDE DEF D
<1>3. PICK C \in SUBSET Essen(D.A) :
        /\ S = solution_accept(D, C)
        /\ C = {} <=> Essen(D.A) = {}
        /\ Roomy(D, bound) => C = Essen(D.A)
  BY <1>2, SelectEssenFacts
<1>4. C \in SUBSET Cols(D.A)
  BY <1>2, EssenFacts
<1> HIDE DEF S
<1>5. S \in Problems /\ S.A \in SUBSET D.A /\ (C # {} => S.A # D.A) /\ (C = {} => S = D)
  <2>1. Accepted(D, C, solution_accept(D, C))
    BY <1>2, <1>4, AcceptFacts
  <2> QED BY <1>3, <2>1 DEF Accepted
<1>6. Q = [S EXCEPT !.A = sm_row_dominance(S.A)]
  BY DEF Round, S, D
<1>7. Pruned(S, Q) /\ (\A s : Roomy(S, bound) /\ Solves(Q, s) => Solves(S, s))
  BY <1>5, <1>6, DominatedRowsFacts
<1>8. Q \in Problems /\ Q.A \in SUBSET S.A /\ (Q.A = S.A => Q = S)
  BY <1>7 DEF Pruned
<1>9. ASSUME Q.A = P.A PROVE Q = P /\ Essen(P.A) = {}
  <2>1. S.A = P.A /\ D.A = P.A /\ Q.A = S.A
    BY <1>2, <1>5, <1>8, <1>9
  <2>2. C = {}
    BY <1>5, <2>1
  <2> QED BY <1>2, <1>3, <1>5, <1>8, <2>1, <2>2
<1>10. ASSUME Roomy(P, bound)
       PROVE  S.select.cost < bound /\ Roomy(Q, bound) /\ (\A s : Solves(Q, s) => Solves(P, s))
  <2>1. Roomy(D, bound)
    BY <1>1, <1>10, PrunedRoomy
  <2>2. S = solution_accept(D, Essen(D.A))
    BY <1>3, <2>1
  <2>3. Roomy(S, bound) /\ (\A s : Solves(S, s) => Solves(D, s))
    BY <1>2, <2>1, <2>2, AcceptSolves
  <2>4. Roomy(Q, bound)
    BY <1>5, <1>7, <2>3, PrunedRoomy
  <2>5. S.select.cost < bound
    <3>1. S.select.cost \in Nat /\ S.select.cost + Cardinality(Cols(S.A)) < bound
      BY <2>3 DEF Roomy
    <3>2. Cardinality(Cols(S.A)) \in Nat
      BY <1>5, ProblemParts, MatrixFacts
    <3> QED BY <3>1, <3>2
  <2> QED BY <1>1, <1>7, <1>10, <2>3, <2>4, <2>5
<1>11. S.A \in SUBSET P.A
  BY <1>2, <1>5
<1>12. Q.A \in SUBSET P.A
  BY <1>8, <1>11
<1> QED BY <1>5, <1>8, <1>9, <1>10, <1>11, <1>12 DEF S, D

(***************************************************************************)
(* What select_essential leaves of a problem: no row needs a column any    *)
(* more unless the bound is reached, which cannot happen where there was   *)
(* room, and then what solves the rest solves the problem.                 *)
(***************************************************************************)
Rounded(P, Q, bound) ==
  /\ Q \in Problems /\ Q.A \in SUBSET P.A
  /\ Q.select.cost >= bound \/ Essen(Q.A) = {}
  /\ Roomy(P, bound) => /\ Q.select.cost < bound
                        /\ Roomy(Q, bound)
                        /\ \A s : Solves(Q, s) => Solves(P, s)

(* The loop of select_essential: where it stops, and with what.            *)
Lost(P, bound) ==
  Essen(Dominated(P).A) # {} /\ SelectEssen(Dominated(P), bound).select.cost >= bound
Stops(bound)   == {P \in Problems : Lost(P, bound) \/ Round(P, bound) = P}
Stopped(bound) == [P \in Problems |-> IF Lost(P, bound) THEN SelectEssen(Dominated(P), bound) ELSE P]
Rounds(bound)  == [P \in Problems |-> Round(P, bound)]

(* The loop ends, and leaves the problem settled.                          *)
LEMMA SelectEssentialFacts ==
  ASSUME NEW A0 \in Matrices, NEW select0 \in Solutions, NEW bound \in Int
  PROVE  Rounded([A |-> A0, select |-> select0], select_essential(A0, select0, bound), bound)
<1> DEFINE m == [P \in Problems |-> Cardinality(P.A)]
           F(h) == LastCall(Problems, Stops(bound), Stopped(bound), Rounds(bound), h)
           loop == CHOOSE h : h = F(h)
           P0 == [A |-> A0, select |-> select0]
<1>0. P0 \in Problems
  BY DEF Problems
<1>1. ASSUME NEW P \in Problems
      PROVE  /\ Stopped(bound)[P] \in Problems
             /\ P \in Stops(bound) => Rounded(P, Stopped(bound)[P], bound)
             /\ P \notin Stops(bound) => Rounds(bound)[P] \in Problems
             /\ P \notin Stops(bound) => m[Rounds(bound)[P]] < m[P]
             /\ P \notin Stops(bound) => \A Q : Rounded(Rounds(bound)[P], Q, bound) => Rounded(P, Q, bound)
  <2> DEFINE R == Round(P, bound)
             S == SelectEssen(Dominated(P), bound)
  <2>1. /\ R \in Problems /\ R.A \in SUBSET P.A
        /\ R.A = P.A => R = P /\ Essen(P.A) = {}
        /\ S \in Problems
        /\ S.A \in SUBSET P.A
        /\ Roomy(P, bound) => /\ S.select.cost < bound
                              /\ Roomy(R, bound)
                              /\ \A s : Solves(R, s) => Solves(P, s)
    BY RoundFacts
  <2>2. Rounds(bound)[P] = R /\ Stopped(bound)[P] = IF Lost(P, bound) THEN S ELSE P
    BY DEF Rounds, Stopped
  <2>3. P \in Stops(bound) <=> Lost(P, bound) \/ R = P
    BY DEF Stops
  <2>4. Lost(P, bound) => S.select.cost >= bound
    BY DEF Lost
  <2> HIDE DEF R, S
  <2>5. CASE Lost(P, bound)
    <3>1. S.select.cost \in Int
      BY <2>1, ProblemParts
    <3>2. Rounded(P, S, bound)
      BY <2>1, <2>4, <2>5, <3>1 DEF Rounded
    <3> QED BY <2>1, <2>2, <2>3, <2>5, <3>2
  <2>6. CASE ~ Lost(P, bound) /\ R = P
    <3>1. Essen(P.A) = {} /\ P.select.cost \in Int
      BY <2>1, <2>6, ProblemParts
    <3>2. Roomy(P, bound) => P.select.cost < bound
      <4>1. Cardinality(Cols(P.A)) \in Nat
        BY ProblemParts, MatrixFacts
      <4> QED BY <4>1, <3>1 DEF Roomy
    <3>3. Rounded(P, P, bound)
      BY <3>1, <3>2 DEF Rounded
    <3> QED BY <2>2, <2>3, <2>6, <3>3
  <2>7. CASE ~ Lost(P, bound) /\ R # P
    <3>1. R.A # P.A
      BY <2>1, <2>7
    <3>2. m[R] < m[P]
      <4>1. Cardinality(R.A) < Cardinality(P.A)
        BY <2>1, <3>1, ProblemParts, PartMatrix
      <4> QED BY <2>1, <4>1
    <3>3. ASSUME NEW Q, Rounded(R, Q, bound) PROVE Rounded(P, Q, bound)
      BY <2>1, <3>3 DEF Rounded
    <3> HIDE DEF m
    <3> QED BY <2>1, <2>2, <2>3, <2>7, <3>2, <3>3
  <2> QED BY <2>5, <2>6, <2>7
<1>2. m \in [Problems -> Nat]
  BY ProblemParts, MatrixFacts
<1> HIDE DEF m
<1>3. \E h \in [Problems -> Problems] : h = F(h)
  <2>1. Problems # {}
    BY <1>0
  <2>2. \A x \in Problems : x \in Stops(bound) => Stopped(bound)[x] \in Problems
    BY <1>1
  <2>3. \A x \in Problems : x \notin Stops(bound) =>
           Rounds(bound)[x] \in Problems /\ m[Rounds(bound)[x]] < m[x]
    BY <1>1
  <2> DEFINE stop == Stops(bound)
             out  == Stopped(bound)
             next == Rounds(bound)
  <2>4. /\ \A x \in Problems : x \in stop => out[x] \in Problems
        /\ \A x \in Problems : x \notin stop => next[x] \in Problems /\ m[next[x]] < m[x]
    BY <2>2, <2>3
  <2> HIDE DEF stop, out, next
  <2>5. \E h \in [Problems -> Problems] : h = LastCall(Problems, stop, out, next, h)
    <3>1. Descends(Problems, Problems, m, stop, out, next)
      BY <1>2, <2>1, <2>4 DEF Descends
    <3> QED BY <3>1, LastCallsExist
  <2> QED BY <2>5 DEF stop, out, next
<1>4. loop = F(loop)
  <2> HIDE DEF F
  <2> QED BY <1>3
<1>5. select_essential(A0, select0, bound) = loop[P0]
  BY DEF select_essential, LastCall, Stops, Stopped, Rounds, Lost, Problems
<1> DEFINE G == {P \in Problems : Rounded(P, loop[P], bound)}
<1> HIDE DEF loop
<1>6. \A x \in Problems : (\A y \in Problems : m[y] < m[x] => y \in G) => x \in G
  <2> SUFFICES ASSUME NEW P \in Problems, \A y \in Problems : m[y] < m[P] => y \in G
               PROVE  Rounded(P, loop[P], bound)
    OBVIOUS
  <2>1. loop[P] = IF P \in Stops(bound) THEN Stopped(bound)[P] ELSE loop[Rounds(bound)[P]]
    BY <1>4 DEF LastCall
  <2>2. CASE P \in Stops(bound)
    BY <1>1, <2>1, <2>2
  <2>3. CASE P \notin Stops(bound)
    <3>1. Rounded(Rounds(bound)[P], loop[Rounds(bound)[P]], bound)
      BY <1>1, <2>3
    <3> QED BY <1>1, <2>1, <2>3, <3>1
  <2> QED BY <2>2, <2>3
<1>7. Problems \subseteq G
  <2> HIDE DEF G
  <2> QED BY <1>2, <1>6, MeasureInduction
<1> QED BY <1>0, <1>5, <1>7

(* The least element by two numbers in lexicographic order.                *)
LexLeast(S, f, g, v) == \A w \in S : f[v] < f[w] \/ (f[v] = f[w] /\ g[v] <= g[w])

(* There is one in every finite set that is not empty.                     *)
LEMMA LexMin ==
  ASSUME NEW S, IsFiniteSet(S), S # {}, NEW f \in [S -> Nat], NEW g \in [S -> Nat]
  PROVE  \E v \in S : LexLeast(S, f, g, v)
<1>1. PICK a \in S : \A w \in S : f[w] <= f[a]
  BY ArgMax
<1>2. PICK b \in S : \A w \in S : g[w] <= g[b]
  BY ArgMax
<1> DEFINE F == [w \in S |-> f[a] - f[w]]
           G == [w \in S |-> g[b] - g[w]]
<1>3. \A w \in S : f[w] \in Nat /\ g[w] \in Nat /\ F[w] \in Nat /\ G[w] \in Nat
  BY <1>1, <1>2
<1>4. F \in [S -> Nat] /\ G \in [S -> Nat]
  BY <1>3
<1>5. \A w \in S : F[w] = f[a] - f[w] /\ G[w] = g[b] - g[w]
  OBVIOUS
<1> HIDE DEF F, G
<1>6. PICK v \in S : \A w \in S : F[w] < F[v] \/ (F[w] = F[v] /\ G[w] <= G[v])
  BY <1>4, LexMax
<1>7. ASSUME NEW w \in S PROVE f[v] < f[w] \/ (f[v] = f[w] /\ g[v] <= g[w])
  <2>1. F[w] < F[v] \/ (F[w] = F[v] /\ G[w] <= G[v])
    BY <1>6
  <2>2. /\ f[v] \in Nat /\ g[v] \in Nat /\ f[w] \in Nat /\ g[w] \in Nat
        /\ f[a] \in Nat /\ g[b] \in Nat
    BY <1>3
  <2>3. F[w] = f[a] - f[w] /\ F[v] = f[a] - f[v] /\ G[w] = g[b] - g[w] /\ G[v] = g[b] - g[v]
    BY <1>5
  <2>4. F[w] < F[v] => f[v] < f[w]
    BY <2>2, <2>3
  <2>5. F[w] = F[v] => f[v] = f[w]
    BY <2>2, <2>3
  <2>6. G[w] <= G[v] => g[v] <= g[w]
    BY <2>2, <2>3
  <2> QED BY <2>1, <2>4, <2>5, <2>6
<1> QED BY <1>7 DEF LexLeast

(***************************************************************************)
(* Independent rows.  The row of a set that meets the fewest of them.      *)
(***************************************************************************)
Left(A, B, r) == Cardinality(Meets(A, r) \cap B)
FewestMet(A, B) ==
  CHOOSE r \in B : \A s \in B :
    Left(A, B, r) < Left(A, B, s) \/ (Left(A, B, r) = Left(A, B, s) /\ r <= s)

(* There is one.                                                           *)
LEMMA FewestMetIn ==
  ASSUME NEW A \in Matrices, NEW B \in SUBSET Rows(A), B # {}
  PROVE  FewestMet(A, B) \in B
<1> DEFINE f == [r \in B |-> Left(A, B, r)]
           g == [r \in B |-> r]
<1>1. IsFiniteSet(B) /\ B \subseteq Nat
  BY MatrixFacts, FS_Subset
<1>2. \A r \in B : Left(A, B, r) \in Nat
  BY <1>1, FS_Subset, FS_CardinalityType DEF Left
<1>3. f \in [B -> Nat] /\ g \in [B -> Nat]
  BY <1>1, <1>2
<1>4. (\A r \in B : f[r] = Left(A, B, r)) /\ (\A r \in B : g[r] = r)
  OBVIOUS
<1> HIDE DEF f, g
<1>5. PICK v \in B : LexLeast(B, f, g, v)
  <2>1. B # {}
    OBVIOUS
  <2> QED BY ONLY <1>1, <1>3, <2>1, LexMin
<1>6. \A w \in B : Left(A, B, v) < Left(A, B, w) \/ (Left(A, B, v) = Left(A, B, w) /\ v <= w)
  BY <1>4, <1>5 DEF LexLeast
<1> QED BY <1>6 DEF FewestMet

(* Rows that have no column in common.                                     *)
Apart(A, I) == \A r \in I, s \in I : r # s => sm_row(A, r) \cap sm_row(A, s) = {}

(* The rows that are picked are independent, one at least, and no more     *)
(* than there are columns.                                                 *)
LEMMA IndependentFacts ==
  ASSUME NEW A \in Matrices
  PROVE  /\ sm_maximal_independent_set(A) \in SUBSET Rows(A)
         /\ A # {} => sm_maximal_independent_set(A) # {}
         /\ Apart(A, sm_maximal_independent_set(A))
         /\ Cardinality(sm_maximal_independent_set(A)) \in Nat
         /\ Cardinality(sm_maximal_independent_set(A)) <= Cardinality(Cols(A))
<1> DEFINE D == SUBSET Rows(A)
           m == [B \in D |-> Cardinality(B)]
           after(B) == B \ Meets(A, FewestMet(A, B))
           F(h) == [B \in D |-> IF B = {} THEN {} ELSE {FewestMet(A, B)} \cup h[after(B)]]
           rest == CHOOSE h : h = F(h)
           I == sm_maximal_independent_set(A)
<1>1. I = rest[Rows(A)]
  BY DEF sm_maximal_independent_set, FewestMet, Left
<1>2. m \in [D -> Nat]
  BY MatrixFacts, FS_Subset, FS_CardinalityType
<1>3. ASSUME NEW B \in D, B # {}
      PROVE  FewestMet(A, B) \in B /\ after(B) \in D /\ m[after(B)] < m[B]
  <2> DEFINE v == FewestMet(A, B)
  <2>1. v \in B
    BY <1>3, FewestMetIn
  <2> HIDE DEF v
  <2>2. v \in Meets(A, v)
    BY <2>1, MatrixFacts DEF Meets
  <2>3. IsFiniteSet(B) /\ after(B) \in D /\ after(B) # B
    BY <2>1, <2>2, MatrixFacts, FS_Subset DEF v
  <2>4. Cardinality(after(B)) < Cardinality(B)
    <3> DEFINE C == after(B)
    <3>1. C \in SUBSET B /\ C # B
      BY <2>3
    <3> HIDE DEF C
    <3>2. Cardinality(C) \in Nat /\ Cardinality(B) \in Nat /\ Cardinality(C) <= Cardinality(B)
          /\ (Cardinality(B) = Cardinality(C) => B = C)
      BY <2>3, <3>1, FS_Subset, FS_CardinalityType
    <3>3. Cardinality(C) < Cardinality(B)
      BY <3>1, <3>2
    <3> QED BY <3>3 DEF C
  <2> QED BY <2>1, <2>3, <2>4 DEF v
<1> HIDE DEF m, after
<1>4. \E h \in [D -> D] : h = F(h)
  <2> DEFINE B == [h \in [D -> D] |-> F(h)]
  <2>1. B \in [[D -> D] -> [D -> D]]
    <3> SUFFICES ASSUME NEW h \in [D -> D], NEW C \in D, C # {}
                 PROVE  {FewestMet(A, C)} \cup h[after(C)] \in D
      OBVIOUS
    <3> QED BY <1>3
  <2>2. ASSUME NEW f \in [D -> D], NEW g \in [D -> D], NEW C \in D,
               \A y \in D : m[y] < m[C] => f[y] = g[y]
        PROVE  F(f)[C] = F(g)[C]
    <3>1. CASE C = {}
      BY <3>1
    <3>2. CASE C # {}
      <4>1. f[after(C)] = g[after(C)]
        BY <1>3, <2>2, <3>2
      <4> QED BY <3>2, <4>1
    <3> QED BY <3>1, <3>2
  <2>3. D # {} /\ B = [h \in [D -> D] |-> F(h)]
    OBVIOUS
  <2> HIDE DEF B, D, F
  <2>4. Recursion(D, D, m, B)
    <3>1. \A f \in [D -> D], g \in [D -> D], C \in D :
            (\A y \in D : m[y] < m[C] => f[y] = g[y]) => B[f][C] = B[g][C]
      BY <2>2, <2>3
    <3> QED BY <1>2, <2>1, <2>3, <3>1 DEF Recursion
  <2>5. \E h \in [D -> D] : h = B[h]
    BY <2>4, MeasureRecursion
  <2> QED BY <2>3, <2>5
<1>5. rest = F(rest)
  <2> HIDE DEF F
  <2> QED BY <1>4
<1> HIDE DEF rest
<1> DEFINE G == {B \in D : /\ rest[B] \subseteq B /\ Apart(A, rest[B])
                           /\ B # {} => rest[B] # {}}
<1>6. \A B \in D : (\A C \in D : m[C] < m[B] => C \in G) => B \in G
  <2> SUFFICES ASSUME NEW B \in D, \A C \in D : m[C] < m[B] => C \in G
               PROVE  rest[B] \subseteq B /\ Apart(A, rest[B]) /\ (B # {} => rest[B] # {})
    OBVIOUS
  <2>1. rest[B] = IF B = {} THEN {} ELSE {FewestMet(A, B)} \cup rest[after(B)]
    BY <1>5
  <2>2. CASE B = {}
    BY <2>1, <2>2 DEF Apart
  <2>3. CASE B # {}
    <3> DEFINE v == FewestMet(A, B)
    <3>1. v \in B /\ after(B) \in G
      BY <1>3, <2>3
    <3>2. rest[after(B)] \subseteq after(B) /\ Apart(A, rest[after(B)])
      BY <3>1
    <3>3. \A r \in after(B) : r \in B /\ sm_row(A, r) \cap sm_row(A, v) = {}
      BY DEF after, Meets
    <3>4. rest[B] = {v} \cup rest[after(B)]
      BY <2>1, <2>3
    <3> HIDE DEF v, G
    <3> QED BY <3>1, <3>2, <3>3, <3>4 DEF Apart
  <2> QED BY <2>2, <2>3
<1>7. D \subseteq G
  <2> HIDE DEF G, D
  <2> QED BY <1>2, <1>6, MeasureInduction
<1>8. I \in SUBSET Rows(A) /\ Apart(A, I) /\ (Rows(A) # {} => I # {})
  BY <1>1, <1>7
<1> HIDE DEF I
<1>9. A # {} => Rows(A) # {}
  BY DEF Rows
<1>10. Cardinality(I) \in Nat /\ Cardinality(I) <= Cardinality(Cols(A))
  <2> DEFINE own == [r \in I |-> CHOOSE c : c \in sm_row(A, r)]
  <2>1. \A r \in I : own[r] \in sm_row(A, r) /\ own[r] \in Cols(A)
    BY <1>8, MatrixFacts
  <2>2. own \in [I -> Cols(A)]
    BY <2>1
  <2>3. ASSUME NEW r \in I, NEW s \in I, own[r] = own[s] PROVE r = s
    <3>1. sm_row(A, r) \cap sm_row(A, s) # {}
      BY <2>1, <2>3
    <3> QED BY <1>8, <3>1 DEF Apart
  <2> HIDE DEF own
  <2>4. own \in Injection(I, Cols(A))
    BY <2>2, <2>3 DEF Injection, IsInjective
  <2>5. IsFiniteSet(Cols(A))
    BY MatrixFacts
  <2> QED BY <2>4, <2>5, FS_Injection, FS_CardinalityType
<1> QED BY <1>8, <1>9, <1>10 DEF I

(***************************************************************************)
(* The column to branch on.  A product of numbers, as select_column folds  *)
(* it.                                                                     *)
(***************************************************************************)
LEMMA ProductsTyped ==
  ASSUME NEW S \in SUBSET Nat, IsFiniteSet(S)
  PROVE  FoldSet(LAMBDA n, product : n * product, 1, S) \in Nat
<1> DEFINE e == 1
           g == [p \in S \X Nat |-> p[1] * p[2]]
           J(h) == [s \in SUBSET S |-> IF s = {} THEN e ELSE Taken(s) * h[s \ {Taken(s)}]]
           iter == CHOOSE h : h = J(h)
<1>1. FoldSet(LAMBDA n, product : n * product, 1, S) = iter[S]
  BY DEF FoldSet, MapThenFoldSet, Taken
<1>3. \A n \in S, k \in Nat : g[<<n, k>>] = n * k /\ n * k \in Nat
  OBVIOUS
<1>2. e \in Nat /\ g \in [S \X Nat -> Nat]
  BY <1>3
<1>4. \A s \in SUBSET S : s # {} => Taken(s) \in S /\ s \ {Taken(s)} \in SUBSET S
  BY TakenFrom
<1> HIDE DEF e, g
<1>5. PICK h \in [SUBSET S -> Nat] : h = Folding(S, e, g, h)
  <2>1. FoldExists(S, Nat, e, g)
    BY <1>2, FoldsExist
  <2> QED BY <2>1 DEF FoldExists
<1>6. h = J(h)
  <2>1. ASSUME NEW s \in SUBSET S, s # {}
        PROVE  g[<<Taken(s), h[s \ {Taken(s)}]>>] = Taken(s) * h[s \ {Taken(s)}]
    <3>1. Taken(s) \in S /\ h[s \ {Taken(s)}] \in Nat
      BY <1>4, <2>1
    <3> QED BY <1>3, <3>1
  <2>2. \A s \in SUBSET S : h[s] = IF s = {} THEN e ELSE g[<<Taken(s), h[s \ {Taken(s)}]>>]
    BY <1>5 DEF Folding
  <2>3. \A s \in SUBSET S : h[s] = J(h)[s]
    BY <2>1, <2>2
  <2> QED BY <2>3
<1>7. iter = J(iter)
  <2> HIDE DEF J
  <2> QED BY <1>6
<1> HIDE DEF iter
<1>8. iter[{}] \in Nat
  BY <1>2, <1>7
<1>9. ASSUME NEW s \in SUBSET S, s # {}, iter[s \ {Taken(s)}] \in Nat PROVE iter[s] \in Nat
  <2>1. iter[s] = Taken(s) * iter[s \ {Taken(s)}]
    BY <1>7, <1>9
  <2>2. Taken(s) \in S
    BY <1>4, <1>9
  <2> QED BY <1>3, <1>9, <2>1, <2>2
<1>10. iter[S] \in Nat
  BY <1>8, <1>9, FoldsTyped
<1> QED BY <1>1, <1>10

(* The sum of quotients, as select_column folds it.                        *)
Quotients(S, unit, f, h) ==
  [s \in SUBSET S |-> IF s = {} THEN 0 ELSE h[s \ {Taken(s)}] + unit \div f[Taken(s)]]

(* It is a number.                                                         *)
LEMMA QuotientsTyped ==
  ASSUME NEW S, IsFiniteSet(S), NEW unit \in Nat, NEW f \in [S -> Nat \ {0}]
  PROVE  /\ \E h : h = Quotients(S, unit, f, h)
         /\ \A h : h = Quotients(S, unit, f, h) => h[S] \in Nat
<1> DEFINE e == 0
           g == [p \in S \X Nat |-> p[2] + unit \div f[p[1]]]
<1>0. \A r \in S : unit \div f[r] \in Nat
  <2> SUFFICES ASSUME NEW r \in S PROVE unit \div f[r] \in Nat
    OBVIOUS
  <2>1. f[r] \in Nat /\ f[r] > 0
    OBVIOUS
  <2> QED BY <2>1
<1>1. \A r \in S, k \in Nat : g[<<r, k>>] = k + unit \div f[r] /\ k + unit \div f[r] \in Nat
  BY <1>0
<1>2. e \in Nat /\ e = 0 /\ g \in [S \X Nat -> Nat]
  BY <1>1
<1>3. \A s \in SUBSET S : s # {} => Taken(s) \in S /\ s \ {Taken(s)} \in SUBSET S
  BY TakenFrom
<1> HIDE DEF e, g
<1>4. FoldExists(S, Nat, e, g)
  BY <1>2, FoldsExist
<1>5. PICK h \in [SUBSET S -> Nat] : h = Folding(S, e, g, h)
  BY <1>4 DEF FoldExists
<1>6. h = Quotients(S, unit, f, h)
  <2>1. ASSUME NEW s \in SUBSET S, s # {}
        PROVE  g[<<Taken(s), h[s \ {Taken(s)}]>>] = h[s \ {Taken(s)}] + unit \div f[Taken(s)]
    <3>1. Taken(s) \in S /\ h[s \ {Taken(s)}] \in Nat
      BY <1>3, <2>1
    <3> QED BY <1>1, <3>1
  <2>2. \A s \in SUBSET S : h[s] = IF s = {} THEN e ELSE g[<<Taken(s), h[s \ {Taken(s)}]>>]
    BY <1>5 DEF Folding
  <2>3. \A s \in SUBSET S : h[s] = Quotients(S, unit, f, h)[s]
    BY <1>2, <2>1, <2>2 DEF Quotients
  <2> QED BY <2>3 DEF Quotients
<1>7. ASSUME NEW it, it = Quotients(S, unit, f, it) PROVE it[S] \in Nat
  <2>1. it[{}] \in Nat
    BY <1>7 DEF Quotients
  <2>2. ASSUME NEW s \in SUBSET S, s # {}, it[s \ {Taken(s)}] \in Nat PROVE it[s] \in Nat
    <3>1. it[s] = it[s \ {Taken(s)}] + unit \div f[Taken(s)]
      BY <1>7, <2>2 DEF Quotients
    <3>2. Taken(s) \in S
      BY <1>3, <2>2
    <3> QED BY <1>1, <2>2, <3>1, <3>2
  <2> QED BY <2>1, <2>2, FoldsTyped
<1> QED BY <1>6, <1>7

(* The column picked is one of the matrix.                                 *)
LEMMA PickFacts ==
  ASSUME NEW A \in Matrices, Essen(A) = {}, NEW indep \in SUBSET Rows(A), indep # {}
  PROVE  select_column(A, indep) \in Cols(A)
<1> DEFINE others(r) == Cardinality(sm_row(A, r)) - 1
           S == {others(r) : r \in Rows(A)}
           unit == FoldSet(LAMBDA n, product : n * product, 1, S)
           w(c) == FoldSet(LAMBDA r, sum : sum + unit \div others(r), 0, sm_col(A, c))
           columns == UNION {sm_row(A, r) : r \in indep}
<1>1. ASSUME NEW r \in Rows(A) PROVE others(r) \in Nat \ {0}
  <2>1. sm_row(A, r) # {} /\ IsFiniteSet(sm_row(A, r))
    BY MatrixFacts
  <2>2. Cardinality(sm_row(A, r)) \in Nat /\ Cardinality(sm_row(A, r)) >= 1
    BY <2>1, AtLeastOne
  <2>3. Cardinality(sm_row(A, r)) # 1
    BY <2>1 DEF Essen
  <2> QED BY <2>2, <2>3
<1>2. unit \in Nat
  <2>1. S \in SUBSET Nat
    BY <1>1
  <2>2. IsFiniteSet(S)
    <3> DEFINE o == [r \in Rows(A) |-> others(r)]
    <3>1. o \in Surjection(Rows(A), S)
      BY DEF Surjection
    <3>2. IsFiniteSet(Rows(A))
      BY MatrixFacts
    <3> HIDE DEF o, S
    <3> QED BY <3>1, <3>2, FS_Surjection
  <2> HIDE DEF S
  <2> QED BY <2>1, <2>2, ProductsTyped
<1> HIDE DEF unit
<1>3. ASSUME NEW c \in Cols(A) PROVE w(c) \in Nat
  <2> DEFINE T == sm_col(A, c)
             f == [r \in T |-> others(r)]
             J(h) == [s \in SUBSET T |-> IF s = {} THEN 0 ELSE h[s \ {Taken(s)}] + unit \div others(Taken(s))]
             iter == CHOOSE h : h = J(h)
  <2>1. w(c) = iter[T]
    BY DEF FoldSet, MapThenFoldSet, Taken
  <2>2. IsFiniteSet(T) /\ T \subseteq Rows(A)
    BY MatrixFacts
  <2>3. f \in [T -> Nat \ {0}] /\ \A r \in T : f[r] = others(r)
    BY <1>1, <2>2
  <2>4. \A s \in SUBSET T : s # {} => Taken(s) \in T
    <3> HIDE DEF T
    <3> QED BY <2>2, TakenFrom
  <2> HIDE DEF f, T, others, w
  <2>5. \A h : J(h) = Quotients(T, unit, f, h)
    BY <2>3, <2>4 DEF Quotients
  <2> HIDE DEF J
  <2>6. /\ \E h : h = Quotients(T, unit, f, h)
        /\ \A h : h = Quotients(T, unit, f, h) => h[T] \in Nat
    BY <1>2, <2>2, <2>3, QuotientsTyped
  <2>7. iter = J(iter)
    BY <2>5, <2>6
  <2> HIDE DEF iter
  <2> QED BY <2>1, <2>5, <2>6, <2>7
<1> HIDE DEF w
<1>4. columns # {} /\ columns \subseteq Cols(A)
  BY MatrixFacts
<1>5. columns \subseteq Nat /\ IsFiniteSet(columns)
  <2> HIDE DEF columns
  <2> QED BY <1>4, MatrixFacts, FS_Subset
<1> DEFINE f == [c \in columns |-> w(c)]
           g == [c \in columns |-> c]
<1>6. \E c \in columns : \A d \in columns : w(c) > w(d) \/ (w(c) = w(d) /\ c <= d)
  <2> HIDE DEF columns
  <2>1. PICK a \in columns : \A d \in columns : w(d) <= w(a)
    <3>1. f \in [columns -> Nat]
      BY <1>3, <1>4
    <3>2. \A d \in columns : f[d] = w(d)
      OBVIOUS
    <3> HIDE DEF f
    <3>3. \E a \in columns : \A d \in columns : f[d] <= f[a]
      BY <1>4, <1>5, <3>1, ArgMax
    <3> QED BY <3>2, <3>3
  <2> DEFINE M == {c \in columns : w(c) = w(a)}
  <2>2. M \in SUBSET Nat /\ M # {}
    BY <1>5
  <2>3. PICK c \in M : \A d \in M : c <= d
    <3> HIDE DEF M
    <3> QED BY <2>2, LeastNat
  <2>4. ASSUME NEW d \in columns PROVE w(c) > w(d) \/ (w(c) = w(d) /\ c <= d)
    <3>1. w(c) = w(a) /\ w(d) <= w(a) /\ w(d) \in Nat /\ w(a) \in Nat
      BY <1>3, <1>4, <2>1
    <3>2. w(d) = w(a) => c <= d
      BY <2>3
    <3> QED BY <3>1, <3>2
  <2> QED BY <2>4
<1>7. select_column(A, indep) = CHOOSE c \in columns : \A d \in columns : w(c) > w(d) \/ (w(c) = w(d) /\ c <= d)
  BY DEF select_column, w, unit
<1> HIDE DEF columns
<1> QED BY <1>4, <1>6, <1>7

(***************************************************************************)
(* Blocks.  Rows of a block meet only rows of the block.                   *)
(***************************************************************************)
Met(A, R) == UNION {Meets(A, r) : r \in R}

(* The block of the first row is closed.                                   *)
LEMMA BlockFacts ==
  ASSUME NEW A \in Matrices, A # {}
  PROVE  Block(A) \in SUBSET Rows(A) /\ Block(A) # {} /\ Met(A, Block(A)) = Block(A)
<1> DEFINE D    == SUBSET Rows(A)
           m    == [R \in D |-> Cardinality(Rows(A)) - Cardinality(R)]
           stop == {R \in D : Met(A, R) = R}
           out  == [R \in D |-> R]
           next == [R \in D |-> Met(A, R)]
           F(h) == LastCall(D, stop, out, next, h)
           grow == CHOOSE h : h = F(h)
           first == Min(Rows(A))
<1>0. IsFiniteSet(Rows(A)) /\ Cardinality(Rows(A)) \in Nat /\ Rows(A) \subseteq Nat /\ Rows(A) # {}
  BY MatrixFacts DEF Rows
<1>1. first \in Rows(A)
  <2>1. Rows(A) \in SUBSET Nat
    BY <1>0
  <2>2. \E x \in Rows(A) : \A y \in Rows(A) : x <= y
    BY <1>0, <2>1, LeastNat
  <2> QED BY <2>2 DEF Min
<1>2. ASSUME NEW R \in D
      PROVE  /\ Met(A, R) \in D /\ R \subseteq Met(A, R)
             /\ Cardinality(R) \in Nat /\ Cardinality(R) <= Cardinality(Rows(A))
             /\ Met(A, R) # R => Cardinality(R) < Cardinality(Met(A, R))
  <2>1. \A r \in R : r \in Meets(A, r)
    BY MatrixFacts DEF Meets
  <2>2. Met(A, R) \in D /\ R \subseteq Met(A, R)
    BY <2>1 DEF Met, Meets
  <2>3. Cardinality(R) \in Nat /\ Cardinality(R) <= Cardinality(Rows(A))
    BY <1>0, FS_Subset, FS_CardinalityType
  <2>4. /\ Cardinality(Met(A, R)) \in Nat /\ Cardinality(R) <= Cardinality(Met(A, R))
        /\ (Cardinality(Met(A, R)) = Cardinality(R) => Met(A, R) = R)
    BY <1>0, <2>2, FS_Subset, FS_CardinalityType
  <2> QED BY <2>2, <2>3, <2>4
<1>3. m \in [D -> Nat]
  <2>1. \A R \in D : Cardinality(Rows(A)) - Cardinality(R) \in Nat
    BY <1>0, <1>2
  <2> QED BY <2>1
<1>4. \A R \in D : R \notin stop => next[R] \in D /\ m[next[R]] < m[R]
  <2> SUFFICES ASSUME NEW R \in D, R \notin stop PROVE next[R] \in D /\ m[next[R]] < m[R]
    OBVIOUS
  <2>1. next[R] = Met(A, R) /\ Met(A, R) # R /\ Met(A, R) \in D
    BY <1>2
  <2>2. Cardinality(R) < Cardinality(Met(A, R)) /\ Cardinality(Met(A, R)) \in Nat /\ Cardinality(R) \in Nat
    BY <1>2, <2>1
  <2>3. m[R] = Cardinality(Rows(A)) - Cardinality(R)
    BY DEF m
  <2>4. m[Met(A, R)] = Cardinality(Rows(A)) - Cardinality(Met(A, R))
    BY <2>1 DEF m
  <2> HIDE DEF m, next
  <2> QED BY <1>0, <2>1, <2>2, <2>3, <2>4
<1>5. Block(A) = grow[{first}]
  BY <1>1, <1>2 DEF Block, LastCall, Met
<1>6. \A R \in D : R \in stop => out[R] \in D
  OBVIOUS
<1> HIDE DEF m
<1>7. \E h \in [D -> D] : h = F(h)
  <2>1. D # {}
    OBVIOUS
  <2> HIDE DEF D, stop, out, next
  <2>2. \E h \in [D -> D] : h = LastCall(D, stop, out, next, h)
    <3>1. Descends(D, D, m, stop, out, next)
      BY <1>3, <1>4, <1>6, <2>1 DEF Descends
    <3> QED BY <3>1, LastCallsExist
  <2> QED BY <2>2
<1>8. grow = F(grow)
  <2> HIDE DEF F
  <2> QED BY <1>7
<1> HIDE DEF grow
<1> DEFINE G == {R \in D : /\ grow[R] \in D /\ R \subseteq grow[R]
                           /\ Met(A, grow[R]) = grow[R]}
<1>9. \A R \in D : (\A C \in D : m[C] < m[R] => C \in G) => R \in G
  <2> SUFFICES ASSUME NEW R \in D, \A C \in D : m[C] < m[R] => C \in G
               PROVE  grow[R] \in D /\ R \subseteq grow[R] /\ Met(A, grow[R]) = grow[R]
    OBVIOUS
  <2>1. grow[R] = IF R \in stop THEN out[R] ELSE grow[next[R]]
    BY <1>8 DEF LastCall
  <2>2. CASE R \in stop
    BY <2>1, <2>2
  <2>3. CASE R \notin stop
    <3>1. next[R] \in G
      BY <1>4, <2>3
    <3>2. R \subseteq next[R]
      BY <1>2
    <3> QED BY <2>1, <2>3, <3>1, <3>2
  <2> QED BY <2>2, <2>3
<1>10. D \subseteq G
  <2> HIDE DEF G, D
  <2> QED BY <1>3, <1>9, MeasureInduction
<1>11. {first} \in G
  BY <1>1, <1>10
<1> HIDE DEF first
<1> QED BY <1>5, <1>11

(* The blocks of a matrix have no column in common.                        *)
Blocked(A, L, R) ==
  /\ L \in SUBSET A /\ R \in SUBSET A /\ Rows(A) \subseteq Rows(L) \cup Rows(R)
  /\ \A r \in Rows(L) : sm_row(L, r) = sm_row(A, r)
  /\ \A r \in Rows(R) : sm_row(R, r) = sm_row(A, r)
  /\ Cols(A) = Cols(L) \cup Cols(R) /\ Cols(L) \cap Cols(R) = {}
  /\ Cardinality(Cols(A)) = Cardinality(Cols(L)) + Cardinality(Cols(R))
  /\ R # {} => Cardinality(Cols(L)) < Cardinality(Cols(A)) /\ Cardinality(Cols(R)) < Cardinality(Cols(A))

(* The partition gives blocks.                                             *)
LEMMA BlocksFacts ==
  ASSUME NEW A \in Matrices, A # {}
  PROVE  Blocked(A, sm_block_partition(A).L, sm_block_partition(A).R)
<1> DEFINE L == sm_block_partition(A).L
           R == sm_block_partition(A).R
           B == Block(A)
<1>1. B \in SUBSET Rows(A) /\ B # {} /\ Met(A, B) = B
  BY BlockFacts
<1>2. L = sm_delrow(A, Rows(A) \ B) /\ R = sm_delrow(A, B)
  BY DEF sm_block_partition, sm_delrow, Rows
<1> HIDE DEF L, R, B
<1>3. /\ L \in SUBSET A /\ Rows(L) = B /\ \A r \in B : sm_row(L, r) = sm_row(A, r)
  <2>1. Rows(A) \ (Rows(A) \ B) = B
    BY <1>1
  <2>2. /\ sm_delrow(A, Rows(A) \ B) \in SUBSET A
        /\ Rows(sm_delrow(A, Rows(A) \ B)) = Rows(A) \ (Rows(A) \ B)
        /\ \A r : r \notin Rows(A) \ B => sm_row(sm_delrow(A, Rows(A) \ B), r) = sm_row(A, r)
    BY DelRowFacts
  <2> QED BY <1>2, <2>1, <2>2
<1>4. /\ R \in SUBSET A /\ Rows(R) = Rows(A) \ B /\ \A r \in Rows(A) \ B : sm_row(R, r) = sm_row(A, r)
  BY <1>2, DelRowFacts
<1>5. L \in Matrices /\ R \in Matrices
  BY <1>3, <1>4, PartMatrix
<1>6. \A c \in Cols(A) : \E r \in Rows(A) : c \in sm_row(A, r)
  <2> SUFFICES ASSUME NEW c \in Cols(A) PROVE \E r \in Rows(A) : c \in sm_row(A, r)
    OBVIOUS
  <2>1. PICK r : r \in sm_col(A, c)
    BY MatrixFacts
  <2> QED BY <2>1, MatrixFacts
<1>7. ASSUME NEW r, NEW c \in sm_row(L, r) PROVE r \in B /\ c \in sm_row(A, r)
  <2>1. r \in Rows(L)
    BY <1>5, MatrixFacts
  <2> QED BY <1>3, <2>1
<1>8. ASSUME NEW r, NEW c \in sm_row(R, r) PROVE r \in Rows(A) \ B /\ c \in sm_row(A, r)
  <2>1. r \in Rows(R)
    BY <1>5, MatrixFacts
  <2> QED BY <1>4, <2>1
<1>9. /\ \A c \in Cols(L) : \E r : c \in sm_row(L, r)
      /\ \A c \in Cols(R) : \E r : c \in sm_row(R, r)
  <2>1. ASSUME NEW Q \in Matrices, NEW c \in Cols(Q) PROVE \E r : c \in sm_row(Q, r)
    <3>1. PICK r : r \in sm_col(Q, c)
      BY MatrixFacts
    <3> QED BY <3>1, MatrixFacts
  <2> QED BY <1>5, <2>1
<1>10. Cols(L) \cap Cols(R) = {}
  <2> SUFFICES ASSUME NEW c \in Cols(L), c \in Cols(R) PROVE FALSE
    OBVIOUS
  <2>1. PICK r : c \in sm_row(L, r)
    BY <1>9
  <2>2. PICK s : c \in sm_row(R, s)
    BY <1>9
  <2>3. r \in B /\ s \in Rows(A) \ B /\ c \in sm_row(A, r) /\ c \in sm_row(A, s)
    BY <1>7, <1>8, <2>1, <2>2
  <2>4. s \in Met(A, B)
    BY <2>3 DEF Met, Meets
  <2> QED BY <1>1, <2>3, <2>4
<1>11. Cols(A) = Cols(L) \cup Cols(R)
  <2>1. Cols(L) \cup Cols(R) \subseteq Cols(A)
    BY <1>3, <1>4, PartMatrix
  <2>2. ASSUME NEW c \in Cols(A) PROVE c \in Cols(L) \cup Cols(R)
    <3>1. PICK r \in Rows(A) : c \in sm_row(A, r)
      BY <1>6
    <3>2. c \in sm_row(L, r) \/ c \in sm_row(R, r)
      BY <1>3, <1>4, <3>1
    <3> QED BY <1>5, <3>2, MatrixFacts
  <2> QED BY <2>1, <2>2
<1>12. Cardinality(Cols(A)) = Cardinality(Cols(L)) + Cardinality(Cols(R))
  <2>1. IsFiniteSet(Cols(L)) /\ IsFiniteSet(Cols(R)) /\ Cardinality(Cols(L)) \in Nat /\ Cardinality(Cols(R)) \in Nat
    BY <1>5, MatrixFacts
  <2>2. Cardinality(Cols(L) \cap Cols(R)) = 0
    BY <1>10, FS_EmptySet
  <2>3. Cardinality(Cols(L) \cup Cols(R)) = Cardinality(Cols(L)) + Cardinality(Cols(R)) - Cardinality(Cols(L) \cap Cols(R))
    BY <2>1, FS_Union
  <2> QED BY <1>11, <2>1, <2>2, <2>3
<1>13. ASSUME R # {} PROVE Cardinality(Cols(L)) < Cardinality(Cols(A)) /\ Cardinality(Cols(R)) < Cardinality(Cols(A))
  <2>1. L # {}
    BY <1>1, <1>3 DEF Rows
  <2>2. Cols(L) # {} /\ Cols(R) # {}
    BY <1>13, <2>1 DEF Cols
  <2>3. Cardinality(Cols(L)) \in Nat /\ Cardinality(Cols(R)) \in Nat /\ Cardinality(Cols(L)) >= 1 /\ Cardinality(Cols(R)) >= 1
    BY <1>5, <2>2, MatrixFacts, AtLeastOne
  <2> QED BY <1>12, <2>3
<1>14. Blocked(A, L, R)
  BY <1>3, <1>4, <1>10, <1>11, <1>12, <1>13 DEF Blocked
<1> QED BY <1>14 DEF L, R

(***************************************************************************)
(* Gimpel's reduction: c1 stands in the primary row, which has c1 and c2   *)
(* only, and in the secondary row, whose other columns are added to the    *)
(* rows of c2.                                                             *)
(***************************************************************************)
Gimpeled(A, g, primary, secondary) ==
  /\ primary \in Rows(A) /\ secondary \in Rows(A) /\ primary # secondary /\ g.c1 # g.c2
  /\ sm_row(A, primary) = {g.c1, g.c2} /\ sm_col(A, g.c1) = {primary, secondary}
  /\ g.save_sec = sm_row(A, secondary) \ {g.c1}
  /\ g.A = sm_delrow(sm_delcol(A \cup ((sm_col(A, g.c2) \ {primary}) \X g.save_sec), {g.c1, g.c2}),
                     {primary, secondary})

(* Where there is a row for it, the reduction is of this form.             *)
LEMMA GimpelForm ==
  ASSUME NEW A \in Matrices, GimpelRows(A) # {}
  PROVE  \E p \in Rows(A), s \in Rows(A) : Gimpeled(A, GimpelOf(A), p, s)
<1> DEFINE p == Min(GimpelRows(A))
           Cs == {c \in sm_row(A, p) : IsGimpel(A, p, c)}
           c1 == Min(Cs)
           c2 == CHOOSE c \in sm_row(A, p) : c # c1
           s  == CHOOSE r \in sm_col(A, c1) : r # p
           g  == GimpelOf(A)
<1>0. ASSUME NEW S \in SUBSET Nat, S # {} PROVE Min(S) \in S
  <2>1. \E x \in S : \A y \in S : x <= y
    BY <1>0, LeastNat
  <2> QED BY <2>1 DEF Min
<1>1. p \in GimpelRows(A)
  <2>1. GimpelRows(A) \in SUBSET Nat
    BY MatrixFacts DEF GimpelRows
  <2> QED BY <1>0, <2>1
<1> HIDE DEF p
<1>2. p \in Rows(A) /\ Cs # {} /\ Cs \in SUBSET Nat
  <2>1. sm_row(A, p) \subseteq Nat
    BY MatrixFacts
  <2> QED BY <1>1, <2>1 DEF GimpelRows
<1>3. c1 \in Cs
  <2> HIDE DEF Cs
  <2> QED BY <1>0, <1>2
<1> HIDE DEF c1
<1>4. /\ c1 \in sm_row(A, p) /\ IsFiniteSet(sm_row(A, p)) /\ Cardinality(sm_row(A, p)) = 2
      /\ IsFiniteSet(sm_col(A, c1)) /\ Cardinality(sm_col(A, c1)) = 2 /\ p \in sm_col(A, c1)
      /\ sm_col(A, c1) \subseteq Rows(A)
  BY <1>3, MatrixFacts DEF IsGimpel
<1>5. ASSUME NEW T, IsFiniteSet(T), Cardinality(T) = 2, NEW a \in T
      PROVE  \E b : b # a /\ T = {a, b}
  <2>1. Cardinality(T \ {a}) = 1 /\ IsFiniteSet(T \ {a})
    BY <1>5, FS_RemoveElement
  <2>2. PICK b : T \ {a} = {b}
    BY <2>1, FS_Singleton
  <2> QED BY <2>2
<1>6. PICK b : b # c1 /\ sm_row(A, p) = {c1, b}
  BY <1>4, <1>5
<1>7. PICK q : q # p /\ sm_col(A, c1) = {p, q}
  BY <1>4, <1>5
<1>8. c2 = b /\ s = q
  BY <1>6, <1>7
<1> HIDE DEF c2, s
<1>9. /\ g.c1 = c1 /\ g.c2 = c2 /\ g.save_sec = sm_row(A, s) \ {c1}
      /\ g.A = sm_delrow(sm_delcol(A \cup ((sm_col(A, c2) \ {p}) \X (sm_row(A, s) \ {c1})), {c1, c2}),
                         {p, s})
  BY DEF GimpelOf, GimpelFirst, GimpelAt, GimpelMerge, p, c1, c2, s
<1> HIDE DEF g
<1>10. Gimpeled(A, g, p, s)
  BY <1>2, <1>4, <1>6, <1>7, <1>8, <1>9 DEF Gimpeled
<1>11. s \in Rows(A)
  BY <1>4, <1>7, <1>8
<1> QED BY <1>2, <1>10, <1>11 DEF g

(* The reduced matrix is without c1 and c2, and with the right one of them *)
(* what covers it covers the matrix.                                       *)
LEMMA GimpelFacts ==
  ASSUME NEW A \in Matrices, Essen(A) = {}, NEW g, NEW p, NEW s, Gimpeled(A, g, p, s)
  PROVE  /\ g.A \in Matrices /\ g.c1 \in Cols(A) /\ g.c2 \in Cols(A) /\ g.c1 # g.c2
         /\ Cols(g.A) \subseteq Cols(A) \ {g.c1, g.c2}
         /\ \A X : (\A r \in Rows(g.A) : sm_row(g.A, r) \cap X # {}) =>
              \A r \in Rows(A) :
                sm_row(A, r) \cap (X \cup {IF g.save_sec \cap X # {} THEN g.c2 ELSE g.c1}) # {}
<1> DEFINE c1 == g.c1
           c2 == g.c2
           sec == g.save_sec
           more == (sm_col(A, c2) \ {p}) \X sec
<1>1. /\ p \in Rows(A) /\ s \in Rows(A) /\ p # s /\ c1 # c2
      /\ sm_row(A, p) = {c1, c2} /\ sm_col(A, c1) = {p, s} /\ sec = sm_row(A, s) \ {c1}
      /\ g.A = sm_delrow(sm_delcol(A \cup more, {c1, c2}), {p, s})
  BY DEF Gimpeled
<1> HIDE DEF c1, c2, sec
<1>2. A \cup more \in Matrices
  <2>1. IsFiniteSet(A) /\ A \subseteq Nat \X Nat
    BY MatrixFacts
  <2>2. /\ IsFiniteSet(sm_col(A, c2)) /\ sm_col(A, c2) \subseteq Nat
        /\ IsFiniteSet(sm_row(A, s)) /\ sm_row(A, s) \subseteq Nat
    BY MatrixFacts
  <2>3. IsFiniteSet(sm_col(A, c2) \ {p}) /\ IsFiniteSet(sec)
    BY <1>1, <2>2, FS_Subset
  <2>4. IsFiniteSet(more) /\ more \subseteq Nat \X Nat
    <3>1. IsFiniteSet(more)
      BY <2>3, FS_Product
    <3> QED BY <1>1, <2>2, <3>1
  <2>5. IsFiniteSet(A \cup more)
    BY <2>1, <2>4, FS_Union
  <2> QED BY <2>1, <2>4, <2>5 DEF Matrices, Finite
<1>3. g.A \in Matrices
  <2>1. sm_delcol(A \cup more, {c1, c2}) \in Matrices
    BY <1>2, DelColFacts, PartMatrix
  <2> QED BY <1>1, <2>1, DelRowFacts, PartMatrix
<1>4. \A r, c : <<r, c>> \in g.A <=>
        /\ <<r, c>> \in A \/ (r \in sm_col(A, c2) /\ r # p /\ c \in sec)
        /\ c # c1 /\ c # c2 /\ r # p /\ r # s
  BY <1>1 DEF sm_delrow, sm_delcol
<1>5. /\ \A r, c : (<<r, c>> \in A <=> c \in sm_row(A, r)) /\ (<<r, c>> \in A <=> r \in sm_col(A, c))
      /\ \A r, c : <<r, c>> \in g.A <=> c \in sm_row(g.A, r)
      /\ \A r : r \in Rows(A) <=> sm_row(A, r) # {}
      /\ \A r : r \in Rows(g.A) <=> sm_row(g.A, r) # {}
      /\ \A r : sm_row(A, r) \subseteq Cols(A)
      /\ \A c : c \in Cols(g.A) <=> sm_col(g.A, c) # {}
      /\ \A r, c : <<r, c>> \in g.A <=> r \in sm_col(g.A, c)
  BY <1>3, MatrixFacts
<1> HIDE DEF more
<1>6. ASSUME NEW r, NEW c PROVE c \in sm_row(g.A, r) <=>
        /\ c \in sm_row(A, r) \/ (c2 \in sm_row(A, r) /\ r # p /\ c \in sec)
        /\ c # c1 /\ c # c2 /\ r # p /\ r # s
  BY <1>4, <1>5
<1>7. c1 \in Cols(A) /\ c2 \in Cols(A)
  BY <1>1, <1>5
<1>8. Cols(g.A) \subseteq Cols(A) \ {c1, c2}
  <2> SUFFICES ASSUME NEW c \in Cols(g.A) PROVE c \in Cols(A) /\ c # c1 /\ c # c2
    OBVIOUS
  <2>1. PICK r : c \in sm_row(g.A, r)
    BY <1>5
  <2>2. (c \in sm_row(A, r) \/ c \in sec) /\ c # c1 /\ c # c2
    BY <1>6, <2>1
  <2> QED BY <1>1, <1>5, <2>2
<1>9. ASSUME NEW X, \A r \in Rows(g.A) : sm_row(g.A, r) \cap X # {}, NEW r \in Rows(A)
      PROVE  sm_row(A, r) \cap (X \cup {IF sec \cap X # {} THEN c2 ELSE c1}) # {}
  <2>1. CASE r = p
    BY <1>1, <2>1
  <2>2. CASE r = s
    <3>1. c1 \in sm_row(A, s)
      BY <1>1, <1>5
    <3> QED BY <1>1, <2>2, <3>1
  <2>3. CASE r # p /\ r # s
    <3>1. c1 \notin sm_row(A, r)
      BY <1>1, <1>5, <2>3
    <3>2. PICK c \in sm_row(A, r) : c # c2
      <4>1. sm_row(A, r) # {} /\ sm_row(A, r) # {c2}
        BY <1>5, EssenFacts
      <4> QED BY <4>1
    <3>3. c \in sm_row(g.A, r)
      BY <1>6, <2>3, <3>1, <3>2
    <3>4. PICK x \in sm_row(g.A, r) : x \in X
      BY <1>5, <1>9, <3>3
    <3>5. x \in sm_row(A, r) \/ (c2 \in sm_row(A, r) /\ x \in sec)
      BY <1>6, <3>4
    <3> QED BY <3>4, <3>5
  <2> QED BY <2>1, <2>2, <2>3
<1> QED BY <1>1, <1>3, <1>7, <1>8, <1>9 DEF c1, c2, sec

(***************************************************************************)
(* The search.  Its arguments, those of a smaller matrix, and what its     *)
(* answer has to be when it does not branch and there is room: a cover.    *)
(***************************************************************************)
Searches   == Matrices \X Solutions \X Int \X Int \X BOOLEAN
Smaller(k) == {y \in Searches : Cardinality(Cols(y[1])) < k}
Typed(h, k)    == \A y \in Smaller(k) : h[y] \in Solutions
Alike(f, h, k) == \A y \in Smaller(k) : f[y] = h[y]
Solved(P, s) == s.cost \in Nat /\ Solves(P, s)
Answers(y, s) ==
  y[5] /\ Roomy([A |-> y[1], select |-> y[2]], y[4]) /\ y[3] < y[4]
    => Solved([A |-> y[1], select |-> y[2]], s)
Right(h, k) == \A y \in Smaller(k) : Answers(y, h[y])

(* A search of a smaller matrix.                                           *)
LEMMA SearchSmaller ==
  ASSUME NEW P \in Problems, NEW k, Cardinality(Cols(P.A)) < k,
         NEW lb \in Int, NEW bound \in Int, NEW nb \in BOOLEAN, NEW y,
         y = <<P.A, P.select, lb, bound, nb>>
  PROVE  /\ y \in Smaller(k)
         /\ \A h : Typed(h, k) => h[y] \in Solutions
         /\ \A f, h : Alike(f, h, k) => f[y] = h[y]
         /\ \A h : Right(h, k) /\ nb /\ Roomy(P, bound) /\ lb < bound => Solved(P, h[y])
<1>1. y \in Searches /\ y[1] = P.A /\ y[2] = P.select /\ y[3] = lb /\ y[4] = bound /\ y[5] = nb
  BY ProblemParts DEF Searches
<1>2. y \in Smaller(k)
  BY <1>1 DEF Smaller
<1>3. P = [A |-> y[1], select |-> y[2]]
  BY <1>1, ProblemParts
<1>4. ASSUME NEW h, Right(h, k), nb, Roomy(P, bound), lb < bound PROVE Solved(P, h[y])
  <2>1. Answers(y, h[y])
    BY <1>2, <1>4 DEF Right
  <2> QED BY <1>1, <1>3, <1>4, <2>1 DEF Answers
<1> QED BY <1>2, <1>4 DEF Typed, Alike

(* What a step of the search has to make of the answers for smaller        *)
(* matrices: it needs no other ones, and makes a solution of solutions     *)
(* and a cover of covers.                                                  *)
Sound(P, lb, bound, nb, k, h, f, sh, sf) ==
  /\ Typed(h, k) => sh \in Solutions
  /\ Typed(h, k) /\ Alike(f, h, k) => sf = sh
  /\ Typed(h, k) /\ Right(h, k) /\ nb /\ Roomy(P, bound) /\ lb < bound => Solved(P, sh)

(* A solution with another column.                                         *)
LEMMA AddFacts ==
  ASSUME NEW s \in Solutions, NEW C \in SUBSET Nat, IsFiniteSet(C)
  PROVE  /\ solution_add(s, C) \in Solutions
         /\ solution_add(s, C).row = s.row \cup C
         /\ solution_add(s, C).cost = s.cost + Cardinality(C)
         /\ Cardinality(C) \in Nat
<1>1. s.row \in Finite(Nat) /\ s.cost \in Int /\ Cardinality(C) \in Nat
  BY FS_CardinalityType DEF Solutions
<1>2. s.row \cup C \in Finite(Nat)
  BY <1>1, FS_Union DEF Finite
<1> QED BY <1>1, <1>2 DEF solution_add, Solutions

(* A matrix of fewer columns.                                              *)
LEMMA FewerColumns ==
  ASSUME NEW A \in Matrices, NEW B \in Matrices, Cols(B) \subseteq Cols(A)
  PROVE  /\ Cardinality(Cols(A)) \in Nat /\ Cardinality(Cols(B)) \in Nat /\ Cols(A) \subseteq Nat
         /\ Cardinality(Cols(B)) <= Cardinality(Cols(A))
         /\ Cols(B) # Cols(A) => Cardinality(Cols(B)) < Cardinality(Cols(A))
<1>1. IsFiniteSet(Cols(A)) /\ Cols(A) \subseteq Nat /\ Cardinality(Cols(A)) \in Nat
      /\ Cardinality(Cols(B)) \in Nat
  BY MatrixFacts
<1>2. /\ Cardinality(Cols(B)) <= Cardinality(Cols(A))
      /\ Cardinality(Cols(B)) = Cardinality(Cols(A)) => Cols(B) = Cols(A)
  BY <1>1, FS_Subset
<1> QED BY <1>1, <1>2

(* None is no cover.                                                       *)
LEMMA CoverIsSome ==
  ASSUME NEW P, NEW s, Solved(P, s) PROVE s # NIL
BY DEF Solved, NIL

(* Gimpel's reduction keeps to that.                                       *)
LEMMA GimpelSound ==
  ASSUME NEW P \in Problems, Essen(P.A) = {}, GimpelRows(P.A) # {},
         NEW k \in Nat, Cardinality(Cols(P.A)) <= k,
         NEW lb \in Int, NEW bound \in Int, NEW nb \in BOOLEAN, NEW h, NEW f
  PROVE  Sound(P, lb, bound, nb, k, h, f,
               Gimpel(GimpelOf(P.A), P.select, lb, bound, nb, h),
               Gimpel(GimpelOf(P.A), P.select, lb, bound, nb, f))
<1> DEFINE g == GimpelOf(P.A)
           Q == [A |-> g.A, select |-> P.select]
           y == <<g.A, P.select, lb - 1, bound - 1, nb>>
<1>0. P.A \in Matrices /\ P.select \in Solutions
  BY ProblemParts
<1>1. PICK p \in Rows(P.A), s \in Rows(P.A) : Gimpeled(P.A, g, p, s)
  BY <1>0, GimpelForm
<1> HIDE DEF g
<1>2. /\ g.A \in Matrices /\ g.c1 \in Cols(P.A) /\ g.c2 \in Cols(P.A) /\ g.c1 # g.c2
      /\ Cols(g.A) \subseteq Cols(P.A) \ {g.c1, g.c2}
      /\ \A X : (\A r \in Rows(g.A) : sm_row(g.A, r) \cap X # {}) =>
           \A r \in Rows(P.A) :
             sm_row(P.A, r) \cap (X \cup {IF g.save_sec \cap X # {} THEN g.c2 ELSE g.c1}) # {}
  BY <1>0, <1>1, GimpelFacts
<1>3. Q \in Problems /\ Q.A = g.A /\ Q.select = P.select
  BY <1>0, <1>2 DEF Problems
<1>4. /\ Cardinality(Cols(g.A)) < Cardinality(Cols(P.A)) /\ Cardinality(Cols(g.A)) \in Nat
      /\ Cardinality(Cols(P.A)) \in Nat /\ Cols(P.A) \subseteq Nat
  <2>1. Cols(g.A) \subseteq Cols(P.A) /\ Cols(g.A) # Cols(P.A)
    BY <1>2
  <2> QED BY <1>0, <1>2, <2>1, FewerColumns
<1>5. lb - 1 \in Int /\ bound - 1 \in Int
  OBVIOUS
<1>6. Cardinality(Cols(Q.A)) < k
  BY <1>3, <1>4
<1> HIDE DEF Q
<1>7. /\ Typed(h, k) => h[y] \in Solutions
      /\ Alike(f, h, k) => f[y] = h[y]
      /\ Right(h, k) /\ nb /\ Roomy(Q, bound - 1) /\ lb - 1 < bound - 1 => Solved(Q, h[y])
  <2>1. y = <<Q.A, Q.select, lb - 1, bound - 1, nb>>
    BY <1>3
  <2> DEFINE l == lb - 1
             b == bound - 1
  <2>2. l \in Int /\ b \in Int /\ y = <<Q.A, Q.select, l, b, nb>>
    BY <1>5, <2>1
  <2>3. (l < b) <=> (lb - 1 < bound - 1)
    OBVIOUS
  <2> HIDE DEF l, y
  <2>4. /\ Typed(h, k) => h[y] \in Solutions
        /\ Alike(f, h, k) => f[y] = h[y]
        /\ Right(h, k) /\ nb /\ Roomy(Q, b) /\ l < b => Solved(Q, h[y])
    <3> HIDE DEF b
    <3> QED BY <1>3, <1>6, <2>2, SearchSmaller
  <2> QED BY <2>3, <2>4
<1> DEFINE col(best) == IF g.save_sec \cap best.row # {} THEN g.c2 ELSE g.c1
<1>8. /\ Gimpel(g, P.select, lb, bound, nb, h) = IF h[y] = NIL THEN NIL ELSE solution_add(h[y], {col(h[y])})
      /\ Gimpel(g, P.select, lb, bound, nb, f) = IF f[y] = NIL THEN NIL ELSE solution_add(f[y], {col(f[y])})
  BY DEF Gimpel, GimpelUndo
<1> HIDE DEF y
<1>9. ASSUME Typed(h, k)
      PROVE  /\ Gimpel(g, P.select, lb, bound, nb, h) \in Solutions
             /\ h[y] # NIL => /\ Gimpel(g, P.select, lb, bound, nb, h).row = h[y].row \cup {col(h[y])}
                              /\ Gimpel(g, P.select, lb, bound, nb, h).cost = h[y].cost + 1
  <2>1. NIL \in Solutions
    <3>1. {} \in Finite(Nat)
      BY FS_EmptySet DEF Finite
    <3> QED BY <3>1 DEF NIL, Solutions
  <2>2. {col(h[y])} \in SUBSET Nat /\ IsFiniteSet({col(h[y])}) /\ Cardinality({col(h[y])}) = 1
    <3>1. col(h[y]) \in Nat
      BY <1>2, <1>4
    <3> QED BY <3>1, FS_Singleton
  <2>3. h[y] \in Solutions
    BY <1>7, <1>9
  <2> HIDE DEF col
  <2> QED BY <1>8, <2>1, <2>2, <2>3, AddFacts
<1>10. ASSUME Typed(h, k), Right(h, k), nb, Roomy(P, bound), lb < bound
       PROVE  Solved(P, Gimpel(g, P.select, lb, bound, nb, h))
  <2> DEFINE s1 == Gimpel(g, P.select, lb, bound, nb, h)
             c  == col(h[y])
  <2>1. Roomy(Q, bound - 1) /\ lb - 1 < bound - 1
    <3>1. P.select.row \cap Cols(g.A) = {}
      BY <1>2, <1>10 DEF Roomy
    <3>2. P.select.cost \in Nat /\ P.select.cost + Cardinality(Cols(g.A)) < bound - 1
      BY <1>4, <1>10 DEF Roomy
    <3> QED BY <1>3, <1>10, <3>1, <3>2 DEF Roomy
  <2>2. Solved(Q, h[y])
    BY <1>7, <1>10, <2>1
  <2>3. s1.row = h[y].row \cup {c} /\ s1.cost = h[y].cost + 1
    BY <1>9, <1>10, <2>2, CoverIsSome
  <2>4. c \in {g.c1, g.c2} /\ c = IF g.save_sec \cap h[y].row # {} THEN g.c2 ELSE g.c1
    OBVIOUS
  <2> HIDE DEF s1, c
  <2>5. /\ h[y].cost \in Nat
        /\ P.select.row \subseteq h[y].row /\ h[y].row \subseteq P.select.row \cup Cols(g.A)
        /\ \A r \in Rows(g.A) : sm_row(g.A, r) \cap h[y].row # {}
    BY <1>3, <2>2 DEF Solved, Solves
  <2>6. \A r \in Rows(P.A) : sm_row(P.A, r) \cap s1.row # {}
    BY <1>2, <2>3, <2>4, <2>5
  <2>7. P.select.row \subseteq s1.row /\ s1.row \subseteq P.select.row \cup Cols(P.A)
    BY <1>2, <2>3, <2>4, <2>5
  <2>8. ~ (Cols(P.A) \subseteq s1.row)
    BY <1>2, <1>10, <2>3, <2>4, <2>5 DEF Roomy
  <2>9. s1.cost \in Nat
    BY <2>3, <2>5
  <2>10. Solved(P, s1)
    BY <2>6, <2>7, <2>8, <2>9 DEF Solved, Solves
  <2> QED BY <2>10 DEF s1
<1>11. ASSUME Typed(h, k), Alike(f, h, k)
       PROVE  Gimpel(g, P.select, lb, bound, nb, f) = Gimpel(g, P.select, lb, bound, nb, h)
  BY <1>7, <1>8, <1>11
<1> QED BY <1>9, <1>10, <1>11 DEF Sound, g

(* So does the search of two blocks, one after the other.                  *)
LEMMA BlocksSound ==
  ASSUME NEW P \in Problems, NEW L \in Matrices, NEW R \in Matrices,
         Blocked(P.A, L, R) \/ Blocked(P.A, R, L),
         Cardinality(Cols(L)) < Cardinality(Cols(P.A)), Cardinality(Cols(R)) < Cardinality(Cols(P.A)),
         NEW k \in Nat, Cardinality(Cols(P.A)) <= k,
         NEW lb \in Int, NEW bound \in Int, NEW nb \in BOOLEAN, NEW h, NEW f
  PROVE  Sound(P, lb, bound, nb, k, h, f,
               Blocks(L, R, P.select, lb, bound, nb, h),
               Blocks(L, R, P.select, lb, bound, nb, f))
<1> DEFINE z == 0
           room == bound - P.select.cost
           P1 == [A |-> L, select |-> solution_alloc]
           y1 == <<L, solution_alloc, z, room, nb>>
           P2(s) == [A |-> R, select |-> solution_add(P.select, s.row)]
           y2(s) == <<R, solution_add(P.select, s.row), lb, bound, nb>>
<1>0. P.A \in Matrices /\ P.select \in Solutions /\ P.select.cost \in Int
  BY ProblemParts
<1>1. /\ Rows(P.A) \subseteq Rows(L) \cup Rows(R)
      /\ \A r \in Rows(L) : sm_row(L, r) = sm_row(P.A, r)
      /\ \A r \in Rows(R) : sm_row(R, r) = sm_row(P.A, r)
      /\ Rows(L) \subseteq Rows(P.A) /\ Rows(R) \subseteq Rows(P.A)
      /\ Cols(P.A) = Cols(L) \cup Cols(R) /\ Cols(L) \cap Cols(R) = {}
      /\ Cardinality(Cols(P.A)) = Cardinality(Cols(L)) + Cardinality(Cols(R))
      /\ Cardinality(Cols(L)) \in Nat /\ Cardinality(Cols(R)) \in Nat /\ Cols(P.A) \subseteq Nat
  <2>1. /\ Cardinality(Cols(L)) \in Nat /\ Cardinality(Cols(R)) \in Nat /\ Cols(P.A) \subseteq Nat
        /\ Cardinality(Cols(L)) + Cardinality(Cols(R)) = Cardinality(Cols(R)) + Cardinality(Cols(L))
    BY <1>0, MatrixFacts
  <2>2. L \in SUBSET P.A /\ R \in SUBSET P.A
    BY DEF Blocked
  <2>3. Rows(L) \subseteq Rows(P.A) /\ Rows(R) \subseteq Rows(P.A)
    BY <1>0, <2>2, PartMatrix
  <2> QED BY <2>1, <2>3 DEF Blocked
<1>2. /\ Blocks(L, R, P.select, lb, bound, nb, h) = IF h[y1] = NIL THEN NIL ELSE h[y2(h[y1])]
      /\ Blocks(L, R, P.select, lb, bound, nb, f) = IF f[y1] = NIL THEN NIL ELSE f[y2(f[y1])]
  BY DEF Blocks
<1>3. P1 \in Problems /\ P1.A = L /\ P1.select = solution_alloc
  <2>1. {} \in Finite(Nat)
    BY FS_EmptySet DEF Finite
  <2> QED BY <2>1 DEF Problems, Solutions, solution_alloc
<1>4. NIL \in Solutions
  <2>1. {} \in Finite(Nat)
    BY FS_EmptySet DEF Finite
  <2> QED BY <2>1 DEF NIL, Solutions
<1>5. /\ Typed(h, k) => h[y1] \in Solutions
      /\ Alike(f, h, k) => f[y1] = h[y1]
      /\ Right(h, k) /\ nb /\ Roomy(P1, room) /\ z < room => Solved(P1, h[y1])
  <2>1. z \in Int /\ room \in Int
    BY <1>0
  <2>2. Cardinality(Cols(P1.A)) < k
    <3>1. Cardinality(Cols(P.A)) \in Nat
      BY <1>0, MatrixFacts
    <3> QED BY <1>1, <1>3, <3>1
  <2>3. y1 = <<P1.A, P1.select, z, room, nb>>
    BY <1>3
  <2> HIDE DEF z, room, P1, y1
  <2> QED BY <1>3, <2>1, <2>2, <2>3, SearchSmaller
<1>6. ASSUME NEW s \in Solutions
      PROVE  /\ P2(s) \in Problems /\ P2(s).A = R
             /\ P2(s).select.row = P.select.row \cup s.row
             /\ P2(s).select.cost = P.select.cost + Cardinality(s.row) /\ Cardinality(s.row) \in Nat
             /\ Typed(h, k) => h[y2(s)] \in Solutions
             /\ Alike(f, h, k) => f[y2(s)] = h[y2(s)]
             /\ Right(h, k) /\ nb /\ Roomy(P2(s), bound) /\ lb < bound => Solved(P2(s), h[y2(s)])
  <2> DEFINE Q == P2(s)
             y == y2(s)
             C == s.row
  <2>1. C \in SUBSET Nat /\ IsFiniteSet(C)
    BY DEF Solutions, Finite
  <2>2. Q.A = R /\ Q.select = solution_add(P.select, C)
    OBVIOUS
  <2>3. /\ solution_add(P.select, C) \in Solutions
        /\ solution_add(P.select, C).row = P.select.row \cup C
        /\ solution_add(P.select, C).cost = P.select.cost + Cardinality(C)
        /\ Cardinality(C) \in Nat
    <3> HIDE DEF C
    <3> QED BY <1>0, <2>1, AddFacts
  <2>4. Q \in Problems
    BY <2>3 DEF Problems
  <2>5. y = <<Q.A, Q.select, lb, bound, nb>>
    OBVIOUS
  <2>6. Cardinality(Cols(Q.A)) < k
    <3>1. Cardinality(Cols(P.A)) \in Nat
      BY <1>0, MatrixFacts
    <3> QED BY <1>1, <2>2, <3>1
  <2>7. /\ Typed(h, k) => h[y] \in Solutions
        /\ Alike(f, h, k) => f[y] = h[y]
        /\ Right(h, k) /\ nb /\ Roomy(Q, bound) /\ lb < bound => Solved(Q, h[y])
    <3> HIDE DEF Q, y
    <3> QED BY <2>4, <2>5, <2>6, SearchSmaller
  <2> QED BY <2>2, <2>3, <2>4, <2>7
<1> HIDE DEF y1, P1, y2, P2, z
<1>7. ASSUME Typed(h, k) PROVE Blocks(L, R, P.select, lb, bound, nb, h) \in Solutions
  BY <1>2, <1>4, <1>5, <1>6, <1>7
<1>8. ASSUME Typed(h, k), Alike(f, h, k)
      PROVE  Blocks(L, R, P.select, lb, bound, nb, f) = Blocks(L, R, P.select, lb, bound, nb, h)
  BY <1>2, <1>5, <1>6, <1>8
<1>9. ASSUME Typed(h, k), Right(h, k), nb, Roomy(P, bound), lb < bound
      PROVE  Solved(P, Blocks(L, R, P.select, lb, bound, nb, h))
  <2> DEFINE s1 == h[y1]
             s2 == h[y2(s1)]
  <2>0. P.select.row \cap Cols(P.A) = {} /\ P.select.cost \in Nat
        /\ P.select.cost + Cardinality(Cols(P.A)) < bound
    BY <1>9 DEF Roomy
  <2>1. Roomy(P1, room) /\ z < room
    <3>1. P1.select.row = {} /\ P1.select.cost = 0
      BY <1>3 DEF solution_alloc
    <3> QED BY <1>1, <1>3, <2>0, <3>1 DEF Roomy, z
  <2>2. Solved(P1, s1) /\ s1 \in Solutions /\ s1 # NIL
    BY <1>5, <1>9, <2>1, CoverIsSome
  <2>3. s1.row \subseteq Cols(L) /\ (\A r \in Rows(L) : sm_row(L, r) \cap s1.row # {})
        /\ (Cols(L) \subseteq s1.row => Alone(L))
    <3>1. P1.select.row = {}
      BY <1>3 DEF solution_alloc
    <3> QED BY <1>3, <2>2, <3>1 DEF Solved, Solves
  <2>4. Cardinality(s1.row) <= Cardinality(Cols(L)) /\ Cardinality(s1.row) \in Nat
    <3>1. IsFiniteSet(Cols(L))
      BY MatrixFacts
    <3> QED BY <2>3, <3>1, FS_Subset, FS_CardinalityType
  <2> DEFINE Q == P2(s1)
  <2>5. /\ Q \in Problems /\ Q.A = R /\ Q.select.row = P.select.row \cup s1.row
        /\ Q.select.cost = P.select.cost + Cardinality(s1.row)
        /\ Right(h, k) /\ nb /\ Roomy(Q, bound) /\ lb < bound => Solved(Q, s2)
    BY <1>6, <2>2
  <2> HIDE DEF Q
  <2>6. Roomy(Q, bound)
    <3>1. Q.select.row \cap Cols(Q.A) = {}
      BY <1>1, <2>0, <2>3, <2>5
    <3>2. Q.select.cost \in Nat /\ Q.select.cost + Cardinality(Cols(Q.A)) < bound
      BY <1>1, <2>0, <2>4, <2>5
    <3> QED BY <3>1, <3>2 DEF Roomy
  <2>7. Solved(Q, s2)
    BY <1>9, <2>5, <2>6
  <2>8. Blocks(L, R, P.select, lb, bound, nb, h) = s2
    BY <1>2, <2>2
  <2> HIDE DEF s1, s2
  <2>9. /\ s2.cost \in Nat
        /\ P.select.row \cup s1.row \subseteq s2.row /\ s2.row \subseteq P.select.row \cup s1.row \cup Cols(R)
        /\ \A r \in Rows(R) : sm_row(R, r) \cap s2.row # {}
        /\ Cols(R) \subseteq s2.row => Alone(R)
    BY <2>5, <2>7 DEF Solved, Solves
  <2>10. P.select.row \subseteq s2.row /\ s2.row \subseteq P.select.row \cup Cols(P.A)
    BY <1>1, <2>3, <2>9
  <2>11. ASSUME NEW r \in Rows(P.A) PROVE sm_row(P.A, r) \cap s2.row # {}
    <3>1. CASE r \in Rows(L)
      BY <1>1, <2>3, <2>9, <3>1
    <3>2. CASE r \in Rows(R)
      BY <1>1, <2>9, <3>2
    <3> QED BY <1>1, <3>1, <3>2
  <2>12. ASSUME Cols(P.A) \subseteq s2.row PROVE Alone(P.A)
    <3>1. Alone(R) /\ Alone(L)
      <4>1. Cols(L) \subseteq s1.row
        BY <1>1, <2>0, <2>9, <2>12
      <4> QED BY <1>1, <2>3, <2>9, <2>12, <4>1
    <3> QED BY <1>1, <3>1 DEF Alone
  <2>13. Solved(P, s2)
    BY <2>9, <2>10, <2>11, <2>12 DEF Solved, Solves
  <2> QED BY <2>8, <2>13
<1> QED BY <1>7, <1>8, <1>9 DEF Sound

(* So does branching on a column: without it first, and with it if that    *)
(* is asked for.                                                           *)
LEMMA BranchSound ==
  ASSUME NEW P \in Problems, Essen(P.A) = {}, NEW pick \in Cols(P.A),
         NEW k \in Nat, Cardinality(Cols(P.A)) <= k,
         NEW lb \in Int, NEW bound \in Int, NEW nb \in BOOLEAN, NEW h, NEW f
  PROVE  Sound(P, lb, bound, nb, k, h, f,
               Branch(P.A, P.select, pick, lb, bound, nb, h),
               Branch(P.A, P.select, pick, lb, bound, nb, f))
<1> DEFINE C == {pick}
           yes == solution_accept(P, C)
           y1 == <<yes.A, yes.select, lb, bound, nb>>
           no == [A |-> sm_delcol(P.A, C), select |-> P.select]
           upto(s) == IF s # NIL THEN Min({bound, s.cost}) ELSE bound
           y2(s) == <<sm_delcol(P.A, C), P.select, lb, upto(s), nb>>
           result(e) == IF nb \/ (e[y1] # NIL /\ e[y1].cost = lb) THEN e[y1]
                        ELSE solution_choose_best(e[y1], e[y2(e[y1])])
<1>0. /\ P.A \in Matrices /\ P.select \in Solutions /\ P.select.cost \in Int
      /\ P = [A |-> P.A, select |-> P.select]
  BY ProblemParts
<1>1. /\ Branch(P.A, P.select, pick, lb, bound, nb, h) = result(h)
      /\ Branch(P.A, P.select, pick, lb, bound, nb, f) = result(f)
  BY <1>0 DEF Branch
<1>2. Accepted(P, C, yes)
  <2>1. C \in SUBSET Cols(P.A)
    OBVIOUS
  <2> HIDE DEF C
  <2> QED BY <2>1, AcceptFacts
<1> HIDE DEF yes
<1>3. /\ yes \in Problems /\ yes.A \in SUBSET P.A
      /\ yes.select.row = P.select.row \cup C /\ yes.select.cost = P.select.cost + 1
      /\ Cols(yes.A) \subseteq Cols(P.A) \ C
      /\ \A r \in Rows(yes.A) : sm_row(yes.A, r) = sm_row(P.A, r)
      /\ \A r \in Rows(P.A) : r \in Rows(yes.A) \/ sm_row(P.A, r) \cap C # {}
      /\ yes.A \in Matrices
  <2>1. Cardinality(C) = 1
    BY FS_Singleton
  <2>2. yes \in Problems
    BY <1>2 DEF Accepted
  <2>3. yes.A \in Matrices
    BY <2>2, ProblemParts
  <2> QED BY <1>2, <2>1, <2>3 DEF Accepted
<1>4. /\ Cardinality(Cols(yes.A)) < Cardinality(Cols(P.A)) /\ Cardinality(Cols(yes.A)) \in Nat
      /\ Cardinality(Cols(P.A)) \in Nat
  <2>1. Cols(yes.A) \subseteq Cols(P.A) /\ Cols(yes.A) # Cols(P.A)
    BY <1>3
  <2> QED BY <1>0, <1>3, <2>1, FewerColumns
<1>5. no \in Problems /\ no.A = sm_delcol(P.A, C) /\ no.select = P.select
      /\ Cardinality(Cols(no.A)) < Cardinality(Cols(P.A)) /\ Cardinality(Cols(no.A)) \in Nat
  <2> DEFINE B == sm_delcol(P.A, C)
  <2>1. B \in SUBSET P.A /\ Cols(B) = Cols(P.A) \ C
    BY <1>0, DelColFacts
  <2>2. B \in Matrices
    <3> HIDE DEF B
    <3> QED BY <1>0, <2>1, PartMatrix
  <2>3. no \in Problems /\ no.A = B /\ no.select = P.select
    BY <1>0, <2>2 DEF Problems
  <2> HIDE DEF B, no
  <2>4. Cols(B) \subseteq Cols(P.A) /\ Cols(B) # Cols(P.A)
    BY <2>1
  <2>5. Cardinality(Cols(B)) < Cardinality(Cols(P.A)) /\ Cardinality(Cols(B)) \in Nat
    BY <1>0, <2>2, <2>4, FewerColumns
  <2> QED BY <2>3, <2>5 DEF B
<1>6. /\ Typed(h, k) => h[y1] \in Solutions
      /\ Alike(f, h, k) => f[y1] = h[y1]
      /\ Right(h, k) /\ nb /\ Roomy(yes, bound) /\ lb < bound => Solved(yes, h[y1])
  <2>1. Cardinality(Cols(yes.A)) < k
    BY <1>4
  <2>2. y1 = <<yes.A, yes.select, lb, bound, nb>>
    OBVIOUS
  <2> HIDE DEF y1
  <2> QED BY <1>3, <2>1, <2>2, SearchSmaller
<1>7. ASSUME NEW s \in Solutions
      PROVE  /\ Typed(h, k) => h[y2(s)] \in Solutions
             /\ Alike(f, h, k) => f[y2(s)] = h[y2(s)]
  <2> DEFINE y == y2(s)
             b == upto(s)
  <2>1. b \in Int
    <3>1. s.cost \in Int
      BY DEF Solutions
    <3>2. Min({bound, s.cost}) \in Int
      BY <3>1, MinMax
    <3> QED BY <3>2
  <2>2. y = <<no.A, no.select, lb, b, nb>>
    BY <1>5
  <2>3. Cardinality(Cols(no.A)) < k
    BY <1>4, <1>5
  <2> HIDE DEF b
  <2>4. /\ Typed(h, k) => h[y] \in Solutions
        /\ Alike(f, h, k) => f[y] = h[y]
    <3> HIDE DEF y, no
    <3>1. y \in Smaller(k)
      BY <1>5, <2>1, <2>2, <2>3, SearchSmaller
    <3> QED BY <3>1 DEF Typed, Alike
  <2> QED BY <2>4
<1> HIDE DEF y1, y2, no
<1>8. ASSUME Typed(h, k) PROVE result(h) \in Solutions
  <2>1. h[y1] \in Solutions /\ h[y2(h[y1])] \in Solutions
    BY <1>6, <1>7, <1>8
  <2> QED BY <2>1 DEF solution_choose_best
<1>9. ASSUME Typed(h, k), Alike(f, h, k) PROVE result(f) = result(h)
  <2>1. h[y1] \in Solutions /\ f[y1] = h[y1]
    BY <1>6, <1>9
  <2>2. f[y2(h[y1])] = h[y2(h[y1])]
    BY <1>7, <1>9, <2>1
  <2> QED BY <2>1, <2>2
<1>10. ASSUME Typed(h, k), Right(h, k), nb, Roomy(P, bound), lb < bound PROVE Solved(P, result(h))
  <2> DEFINE s == h[y1]
  <2>0. P.select.row \cap Cols(P.A) = {} /\ P.select.cost \in Nat
        /\ P.select.cost + Cardinality(Cols(P.A)) < bound
    BY <1>10 DEF Roomy
  <2>1. Roomy(yes, bound)
    <3>1. yes.select.row \cap Cols(yes.A) = {}
      BY <1>3, <2>0
    <3>2. yes.select.cost \in Nat /\ yes.select.cost + Cardinality(Cols(yes.A)) < bound
      BY <1>3, <1>4, <2>0
    <3> QED BY <3>1, <3>2 DEF Roomy
  <2>2. Solved(yes, s) /\ result(h) = s
    BY <1>6, <1>10, <2>1
  <2> HIDE DEF s, result
  <2>3. /\ s.cost \in Nat
        /\ P.select.row \cup C \subseteq s.row /\ s.row \subseteq P.select.row \cup C \cup Cols(yes.A)
        /\ \A r \in Rows(yes.A) : sm_row(yes.A, r) \cap s.row # {}
        /\ Cols(yes.A) \subseteq s.row => Alone(yes.A)
    BY <1>3, <2>2 DEF Solved, Solves
  <2>4. P.select.row \subseteq s.row /\ s.row \subseteq P.select.row \cup Cols(P.A)
    BY <1>3, <2>3
  <2>5. ASSUME NEW r \in Rows(P.A) PROVE sm_row(P.A, r) \cap s.row # {}
    BY <1>3, <2>3
  <2>6. ASSUME Cols(P.A) \subseteq s.row PROVE FALSE
    <3>0. ASSUME NEW r \in Rows(P.A), NEW c PROVE sm_row(P.A, r) # {c}
      BY <1>0, EssenFacts
    <3>1. Alone(yes.A) /\ Cols(P.A) \subseteq C \cup Cols(yes.A)
      BY <1>3, <2>0, <2>3, <2>6
    <3>2. ASSUME NEW c \in Cols(yes.A) PROVE FALSE
      <4>1. PICK r \in Rows(yes.A) : sm_row(yes.A, r) = {c}
        BY <3>1 DEF Alone
      <4>2. r \in Rows(P.A) /\ sm_row(P.A, r) = {c}
        BY <1>0, <1>3, <4>1, PartMatrix
      <4> QED BY <3>0, <4>2
    <3>3. Cols(P.A) = {pick}
      BY <3>1, <3>2
    <3>4. PICK r : r \in sm_col(P.A, pick)
      BY <1>0, MatrixFacts
    <3>5. r \in Rows(P.A) /\ pick \in sm_row(P.A, r) /\ sm_row(P.A, r) \subseteq Cols(P.A)
      BY <1>0, <3>4, MatrixFacts
    <3> QED BY <3>0, <3>3, <3>5
  <2>7. Solved(P, s)
    BY <2>3, <2>4, <2>5, <2>6 DEF Solved, Solves
  <2> QED BY <2>2, <2>7
<1> HIDE DEF result
<1> QED BY <1>1, <1>8, <1>9, <1>10 DEF Sound

(* So does the search of a settled problem.                                *)
LEMMA ReducedSound ==
  ASSUME NEW P \in Problems, NEW lb \in Int, NEW bound \in Int, NEW nb \in BOOLEAN,
         P.select.cost >= bound \/ Essen(P.A) = {},
         NEW k \in Nat, Cardinality(Cols(P.A)) <= k, NEW h, NEW f
  PROVE  Sound(P, lb, bound, nb, k, h, f,
               Reduced(P, lb, bound, nb, h), Reduced(P, lb, bound, nb, f))
<1> DEFINE indep == sm_maximal_independent_set(P.A)
           part == sm_block_partition(P.A)
           low == Max({P.select.cost + Cardinality(indep), lb})
           pick == select_column(P.A, indep)
<1>0. P.A \in Matrices /\ P.select \in Solutions /\ P.select.cost \in Int
      /\ Cardinality(Cols(P.A)) \in Nat
  BY ProblemParts, MatrixFacts
<1>1. NIL \in Solutions
  <2>1. {} \in Finite(Nat)
    BY FS_EmptySet DEF Finite
  <2> QED BY <2>1 DEF NIL, Solutions
<1>2. CASE P.select.cost >= bound
  <2>1. Reduced(P, lb, bound, nb, h) = NIL /\ Reduced(P, lb, bound, nb, f) = NIL
    BY <1>2 DEF Reduced
  <2>2. ~ Roomy(P, bound)
    BY <1>0, <1>2 DEF Roomy
  <2> QED BY <1>1, <2>1, <2>2 DEF Sound
<1>3. CASE ~ (P.select.cost >= bound) /\ GimpelRows(P.A) # {}
  <2>1. /\ Reduced(P, lb, bound, nb, h) = Gimpel(GimpelOf(P.A), P.select, lb, bound, nb, h)
        /\ Reduced(P, lb, bound, nb, f) = Gimpel(GimpelOf(P.A), P.select, lb, bound, nb, f)
    BY <1>3 DEF Reduced
  <2> QED BY <1>3, <2>1, GimpelSound
<1>4. CASE ~ (P.select.cost >= bound) /\ GimpelRows(P.A) = {}
  <2>0. Essen(P.A) = {}
    BY <1>4
  <2>1. /\ Reduced(P, lb, bound, nb, h) = Divide(P, part, indep, low, bound, nb, h)
        /\ Reduced(P, lb, bound, nb, f) = Divide(P, part, indep, low, bound, nb, f)
    BY <1>4 DEF Reduced, Bounded
  <2>2. /\ indep \in SUBSET Rows(P.A) /\ (P.A # {} => indep # {})
        /\ Cardinality(indep) \in Nat /\ Cardinality(indep) <= Cardinality(Cols(P.A))
    BY <1>0, IndependentFacts
  <2>3. low \in Int /\ (lb < bound /\ Roomy(P, bound) => low < bound)
    <3> DEFINE a == P.select.cost + Cardinality(indep)
    <3>1. a \in Int
      BY <1>0, <2>2
    <3>2. Roomy(P, bound) => a < bound
      BY <1>0, <2>2 DEF Roomy
    <3>3. low = Max({a, lb})
      OBVIOUS
    <3> HIDE DEF a, low
    <3>4. low = IF a >= lb THEN a ELSE lb
      BY <3>1, <3>3, MinMax
    <3> QED BY <3>1, <3>2, <3>4
  <2> HIDE DEF indep, low
  <2>4. SUFFICES Sound(P, low, bound, nb, k, h, f,
                       Divide(P, part, indep, low, bound, nb, h),
                       Divide(P, part, indep, low, bound, nb, f))
    BY <2>1, <2>3 DEF Sound
  <2>5. CASE low >= bound
    <3>1. Divide(P, part, indep, low, bound, nb, h) = NIL /\ Divide(P, part, indep, low, bound, nb, f) = NIL
      BY <2>5 DEF Divide
    <3>2. ~ (low < bound)
      BY <2>3, <2>5
    <3> QED BY <1>1, <3>1, <3>2 DEF Sound
  <2>6. CASE ~ (low >= bound) /\ P.A = {}
    <3>1. Divide(P, part, indep, low, bound, nb, h) = P.select /\ Divide(P, part, indep, low, bound, nb, f) = P.select
      BY <2>6 DEF Divide
    <3>2. Roomy(P, bound) => Solved(P, P.select)
      <4>1. Rows(P.A) = {} /\ Cols(P.A) = {}
        BY <2>6 DEF Rows, Cols
      <4> QED BY <4>1 DEF Solved, Solves, Alone, Roomy
    <3> QED BY <1>0, <3>1, <3>2 DEF Sound
  <2>7. CASE ~ (low >= bound) /\ P.A # {} /\ part.R = {}
    <3>1. /\ Divide(P, part, indep, low, bound, nb, h) = Branch(P.A, P.select, pick, low, bound, nb, h)
          /\ Divide(P, part, indep, low, bound, nb, f) = Branch(P.A, P.select, pick, low, bound, nb, f)
      BY <2>7 DEF Divide
    <3>2. pick \in Cols(P.A)
      BY <1>0, <2>0, <2>2, <2>7, PickFacts
    <3> HIDE DEF pick
    <3> QED BY <2>0, <2>3, <3>1, <3>2, BranchSound
  <2>8. CASE ~ (low >= bound) /\ P.A # {} /\ part.R # {}
    <3> DEFINE L == part.L
               R == part.R
    <3>1. Blocked(P.A, L, R)
      BY <1>0, <2>8, BlocksFacts
    <3> HIDE DEF part, L, R
    <3>2. L \in Matrices /\ R \in Matrices
      BY <1>0, <3>1, PartMatrix DEF Blocked
    <3>3. Cardinality(Cols(L)) < Cardinality(Cols(P.A)) /\ Cardinality(Cols(R)) < Cardinality(Cols(P.A))
      BY <2>8, <3>1 DEF Blocked, R
    <3>4. CASE Cardinality(Cols(L)) > Cardinality(Cols(R))
      <4>1. /\ Divide(P, part, indep, low, bound, nb, h) = Blocks(R, L, P.select, low, bound, nb, h)
            /\ Divide(P, part, indep, low, bound, nb, f) = Blocks(R, L, P.select, low, bound, nb, f)
        BY <2>8, <3>4 DEF Divide, L, R
      <4> QED BY <2>3, <3>1, <3>2, <3>3, <4>1, BlocksSound
    <3>5. CASE ~ (Cardinality(Cols(L)) > Cardinality(Cols(R)))
      <4>1. /\ Divide(P, part, indep, low, bound, nb, h) = Blocks(L, R, P.select, low, bound, nb, h)
            /\ Divide(P, part, indep, low, bound, nb, f) = Blocks(L, R, P.select, low, bound, nb, f)
        BY <2>8, <3>5 DEF Divide, L, R
      <4> QED BY <2>3, <3>1, <3>2, <3>3, <4>1, BlocksSound
    <3> QED BY <3>4, <3>5
  <2> QED BY <2>5, <2>6, <2>7, <2>8
<1> QED BY <1>2, <1>3, <1>4

(* Every search ends with an answer.                                       *)
LEMMA SearchAnswers ==
  ASSUME NEW x0 \in Searches
  PROVE  sm_mincov[x0] \in Solutions /\ Answers(x0, sm_mincov[x0])
<1> DEFINE m == [x \in Searches |-> Cardinality(Cols(x[1]))]
           V == Solutions
           settled(x) == select_essential(x[1], x[2], x[4])
           F(h) == [x \in Searches |-> Reduced(settled(x), x[3], x[4], x[5], h)]
           B == [h \in [Searches -> V] |-> F(h)]
<1>1. \A x \in Searches : /\ x[1] \in Matrices /\ x[2] \in Solutions /\ x[3] \in Int /\ x[4] \in Int
                          /\ x[5] \in BOOLEAN /\ m[x] = Cardinality(Cols(x[1])) /\ m[x] \in Nat
  BY MatrixFacts DEF Searches
<1>2. m \in [Searches -> Nat]
  BY <1>1
<1> HIDE DEF m
<1>3. ASSUME NEW x \in Searches
      PROVE  /\ Rounded([A |-> x[1], select |-> x[2]], settled(x), x[4])
             /\ \A h, f : Sound(settled(x), x[3], x[4], x[5], m[x], h, f, F(h)[x], F(f)[x])
  <2> DEFINE P == [A |-> x[1], select |-> x[2]]
             Q == settled(x)
  <2>1. Rounded(P, Q, x[4])
    BY <1>1, SelectEssentialFacts
  <2>2. Q \in Problems /\ Q.A \in SUBSET x[1] /\ (Q.select.cost >= x[4] \/ Essen(Q.A) = {})
    BY <2>1 DEF Rounded
  <2> HIDE DEF Q
  <2>3. Cardinality(Cols(Q.A)) <= m[x]
    BY <1>1, <2>2, PartMatrix
  <2>4. ASSUME NEW h, NEW f PROVE Sound(Q, x[3], x[4], x[5], m[x], h, f, F(h)[x], F(f)[x])
    <3>1. /\ F(h)[x] = Reduced(Q, x[3], x[4], x[5], h)
          /\ F(f)[x] = Reduced(Q, x[3], x[4], x[5], f)
      BY DEF Q
    <3> HIDE DEF F
    <3>2. Sound(Q, x[3], x[4], x[5], m[x], h, f, Reduced(Q, x[3], x[4], x[5], h), Reduced(Q, x[3], x[4], x[5], f))
      BY <1>1, <2>2, <2>3, ReducedSound
    <3> QED BY <3>1, <3>2
  <2> QED BY <2>1, <2>4 DEF Q
<1>4. \A x \in Searches : Smaller(m[x]) = {y \in Searches : m[y] < m[x]}
  BY <1>1 DEF Smaller
<1>5. ASSUME NEW h \in [Searches -> V] PROVE F(h) \in [Searches -> V]
  <2>1. ASSUME NEW x \in Searches PROVE F(h)[x] \in V
    <3>1. Typed(h, m[x])
      BY DEF Typed, Smaller
    <3>2. Sound(settled(x), x[3], x[4], x[5], m[x], h, h, F(h)[x], F(h)[x])
      BY <1>3
    <3> HIDE DEF F
    <3> QED BY <3>1, <3>2 DEF Sound
  <2>2. F(h) = [x \in Searches |-> F(h)[x]]
    OBVIOUS
  <2> HIDE DEF F
  <2> QED BY <2>1, <2>2
<1>6. ASSUME NEW f \in [Searches -> V], NEW h \in [Searches -> V], NEW x \in Searches,
             \A y \in Searches : m[y] < m[x] => f[y] = h[y]
      PROVE  F(f)[x] = F(h)[x]
  <2>1. Typed(h, m[x]) /\ Alike(f, h, m[x])
    BY <1>4, <1>6 DEF Typed, Alike
  <2>2. Sound(settled(x), x[3], x[4], x[5], m[x], h, f, F(h)[x], F(f)[x])
    BY <1>3
  <2> HIDE DEF F
  <2> QED BY <2>1, <2>2 DEF Sound
<1> HIDE DEF F
<1>7. \E h \in [Searches -> V] : h = F(h)
  <2>1. B \in [[Searches -> V] -> [Searches -> V]]
    BY <1>5
  <2>2. \A f \in [Searches -> V], h \in [Searches -> V], x \in Searches :
          (\A y \in Searches : m[y] < m[x] => f[y] = h[y]) => B[f][x] = B[h][x]
    BY <1>6
  <2>3. \A h \in [Searches -> V] : B[h] = F(h)
    OBVIOUS
  <2>4. V # {}
    BY <1>1
  <2> HIDE DEF B, V
  <2>5. Recursion(Searches, V, m, B)
    BY <1>2, <2>1, <2>2, <2>4 DEF Recursion
  <2>6. \E h \in [Searches -> V] : h = B[h]
    BY <2>5, MeasureRecursion
  <2> QED BY <2>3, <2>6
<1>8. sm_mincov = F(sm_mincov)
  <2>1. sm_mincov = CHOOSE h : h = F(h)
    BY DEF sm_mincov, F, Searches
  <2> QED BY <1>7, <2>1
<1> DEFINE G == {x \in Searches : sm_mincov[x] \in V /\ Answers(x, sm_mincov[x])}
<1>9. \A x \in Searches : (\A y \in Searches : m[y] < m[x] => y \in G) => x \in G
  <2> SUFFICES ASSUME NEW x \in Searches, \A y \in Searches : m[y] < m[x] => y \in G
               PROVE  sm_mincov[x] \in V /\ Answers(x, sm_mincov[x])
    OBVIOUS
  <2> DEFINE s == sm_mincov[x]
             P == [A |-> x[1], select |-> x[2]]
             Q == settled(x)
  <2>1. Typed(sm_mincov, m[x]) /\ Right(sm_mincov, m[x])
    BY <1>4 DEF Typed, Right
  <2>2. s = F(sm_mincov)[x]
    BY <1>8
  <2>3. Sound(Q, x[3], x[4], x[5], m[x], sm_mincov, sm_mincov, F(sm_mincov)[x], F(sm_mincov)[x])
        /\ Rounded(P, Q, x[4])
    BY <1>3
  <2> HIDE DEF s, Q
  <2>4. s \in Solutions /\ (x[5] /\ Roomy(Q, x[4]) /\ x[3] < x[4] => Solved(Q, s))
    BY <2>1, <2>2, <2>3 DEF Sound
  <2>5. Answers(x, s)
    <3>1. Roomy(P, x[4]) => Roomy(Q, x[4]) /\ (Solves(Q, s) => Solves(P, s))
      BY <2>3 DEF Rounded
    <3> HIDE DEF P
    <3>2. x[5] /\ Roomy(P, x[4]) /\ x[3] < x[4] => Solved(P, s)
      BY <2>4, <3>1 DEF Solved
    <3> QED BY <3>2 DEF Answers, P
  <2> QED BY <2>4, <2>5 DEF s
<1>10. Searches \subseteq G
  <2> HIDE DEF G
  <2> QED BY <1>2, <1>9, MeasureInduction
<1> QED BY <1>10

(* The cover of a matrix, as the heuristic search finds it: always one, of *)
(* columns of the matrix, that meets every row; and it takes all the       *)
(* columns only if each of them is the only one of some row.               *)
THEOREM MinimumCover ==
  ASSUME NEW A \in Matrices
  PROVE  /\ sm_minimum_cover(A, TRUE) # NIL
         /\ sm_minimum_cover(A, TRUE) \in Solutions
         /\ sm_minimum_cover(A, TRUE).row \subseteq Cols(A)
         /\ verify_cover(A, sm_minimum_cover(A, TRUE).row)
         /\ Cols(A) \subseteq sm_minimum_cover(A, TRUE).row => Alone(A)
<1> DEFINE bound == Cardinality(Cols(A)) + 1
           z == 0
           t == TRUE
           P == [A |-> A, select |-> solution_alloc]
           x == <<A, solution_alloc, z, bound, t>>
           s == sm_mincov[x]
<1>1. solution_alloc \in Solutions /\ solution_alloc.row = {} /\ solution_alloc.cost = 0
  <2>1. {} \in Finite(Nat)
    BY FS_EmptySet DEF Finite
  <2> QED BY <2>1 DEF Solutions, solution_alloc
<1>2. Cardinality(Cols(A)) \in Nat
  BY MatrixFacts
<1>4. Roomy(P, bound)
  BY <1>1, <1>2 DEF Roomy
<1>5. z < bound /\ t /\ z \in Int /\ bound \in Int /\ t \in BOOLEAN
  BY <1>2
<1> HIDE DEF z, t, bound
<1>3. x \in Searches /\ x[1] = A /\ x[2] = solution_alloc /\ x[3] = z /\ x[4] = bound /\ x[5] = t
  BY <1>1, <1>5 DEF Searches
<1> HIDE DEF x
<1>6. s \in Solutions /\ Answers(x, s)
  BY <1>3, SearchAnswers
<1> HIDE DEF s
<1>7. Solved(P, s)
  BY <1>3, <1>4, <1>5, <1>6 DEF Answers
<1>8. /\ s.row \subseteq Cols(A) /\ (\A r \in Rows(A) : sm_row(A, r) \cap s.row # {})
      /\ Cols(A) \subseteq s.row => Alone(A)
  BY <1>1, <1>7 DEF Solved, Solves
<1>9. s # NIL
  BY <1>7, CoverIsSome
<1>10. CASE A = {}
  <2>1. sm_minimum_cover(A, TRUE) = solution_alloc
    BY <1>10 DEF sm_minimum_cover
  <2>2. Rows(A) = {} /\ Cols(A) = {}
    BY <1>10 DEF Rows, Cols
  <2>3. solution_alloc # NIL
    BY DEF solution_alloc, NIL
  <2> QED BY <1>1, <2>1, <2>2, <2>3 DEF verify_cover, Alone
<1>11. CASE A # {}
  <2>1. verify_cover(A, s.row)
    BY <1>8 DEF verify_cover
  <2>2. sm_minimum_cover(A, TRUE) = s
    BY <1>9, <1>11, <2>1 DEF sm_minimum_cover, Verified, s, x, z, t, bound
  <2> QED BY <1>6, <1>8, <1>9, <2>1, <2>2
<1> QED BY <1>10, <1>11

(***************************************************************************)
(* The other direction for the rows of irredundant: a row that names the   *)
(* cube c alone stands for points that no other cube has.                  *)
(***************************************************************************)
FtOpen(x)     == \A v \in Vars : var_mask[v] \ x[1] # {}
FtFills(L, x) == \A q \in Points : q \cap x[1] = {} => \E k \in x[2] : q \subseteq L[k]
FtSeen(L, c, x, row) ==
  c \notin x[2] /\ FtOpen(x) /\ FtFills(L, x) => \A n \in DOMAIN row : row[n] # {c}

(* A subproblem is filled just when its cubelist is.                       *)
LEMMA FtFilled ==
  ASSUME NEW L \in Seq(Cubes), NEW x \in FtProblems(L)
  PROVE  /\ FtFills(L, x) => Fills(FtList(L, x))
         /\ FtOpen(x) => Open(FtList(L, x))
         /\ HasFullRow(FtList(L, x)) => FtFull(L, x) # {}
<1>1. x[1] \in Cubes /\ x[2] \in SUBSET DOMAIN L
  BY DEF FtProblems
<1>2. /\ \A k \in DOMAIN Keep(L, x[2]) : \E i \in x[2] : Keep(L, x[2])[k] = L[i]
      /\ \A i \in x[2] : \E k \in DOMAIN Keep(L, x[2]) : Keep(L, x[2])[k] = L[i]
  BY <1>1, KeepFacts
<1>3. FtList(L, x).cof = x[1] /\ FtList(L, x).cubes = Keep(L, x[2])
  BY DEF FtList
<1>4. FtFills(L, x) => Fills(FtList(L, x))
  BY <1>2, <1>3 DEF FtFills, Fills
<1>5. FtOpen(x) => Open(FtList(L, x))
  BY <1>3 DEF FtOpen, Open
<1>6. HasFullRow(FtList(L, x)) => FtFull(L, x) # {}
  BY <1>2, <1>3 DEF HasFullRow, FtFull, ToSet
<1> QED BY <1>4, <1>5, <1>6

(* One subproblem, from those it is split into.                            *)
LEMMA FtSeenStep ==
  ASSUME NEW L \in Seq(Cubes), NEW redund, NEW c \in DOMAIN L, NEW x \in FtProblems(L),
         NEW rows \in [FtProblems(L) -> Seq(SUBSET DOMAIN L)],
         \A y \in FtProblems(L) : FtSize(L)[y] < FtSize(L)[x] => FtSeen(L, c, y, rows[y])
  PROVE  FtSeen(L, c, x, FtRows(L, redund, c, x, rows))
<1> DEFINE u == FtUnate(L, x)
           l == FtSide(L, x, FtHalf(L, x).left)
           r == FtSide(L, x, FtHalf(L, x).right)
           T == FtList(L, x)
<1> SUFFICES ASSUME c \notin x[2], FtOpen(x), FtFills(L, x)
             PROVE  \A n \in DOMAIN FtRows(L, redund, c, x, rows) : FtRows(L, redund, c, x, rows)[n] # {c}
  BY DEF FtSeen
<1>0. /\ T \in CubelistType /\ T.cof = x[1] /\ Open(T) /\ Fills(T)
      /\ \A k \in DOMAIN T.cubes : \E i \in x[2] : T.cubes[k] = L[i]
  BY FtListFacts, FtFilled
<1>a. FtCount(L, x) = massive_count(T)
  BY DEF FtCount
<1>b. HasFullRow(T) => FtFull(L, x) # {}
  BY FtFilled
<1> HIDE DEF T
<1>1. CASE \E i \in FtFull(L, x) : i < redund
  <2>1. FtRows(L, redund, c, x, rows) = <<>>
    BY <1>1 DEF FtRows
  <2> QED BY <2>1
<1>2. CASE ~ (\E i \in FtFull(L, x) : i < redund) /\ FtCount(L, x).unate = FtCount(L, x).active
  <2>1. FtRows(L, redund, c, x, rows) = <<{c} \cup FtFull(L, x)>>
    BY <1>2 DEF FtRows
  <2>2. FtFull(L, x) # {}
    BY <1>0, <1>2, <1>a, <1>b, UnateFullRow
  <2>3. FtFull(L, x) \subseteq x[2]
    BY DEF FtFull
  <2>4. {c} \cup FtFull(L, x) # {c}
    BY <2>2, <2>3
  <2> QED BY <2>1, <2>4
<1>3. CASE /\ ~ (\E i \in FtFull(L, x) : i < redund)
           /\ FtCount(L, x).unate # FtCount(L, x).active /\ FtCount(L, x).unate # {}
  <2>1. u \in FtProblems(L) /\ FtSize(L)[u] < FtSize(L)[x] /\ u[1] = x[1] /\ u[2] \subseteq x[2]
    BY <1>3, FtUnateSmaller
  <2>2. FtRows(L, redund, c, x, rows) = rows[u]
    BY <1>3 DEF FtRows
  <2>3. u[2] = {i \in x[2] : InVars(FtCount(L, x).unate) \subseteq L[i] \cup x[1]}
    BY DEF FtUnate
  <2> HIDE DEF u
  <2>4. ASSUME NEW q \in Points, q \cap u[1] = {} PROVE \E k \in u[2] : q \subseteq L[k]
    <3>1. PICK k \in DOMAIN T.cubes : /\ InVars(massive_count(T).unate) \subseteq T.cubes[k] \cup T.cof
                                      /\ q \subseteq T.cubes[k]
      BY <1>0, <2>1, <2>4, UnateStaysFilled
    <3>2. PICK i \in x[2] : T.cubes[k] = L[i]
      BY <1>0
    <3> QED BY <1>0, <1>a, <2>3, <3>1, <3>2
  <2>5. FtOpen(u) /\ FtFills(L, u) /\ c \notin u[2]
    BY <2>1, <2>4 DEF FtOpen, FtFills
  <2> QED BY <2>1, <2>2, <2>5 DEF FtSeen
<1>4. CASE /\ ~ (\E i \in FtFull(L, x) : i < redund)
           /\ FtCount(L, x).unate # FtCount(L, x).active /\ FtCount(L, x).unate = {}
  <2> DEFINE best == FtCount(L, x).best
             half == FtHalf(L, x)
  <2>1. /\ l \in FtProblems(L) /\ FtSize(L)[l] < FtSize(L)[x]
        /\ r \in FtProblems(L) /\ FtSize(L)[r] < FtSize(L)[x]
    BY <1>4, FtSideSmaller
  <2>2. FtRows(L, redund, c, x, rows) = rows[l] \o rows[r]
    BY <1>4 DEF FtRows
  <2>3. best \in Vars /\ Cardinality(Missing(T, best)) >= 2
    BY <1>0, <1>4, <1>a, BestFacts
  <2>4. half = binate_split_select(T, best)
    BY DEF FtHalf, T
  <2>5. /\ l = <<x[1] \cup (Parts \ half.left), {i \in x[2] : L[i] \cap half.left \cap var_mask[best] # {}}>>
        /\ r = <<x[1] \cup (Parts \ half.right), {i \in x[2] : L[i] \cap half.right \cap var_mask[best] # {}}>>
    BY DEF FtSide
  <2> HIDE DEF best, half, l, r
  <2>6. /\ Parts \ var_mask[best] \subseteq half.left /\ Parts \ var_mask[best] \subseteq half.right
        /\ half.left \cap T.cof \cap var_mask[best] = {} /\ half.right \cap T.cof \cap var_mask[best] = {}
        /\ half.left \cap var_mask[best] # {} /\ half.right \cap var_mask[best] # {}
    BY <1>0, <2>3, <2>4, SplitFacts
  <2>7. ASSUME NEW h, NEW y,
               y = <<x[1] \cup (Parts \ h), {i \in x[2] : L[i] \cap h \cap var_mask[best] # {}}>>,
               Parts \ var_mask[best] \subseteq h, h \cap T.cof \cap var_mask[best] = {},
               h \cap var_mask[best] # {}
        PROVE  FtOpen(y) /\ FtFills(L, y) /\ c \notin y[2]
    <3>1. y[1] = x[1] \cup (Parts \ h) /\ y[2] = {i \in x[2] : L[i] \cap h \cap var_mask[best] # {}}
      BY <2>7
    <3>2. ASSUME NEW v \in Vars PROVE var_mask[v] \ y[1] # {}
      <4>1. CASE v = best
        BY <1>0, <2>7, <3>1, <4>1
      <4>2. CASE v # best
        <5>1. PICK q \in var_mask[v] : q \notin x[1]
          BY DEF FtOpen
        <5>2. q \in Parts /\ q \notin var_mask[best]
          BY <2>3, <4>2, MaskFacts, OneVariable
        <5> QED BY <2>7, <3>1, <5>1, <5>2
      <4> QED BY <4>1, <4>2
    <3>3. ASSUME NEW q \in Points, q \cap y[1] = {} PROVE \E k \in y[2] : q \subseteq L[k]
      <4>1. q \cap x[1] = {} /\ q \subseteq h
        BY <3>1, <3>3, PointFacts
      <4>2. PICK k \in x[2] : q \subseteq L[k]
        BY <4>1 DEF FtFills
      <4>3. PICK p : q \cap var_mask[best] = {p}
        BY <2>3, PointFacts
      <4> QED BY <3>1, <4>1, <4>2, <4>3
    <3> QED BY <3>1, <3>2, <3>3 DEF FtOpen, FtFills
  <2>8. FtOpen(l) /\ FtFills(L, l) /\ c \notin l[2]
    BY <2>5, <2>6, <2>7
  <2>9. FtOpen(r) /\ FtFills(L, r) /\ c \notin r[2]
    BY <2>5, <2>6, <2>7
  <2> DEFINE A == rows[l]
             B == rows[r]
  <2>10. /\ \A n \in DOMAIN A : A[n] # {c}
         /\ \A n \in DOMAIN B : B[n] # {c}
    BY <2>1, <2>8, <2>9 DEF FtSeen
  <2> DEFINE V == SUBSET DOMAIN L
  <2>11. A \in Seq(V) /\ B \in Seq(V)
    BY <2>1
  <2> HIDE DEF A, B, V
  <2>12. \A n \in DOMAIN (A \o B) : \/ n \in DOMAIN A /\ (A \o B)[n] = A[n]
                                    \/ \E m \in DOMAIN B : (A \o B)[n] = B[m]
    BY <2>11, JoinFacts
  <2>13. \A n \in DOMAIN (A \o B) : (A \o B)[n] # {c}
    BY <2>10, <2>12
  <2> QED BY <2>2, <2>13 DEF A, B
<1> QED BY <1>1, <1>2, <1>3, <1>4

(* irred.c, ftautology: a row that names the cube at c alone is there only *)
(* if some point of it is in no other cube.                                *)
THEOREM FtautologySeen ==
  ASSUME NEW L \in Seq(Cubes), NEW redund, NEW c \in DOMAIN L,
         \A v \in Vars : var_mask[v] \cap L[c] # {},
         NEW n \in DOMAIN ftautology(L, redund, c), ftautology(L, redund, c)[n] = {c}
  PROVE  \E q \in Pts(L[c]) : \A k \in DOMAIN L \ {c} : ~ (q \subseteq L[k])
<1> DEFINE S == FtProblems(L)
           m == FtSize(L)
           x == FtStart(L, c)
<1>1. PICK rows \in [S -> Seq(SUBSET DOMAIN L)] :
        /\ \A y \in S : rows[y] = FtRows(L, redund, c, y, rows)
        /\ ftautology(L, redund, c) = rows[x]
  BY ONLY L \in Seq(Cubes), c \in DOMAIN L, FtUnfold
<1> DEFINE P == {y \in S : FtSeen(L, c, y, rows[y])}
<1>2. ASSUME NEW y \in S, \A z \in S : m[z] < m[y] => z \in P PROVE y \in P
  <2>1. FtSeen(L, c, y, FtRows(L, redund, c, y, rows))
    <3>1. \A z \in FtProblems(L) : FtSize(L)[z] < FtSize(L)[y] => FtSeen(L, c, z, rows[z])
      BY <1>2
    <3> QED BY <3>1, FtSeenStep
  <2> QED BY <1>1, <2>1
<1>3. m \in [S -> Nat]
  BY FtSizeType
<1>4. S \subseteq P
  <2> HIDE DEF P, S, m
  <2> QED BY <1>2, <1>3, MeasureInduction
<1>5. x \in S /\ x[1] = Parts \ L[c] /\ x[2] = {i \in DOMAIN L \ {c} : cdist0(L[i], L[c])}
  BY DEF FtProblems, FtStart, Cubes
<1> HIDE DEF x
<1>6. FtSeen(L, c, x, rows[x])
  BY <1>4, <1>5
<1>7. c \notin x[2] /\ FtOpen(x)
  BY <1>5, MaskFacts DEF FtOpen
<1>8. ~ FtFills(L, x)
  BY <1>1, <1>6, <1>7 DEF FtSeen
<1>9. PICK q \in Points : q \cap x[1] = {} /\ \A k \in x[2] : ~ (q \subseteq L[k])
  BY <1>8 DEF FtFills
<1>10. q \in Pts(L[c])
  BY <1>5, <1>9, PointFacts DEF Pts
<1>11. ASSUME NEW k \in DOMAIN L \ {c}, q \subseteq L[k] PROVE FALSE
  <2>1. cdist0(L[k], L[c])
    <3> SUFFICES ASSUME NEW v \in Vars PROVE var_mask[v] \cap L[k] \cap L[c] # {}
      BY DEF cdist0
    <3>1. PICK p : q \cap var_mask[v] = {p}
      BY PointFacts
    <3> QED BY <1>10, <1>11, <3>1 DEF Pts
  <2> QED BY <1>5, <1>9, <1>11, <2>1
<1> QED BY <1>10, <1>11

(* A row of the table that has one column only stands for a point of that  *)
(* cube which no essential or other redundant cube has, and D neither.     *)
LonelyRows(F, D, essen, partial, M) ==
  \A r \in Rows(M), l \in partial :
    sm_row(M, r) = {l} /\ (\A v \in Vars : var_mask[v] \cap F[l] # {}) =>
      \E q \in Pts(F[l]) : /\ \A j \in DOMAIN D : ~ (q \subseteq D[j])
                           /\ \A j \in (essen \cup partial) \ {l} : ~ (q \subseteq F[j])

(* irred.c, irred_derive_table: the table is finite, its columns are the   *)
(* partially redundant cubes, and one that has a row of its own has a      *)
(* point that is in no other one, no essential cube and not in D.          *)
LEMMA TableSeen ==
  ASSUME NEW F \in Seq(Cubes), NEW D \in Seq(Cubes),
         NEW essen \in SUBSET DOMAIN F, NEW partial \in SUBSET DOMAIN F,
         NEW M, M = irred_derive_table(F, D, essen, partial)
  PROVE  /\ M \in Matrices /\ Cols(M) \subseteq partial
         /\ LonelyRows(F, D, essen, partial, M)
<1> DEFINE ess  == Keep(F, essen)
           part == Keep(F, partial)
           L    == D \o ess \o part
           n    == Cardinality(partial)
           base == Len(L) - n
           at   == Listing(partial, Increasing(partial))
           named(row) == {at[k - base] : k \in row}
           parts == [k \in 1 .. n |-> ftautology(L, base + k, base + k)]
           rows == FlattenSeq(parts)
<1>1. M = {x \in (DOMAIN rows) \X partial : x[2] \in named(rows[x[1]])}
  BY DEF irred_derive_table
<1>2. /\ IsFiniteSet(partial) /\ n \in Nat /\ DOMAIN F \subseteq Nat
  <2>1. IsFiniteSet(DOMAIN F) /\ DOMAIN F \subseteq Nat
    BY PositionsFinite
  <2> QED BY <2>1, FS_Subset, FS_CardinalityType
<1>3. /\ at \in [1 .. n -> partial] /\ \A x \in partial : \E k \in 1 .. n : at[k] = x
      /\ \A h \in 1 .. n, k \in 1 .. n : at[h] = at[k] => h = k
  <2>1. StrictTotalOrder(partial, Increasing(partial))
    BY <1>2, IncreasingOrder
  <2>2. at \in [1 .. n -> partial] /\ \A x \in partial : \E k \in 1 .. n : at[k] = x
    BY <1>2, <2>1, ListingFacts, SMTT(30)
  <2>3. \A h \in 1 .. n, k \in 1 .. n : at[h] = at[k] => h = k
    BY <1>2, <2>1, ListingOnce, SMTT(30)
  <2> QED BY <2>2, <2>3
<1>4. /\ ess \in Seq(Cubes) /\ part \in Seq(Cubes) /\ Len(part) = n /\ DOMAIN part = 1 .. n
      /\ \A k \in 1 .. n : part[k] = F[at[k]]
      /\ \A j \in essen : \E k \in DOMAIN ess : ess[k] = F[j]
  <2>1. ess \in Seq(Cubes) /\ part \in Seq(Cubes) /\ Len(part) = n /\ DOMAIN part = 1 .. n
    BY KeepFacts, KeepLen
  <2>2. \A k \in 1 .. n : part[k] = F[at[k]]
    BY DEF Keep
  <2>3. \A j \in essen : \E k \in DOMAIN ess : ess[k] = F[j]
    BY KeepFacts
  <2> QED BY <2>1, <2>2, <2>3
<1> HIDE DEF ess, part, at
<1>5. /\ L \in Seq(Cubes) /\ base = Len(D) + Len(ess) /\ base \in Nat
      /\ DOMAIN L \subseteq Nat
      /\ \A k \in DOMAIN L : k > base => k - base \in 1 .. n
      /\ \A k \in 1 .. n : base + k \in DOMAIN L /\ L[base + k] = F[at[k]]
  <2>1. L \in Seq(Cubes) /\ ThreeJoined(L, D, ess, part)
    BY <1>4, ThreeJoinedFacts
  <2> HIDE DEF L
  <2>2. Len(L) = Len(D) + Len(ess) + Len(part) /\ DOMAIN L \subseteq Nat
    BY <2>1 DEF ThreeJoined
  <2>3. Len(D) \in Nat /\ Len(ess) \in Nat
    BY <1>4
  <2>4. base = Len(D) + Len(ess) /\ base \in Nat
    BY <1>2, <1>4, <2>2, <2>3
  <2> HIDE DEF base
  <2>5. \A k \in DOMAIN L : k > base => k - base \in 1 .. n
    BY <1>4, <2>1, <2>4 DEF ThreeJoined
  <2>6. \A k \in 1 .. n : base + k \in DOMAIN L /\ L[base + k] = F[at[k]]
    BY <1>4, <2>1, <2>4 DEF ThreeJoined
  <2> QED BY <2>1, <2>2, <2>4, <2>5, <2>6
<1>6. /\ \A j \in DOMAIN D : \E k \in DOMAIN L : k <= base /\ L[k] = D[j]
      /\ \A j \in essen : \E k \in DOMAIN L : k <= base /\ L[k] = F[j]
  <2> DEFINE DE == D \o ess
  <2>1. /\ DE \in Seq(Cubes) /\ Len(DE) = base /\ DOMAIN DE = 1 .. base
        /\ \A k \in DOMAIN D : k \in DOMAIN DE /\ DE[k] = D[k]
        /\ \A k \in DOMAIN ess : \E i \in DOMAIN DE : DE[i] = ess[k]
    <3>1. DE \in Seq(Cubes) /\ Len(DE) = Len(D) + Len(ess)
      BY <1>4
    <3>2. \A k \in DOMAIN D : k \in DOMAIN DE /\ DE[k] = D[k]
      BY <1>4, JoinFacts
    <3>3. \A k \in DOMAIN ess : \E i \in DOMAIN DE : DE[i] = ess[k]
      BY <1>4, JoinFacts
    <3> HIDE DEF DE, L, base
    <3>4. Len(DE) = base /\ DOMAIN DE = 1 .. base
      BY <1>5, <3>1
    <3> QED BY <3>1, <3>2, <3>3, <3>4
  <2>2. L = DE \o part
    OBVIOUS
  <2> HIDE DEF DE, L, base
  <2>3. \A i \in DOMAIN DE : i \in DOMAIN (DE \o part) /\ (DE \o part)[i] = DE[i]
    BY <1>4, <2>1, JoinFacts
  <2>4. \A i \in DOMAIN DE : i \in DOMAIN L /\ L[i] = DE[i] /\ i <= base
    BY <1>5, <2>1, <2>2, <2>3
  <2> QED BY <1>4, <2>1, <2>4
<1> HIDE DEF L, base
<1>7. ASSUME NEW k \in 1 .. n
      PROVE  /\ base + k \in DOMAIN L /\ base + k \in Nat
             /\ parts[k] = ftautology(L, base + k, base + k)
             /\ parts[k] \in Seq(SUBSET DOMAIN L)
             /\ \A r \in DOMAIN parts[k] :
                  base + k \in parts[k][r] /\ \A x \in parts[k][r] : x = base + k \/ x >= base + k
  <2>1. base + k \in DOMAIN L /\ base + k \in Nat /\ parts[k] = ftautology(L, base + k, base + k)
    BY <1>5
  <2> DEFINE c == base + k
  <2> HIDE DEF c
  <2>2. c \in DOMAIN L /\ c \in Nat /\ parts[k] = ftautology(L, c, c)
    BY <2>1 DEF c
  <2> HIDE DEF parts
  <2>3. /\ ftautology(L, c, c) \in Seq(SUBSET DOMAIN L)
        /\ \A r \in DOMAIN ftautology(L, c, c) :
              /\ c \in ftautology(L, c, c)[r]
              /\ \A x \in ftautology(L, c, c)[r] : x = c \/ x >= c
    BY <1>5, <2>2, FtautologySound
  <2>4. /\ parts[k] \in Seq(SUBSET DOMAIN L)
        /\ \A r \in DOMAIN parts[k] : c \in parts[k][r] /\ \A x \in parts[k][r] : x = c \/ x >= c
    BY <2>2, <2>3
  <2> QED BY <2>1, <2>4 DEF c
<1>8. /\ rows \in Seq(SUBSET DOMAIN L)
      /\ \A m \in DOMAIN rows : \E k \in 1 .. n : \E r \in DOMAIN parts[k] : rows[m] = parts[k][r]
  <2> DEFINE V == SUBSET DOMAIN L
  <2>1. parts \in Seq(Seq(V)) /\ Len(parts) = n
    <3> HIDE DEF V
    <3>1. parts \in [1 .. n -> Seq(V)]
      BY <1>7 DEF V
    <3> HIDE DEF parts
    <3> QED BY <1>2, <3>1
  <2> HIDE DEF parts, V
  <2>2. FlattenSeq(parts) \in Seq(V) /\ Flat(parts, Len(parts), FlattenSeq(parts))
    BY <2>1, FlattenFacts
  <2> QED BY <2>1, <2>2 DEF Flat, V
<1> HIDE DEF rows
<1>9. M \in Matrices /\ Cols(M) \subseteq partial
  <2>1. M \subseteq (DOMAIN rows) \X partial
    BY <1>1
  <2>2. IsFiniteSet(DOMAIN rows) /\ DOMAIN rows \subseteq Nat
    BY <1>8, PositionsFinite
  <2>3. IsFiniteSet((DOMAIN rows) \X partial)
    BY <1>2, <2>2, FS_Product
  <2>4. IsFiniteSet(M)
    BY <2>1, <2>3, FS_Subset
  <2>5. M \in SUBSET (Nat \X Nat)
    BY <1>2, <2>1, <2>2
  <2>6. Cols(M) \subseteq partial
    BY <2>1 DEF Cols
  <2> QED BY <2>4, <2>5, <2>6 DEF Matrices, Finite
<1>10. ASSUME NEW r \in Rows(M), NEW l \in partial, sm_row(M, r) = {l},
              \A v \in Vars : var_mask[v] \cap F[l] # {}
       PROVE  \E q \in Pts(F[l]) : /\ \A j \in DOMAIN D : ~ (q \subseteq D[j])
                                   /\ \A j \in (essen \cup partial) \ {l} : ~ (q \subseteq F[j])
  <2>1. r \in DOMAIN rows
    BY <1>1 DEF Rows
  <2>2. PICK k \in 1 .. n : \E d \in DOMAIN parts[k] : rows[r] = parts[k][d]
    BY <1>8, <2>1
  <2>3. PICK d \in DOMAIN parts[k] : rows[r] = parts[k][d]
    BY <2>2
  <2> DEFINE c == base + k
  <2>4. /\ c \in DOMAIN L /\ c \in Nat /\ parts[k] = ftautology(L, c, c)
        /\ c \in rows[r] /\ \A x \in rows[r] : x = c \/ x >= c
    BY <1>7, <2>3
  <2>5. rows[r] \subseteq DOMAIN L
    BY <1>8, <2>1
  <2>6. c - base = k /\ c > base
    BY <1>2, <1>5
  <2>7. L[c] = F[at[k]]
    BY <1>5
  <2>8. ASSUME NEW x \in rows[r] PROVE x - base \in 1 .. n /\ x \in Nat /\ base + (x - base) = x
    <3>1. x \in Nat /\ x \in DOMAIN L /\ base \in Nat
      BY <1>5, <2>5
    <3>2. x > base
      BY <2>4, <2>6, <3>1
    <3> QED BY <1>5, <3>1, <3>2
  <2>9. ASSUME NEW x \in rows[r] PROVE at[x - base] = l
    <3>1. at[x - base] \in partial
      BY <1>3, <2>8
    <3>2. at[x - base] \in named(rows[r])
      OBVIOUS
    <3>3. <<r, at[x - base]>> \in M
      BY <1>1, <2>1, <3>1, <3>2
    <3>4. at[x - base] \in sm_row(M, r)
      BY <3>3 DEF sm_row
    <3> QED BY <1>10, <3>4
  <2>10. at[k] = l
    BY <2>4, <2>6, <2>9
  <2>11. rows[r] = {c}
    <3>1. ASSUME NEW x \in rows[r] PROVE x = c
      <4>1. at[x - base] = at[k]
        BY <2>9, <2>10, <3>1
      <4>2. x - base \in 1 .. n
        BY <2>8
      <4>3. x - base = k
        BY <1>3, <4>1, <4>2
      <4> QED BY <2>8, <4>3
    <3> QED BY <2>4, <3>1
  <2> HIDE DEF c, parts
  <2>12. \A v \in Vars : var_mask[v] \cap L[c] # {}
    BY <1>10, <2>7, <2>10
  <2>13. PICK q \in Pts(L[c]) : \A i \in DOMAIN L \ {c} : ~ (q \subseteq L[i])
    <3>1. d \in DOMAIN ftautology(L, c, c) /\ ftautology(L, c, c)[d] = {c}
      BY <2>3, <2>4, <2>11
    <3>2. L \in Seq(Cubes) /\ c \in DOMAIN L
      BY <1>5, <2>4
    <3> QED BY ONLY <2>12, <3>1, <3>2, FtautologySeen
  <2>14. q \in Pts(F[l])
    BY <2>7, <2>10, <2>13
  <2>15. \A i \in DOMAIN L : i <= base => i # c
    BY <1>5, <2>4, <2>6
  <2>16. \A j \in DOMAIN D : ~ (q \subseteq D[j])
    BY <1>6, <2>13, <2>15
  <2>17. \A j \in essen : ~ (q \subseteq F[j])
    BY <1>6, <2>13, <2>15
  <2>18. ASSUME NEW j \in partial, j # l PROVE ~ (q \subseteq F[j])
    <3>1. PICK h \in 1 .. n : at[h] = j
      BY <1>3
    <3>2. h # k
      BY <2>10, <2>18, <3>1
    <3>3. base + h \in DOMAIN L /\ L[base + h] = F[j]
      BY <1>5, <3>1
    <3>4. base + h # c
      BY <1>2, <1>5, <3>2 DEF c
    <3> QED BY <2>13, <3>3, <3>4
  <2> QED BY <2>14, <2>16, <2>17, <2>18
<1> QED BY <1>9, <1>10 DEF LonelyRows

(* irred.c, mark_irredundant: the covering step always finds a cover.      *)
(* When it keeps the whole cover F, each cube of F has a point that        *)
(* neither the others nor D contain.                                       *)
THEOREM MarkSeen ==
  ASSUME NEW F \in Seq(Cubes), NEW D \in Seq(Cubes), NEW m, m = mark_irredundant(F, D)
  PROVE  /\ m.ok
         /\ DOMAIN F \subseteq m.active =>
              \A j \in DOMAIN F : (\A v \in Vars : var_mask[v] \cap F[j] # {}) =>
                \E q \in Pts(F[j]) : /\ \A k \in DOMAIN D : ~ (q \subseteq D[k])
                                     /\ \A k \in DOMAIN F \ {j} : ~ (q \subseteq F[k])
<1> DEFINE essen == RelativelyEssential(F, D)
           partial == PartiallyRedundant(F, D, essen)
           M == irred_derive_table(F, D, essen, partial)
           cover == sm_minimum_cover(M, TRUE)
<1>1. /\ m.active = {k \in DOMAIN F : k \in essen \cup cover.row}
      /\ m.ok = (cover # NIL)
  BY DEF mark_irredundant, CoverTheRest, MinimalSubset
<1>2. essen \in SUBSET DOMAIN F /\ partial \in SUBSET DOMAIN F
  BY DEF RelativelyEssential, PartiallyRedundant
<1>3. partial \cap essen = {}
  <2> HIDE DEF essen
  <2> QED BY DEF PartiallyRedundant
<1>4. \A j \in essen : ~ cube_is_covered(cube2list(Without(F, j), D), F[j])
  BY DEF RelativelyEssential
<1> HIDE DEF essen, partial
<1>0. M = irred_derive_table(F, D, essen, partial)
  OBVIOUS
<1> HIDE DEF M
<1>5. /\ M \in Matrices /\ Cols(M) \subseteq partial
      /\ LonelyRows(F, D, essen, partial, M)
  BY ONLY F \in Seq(Cubes), D \in Seq(Cubes), <1>0, <1>2, TableSeen
<1>6. /\ cover # NIL /\ cover.row \subseteq Cols(M)
      /\ Cols(M) \subseteq cover.row => Alone(M)
  BY <1>5, MinimumCover
<1> HIDE DEF cover
<1>7. ASSUME DOMAIN F \subseteq m.active, NEW j \in DOMAIN F, \A v \in Vars : var_mask[v] \cap F[j] # {}
      PROVE  \E q \in Pts(F[j]) : /\ \A k \in DOMAIN D : ~ (q \subseteq D[k])
                                  /\ \A k \in DOMAIN F \ {j} : ~ (q \subseteq F[k])
  <2>1. DOMAIN F \subseteq essen \cup cover.row
    BY <1>1, <1>7
  <2>2. CASE j \in essen
    <3> DEFINE W == Without(F, j)
    <3>1. /\ W \in Seq(Cubes)
          /\ \A k \in DOMAIN F \ {j} : \E n \in DOMAIN W : W[n] = F[k]
      <4> DEFINE others == DOMAIN F \ {j}
      <4>1. others \in SUBSET DOMAIN F /\ W = Keep(F, others)
        BY DEF Without
      <4> HIDE DEF others, W
      <4>2. W \in Seq(Cubes) /\ \A k \in others : \E n \in DOMAIN W : W[n] = F[k]
        BY <4>1, KeepFacts
      <4> QED BY <4>2 DEF others
    <3>2. ~ cube_is_covered(cube2list(W, D), F[j])
      BY <1>4, <2>2
    <3> HIDE DEF W
    <3>3. F[j] \in Cubes
      OBVIOUS
    <3>4. PICK q \in Pts(F[j]) : q \notin PtsOf(W) /\ q \notin PtsOf(D)
      BY <1>7, <3>1, <3>2, <3>3, CoveredSeen
    <3>5. q \in Points
      BY <3>4 DEF Pts
    <3>6. \A k \in DOMAIN D : ~ (q \subseteq D[k])
      BY <3>4, <3>5, InCover
    <3>7. \A n \in DOMAIN W : ~ (q \subseteq W[n])
      BY <3>1, <3>4, <3>5, InCover
    <3>8. \A k \in DOMAIN F \ {j} : ~ (q \subseteq F[k])
      BY <3>1, <3>7
    <3> QED BY <3>4, <3>6, <3>8
  <2>3. CASE j \notin essen
    <3>1. j \in cover.row /\ j \in Cols(M) /\ j \in partial
      BY <1>5, <1>6, <2>1, <2>3
    <3>2. Cols(M) \subseteq cover.row
      BY <1>2, <1>3, <1>5, <2>1
    <3>3. PICK r \in Rows(M) : sm_row(M, r) = {j}
      BY <1>6, <3>1, <3>2 DEF Alone
    <3>4. PICK q \in Pts(F[j]) : /\ \A k \in DOMAIN D : ~ (q \subseteq D[k])
                                 /\ \A k \in (essen \cup partial) \ {j} : ~ (q \subseteq F[k])
      BY <1>5, <1>7, <3>1, <3>3 DEF LonelyRows
    <3>5. DOMAIN F \subseteq essen \cup partial
      BY <1>5, <1>6, <2>1
    <3> QED BY <3>4, <3>5
  <2> QED BY <2>2, <2>3
<1> QED BY <1>1, <1>6, <1>7
=============================================================================
