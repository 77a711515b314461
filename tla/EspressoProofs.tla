--------------------------- MODULE EspressoProofs ---------------------------
(***************************************************************************)
(* For all numbers of variables and parts, all covers and all options: no  *)
(* cube that the minimizer keeps meets the OFF-set, and while a cube is    *)
(* expanded there is a free part whenever one is picked and none is given  *)
(* up without need; and unless the minimizer gives up, no point of the     *)
(* ON-set is ever lost.                                                    *)
(*                                                                         *)
(* Both rest on what expand.c knows of the blocking matrix: the cubes of R *)
(* that have been dropped from it cannot be met any more whatever free     *)
(* part is raised, and a cube of F that has been found infeasible stays    *)
(* so.  And on what CubesProofs knows of the recursive questions: a cube   *)
(* that reduce makes smaller keeps a part in every binary variable, and a  *)
(* point that it loses is in another cube of the cover.                    *)
(*                                                                         *)
(* On an input that leaves no point open, verify accepts every result: the *)
(* cubes keep a part in every variable, so tautology finds what is covered.*)
(* And a round of mv_reduce that takes nothing off leaves no output that   *)
(* could go, for then the column cover has kept all it was given.          *)
(*                                                                         *)
(* Most checks inside, the last ones here, can never fail.                 *)
(***************************************************************************)
EXTENDS Espresso, CubesProofs

(***************************************************************************)
(* The invariant.                                                          *)
(***************************************************************************)
TypesInv ==
  /\ in \in Inputs
  /\ F \in Seq(CubeRecords) /\ E \in Seq(CubeRecords) /\ Foriginal \in Seq(CubeRecords)
  /\ G \in Seq(Cubes)
  /\ i \in Nat /\ (pc \in {"next", "feasible", "raise", "reducing", "expand_gasp"} => i # 0)
  /\ RAISE \in Cubes /\ FREESET \in Cubes

(* A cube of R that has left the blocking matrix is out of reach; one that *)
(* has not is within reach of the free parts.                              *)
Blocking(B, raise, free) ==
  /\ B \subseteq DOMAIN R
  /\ \A r \in DOMAIN R : r \in B <=> cdist0(R[r], raise \cup free)
  /\ Clear(raise)

(* A cube of F that may still be covered can be reached with the free      *)
(* parts; once it has been found infeasible it cannot be covered as a      *)
(* whole.                                                                  *)
Covering(C, raise, free, undecided) ==
  /\ C \subseteq DOMAIN F
  /\ \A j \in C : F[j].set \subseteq raise \cup free
  /\ \A j \in C : j \notin undecided => ~ Clear(raise \cup F[j].set)
Undecided == IF pc = "feasible" THEN feas ELSE {}

ExpansionInv ==
  pc \in {"feasible", "raise"} =>
    /\ i \in DOMAIN F /\ F[i].PRIME
    /\ Blocking(BB, RAISE, FREESET) /\ Covering(CC, RAISE, FREESET, Undecided)

(* The cubes that the expansion has passed are prime or covered.           *)
PassedInv ==
  pc \in {"next", "feasible", "raise"} =>
    \A j \in DOMAIN F : j < i => F[j].PRIME \/ j \in covered

GaspInv == pc = "expand_gasp" => Len(Foriginal) = Len(F)

(* Every cube of the cover has a part in every binary variable, but one    *)
(* that reduce has just emptied; reduce drops these at its end, and a gasp *)
(* in which there is one is given up.                                      *)
AllFull(A) == \A j \in DOMAIN A : Full(A[j].set)
FullInv ==
  /\ D \in Seq(Cubes)
  /\ pc \notin {"reducing", "fatal"} => AllFull(F)
  /\ pc = "reducing" => \A j \in DOMAIN F : F[j].set = {} \/ Full(F[j].set)
  /\ AllFull(E)
  /\ pc # "fatal" => AllFull(Foriginal)
  /\ pc # "fatal" => \A k \in DOMAIN G : Full(G[k])
  /\ pc \in {"feasible", "raise"} => Full(RAISE)
  /\ pc = "mv_reduce" => i >= first_part[num_binary_vars]

IInv == TypesInv /\ ExpansionInv /\ PassedInv /\ GaspInv /\ Orthogonal

(***************************************************************************)
(* Covers of records.                                                      *)
(***************************************************************************)
AllClear(A) == \A j \in DOMAIN A : Clear(A[j].set)

(* The cubes of B are cubes of A, with the same PRIME flag.                *)
Picked(B, A) ==
  \A k \in DOMAIN B : \E j \in DOMAIN A : B[k].set = A[j].set /\ B[k].PRIME = A[j].PRIME

(* The cubes of a cover without their flags.                               *)
LEMMA SetsFacts ==
  ASSUME NEW A \in Seq(CubeRecords)
  PROVE  /\ Sets(A) \in Seq(Cubes) /\ DOMAIN Sets(A) = DOMAIN A /\ Len(Sets(A)) = Len(A)
         /\ \A j \in DOMAIN A : Sets(A)[j] = A[j].set /\ A[j].set \in Cubes /\ A[j].PRIME \in BOOLEAN
<1>1. DOMAIN A = 1 .. Len(A) /\ Len(A) \in Nat /\ \A j \in DOMAIN A : A[j] \in CubeRecords
  OBVIOUS
<1>2. \A j \in DOMAIN A : A[j].set \in Cubes /\ A[j].PRIME \in BOOLEAN
  BY <1>1 DEF CubeRecords
<1>3. Sets(A) \in [1 .. Len(A) -> Cubes]
  BY <1>1, <1>2 DEF Sets
<1>4. Sets(A) \in Seq(Cubes) /\ Len(Sets(A)) = Len(A)
  BY <1>1, <1>3
<1> QED BY <1>1, <1>2, <1>4 DEF Sets

(* Cubes as a cover with cleared flags.                                    *)
LEMMA CubedFacts ==
  ASSUME NEW A \in Seq(Cubes)
  PROVE  /\ Cubed(A) \in Seq(CubeRecords) /\ DOMAIN Cubed(A) = DOMAIN A
         /\ \A j \in DOMAIN A : Cubed(A)[j].set = A[j] /\ ~ Cubed(A)[j].PRIME
<1>1. DOMAIN A = 1 .. Len(A) /\ Len(A) \in Nat /\ \A j \in DOMAIN A : A[j] \in Cubes
  OBVIOUS
<1>2. \A j \in DOMAIN A : Flagged(A[j]) \in CubeRecords
  BY <1>1 DEF CubeRecords, Flagged
<1>3. Cubed(A) \in [1 .. Len(A) -> CubeRecords]
  BY <1>1, <1>2 DEF Cubed
<1>4. Cubed(A) \in Seq(CubeRecords)
  BY <1>1, <1>3
<1> QED BY <1>1, <1>4 DEF Cubed, Flagged

(* Cubes picked from a cover are cubes of the space.                       *)
LEMMA FromPicked ==
  ASSUME NEW A, NEW B, From(B, A) PROVE Picked(B, A)
BY DEF From, Picked

(* Cubes picked from a clear cover are clear.                              *)
LEMMA PickedClear ==
  ASSUME NEW A, NEW B, Picked(B, A), AllClear(A) PROVE AllClear(B)
BY DEF Picked, AllClear

(***************************************************************************)
(* Sorting a cover of records.                                             *)
(***************************************************************************)
LEMMA SizeInt == \A n \in Int : SIZE(n) \in Int
BY DEF SIZE

(* The weights of the heuristics are numbers.                              *)
LEMMA WeightsInt ==
  ASSUME NEW A \in Seq(CubeRecords) PROVE \A j \in DOMAIN A : Weights(A)[j] \in Int
<1> SUFFICES ASSUME NEW j \in DOMAIN A PROVE Weights(A)[j] \in Int
  OBVIOUS
<1> DEFINE occurrences == {x \in (DOMAIN A) \X A[j].set : x[2] \in A[x[1]].set}
<1>1. DOMAIN A = 1 .. Len(A) /\ Len(A) \in Nat /\ A[j].set \in Cubes
  BY SetsFacts
<1>2. IsFiniteSet(DOMAIN A) /\ IsFiniteSet(A[j].set)
  BY <1>1, PositionsFinite, PartsFinite
<1>3. IsFiniteSet((DOMAIN A) \X A[j].set) /\ occurrences \in SUBSET ((DOMAIN A) \X A[j].set)
  BY <1>2, FS_Product
<1>4. Cardinality(occurrences) \in Int
  BY <1>3, FS_Subset, FS_CardinalityType
<1>5. Weights(A)[j] = SIZE(Cardinality(occurrences))
  BY DEF Weights
<1> HIDE DEF occurrences
<1> QED BY <1>4, <1>5, SizeInt

(* The order of expand picks cubes of the cover.                           *)
LEMMA SortDescend ==
  ASSUME NEW A \in Seq(CubeRecords), NEW key, \A j \in DOMAIN A : key[j] \in Int
  PROVE  /\ SortCubes(A, key, descend) \in Seq(CubeRecords) /\ From(SortCubes(A, key, descend), A)
         /\ From(A, SortCubes(A, key, descend))
<1> DEFINE S   == Sets(A)
           Rel == {x \in (DOMAIN A) \X (DOMAIN A) :
                     \/ descend(A[x[1]].set, key[x[1]], A[x[2]].set, key[x[2]])
                     \/ key[x[1]] = key[x[2]] /\ A[x[1]].set = A[x[2]].set /\ x[1] < x[2]}
           Rel2 == {x \in (DOMAIN S) \X (DOMAIN S) :
                      \/ descend(S[x[1]], key[x[1]], S[x[2]], key[x[2]])
                      \/ key[x[1]] = key[x[2]] /\ S[x[1]] = S[x[2]] /\ x[1] < x[2]}
<1>1. S \in Seq(Cubes) /\ DOMAIN S = DOMAIN A /\ \A j \in DOMAIN A : S[j] = A[j].set
  BY SetsFacts
<1> HIDE DEF S
<1>2. StrictTotalOrder(DOMAIN S, Rel2)
  BY <1>1, DescendOrder
<1>3. Rel = Rel2
  <2>1. \A x \in (DOMAIN A) \X (DOMAIN A) : S[x[1]] = A[x[1]].set /\ S[x[2]] = A[x[2]].set
    BY <1>1
  <2> QED BY <1>1, <2>1
<1>4. SortCubes(A, key, descend) = [k \in DOMAIN A |-> A[Listing(DOMAIN A, Rel)[k]]]
  BY DEF SortCubes
<1>5. StrictTotalOrder(DOMAIN A, Rel)
  BY <1>1, <1>2, <1>3
<1> HIDE DEF Rel
<1> QED BY <1>4, <1>5, Permuted

(* The order of the second expand picks cubes of the cover.                *)
LEMMA SortAscend ==
  ASSUME NEW A \in Seq(CubeRecords), NEW key, \A j \in DOMAIN A : key[j] \in Int
  PROVE  /\ SortCubes(A, key, ascend) \in Seq(CubeRecords) /\ From(SortCubes(A, key, ascend), A)
         /\ From(A, SortCubes(A, key, ascend))
<1> DEFINE S   == Sets(A)
           Rel == {x \in (DOMAIN A) \X (DOMAIN A) :
                     \/ ascend(A[x[1]].set, key[x[1]], A[x[2]].set, key[x[2]])
                     \/ key[x[1]] = key[x[2]] /\ A[x[1]].set = A[x[2]].set /\ x[1] < x[2]}
           Rel2 == {x \in (DOMAIN S) \X (DOMAIN S) :
                      \/ ascend(S[x[1]], key[x[1]], S[x[2]], key[x[2]])
                      \/ key[x[1]] = key[x[2]] /\ S[x[1]] = S[x[2]] /\ x[1] < x[2]}
<1>1. S \in Seq(Cubes) /\ DOMAIN S = DOMAIN A /\ \A j \in DOMAIN A : S[j] = A[j].set
  BY SetsFacts
<1> HIDE DEF S
<1>2. StrictTotalOrder(DOMAIN S, Rel2)
  BY <1>1, AscendOrder
<1>3. Rel = Rel2
  <2>1. \A x \in (DOMAIN A) \X (DOMAIN A) : S[x[1]] = A[x[1]].set /\ S[x[2]] = A[x[2]].set
    BY <1>1
  <2> QED BY <1>1, <2>1
<1>4. SortCubes(A, key, ascend) = [k \in DOMAIN A |-> A[Listing(DOMAIN A, Rel)[k]]]
  BY DEF SortCubes
<1>5. StrictTotalOrder(DOMAIN A, Rel)
  BY <1>1, <1>2, <1>3
<1> HIDE DEF Rel
<1> QED BY <1>4, <1>5, Permuted

(* The order of reduce picks cubes of the cover.                           *)
LEMMA SortReduce ==
  ASSUME NEW A \in Seq(CubeRecords)
  PROVE  sort_reduce(A) \in Seq(CubeRecords) /\ From(sort_reduce(A), A) /\ From(A, sort_reduce(A))
<1> DEFINE far(j) == num_vars - cdist(A[Largest(A)].set, A[j].set)
           key    == [j \in DOMAIN A |-> SIZE(far(j) * 128 + Min({Cardinality(A[j].set), 127}))]
<1>1. ASSUME NEW j \in DOMAIN A PROVE key[j] \in Int
  <2>1. A[j].set \in Cubes
    BY SetsFacts
  <2>2. Cardinality(A[j].set) \in Nat
    BY <2>1, PartsFinite, FS_CardinalityType
  <2>3. Min({Cardinality(A[j].set), 127}) \in Int
    <3>1. \E m \in {Cardinality(A[j].set), 127} : \A y \in {Cardinality(A[j].set), 127} : m <= y
      BY <2>2
    <3>2. Min({Cardinality(A[j].set), 127}) \in {Cardinality(A[j].set), 127}
      BY <3>1 DEF Min
    <3> QED BY <2>2, <3>2
  <2>4. cdist(A[Largest(A)].set, A[j].set) \in Nat
    <3>1. Conflicts(A[Largest(A)].set, A[j].set) \in SUBSET Vars
      BY DEF Conflicts
    <3> QED BY <3>1, PartsFinite, FS_Subset, FS_CardinalityType DEF cdist
  <2>5. far(j) * 128 + Min({Cardinality(A[j].set), 127}) \in Int
    BY <2>3, <2>4, CubeAssumption
  <2> HIDE DEF far
  <2> QED BY <2>5, SizeInt
<1>2. sort_reduce(A) = SortCubes(A, key, descend)
  BY DEF sort_reduce
<1> HIDE DEF key
<1> QED BY <1>1, <1>2, SortDescend

(* mini_sort picks cubes of the cover.                                     *)
LEMMA MiniSort ==
  ASSUME NEW A \in Seq(CubeRecords)
  PROVE  /\ mini_sort(A, ascend) \in Seq(CubeRecords) /\ From(mini_sort(A, ascend), A)
         /\ mini_sort(A, descend) \in Seq(CubeRecords) /\ From(mini_sort(A, descend), A)
         /\ From(A, mini_sort(A, ascend)) /\ From(A, mini_sort(A, descend))
BY WeightsInt, SortAscend, SortDescend DEF mini_sort

(***************************************************************************)
(* The blocking matrix.                                                    *)
(***************************************************************************)
LEMMA TouchedFacts ==
  ASSUME NEW B, NEW c PROVE Touched(B, c) <=> \E b \in B : cdist0(R[b], c)
BY Distance0 DEF Touched

(* What lies in a clear cube is clear.                                     *)
LEMMA ClearMonotone ==
  ASSUME NEW c, NEW d, c \subseteq d, Clear(d) PROVE Clear(c)
BY DistanceMonotone DEF Clear

(* essen_parts: what it drops from the blocking matrix is out of reach,    *)
(* what it keeps is within reach of the parts that are still free, and the *)
(* cubes it keeps as candidates can still be reached.                      *)
Reached(A, B, C, reach) ==
  (\A b \in B : cdist0(R[b], reach)) /\ \A j \in C : A[j].set \subseteq reach
PartsRight(A, B, C, raise, free, parts) ==
  /\ parts.BB \subseteq B /\ parts.CC \subseteq C /\ parts.FREESET \subseteq free
  /\ Reached(A, parts.BB, parts.CC, raise \cup parts.FREESET)
  /\ \A b \in B : b \notin parts.BB => ~ cdist0(R[b], raise \cup parts.FREESET)

(* essen_parts lowers what would meet the OFF-set.                         *)
LEMMA EssenParts ==
  ASSUME NEW A, NEW B, NEW C, NEW raise, NEW free, Reached(A, B, C, raise \cup free)
  PROVE  PartsRight(A, B, C, raise, free, essen_parts(A, B, C, raise, free))
<1> DEFINE low   == free \ ForcedLow(B, raise)
           B1    == B \ Near(B, raise)
           parts == essen_parts(A, B, C, raise, free)
<1> USE DEF Reached
<1>1. ASSUME NEW b \in Near(B, raise)
      PROVE  b \in B /\ ~ cdist0(R[b], raise) /\ force_lower(R[b], raise) \subseteq ForcedLow(B, raise)
  BY Distance0 DEF Near, ForcedLow
<1>2. CASE ForcedLow(B, raise) = {}
  <2>1. parts = [BB |-> B1, CC |-> C, FREESET |-> free]
    BY <1>2 DEF essen_parts
  <2>2. \A b \in Near(B, raise) : ~ cdist0(R[b], raise \cup free)
    BY <1>1, <1>2, Lowered
  <2>3. parts.BB = B1 /\ parts.CC = C /\ parts.FREESET = free
    BY <2>1
  <2> HIDE DEF parts
  <2> QED BY <2>2, <2>3 DEF PartsRight, parts
<1>3. CASE ForcedLow(B, raise) # {}
  <2>1. parts = [BB |-> elim_BB(B1, raise \cup low), CC |-> elim_CC(A, C, raise \cup low),
                 FREESET |-> low]
    BY <1>3 DEF essen_parts
  <2>2. \A b \in Near(B, raise) : ~ cdist0(R[b], raise \cup low)
    BY <1>1, Lowered
  <2>3. \A b \in B : b \in elim_BB(B1, raise \cup low) <=> b \in B1 /\ cdist0(R[b], raise \cup low)
    BY DEF elim_BB
  <2>4. elim_CC(A, C, raise \cup low) \subseteq C
        /\ \A j \in elim_CC(A, C, raise \cup low) : A[j].set \subseteq raise \cup low
    BY DEF elim_CC
  <2>5. elim_BB(B1, raise \cup low) \subseteq B
    BY DEF elim_BB
  <2> HIDE DEF low
  <2>6. \A b \in B : b \notin elim_BB(B1, raise \cup low) => ~ cdist0(R[b], raise \cup low)
    BY <2>2, <2>3
  <2>7. low \subseteq free
    BY DEF low
  <2> HIDE DEF B1
  <2>8. /\ parts.BB = elim_BB(B1, raise \cup low) /\ parts.CC = elim_CC(A, C, raise \cup low)
        /\ parts.FREESET = low
    BY <2>1
  <2> HIDE DEF parts
  <2> QED BY <2>3, <2>4, <2>5, <2>6, <2>7, <2>8 DEF PartsRight, parts
<1> QED BY <1>2, <1>3

(* Raising what no cube of the blocking matrix has meets none of them.     *)
LEMMA EssenRaising ==
  ASSUME NEW B, NEW c, NEW free, \A b \in B : ~ cdist0(R[b], c)
  PROVE  \A b \in B : ~ cdist0(R[b], c \cup essen_raising(B, free))
<1> SUFFICES ASSUME NEW b \in B PROVE ~ cdist0(R[b], c \cup essen_raising(B, free))
  OBVIOUS
<1>1. R[b] \cap essen_raising(B, free) = {}
  BY DEF essen_raising
<1>2. force_lower(R[b], c) \cap essen_raising(B, free) = {}
  BY <1>1 DEF force_lower
<1> QED BY <1>2, Lowered

(* most_frequent finds a part if there is one.                             *)
LEMMA MostFrequent ==
  ASSUME NEW A \in Seq(CubeRecords), NEW C \in SUBSET DOMAIN A, NEW free \in Cubes, free # {}
  PROVE  most_frequent(A, C, free) \in free
<1> DEFINE count(p) == Cardinality({j \in C : p \in A[j].set})
           counts   == {count(p) : p \in free}
           best(p)  == \A q \in free : count(p) > count(q) \/ (count(p) = count(q) /\ p <= q)
<1>1. DOMAIN A = 1 .. Len(A) /\ Len(A) \in Nat
  OBVIOUS
<1>2. IsFiniteSet(C) /\ Cardinality(C) \in Nat
  BY <1>1, PositionsFinite, FS_Subset, FS_CardinalityType
<1>3. ASSUME NEW p PROVE count(p) \in 0 .. Cardinality(C)
  <2>1. {j \in C : p \in A[j].set} \in SUBSET C
    OBVIOUS
  <2>2. /\ IsFiniteSet({j \in C : p \in A[j].set})
        /\ Cardinality({j \in C : p \in A[j].set}) <= Cardinality(C)
    BY <1>2, <2>1, FS_Subset
  <2> QED BY <1>2, <2>2, FS_CardinalityType
<1> HIDE DEF count
<1>4. counts \in SUBSET (0 .. Cardinality(C)) /\ counts # {}
  BY <1>3
<1>5. PICK m \in counts : \A k \in counts : k <= m
  BY <1>2, <1>4, GreatestNat
<1> DEFINE top == {p \in free : count(p) = m}
<1>6. top \in SUBSET Nat /\ top # {}
  BY <1>5, PartsFinite
<1>7. PICK p \in top : \A q \in top : p <= q
  BY <1>6, LeastNat
<1>8. best(p)
  <2> SUFFICES ASSUME NEW q \in free PROVE count(p) > count(q) \/ (count(p) = count(q) /\ p <= q)
    OBVIOUS
  <2>1. count(q) <= m /\ count(p) = m /\ count(q) \in Int /\ m \in Int
    BY <1>3, <1>5, <1>7
  <2>2. count(q) = m => p <= q
    BY <1>7
  <2> QED BY <2>1, <2>2
<1>9. most_frequent(A, C, free) = CHOOSE q \in free : best(q)
  BY DEF most_frequent, count
<1>10. p \in free
  BY <1>7
<1> HIDE DEF best, top
<1> QED BY <1>8, <1>9, <1>10

(***************************************************************************)
(* What the steps outside the expansion make of a cover.                   *)
(***************************************************************************)
LEMMA MarkedFacts ==
  ASSUME NEW A \in Seq(CubeRecords), NEW dc
  PROVE  Marked(A, dc).cubes \in Seq(CubeRecords) /\ Picked(Marked(A, dc).cubes, A)
<1> DEFINE m == mark_irredundant(Sets(A), dc)
           needed(j) == j \in m.relessen
           M == [j \in DOMAIN A |-> [A[j] EXCEPT !.RELESSEN = needed(j)]]
<1>1. DOMAIN A = 1 .. Len(A) /\ Len(A) \in Nat /\ \A j \in DOMAIN A : A[j] \in CubeRecords
  OBVIOUS
<1>2. m.active \in SUBSET DOMAIN A
  BY SetsFacts DEF mark_irredundant, CoverTheRest, MinimalSubset
<1> HIDE DEF m
<1>3. \A j \in DOMAIN A : M[j] \in CubeRecords /\ M[j].set = A[j].set /\ M[j].PRIME = A[j].PRIME
  <2>1. \A j \in DOMAIN A : needed(j) \in BOOLEAN
    <3> SUFFICES ASSUME NEW j \in DOMAIN A PROVE needed(j) \in BOOLEAN
      OBVIOUS
    <3>1. CASE j \in m.relessen
      BY <3>1
    <3>2. CASE j \notin m.relessen
      BY <3>2
    <3> QED BY <3>1, <3>2
  <2> HIDE DEF needed
  <2> QED BY <1>1, <2>1 DEF CubeRecords
<1>4. M \in Seq(CubeRecords) /\ DOMAIN M = DOMAIN A
  <2>1. M \in [1 .. Len(A) -> CubeRecords]
    BY <1>1, <1>3
  <2> QED BY <1>1, <2>1
<1>5. Marked(A, dc).cubes = Keep(M, m.active)
  BY DEF Marked, Mark, m
<1> HIDE DEF M
<1>6. Keep(M, m.active) \in Seq(CubeRecords) /\ From(Keep(M, m.active), M)
  BY <1>2, <1>4, KeepFrom
<1> QED BY <1>3, <1>4, <1>5, <1>6 DEF From, Picked

(* Two clear covers together are clear.                                    *)
LEMMA ConcatClear ==
  ASSUME NEW A \in Seq(CubeRecords), NEW B \in Seq(CubeRecords), AllClear(A), AllClear(B)
  PROVE  A \o B \in Seq(CubeRecords) /\ AllClear(A \o B)
BY DEF AllClear

(* Every unravelled cube lies in the cube it comes from.                   *)
LEMMA UnwrappedFacts ==
  ASSUME NEW A \in Seq(Cubes)
  PROVE  /\ Unwrapped(A) \in Seq(Cubes)
         /\ \A k \in DOMAIN Unwrapped(A) : \E j \in DOMAIN A : Unwrapped(A)[k] \subseteq A[j]
<1> DEFINE U == unravel(A, output)
<1>1. U \in Seq(Cubes) /\ \A k \in DOMAIN U : \E j \in DOMAIN A : U[k] \subseteq A[j]
  BY UnravelFacts
<1> HIDE DEF U
<1>2. sf_contain(U) \in Seq(Cubes) /\ From(sf_contain(U), U)
  BY <1>1, ContainFacts
<1>3. Unwrapped(A) = sf_contain(U) \/ Unwrapped(A) = A
  BY DEF Unwrapped, U
<1> QED BY <1>1, <1>2, <1>3 DEF From

(* A reduced cube lies in the cube before.                                 *)
LEMMA ReductionWithin ==
  ASSUME NEW A, NEW dc, NEW j PROVE Reduction(A, dc, j) \subseteq A[j]
BY DEF Reduction, reduce_cube

(***************************************************************************)
(* The parts that mincov, or a prime of the super gasp, keeps low hit      *)
(* every piece of every blocking set: raising all others meets no cube.    *)
(***************************************************************************)
LEMMA OffsetFacts ==
  ASSUME in \in Inputs
  PROVE  /\ R \in Seq(Cubes) /\ in.F \in Seq(Cubes)
         /\ \A r \in DOMAIN R : R[r] \in Cubes /\ cdist0(R[r], Parts)
         /\ \A j \in DOMAIN in.F : Clear(in.F[j])
<1>1. /\ in.R \in Seq(Cubes) /\ in.F \in Seq(Cubes)
      /\ \A r \in DOMAIN in.R : cdist0(in.R[r], Parts)
      /\ \A f \in DOMAIN in.F, r \in DOMAIN in.R : ~ cdist0(in.R[r], in.F[f])
  BY InputsAssumption
<1>2. \A r \in DOMAIN in.R : in.R[r] \in Cubes
  BY <1>1
<1> QED BY <1>1, <1>2 DEF R, Clear

(* A cover of the blocking sets meets each of them.                        *)
LEMMA CoverHits ==
  ASSUME NEW family \in Seq(Cubes), NEW cover, cover = do_sm_minimum_cover(family, TRUE),
         cover # NIL, NEW k \in DOMAIN family, family[k] # {}
  PROVE  family[k] \cap cover.row # {}
<1> DEFINE A    == {x \in (DOMAIN family) \X UNION ToSet(family) : x[2] \in family[x[1]]}
           best == sm_mincov[<<A, solution_alloc, 0, Cardinality(Cols(A)) + 1, TRUE>>]
<1>1. PICK q \in family[k] : TRUE
  OBVIOUS
<1>2. <<k, q>> \in A
  BY <1>1 DEF ToSet
<1>3. cover = Verified(A, best)
  BY <1>2 DEF do_sm_minimum_cover, sm_minimum_cover
<1>4. k \in Rows(A)
  <2>1. <<k, q>>[1] = k
    OBVIOUS
  <2> HIDE DEF A
  <2> QED BY <1>2, <2>1 DEF Rows
<1>5. sm_row(A, k) \subseteq family[k]
  BY DEF sm_row
<1> HIDE DEF A, best
<1>6. cover = best /\ verify_cover(A, best.row)
  BY <1>3 DEF Verified
<1> QED BY <1>4, <1>5, <1>6 DEF verify_cover

(* Raising what mincov leaves keeps the cube clear.                        *)
LEMMA MincovClear ==
  ASSUME in \in Inputs, BB \subseteq DOMAIN R, Clear(RAISE), Full(RAISE),
         NEW xlower, xlower = do_sm_minimum_cover(BlockingSets, TRUE), xlower # NIL
  PROVE  \A b \in BB : ~ cdist0(R[b], RAISE \cup (FREESET \ xlower.row))
<1> DEFINE at  == Listing(BB, Increasing(BB))
           low == [k \in 1 .. Cardinality(BB) |-> force_lower(R[at[k]], RAISE)]
<1>1. R \in Seq(Cubes) /\ \A r \in DOMAIN R : R[r] \in Cubes
  BY OffsetFacts
<1>2. DOMAIN R = 1 .. Len(R) /\ Len(R) \in Nat
  BY <1>1
<1>3. IsFiniteSet(BB) /\ Cardinality(BB) \in Nat /\ BB \subseteq Int
  BY <1>2, PositionsFinite, FS_Subset, FS_CardinalityType
<1>4. /\ at \in [1 .. Cardinality(BB) -> BB]
      /\ \A x \in BB : \E k \in 1 .. Cardinality(BB) : at[k] = x
  BY <1>3, IncreasingOrder, ListingFacts
<1> HIDE DEF at
<1>5. \A k \in 1 .. Cardinality(BB) : force_lower(R[at[k]], RAISE) \in Cubes
  BY <1>1, <1>4 DEF force_lower, Cubes
<1>6. low \in Seq(Cubes) /\ DOMAIN low = 1 .. Cardinality(BB)
  BY <1>3, <1>5
<1>7. BlockingSets = unravel(low, num_binary_vars)
  BY DEF BlockingSets, at
<1>8. ASSUME NEW b \in BB PROVE ~ cdist0(R[b], RAISE \cup (FREESET \ xlower.row))
  <2>1. PICK k \in 1 .. Cardinality(BB) : at[k] = b
    BY <1>4
  <2>2. low[k] = force_lower(R[b], RAISE)
    BY <2>1
  <2> HIDE DEF low
  <2>3. ASSUME NEW u \in Unravelled(force_lower(R[b], RAISE), num_binary_vars .. num_vars - 1),
               u # {}
        PROVE  u \cap xlower.row # {}
    <3>1. k \in DOMAIN low /\ u \in Unravelled(low[k], num_binary_vars .. num_vars - 1)
      BY <1>6, <2>2, <2>3
    <3>2. PICK l \in DOMAIN BlockingSets : BlockingSets[l] = u
      <4>1. \A x \in Unravelled(low[k], num_binary_vars .. num_vars - 1) :
              \E l \in DOMAIN unravel(low, num_binary_vars) : unravel(low, num_binary_vars)[l] = x
        BY <1>6, <3>1, UnravelFacts, ZenonT(90)
      <4> QED BY <1>7, <3>1, <4>1
    <3>3. BlockingSets \in Seq(Cubes)
      BY <1>6, <1>7, UnravelFacts
    <3> QED BY <2>3, <3>2, <3>3, CoverHits
  <2>4. \A v \in 0 .. num_binary_vars - 1 : RAISE \cap var_mask[v] # {}
    BY DEF Full
  <2>5. R[b] \in Cubes /\ ~ cdist0(R[b], RAISE)
    BY <1>1 DEF Clear
  <2> QED BY <2>3, <2>4, <2>5, Hit
<1> QED BY <1>8

(* The primes found by the gasp are clear.                                 *)
LEMMA PrimesClear ==
  ASSUME in \in Inputs, NEW B \in SUBSET DOMAIN R, NEW c \in Cubes, NEW free \in Cubes,
         Clear(c), Full(c), \A r \in DOMAIN R : r \notin B => ~ cdist0(R[r], c \cup free),
         NEW prime \in find_all_primes(B, c, free)
  PROVE  prime \in Cubes /\ Clear(prime)
<1> DEFINE sets   == {force_lower(R[b], c) : b \in B}
           family == unravel(Listed(sets), num_binary_vars)
<1>1. \A r \in DOMAIN R : R[r] \in Cubes
  BY OffsetFacts
<1>2. sets \in SUBSET Cubes
  BY <1>1 DEF force_lower, Cubes
<1>3. /\ Listed(sets) \in Seq(Cubes)
      /\ \A x \in sets : \E k \in DOMAIN Listed(sets) : Listed(sets)[k] = x
  <2> HIDE DEF sets
  <2> QED BY <1>2, ListedFacts
<1>4. CASE B = {}
  BY <1>4 DEF find_all_primes
<1>5. CASE B # {}
  <2>1. PICK C \in MinHitting(ToSet(family)) : prime = c \cup (free \ C)
    BY <1>5 DEF find_all_primes
  <2>2. \A u \in ToSet(family) : u \cap C # {}
    BY <2>1 DEF MinHitting, Hitting
  <2>3. prime \in Cubes /\ prime \subseteq c \cup free
    BY <2>1 DEF Cubes
  <2>4. ASSUME NEW b \in B PROVE ~ cdist0(R[b], prime)
    <3>1. force_lower(R[b], c) \in sets
      OBVIOUS
    <3>2. PICK k \in DOMAIN Listed(sets) : Listed(sets)[k] = force_lower(R[b], c)
      BY <1>3, <3>1
    <3> HIDE DEF sets
    <3>3. ASSUME NEW u \in Unravelled(force_lower(R[b], c), num_binary_vars .. num_vars - 1)
          PROVE  u \cap C # {}
      <4>1. PICK l \in DOMAIN family : family[l] = u
        BY <1>3, <3>2, UnravelFacts
      <4>2. u \in ToSet(family)
        BY <4>1 DEF ToSet
      <4> QED BY <2>2, <4>2
    <3>4. R[b] \in Cubes /\ ~ cdist0(R[b], c)
      BY <1>1 DEF Clear
    <3>5. \A v \in 0 .. num_binary_vars - 1 : c \cap var_mask[v] # {}
      BY DEF Full
    <3> HIDE DEF family
    <3> QED BY <2>1, <3>3, <3>4, <3>5, Hit
  <2>5. \A r \in DOMAIN R : r \notin B => ~ cdist0(R[r], prime)
    BY <2>3, DistanceMonotone
  <2> QED BY <2>3, <2>4, <2>5 DEF Clear
<1> QED BY <1>4, <1>5

(* The primes found by the super gasp are clear.                           *)
LEMMA AllPrimesClear ==
  ASSUME in \in Inputs, NEW A \in Seq(CubeRecords), AllClear(A), \A j \in DOMAIN A : Full(A[j].set),
         NEW prime \in AllPrimes(A)
  PROVE  prime \in Cubes /\ Clear(prime)
<1> DEFINE parts(j) == essen_parts(A, DOMAIN R, {}, A[j].set, Parts \ A[j].set)
<1>1. PICK j \in DOMAIN A :
        prime \in IF A[j].PRIME THEN {A[j].set}
                 ELSE find_all_primes(parts(j).BB, A[j].set, parts(j).FREESET)
  BY DEF AllPrimes
<1>2. A[j].set \in Cubes /\ Clear(A[j].set) /\ Full(A[j].set)
  BY SetsFacts DEF AllClear
<1>3. CASE A[j].PRIME
  BY <1>1, <1>2, <1>3
<1>4. CASE ~ A[j].PRIME
  <2>1. prime \in find_all_primes(parts(j).BB, A[j].set, parts(j).FREESET)
    BY <1>1, <1>4
  <2>2. A[j].set \cup (Parts \ A[j].set) = Parts
    BY <1>2 DEF Cubes
  <2>3. \A b \in DOMAIN R : cdist0(R[b], A[j].set \cup (Parts \ A[j].set))
    BY <2>2, OffsetFacts
  <2>4. /\ parts(j).BB \subseteq DOMAIN R /\ parts(j).FREESET \subseteq Parts \ A[j].set
        /\ \A b \in DOMAIN R : b \notin parts(j).BB => ~ cdist0(R[b], A[j].set \cup parts(j).FREESET)
    <3>1. Reached(A, DOMAIN R, {}, A[j].set \cup (Parts \ A[j].set))
      BY <2>3 DEF Reached
    <3>2. PartsRight(A, DOMAIN R, {}, A[j].set, Parts \ A[j].set, parts(j))
      BY <3>1, EssenParts
    <3> HIDE DEF parts
    <3> QED BY <3>2 DEF PartsRight
  <2>5. parts(j).FREESET \in Cubes
    BY <2>4 DEF Cubes
  <2> HIDE DEF parts
  <2> QED BY <1>2, <2>1, <2>4, <2>5, PrimesClear
<1> QED BY <1>3, <1>4

(***************************************************************************)
(* The steps outside the expansion.                                        *)
(***************************************************************************)
LEMMA Settled ==
  ASSUME IInv, pc # "fatal"
  PROVE  /\ AllClear(E) /\ AllClear(Foriginal)
         /\ call # "gasp" \/ pc \notin {"expand", "next", "feasible", "raise"} => AllClear(F)
BY DEF IInv, Orthogonal, AllClear, Candidate

(* Outside the loop of expand clear covers are all it takes.               *)
LEMMA StaysSettled ==
  ASSUME TypesInv', in' = in, pc' \notin {"next", "feasible", "raise"},
         pc' = "fatal" \/ (AllClear(F') /\ AllClear(E') /\ AllClear(Foriginal')),
         pc' = "expand_gasp" => Len(Foriginal') = Len(F')
  PROVE  IInv'
<1>1. ExpansionInv' /\ PassedInv' /\ GaspInv'
  BY DEF ExpansionInv, PassedInv, GaspInv
<1>2. Orthogonal'
  BY DEF Orthogonal, AllClear, Clear, R
<1> QED BY <1>1, <1>2 DEF IInv

(* Begin keeps the invariant.                                              *)
LEMMA BeginStep ==
  ASSUME IInv, Begin PROVE IInv'
<1> USE DEF Begin, main, costs, expansion
<1>1. TypesInv /\ in' = in /\ pc' = "expand" /\ AllClear(E') /\ AllClear(Foriginal')
  BY Settled DEF IInv
<1>2. in.F \in Seq(Cubes) /\ \A j \in DOMAIN in.F : Clear(in.F[j])
  BY <1>1, OffsetFacts DEF TypesInv
<1>3. /\ Unwrapped(in.F) \in Seq(Cubes)
      /\ \A k \in DOMAIN Unwrapped(in.F) : Clear(Unwrapped(in.F)[k])
  BY <1>2, UnwrappedFacts, ClearMonotone
<1>4. F' \in Seq(CubeRecords) /\ AllClear(F')
  BY <1>3, CubedFacts DEF AllClear
<1>5. TypesInv'
  BY <1>1, <1>4 DEF TypesInv
<1> QED BY <1>1, <1>4, <1>5, StaysSettled

(* Irredundant1 and Irredundant2 keep the invariant.                       *)
LEMMA IrredundantStep ==
  ASSUME IInv, Irredundant1 \/ Irredundant2 PROVE IInv'
<1> USE DEF Irredundant1, Irredundant2, main, costs, expansion
<1>1. /\ TypesInv /\ in' = in /\ pc' \notin {"next", "feasible", "raise", "expand_gasp", "reducing"}
      /\ AllClear(F) /\ AllClear(E') /\ AllClear(Foriginal')
  BY Settled DEF IInv
<1>2. F' = Marked(F, D).cubes
  OBVIOUS
<1>3. F' \in Seq(CubeRecords) /\ AllClear(F')
  BY <1>1, <1>2, MarkedFacts, PickedClear DEF TypesInv
<1>4. TypesInv'
  BY <1>1, <1>3 DEF TypesInv
<1> QED BY <1>1, <1>3, <1>4, StaysSettled

(* Essential and SingleExpand keep the invariant.                          *)
LEMMA EssentialStep ==
  ASSUME IInv, Essential \/ SingleExpand PROVE IInv'
<1> USE DEF Essential, SingleExpand, main, costs, expansion
<1>1. /\ TypesInv /\ in' = in /\ pc' \in {"reduce", "mv_reduce"}
      /\ AllClear(F) /\ AllClear(E) /\ AllClear(Foriginal') /\ F \in Seq(CubeRecords)
  BY Settled DEF IInv, TypesInv
<1>2. CASE SingleExpand
  <2>1. i' \in Nat
    BY <1>2, CubeAssumption
  <2>2. TypesInv'
    BY <1>1, <1>2, <2>1 DEF TypesInv
  <2> QED BY <1>1, <1>2, <2>2, StaysSettled
<1>3. CASE Essential
  <2>1. PICK essen \in SUBSET DOMAIN F : E' = Keep(F, essen) /\ F' = Keep(F, DOMAIN F \ essen)
    BY <1>3 DEF Essentials
  <2>2. /\ E' \in Seq(CubeRecords) /\ From(E', F)
        /\ F' \in Seq(CubeRecords) /\ From(F', F)
    BY <1>1, <2>1, KeepFrom
  <2>3. AllClear(E') /\ AllClear(F')
    BY <1>1, <2>2, FromPicked, PickedClear
  <2>4. TypesInv'
    BY <1>1, <1>3, <2>2 DEF TypesInv
  <2> QED BY <1>1, <2>3, <2>4, StaysSettled
<1> QED BY <1>2, <1>3

(* The steps of reduce keep the invariant.                                 *)
LEMMA ReduceStep ==
  ASSUME IInv, Reduce \/ ReduceCube \/ ReduceEnd PROVE IInv'
<1> USE DEF Reduce, ReduceCube, ReduceEnd, main, costs, expansion
<1>1. /\ TypesInv /\ in' = in /\ pc' \in {"reducing", "expand"} /\ F \in Seq(CubeRecords)
      /\ AllClear(F) /\ AllClear(E') /\ AllClear(Foriginal')
  BY Settled DEF IInv, TypesInv
<1>2. CASE Reduce
  <2>1. F' \in Seq(CubeRecords) /\ From(F', F)
    BY <1>1, <1>2, MiniSort, SortReduce
  <2>2. AllClear(F')
    BY <1>1, <2>1, FromPicked, PickedClear
  <2>3. TypesInv'
    BY <1>1, <1>2, <2>1 DEF TypesInv
  <2> QED BY <1>1, <2>2, <2>3, StaysSettled
<1>3. CASE ReduceCube
  <2> DEFINE cunder == Reduction(Sets(F), D, i)
  <2>1. i \in DOMAIN F /\ F[i] \in CubeRecords /\ DOMAIN F = 1 .. Len(F) /\ Len(F) \in Nat
    BY <1>1, <1>3 DEF TypesInv
  <2>2. cunder \subseteq F[i].set /\ cunder \in Cubes
    BY <1>1, <2>1, ReductionWithin, SetsFacts DEF Cubes
  <2>3. F' = [F EXCEPT ![i].set = cunder, ![i].PRIME = (cunder = F[i].set)]
    BY <1>3
  <2> HIDE DEF cunder
  <2>4. F' \in Seq(CubeRecords)
    <3> DEFINE same == cunder = F[i].set
               rec  == [F[i] EXCEPT !.set = cunder, !.PRIME = same]
    <3>1. same \in BOOLEAN
      <4>1. CASE cunder = F[i].set
        BY <4>1
      <4>2. CASE cunder # F[i].set
        BY <4>2
      <4> QED BY <4>1, <4>2
    <3>2. F' = [F EXCEPT ![i] = rec]
      BY <1>1, <2>1, <2>3
    <3> HIDE DEF same
    <3>3. rec \in CubeRecords
      BY <2>1, <2>2, <3>1 DEF CubeRecords
    <3> HIDE DEF rec
    <3> QED BY <1>1, <2>1, <3>2, <3>3
  <2>5. AllClear(F')
    <3>1. DOMAIN F' = DOMAIN F /\ \A j \in DOMAIN F : F'[j].set \subseteq F[j].set
      BY <1>1, <2>1, <2>2, <2>3 DEF CubeRecords
    <3> QED BY <1>1, <3>1, ClearMonotone DEF AllClear
  <2>6. TypesInv'
    BY <1>1, <1>3, <2>1, <2>4 DEF TypesInv
  <2> QED BY <1>1, <1>3, <2>5, <2>6, StaysSettled
<1>4. CASE ReduceEnd
  <2>1. F' \in Seq(CubeRecords) /\ From(F', F)
    BY <1>1, <1>4, KeepFrom
  <2>2. AllClear(F')
    BY <1>1, <2>1, FromPicked, PickedClear
  <2>3. TypesInv'
    BY <1>1, <1>4, <2>1 DEF TypesInv
  <2> QED BY <1>1, <2>2, <2>3, StaysSettled
<1> QED BY <1>2, <1>3, <1>4

(* ReduceGasp keeps the invariant.                                         *)
LEMMA GaspStep ==
  ASSUME IInv, ReduceGasp PROVE IInv'
<1> USE DEF ReduceGasp, costs, expansion
<1> DEFINE cunder == [j \in DOMAIN F |-> Reduction(Sets(F), D, j)]
           reduced == [j \in DOMAIN F |-> IF cunder[j] = F[j].set THEN F[j] ELSE Flagged(cunder[j])]
<1>1. /\ TypesInv /\ in' = in /\ F \in Seq(CubeRecords) /\ AllClear(F) /\ AllClear(E')
      /\ Foriginal' = F /\ G' = <<>> /\ i' = 1 /\ pc' \in {"fatal", "super_gasp", "expand_gasp"}
  BY Settled DEF IInv, TypesInv
<1>2. DOMAIN F = 1 .. Len(F) /\ Len(F) \in Nat /\ \A j \in DOMAIN F : F[j] \in CubeRecords
  BY <1>1
<1>3. \A j \in DOMAIN F : cunder[j] \subseteq F[j].set /\ cunder[j] \in Cubes
  BY <1>1, ReductionWithin, SetsFacts DEF Cubes
<1>4. F' = reduced
  OBVIOUS
<1> HIDE DEF cunder
<1>5. \A j \in DOMAIN F : Flagged(cunder[j]) \in CubeRecords /\ Flagged(cunder[j]).set = cunder[j]
  BY <1>3 DEF Flagged, CubeRecords
<1>6. \A j \in DOMAIN F : reduced[j] \in CubeRecords /\ reduced[j].set \subseteq F[j].set
  BY <1>2, <1>3, <1>5
<1>7. F' \in Seq(CubeRecords) /\ Len(F') = Len(F) /\ DOMAIN F' = DOMAIN F
  <2>1. reduced \in [1 .. Len(F) -> CubeRecords]
    BY <1>2, <1>6
  <2> HIDE DEF reduced
  <2> QED BY <1>2, <1>4, <2>1
<1>8. AllClear(F')
  BY <1>1, <1>4, <1>6, <1>7, ClearMonotone DEF AllClear
<1>9. TypesInv'
  <2>1. RAISE' = RAISE /\ FREESET' = FREESET /\ E' = E
    OBVIOUS
  <2> QED BY <1>1, <1>7, <2>1 DEF TypesInv
<1> QED BY <1>1, <1>7, <1>8, <1>9, StaysSettled

(* The candidates of a gasp are cubes of parts.                            *)
LEMMA GaspNewFacts ==
  ASSUME TypesInv, i \in DOMAIN F, Len(Foriginal) = Len(F) PROVE GaspNew \in Seq(Cubes)
<1> DEFINE C        == {j \in DOMAIN F \ {i} : ~ F[j].PRIME}
           partners == GaspPartners(GaspParts, F[i].set \cup essen_raising(GaspParts.BB, GaspParts.FREESET))
           raised   == F[i].set \cup essen_raising(GaspParts.BB, GaspParts.FREESET)
           at       == Listing(partners, Increasing(partners))
<1>1. /\ DOMAIN F = 1 .. Len(F) /\ Len(F) \in Nat /\ F \in Seq(CubeRecords)
      /\ Foriginal \in Seq(CubeRecords) /\ DOMAIN Foriginal = DOMAIN F
  BY DEF TypesInv
<1>2. F[i].set \in Cubes /\ \A j \in DOMAIN F : F[j].set \in Cubes /\ Sets(Foriginal)[j] \in Cubes
  BY <1>1, SetsFacts
<1>3. GaspParts = essen_parts(F, DOMAIN R, C, F[i].set, Parts \ F[i].set)
  BY DEF GaspParts
<1>4. Reached(F, DOMAIN R, C, F[i].set \cup (Parts \ F[i].set))
  <2>1. F[i].set \cup (Parts \ F[i].set) = Parts
    BY <1>2 DEF Cubes
  <2>2. \A j \in C : F[j].set \subseteq Parts
    BY <1>2 DEF Cubes
  <2> QED BY <2>1, <2>2, OffsetFacts DEF Reached, TypesInv
<1> HIDE DEF C
<1>5. GaspParts.CC \subseteq C /\ GaspParts.FREESET \subseteq Parts
  BY <1>3, <1>4, EssenParts DEF PartsRight
<1>6. raised \in Cubes
  BY <1>2, <1>5 DEF essen_raising, Cubes
<1>7. partners \in SUBSET DOMAIN F
  BY <1>5 DEF GaspPartners, C
<1> HIDE DEF raised, partners
<1>8. IsFiniteSet(partners) /\ Cardinality(partners) \in Nat /\ partners \subseteq Int
  BY <1>1, <1>7, PositionsFinite, FS_Subset, FS_CardinalityType
<1>9. at \in [1 .. Cardinality(partners) -> partners]
  BY <1>8, IncreasingOrder, ListingFacts
<1> HIDE DEF at
<1>10. \A j \in DOMAIN F : c2essential(j) \in Cubes
  <2> SUFFICES ASSUME NEW j \in DOMAIN F PROVE c2essential(j) \in Cubes
    OBVIOUS
  <2> DEFINE with == [Sets(Foriginal) EXCEPT ![i] = F[i].set]
  <2>1. with[j] \in Cubes
    <3>1. DOMAIN Sets(Foriginal) = DOMAIN F
      BY <1>1, SetsFacts
    <3> QED BY <1>2, <3>1
  <2>2. c2essential(j) = Reduction(with, D, j)
    BY DEF c2essential
  <2> HIDE DEF with
  <2> QED BY <2>1, <2>2, ReductionWithin DEF Cubes
<1>11. GaspNew = [k \in DOMAIN at |-> raised \cup c2essential(at[k])]
  BY DEF GaspNew, GaspFound, GaspFrom, GaspCubes, raised, partners, at
<1>12. \A k \in 1 .. Cardinality(partners) : raised \cup c2essential(at[k]) \in Cubes
  <2> SUFFICES ASSUME NEW k \in 1 .. Cardinality(partners)
               PROVE  raised \cup c2essential(at[k]) \in Cubes
    OBVIOUS
  <2>1. at[k] \in DOMAIN F
    BY <1>7, <1>9
  <2> QED BY <1>6, <1>10, <2>1 DEF Cubes
<1>13. GaspNew \in [1 .. Cardinality(partners) -> Cubes]
  BY <1>9, <1>11, <1>12
<1> QED BY <1>8, <1>13

(* ExpandGasp keeps the invariant.                                         *)
LEMMA ExpandGaspStep ==
  ASSUME IInv, ExpandGasp PROVE IInv'
<1> USE DEF ExpandGasp, costs, expansion
<1>1. /\ TypesInv /\ in' = in /\ F' = F /\ Foriginal' = Foriginal /\ Len(Foriginal) = Len(F)
      /\ AllClear(F) /\ AllClear(E') /\ AllClear(Foriginal) /\ pc' \in {"fatal", "expand_gasp"}
  BY Settled DEF IInv, GaspInv
<1>2. i \in DOMAIN F /\ i \in Nat
  BY <1>1 DEF TypesInv
<1>3. G' \in Seq(Cubes)
  BY <1>1, <1>2, GaspNewFacts DEF TypesInv
<1>4. TypesInv'
  BY <1>1, <1>2, <1>3 DEF TypesInv
<1> QED BY <1>1, <1>4, StaysSettled

(* The candidates of the gasp are not flagged PRIME: only when they have   *)
(* been expanded do they count.                                            *)
LEMMA ExpandGaspEndStep ==
  ASSUME IInv, ExpandGaspEnd PROVE IInv'
<1> USE DEF ExpandGaspEnd, main, costs, expansion
<1>1. /\ TypesInv /\ in' = in /\ F' = Cubed(sf_dupl(G)) /\ pc' = "expand" /\ call' = "gasp"
      /\ AllClear(E') /\ AllClear(Foriginal')
  BY Settled DEF IInv
<1>2. F' \in Seq(CubeRecords) /\ \A j \in DOMAIN F' : ~ F'[j].PRIME
  BY <1>1, DuplFacts, CubedFacts DEF TypesInv
<1>3. TypesInv'
  BY <1>1, <1>2 DEF TypesInv
<1>4. ExpansionInv' /\ PassedInv' /\ GaspInv'
  BY <1>1 DEF ExpansionInv, PassedInv, GaspInv
<1>5. Orthogonal'
  BY <1>1, <1>2 DEF Orthogonal, Candidate, AllClear, Clear, R
<1> QED BY <1>3, <1>4, <1>5 DEF IInv

(* Where the main loop goes next.                                          *)
LEMMA LoopOrSparseFacts ==
  ASSUME NEW A \in Seq(CubeRecords), AllClear(A), E \in Seq(CubeRecords), AllClear(E), i \in Nat,
         NEW again, LoopOrSparse(A, again)
  PROVE  /\ F' \in Seq(CubeRecords) /\ AllClear(F') /\ i' \in Nat
         /\ pc' \in {"reduce", "mv_reduce"}
<1>1. first_part[num_binary_vars] \in Nat
  BY CubeAssumption
<1> QED BY <1>1, ConcatClear DEF LoopOrSparse

(* IrredGasp keeps the invariant.                                          *)
LEMMA IrredGaspStep ==
  ASSUME IInv, IrredGasp PROVE IInv'
<1> USE DEF IrredGasp, main, expansion
<1>1. /\ TypesInv /\ in' = in /\ AllClear(F) /\ AllClear(E) /\ AllClear(Foriginal)
      /\ F \in Seq(CubeRecords) /\ E \in Seq(CubeRecords) /\ Foriginal \in Seq(CubeRecords)
      /\ i \in Nat /\ E' = E /\ Foriginal' = Foriginal
  BY Settled DEF IInv, TypesInv
<1> DEFINE m == IF F = <<>> THEN [ok |-> TRUE, cubes |-> Foriginal] ELSE Marked(Foriginal \o F, D)
<1>2. m.cubes \in Seq(CubeRecords) /\ AllClear(m.cubes)
  BY <1>1, ConcatClear, MarkedFacts, PickedClear
<1>3. \/ LoopOrSparse(m.cubes, Better(cost', best_cost))
      \/ F' = m.cubes /\ pc' = "fatal" /\ i' = i
  OBVIOUS
<1> HIDE DEF m
<1>4. /\ F' \in Seq(CubeRecords) /\ AllClear(F') /\ i' \in Nat
      /\ pc' \in {"reduce", "mv_reduce", "fatal"}
  BY <1>1, <1>2, <1>3, LoopOrSparseFacts
<1>5. G' = G /\ RAISE' = RAISE /\ FREESET' = FREESET
  OBVIOUS
<1>6. TypesInv'
  BY <1>1, <1>4, <1>5 DEF TypesInv
<1> QED BY <1>1, <1>4, <1>6, StaysSettled

(* SuperGasp keeps the invariant.                                          *)
LEMMA SuperGaspStep ==
  ASSUME IInv, FullInv, SuperGasp PROVE IInv'
<1> USE DEF SuperGasp, main, expansion
<1> DEFINE old    == Sets(Foriginal)
           primes == sf_dupl(old \o Listed(AllPrimes(F)))
           m      == Marked(Primes(primes), D)
           again  == cost'.cubes < best_cost.cubes
<1>1. /\ TypesInv /\ in' = in /\ AllClear(F) /\ AllClear(E) /\ AllClear(Foriginal)
      /\ F \in Seq(CubeRecords) /\ E \in Seq(CubeRecords) /\ Foriginal \in Seq(CubeRecords)
      /\ i \in Nat /\ E' = E /\ Foriginal' = Foriginal /\ in \in Inputs
  BY Settled DEF IInv, TypesInv
<1>2. \A j \in DOMAIN F : Full(F[j].set)
  BY DEF FullInv, AllFull
<1>3. AllPrimes(F) \in SUBSET Cubes /\ \A c \in AllPrimes(F) : Clear(c)
  BY <1>1, <1>2, AllPrimesClear
<1>4. Listed(AllPrimes(F)) \in Seq(Cubes) /\ \A k \in DOMAIN Listed(AllPrimes(F)) : Clear(Listed(AllPrimes(F))[k])
  <2>1. Listed(AllPrimes(F)) \in Seq(AllPrimes(F)) /\ Listed(AllPrimes(F)) \in Seq(Cubes)
    BY <1>3, ListedFacts
  <2> QED BY <1>3, <2>1
<1>5. old \in Seq(Cubes) /\ \A k \in DOMAIN old : Clear(old[k])
  BY <1>1, SetsFacts DEF AllClear
<1> HIDE DEF old
<1>6. /\ old \o Listed(AllPrimes(F)) \in Seq(Cubes)
      /\ \A k \in DOMAIN (old \o Listed(AllPrimes(F))) : Clear((old \o Listed(AllPrimes(F)))[k])
  BY <1>4, <1>5
<1>7. primes \in Seq(Cubes) /\ \A k \in DOMAIN primes : Clear(primes[k])
  BY <1>6, DuplFacts DEF From
<1> HIDE DEF primes
<1>8. Primes(primes) \in Seq(CubeRecords) /\ AllClear(Primes(primes))
  <2>1. DOMAIN primes = 1 .. Len(primes) /\ Len(primes) \in Nat /\ \A j \in DOMAIN primes : primes[j] \in Cubes
    BY <1>7
  <2>2. \A j \in DOMAIN primes : /\ [Flagged(primes[j]) EXCEPT !.PRIME = TRUE] \in CubeRecords
                                 /\ [Flagged(primes[j]) EXCEPT !.PRIME = TRUE].set = primes[j]
    BY <2>1 DEF Flagged, CubeRecords
  <2>3. Primes(primes) = [j \in DOMAIN primes |-> [Flagged(primes[j]) EXCEPT !.PRIME = TRUE]]
    BY DEF Primes
  <2>4. Primes(primes) \in [1 .. Len(primes) -> CubeRecords]
    BY <2>1, <2>2, <2>3
  <2>5. Primes(primes) \in Seq(CubeRecords)
    BY <2>1, <2>4
  <2> QED BY <1>7, <2>2, <2>3, <2>5 DEF AllClear
<1>9. m.cubes \in Seq(CubeRecords) /\ AllClear(m.cubes)
  BY <1>8, MarkedFacts, PickedClear
<1>10. \/ LoopOrSparse(m.cubes, again)
       \/ F' = m.cubes /\ pc' = "fatal" /\ i' = i
  BY DEF primes, old
<1> HIDE DEF m, again
<1>11. /\ F' \in Seq(CubeRecords) /\ AllClear(F') /\ i' \in Nat
       /\ pc' \in {"reduce", "mv_reduce", "fatal"}
  BY <1>1, <1>9, <1>10, LoopOrSparseFacts
<1>12. G' = G /\ RAISE' = RAISE /\ FREESET' = FREESET
  OBVIOUS
<1>13. TypesInv'
  BY <1>1, <1>11, <1>12 DEF TypesInv
<1> QED BY <1>1, <1>11, <1>13, StaysSettled

(* MvReducePart keeps the invariant.                                       *)
LEMMA MvReducePartStep ==
  ASSUME IInv, MvReducePart PROVE IInv'
<1> DEFINE fewer(j, c) == IF PartVar = output \/ ~ (var_mask[PartVar] \subseteq c) THEN c \ {i} ELSE c
           lost(j)     == [F[j] EXCEPT !.PRIME = FALSE, !.set = fewer(j, F[j].set)]
           m           == PartIrredundant
<1>1. /\ TypesInv /\ in' = in /\ AllClear(F) /\ AllClear(E') /\ AllClear(Foriginal')
      /\ E' = E /\ Foriginal' = Foriginal /\ G' = G /\ RAISE' = RAISE /\ FREESET' = FREESET
      /\ i' = i + 1 /\ pc' \in {"mv_reduce", "fatal"}
  BY Settled DEF IInv, MvReducePart, main, costs, expansion
<1>2. F' = [j \in DOMAIN F |-> IF j \notin m.lose THEN F[j] ELSE lost(j)]
  BY DEF MvReducePart
<1>3. /\ F \in Seq(CubeRecords) /\ DOMAIN F = 1 .. Len(F) /\ Len(F) \in Nat
      /\ \A j \in DOMAIN F : F[j] \in CubeRecords
  BY <1>1 DEF TypesInv
<1>4. \A j \in DOMAIN F : fewer(j, F[j].set) \subseteq F[j].set
  OBVIOUS
<1> HIDE DEF m, fewer
<1>5. \A j \in DOMAIN F : lost(j) \in CubeRecords /\ lost(j).set \subseteq F[j].set
  BY <1>3, <1>4 DEF CubeRecords, Cubes
<1> HIDE DEF lost
<1>6. F' \in [1 .. Len(F) -> CubeRecords]
  BY <1>2, <1>3, <1>5
<1>7. F' \in Seq(CubeRecords)
  BY <1>3, <1>6
<1>8. AllClear(F')
  <2>1. DOMAIN F' = DOMAIN F /\ \A j \in DOMAIN F : F'[j].set \subseteq F[j].set
    BY <1>2, <1>5
  <2> QED BY <1>1, <2>1, ClearMonotone DEF AllClear
<1>9. TypesInv'
  BY <1>1, <1>7 DEF TypesInv
<1> QED BY <1>1, <1>8, <1>9, StaysSettled

(* Sparse and MvReduceEnd keep the invariant.                              *)
LEMMA SparseStep ==
  ASSUME IInv, MvReduceEnd \/ Sparse PROVE IInv'
<1> USE DEF MvReduceEnd, Sparse, main, costs, expansion
<1>1. /\ TypesInv /\ in' = in /\ F \in Seq(CubeRecords)
      /\ AllClear(F) /\ AllClear(E') /\ AllClear(Foriginal')
      /\ pc' \in {"mv_reduce", "expand", "compare"}
  BY Settled DEF IInv, TypesInv
<1>2. CASE MvReduceEnd
  <2>1. F' \in Seq(CubeRecords) /\ From(F', F)
    BY <1>1, <1>2, KeepFrom
  <2>2. AllClear(F')
    BY <1>1, <2>1, FromPicked, PickedClear
  <2>3. TypesInv'
    BY <1>1, <1>2, <2>1 DEF TypesInv
  <2> QED BY <1>1, <1>2, <2>2, <2>3, StaysSettled
<1>3. CASE Sparse
  <2>1. first_part[num_binary_vars] \in Nat
    BY CubeAssumption
  <2>2. F' = F /\ i' \in Nat
    BY <1>1, <1>3, <2>1 DEF TypesInv
  <2>3. TypesInv'
    BY <1>1, <1>3, <2>2 DEF TypesInv
  <2> QED BY <1>1, <1>3, <2>2, <2>3, StaysSettled
<1> QED BY <1>2, <1>3

(* StartOver and Verify keep the invariant.                                *)
LEMMA CompareStep ==
  ASSUME IInv, StartOver \/ Verify PROVE IInv'
<1> USE DEF StartOver, Verify, main, costs, expansion
<1>1. /\ TypesInv' /\ in' = in /\ AllClear(F') /\ AllClear(E') /\ AllClear(Foriginal')
      /\ pc' \in {"begin", "verified", "fatal"}
  BY Settled DEF IInv, TypesInv
<1> QED BY <1>1, StaysSettled

(***************************************************************************)
(* The expansion of one cube.                                              *)
(***************************************************************************)

(* What may be raised, raised, and what essen_parts makes of that.         *)
MayRaise(B, raise, free, raise2, free2) ==
  /\ raise \subseteq raise2 /\ free2 \subseteq free
  /\ raise2 \cup free2 = raise \cup free
  /\ ~ Touched(B, raise2)
MayDecide(C, raise2, undecided, undecided2) ==
  \A j \in C : j \notin undecided2 => j \notin undecided \/ ~ Clear(raise2 \cup F[j].set)
Raised2(raise2, undecided2, free, parts) ==
  /\ Blocking(parts.BB, raise2, parts.FREESET)
  /\ Covering(parts.CC, raise2, parts.FREESET, undecided2)
  /\ parts.FREESET \subseteq free

(* Raising parts that may be raised keeps the blocking matrix right.       *)
LEMMA RaiseParts ==
  ASSUME NEW B, NEW C0, NEW C, C \subseteq C0, NEW raise, NEW free, NEW undecided, NEW undecided2,
         Blocking(B, raise, free), Covering(C0, raise, free, undecided),
         NEW raise2, NEW free2, MayRaise(B, raise, free, raise2, free2),
         MayDecide(C, raise2, undecided, undecided2)
  PROVE  Raised2(raise2, undecided2, free, essen_parts(F, B, C, raise2, free2))
<1> DEFINE parts == essen_parts(F, B, C, raise2, free2)
<1> USE DEF MayRaise, MayDecide
<1>1. raise2 \cup free2 = raise \cup free
  OBVIOUS
<1>2. Reached(F, B, C, raise2 \cup free2)
  BY <1>1 DEF Reached, Blocking, Covering
<1>3. PartsRight(F, B, C, raise2, free2, parts)
  BY <1>2, EssenParts
<1> HIDE DEF parts
<1>4. raise2 \cup parts.FREESET \subseteq raise \cup free /\ parts.FREESET \subseteq free
  BY <1>1, <1>3 DEF PartsRight
<1>5. Blocking(parts.BB, raise2, parts.FREESET)
  <2>1. parts.BB \subseteq DOMAIN R
    BY <1>3 DEF PartsRight, Blocking
  <2>2. ASSUME NEW r \in DOMAIN R, r \notin B
        PROVE  ~ cdist0(R[r], raise2 \cup parts.FREESET) /\ ~ cdist0(R[r], raise2)
    <3>1. ~ cdist0(R[r], raise \cup free)
      BY <2>2 DEF Blocking
    <3> QED BY <1>4, <3>1, DistanceMonotone
  <2>3. \A r \in DOMAIN R : r \in parts.BB <=> cdist0(R[r], raise2 \cup parts.FREESET)
    BY <1>3, <2>2 DEF PartsRight, Reached
  <2>4. Clear(raise2)
    BY <2>2, TouchedFacts DEF Clear
  <2> QED BY <2>1, <2>3, <2>4 DEF Blocking
<1>6. Covering(parts.CC, raise2, parts.FREESET, undecided2)
  <2>1. parts.CC \subseteq C
    BY <1>3 DEF PartsRight
  <2>2. parts.CC \subseteq DOMAIN F
    BY <2>1 DEF Covering
  <2>3. \A j \in parts.CC : F[j].set \subseteq raise2 \cup parts.FREESET
    BY <1>3 DEF PartsRight, Reached
  <2>4. ASSUME NEW j \in parts.CC, j \notin undecided2 PROVE ~ Clear(raise2 \cup F[j].set)
    <3>1. CASE j \notin undecided
      <4>1. ~ Clear(raise \cup F[j].set)
        BY <2>1, <3>1 DEF Covering
      <4>2. raise \cup F[j].set \subseteq raise2 \cup F[j].set
        OBVIOUS
      <4> QED BY <4>1, <4>2, ClearMonotone
    <3> QED BY <2>1, <2>4, <3>1
  <2> QED BY <2>2, <2>3, <2>4 DEF Covering
<1> QED BY <1>4, <1>5, <1>6 DEF Raised2, parts

(* A step within the expansion of cube i.                                  *)
LEMMA StaysExpanding ==
  ASSUME IInv, pc \in {"feasible", "raise"},
         UNCHANGED <<main, call, F, i>>, covered \subseteq covered',
         RAISE' \in Cubes, FREESET' \in Cubes,
         \/ pc' = "fatal"
         \/ /\ pc' = "feasible" /\ Blocking(BB', RAISE', FREESET')
            /\ Covering(CC', RAISE', FREESET', feas')
         \/ /\ pc' = "raise" /\ Blocking(BB', RAISE', FREESET')
            /\ Covering(CC', RAISE', FREESET', {})
  PROVE  IInv'
<1> USE DEF main
<1>1. TypesInv /\ i \in DOMAIN F /\ F[i].PRIME /\ in' = in /\ call' = call /\ F' = F /\ i' = i
  BY DEF IInv, ExpansionInv
<1>2. TypesInv'
  BY <1>1 DEF TypesInv
<1>3. PassedInv' /\ GaspInv'
  BY <1>1 DEF IInv, PassedInv, GaspInv
<1>4. ExpansionInv'
  BY <1>1 DEF ExpansionInv, Blocking, Covering, Undecided, Clear, R
<1>5. Orthogonal'
  BY <1>1 DEF IInv, Orthogonal, Candidate, Blocking, Clear, R
<1> QED BY <1>2, <1>3, <1>4, <1>5 DEF IInv

(* Raising one part keeps the invariant.                                   *)
LEMMA RaisePartStep ==
  ASSUME IInv, pc = "raise", NEW part \in FREESET, RaisePart(part) PROVE IInv'
<1> USE DEF RaisePart
<1> DEFINE raise2 == RAISE \cup {part}
           free2  == FREESET \ {part}
           parts  == essen_parts(F, BB, CC, raise2, free2)
<1>1. /\ RAISE \in Cubes /\ FREESET \in Cubes
      /\ Blocking(BB, RAISE, FREESET) /\ Covering(CC, RAISE, FREESET, {})
  BY DEF IInv, TypesInv, ExpansionInv, Undecided
<1>2. RAISE' = raise2 /\ BB' = parts.BB /\ CC' = parts.CC /\ FREESET' = parts.FREESET
  OBVIOUS
<1>3. /\ RAISE \subseteq raise2 /\ free2 \subseteq FREESET /\ raise2 \in Cubes
      /\ raise2 \cup free2 = RAISE \cup FREESET
  BY <1>1 DEF Cubes
<1>4. UNCHANGED <<main, call, F, i>> /\ covered' = covered
  OBVIOUS
<1>5. CASE Touched(BB, raise2)
  <2>1. pc' = "fatal"
    BY <1>5
  <2>2. FREESET' \in Cubes
    <3> HIDE DEF raise2, free2
    <3>1. Reached(F, BB, CC, raise2 \cup free2)
      BY <1>1, <1>3 DEF Reached, Blocking, Covering
    <3>2. PartsRight(F, BB, CC, raise2, free2, parts)
      BY <3>1, EssenParts
    <3> HIDE DEF parts
    <3> QED BY <1>1, <1>2, <1>3, <3>2 DEF PartsRight, Cubes
  <2> QED BY <1>2, <1>3, <1>4, <2>1, <2>2, StaysExpanding
<1>6. CASE ~ Touched(BB, raise2)
  <2>1. pc' = "raise"
    BY <1>6
  <2>2. MayRaise(BB, RAISE, FREESET, raise2, free2) /\ MayDecide(CC, raise2, {}, {})
    BY <1>3, <1>6 DEF MayRaise, MayDecide
  <2> HIDE DEF raise2, free2
  <2>3. Raised2(raise2, {}, FREESET, parts)
    BY <1>1, <2>2, RaiseParts
  <2> HIDE DEF parts
  <2>4. /\ Blocking(parts.BB, raise2, parts.FREESET) /\ Covering(parts.CC, raise2, parts.FREESET, {})
        /\ parts.FREESET \subseteq FREESET
    BY <2>3 DEF Raised2
  <2>5. FREESET' \in Cubes
    BY <1>1, <1>2, <2>4 DEF Cubes
  <2> QED BY <1>2, <1>3, <1>4, <2>1, <2>4, <2>5, StaysExpanding
<1> QED BY <1>5, <1>6

(* There is a free part when cubes are left to be covered, for they are    *)
(* reached and not covered, and when cubes are left that block, for they   *)
(* are reached and not met.                                                *)
LEMMA FreePart ==
  ASSUME IInv, pc = "raise", CC # {} \/ BB # {} PROVE FREESET # {}
<1> SUFFICES ASSUME FREESET = {} PROVE FALSE
  OBVIOUS
<1>1. Blocking(BB, RAISE, FREESET) /\ Covering(CC, RAISE, FREESET, {})
  BY DEF IInv, ExpansionInv, Undecided
<1>2. CASE CC # {}
  <2>1. PICK j \in CC : TRUE
    BY <1>2
  <2>2. F[j].set \subseteq RAISE /\ ~ Clear(RAISE \cup F[j].set)
    BY <1>1, <2>1 DEF Covering
  <2>3. RAISE \cup F[j].set = RAISE
    BY <2>2
  <2> QED BY <1>1, <2>2, <2>3 DEF Blocking
<1>3. CASE BB # {}
  <2>1. PICK b \in BB : TRUE
    BY <1>3
  <2>2. b \in DOMAIN R /\ cdist0(R[b], RAISE \cup FREESET)
    BY <1>1, <2>1 DEF Blocking
  <2>3. RAISE \cup FREESET = RAISE
    OBVIOUS
  <2> QED BY <1>1, <2>2, <2>3 DEF Blocking, Clear
<1> QED BY <1>2, <1>3

(* RaiseFrequent keeps the invariant.                                      *)
LEMMA RaiseStep ==
  ASSUME IInv, RaiseFrequent \/ HeuristicMincov PROVE IInv'
<1>1. pc = "raise" /\ (CC # {} \/ BB # {})
  BY DEF RaiseFrequent, HeuristicMincov
<1>2. FREESET # {} /\ FREESET \in Cubes /\ F \in Seq(CubeRecords) /\ CC \subseteq DOMAIN F
  BY <1>1, FreePart DEF IInv, TypesInv, ExpansionInv, Covering
<1>3. CASE RaiseFrequent
  <2>1. most_frequent(F, CC, FREESET) \in FREESET
    BY <1>2, MostFrequent
  <2> QED BY <1>1, <1>3, <2>1, RaisePartStep DEF RaiseFrequent
<1>4. CASE HeuristicMincov
  <2>1. most_frequent(F, {}, FREESET) \in FREESET
    BY <1>2, MostFrequent
  <2> QED BY <1>1, <1>4, <2>1, RaisePartStep DEF HeuristicMincov
<1> QED BY <1>3, <1>4

(* Mincov and HeuristicMincov keep the invariant.                          *)
LEMMA MincovStep ==
  ASSUME IInv, FullInv, Mincov PROVE IInv'
<1> DEFINE xlower == do_sm_minimum_cover(BlockingSets, TRUE)
<1>1. /\ pc = "raise" /\ CC = {} /\ BB' = {} /\ FREESET' = {} /\ CC' = {}
      /\ RAISE' = RAISE \cup (FREESET \ xlower.row)
      /\ pc' = IF xlower = NIL THEN "fatal" ELSE "raise"
      /\ UNCHANGED <<main, call, F, i>> /\ covered' = covered
  BY DEF Mincov
<1> HIDE DEF xlower
<1>2. /\ in \in Inputs /\ RAISE \in Cubes /\ FREESET \in Cubes /\ Full(RAISE)
      /\ Blocking(BB, RAISE, FREESET)
  BY <1>1 DEF IInv, TypesInv, ExpansionInv, FullInv
<1>3. RAISE' \in Cubes /\ FREESET' \in Cubes
  BY <1>1, <1>2 DEF Cubes
<1>4. CASE xlower = NIL
  BY <1>1, <1>3, <1>4, StaysExpanding
<1>5. CASE xlower # NIL
  <2>1. \A b \in BB : ~ cdist0(R[b], RAISE')
    BY <1>1, <1>2, <1>5, MincovClear DEF Blocking, xlower
  <2>2. \A r \in DOMAIN R : r \notin BB => ~ cdist0(R[r], RAISE')
    <3>1. RAISE' \subseteq RAISE \cup FREESET
      BY <1>1
    <3> QED BY <1>2, <3>1, DistanceMonotone DEF Blocking
  <2>3. RAISE' \cup FREESET' = RAISE'
    BY <1>1
  <2>4. Blocking(BB', RAISE', FREESET')
    BY <1>1, <2>1, <2>2, <2>3 DEF Blocking, Clear
  <2>5. Covering(CC', RAISE', FREESET', {})
    BY <1>1 DEF Covering
  <2>6. pc' = "raise"
    BY <1>1, <1>5
  <2> QED BY <1>1, <1>3, <2>4, <2>5, <2>6, StaysExpanding
<1> QED BY <1>4, <1>5

(* select_feasible: a best cube among the feasible ones.                   *)
LEMMA BestFeasibleFacts ==
  ASSUME F \in Seq(CubeRecords), Feasible # {}, feas \cap CC \subseteq DOMAIN F, FREESET \in Cubes
  PROVE  BestFeasible \in Feasible
<1> DEFINE seen(j) == Cardinality({k \in Feasible : new_lower(BB, F[j].set, Raised) \cap F[k].set = {}})
           sights  == {seen(j) : j \in Feasible}
           better(j, k) == \/ Lookahead(j) > Lookahead(k)
                           \/ /\ Lookahead(j) = Lookahead(k)
                              /\ NewParts(j) < NewParts(k) \/ (NewParts(j) = NewParts(k) /\ j <= k)
<1>1. DOMAIN F = 1 .. Len(F) /\ Len(F) \in Nat /\ Feasible \in SUBSET DOMAIN F
  BY DEF Feasible
<1>2. IsFiniteSet(Feasible) /\ Cardinality(Feasible) \in Nat /\ Feasible \subseteq Nat
  BY <1>1, PositionsFinite, FS_Subset, FS_CardinalityType
<1>3. \A j \in Feasible : Lookahead(j) \in 0 .. Cardinality(Feasible)
  <2> SUFFICES ASSUME NEW j \in Feasible PROVE Lookahead(j) \in 0 .. Cardinality(Feasible)
    OBVIOUS
  <2> DEFINE left == {k \in Feasible : new_lower(BB, F[j].set, Raised) \cap F[k].set = {}}
  <2>1. left \in SUBSET Feasible
    OBVIOUS
  <2>2. IsFiniteSet(left) /\ Cardinality(left) <= Cardinality(Feasible) /\ Cardinality(left) \in Nat
    BY <1>2, <2>1, FS_Subset, FS_CardinalityType
  <2>3. Lookahead(j) = Cardinality(left)
    BY DEF Lookahead
  <2> QED BY <1>2, <2>2, <2>3
<1>4. \A j \in Feasible : NewParts(j) \in Nat
  <2> SUFFICES ASSUME NEW j \in Feasible PROVE NewParts(j) \in Nat
    OBVIOUS
  <2>1. F[j].set \cap (FREESET \ Raised) \in Cubes
    BY DEF Cubes
  <2> QED BY <2>1, PartsFinite, FS_CardinalityType DEF NewParts, set_dist
<1> DEFINE looks == {Lookahead(j) : j \in Feasible}
<1>5. PICK l \in looks : \A k \in looks : k <= l
  <2>1. looks \in SUBSET (0 .. Cardinality(Feasible)) /\ looks # {}
    BY <1>3
  <2> HIDE DEF looks
  <2> QED BY <1>2, <2>1, GreatestNat
<1> DEFINE first == {j \in Feasible : Lookahead(j) = l}
           news  == {NewParts(j) : j \in first}
<1>6. PICK n \in news : \A k \in news : n <= k
  <2>1. news \in SUBSET Nat /\ news # {}
    BY <1>4, <1>5
  <2> HIDE DEF news
  <2> QED BY <2>1, LeastNat
<1> DEFINE second == {j \in first : NewParts(j) = n}
<1>7. PICK j \in second : \A k \in second : j <= k
  <2>1. second \in SUBSET Nat /\ second # {}
    BY <1>2, <1>6
  <2> HIDE DEF second
  <2> QED BY <2>1, LeastNat
<1>8. ASSUME NEW k \in Feasible PROVE better(j, k)
  <2>1. j \in Feasible /\ Lookahead(j) = l /\ NewParts(j) = n
    BY <1>7
  <2>2. Lookahead(k) <= l /\ Lookahead(k) \in Int /\ l \in Int
    BY <1>3, <1>5, <2>1
  <2>3. Lookahead(k) = l => n <= NewParts(k) /\ NewParts(k) \in Int /\ n \in Int
    BY <1>4, <1>6, <2>1
  <2>4. Lookahead(k) = l /\ NewParts(k) = n => j <= k
    BY <1>7
  <2> QED BY <2>1, <2>2, <2>3, <2>4
<1>9. BestFeasible = CHOOSE j1 \in Feasible : \A k \in Feasible : better(j1, k)
  BY DEF BestFeasible
<1>10. j \in Feasible
  BY <1>7
<1> HIDE DEF better, first, second
<1> QED BY <1>8, <1>9, <1>10

(* What select_feasible may raise, and what it has decided.                *)
LEMMA FeasibleFacts ==
  ASSUME IInv, pc = "feasible"
  PROVE  /\ RAISE \in Cubes /\ FREESET \in Cubes /\ F \in Seq(CubeRecords)
         /\ Blocking(BB, RAISE, FREESET) /\ Covering(CC, RAISE, FREESET, feas)
         /\ RAISE \subseteq Raised /\ Raised \subseteq RAISE \cup FREESET /\ Raised \in Cubes
         /\ \A c : Raised \subseteq c => MayDecide(CC \ NowCovered, c, feas, Feasible)
<1>1. /\ RAISE \in Cubes /\ FREESET \in Cubes /\ F \in Seq(CubeRecords)
      /\ Blocking(BB, RAISE, FREESET) /\ Covering(CC, RAISE, FREESET, feas)
  BY DEF IInv, TypesInv, ExpansionInv, Undecided
<1>2. RAISE \subseteq Raised /\ Raised \subseteq RAISE \cup FREESET /\ Raised \in Cubes
  BY <1>1 DEF Raised, essen_raising, Cubes
<1>3. ASSUME NEW c, Raised \subseteq c, NEW j \in CC \ NowCovered, j \notin Feasible, j \in feas
      PROVE  ~ Clear(c \cup F[j].set)
  <2>1. Touched(BB, Raised \cup F[j].set)
    BY <1>3 DEF Feasible, feasibly_covered
  <2>2. ~ Clear(Raised \cup F[j].set)
    BY <1>1, <2>1, TouchedFacts DEF Clear, Blocking
  <2>3. Raised \cup F[j].set \subseteq c \cup F[j].set
    BY <1>3
  <2> QED BY <2>2, <2>3, ClearMonotone
<1> QED BY <1>1, <1>2, <1>3 DEF MayDecide

(* SelectFeasible keeps the invariant.                                     *)
LEMMA SelectStep ==
  ASSUME IInv, SelectFeasible PROVE IInv'
<1> DEFINE best   == BestFeasible
           raise2 == Raised \cup F[best].set
           C      == CC \ NowCovered
           free2  == FREESET \ raise2
           parts  == essen_parts(F, BB, C, raise2, free2)
<1>1. pc = "feasible" /\ Feasible # {}
  BY DEF SelectFeasible
<1>2. RAISE' = raise2 /\ feas' = Feasible /\ covered \subseteq covered' /\ UNCHANGED <<main, call, F, i>>
  BY DEF SelectFeasible
<1>3. pc' = IF Touched(BB, raise2) THEN "fatal" ELSE "feasible"
  BY <1>2 DEF SelectFeasible
<1>4. BB' = parts.BB /\ CC' = parts.CC /\ FREESET' = parts.FREESET
  BY <1>2 DEF SelectFeasible
<1>5. best \in Feasible
  BY <1>1, FeasibleFacts, BestFeasibleFacts DEF Covering
<1>6. best \in CC /\ ~ Touched(BB, raise2)
  BY <1>5 DEF Feasible, feasibly_covered
<1> HIDE DEF best
<1>7. F[best].set \subseteq RAISE \cup FREESET
  BY <1>1, <1>6, FeasibleFacts DEF Covering
<1>8. raise2 \in Cubes /\ raise2 \subseteq RAISE \cup FREESET /\ RAISE \subseteq raise2
  BY <1>1, <1>7, FeasibleFacts DEF Cubes
<1>9. MayRaise(BB, RAISE, FREESET, raise2, free2)
  BY <1>6, <1>8 DEF MayRaise
<1>10. MayDecide(C, raise2, feas, Feasible) /\ C \subseteq CC
  BY <1>1, FeasibleFacts
<1> HIDE DEF raise2, free2, C
<1>11. Raised2(raise2, Feasible, FREESET, parts)
  BY <1>1, <1>9, <1>10, FeasibleFacts, RaiseParts
<1> HIDE DEF parts
<1>12. /\ Blocking(BB', RAISE', FREESET') /\ Covering(CC', RAISE', FREESET', feas')
       /\ FREESET' \in Cubes /\ RAISE' \in Cubes /\ pc' = "feasible"
  BY <1>1, <1>2, <1>3, <1>4, <1>6, <1>8, <1>11, FeasibleFacts DEF Raised2, Cubes
<1> QED BY <1>1, <1>2, <1>12, StaysExpanding

(* NoneFeasible keeps the invariant.                                       *)
LEMMA NoneStep ==
  ASSUME IInv, NoneFeasible PROVE IInv'
<1>1. /\ pc = "feasible" /\ Feasible = {} /\ RAISE' = Raised /\ FREESET' = FREESET \ Raised
      /\ CC' = CC \ NowCovered /\ BB' = BB /\ covered \subseteq covered' /\ pc' = "raise"
      /\ UNCHANGED <<main, call, F, i>>
  BY DEF NoneFeasible
<1>2. RAISE' \in Cubes /\ FREESET' \in Cubes /\ RAISE' \cup FREESET' = RAISE \cup FREESET
  BY <1>1, FeasibleFacts DEF Cubes
<1>3. Blocking(BB, RAISE, FREESET)
  BY <1>1, FeasibleFacts
<1>4. Clear(Raised)
  <2>1. \A b \in BB : ~ cdist0(R[b], RAISE)
    BY <1>3 DEF Blocking, Clear
  <2>2. \A b \in BB : ~ cdist0(R[b], Raised)
    BY <2>1, EssenRaising DEF Raised
  <2>3. \A r \in DOMAIN R : r \notin BB => ~ cdist0(R[r], Raised)
    BY <1>1, <1>3, FeasibleFacts, DistanceMonotone DEF Blocking
  <2> QED BY <2>2, <2>3 DEF Clear
<1>5. Blocking(BB', RAISE', FREESET')
  BY <1>1, <1>2, <1>3, <1>4 DEF Blocking
<1>6. Covering(CC', RAISE', FREESET', {})
  <2>1. Covering(CC, RAISE, FREESET, feas) /\ MayDecide(CC \ NowCovered, Raised, feas, {})
    BY <1>1, FeasibleFacts
  <2>2. \A j \in CC \ NowCovered : j \notin feas => ~ Clear(Raised \cup F[j].set)
    <3> SUFFICES ASSUME NEW j \in CC \ NowCovered, j \notin feas PROVE ~ Clear(Raised \cup F[j].set)
      OBVIOUS
    <3>1. ~ Clear(RAISE \cup F[j].set)
      BY <2>1 DEF Covering
    <3>2. RAISE \cup F[j].set \subseteq Raised \cup F[j].set
      BY <1>1, FeasibleFacts
    <3> QED BY <3>1, <3>2, ClearMonotone
  <2> QED BY <1>1, <1>2, <2>1, <2>2 DEF Covering, MayDecide
<1> QED BY <1>1, <1>2, <1>5, <1>6, StaysExpanding

(* expand1 at its start: the cubes of R that the free parts reach block.   *)
LEMMA OpenedFacts ==
  ASSUME TypesInv, i \in DOMAIN F
  PROVE  /\ Opened.BB \subseteq DOMAIN R /\ Opened.CC \subseteq DOMAIN F /\ Opened.FREESET \in Cubes
         /\ \A r \in DOMAIN R : r \in Opened.BB <=> cdist0(R[r], F[i].set \cup Opened.FREESET)
         /\ \A j \in Opened.CC : F[j].set \subseteq F[i].set \cup Opened.FREESET
<1> DEFINE c    == F[i].set
           C    == {j \in DOMAIN F \ {i} : ~ Skipped(j)}
           free == (Parts \ c) \ InVars({v \in Vars : sparse[v]})
<1>1. c \in Cubes /\ \A j \in DOMAIN F : F[j].set \in Cubes
  BY SetsFacts DEF TypesInv
<1>2. CASE call = "sparse"
  <2>1. Opened = [BB |-> elim_BB(DOMAIN R, c \cup free), CC |-> elim_CC(F, C, c \cup free), FREESET |-> free]
    BY <1>2 DEF Opened
  <2>2. free \in Cubes
    BY DEF Cubes
  <2> HIDE DEF free
  <2> QED BY <2>1, <2>2 DEF elim_BB, elim_CC
<1>3. CASE call # "sparse"
  <2>1. Opened = [BB |-> DOMAIN R, CC |-> C, FREESET |-> Parts \ c]
    BY <1>3 DEF Opened
  <2>2. c \cup (Parts \ c) = Parts /\ Parts \ c \in Cubes
    BY <1>1 DEF Cubes
  <2>3. \A r \in DOMAIN R : cdist0(R[r], Parts)
    BY OffsetFacts DEF TypesInv
  <2>4. \A j \in C : F[j].set \subseteq Parts
    BY <1>1 DEF Cubes
  <2> QED BY <2>1, <2>2, <2>3, <2>4
<1> QED BY <1>2, <1>3

(* OpenCube keeps the invariant.                                           *)
LEMMA OpenStep ==
  ASSUME IInv, OpenCube PROVE IInv'
<1> DEFINE c     == F[i].set
           parts == essen_parts(F, Opened.BB, Opened.CC, c, Opened.FREESET)
<1>1. /\ TypesInv /\ pc = "next" /\ i <= Len(F) /\ F \in Seq(CubeRecords)
      /\ F' = [F EXCEPT ![i].PRIME = TRUE] /\ RAISE' = c /\ i' = i /\ call' = call /\ covered' = covered
      /\ UNCHANGED main
  BY DEF OpenCube, IInv, TypesInv
<1>2. /\ BB' = parts.BB /\ CC' = parts.CC /\ FREESET' = parts.FREESET /\ feas' = parts.CC
      /\ pc' = IF Touched(Opened.BB, c) THEN "fatal"
               ELSE IF parts.CC = {} THEN "raise" ELSE "feasible"
  BY DEF OpenCube
<1>3. i \in DOMAIN F /\ DOMAIN F = 1 .. Len(F)
  BY <1>1 DEF TypesInv
<1>4. c \in Cubes /\ \A j \in DOMAIN F : F[j] \in CubeRecords
  BY <1>1, <1>3, SetsFacts
<1>5. /\ F' \in Seq(CubeRecords) /\ DOMAIN F' = DOMAIN F /\ F'[i].PRIME
      /\ \A j \in DOMAIN F : F'[j].set = F[j].set /\ (F[j].PRIME => F'[j].PRIME)
  <2> DEFINE rec == [F[i] EXCEPT !.PRIME = TRUE]
  <2>1. rec \in CubeRecords /\ rec.set = F[i].set /\ rec.PRIME
    BY <1>3, <1>4 DEF CubeRecords
  <2>2. F' = [F EXCEPT ![i] = rec]
    BY <1>1, <1>3
  <2> HIDE DEF rec
  <2>3. F' \in Seq(CubeRecords) /\ DOMAIN F' = DOMAIN F
    <3>1. F \in Seq(CubeRecords) /\ i \in 1 .. Len(F)
      BY <1>1, <1>3
    <3>2. [F EXCEPT ![i] = rec] \in Seq(CubeRecords)
      BY <2>1, <3>1, ExceptSeq
    <3> QED BY <2>2, <3>2
  <2>4. \A j \in DOMAIN F : F'[j] = IF j = i THEN rec ELSE F[j]
    BY <1>1, <1>3, <2>2
  <2> QED BY <1>3, <2>1, <2>3, <2>4
<1>6. Reached(F, Opened.BB, Opened.CC, c \cup Opened.FREESET)
  BY <1>1, <1>3, OpenedFacts DEF Reached
<1>7. PartsRight(F, Opened.BB, Opened.CC, c, Opened.FREESET, parts)
  BY <1>6, EssenParts
<1>8. FREESET' \in Cubes /\ RAISE' \in Cubes
  <2> HIDE DEF parts
  <2> QED BY <1>1, <1>2, <1>3, <1>4, <1>7, OpenedFacts DEF PartsRight, Cubes
<1>9. TypesInv'
  BY <1>1, <1>5, <1>8 DEF TypesInv, main
<1>10. GaspInv'
  BY <1>2 DEF GaspInv
<1>11. PassedInv'
  BY <1>1, <1>5 DEF IInv, PassedInv
<1>12. CASE Touched(Opened.BB, c)
  <2>1. pc' = "fatal"
    BY <1>2, <1>12
  <2> QED BY <1>9, <1>10, <1>11, <2>1 DEF IInv, ExpansionInv, Orthogonal
<1>13. CASE ~ Touched(Opened.BB, c)
  <2>1. Clear(c)
    <3>1. \A r \in DOMAIN R : r \notin Opened.BB => ~ cdist0(R[r], c)
      BY <1>1, <1>3, OpenedFacts, DistanceMonotone
    <3> QED BY <1>13, <3>1, TouchedFacts DEF Clear
  <2>2. Blocking(Opened.BB, c, Opened.FREESET) /\ Covering(Opened.CC, c, Opened.FREESET, Opened.CC)
    BY <1>1, <1>3, <2>1, OpenedFacts DEF Blocking, Covering
  <2>3. MayRaise(Opened.BB, c, Opened.FREESET, c, Opened.FREESET) /\ MayDecide(Opened.CC, c, Opened.CC, Opened.CC)
    BY <1>13 DEF MayRaise, MayDecide
  <2> HIDE DEF c
  <2>4. Raised2(c, Opened.CC, Opened.FREESET, parts)
    BY <2>2, <2>3, RaiseParts
  <2> HIDE DEF parts
  <2>5. Blocking(BB', RAISE', FREESET') /\ Covering(CC', RAISE', FREESET', CC')
    BY <1>1, <1>2, <2>4 DEF Raised2, Covering
  <2>6. CC' = {} => Covering(CC', RAISE', FREESET', {})
    BY <2>5
  <2>7. ExpansionInv'
    BY <1>1, <1>2, <1>3, <1>5, <2>5, <2>6
       DEF ExpansionInv, Blocking, Covering, Undecided, Clear, R, main
  <2>8. Orthogonal'
    <3>1. AllClear(E) /\ AllClear(Foriginal)
      BY <1>1, Settled
    <3>2. \A j \in DOMAIN F : Clear(F[j].set) \/ (call = "gasp" /\ ~ F[j].PRIME)
      BY <1>1 DEF IInv, Orthogonal, Candidate
    <3>3. \A j \in DOMAIN F' : Clear(F'[j].set) \/ (call' = "gasp" /\ ~ F'[j].PRIME)
      <4> SUFFICES ASSUME NEW j \in DOMAIN F'
                   PROVE  Clear(F'[j].set) \/ (call' = "gasp" /\ ~ F'[j].PRIME)
        OBVIOUS
      <4>1. CASE j = i
        BY <1>3, <1>5, <2>1, <4>1 DEF c
      <4>2. CASE j # i
        <5>1. F'[j] = F[j]
          BY <1>1, <1>5, <4>2
        <5> QED BY <1>1, <1>5, <3>2, <5>1
      <4> QED BY <4>1, <4>2
    <3>4. Clear(RAISE')
      BY <2>5 DEF Blocking
    <3>5. pc' \in {"feasible", "raise"} /\ in' = in /\ E' = E /\ Foriginal' = Foriginal
      BY <1>1, <1>2, <1>13 DEF c, main
    <3> QED BY <3>1, <3>3, <3>4, <3>5 DEF Orthogonal, Candidate, AllClear, Clear, R
  <2> QED BY <1>9, <1>10, <1>11, <2>7, <2>8 DEF IInv
<1> QED BY <1>12, <1>13

(* Expand keeps the invariant.                                             *)
LEMMA ExpandStep ==
  ASSUME IInv, Expand PROVE IInv'
<1> DEFINE sorted == mini_sort(F, ascend)
<1>1. /\ TypesInv /\ pc = "expand" /\ F' = Unmarked(sorted) /\ i' = 1 /\ pc' = "next"
      /\ call' = call /\ RAISE' = RAISE /\ FREESET' = FREESET /\ UNCHANGED main
  BY DEF Expand, IInv
<1>2. sorted \in Seq(CubeRecords) /\ From(sorted, F)
  BY <1>1, MiniSort DEF TypesInv
<1> HIDE DEF sorted
<1>3. DOMAIN sorted = 1 .. Len(sorted) /\ Len(sorted) \in Nat /\ \A j \in DOMAIN sorted : sorted[j] \in CubeRecords
  BY <1>2
<1> DEFINE rec(j) == [sorted[j] EXCEPT !.NONESSEN = FALSE]
<1>4. \A j \in DOMAIN sorted : rec(j) \in CubeRecords /\ rec(j).set = sorted[j].set /\ rec(j).PRIME = sorted[j].PRIME
  BY <1>3 DEF CubeRecords
<1>5. F' = [j \in DOMAIN sorted |-> rec(j)]
  BY <1>1 DEF Unmarked
<1> HIDE DEF rec
<1>6. F' \in [1 .. Len(sorted) -> CubeRecords]
  BY <1>3, <1>4, <1>5
<1>7. F' \in Seq(CubeRecords)
  BY <1>3, <1>6
<1>8. Picked(F', F)
  BY <1>2, <1>4, <1>5 DEF From, Picked
<1>9. TypesInv'
  BY <1>1, <1>7 DEF TypesInv, main
<1>10. ExpansionInv' /\ GaspInv'
  BY <1>1 DEF ExpansionInv, GaspInv
<1>11. PassedInv'
  <2>1. \A j \in DOMAIN F' : ~ (j < i')
    BY <1>1, <1>3, <1>5
  <2> QED BY <2>1 DEF PassedInv
<1>12. Orthogonal'
  <2>1. AllClear(E) /\ AllClear(Foriginal)
    BY <1>1, Settled
  <2>2. \A j \in DOMAIN F : Clear(F[j].set) \/ (call = "gasp" /\ ~ F[j].PRIME)
    BY <1>1 DEF IInv, Orthogonal, Candidate
  <2>3. \A j \in DOMAIN F' : Clear(F'[j].set) \/ (call' = "gasp" /\ ~ F'[j].PRIME)
    BY <1>1, <1>8, <2>2 DEF Picked
  <2>4. pc' = "next" /\ in' = in /\ E' = E /\ Foriginal' = Foriginal
    BY <1>1 DEF main
  <2> QED BY <2>1, <2>3, <2>4 DEF Orthogonal, Candidate, AllClear, Clear, R
<1> QED BY <1>9, <1>10, <1>11, <1>12 DEF IInv

(* SkipCube keeps the invariant.                                           *)
LEMMA SkipStep ==
  ASSUME IInv, SkipCube PROVE IInv'
<1> USE DEF SkipCube, main, costs, expansion
<1>1. TypesInv /\ pc' = pc /\ pc = "next" /\ F' = F /\ covered' = covered /\ i' = i + 1 /\ F \in Seq(CubeRecords)
  BY DEF IInv, TypesInv
<1>2. TypesInv'
  BY <1>1 DEF TypesInv
<1>3. ExpansionInv' /\ GaspInv'
  BY <1>1 DEF ExpansionInv, GaspInv
<1>4. PassedInv'
  <2>1. \A j \in DOMAIN F : j < i => F[j].PRIME \/ j \in covered
    BY <1>1 DEF IInv, PassedInv
  <2>2. F[i].PRIME \/ i \in covered
    BY DEF Skipped
  <2>3. \A j \in DOMAIN F : j < i + 1 => j < i \/ j = i
    BY <1>1 DEF TypesInv
  <2> QED BY <1>1, <2>1, <2>2, <2>3 DEF PassedInv
<1>5. Orthogonal'
  BY <1>1 DEF IInv, Orthogonal, Candidate, Clear, R
<1> QED BY <1>2, <1>3, <1>4, <1>5 DEF IInv

(* CloseCube keeps the invariant.                                          *)
LEMMA CloseStep ==
  ASSUME IInv, CloseCube PROVE IInv'
<1> DEFINE raised == RAISE \cup FREESET
           weak   == num_covered = 0 /\ raised # OVEREXPANDED_CUBE
           rec    == [F[i] EXCEPT !.set = raised, !.NONESSEN = weak]
<1>1. /\ TypesInv /\ pc = "raise" /\ BB = {} /\ RAISE' = raised /\ covered' = covered \ {i}
      /\ F' = [F EXCEPT ![i].set = raised, ![i].NONESSEN = weak]
      /\ i' = i + 1 /\ pc' = "next" /\ call' = call /\ FREESET' = FREESET /\ UNCHANGED main
  BY DEF CloseCube, IInv
<1>2. /\ i \in DOMAIN F /\ F[i].PRIME /\ Blocking(BB, RAISE, FREESET) /\ F \in Seq(CubeRecords)
      /\ F[i] \in CubeRecords /\ i \in Nat /\ DOMAIN F = 1 .. Len(F)
  <2>1. i \in DOMAIN F /\ F[i].PRIME /\ Blocking(BB, RAISE, FREESET)
    BY <1>1 DEF IInv, ExpansionInv
  <2>2. F \in Seq(CubeRecords) /\ i \in Nat
    BY <1>1 DEF TypesInv
  <2>3. DOMAIN F = 1 .. Len(F)
    BY <2>2
  <2>4. F[i] \in CubeRecords
    BY <2>1, <2>2, <2>3, ElementOfSeq
  <2> QED BY <2>1, <2>2, <2>3, <2>4
<1>3. Clear(raised)
  BY <1>1, <1>2 DEF Blocking, Clear
<1>4. raised \in Cubes
  BY <1>1 DEF TypesInv, Cubes
<1>5. weak \in BOOLEAN
  <2>1. CASE weak
    BY <2>1
  <2>2. CASE ~ weak
    BY <2>2
  <2> QED BY <2>1, <2>2
<1>6. F' = [F EXCEPT ![i] = rec]
  BY <1>1, <1>2
<1> HIDE DEF raised, weak
<1>7. rec \in CubeRecords /\ rec.set = raised /\ rec.PRIME
  BY <1>2, <1>4, <1>5 DEF CubeRecords
<1> HIDE DEF rec
<1>8. F' \in Seq(CubeRecords) /\ DOMAIN F' = DOMAIN F
  <2>1. i \in 1 .. Len(F)
    BY <1>2
  <2>2. [F EXCEPT ![i] = rec] \in Seq(CubeRecords)
    BY <1>2, <1>7, <2>1, ExceptSeq
  <2> QED BY <1>6, <2>2
<1>9. \A j \in DOMAIN F : F'[j] = IF j = i THEN rec ELSE F[j]
  BY <1>2, <1>6
<1>10. TypesInv'
  BY <1>1, <1>2, <1>4, <1>8 DEF TypesInv, main
<1>11. ExpansionInv' /\ GaspInv'
  BY <1>1 DEF ExpansionInv, GaspInv
<1>12. PassedInv'
  <2>1. \A j \in DOMAIN F : j < i => F[j].PRIME \/ j \in covered
    BY <1>1 DEF IInv, PassedInv
  <2>2. ASSUME NEW j \in DOMAIN F, j < i + 1 PROVE F'[j].PRIME \/ j \in covered \ {i}
    <3>1. j < i \/ j = i
      BY <1>2, <2>2
    <3> QED BY <1>7, <1>9, <2>1, <3>1
  <2> QED BY <1>1, <1>8, <2>2 DEF PassedInv
<1>13. Orthogonal'
  <2>1. AllClear(E) /\ AllClear(Foriginal)
    BY <1>1, Settled
  <2>2. \A j \in DOMAIN F : Clear(F[j].set) \/ (call = "gasp" /\ ~ F[j].PRIME)
    BY <1>1 DEF IInv, Orthogonal, Candidate
  <2>3. \A j \in DOMAIN F' : Clear(F'[j].set) \/ (call' = "gasp" /\ ~ F'[j].PRIME)
    BY <1>1, <1>3, <1>7, <1>8, <1>9, <2>2
  <2>4. pc' = "next" /\ in' = in /\ E' = E /\ Foriginal' = Foriginal
    BY <1>1 DEF main
  <2> QED BY <2>1, <2>3, <2>4 DEF Orthogonal, Candidate, AllClear, Clear, R
<1> QED BY <1>10, <1>11, <1>12, <1>13 DEF IInv

(* What stays after an expansion is prime, hence no candidate any more.    *)
LEMMA DropStep ==
  ASSUME IInv, DropCovered PROVE IInv'
<1> USE DEF DropCovered, main, costs, expansion
<1>1. /\ TypesInv /\ pc = "next" /\ i > Len(F) /\ in' = in /\ pc' = "expanded" /\ F \in Seq(CubeRecords)
      /\ F' = Keep(F, DOMAIN F \ covered) /\ AllClear(E') /\ AllClear(Foriginal')
  BY Settled DEF IInv, TypesInv
<1>2. /\ F' \in Seq(CubeRecords)
      /\ \A k \in DOMAIN F' : \E j \in DOMAIN F \ covered : F'[k] = F[j]
  <2> DEFINE kept == DOMAIN F \ covered
  <2>1. kept \in SUBSET DOMAIN F
    OBVIOUS
  <2> HIDE DEF kept
  <2>2. Keep(F, kept) \in Seq(CubeRecords) /\ \A k \in DOMAIN Keep(F, kept) : \E j \in kept : Keep(F, kept)[k] = F[j]
    BY <1>1, <2>1, KeepFacts
  <2> QED BY <1>1, <2>2 DEF kept
<1>3. \A j \in DOMAIN F \ covered : F[j].PRIME
  <2>1. \A j \in DOMAIN F : j < i
    BY <1>1 DEF TypesInv
  <2> QED BY <1>1, <2>1 DEF IInv, PassedInv
<1>4. \A j \in DOMAIN F \ covered : Clear(F[j].set)
  BY <1>1, <1>3 DEF IInv, Orthogonal, Candidate
<1>5. AllClear(F')
  BY <1>2, <1>4 DEF AllClear
<1>6. TypesInv'
  BY <1>1, <1>2 DEF TypesInv
<1> QED BY <1>1, <1>5, <1>6, StaysSettled

(***************************************************************************)
(* The theorems.                                                           *)
(***************************************************************************)
LEMMA InitIInv == Init => IInv
<1> SUFFICES ASSUME Init PROVE IInv
  OBVIOUS
<1> USE DEF Init
<1>1. TypesInv
  BY DEF TypesInv, Cubes
<1>2. Orthogonal
  BY DEF Orthogonal
<1> QED BY <1>1, <1>2 DEF IInv, ExpansionInv, PassedInv, GaspInv

(* Every step keeps the invariant, as long as cubes stay full.             *)
LEMMA NextIInv == IInv /\ FullInv /\ [Next]_vars => IInv'
<1> SUFFICES ASSUME IInv, FullInv, [Next]_vars PROVE IInv'
  OBVIOUS
<1>1. CASE UNCHANGED vars
  BY <1>1 DEF vars, main, costs, expansion, IInv, TypesInv, ExpansionInv, PassedInv, GaspInv,
     Blocking, Covering, Undecided, Orthogonal, Candidate, Clear, R
<1>2. CASE Next
  <2>1. CASE ~ Done
    BY <1>2, <2>1, BeginStep, ExpandStep, SkipStep, OpenStep, SelectStep, NoneStep, RaiseStep, MincovStep,
       CloseStep, DropStep, IrredundantStep, EssentialStep, ReduceStep, GaspStep, ExpandGaspStep,
       ExpandGaspEndStep, IrredGaspStep, SuperGaspStep, MvReducePartStep, SparseStep, CompareStep
       DEF Next
  <2>2. CASE Done
    BY <1>1, <2>2 DEF Done
  <2> QED BY <2>1, <2>2
<1> QED BY <1>1, <1>2

(* Raising a cube leaves it full.                                          *)
LEMMA FullMonotone ==
  ASSUME NEW c, NEW d, c \subseteq d, Full(c) PROVE Full(d)
BY DEF Full

(* The cubes picked from a full cover are full.                            *)
LEMMA PickedFull ==
  ASSUME NEW A, NEW B, Picked(B, A), AllFull(A) PROVE AllFull(B)
BY DEF Picked, AllFull

(* Two full covers joined are full.                                        *)
LEMMA ConcatFull ==
  ASSUME NEW A \in Seq(CubeRecords), NEW B \in Seq(CubeRecords), AllFull(A), AllFull(B)
  PROVE  A \o B \in Seq(CubeRecords) /\ AllFull(A \o B)
BY DEF AllFull

(* A piece of a cube has a part in every variable that the cube has one in.*)
LEMMA PieceWhole ==
  ASSUME NEW c, NEW V, V \subseteq Vars, NEW u \in Unravelled(c, V), NEW v \in Vars,
         c \cap var_mask[v] # {}
  PROVE  u \cap var_mask[v] # {}
<1> DEFINE split   == {w \in V : set_dist(c, var_mask[w]) > 1}
           choices == {f \in [split -> c] : \A w \in split : f[w] \in var_mask[w]}
<1>1. PICK f \in choices : u = (c \ InVars(split)) \cup {f[w] : w \in split}
  BY DEF Unravelled
<1>2. \A w \in split : f[w] \in var_mask[w] /\ f[w] \in u
  BY <1>1
<1>3. split \subseteq Vars
  OBVIOUS
<1> HIDE DEF split
<1>4. CASE v \in split
  BY <1>2, <1>4
<1>5. CASE v \notin split
  <2>1. PICK q : q \in c \cap var_mask[v]
    OBVIOUS
  <2>2. q \notin InVars(split)
    <3>1. SUFFICES ASSUME NEW w \in split, q \in var_mask[w] PROVE FALSE
      BY DEF InVars
    <3>2. v = w
      BY <1>3, <2>1, <3>1, OneVariable
    <3> QED BY <1>5, <3>2
  <2> QED BY <1>1, <2>1, <2>2
<1> QED BY <1>4, <1>5

(* Cubes that are full stay so when they enter a cover.                    *)
LEMMA UnwrappedFull ==
  ASSUME NEW A \in Seq(Cubes), \A j \in DOMAIN A : Full(A[j])
  PROVE  \A k \in DOMAIN Unwrapped(A) : Full(Unwrapped(A)[k])
<1> DEFINE U == unravel(A, output)
<1>1. U \in Seq(Cubes) /\ \A k \in DOMAIN U : \E j \in DOMAIN A : U[k] \in Unravelled(A[j], output .. num_vars - 1)
  BY UnravelFacts
<1>2. output .. num_vars - 1 \subseteq Vars /\ 0 .. num_binary_vars - 1 \subseteq Vars
  BY CubeAssumption DEF output, Vars
<1> HIDE DEF U
<1>3. \A k \in DOMAIN U : Full(U[k])
  <2> SUFFICES ASSUME NEW k \in DOMAIN U, NEW v \in 0 .. num_binary_vars - 1
               PROVE  U[k] \cap var_mask[v] # {}
    BY DEF Full
  <2>1. PICK j \in DOMAIN A : U[k] \in Unravelled(A[j], output .. num_vars - 1)
    BY <1>1
  <2>2. A[j] \cap var_mask[v] # {} /\ v \in Vars
    BY <1>2 DEF Full
  <2> QED BY <1>2, <2>1, <2>2, PieceWhole
<1>4. sf_contain(U) \in Seq(Cubes) /\ From(sf_contain(U), U)
  BY <1>1, ContainFacts
<1>5. Unwrapped(A) = sf_contain(U) \/ Unwrapped(A) = A
  BY DEF Unwrapped, U
<1> QED BY <1>3, <1>4, <1>5 DEF From

(* What reduction leaves of a full cube is full or nothing.                *)
LEMMA ReductionFull ==
  ASSUME NEW A \in Seq(Cubes), NEW dc \in Seq(Cubes), NEW j \in DOMAIN A, Full(A[j])
  PROVE  Reduction(A, dc, j) = {} \/ Full(Reduction(A, dc, j))
<1>1. Without(A, j) \in Seq(Cubes) /\ A[j] \in Cubes
  BY KeepFrom DEF Without
<1>2. \A v \in Binary : A[j] \cap var_mask[v] # {}
  BY DEF Full, Binary
<1>3. reduce_cube(cube2list(Without(A, j), dc), A[j]) = {}
      \/ \A v \in Binary : reduce_cube(cube2list(Without(A, j), dc), A[j]) \cap var_mask[v] # {}
  BY <1>1, <1>2, ReduceCubeFacts
<1> QED BY <1>3 DEF Reduction, Full, Binary

(***************************************************************************)
(* Every step keeps the cubes full.                                        *)
(***************************************************************************)
LEMMA ExpandFull ==
  ASSUME IInv, FullInv, Expand \/ SkipCube \/ OpenCube PROVE FullInv'
<1> USE DEF Expand, SkipCube, OpenCube, main, costs, expansion
<1>1. /\ F \in Seq(CubeRecords) /\ AllFull(F) /\ AllFull(E') /\ AllFull(Foriginal')
      /\ \A k \in DOMAIN G' : Full(G'[k])
  BY DEF IInv, TypesInv, FullInv
<1>2. D' \in Seq(Cubes) /\ pc' \notin {"mv_reduce", "reducing"}
  BY DEF FullInv
<1>3. CASE Expand
  <2>1. mini_sort(F, ascend) \in Seq(CubeRecords) /\ From(mini_sort(F, ascend), F)
    BY <1>1, MiniSort
  <2>2. DOMAIN F' = DOMAIN mini_sort(F, ascend)
        /\ \A j \in DOMAIN F' : F'[j].set = mini_sort(F, ascend)[j].set
    <3>1. \A j \in DOMAIN mini_sort(F, ascend) : mini_sort(F, ascend)[j] \in CubeRecords
      BY <2>1
    <3> QED BY <1>3, <3>1 DEF Unmarked, CubeRecords
  <2>3. AllFull(mini_sort(F, ascend))
    BY <1>1, <2>1, FromPicked, PickedFull
  <2>4. AllFull(F')
    BY <2>2, <2>3 DEF AllFull
  <2> QED BY <1>1, <1>2, <1>3, <2>4 DEF FullInv
<1>4. CASE SkipCube
  BY <1>1, <1>2, <1>4 DEF FullInv
<1>5. CASE OpenCube
  <2>1. i \in DOMAIN F
    BY <1>1, <1>5 DEF IInv, TypesInv
  <2>2. Full(RAISE') /\ AllFull(F')
    <3>1. \A j \in DOMAIN F : F[j] \in CubeRecords
      BY <1>1
    <3>2. DOMAIN F' = DOMAIN F /\ \A j \in DOMAIN F : F'[j].set = F[j].set
      BY <1>5, <2>1, <3>1 DEF CubeRecords
    <3> QED BY <1>1, <1>5, <2>1, <3>2 DEF AllFull
  <2> QED BY <1>1, <1>2, <1>5, <2>2 DEF FullInv
<1> QED BY <1>3, <1>4, <1>5

(* Raising RAISE leaves everything full.                                   *)
LEMMA GrowFull ==
  ASSUME IInv, FullInv, RAISE \subseteq RAISE', F' = F, UNCHANGED main,
         pc \in {"feasible", "raise"}, pc' \in {"feasible", "raise", "fatal"}
  PROVE FullInv'
<1> USE DEF main
<1>1. /\ F' = F /\ AllFull(F') /\ AllFull(E') /\ AllFull(Foriginal')
      /\ \A k \in DOMAIN G' : Full(G'[k])
  BY DEF FullInv
<1>2. D' \in Seq(Cubes) /\ pc' \notin {"mv_reduce", "reducing"} /\ Full(RAISE)
  BY DEF FullInv
<1>3. Full(RAISE')
  BY <1>2, FullMonotone
<1> QED BY <1>1, <1>2, <1>3 DEF FullInv

(* Every step that raises the cube being expanded leaves everything full.  *)
LEMMA RaisingFull ==
  ASSUME IInv, FullInv, SelectFeasible \/ NoneFeasible \/ RaiseFrequent \/ Mincov \/ HeuristicMincov
  PROVE  FullInv'
<1>1. CASE SelectFeasible \/ NoneFeasible
  <2>1. RAISE \subseteq Raised
    BY DEF Raised
  <2> QED BY <1>1, <2>1, GrowFull DEF SelectFeasible, NoneFeasible
<1>2. CASE RaiseFrequent \/ Mincov \/ HeuristicMincov
  BY <1>2, GrowFull DEF RaiseFrequent, Mincov, HeuristicMincov, RaisePart
<1> QED BY <1>1, <1>2

(* The end of an expansion leaves everything full.                         *)
LEMMA CloseFull ==
  ASSUME IInv, FullInv, CloseCube \/ DropCovered PROVE FullInv'
<1> USE DEF CloseCube, DropCovered, main, costs, expansion
<1>1. /\ F \in Seq(CubeRecords) /\ AllFull(F) /\ AllFull(E') /\ AllFull(Foriginal')
      /\ \A k \in DOMAIN G' : Full(G'[k])
  BY DEF IInv, TypesInv, FullInv
<1>2. D' \in Seq(Cubes) /\ pc' \in {"next", "expanded"}
  BY DEF FullInv
<1>3. CASE CloseCube
  <2>0. i \in DOMAIN F /\ Full(RAISE)
    BY <1>3 DEF IInv, ExpansionInv, FullInv
  <2>1. i \in DOMAIN F /\ F[i] \in CubeRecords /\ Full(RAISE)
    BY <1>1, <2>0
  <2>2. Full(RAISE \cup FREESET)
    BY <2>1, FullMonotone
  <2>3. DOMAIN F' = DOMAIN F /\ \A j \in DOMAIN F : F'[j].set = IF j = i THEN RAISE \cup FREESET ELSE F[j].set
    BY <1>1, <1>3, <2>1 DEF CubeRecords
  <2>4. AllFull(F')
    BY <1>1, <2>2, <2>3 DEF AllFull
  <2> QED BY <1>1, <1>2, <2>4 DEF FullInv
<1>4. CASE DropCovered
  <2>1. F' \in Seq(CubeRecords) /\ From(F', F)
    BY <1>1, <1>4, KeepFrom
  <2>2. AllFull(F')
    BY <1>1, <2>1, FromPicked, PickedFull
  <2> QED BY <1>1, <1>2, <2>2 DEF FullInv
<1> QED BY <1>3, <1>4

(* The first unravelling leaves everything full.                           *)
LEMMA BeginFull ==
  ASSUME IInv, FullInv, Begin PROVE FullInv'
<1> USE DEF Begin, main, costs, expansion
<1>1. /\ in \in Inputs /\ AllFull(E') /\ AllFull(Foriginal') /\ \A k \in DOMAIN G' : Full(G'[k])
      /\ pc' = "expand"
  BY DEF IInv, TypesInv, FullInv
<1>2. in.F \in Seq(Cubes) /\ in.D \in Seq(Cubes) /\ \A j \in DOMAIN in.F : Full(in.F[j])
  <2>1. in.F \in Seq(Cubes) /\ in.D \in Seq(Cubes) /\ \A j \in DOMAIN in.F : cdist0(in.F[j], Parts)
    BY <1>1, InputsAssumption
  <2>2. 0 .. num_binary_vars - 1 \subseteq Vars
    BY CubeAssumption DEF Vars
  <2> QED BY <2>1, <2>2 DEF Full, cdist0
<1>3. Unwrapped(in.F) \in Seq(Cubes) /\ \A k \in DOMAIN Unwrapped(in.F) : Full(Unwrapped(in.F)[k])
  BY <1>2, UnwrappedFacts, UnwrappedFull
<1>4. AllFull(F')
  BY <1>3, CubedFacts DEF AllFull
<1>5. D' \in Seq(Cubes)
  BY <1>2
<1> QED BY <1>1, <1>4, <1>5 DEF FullInv

(* Dropping redundant cubes leaves everything full.                        *)
LEMMA IrredundantFull ==
  ASSUME IInv, FullInv, Irredundant1 \/ Irredundant2 PROVE FullInv'
<1> USE DEF Irredundant1, Irredundant2, main, costs, expansion
<1>1. /\ F \in Seq(CubeRecords) /\ AllFull(F) /\ AllFull(E') /\ AllFull(Foriginal')
      /\ \A k \in DOMAIN G' : Full(G'[k])
  BY DEF IInv, TypesInv, FullInv
<1>2. F' = Marked(F, D).cubes /\ pc' \in {"fatal", "essential", "reduce", "gasp"} /\ D' = D
  OBVIOUS
<1>3. AllFull(F')
  BY <1>1, <1>2, MarkedFacts, PickedFull
<1> QED BY <1>1, <1>2, <1>3 DEF FullInv

(* Setting the essential cubes aside leaves everything full.               *)
LEMMA EssentialFull ==
  ASSUME IInv, FullInv, Essential \/ SingleExpand PROVE FullInv'
<1> USE DEF Essential, SingleExpand, main, costs, expansion
<1>1. /\ F \in Seq(CubeRecords) /\ AllFull(F) /\ AllFull(E) /\ AllFull(Foriginal')
      /\ \A k \in DOMAIN G' : Full(G'[k])
  BY DEF IInv, TypesInv, FullInv
<1>2. first_part[num_binary_vars] \in Nat
  BY CubeAssumption
<1>3. CASE SingleExpand
  <2>1. i' >= first_part[num_binary_vars] /\ pc' = "mv_reduce" /\ F' = F /\ E' = E /\ D' = D
    BY <1>2, <1>3
  <2> QED BY <1>1, <2>1 DEF FullInv
<1>4. CASE Essential
  <2>1. PICK essen \in SUBSET DOMAIN F : /\ E' = Keep(F, essen) /\ F' = Keep(F, DOMAIN F \ essen)
                                         /\ D' = D \o Keep(Sets(F), essen)
    BY <1>4 DEF Essentials
  <2>2. From(E', F) /\ From(F', F)
    BY <1>1, <2>1, KeepFrom
  <2>3. AllFull(E') /\ AllFull(F')
    BY <1>1, <2>2, FromPicked, PickedFull
  <2>4. Keep(Sets(F), essen) \in Seq(Cubes)
    BY <1>1, <2>1, SetsFacts, KeepFrom
  <2>5. D' \in Seq(Cubes)
    BY <2>1, <2>4 DEF FullInv
  <2>6. pc' = "reduce"
    BY <1>4
  <2> QED BY <1>1, <2>3, <2>5, <2>6 DEF FullInv
<1> QED BY <1>3, <1>4

(* Only empty cubes stop being full while F is reduced, and they are       *)
(* dropped at the end.                                                     *)
LEMMA ReduceFull ==
  ASSUME IInv, FullInv, Reduce \/ ReduceCube \/ ReduceEnd PROVE FullInv'
<1> USE DEF Reduce, ReduceCube, ReduceEnd, main, costs, expansion
<1>1. /\ F \in Seq(CubeRecords) /\ AllFull(E') /\ AllFull(Foriginal')
      /\ \A k \in DOMAIN G' : Full(G'[k])
  BY DEF IInv, TypesInv, FullInv
<1>2. D' \in Seq(Cubes) /\ D \in Seq(Cubes) /\ pc' \in {"reducing", "expand"}
  BY DEF FullInv
<1>3. CASE Reduce
  <2>1. From(F', F)
    BY <1>1, <1>3, MiniSort, SortReduce
  <2>2. AllFull(F')
    BY <1>3, <2>1, FromPicked, PickedFull DEF FullInv
  <2>3. pc' = "reducing"
    BY <1>3
  <2> QED BY <1>1, <1>2, <2>2, <2>3 DEF FullInv, AllFull
<1>4. CASE ReduceCube
  <2> DEFINE cunder == Reduction(Sets(F), D, i)
  <2>1. i \in DOMAIN F /\ DOMAIN F = 1 .. Len(F) /\ Len(F) \in Nat
    BY <1>1, <1>4 DEF IInv, TypesInv
  <2>2. Sets(F) \in Seq(Cubes) /\ i \in DOMAIN Sets(F) /\ Sets(F)[i] = F[i].set
    BY <1>1, <2>1, SetsFacts
  <2>3. cunder = {} \/ Full(cunder)
    <3>1. F[i].set = {} \/ Full(F[i].set)
      BY <1>4, <2>1 DEF FullInv
    <3>2. CASE F[i].set = {}
      BY <2>2, <3>2, ReductionWithin
    <3>3. CASE Full(F[i].set)
      BY <1>2, <2>2, <3>3, ReductionFull
    <3> QED BY <3>1, <3>2, <3>3
  <2>4. F' = [F EXCEPT ![i].set = cunder, ![i].PRIME = (cunder = F[i].set)] /\ pc' = "reducing"
    BY <1>4
  <2> HIDE DEF cunder
  <2>5. \A j \in DOMAIN F : F[j] \in CubeRecords
    BY <1>1
  <2>6. DOMAIN F' = DOMAIN F /\ \A j \in DOMAIN F : F'[j].set = IF j = i THEN cunder ELSE F[j].set
    BY <2>1, <2>4, <2>5 DEF CubeRecords
  <2>7. \A j \in DOMAIN F : F[j].set = {} \/ Full(F[j].set)
    BY <1>4 DEF FullInv
  <2>8. \A j \in DOMAIN F' : F'[j].set = {} \/ Full(F'[j].set)
    BY <2>3, <2>6, <2>7
  <2> QED BY <1>1, <1>2, <2>4, <2>8 DEF FullInv
<1>5. CASE ReduceEnd
  <2> DEFINE I == {j \in DOMAIN F : F[j].set # {}}
  <2>0. I \in SUBSET DOMAIN F
    OBVIOUS
  <2>a. F' = Keep(F, I) /\ \A j \in I : F[j].set # {}
    BY <1>5
  <2> HIDE DEF I
  <2>1. \A k \in DOMAIN Keep(F, I) : \E j \in I : Keep(F, I)[k] = F[j]
    BY <1>1, <2>0, KeepFacts
  <2>2. \A j \in DOMAIN F : F[j].set = {} \/ Full(F[j].set)
    BY <1>5 DEF FullInv
  <2>3. AllFull(F')
    BY <2>0, <2>a, <2>1, <2>2 DEF AllFull
  <2>4. pc' = "expand"
    BY <1>5
  <2> QED BY <1>1, <1>2, <2>3, <2>4 DEF FullInv
<1> QED BY <1>3, <1>4, <1>5

(* last_gasp keeps only full reductions.                                   *)
LEMMA ReduceGaspFull ==
  ASSUME IInv, FullInv, ReduceGasp PROVE FullInv'
<1> USE DEF ReduceGasp, costs, expansion
<1> DEFINE cunder == [j \in DOMAIN F |-> Reduction(Sets(F), D, j)]
<1>1. /\ F \in Seq(CubeRecords) /\ AllFull(F) /\ AllFull(E') /\ Foriginal' = F /\ G' = <<>>
      /\ D \in Seq(Cubes) /\ D' = D
  BY DEF IInv, TypesInv, FullInv
<1>2. Sets(F) \in Seq(Cubes) /\ DOMAIN Sets(F) = DOMAIN F /\ \A j \in DOMAIN F : Sets(F)[j] = F[j].set
  BY <1>1, SetsFacts
<1>3. \A j \in DOMAIN F : cunder[j] = {} \/ Full(cunder[j])
  <2> SUFFICES ASSUME NEW j \in DOMAIN F PROVE Reduction(Sets(F), D, j) = {} \/ Full(Reduction(Sets(F), D, j))
    OBVIOUS
  <2>1. Full(Sets(F)[j])
    BY <1>1, <1>2 DEF AllFull
  <2> QED BY <1>1, <1>2, <2>1, ReductionFull
<1>4. /\ F' = [j \in DOMAIN F |-> IF cunder[j] = F[j].set THEN F[j] ELSE Flagged(cunder[j])]
      /\ pc' = IF \E j \in DOMAIN F : cunder[j] = {} THEN "fatal"
                 ELSE IF in.opt.use_super_gasp THEN "super_gasp" ELSE "expand_gasp"
  OBVIOUS
<1> HIDE DEF cunder
<1>5. CASE \E j \in DOMAIN F : cunder[j] = {}
  BY <1>1, <1>4, <1>5 DEF FullInv
<1>6. CASE ~ \E j \in DOMAIN F : cunder[j] = {}
  <2>1. AllFull(F')
    BY <1>1, <1>3, <1>4, <1>6 DEF AllFull, Flagged
  <2>2. pc' \in {"super_gasp", "expand_gasp"}
    BY <1>4, <1>6
  <2> QED BY <1>1, <2>1, <2>2 DEF FullInv
<1> QED BY <1>5, <1>6

(* A candidate of the gasp contains the reduced cube it grows from.        *)
LEMMA GaspNewFull ==
  ASSUME Full(F[i].set) PROVE \A k \in DOMAIN GaspNew : Full(GaspNew[k])
<1> DEFINE raised   == F[i].set \cup essen_raising(GaspParts.BB, GaspParts.FREESET)
           partners == GaspPartners(GaspParts, raised)
           at       == Listing(partners, Increasing(partners))
<1>1. GaspNew = [k \in DOMAIN at |-> raised \cup c2essential(at[k])]
  BY DEF GaspNew, GaspFound, GaspFrom, GaspCubes
<1> HIDE DEF at
<1>2. \A k \in DOMAIN at : F[i].set \subseteq raised \cup c2essential(at[k])
  OBVIOUS
<1> HIDE DEF raised
<1> QED BY <1>1, <1>2, FullMonotone

(* Expanding the reduced cubes leaves everything full.                     *)
LEMMA ExpandGaspFull ==
  ASSUME IInv, FullInv, ExpandGasp \/ ExpandGaspEnd PROVE FullInv'
<1> USE DEF ExpandGasp, ExpandGaspEnd, main, costs, expansion
<1>1. /\ F \in Seq(CubeRecords) /\ AllFull(F) /\ AllFull(E') /\ AllFull(Foriginal')
      /\ \A k \in DOMAIN G : Full(G[k])
      /\ G \in Seq(Cubes) /\ D' \in Seq(Cubes)
  BY DEF IInv, TypesInv, FullInv
<1>2. CASE ExpandGasp
  <2>1. i \in DOMAIN F /\ Len(Foriginal) = Len(F) /\ TypesInv
    BY <1>1, <1>2 DEF IInv, TypesInv, GaspInv
  <2>2. GaspNew \in Seq(Cubes) /\ \A k \in DOMAIN GaspNew : Full(GaspNew[k])
    BY <1>1, <2>1, GaspNewFacts, GaspNewFull DEF AllFull
  <2>3. G' = G \o GaspNew /\ pc' \in {"fatal", "expand_gasp"} /\ F' = F
    BY <1>2
  <2>4. \A k \in DOMAIN G' : Full(G'[k])
    BY <1>1, <2>2, <2>3
  <2> QED BY <1>1, <2>3, <2>4 DEF FullInv
<1>3. CASE ExpandGaspEnd
  <2>1. F' = Cubed(sf_dupl(G)) /\ pc' = "expand" /\ G' = G
    BY <1>3
  <2>2. sf_dupl(G) \in Seq(Cubes) /\ From(sf_dupl(G), G)
    BY <1>1, DuplFacts
  <2>3. AllFull(F')
    BY <1>1, <2>1, <2>2, CubedFacts DEF AllFull, From
  <2> QED BY <1>1, <2>1, <2>3 DEF FullInv
<1> QED BY <1>2, <1>3

(* Going round the loop, or on to make_sparse, leaves everything full.     *)
LEMMA LoopOrSparseFull ==
  ASSUME NEW A \in Seq(CubeRecords), AllFull(A), E \in Seq(CubeRecords), AllFull(E),
         NEW again, LoopOrSparse(A, again)
  PROVE  /\ AllFull(F') /\ pc' \in {"reduce", "mv_reduce"}
         /\ pc' = "mv_reduce" => i' >= first_part[num_binary_vars]
<1>1. first_part[num_binary_vars] \in Nat
  BY CubeAssumption
<1>2. A \o E \in Seq(CubeRecords) /\ AllFull(A \o E)
  BY ConcatFull
<1>3. /\ F' = A \/ F' = A \o E
      /\ pc' = "reduce" \/ (pc' = "mv_reduce" /\ i' = first_part[num_binary_vars])
  BY DEF LoopOrSparse
<1>4. AllFull(F')
  BY <1>2, <1>3
<1>5. pc' \in {"reduce", "mv_reduce"}
  BY <1>3
<1>6. pc' = "mv_reduce" => i' >= first_part[num_binary_vars]
  BY <1>1, <1>3
<1> QED BY <1>4, <1>5, <1>6

(* The covering step of last_gasp leaves everything full.                  *)
LEMMA IrredGaspFull ==
  ASSUME IInv, FullInv, IrredGasp PROVE FullInv'
<1> USE DEF IrredGasp, main, expansion
<1>1. /\ F \in Seq(CubeRecords) /\ E \in Seq(CubeRecords) /\ Foriginal \in Seq(CubeRecords)
      /\ AllFull(F) /\ AllFull(E) /\ AllFull(Foriginal) /\ \A k \in DOMAIN G' : Full(G'[k])
      /\ E' = E /\ Foriginal' = Foriginal /\ D' \in Seq(Cubes)
  BY DEF IInv, TypesInv, FullInv
<1> DEFINE m     == IF F = <<>> THEN [ok |-> TRUE, cubes |-> Foriginal] ELSE Marked(Foriginal \o F, D)
           again == Better(cost', best_cost)
<1>2. m.cubes \in Seq(CubeRecords) /\ AllFull(m.cubes)
  BY <1>1, ConcatFull, MarkedFacts, PickedFull
<1>3. LoopOrSparse(m.cubes, again) \/ pc' = "fatal"
  OBVIOUS
<1> HIDE DEF m, again
<1>4. \/ /\ AllFull(F') /\ pc' \in {"reduce", "mv_reduce"}
         /\ pc' = "mv_reduce" => i' >= first_part[num_binary_vars]
      \/ pc' = "fatal"
  BY <1>1, <1>2, <1>3, LoopOrSparseFull
<1> QED BY <1>1, <1>4 DEF FullInv

(* super_gasp leaves everything full.                                      *)
LEMMA SuperGaspFull ==
  ASSUME IInv, FullInv, SuperGasp PROVE FullInv'
<1> USE DEF SuperGasp, main, expansion
<1> DEFINE old    == Sets(Foriginal)
           primes == sf_dupl(old \o Listed(AllPrimes(F)))
           m      == Marked(Primes(primes), D)
           again  == cost'.cubes < best_cost.cubes
<1>1. /\ F \in Seq(CubeRecords) /\ E \in Seq(CubeRecords) /\ Foriginal \in Seq(CubeRecords)
      /\ AllFull(F) /\ AllFull(E) /\ AllFull(Foriginal) /\ \A k \in DOMAIN G' : Full(G'[k])
      /\ E' = E /\ Foriginal' = Foriginal /\ D' \in Seq(Cubes)
      /\ AllClear(F) /\ in \in Inputs
  BY Settled DEF IInv, TypesInv, FullInv
<1>2. AllPrimes(F) \in SUBSET Cubes /\ \A c \in AllPrimes(F) : Full(c)
  <2>1. AllPrimes(F) \in SUBSET Cubes
    BY <1>1, AllPrimesClear DEF AllFull
  <2>2. ASSUME NEW c \in AllPrimes(F) PROVE Full(c)
    <3> DEFINE parts(j) == essen_parts(F, DOMAIN R, {}, F[j].set, Parts \ F[j].set)
    <3>0. PICK j \in DOMAIN F :
            c \in IF F[j].PRIME THEN {F[j].set} ELSE find_all_primes(parts(j).BB, F[j].set, parts(j).FREESET)
      BY <2>2 DEF AllPrimes
    <3> HIDE DEF parts
    <3>1. F[j].set \subseteq c
      BY <3>0 DEF find_all_primes
    <3> QED BY <1>1, <3>1, FullMonotone DEF AllFull
  <2> QED BY <2>1, <2>2
<1>4. Listed(AllPrimes(F)) \in Seq(Cubes) /\ \A k \in DOMAIN Listed(AllPrimes(F)) : Full(Listed(AllPrimes(F))[k])
  <2>1. Listed(AllPrimes(F)) \in Seq(AllPrimes(F)) /\ Listed(AllPrimes(F)) \in Seq(Cubes)
    BY <1>2, ListedFacts
  <2> QED BY <1>2, <2>1
<1>5. old \in Seq(Cubes) /\ \A k \in DOMAIN old : Full(old[k])
  BY <1>1, SetsFacts DEF AllFull
<1> HIDE DEF old
<1>6. /\ old \o Listed(AllPrimes(F)) \in Seq(Cubes)
      /\ \A k \in DOMAIN (old \o Listed(AllPrimes(F))) : Full((old \o Listed(AllPrimes(F)))[k])
  BY <1>4, <1>5
<1>7. primes \in Seq(Cubes) /\ \A k \in DOMAIN primes : Full(primes[k])
  BY <1>6, DuplFacts DEF From
<1> HIDE DEF primes
<1>8. Primes(primes) \in Seq(CubeRecords) /\ AllFull(Primes(primes))
  <2>1. DOMAIN primes = 1 .. Len(primes) /\ Len(primes) \in Nat /\ \A j \in DOMAIN primes : primes[j] \in Cubes
    BY <1>7
  <2>2. \A j \in DOMAIN primes : /\ [Flagged(primes[j]) EXCEPT !.PRIME = TRUE] \in CubeRecords
                                 /\ [Flagged(primes[j]) EXCEPT !.PRIME = TRUE].set = primes[j]
    BY <2>1 DEF Flagged, CubeRecords
  <2>3. Primes(primes) = [j \in DOMAIN primes |-> [Flagged(primes[j]) EXCEPT !.PRIME = TRUE]]
    BY DEF Primes
  <2>4. Primes(primes) \in [1 .. Len(primes) -> CubeRecords]
    BY <2>1, <2>2, <2>3
  <2>5. Primes(primes) \in Seq(CubeRecords)
    BY <2>1, <2>4
  <2> QED BY <1>7, <2>2, <2>3, <2>5 DEF AllFull
<1>9. m.cubes \in Seq(CubeRecords) /\ AllFull(m.cubes)
  BY <1>8, MarkedFacts, PickedFull
<1>10. LoopOrSparse(m.cubes, again) \/ pc' = "fatal"
  BY DEF primes, old
<1> HIDE DEF m, again
<1>11. \/ /\ AllFull(F') /\ pc' \in {"reduce", "mv_reduce"}
          /\ pc' = "mv_reduce" => i' >= first_part[num_binary_vars]
       \/ pc' = "fatal"
  BY <1>1, <1>9, <1>10, LoopOrSparseFull
<1> QED BY <1>1, <1>11 DEF FullInv

(* mv_reduce takes parts of the multiple-valued variables only.            *)
LEMMA MvReduceFull ==
  ASSUME IInv, FullInv, MvReducePart \/ MvReduceEnd PROVE FullInv'
<1> USE DEF MvReduceEnd, main, costs, expansion
<1>1. /\ F \in Seq(CubeRecords) /\ AllFull(F) /\ AllFull(E') /\ AllFull(Foriginal')
      /\ \A k \in DOMAIN G' : Full(G'[k])
      /\ D' \in Seq(Cubes)
  BY DEF MvReducePart, IInv, TypesInv, FullInv
<1>0. i \in Nat /\ i >= first_part[num_binary_vars]
  BY DEF MvReducePart, IInv, TypesInv, FullInv
<1>2. CASE MvReducePart
  <2> DEFINE m == PartIrredundant
             fewer(j, c) == IF PartVar = output \/ ~ (var_mask[PartVar] \subseteq c) THEN c \ {i} ELSE c
             lost(j)     == [F[j] EXCEPT !.PRIME = FALSE, !.set = fewer(j, F[j].set)]
  <2>1. /\ F' = [j \in DOMAIN F |-> IF j \notin m.lose THEN F[j] ELSE lost(j)]
        /\ pc' \in {"mv_reduce", "fatal"} /\ i' = i + 1
    BY <1>2 DEF MvReducePart
  <2>2. \A j \in DOMAIN F : F[j] \in CubeRecords
    BY <1>1
  <2>3. \A j \in DOMAIN F : F[j].set \ {i} \subseteq fewer(j, F[j].set)
    OBVIOUS
  <2> HIDE DEF m, fewer
  <2>4. \A j \in DOMAIN F : lost(j).set = fewer(j, F[j].set)
    BY <2>2 DEF CubeRecords
  <2> HIDE DEF lost
  <2>5. \A j \in DOMAIN F : F[j].set \ {i} \subseteq F'[j].set
    BY <2>1, <2>3, <2>4
  <2>6. \A v \in 0 .. num_binary_vars - 1 : i \notin var_mask[v]
    <3> SUFFICES ASSUME NEW v \in 0 .. num_binary_vars - 1, i \in var_mask[v] PROVE FALSE
      OBVIOUS
    <3>1. v \in Vars /\ var_mask[v] = first_part[v] .. first_part[v + 1] - 1 /\ v + 1 \in 0 .. num_vars
          /\ num_binary_vars \in 0 .. num_vars /\ v + 1 <= num_binary_vars
      BY CubeAssumption DEF Vars, var_mask
    <3>2. first_part[v + 1] <= first_part[num_binary_vars]
      <4>1. num_binary_vars \in Vars /\ v < num_binary_vars
        BY CubeAssumption DEF Vars
      <4> QED BY <3>1, <4>1, PartsApart
    <3>3. first_part[v] \in Nat /\ first_part[v + 1] \in Nat /\ first_part[num_binary_vars] \in Nat
      BY <3>1, CubeAssumption
    <3> QED BY <1>0, <3>1, <3>2, <3>3
  <2>7. AllFull(F')
    <3> SUFFICES ASSUME NEW j \in DOMAIN F, NEW v \in 0 .. num_binary_vars - 1
                 PROVE  F'[j].set \cap var_mask[v] # {}
      BY <2>1 DEF AllFull, Full
    <3>1. F[j].set \cap var_mask[v] # {}
      BY <1>1 DEF AllFull, Full
    <3> QED BY <2>5, <2>6, <3>1
  <2>8. i' >= first_part[num_binary_vars]
    BY <1>0, <2>1, CubeAssumption
  <2> QED BY ONLY <1>1, <2>1, <2>7, <2>8 DEF FullInv
<1>3. CASE MvReduceEnd
  <2>1. From(F', F)
    BY <1>1, <1>3, KeepFrom
  <2>2. AllFull(F')
    BY <1>1, <2>1, FromPicked, PickedFull
  <2>3. pc' \in {"compare", "expand"}
    BY <1>3
  <2> QED BY ONLY <1>1, <2>2, <2>3 DEF FullInv
<1> QED BY <1>2, <1>3

(* The last steps leave everything full.                                   *)
LEMMA RestFull ==
  ASSUME IInv, FullInv, Sparse \/ StartOver \/ Verify PROVE FullInv'
<1> USE DEF Sparse, StartOver, Verify, main, costs, expansion
<1>1. /\ AllFull(F') /\ AllFull(E') /\ AllFull(Foriginal')
      /\ \A k \in DOMAIN G' : Full(G'[k]) /\ D' \in Seq(Cubes)
      /\ pc' \in {"begin", "compare", "mv_reduce", "verified", "fatal"}
  BY DEF FullInv
<1>2. pc' = "mv_reduce" => i' >= first_part[num_binary_vars]
  <2>1. first_part[num_binary_vars] \in Nat
    BY CubeAssumption
  <2> QED BY <2>1
<1> QED BY <1>1, <1>2 DEF FullInv

(* Every step keeps the cubes full.                                        *)
LEMMA NextFull == IInv /\ FullInv /\ [Next]_vars => FullInv'
<1> SUFFICES ASSUME IInv, FullInv, [Next]_vars PROVE FullInv'
  OBVIOUS
<1>1. CASE UNCHANGED vars
  BY <1>1 DEF vars, main, costs, expansion, FullInv
<1>2. CASE Next
  <2>1. CASE ~ Done
    BY <1>2, <2>1, BeginFull, ExpandFull, RaisingFull, CloseFull, IrredundantFull, EssentialFull, ReduceFull,
       ReduceGaspFull, ExpandGaspFull, IrredGaspFull, SuperGaspFull, MvReduceFull, RestFull DEF Next
  <2>2. CASE Done
    BY <1>1, <2>2 DEF Done
  <2> QED BY <2>1, <2>2
<1> QED BY <1>1, <1>2

(* Everything is full at first.                                            *)
LEMMA InitFull == Init => FullInv
BY DEF Init, FullInv, AllFull

(* Every cube keeps a part in every binary variable, whatever is raised    *)
(* and reduced; reduce drops the cubes it has emptied.                     *)
THEOREM CubesStayFull == Spec => []FullInv
BY InitIInv, InitFull, NextIInv, NextFull, PTL DEF Spec

(* No cube of the cover, of the essential primes and of the cover from     *)
(* before the gasp ever meets the OFF-set, nor does the cube that is being *)
(* raised, whatever the covers and the options.                            *)
THEOREM OrthogonalHolds == Spec => []Orthogonal
<1>1. IInv => Orthogonal
  BY DEF IInv
<1> QED BY InitIInv, InitFull, NextIInv, NextFull, <1>1, PTL DEF Spec

(* Whenever expand picks a part to raise, a part is free, whatever the     *)
(* covers and the options: most_frequent never answers -1.                 *)
THEOREM PartLeftHolds == Spec => []PartLeft
<1>1. IInv => PartLeft
  BY FreePart DEF PartLeft
<1> QED BY InitIInv, InitFull, NextIInv, NextFull, <1>1, PTL DEF Spec

(***************************************************************************)
(* What the variables hold.  The cost of a cover is a number: there are at *)
(* most as many zeros in a variable as it has parts in all the cubes.      *)
(***************************************************************************)

(* The sums that a fold adds up from behind.                               *)
FoldedSum(S, f, h) ==
  [s \in SUBSET S |-> IF s = {} THEN 0 ELSE h[s \ {Taken(s)}] + f[Taken(s)]]

(* Such sums exist, and a sum of numbers is a number.                      *)
LEMMA FoldedSums ==
  ASSUME NEW S, IsFiniteSet(S), NEW f \in [S -> Nat]
  PROVE  /\ \E h : h = FoldedSum(S, f, h)
         /\ \A h : h = FoldedSum(S, f, h) => h[S] \in Nat
<1>1. PICK h \in [SUBSET S -> Nat] : h = Summed(S, f, h)
  BY SumsExist
<1>2. Summed(S, f, h) = FoldedSum(S, f, h)
  <2>1. ASSUME NEW s \in SUBSET S, s # {} PROVE h[s \ {Taken(s)}] + f[Taken(s)] = f[Taken(s)] + h[s \ {Taken(s)}]
    <3>1. f[Taken(s)] \in Nat /\ h[s \ {Taken(s)}] \in Nat
      BY <2>1, TakenFrom
    <3> QED BY <3>1
  <2> QED BY <2>1 DEF Summed, FoldedSum
<1>3. ASSUME NEW g, g = FoldedSum(S, f, g) PROVE g[S] \in Nat
  <2> DEFINE m == [s \in SUBSET S |-> Cardinality(s)]
             P == {s \in SUBSET S : g[s] \in Nat}
  <2>1. m \in [SUBSET S -> Nat]
    BY FS_Subset, FS_CardinalityType
  <2>2. ASSUME NEW s \in SUBSET S, \A t \in SUBSET S : m[t] < m[s] => t \in P PROVE s \in P
    <3>1. CASE s = {}
      <4>1. g[s] = 0
        BY <1>3, <3>1 DEF FoldedSum
      <4> QED BY <4>1
    <3>2. CASE s # {}
      <4>1. Taken(s) \in S /\ s \ {Taken(s)} \in SUBSET S /\ m[s \ {Taken(s)}] < m[s]
        BY <3>2, TakenFrom
      <4>2. g[s \ {Taken(s)}] \in Nat /\ f[Taken(s)] \in Nat
        BY <2>2, <4>1
      <4>3. g[s] = g[s \ {Taken(s)}] + f[Taken(s)]
        BY <1>3, <3>2 DEF FoldedSum
      <4> QED BY <4>2, <4>3
    <3> QED BY <3>1, <3>2
  <2> HIDE DEF m, P
  <2>3. \A s \in SUBSET S : s \in P
    <3> DEFINE Subs == SUBSET S
    <3>1. m \in [Subs -> Nat]
      BY <2>1
    <3>2. \A s \in Subs : (\A t \in Subs : m[t] < m[s] => t \in P) => s \in P
      BY <2>2
    <3> HIDE DEF Subs
    <3>3. Subs \subseteq P
      BY <3>1, <3>2, MeasureInduction
    <3> QED BY <3>3 DEF Subs
  <2> QED BY <2>3 DEF P
<1> QED BY <1>1, <1>2, <1>3

(* A variable has no more zeros than parts in all the cubes.               *)
LEMMA ZerosBounded ==
  ASSUME NEW A \in Seq(Cubes), NEW v \in Vars
  PROVE  /\ massive_count(cube1list(A)).var_zeros[v] \in Nat
         /\ Len(A) * part_size[v] - massive_count(cube1list(A)).var_zeros[v] \in Nat
<1> DEFINE T    == cube1list(A)
           all  == (DOMAIN A) \X var_mask[v]
           zero == {x \in (DOMAIN T.cubes) \X (var_mask[v] \ T.cof) : x[2] \notin T.cubes[x[1]]}
<1>1. T.cubes = A /\ T.cof = {}
  BY DEF cube1list
<1>2. massive_count(T).var_zeros[v] = Cardinality(zero)
  BY DEF massive_count, VarSummary, Summary
<1>3. zero \subseteq all
  BY <1>1
<1>4. /\ IsFiniteSet(DOMAIN A) /\ Cardinality(DOMAIN A) = Len(A) /\ Len(A) \in Nat
  <2>1. DOMAIN A = 1 .. Len(A) /\ Len(A) \in Nat
    OBVIOUS
  <2>2. /\ IsFiniteSet(1 .. Len(A))
        /\ Cardinality(1 .. Len(A)) = IF 1 > Len(A) THEN 0 ELSE Len(A) - 1 + 1
    BY <2>1, FS_Interval
  <2>3. (IF 1 > Len(A) THEN 0 ELSE Len(A) - 1 + 1) = Len(A)
    BY <2>1
  <2> QED BY <2>1, <2>2, <2>3
<1>5. IsFiniteSet(var_mask[v]) /\ Cardinality(var_mask[v]) = part_size[v] /\ part_size[v] \in Nat
  <2>1. /\ first_part[v] \in Nat /\ first_part[v + 1] \in Nat /\ first_part[v] < first_part[v + 1]
        /\ var_mask[v] = first_part[v] .. first_part[v + 1] - 1
    BY MaskFacts
  <2>2. first_part[v + 1] = first_part[v] + part_size[v] /\ part_size[v] \in Nat
    BY CubeAssumption
  <2> DEFINE low  == first_part[v]
             high == first_part[v + 1] - 1
  <2>3. low \in Int /\ high \in Int /\ ~ (low > high) /\ high - low + 1 = part_size[v]
    BY <2>1, <2>2
  <2>4. var_mask[v] = low .. high
    BY <2>1
  <2> HIDE DEF low, high
  <2>5. /\ IsFiniteSet(low .. high)
        /\ Cardinality(low .. high) = IF low > high THEN 0 ELSE high - low + 1
    BY <2>3, FS_Interval
  <2> QED BY <2>2, <2>3, <2>4, <2>5
<1>6. IsFiniteSet(all) /\ Cardinality(all) = Len(A) * part_size[v]
  <2>1. /\ IsFiniteSet((DOMAIN A) \X var_mask[v])
        /\ Cardinality((DOMAIN A) \X var_mask[v]) = Cardinality(DOMAIN A) * Cardinality(var_mask[v])
    BY <1>4, <1>5, FS_Product
  <2> QED BY <1>4, <1>5, <2>1
<1> HIDE DEF all, zero
<1>7. Cardinality(zero) \in Nat /\ Cardinality(zero) <= Cardinality(all) /\ Cardinality(all) \in Nat
  BY <1>3, <1>6, FS_Subset, FS_CardinalityType
<1> QED BY <1>2, <1>6, <1>7

(* The cost of a cover is a number.                                        *)
LEMMA CostFacts ==
  ASSUME NEW A \in Seq(CubeRecords) PROVE CostOf(A).total \in Nat
<1> DEFINE C     == Sets(A)
           zeros == massive_count(cube1list(C)).var_zeros
           ones(v) == Len(C) * part_size[v] - zeros[v]
           Low   == 0 .. num_binary_vars - 1
           High  == num_binary_vars .. num_vars - 2
           in0   == [v \in Low |-> zeros[v]]
           mv0   == [v \in High |-> ones(v)]
           inputs == FoldSet(LAMBDA v, n : n + zeros[v], 0, Low)
           others == FoldSet(LAMBDA v, n : n + ones(v), 0, High)
<1>1. C \in Seq(Cubes)
  BY SetsFacts
<1>2. /\ Low \subseteq Vars /\ High \subseteq Vars /\ output \in Vars
      /\ IsFiniteSet(Low) /\ IsFiniteSet(High)
  <2>1. num_vars \in Nat /\ num_binary_vars \in Nat /\ num_binary_vars <= num_vars - 1
    BY CubeAssumption
  <2>2. IsFiniteSet(Low) /\ IsFiniteSet(High)
    BY <2>1, FS_Interval
  <2> QED BY <2>1, <2>2 DEF Vars, output
<1> HIDE DEF C
<1>3. \A v \in Vars : zeros[v] \in Nat /\ ones(v) \in Nat
  BY <1>1, ZerosBounded
<1> HIDE DEF zeros
<1>4. in0 \in [Low -> Nat] /\ mv0 \in [High -> Nat]
  <2>1. \A v \in Low : zeros[v] \in Nat
    BY <1>2, <1>3
  <2>2. \A v \in High : ones(v) \in Nat
    BY <1>2, <1>3
  <2> HIDE DEF ones
  <2> QED BY <2>1, <2>2
<1>5. inputs \in Nat
  <2> DEFINE Sum(h) == [s \in SUBSET Low |->
                          IF s = {} THEN 0 ELSE LET x == CHOOSE x \in s : TRUE IN h[s \ {x}] + zeros[x]]
             iter == CHOOSE h : h = Sum(h)
  <2>1. inputs = iter[Low]
    BY DEF FoldSet, MapThenFoldSet
  <2>2. \A h : Sum(h) = FoldedSum(Low, in0, h)
    <3>1. ASSUME NEW s \in SUBSET Low, s # {} PROVE Taken(s) \in Low
      BY <1>2, <3>1, TakenFrom
    <3> QED BY <3>1 DEF FoldedSum, Taken
  <2> HIDE DEF in0, Sum
  <2>3. \E h : h = Sum(h)
    BY <1>2, <1>4, <2>2, FoldedSums
  <2>4. iter = Sum(iter)
    BY <2>3
  <2> HIDE DEF iter, Low, inputs
  <2> QED BY <1>2, <1>4, <2>1, <2>2, <2>4, FoldedSums
<1>6. others \in Nat
  <2> DEFINE Sum(h) == [s \in SUBSET High |->
                          IF s = {} THEN 0 ELSE LET x == CHOOSE x \in s : TRUE IN h[s \ {x}] + ones(x)]
             iter == CHOOSE h : h = Sum(h)
  <2>1. others = iter[High]
    BY DEF FoldSet, MapThenFoldSet
  <2>2. \A h : Sum(h) = FoldedSum(High, mv0, h)
    <3>1. ASSUME NEW s \in SUBSET High, s # {} PROVE Taken(s) \in High
      BY <1>2, <3>1, TakenFrom
    <3> HIDE DEF ones
    <3> QED BY <3>1 DEF FoldedSum, Taken
  <2> HIDE DEF mv0, Sum
  <2>3. \E h : h = Sum(h)
    BY <1>2, <1>4, <2>2, FoldedSums
  <2>4. iter = Sum(iter)
    BY <2>3
  <2> HIDE DEF iter, High, others
  <2> QED BY <1>2, <1>4, <2>1, <2>2, <2>4, FoldedSums
<1>7. ones(output) \in Nat
  BY <1>2, <1>3
<1>8. CostOf(A).total = inputs + others + ones(output)
  BY DEF CostOf, cover_cost, C, zeros
<1> HIDE DEF inputs, others, ones
<1> QED BY <1>5, <1>6, <1>7, <1>8

(* Whatever essen_parts makes of the parts, it drops cubes and frees none. *)
LEMMA EssenWithin ==
  ASSUME NEW A, NEW B, NEW C, NEW raise, NEW free
  PROVE  /\ essen_parts(A, B, C, raise, free).BB \subseteq B
         /\ essen_parts(A, B, C, raise, free).CC \subseteq C
<1> DEFINE low == free \ ForcedLow(B, raise)
           B1  == B \ Near(B, raise)
<1>1. CASE ForcedLow(B, raise) = {}
  <2>1. essen_parts(A, B, C, raise, free) = [BB |-> B1, CC |-> C, FREESET |-> free]
    BY <1>1 DEF essen_parts
  <2> QED BY <2>1
<1>2. CASE ForcedLow(B, raise) # {}
  <2>1. essen_parts(A, B, C, raise, free) =
          [BB |-> elim_BB(B1, raise \cup low), CC |-> elim_CC(A, C, raise \cup low), FREESET |-> low]
    BY <1>2 DEF essen_parts
  <2> QED BY <2>1 DEF elim_BB, elim_CC
<1> QED BY <1>1, <1>2

(* What TypeOK says of the variables that the invariant does not speak of. *)
ScalarTypes ==
  /\ unwrap_onset \in BOOLEAN /\ toggle \in BOOLEAN
  /\ call \in {"initial", "loop", "gasp", "sparse"}
CostTypes == cost.total \in Nat /\ best_cost.total \in Nat
ExpansionTypes ==
  /\ covered \subseteq Nat /\ num_covered \in Nat /\ OVEREXPANDED_CUBE \in Cubes
  /\ BB \subseteq DOMAIN R /\ CC \subseteq Nat /\ feas \subseteq Nat

(* unwrap_onset is only ever reset, the input stays.                       *)
LEMMA ScalarStep == ASSUME ScalarTypes, Next PROVE ScalarTypes' /\ in' = in
<1> USE DEF ScalarTypes, main
<1>1. CASE Begin \/ Expand \/ SkipCube \/ OpenCube \/ CloseCube \/ DropCovered
  BY <1>1 DEF Begin, Expand, SkipCube, OpenCube, CloseCube, DropCovered
<1>2. CASE SelectFeasible \/ NoneFeasible \/ RaiseFrequent \/ Mincov \/ HeuristicMincov
  BY <1>2 DEF SelectFeasible, NoneFeasible, RaiseFrequent, Mincov, HeuristicMincov, RaisePart
<1>3. CASE Irredundant1 \/ Essential \/ SingleExpand \/ Reduce \/ ReduceCube \/ ReduceEnd \/ Irredundant2
  BY <1>3 DEF Irredundant1, Essential, SingleExpand, Reduce, ReduceCube, ReduceEnd, Irredundant2
<1>4. CASE ReduceGasp \/ ExpandGasp \/ ExpandGaspEnd \/ IrredGasp \/ SuperGasp
  BY <1>4 DEF ReduceGasp, ExpandGasp, ExpandGaspEnd, IrredGasp, SuperGasp
<1>5. CASE MvReducePart \/ MvReduceEnd \/ Sparse \/ StartOver \/ Verify
  BY <1>5 DEF MvReducePart, MvReduceEnd, Sparse, StartOver, Verify
<1>6. CASE Done
  BY <1>6 DEF Done, vars
<1> QED BY <1>1, <1>2, <1>3, <1>4, <1>5, <1>6 DEF Next

(* The steps that count the cost anew.                                     *)
LEMMA LoopOrSparseCost ==
  ASSUME NEW A \in Seq(CubeRecords), E \in Seq(CubeRecords), NEW again, LoopOrSparse(A, again)
  PROVE  best_cost'.total \in Nat
<1>1. A \o E \in Seq(CubeRecords)
  OBVIOUS
<1>2. best_cost' = CostOf(A) \/ best_cost' = CostOf(A \o E)
  BY DEF LoopOrSparse
<1> QED BY <1>1, <1>2, CostFacts

(* What the super gasp chooses from is a cover of records.                *)
LEMMA SuperGaspCubes ==
  ASSUME IInv, FullInv, pc = "super_gasp"
  PROVE  /\ Primes(sf_dupl(Sets(Foriginal) \o Listed(AllPrimes(F)))) \in Seq(CubeRecords)
         /\ Marked(Primes(sf_dupl(Sets(Foriginal) \o Listed(AllPrimes(F)))), D).cubes \in Seq(CubeRecords)
<1> DEFINE all    == Sets(Foriginal) \o Listed(AllPrimes(F))
           primes == sf_dupl(all)
<1>1. TypesInv /\ AllClear(F) /\ F \in Seq(CubeRecords) /\ Foriginal \in Seq(CubeRecords) /\ in \in Inputs
  BY Settled DEF IInv, TypesInv
<1>2. \A j \in DOMAIN F : Full(F[j].set)
  BY DEF FullInv, AllFull
<1>3. Listed(AllPrimes(F)) \in Seq(Cubes)
  BY <1>1, <1>2, AllPrimesClear, ListedFacts
<1>4. all \in Seq(Cubes)
  BY <1>1, <1>3, SetsFacts
<1> HIDE DEF all
<1>5. primes \in Seq(Cubes)
  BY <1>4, DuplFacts
<1> HIDE DEF primes
<1>6. DOMAIN primes = 1 .. Len(primes) /\ Len(primes) \in Nat /\ \A j \in DOMAIN primes : primes[j] \in Cubes
  BY <1>5
<1>7. \A j \in DOMAIN primes : [Flagged(primes[j]) EXCEPT !.PRIME = TRUE] \in CubeRecords
  BY <1>6 DEF Flagged, CubeRecords
<1>8. Primes(primes) \in [1 .. Len(primes) -> CubeRecords]
  BY <1>6, <1>7 DEF Primes
<1>9. Primes(primes) \in Seq(CubeRecords)
  BY <1>6, <1>8
<1> QED BY <1>9, MarkedFacts DEF primes, all

(* Every cost is that of a cover.                                          *)
LEMMA CostStep ==
  ASSUME IInv, FullInv, TypesInv', CostTypes, Next PROVE CostTypes'
<1> USE DEF CostTypes, costs
<1>1. /\ F \in Seq(CubeRecords) /\ E \in Seq(CubeRecords) /\ Foriginal \in Seq(CubeRecords)
      /\ F' \in Seq(CubeRecords) /\ CostOf(F').total \in Nat /\ CostOf(F).total \in Nat
  <2>1. F \in Seq(CubeRecords) /\ E \in Seq(CubeRecords) /\ Foriginal \in Seq(CubeRecords) /\ F' \in Seq(CubeRecords)
    BY DEF IInv, TypesInv
  <2> QED BY <2>1, CostFacts
<1>2. CASE UNCHANGED costs
  BY <1>2
<1>3. CASE Essential \/ SingleExpand \/ Irredundant2 \/ MvReduceEnd \/ Sparse
  <2>1. CASE Essential
    BY <1>1, <2>1 DEF Essential
  <2>2. CASE SingleExpand
    BY <1>1, <2>2 DEF SingleExpand
  <2>3. CASE Irredundant2
    BY <1>1, <2>3 DEF Irredundant2
  <2>4. CASE MvReduceEnd
    BY <1>1, <2>4 DEF MvReduceEnd
  <2>5. CASE Sparse
    BY <1>1, <2>5 DEF Sparse
  <2> QED BY <1>3, <2>1, <2>2, <2>3, <2>4, <2>5
<1>4. CASE IrredGasp
  <2> DEFINE m == IF F = <<>> THEN [ok |-> TRUE, cubes |-> Foriginal] ELSE Marked(Foriginal \o F, D)
  <2>1. Foriginal \o F \in Seq(CubeRecords)
    BY <1>1
  <2>2. m.cubes \in Seq(CubeRecords)
    BY <1>1, <2>1, MarkedFacts
  <2>3. /\ cost' = CostOf(m.cubes)
        /\ LoopOrSparse(m.cubes, Better(cost', best_cost)) \/ best_cost' = best_cost
    BY <1>4 DEF IrredGasp
  <2> HIDE DEF m
  <2>4. cost'.total \in Nat
    BY <2>2, <2>3, CostFacts
  <2>5. best_cost'.total \in Nat
    BY <1>1, <2>2, <2>3, LoopOrSparseCost
  <2> QED BY <2>4, <2>5
<1>5. CASE SuperGasp
  <2> DEFINE m == Marked(Primes(sf_dupl(Sets(Foriginal) \o Listed(AllPrimes(F)))), D)
  <2>1. /\ cost' = CostOf(m.cubes)
        /\ \/ F' = m.cubes /\ best_cost' = best_cost
           \/ \E again : LoopOrSparse(m.cubes, again)
    BY <1>5 DEF SuperGasp
  <2> HIDE DEF m
  <2>2. m.cubes \in Seq(CubeRecords)
    <3> HIDE DEF m
    <3>1. pc = "super_gasp"
      BY <1>5 DEF SuperGasp
    <3> QED BY <3>1, SuperGaspCubes DEF m
  <2>3. cost'.total \in Nat
    BY <2>1, <2>2, CostFacts
  <2>4. best_cost'.total \in Nat
    BY <1>1, <2>1, <2>2, LoopOrSparseCost
  <2> QED BY <2>3, <2>4
<1>6. ASSUME ~ UNCHANGED costs, ~ (Essential \/ SingleExpand \/ Irredundant2 \/ MvReduceEnd \/ Sparse),
             ~ IrredGasp, ~ SuperGasp
      PROVE  FALSE
  <2>1. CASE Begin \/ Expand \/ SkipCube \/ OpenCube \/ CloseCube \/ DropCovered
    BY <1>6, <2>1 DEF Begin, Expand, SkipCube, OpenCube, CloseCube, DropCovered
  <2>2. CASE SelectFeasible \/ NoneFeasible \/ RaiseFrequent \/ Mincov \/ HeuristicMincov
    BY <1>6, <2>2 DEF SelectFeasible, NoneFeasible, RaiseFrequent, Mincov, HeuristicMincov, RaisePart
  <2>3. CASE Irredundant1 \/ Reduce \/ ReduceCube \/ ReduceEnd
    BY <1>6, <2>3 DEF Irredundant1, Reduce, ReduceCube, ReduceEnd
  <2>4. CASE ReduceGasp \/ ExpandGasp \/ ExpandGaspEnd \/ MvReducePart \/ StartOver \/ Verify
    BY <1>6, <2>4 DEF ReduceGasp, ExpandGasp, ExpandGaspEnd, MvReducePart, StartOver, Verify
  <2>5. CASE Done
    BY <1>6, <2>5 DEF Done, vars
  <2> QED BY <1>6, <2>1, <2>2, <2>3, <2>4, <2>5 DEF Next
<1> QED BY <1>2, <1>3, <1>4, <1>5, <1>6

(* The steps of the expansion.                                             *)
LEMMA ExpansionStep ==
  ASSUME IInv, TypesInv', in' = in, ExpansionTypes, Next PROVE ExpansionTypes'
<1> USE DEF ExpansionTypes
<1>1. /\ in' = in /\ R' = R /\ F \in Seq(CubeRecords) /\ FREESET' \in Cubes
      /\ DOMAIN F = 1 .. Len(F) /\ Len(F) \in Nat
  BY DEF IInv, TypesInv, R
<1>2. CASE UNCHANGED expansion
  BY <1>1, <1>2 DEF expansion
<1>3. CASE Expand
  BY <1>1, <1>3 DEF Expand
<1>4. CASE OpenCube
  <2> DEFINE c     == F[i].set
             parts == essen_parts(F, Opened.BB, Opened.CC, c, Opened.FREESET)
  <2>1. /\ BB' = parts.BB /\ CC' = parts.CC /\ FREESET' = parts.FREESET /\ feas' = parts.CC
        /\ OVEREXPANDED_CUBE' = c \cup parts.FREESET /\ num_covered' = 0 /\ covered' = covered
    BY <1>4 DEF OpenCube
  <2>2. TypesInv /\ i \in DOMAIN F /\ c \in Cubes
    <3>1. TypesInv /\ pc = "next" /\ i <= Len(F)
      BY <1>4 DEF OpenCube, IInv
    <3>2. i \in DOMAIN F
      BY <3>1 DEF TypesInv
    <3> QED BY <1>1, <3>1, <3>2, SetsFacts
  <2>3. parts.BB \subseteq DOMAIN R /\ parts.CC \subseteq DOMAIN F
    BY <2>2, OpenedFacts, EssenWithin
  <2> HIDE DEF c, parts
  <2>4. OVEREXPANDED_CUBE' \in Cubes
    BY <1>1, <2>1, <2>2 DEF Cubes
  <2> QED BY <1>1, <2>1, <2>3, <2>4
<1>5. ASSUME pc = "feasible", covered' = covered \cup NowCovered,
             num_covered' = num_covered + Cardinality(NowCovered)
      PROVE  covered' \subseteq Nat /\ num_covered' \in Nat /\ Feasible \subseteq Nat
  <2>1. NowCovered \in SUBSET DOMAIN F /\ Feasible \subseteq DOMAIN F
    BY <1>5 DEF IInv, ExpansionInv, Covering, NowCovered, Feasible
  <2>2. IsFiniteSet(DOMAIN F) /\ DOMAIN F \subseteq Nat
    BY <1>1, FS_Interval
  <2>3. IsFiniteSet(NowCovered)
    BY <2>1, <2>2, FS_Subset
  <2>4. Cardinality(NowCovered) \in Nat
    BY <2>3, FS_CardinalityType
  <2>5. num_covered' \in Nat
    BY <1>5, <2>4
  <2>6. covered' \subseteq Nat /\ Feasible \subseteq Nat
    BY <1>5, <2>1, <2>2
  <2> QED BY <2>5, <2>6
<1>6. CASE SelectFeasible
  <2> DEFINE parts == essen_parts(F, BB, CC \ NowCovered, RAISE', FREESET \ RAISE')
  <2>1. /\ BB' = parts.BB /\ CC' = parts.CC /\ feas' = Feasible
        /\ OVEREXPANDED_CUBE' = OVEREXPANDED_CUBE
    BY <1>6 DEF SelectFeasible
  <2>2. covered' \subseteq Nat /\ num_covered' \in Nat /\ Feasible \subseteq Nat
    BY <1>5, <1>6 DEF SelectFeasible
  <2>3. parts.BB \subseteq BB /\ parts.CC \subseteq CC
    BY EssenWithin
  <2> HIDE DEF parts
  <2> QED BY <1>1, <2>1, <2>2, <2>3
<1>7. CASE NoneFeasible
  <2>1. BB' = BB /\ CC' \subseteq CC /\ feas' = {} /\ OVEREXPANDED_CUBE' = OVEREXPANDED_CUBE
    BY <1>7 DEF NoneFeasible
  <2>2. covered' \subseteq Nat /\ num_covered' \in Nat
    BY <1>5, <1>7 DEF NoneFeasible
  <2> QED BY <1>1, <2>1, <2>2
<1>8. ASSUME NEW part, RaisePart(part) PROVE ExpansionTypes'
  <2> DEFINE parts == essen_parts(F, BB, CC, RAISE \cup {part}, FREESET \ {part})
  <2>1. /\ BB' = parts.BB /\ CC' = parts.CC /\ feas' = feas /\ covered' = covered
        /\ num_covered' = num_covered /\ OVEREXPANDED_CUBE' = OVEREXPANDED_CUBE
    BY <1>8 DEF RaisePart
  <2>2. parts.BB \subseteq BB /\ parts.CC \subseteq CC
    BY EssenWithin
  <2> HIDE DEF parts
  <2> QED BY <1>1, <2>1, <2>2
<1>9. CASE Mincov
  BY <1>1, <1>9 DEF Mincov
<1>10. CASE CloseCube
  BY <1>1, <1>10 DEF CloseCube
<1>11. CASE Begin \/ SkipCube \/ DropCovered \/ Irredundant1 \/ Essential \/ SingleExpand \/ Reduce \/ ReduceCube
            \/ ReduceEnd \/ Irredundant2
  <2>1. UNCHANGED expansion
    BY <1>11 DEF Begin, SkipCube, DropCovered, Irredundant1, Essential, SingleExpand, Reduce, ReduceCube,
       ReduceEnd, Irredundant2
  <2> QED BY <1>2, <2>1
<1>12. CASE ReduceGasp \/ ExpandGasp \/ ExpandGaspEnd \/ IrredGasp \/ SuperGasp
  <2>1. UNCHANGED expansion
    BY <1>12 DEF ReduceGasp, ExpandGasp, ExpandGaspEnd, IrredGasp, SuperGasp
  <2> QED BY <1>2, <2>1
<1>13. CASE MvReducePart \/ MvReduceEnd \/ Sparse \/ StartOver \/ Verify
  <2>1. UNCHANGED expansion
    BY <1>13 DEF MvReducePart, MvReduceEnd, Sparse, StartOver, Verify
  <2> QED BY <1>2, <2>1
<1>14. CASE Done
  BY <1>2, <1>14 DEF Done, vars
<1> QED BY <1>3, <1>4, <1>6, <1>7, <1>8, <1>9, <1>10, <1>11, <1>12, <1>13, <1>14 DEF Next, RaiseFrequent, HeuristicMincov

(* What the variables hold, whatever the covers and the options; above all *)
(* that no cube of the cover ever lacks a whole binary variable.           *)
THEOREM TypesHold == Spec => []TypeOK
<1> DEFINE More == ScalarTypes /\ CostTypes /\ ExpansionTypes
<1>1. Init => More
  <2> SUFFICES ASSUME Init PROVE More
    OBVIOUS
  <2>1. in.opt \in Options
    BY InputsAssumption DEF Init
  <2>2. ScalarTypes
    BY <2>1 DEF Init, ScalarTypes, Options
  <2> QED BY <2>2 DEF Init, CostTypes, NoCost, ExpansionTypes, Cubes
<1>2. IInv /\ FullInv /\ IInv' /\ More /\ [Next]_vars => More'
  <2> SUFFICES ASSUME IInv, FullInv, IInv', More, [Next]_vars PROVE More'
    OBVIOUS
  <2>1. CASE Next
    BY <2>1, ScalarStep, CostStep, ExpansionStep DEF IInv
  <2>2. CASE UNCHANGED vars
    BY <2>2 DEF vars, main, costs, expansion, ScalarTypes, CostTypes, ExpansionTypes, R
  <2> QED BY <2>1, <2>2
<1>3. IInv /\ FullInv /\ More => TypeOK
  <2> SUFFICES ASSUME IInv, FullInv, More PROVE TypeOK
    OBVIOUS
  <2>1. FullCubes
    BY DEF FullInv, FullCubes, AllFull
  <2> QED BY <2>1 DEF IInv, TypesInv, FullInv, ScalarTypes, CostTypes, ExpansionTypes, TypeOK
<1> HIDE DEF More
<1> QED BY InitIInv, InitFull, NextIInv, NextFull, <1>1, <1>2, <1>3, PTL DEF Spec

(***************************************************************************)
(* What expand gives up before mincov decides.                             *)
(***************************************************************************)

(* Every part that essen_parts takes from the free ones would make the     *)
(* cube meet a cube of the OFF-set: they are at distance 1, and it is the  *)
(* variable of that part that keeps them apart.                            *)
LEMMA LoweredRightly ==
  ASSUME NEW A, NEW B \in SUBSET DOMAIN R, NEW C, NEW raise, NEW free,
         NEW p \in free, p \notin essen_parts(A, B, C, raise, free).FREESET
  PROVE  ~ Clear(raise \cup {p})
<1> DEFINE low == free \ ForcedLow(B, raise)
<1>1. p \in ForcedLow(B, raise)
  <2>1. CASE ForcedLow(B, raise) = {}
    <3>1. essen_parts(A, B, C, raise, free) = [BB |-> B \ Near(B, raise), CC |-> C, FREESET |-> free]
      BY <2>1 DEF essen_parts
    <3> QED BY <3>1
  <2>2. CASE ForcedLow(B, raise) # {}
    <3>1. essen_parts(A, B, C, raise, free).FREESET = low
      BY <2>2 DEF essen_parts
    <3> QED BY <3>1
  <2> QED BY <2>1, <2>2
<1>2. PICK b \in Near(B, raise) : p \in force_lower(R[b], raise)
  BY <1>1 DEF ForcedLow
<1>3. b \in DOMAIN R /\ cdist01(R[b], raise) = 1
  BY <1>2 DEF Near
<1> DEFINE K == Conflicts(R[b], raise)
<1>4. IsFiniteSet(K) /\ Cardinality(K) = 1
  <2>1. K \in SUBSET Vars
    BY DEF Conflicts
  <2>2. IsFiniteSet(K)
    BY <2>1, PartsFinite, FS_Subset
  <2> QED BY <1>3, <2>2 DEF cdist01, cdist
<1>5. PICK v : K = {v}
  BY <1>4, FS_Singleton
<1>6. v \in Vars /\ p \in R[b] /\ p \in var_mask[v]
  BY <1>2, <1>5 DEF force_lower, InVars, Conflicts
<1>7. \A u \in Vars : u # v => var_mask[u] \cap R[b] \cap raise # {}
  BY <1>5 DEF Conflicts
<1>8. cdist0(R[b], raise \cup {p})
  <2> SUFFICES ASSUME NEW u \in Vars PROVE var_mask[u] \cap R[b] \cap (raise \cup {p}) # {}
    BY DEF cdist0
  <2>1. CASE u = v
    BY <1>6, <2>1
  <2>2. CASE u # v
    BY <1>7, <2>2
  <2> QED BY <2>1, <2>2
<1> QED BY <1>3, <1>8 DEF Clear

(* All the parts that are neither raised nor free are impossible.          *)
OnlyForced(raise, free) == \A p \in Parts \ (raise \cup free) : ~ Clear(raise \cup {p})

(* Raising more, with no part lowered, keeps it so.                        *)
LEMMA StaysForced ==
  ASSUME NEW raise, NEW free, OnlyForced(raise, free),
         NEW raise2, NEW free2, raise \subseteq raise2, raise \cup free \subseteq raise2 \cup free2
  PROVE  OnlyForced(raise2, free2)
<1> SUFFICES ASSUME NEW p \in Parts \ (raise2 \cup free2), Clear(raise2 \cup {p}) PROVE FALSE
  BY DEF OnlyForced
<1>1. raise \cup {p} \subseteq raise2 \cup {p}
  OBVIOUS
<1>2. Clear(raise \cup {p})
  BY <1>1, ClearMonotone
<1> QED BY <1>2 DEF OnlyForced

(* What essen_parts lowers is forced.                                      *)
LEMMA EssenForced ==
  ASSUME NEW A, NEW B \in SUBSET DOMAIN R, NEW C, NEW raise, NEW free, OnlyForced(raise, free)
  PROVE  OnlyForced(raise, essen_parts(A, B, C, raise, free).FREESET)
<1> DEFINE left == essen_parts(A, B, C, raise, free).FREESET
<1>1. \A p \in free : p \notin left => ~ Clear(raise \cup {p})
  BY LoweredRightly
<1> HIDE DEF left
<1>2. OnlyForced(raise, left)
  BY <1>1 DEF OnlyForced
<1> QED BY <1>2 DEF left

(* Raising keeps it, whatever the parts are raised for.                    *)
LEMMA RaisingForced ==
  ASSUME IInv, NoneGivenUp, call # "sparse", BB # {} \/ FREESET # {},
         SelectFeasible \/ NoneFeasible \/ RaiseFrequent \/ HeuristicMincov
  PROVE  OnlyForced(RAISE', FREESET')
<1>1. pc \in {"feasible", "raise"}
  BY DEF SelectFeasible, NoneFeasible, RaiseFrequent, HeuristicMincov
<1>2. OnlyForced(RAISE, FREESET)
  BY <1>1 DEF NoneGivenUp, OnlyForced
<1>3. BB \in SUBSET DOMAIN R
  BY <1>1 DEF IInv, ExpansionInv, Blocking
<1>4. CASE SelectFeasible
  <2> DEFINE raise2 == Raised \cup F[BestFeasible].set
             C      == CC \ NowCovered
             free2  == FREESET \ raise2
  <2>1. RAISE' = raise2 /\ FREESET' = essen_parts(F, BB, C, raise2, free2).FREESET
    <3>1. RAISE' = raise2
      BY <1>4 DEF SelectFeasible
    <3> QED BY <1>4, <3>1 DEF SelectFeasible
  <2>2. RAISE \subseteq raise2 /\ RAISE \cup FREESET \subseteq raise2 \cup free2
    BY DEF Raised
  <2> HIDE DEF raise2, free2, C
  <2>3. OnlyForced(raise2, free2)
    BY <1>2, <2>2, StaysForced
  <2>4. OnlyForced(raise2, essen_parts(F, BB, C, raise2, free2).FREESET)
    BY <1>3, <2>3, EssenForced
  <2> QED BY <2>1, <2>4
<1>5. CASE NoneFeasible
  <2>1. RAISE' = Raised /\ FREESET' = FREESET \ Raised /\ RAISE \subseteq Raised
    BY <1>5 DEF NoneFeasible, Raised
  <2>2. RAISE \cup FREESET \subseteq Raised \cup (FREESET \ Raised)
    BY <2>1
  <2> QED BY <1>2, <2>1, <2>2, StaysForced
<1>6. ASSUME NEW part, RaisePart(part) PROVE OnlyForced(RAISE', FREESET')
  <2> DEFINE raise2 == RAISE \cup {part}
             free2  == FREESET \ {part}
  <2>1. RAISE' = raise2 /\ FREESET' = essen_parts(F, BB, CC, raise2, free2).FREESET
    BY <1>6 DEF RaisePart
  <2>2. RAISE \subseteq raise2 /\ RAISE \cup FREESET \subseteq raise2 \cup free2
    OBVIOUS
  <2> HIDE DEF raise2, free2
  <2>3. OnlyForced(raise2, free2)
    BY <1>2, <2>2, StaysForced
  <2>4. OnlyForced(raise2, essen_parts(F, BB, CC, raise2, free2).FREESET)
    BY <1>3, <2>3, EssenForced
  <2> QED BY <2>1, <2>4
<1> QED BY <1>4, <1>5, <1>6 DEF RaiseFrequent, HeuristicMincov

(* Once nothing blocks and nothing is free it stays so to the end of the   *)
(* expansion: NoneGivenUp claims nothing after mincov.                     *)
LEMMA RaisingOver ==
  ASSUME IInv, BB = {}, FREESET = {},
         SelectFeasible \/ NoneFeasible \/ RaiseFrequent \/ HeuristicMincov
  PROVE  BB' = {} /\ FREESET' = {}
<1>1. pc \in {"feasible", "raise"}
  BY DEF SelectFeasible, NoneFeasible, RaiseFrequent, HeuristicMincov
<1>2. \A C, raise, free : free = {} => /\ essen_parts(F, {}, C, raise, free).BB = {}
                                       /\ essen_parts(F, {}, C, raise, free).FREESET = {}
  <2> SUFFICES ASSUME NEW C, NEW raise PROVE essen_parts(F, {}, C, raise, {}).BB = {} /\ essen_parts(F, {}, C, raise, {}).FREESET = {}
    OBVIOUS
  <2>1. ForcedLow({}, raise) = {} /\ Near({}, raise) = {}
    BY DEF ForcedLow, Near
  <2>2. essen_parts(F, {}, C, raise, {}) = [BB |-> {}, CC |-> C, FREESET |-> {}]
    BY <2>1 DEF essen_parts
  <2> QED BY <2>2
<1>4. CASE SelectFeasible
  <2>1. \E C, raise : /\ BB' = essen_parts(F, BB, C, raise, FREESET \ raise).BB
                      /\ FREESET' = essen_parts(F, BB, C, raise, FREESET \ raise).FREESET
    BY <1>4 DEF SelectFeasible
  <2> QED BY <1>2, <2>1
<1>5. CASE NoneFeasible
  BY <1>5 DEF NoneFeasible
<1>6. ASSUME NEW part, RaisePart(part) PROVE BB' = {} /\ FREESET' = {}
  <2>1. \E raise : /\ BB' = essen_parts(F, BB, CC, raise, FREESET \ {part}).BB
                   /\ FREESET' = essen_parts(F, BB, CC, raise, FREESET \ {part}).FREESET
    BY <1>6 DEF RaisePart
  <2> QED BY <1>2, <2>1
<1> QED BY <1>4, <1>5, <1>6 DEF RaiseFrequent, HeuristicMincov

(* At the start everything the cube lacks is free, but for what            *)
(* essen_parts takes away at once.                                         *)
LEMMA OpenForced ==
  ASSUME IInv, OpenCube, call # "sparse" PROVE OnlyForced(RAISE', FREESET')
<1> DEFINE c == F[i].set
<1>1. RAISE' = c /\ FREESET' = essen_parts(F, Opened.BB, Opened.CC, c, Opened.FREESET).FREESET
  BY DEF OpenCube
<1>2. Opened.BB = DOMAIN R /\ Opened.FREESET = Parts \ c
  BY DEF Opened
<1> HIDE DEF c
<1>3. OnlyForced(c, Opened.FREESET)
  BY <1>2 DEF OnlyForced
<1>4. OnlyForced(c, essen_parts(F, Opened.BB, Opened.CC, c, Opened.FREESET).FREESET)
  BY <1>2, <1>3, EssenForced
<1> QED BY <1>1, <1>4

(* Every step keeps NoneGivenUp; mincov leaves nothing free and nothing    *)
(* that blocks, so that it ends the claim.                                 *)
LEMMA NextForced == IInv /\ NoneGivenUp /\ [Next]_vars => NoneGivenUp'
<1> SUFFICES ASSUME IInv, NoneGivenUp, [Next]_vars,
                    pc' \in {"feasible", "raise"}, call' # "sparse", BB' # {} \/ FREESET' # {}
             PROVE  OnlyForced(RAISE, FREESET)'
  BY DEF NoneGivenUp, OnlyForced
<1>1. CASE UNCHANGED vars
  BY <1>1 DEF vars, main, costs, expansion, NoneGivenUp, OnlyForced, Clear, R
<1>2. CASE OpenCube
  <2>1. call' = call /\ in' = in
    BY <1>2 DEF OpenCube, main
  <2>2. OnlyForced(RAISE', FREESET')
    BY <1>2, <2>1, OpenForced
  <2> QED BY <2>1, <2>2 DEF OnlyForced, Clear, R
<1>3. CASE SelectFeasible \/ NoneFeasible \/ RaiseFrequent \/ HeuristicMincov
  <2>1. call' = call /\ in' = in
    BY <1>3 DEF SelectFeasible, NoneFeasible, RaiseFrequent, HeuristicMincov, RaisePart, main
  <2>2. BB # {} \/ FREESET # {}
    BY <1>3, RaisingOver
  <2>3. OnlyForced(RAISE', FREESET')
    BY <1>3, <2>1, <2>2, RaisingForced
  <2> QED BY <2>1, <2>3 DEF OnlyForced, Clear, R
<1>4. CASE Mincov
  BY <1>4 DEF Mincov
<1>5. ASSUME Next, ~ OpenCube, ~ (SelectFeasible \/ NoneFeasible \/ RaiseFrequent \/ HeuristicMincov),
             ~ Mincov, ~ UNCHANGED vars
      PROVE  FALSE
  <2> USE <1>5
  <2>1. CASE Begin \/ Expand \/ SkipCube \/ CloseCube \/ DropCovered
    BY <2>1 DEF Begin, Expand, SkipCube, CloseCube, DropCovered
  <2>2. CASE Irredundant1 \/ Essential \/ SingleExpand \/ Reduce \/ ReduceCube \/ ReduceEnd \/ Irredundant2
    BY <2>2 DEF Irredundant1, Essential, SingleExpand, Reduce, ReduceCube, ReduceEnd, Irredundant2
  <2>3. CASE ReduceGasp \/ ExpandGasp \/ ExpandGaspEnd
    BY <2>3 DEF ReduceGasp, ExpandGasp, ExpandGaspEnd
  <2>4. CASE IrredGasp \/ SuperGasp
    BY <2>4 DEF IrredGasp, SuperGasp, LoopOrSparse
  <2>5. CASE MvReducePart \/ MvReduceEnd \/ Sparse \/ StartOver \/ Verify
    BY <2>5 DEF MvReducePart, MvReduceEnd, Sparse, StartOver, Verify
  <2> QED BY <2>1, <2>2, <2>3, <2>4, <2>5 DEF Next, Done
<1> QED BY <1>1, <1>2, <1>3, <1>4, <1>5

(* Whatever the covers and the options: until mincov decides, expand gives *)
(* up no part that the cube could still have had.                          *)
THEOREM NoneGivenUpHolds == Spec => []NoneGivenUp
<1>1. Init => NoneGivenUp
  BY DEF Init, NoneGivenUp
<1> QED BY InitIInv, InitFull, NextIInv, NextFull, NextForced, <1>1, PTL DEF Spec

(***************************************************************************)
(* No point of the ON-set is lost.  What a cover of records contains, and  *)
(* when another one contains as much.                                      *)
(***************************************************************************)
PointsOf(A)      == PtsOf(Sets(A))
BelowCover(A, B) == \A k \in DOMAIN A : \E j \in DOMAIN B : A[k].set \subseteq B[j].set

(* A point is in a cover if it is in the set of a cube of it.              *)
LEMMA InRecords ==
  ASSUME NEW x, NEW A
  PROVE  x \in PointsOf(A) <=> x \in Points /\ \E k \in DOMAIN A : x \subseteq A[k].set
<1>1. x \in PtsOf(Sets(A)) <=> x \in Points /\ \E k \in DOMAIN Sets(A) : x \subseteq Sets(A)[k]
  BY InCover
<1>2. DOMAIN Sets(A) = DOMAIN A /\ \A k \in DOMAIN A : Sets(A)[k] = A[k].set
  BY DEF Sets
<1> QED BY <1>1, <1>2 DEF PointsOf

(* Larger cubes contain as much.                                           *)
LEMMA BelowPoints ==
  ASSUME NEW A, NEW B, BelowCover(A, B) PROVE PointsOf(A) \subseteq PointsOf(B)
<1> SUFFICES ASSUME NEW x \in PointsOf(A) PROVE x \in PointsOf(B)
  OBVIOUS
<1>1. PICK k \in DOMAIN A : x \subseteq A[k].set /\ x \in Points
  BY InRecords
<1>2. PICK j \in DOMAIN B : A[k].set \subseteq B[j].set
  BY DEF BelowCover
<1> QED BY <1>1, <1>2, InRecords

(* So do the same cubes in another order.                                  *)
LEMMA FromPoints ==
  ASSUME NEW A, NEW B, From(A, B) PROVE PointsOf(A) \subseteq PointsOf(B)
BY BelowPoints DEF From, BelowCover

(* Two covers together contain what each of them does.                     *)
LEMMA ConcatPoints ==
  ASSUME NEW A \in Seq(CubeRecords), NEW B \in Seq(CubeRecords)
  PROVE  /\ A \o B \in Seq(CubeRecords)
         /\ PointsOf(A) \subseteq PointsOf(A \o B) /\ PointsOf(B) \subseteq PointsOf(A \o B)
<1>1. A \o B \in Seq(CubeRecords)
  OBVIOUS
<1>2. \A k \in DOMAIN A : k \in DOMAIN (A \o B) /\ (A \o B)[k] = A[k]
  OBVIOUS
<1>3. \A k \in DOMAIN B : Len(A) + k \in DOMAIN (A \o B) /\ (A \o B)[Len(A) + k] = B[k]
  OBVIOUS
<1>4. BelowCover(A, A \o B)
  BY <1>2 DEF BelowCover
<1>5. BelowCover(B, A \o B)
  BY <1>3 DEF BelowCover
<1> QED BY <1>1, <1>4, <1>5, BelowPoints

(* The same of covers without flags.                                       *)
LEMMA ConcatPts ==
  ASSUME NEW A \in Seq(Cubes), NEW B \in Seq(Cubes)
  PROVE  /\ A \o B \in Seq(Cubes)
         /\ PtsOf(A) \subseteq PtsOf(A \o B) /\ PtsOf(B) \subseteq PtsOf(A \o B)
         /\ PtsOf(A \o B) \subseteq PtsOf(A) \cup PtsOf(B)
<1>1. A \o B \in Seq(Cubes)
  OBVIOUS
<1>2. \A k \in DOMAIN A : k \in DOMAIN (A \o B) /\ (A \o B)[k] = A[k]
  OBVIOUS
<1>3. \A k \in DOMAIN B : Len(A) + k \in DOMAIN (A \o B) /\ (A \o B)[Len(A) + k] = B[k]
  OBVIOUS
<1>4. ASSUME NEW k \in DOMAIN (A \o B)
      PROVE  \/ k \in DOMAIN A /\ (A \o B)[k] = A[k]
             \/ k - Len(A) \in DOMAIN B /\ (A \o B)[k] = B[k - Len(A)]
  <2>1. k \in 1 .. Len(A) + Len(B) /\ Len(A) \in Nat /\ Len(B) \in Nat
    OBVIOUS
  <2>2. CASE k <= Len(A)
    BY <2>1, <2>2
  <2>3. CASE k > Len(A)
    <3>1. k - Len(A) \in 1 .. Len(B)
      BY <2>1, <2>3
    <3>2. (A \o B)[k] = B[k - Len(A)]
      BY <2>1, <2>3
    <3> QED BY <3>1, <3>2
  <2> QED BY <2>1, <2>2, <2>3
<1>5. Below(A, A \o B)
  BY <1>2 DEF Below
<1>6. Below(B, A \o B)
  BY <1>3 DEF Below
<1>7. ASSUME NEW x \in PtsOf(A \o B) PROVE x \in PtsOf(A) \cup PtsOf(B)
  <2>1. PICK k \in DOMAIN (A \o B) : x \subseteq (A \o B)[k] /\ x \in Points
    BY InCover
  <2>2. CASE k \in DOMAIN A /\ (A \o B)[k] = A[k]
    BY <2>1, <2>2, InCover
  <2>3. CASE k - Len(A) \in DOMAIN B /\ (A \o B)[k] = B[k - Len(A)]
    BY <2>1, <2>3, InCover
  <2> QED BY <1>4, <2>2, <2>3
<1> QED BY <1>1, <1>5, <1>6, <1>7, BelowPts

(* Cubes as a cover with cleared flags.                                    *)
LEMMA CubedPoints ==
  ASSUME NEW A \in Seq(Cubes) PROVE PointsOf(Cubed(A)) = PtsOf(A)
<1>1. DOMAIN Cubed(A) = DOMAIN A /\ \A j \in DOMAIN A : Cubed(A)[j].set = A[j]
  BY CubedFacts
<1>2. ASSUME NEW x PROVE x \in PointsOf(Cubed(A)) <=> x \in PtsOf(A)
  BY <1>1, InRecords, InCover
<1> QED BY <1>2

(* The cubes that are kept, and all the others in another cover, contain   *)
(* what the cover did.                                                     *)
LEMMA KeepPoints ==
  ASSUME NEW A \in Seq(CubeRecords), NEW I \in SUBSET DOMAIN A, NEW S,
         \A j \in DOMAIN A : j \notin I => Pts(A[j].set) \subseteq S
  PROVE  PointsOf(A) \subseteq PointsOf(Keep(A, I)) \cup S
<1> SUFFICES ASSUME NEW x \in PointsOf(A), x \notin S PROVE x \in PointsOf(Keep(A, I))
  OBVIOUS
<1>1. PICK j \in DOMAIN A : x \subseteq A[j].set /\ x \in Points
  BY InRecords
<1>2. j \in I
  BY <1>1 DEF Pts
<1>3. PICK k \in DOMAIN Keep(A, I) : Keep(A, I)[k] = A[j]
  BY <1>2, KeepFacts
<1> QED BY <1>1, <1>3, InRecords

(* A cube without a part in some variable has no points.                   *)
LEMMA NoPoints ==
  ASSUME NEW c, NEW v \in Vars, c \cap var_mask[v] = {} PROVE Pts(c) = {}
<1> SUFFICES ASSUME NEW x \in Pts(c) PROVE FALSE
  OBVIOUS
<1>1. x \in Points /\ x \subseteq c
  BY DEF Pts
<1>2. PICK p : x \cap var_mask[v] = {p}
  BY <1>1, PointFacts
<1> QED BY <1>1, <1>2

(***************************************************************************)
(* What the steps keep of the points of a cover.                           *)
(***************************************************************************)
LEMMA UnwrappedKept ==
  ASSUME NEW A \in Seq(Cubes) PROVE PtsOf(A) \subseteq PtsOf(Unwrapped(A))
<1> DEFINE U == unravel(A, output)
<1>1. U \in Seq(Cubes)
  BY UnravelFacts
<1>2. output \in Nat
  BY CubeAssumption DEF output
<1>3. PtsOf(A) \subseteq PtsOf(U)
  BY <1>2, UnravelKept
<1> HIDE DEF U
<1>4. PtsOf(U) \subseteq PtsOf(sf_contain(U))
  BY <1>1, ContainKept, BelowPts
<1>5. Unwrapped(A) = sf_contain(U) \/ Unwrapped(A) = A
  BY DEF Unwrapped, U
<1> QED BY <1>3, <1>4, <1>5

(* irredundant keeps all the points that are not don't cares.              *)
LEMMA MarkedKept ==
  ASSUME NEW A \in Seq(CubeRecords), NEW dc \in Seq(Cubes), Marked(A, dc).ok
  PROVE  PointsOf(A) \subseteq PointsOf(Marked(A, dc).cubes) \cup PtsOf(dc)
<1> DEFINE m == mark_irredundant(Sets(A), dc)
           M == [j \in DOMAIN A |-> [A[j] EXCEPT !.RELESSEN = (j \in m.relessen)]]
<1>1. Sets(A) \in Seq(Cubes) /\ DOMAIN Sets(A) = DOMAIN A
  BY SetsFacts
<1>2. m.ok /\ Marked(A, dc).cubes = Keep(M, m.active)
  BY DEF Marked, Mark
<1>3. m.active \in SUBSET DOMAIN A
      /\ \A q \in PtsOf(Sets(A)) : q \in PtsOf(dc) \/ \E j \in m.active : q \subseteq Sets(A)[j]
  BY <1>1, <1>2, MarkSound
<1>4. \A j \in DOMAIN A : A[j] \in CubeRecords
  OBVIOUS
<1>5. DOMAIN M = 1 .. Len(A) /\ Len(A) \in Nat /\ \A j \in DOMAIN A : M[j].set = A[j].set
  BY <1>4 DEF CubeRecords
<1> HIDE DEF m, M
<1>6. M \in Seq(Range(M)) /\ DOMAIN M = DOMAIN A
  <2>1. \A j \in DOMAIN M : M[j] \in Range(M)
    BY DEF Range
  <2>2. M = [j \in 1 .. Len(A) |-> M[j]]
    BY <1>5 DEF M
  <2>3. M \in [1 .. Len(A) -> Range(M)]
    BY <1>5, <2>1, <2>2
  <2> QED BY <1>5, <2>3
<1> SUFFICES ASSUME NEW q \in PointsOf(A), q \notin PtsOf(dc)
             PROVE  q \in PointsOf(Keep(M, m.active))
  BY <1>2
<1>7. PICK j \in m.active : q \subseteq Sets(A)[j]
  BY <1>3 DEF PointsOf
<1>8. q \in Points
  BY InRecords
<1>9. PICK k \in DOMAIN Keep(M, m.active) : Keep(M, m.active)[k] = M[j]
  <2>1. m.active \in SUBSET DOMAIN M
    BY <1>3, <1>6
  <2>2. \A l \in m.active : \E k \in DOMAIN Keep(M, m.active) : Keep(M, m.active)[k] = M[l]
    BY <1>6, <2>1, KeepFacts
  <2> QED BY <1>7, <2>2
<1>10. q \subseteq M[j].set
  BY <1>3, <1>5, <1>7 DEF Sets
<1> QED BY <1>8, <1>9, <1>10, InRecords

(* What a reduced cube loses the other cubes and the don't cares have.     *)
LEMMA ReductionKept ==
  ASSUME NEW A \in Seq(Cubes), NEW dc \in Seq(Cubes), NEW j \in DOMAIN A,
         NEW q \in Pts(A[j]), q \notin PtsOf(dc)
  PROVE  \/ q \subseteq Reduction(A, dc, j)
         \/ \E k \in DOMAIN A \ {j} : q \subseteq A[k]
<1>1. A[j] \in Cubes
  OBVIOUS
<1>2. /\ Without(A, j) \in Seq(Cubes)
      /\ \A l \in DOMAIN Without(A, j) : \E k \in DOMAIN A \ {j} : Without(A, j)[l] = A[k]
  <2> DEFINE I == DOMAIN A \ {j}
  <2>1. I \in SUBSET DOMAIN A
    OBVIOUS
  <2> HIDE DEF I
  <2>2. Keep(A, I) \in Seq(Cubes) /\ \A l \in DOMAIN Keep(A, I) : \E k \in I : Keep(A, I)[l] = A[k]
    BY <2>1, KeepFacts
  <2> QED BY <2>2 DEF Without, I
<1>3. Pts(A[j]) \subseteq Pts(Reduction(A, dc, j)) \cup PtsOf(Without(A, j)) \cup PtsOf(dc)
  BY <1>1, <1>2, ReduceCubeFacts DEF Reduction
<1>4. CASE q \in Pts(Reduction(A, dc, j))
  BY <1>4 DEF Pts
<1>5. CASE q \in PtsOf(Without(A, j))
  BY <1>2, <1>5, InCover
<1> QED BY <1>3, <1>4, <1>5

(* Taking the reduction of a cube in its place loses no points.            *)
LEMMA ReducedPoints ==
  ASSUME NEW A \in Seq(CubeRecords), NEW dc \in Seq(Cubes), NEW j \in DOMAIN A, NEW B,
         DOMAIN B = DOMAIN A, B[j].set = Reduction(Sets(A), dc, j),
         \A k \in DOMAIN A \ {j} : B[k].set = A[k].set
  PROVE  PointsOf(A) \subseteq PointsOf(B) \cup PtsOf(dc)
<1> SUFFICES ASSUME NEW q \in PointsOf(A), q \notin PtsOf(dc) PROVE q \in PointsOf(B)
  OBVIOUS
<1>1. PICK k \in DOMAIN A : q \subseteq A[k].set /\ q \in Points
  BY InRecords
<1>2. Sets(A) \in Seq(Cubes) /\ DOMAIN Sets(A) = DOMAIN A /\ \A l \in DOMAIN A : Sets(A)[l] = A[l].set
  BY SetsFacts
<1>3. CASE k # j
  BY <1>1, <1>3, InRecords
<1>4. CASE k = j
  <2>1. q \in Pts(Sets(A)[j])
    BY <1>1, <1>2, <1>4 DEF Pts
  <2>2. q \subseteq Reduction(Sets(A), dc, j) \/ \E l \in DOMAIN A \ {j} : q \subseteq A[l].set
    <3> DEFINE S == Sets(A)
    <3>1. S \in Seq(Cubes) /\ j \in DOMAIN S /\ q \in Pts(S[j]) /\ dc \in Seq(Cubes) /\ q \notin PtsOf(dc)
      BY <1>2, <2>1
    <3> HIDE DEF S
    <3>2. q \subseteq Reduction(S, dc, j) \/ \E l \in DOMAIN S \ {j} : q \subseteq S[l]
      BY ONLY <3>1, ReductionKept
    <3> QED BY <1>2, <3>2 DEF S
  <2> QED BY <1>1, <2>2, InRecords
<1> QED BY <1>3, <1>4

(***************************************************************************)
(* The invariant of the ON-set.  Until the essential primes are set aside  *)
(* the don't cares are those of the input, afterwards they have grown by   *)
(* the essential primes at most.  A cube that is covered lies in a prime   *)
(* that stays, or in the cube that is being raised; that one is not        *)
(* covered, and what may still be covered is not prime.                    *)
(***************************************************************************)
Raising   == pc \in {"feasible", "raise"}
Expanding == pc = "next" \/ Raising

CallInv ==
  /\ call = "initial" /\ (Expanding \/ pc \in {"expand", "expanded", "essential"}) => D = in.D
  /\ pc \in {"essential", "reduce", "reducing", "gasp", "expand_gasp", "super_gasp"} => call # "sparse"
  /\ pc = "essential" => call = "initial"

EssenInv == pc \notin {"begin", "fatal"} => PtsOf(D) \subseteq PtsOf(in.D) \cup PointsOf(E)

(* How a covered cube is made up for.                                      *)
Within(j) == \/ \E k \in DOMAIN F \ covered : F[k].PRIME /\ F[j].set \subseteq F[k].set
             \/ Raising /\ F[j].set \subseteq RAISE
CoveredInv == Expanding => covered \subseteq DOMAIN F /\ \A j \in covered : Within(j)
RaisingInv == Raising => i \notin covered /\ F[i].set \subseteq RAISE /\ \A j \in CC : ~ F[j].PRIME

(* What has to contain the ON-set.                                         *)
Held == PointsOf(IF InGasp THEN Foriginal ELSE F) \cup PtsOf(IF Final THEN in.D ELSE D)
Kept == pc # "fatal" => OnsetKept

KeptInv == CallInv /\ EssenInv /\ CoveredInv /\ RaisingInv /\ Kept

(* The don't cares and the steps go together.                              *)
LEMMA CallStep ==
  ASSUME CallInv, Next PROVE CallInv'
<1> USE DEF main, costs, expansion, CallInv, Expanding, Raising
<1>1. CASE Begin
  BY <1>1 DEF Begin
<1>2. CASE Expand \/ SkipCube \/ OpenCube
  BY <1>2 DEF Expand, SkipCube, OpenCube
<1>3. CASE SelectFeasible \/ NoneFeasible
  BY <1>3 DEF SelectFeasible, NoneFeasible
<1>4. CASE RaiseFrequent \/ HeuristicMincov
  BY <1>4 DEF RaiseFrequent, HeuristicMincov, RaisePart
<1>5. CASE Mincov \/ CloseCube \/ DropCovered
  BY <1>5 DEF Mincov, CloseCube, DropCovered
<1>6. CASE Irredundant1 \/ Essential \/ SingleExpand
  BY <1>6 DEF Irredundant1, Essential, SingleExpand
<1>7. CASE Reduce \/ ReduceCube \/ ReduceEnd \/ Irredundant2 \/ ReduceGasp
  BY <1>7 DEF Reduce, ReduceCube, ReduceEnd, Irredundant2, ReduceGasp
<1>8. CASE ExpandGasp \/ ExpandGaspEnd
  BY <1>8 DEF ExpandGasp, ExpandGaspEnd
<1>9. CASE IrredGasp \/ SuperGasp
  BY <1>9 DEF IrredGasp, SuperGasp, LoopOrSparse
<1>10. CASE MvReducePart \/ MvReduceEnd \/ Sparse \/ StartOver \/ Verify
  BY <1>10 DEF MvReducePart, MvReduceEnd, Sparse, StartOver, Verify
<1>11. CASE Done
  BY <1>11 DEF Done, vars
<1> QED BY <1>1, <1>2, <1>3, <1>4, <1>5, <1>6, <1>7, <1>8, <1>9, <1>10, <1>11 DEF Next

(* The essential primes of F, taken out of it and added to the don't cares.*)
LEMMA EssentialSplit ==
  ASSUME IInv, FullInv, Essential, CallInv
  PROVE  /\ PtsOf(D') \subseteq PtsOf(in.D) \cup PointsOf(E')
         /\ PtsOf(D) \subseteq PtsOf(D')
         /\ PointsOf(F) \subseteq PointsOf(F') \cup PtsOf(D')
<1>1. F \in Seq(CubeRecords) /\ D \in Seq(Cubes) /\ D = in.D
  BY DEF IInv, TypesInv, FullInv, Essential, CallInv
<1>2. PICK essen : /\ essen \in SUBSET DOMAIN F
                   /\ E' = Keep(F, essen) /\ F' = Keep(F, DOMAIN F \ essen)
                   /\ D' = D \o Keep(Sets(F), essen)
  BY DEF Essential, Essentials
<1>3. Sets(F) \in Seq(Cubes) /\ DOMAIN Sets(F) = DOMAIN F /\ \A j \in DOMAIN F : Sets(F)[j] = F[j].set
  BY <1>1, SetsFacts
<1>4. /\ Keep(Sets(F), essen) \in Seq(Cubes)
      /\ \A k \in DOMAIN Keep(Sets(F), essen) : \E j \in essen : Keep(Sets(F), essen)[k] = Sets(F)[j]
      /\ \A j \in essen : \E k \in DOMAIN Keep(Sets(F), essen) : Keep(Sets(F), essen)[k] = Sets(F)[j]
  BY <1>2, <1>3, KeepFacts
<1>5. /\ PtsOf(D) \subseteq PtsOf(D') /\ PtsOf(Keep(Sets(F), essen)) \subseteq PtsOf(D')
      /\ PtsOf(D') \subseteq PtsOf(D) \cup PtsOf(Keep(Sets(F), essen))
  BY <1>1, <1>2, <1>4, ConcatPts
<1>6. \A j \in essen : \E k \in DOMAIN Keep(F, essen) : Keep(F, essen)[k] = F[j]
  BY <1>1, <1>2, KeepFacts
<1>7. ASSUME NEW q \in PtsOf(Keep(Sets(F), essen)) PROVE q \in PointsOf(E')
  <2>1. PICK k \in DOMAIN Keep(Sets(F), essen) : q \subseteq Keep(Sets(F), essen)[k] /\ q \in Points
    BY InCover
  <2>2. PICK j \in essen : q \subseteq F[j].set
    BY <1>2, <1>3, <1>4, <2>1
  <2>3. PICK l \in DOMAIN E' : E'[l] = F[j]
    BY <1>2, <1>6
  <2> QED BY <2>1, <2>2, <2>3, InRecords
<1>8. \A j \in DOMAIN F : j \notin DOMAIN F \ essen => Pts(F[j].set) \subseteq PtsOf(D')
  <2> SUFFICES ASSUME NEW j \in essen, NEW q \in Pts(F[j].set) PROVE q \in PtsOf(D')
    BY <1>2
  <2>1. PICK k \in DOMAIN Keep(Sets(F), essen) : Keep(Sets(F), essen)[k] = F[j].set
    BY <1>2, <1>3, <1>4
  <2>2. q \in PtsOf(Keep(Sets(F), essen))
    BY <2>1, InCover DEF Pts
  <2> QED BY <1>5, <2>2
<1>9. DOMAIN F \ essen \in SUBSET DOMAIN F
  OBVIOUS
<1>10. PointsOf(F) \subseteq PointsOf(F') \cup PtsOf(D')
  BY <1>1, <1>2, <1>8, <1>9, KeepPoints
<1> QED BY <1>1, <1>5, <1>7, <1>10

(* The don't cares have at most the essential primes in addition.          *)
LEMMA EssenStep ==
  ASSUME IInv, FullInv, CallInv, EssenInv, Next PROVE EssenInv'
<1> USE DEF main, costs, expansion
<1>1. CASE Begin
  BY <1>1 DEF EssenInv, Begin
<1>2. CASE Essential
  <2>1. in' = in
    BY <1>2 DEF Essential
  <2> QED BY <1>2, <2>1, EssentialSplit DEF EssenInv
<1>3. CASE ~ Begin /\ ~ Essential
  <2>1. /\ UNCHANGED <<in, D, E>>
        /\ pc = "begin" => pc' = "begin"
        /\ pc = "fatal" => pc' = "fatal"
    <3> USE <1>3
    <3>1. CASE Expand \/ SkipCube \/ OpenCube
      BY <3>1 DEF Expand, SkipCube, OpenCube
    <3>2. CASE SelectFeasible \/ NoneFeasible
      BY <3>2 DEF SelectFeasible, NoneFeasible
    <3>3. CASE RaiseFrequent \/ HeuristicMincov
      BY <3>3 DEF RaiseFrequent, HeuristicMincov, RaisePart
    <3>4. CASE Mincov \/ CloseCube \/ DropCovered
      BY <3>4 DEF Mincov, CloseCube, DropCovered
    <3>5. CASE Irredundant1 \/ SingleExpand
      BY <3>5 DEF Irredundant1, SingleExpand
    <3>6. CASE Reduce \/ ReduceCube \/ ReduceEnd \/ Irredundant2 \/ ReduceGasp
      BY <3>6 DEF Reduce, ReduceCube, ReduceEnd, Irredundant2, ReduceGasp
    <3>7. CASE ExpandGasp \/ ExpandGaspEnd
      BY <3>7 DEF ExpandGasp, ExpandGaspEnd
    <3>8. CASE IrredGasp \/ SuperGasp
      BY <3>8 DEF IrredGasp, SuperGasp
    <3>9. CASE MvReducePart \/ MvReduceEnd \/ Sparse \/ StartOver \/ Verify
      BY <3>9 DEF MvReducePart, MvReduceEnd, Sparse, StartOver, Verify
    <3>10. CASE Done
      BY <3>10 DEF Done, vars
    <3> QED BY <3>1, <3>2, <3>3, <3>4, <3>5, <3>6, <3>7, <3>8, <3>9, <3>10 DEF Next
  <2> QED BY <2>1 DEF EssenInv
<1> QED BY <1>1, <1>2, <1>3

(***************************************************************************)
(* The cube that is expanded and the cubes it covers.                      *)
(***************************************************************************)
LEMMA StaysRaising ==
  ASSUME IInv, CoveredInv, RaisingInv, Raising, F' = F, i' = i,
         pc' \in {"feasible", "raise", "fatal"},
         RAISE \subseteq RAISE', CC' \subseteq CC,
         NEW S \in SUBSET CC, covered' = covered \cup S, \A j \in S : F[j].set \subseteq RAISE'
  PROVE  CoveredInv' /\ RaisingInv'
<1>1. CC \subseteq DOMAIN F /\ i \in DOMAIN F /\ F[i].PRIME
  BY DEF IInv, ExpansionInv, Covering, Raising
<1>2. /\ covered \subseteq DOMAIN F /\ \A j \in covered : Within(j)
      /\ i \notin covered /\ F[i].set \subseteq RAISE /\ \A j \in CC : ~ F[j].PRIME
  BY DEF CoveredInv, RaisingInv, Expanding
<1>3. RaisingInv'
  BY <1>1, <1>2 DEF RaisingInv
<1>4. CASE pc' = "fatal"
  BY <1>3, <1>4 DEF CoveredInv, Expanding, Raising
<1>5. CASE pc' # "fatal"
  <2>1. Raising'
    BY <1>5 DEF Raising
  <2>2. \A j \in covered' : Within(j)'
    <3> SUFFICES ASSUME NEW j \in covered' PROVE Within(j)'
      OBVIOUS
    <3>1. CASE j \in S
      BY <2>1, <3>1 DEF Within
    <3>2. CASE j \in covered /\ F[j].set \subseteq RAISE
      BY <2>1, <3>2 DEF Within
    <3>3. CASE j \in covered /\ \E k \in DOMAIN F \ covered : F[k].PRIME /\ F[j].set \subseteq F[k].set
      <4>1. PICK k \in DOMAIN F \ covered : F[k].PRIME /\ F[j].set \subseteq F[k].set
        BY <3>3
      <4>2. k \notin S
        BY <1>2, <4>1
      <4> QED BY <4>1, <4>2 DEF Within
    <3> QED BY <1>2, <3>1, <3>2, <3>3 DEF Within
  <2>3. covered' \subseteq DOMAIN F'
    BY <1>1, <1>2
  <2> QED BY <1>3, <2>2, <2>3 DEF CoveredInv
<1> QED BY <1>3, <1>4, <1>5

(* essen_parts only takes candidates away.                                 *)
LEMMA FewerParts ==
  ASSUME NEW A, NEW B, NEW C, NEW raise, NEW free
  PROVE  essen_parts(A, B, C, raise, free).CC \subseteq C
BY DEF essen_parts, elim_CC

(* The steps that raise parts of the cube.                                 *)
LEMMA RaisingKept ==
  ASSUME IInv, CoveredInv, RaisingInv,
         SelectFeasible \/ NoneFeasible \/ RaiseFrequent \/ Mincov \/ HeuristicMincov
  PROVE  CoveredInv' /\ RaisingInv'
<1>1. NowCovered \in SUBSET CC /\ \A j \in NowCovered : F[j].set \subseteq Raised
  BY DEF NowCovered
<1>2. RAISE \subseteq Raised
  BY DEF Raised
<1>3. CASE SelectFeasible
  <2>1. /\ pc = "feasible" /\ F' = F /\ i' = i /\ pc' \in {"fatal", "feasible"}
        /\ covered' = covered \cup NowCovered /\ RAISE' = Raised \cup F[BestFeasible].set
        /\ CC' = essen_parts(F, BB, CC \ NowCovered, RAISE', FREESET \ RAISE').CC
    BY <1>3 DEF SelectFeasible
  <2>2. CC' \subseteq CC
    BY <2>1, FewerParts
  <2> QED BY <1>1, <1>2, <2>1, <2>2, StaysRaising DEF Raising
<1>4. CASE NoneFeasible
  <2>1. /\ pc = "feasible" /\ F' = F /\ i' = i /\ pc' = "raise"
        /\ covered' = covered \cup NowCovered /\ RAISE' = Raised /\ CC' = CC \ NowCovered
    BY <1>4 DEF NoneFeasible
  <2>2. CC' \subseteq CC
    BY <2>1
  <2> QED BY <1>1, <1>2, <2>1, <2>2, StaysRaising DEF Raising
<1>5. ASSUME NEW part, pc = "raise", RaisePart(part) PROVE CoveredInv' /\ RaisingInv'
  <2>1. /\ F' = F /\ i' = i /\ pc' \in {"fatal", "raise"}
        /\ covered' = covered \cup {} /\ RAISE' = RAISE \cup {part}
        /\ CC' = essen_parts(F, BB, CC, RAISE \cup {part}, FREESET \ {part}).CC
    BY <1>5 DEF RaisePart
  <2>2. CC' \subseteq CC
    BY <2>1, FewerParts
  <2>3. {} \in SUBSET CC
    OBVIOUS
  <2> QED BY <1>5, <2>1, <2>2, <2>3, StaysRaising DEF Raising
<1>6. CASE RaiseFrequent \/ HeuristicMincov
  BY <1>5, <1>6 DEF RaiseFrequent, HeuristicMincov
<1>7. CASE Mincov
  <2>1. /\ pc = "raise" /\ F' = F /\ i' = i /\ pc' \in {"fatal", "raise"}
        /\ covered' = covered \cup {} /\ RAISE \subseteq RAISE' /\ CC' \subseteq CC
    BY <1>7 DEF Mincov
  <2>2. {} \in SUBSET CC
    OBVIOUS
  <2> QED BY <2>1, <2>2, StaysRaising DEF Raising
<1> QED BY <1>3, <1>4, <1>6, <1>7

(* The steps of the loop of expand.                                        *)
LEMMA ExpandLoopKept ==
  ASSUME IInv, CoveredInv, RaisingInv, Expand \/ SkipCube \/ OpenCube \/ CloseCube
  PROVE  CoveredInv' /\ RaisingInv'
<1>0. F \in Seq(CubeRecords) /\ i \in Nat
  BY DEF IInv, TypesInv
<1>1. CASE Expand
  BY <1>1 DEF Expand, CoveredInv, RaisingInv, Raising
<1>2. CASE SkipCube
  BY <1>2 DEF SkipCube, expansion, CoveredInv, RaisingInv, Within, Expanding, Raising
<1>3. CASE OpenCube
  <2>1. /\ pc = "next" /\ i \in DOMAIN F /\ ~ F[i].PRIME /\ i \notin covered
    BY <1>0, <1>3 DEF OpenCube, Skipped, IInv, TypesInv
  <2>2. /\ F' = [F EXCEPT ![i].PRIME = TRUE] /\ RAISE' = F[i].set
        /\ i' = i /\ covered' = covered /\ pc' \in {"fatal", "raise", "feasible"}
        /\ CC' = essen_parts(F, Opened.BB, Opened.CC, F[i].set, Opened.FREESET).CC
    BY <1>3 DEF OpenCube
  <2>3. F[i] \in CubeRecords
    BY <1>0, <2>1
  <2>4. /\ DOMAIN F' = DOMAIN F /\ F'[i].set = F[i].set /\ F'[i].PRIME
        /\ \A j \in DOMAIN F : j # i => F'[j] = F[j]
    BY <1>0, <2>1, <2>2, <2>3 DEF CubeRecords
  <2>5. Opened.CC \subseteq {j \in DOMAIN F \ {i} : ~ Skipped(j)}
    BY DEF Opened, elim_CC
  <2>6. CC' \subseteq {j \in DOMAIN F \ {i} : ~ F[j].PRIME}
    BY <2>2, <2>5, FewerParts DEF Skipped
  <2>7. RaisingInv'
    BY <2>1, <2>2, <2>4, <2>6 DEF RaisingInv
  <2>8. covered \subseteq DOMAIN F
        /\ \A j \in covered : \E k \in DOMAIN F \ covered : F[k].PRIME /\ F[j].set \subseteq F[k].set
    BY <2>1 DEF CoveredInv, Expanding, Raising, Within
  <2>9. \A j \in covered : \E k \in DOMAIN F' \ covered : F'[k].PRIME /\ F'[j].set \subseteq F'[k].set
    <3> SUFFICES ASSUME NEW j \in covered
                 PROVE  \E k \in DOMAIN F' \ covered : F'[k].PRIME /\ F'[j].set \subseteq F'[k].set
      OBVIOUS
    <3>1. PICK k \in DOMAIN F \ covered : F[k].PRIME /\ F[j].set \subseteq F[k].set
      BY <2>8
    <3>2. k # i /\ j # i
      BY <2>1, <3>1
    <3> QED BY <2>4, <2>8, <3>1, <3>2
  <2>10. CoveredInv'
    BY <2>2, <2>4, <2>8, <2>9 DEF CoveredInv, Within
  <2> QED BY <2>7, <2>10
<1>4. CASE CloseCube
  <2>1. /\ i \in DOMAIN F /\ F[i].PRIME /\ i \notin covered /\ F[i].set \subseteq RAISE
        /\ covered \subseteq DOMAIN F
        /\ \A j \in covered : \/ \E k \in DOMAIN F \ covered : F[k].PRIME /\ F[j].set \subseteq F[k].set
                              \/ F[j].set \subseteq RAISE
    BY <1>4 DEF CloseCube, IInv, ExpansionInv, CoveredInv, RaisingInv, Within, Expanding, Raising
  <2>2. /\ F' = [F EXCEPT ![i].set = RAISE \cup FREESET,
                          ![i].NONESSEN = (num_covered = 0 /\ RAISE \cup FREESET # OVEREXPANDED_CUBE)]
        /\ covered' = covered /\ pc' = "next"
    BY <1>4, <2>1 DEF CloseCube
  <2>3. F[i] \in CubeRecords
    BY <1>0, <2>1
  <2>4. /\ DOMAIN F' = DOMAIN F /\ F'[i].set = RAISE \cup FREESET /\ F'[i].PRIME
        /\ \A j \in DOMAIN F : j # i => F'[j] = F[j]
    BY <1>0, <2>1, <2>2, <2>3 DEF CubeRecords
  <2>5. \A j \in covered : \E k \in DOMAIN F' \ covered : F'[k].PRIME /\ F'[j].set \subseteq F'[k].set
    <3> SUFFICES ASSUME NEW j \in covered
                 PROVE  \E k \in DOMAIN F' \ covered : F'[k].PRIME /\ F'[j].set \subseteq F'[k].set
      OBVIOUS
    <3>0. j # i /\ F'[j] = F[j]
      BY <2>1, <2>4
    <3>1. CASE F[j].set \subseteq RAISE
      BY <2>1, <2>4, <3>0, <3>1
    <3>2. CASE \E k \in DOMAIN F \ covered : F[k].PRIME /\ F[j].set \subseteq F[k].set
      <4>1. PICK k \in DOMAIN F \ covered : F[k].PRIME /\ F[j].set \subseteq F[k].set
        BY <3>2
      <4>2. F'[k].PRIME /\ F[k].set \subseteq F'[k].set
        BY <2>1, <2>4, <4>1
      <4> QED BY <2>4, <3>0, <4>1, <4>2
    <3> QED BY <2>1, <3>1, <3>2
  <2>6. CoveredInv'
    BY <2>1, <2>2, <2>4, <2>5 DEF CoveredInv, Within
  <2> QED BY <2>2, <2>6 DEF RaisingInv, Raising
<1> QED BY <1>1, <1>2, <1>3, <1>4

(* Nothing else is about the expansion of a cube.                          *)
LEMMA CoveredStep ==
  ASSUME IInv, CoveredInv, RaisingInv, Next PROVE CoveredInv' /\ RaisingInv'
<1> USE DEF main, costs, expansion
<1>1. CASE Expand \/ SkipCube \/ OpenCube \/ CloseCube
  BY <1>1, ExpandLoopKept
<1>2. CASE SelectFeasible \/ NoneFeasible \/ RaiseFrequent \/ Mincov \/ HeuristicMincov
  BY <1>2, RaisingKept
<1>3. CASE pc' \notin {"next", "feasible", "raise"}
  BY <1>3 DEF CoveredInv, RaisingInv, Expanding, Raising
<1>4. CASE Done
  BY <1>4 DEF Done, vars, CoveredInv, RaisingInv, Within, Expanding, Raising
<1>5. ASSUME ~ (Expand \/ SkipCube \/ OpenCube \/ CloseCube), ~ Done,
             ~ (SelectFeasible \/ NoneFeasible \/ RaiseFrequent \/ Mincov \/ HeuristicMincov)
      PROVE  pc' \notin {"next", "feasible", "raise"}
  <2> USE <1>5
  <2>1. CASE Begin \/ DropCovered \/ Irredundant1 \/ Essential \/ SingleExpand
    BY <2>1 DEF Begin, DropCovered, Irredundant1, Essential, SingleExpand
  <2>2. CASE Reduce \/ ReduceCube \/ ReduceEnd \/ Irredundant2 \/ ReduceGasp
    BY <2>2 DEF Reduce, ReduceCube, ReduceEnd, Irredundant2, ReduceGasp
  <2>3. CASE ExpandGasp \/ ExpandGaspEnd
    BY <2>3 DEF ExpandGasp, ExpandGaspEnd
  <2>4. CASE IrredGasp \/ SuperGasp
    BY <2>4 DEF IrredGasp, SuperGasp, LoopOrSparse
  <2>5. CASE MvReducePart \/ MvReduceEnd \/ Sparse \/ StartOver \/ Verify
    BY <2>5 DEF MvReducePart, MvReduceEnd, Sparse, StartOver, Verify
  <2> QED BY <2>1, <2>2, <2>3, <2>4, <2>5 DEF Next
<1> QED BY <1>1, <1>2, <1>3, <1>4, <1>5

(***************************************************************************)
(* The points that the ON-set is to be found in.                           *)
(***************************************************************************)
LEMMA KeptStep ==
  ASSUME Kept, pc \notin {"begin", "fatal"}, in' = in, Held \subseteq Held' PROVE Kept'
<1>1. PtsOf(in.F) \subseteq Held
  BY DEF Kept, OnsetKept, Held, PointsOf
<1>2. PtsOf(in'.F) \subseteq Held'
  BY <1>1
<1>3. Held' = PtsOf(Sets(IF InGasp' THEN Foriginal' ELSE F')) \cup PtsOf(IF Final' THEN in'.D ELSE D')
  BY DEF Held, PointsOf
<1> QED BY <1>2, <1>3 DEF Kept, OnsetKept

(* In every other state it is known which covers they are.                 *)
LEMMA HeldFacts ==
  /\ InGasp => PointsOf(Foriginal) \subseteq Held
  /\ ~ InGasp => PointsOf(F) \subseteq Held
  /\ Final => PtsOf(in.D) \subseteq Held
  /\ ~ Final => PtsOf(D) \subseteq Held
  /\ InGasp /\ ~ Final => Held = PointsOf(Foriginal) \cup PtsOf(D)
  /\ ~ InGasp /\ Final => Held = PointsOf(F) \cup PtsOf(in.D)
  /\ ~ InGasp /\ ~ Final => Held = PointsOf(F) \cup PtsOf(D)
BY DEF Held

(* The expansion, in a gasp and outside.                                   *)
LEMMA ExpansionHeld ==
  ASSUME pc \in {"expand", "next", "feasible", "raise"},
         pc' \in {"next", "feasible", "raise", "expanded"},
         UNCHANGED <<in, call, D, Foriginal>>, PointsOf(F) \subseteq PointsOf(F')
  PROVE  Held \subseteq Held'
<1>1. InGasp' <=> InGasp
  BY DEF InGasp
<1>2. Final' <=> Final
  BY DEF Final
<1>3. Held = PointsOf(IF InGasp THEN Foriginal ELSE F) \cup PtsOf(IF Final THEN in.D ELSE D)
  BY DEF Held
<1>4. Held' = PointsOf(IF InGasp THEN Foriginal ELSE F') \cup PtsOf(IF Final THEN in.D ELSE D)
  BY <1>1, <1>2 DEF Held
<1> QED BY <1>3, <1>4

(* Cubes that only grow, in any order, lose no points.                     *)
LEMMA ExpandKept ==
  ASSUME IInv, FullInv, KeptInv, pc # "fatal",
         \/ Expand \/ SkipCube \/ OpenCube \/ SelectFeasible \/ NoneFeasible
         \/ RaiseFrequent \/ Mincov \/ HeuristicMincov \/ CloseCube \/ DropCovered
  PROVE  Kept'
<1> USE DEF main, costs, expansion
<1>0. F \in Seq(CubeRecords) /\ i \in Nat /\ Kept
  BY DEF IInv, TypesInv, KeptInv
<1>1. /\ pc \in {"expand", "next", "feasible", "raise"}
      /\ pc' \in {"next", "feasible", "raise", "expanded", "fatal"}
      /\ UNCHANGED <<in, call, D, Foriginal>>
  <2>1. CASE Expand \/ SkipCube \/ OpenCube
    BY <2>1 DEF Expand, SkipCube, OpenCube
  <2>2. CASE SelectFeasible \/ NoneFeasible
    BY <2>2 DEF SelectFeasible, NoneFeasible
  <2>3. CASE RaiseFrequent \/ HeuristicMincov
    BY <2>3 DEF RaiseFrequent, HeuristicMincov, RaisePart
  <2>4. CASE Mincov \/ CloseCube \/ DropCovered
    BY <2>4 DEF Mincov, CloseCube, DropCovered
  <2> QED BY <2>1, <2>2, <2>3, <2>4
<1>2. PointsOf(F) \subseteq PointsOf(F')
  <2>1. CASE Expand
    <3> DEFINE S == mini_sort(F, ascend)
    <3>1. S \in Seq(CubeRecords) /\ From(F, S)
      BY <1>0, MiniSort
    <3>2. F' = Unmarked(S)
      BY <2>1 DEF Expand
    <3> HIDE DEF S
    <3>3. DOMAIN F' = DOMAIN S /\ \A j \in DOMAIN S : F'[j].set = S[j].set
      <4>1. \A j \in DOMAIN S : S[j] \in CubeRecords
        BY <3>1
      <4> QED BY <3>2, <4>1 DEF Unmarked, CubeRecords
    <3>4. BelowCover(F, F')
      BY <3>1, <3>3 DEF BelowCover, From
    <3> QED BY <3>4, BelowPoints
  <2>2. CASE SkipCube \/ SelectFeasible \/ NoneFeasible \/ RaiseFrequent \/ Mincov \/ HeuristicMincov
    BY <2>2 DEF SkipCube, SelectFeasible, NoneFeasible, RaiseFrequent, Mincov, HeuristicMincov, RaisePart
  <2>3. CASE OpenCube
    <3>1. i \in DOMAIN F /\ F' = [F EXCEPT ![i].PRIME = TRUE]
      BY <1>0, <2>3 DEF OpenCube, IInv, TypesInv
    <3>2. F[i] \in CubeRecords
      BY <1>0, <3>1
    <3>3. DOMAIN F' = DOMAIN F /\ \A j \in DOMAIN F : F'[j].set = F[j].set
      BY <1>0, <3>1, <3>2 DEF CubeRecords
    <3> QED BY <3>3, BelowPoints DEF BelowCover
  <2>4. CASE CloseCube
    <3>1. /\ i \in DOMAIN F /\ F[i].set \subseteq RAISE
          /\ F' = [F EXCEPT ![i].set = RAISE \cup FREESET,
                            ![i].NONESSEN = (num_covered = 0 /\ RAISE \cup FREESET # OVEREXPANDED_CUBE)]
      BY <2>4 DEF CloseCube, KeptInv, RaisingInv, Raising, IInv, ExpansionInv
    <3>2. \A j \in DOMAIN F : F[j] \in CubeRecords
      BY <1>0
    <3>3. DOMAIN F' = DOMAIN F /\ \A j \in DOMAIN F : F[j].set \subseteq F'[j].set
      BY <1>0, <3>1, <3>2 DEF CubeRecords
    <3> QED BY <3>3, BelowPoints DEF BelowCover
  <2>5. CASE DropCovered
    <3> DEFINE I == DOMAIN F \ covered
    <3>1. I \in SUBSET DOMAIN F /\ F' = Keep(F, I)
      BY <2>5 DEF DropCovered
    <3>2. \A j \in DOMAIN F : j \notin I => \E k \in I : F[j].set \subseteq F[k].set
      BY <2>5 DEF DropCovered, KeptInv, CoveredInv, Within, Expanding, Raising
    <3> HIDE DEF I
    <3>3. \A j \in I : \E k \in DOMAIN Keep(F, I) : Keep(F, I)[k] = F[j]
      BY <1>0, <3>1, KeepFacts
    <3>4. BelowCover(F, F')
      BY <3>1, <3>2, <3>3 DEF BelowCover
    <3> QED BY <3>4, BelowPoints
  <2> QED BY <2>1, <2>2, <2>3, <2>4, <2>5
<1>3. CASE pc' = "fatal"
  BY <1>3 DEF Kept
<1>4. CASE pc' # "fatal"
  BY <1>0, <1>1, <1>2, <1>4, ExpansionHeld, KeptStep
<1> QED BY <1>3, <1>4

(* The unravelled ON-set is the ON-set.                                    *)
LEMMA BeginKept ==
  ASSUME IInv, Begin PROVE Kept'
<1> USE DEF Begin, main, costs, expansion
<1>1. in.F \in Seq(Cubes) /\ in' = in
  BY OffsetFacts DEF IInv, TypesInv
<1>2. Unwrapped(in.F) \in Seq(Cubes) /\ PtsOf(in.F) \subseteq PtsOf(Unwrapped(in.F))
  BY <1>1, UnwrappedFacts, UnwrappedKept
<1>3. PtsOf(in.F) \subseteq PointsOf(F')
  BY <1>2, CubedPoints
<1>4. ~ InGasp'
  BY DEF InGasp
<1> QED BY <1>1, <1>3, <1>4 DEF Kept, OnsetKept, PointsOf

(* irredundant drops what the rest covers.                                 *)
LEMMA IrredundantKept ==
  ASSUME IInv, FullInv, KeptInv, Irredundant1 \/ Irredundant2 PROVE Kept'
<1> USE DEF Irredundant1, Irredundant2, main, costs, expansion
<1>1. /\ F \in Seq(CubeRecords) /\ D \in Seq(Cubes) /\ Kept
      /\ pc = "expanded" /\ call \in {"initial", "loop"} /\ UNCHANGED <<in, call, D>>
  BY DEF IInv, TypesInv, FullInv, KeptInv
<1>2. F' = Marked(F, D).cubes /\ pc' \in {"fatal", "essential", "reduce", "gasp"}
      /\ (pc' # "fatal" => Marked(F, D).ok)
  OBVIOUS
<1>3. ~ InGasp /\ ~ Final /\ ~ InGasp' /\ ~ Final'
  BY <1>1, <1>2 DEF InGasp, Final
<1>4. CASE pc' = "fatal"
  BY <1>4 DEF Kept
<1>5. CASE pc' # "fatal"
  <2>1. PointsOf(F) \subseteq PointsOf(F') \cup PtsOf(D)
    BY <1>1, <1>2, <1>5, MarkedKept
  <2>2. Held = PointsOf(F) \cup PtsOf(D)
    BY <1>3, HeldFacts
  <2>3. Held' = PointsOf(F') \cup PtsOf(D')
    BY <1>3 DEF Held
  <2> QED BY <1>1, <2>1, <2>2, <2>3, KeptStep
<1> QED BY <1>4, <1>5

(* The essential primes are don't cares from here on.                      *)
LEMMA EssentialKept ==
  ASSUME IInv, FullInv, KeptInv, Essential \/ SingleExpand PROVE Kept'
<1>1. /\ pc = "essential" /\ call = "initial" /\ UNCHANGED <<in, call>> /\ D = in.D /\ Kept
      /\ CallInv
  BY DEF Essential, SingleExpand, main, expansion, KeptInv, CallInv
<1>2. ~ InGasp /\ ~ Final
  BY <1>1 DEF InGasp, Final
<1>3. Held = PointsOf(F) \cup PtsOf(D)
  BY <1>2, HeldFacts
<1>4. CASE Essential
  <2>1. pc' = "reduce"
    BY <1>4 DEF Essential
  <2>2. ~ InGasp' /\ ~ Final'
    BY <1>1, <2>1 DEF InGasp, Final
  <2>3. Held' = PointsOf(F') \cup PtsOf(D')
    BY <2>2 DEF Held
  <2>4. Held \subseteq Held'
    BY <1>1, <1>3, <1>4, <2>3, EssentialSplit
  <2> QED BY <1>1, <2>4, KeptStep
<1>5. CASE SingleExpand
  <2>1. pc' = "mv_reduce" /\ F' = F
    BY <1>5 DEF SingleExpand
  <2>2. ~ InGasp' /\ Final'
    BY <1>1, <2>1 DEF InGasp, Final
  <2>3. Held' = PointsOf(F') \cup PtsOf(in'.D)
    BY <2>2 DEF Held
  <2> QED BY <1>1, <1>3, <2>1, <2>3, KeptStep
<1> QED BY <1>4, <1>5

(* reduce keeps the points of each cube that no other cube has.            *)
LEMMA ReduceKept ==
  ASSUME IInv, FullInv, KeptInv, Reduce \/ ReduceCube \/ ReduceEnd PROVE Kept'
<1> USE DEF main, costs, expansion
<1>1. F \in Seq(CubeRecords) /\ D \in Seq(Cubes) /\ Kept /\ i \in Nat
  BY DEF IInv, TypesInv, FullInv, KeptInv
<1>2. /\ pc \in {"reduce", "reducing"} /\ call # "sparse" /\ UNCHANGED <<in, D>>
      /\ \/ pc' = "reducing" /\ call' = call
         \/ pc' = "expand" /\ call' = "loop"
  BY DEF Reduce, ReduceCube, ReduceEnd, KeptInv, CallInv
<1>3. ~ InGasp /\ ~ Final /\ ~ InGasp' /\ ~ Final'
  BY <1>2 DEF InGasp, Final
<1>4. Held = PointsOf(F) \cup PtsOf(D)
  BY <1>3, HeldFacts
<1>5. Held' = PointsOf(F') \cup PtsOf(D)
  BY <1>2, <1>3 DEF Held
<1>6. PointsOf(F) \subseteq PointsOf(F') \cup PtsOf(D)
  <2>1. CASE Reduce
    BY <1>1, <2>1, SortReduce, MiniSort, FromPoints DEF Reduce
  <2>2. CASE ReduceCube
    <3> DEFINE cunder == Reduction(Sets(F), D, i)
    <3>1. i \in DOMAIN F /\ F' = [F EXCEPT ![i].set = cunder, ![i].PRIME = (cunder = F[i].set)]
      BY <1>1, <2>2 DEF ReduceCube, IInv, TypesInv
    <3> HIDE DEF cunder
    <3>2. \A j \in DOMAIN F : F[j] \in CubeRecords
      BY <1>1
    <3>3. DOMAIN F' = DOMAIN F /\ F'[i].set = cunder /\ \A j \in DOMAIN F \ {i} : F'[j].set = F[j].set
      BY <1>1, <3>1, <3>2 DEF CubeRecords
    <3>4. F'[i].set = Reduction(Sets(F), D, i)
      BY <3>3 DEF cunder
    <3>5. i \in DOMAIN F
      BY <3>1
    <3>6. DOMAIN F' = DOMAIN F /\ \A j \in DOMAIN F \ {i} : F'[j].set = F[j].set
      BY <3>3
    <3> QED BY ONLY <1>1, <3>4, <3>5, <3>6, ReducedPoints
  <2>3. CASE ReduceEnd
    <3> DEFINE I == {j \in DOMAIN F : F[j].set # {}}
    <3>1. F' = Keep(F, I) /\ I \in SUBSET DOMAIN F
      BY <2>3 DEF ReduceEnd
    <3>2. \A j \in DOMAIN F : j \notin I => Pts(F[j].set) \subseteq {}
      <4>1. output \in Vars
        BY CubeAssumption DEF output, Vars
      <4>2. Pts({}) = {}
        BY <4>1, NoPoints
      <4> QED BY <4>2
    <3> HIDE DEF I
    <3>3. PointsOf(F) \subseteq PointsOf(Keep(F, I)) \cup {}
      BY <1>1, <3>1, <3>2, KeepPoints
    <3> QED BY <3>1, <3>3
  <2> QED BY <2>1, <2>2, <2>3
<1>7. pc \notin {"begin", "fatal"} /\ in' = in
  BY <1>2
<1> QED BY <1>1, <1>4, <1>5, <1>6, <1>7, KeptStep

(* During a gasp the cover from before it is what counts.                  *)
LEMMA GaspKept ==
  ASSUME IInv, FullInv, KeptInv, ReduceGasp \/ ExpandGasp \/ ExpandGaspEnd PROVE Kept'
<1> USE DEF main, costs, expansion
<1>1. Kept /\ UNCHANGED <<in, D>>
  BY DEF KeptInv, ReduceGasp, ExpandGasp, ExpandGaspEnd
<1>2. CASE pc' = "fatal"
  BY <1>2 DEF Kept
<1>3. CASE pc' # "fatal" /\ ReduceGasp
  <2>1. /\ pc = "gasp" /\ call # "sparse" /\ Foriginal' = F /\ call' = call
        /\ pc' \in {"expand_gasp", "super_gasp"}
    BY <1>3 DEF ReduceGasp, KeptInv, CallInv
  <2>2. ~ InGasp /\ ~ Final /\ InGasp' /\ ~ Final'
    BY <2>1 DEF InGasp, Final
  <2>3. Held = PointsOf(F) \cup PtsOf(D)
    BY <2>2, HeldFacts
  <2>4. Held' = PointsOf(F) \cup PtsOf(D)
    BY <1>1, <2>1, <2>2 DEF Held
  <2> QED BY <1>1, <2>1, <2>3, <2>4, KeptStep
<1>4. CASE pc' # "fatal" /\ (ExpandGasp \/ ExpandGaspEnd)
  <2>1. /\ pc = "expand_gasp" /\ call # "sparse" /\ Foriginal' = Foriginal
        /\ \/ pc' = "expand_gasp" /\ call' = call
           \/ pc' = "expand" /\ call' = "gasp"
    BY <1>4 DEF ExpandGasp, ExpandGaspEnd, KeptInv, CallInv
  <2>2. InGasp /\ ~ Final /\ InGasp' /\ ~ Final'
    BY <2>1 DEF InGasp, Final
  <2>3. Held = PointsOf(Foriginal) \cup PtsOf(D)
    BY <2>2, HeldFacts
  <2>4. Held' = PointsOf(Foriginal) \cup PtsOf(D)
    BY <1>1, <2>1, <2>2 DEF Held
  <2> QED BY <1>1, <2>1, <2>3, <2>4, KeptStep
<1> QED BY <1>2, <1>3, <1>4

(* At the end of a gasp: a cover that contains what the one before it did  *)
(* does so on the next round, or together with the essential primes.       *)
LEMMA LoopOrSparseKept ==
  ASSUME IInv, KeptInv, UNCHANGED <<in, D, E, call>>, call # "sparse",
         pc \in {"expanded", "super_gasp"}, InGasp, ~ Final,
         NEW A \in Seq(CubeRecords), PointsOf(Foriginal) \subseteq PointsOf(A) \cup PtsOf(D),
         NEW again, LoopOrSparse(A, again)
  PROVE  Kept'
<1>1. Held = PointsOf(Foriginal) \cup PtsOf(D) /\ Kept
  BY HeldFacts DEF KeptInv
<1>2. CASE again
  <2>1. F' = A /\ pc' = "reduce"
    BY <1>2 DEF LoopOrSparse
  <2>2. ~ InGasp' /\ ~ Final'
    BY <2>1 DEF InGasp, Final
  <2>3. Held' = PointsOf(A) \cup PtsOf(D)
    BY <2>1, <2>2 DEF Held
  <2> QED BY <1>1, <2>3, KeptStep
<1>3. CASE ~ again
  <2>1. F' = A \o E /\ pc' = "mv_reduce"
    BY <1>3 DEF LoopOrSparse
  <2>2. ~ InGasp' /\ Final'
    BY <2>1 DEF InGasp, Final
  <2>3. Held' = PointsOf(A \o E) \cup PtsOf(in.D)
    BY <2>1, <2>2 DEF Held
  <2>4. E \in Seq(CubeRecords)
    BY DEF IInv, TypesInv
  <2>5. PointsOf(A) \subseteq PointsOf(A \o E) /\ PointsOf(E) \subseteq PointsOf(A \o E)
    BY <2>4, ConcatPoints
  <2>6. PtsOf(D) \subseteq PtsOf(in.D) \cup PointsOf(E)
    BY DEF KeptInv, EssenInv
  <2>7. Held \subseteq Held'
    BY <1>1, <2>3, <2>5, <2>6
  <2> QED BY <1>1, <2>7, KeptStep
<1> QED BY <1>2, <1>3

(* The last gasp adds cubes to the cover from before it and thins it out.  *)
LEMMA IrredGaspKept ==
  ASSUME IInv, FullInv, KeptInv, IrredGasp PROVE Kept'
<1> USE DEF IrredGasp, main, expansion
<1>1. /\ F \in Seq(CubeRecords) /\ Foriginal \in Seq(CubeRecords) /\ D \in Seq(Cubes)
      /\ UNCHANGED <<in, D, E, call>> /\ pc = "expanded" /\ call = "gasp"
  BY DEF IInv, TypesInv, FullInv
<1>2. InGasp /\ ~ Final
  BY <1>1 DEF InGasp, Final
<1> DEFINE m     == IF F = <<>> THEN [ok |-> TRUE, cubes |-> Foriginal] ELSE Marked(Foriginal \o F, D)
           again == Better(cost', best_cost)
<1>3. \/ m.ok /\ LoopOrSparse(m.cubes, again)
      \/ pc' = "fatal"
  OBVIOUS
<1>4. ASSUME m.ok PROVE m.cubes \in Seq(CubeRecords) /\ PointsOf(Foriginal) \subseteq PointsOf(m.cubes) \cup PtsOf(D)
  <2>1. CASE F = <<>>
    BY <1>1, <2>1
  <2>2. CASE F # <<>>
    <3> DEFINE A == Foriginal \o F
    <3>1. A \in Seq(CubeRecords) /\ PointsOf(Foriginal) \subseteq PointsOf(A)
      BY <1>1, ConcatPoints
    <3>2. m = Marked(A, D)
      BY <2>2
    <3> HIDE DEF A, m
    <3>3. m.cubes \in Seq(CubeRecords)
      BY <3>1, <3>2, MarkedFacts
    <3>4. PointsOf(A) \subseteq PointsOf(m.cubes) \cup PtsOf(D)
      BY <1>1, <1>4, <3>1, <3>2, MarkedKept
    <3> QED BY <3>1, <3>3, <3>4
  <2> QED BY <2>1, <2>2
<1> HIDE DEF m, again
<1>5. CASE m.ok /\ LoopOrSparse(m.cubes, again)
  BY <1>1, <1>2, <1>4, <1>5, LoopOrSparseKept
<1>6. CASE pc' = "fatal"
  BY <1>6 DEF Kept
<1> QED BY <1>3, <1>5, <1>6

(* So does the super gasp.                                                 *)
LEMMA SuperGaspKept ==
  ASSUME IInv, FullInv, KeptInv, SuperGasp PROVE Kept'
<1> USE DEF SuperGasp, main, expansion
<1> DEFINE old    == Sets(Foriginal)
           both   == old \o Listed(AllPrimes(F))
           primes == sf_dupl(both)
           m      == Marked(Primes(primes), D)
           again  == cost'.cubes < best_cost.cubes
<1>1. /\ F \in Seq(CubeRecords) /\ Foriginal \in Seq(CubeRecords) /\ D \in Seq(Cubes)
      /\ UNCHANGED <<in, D, E, call>> /\ pc = "super_gasp" /\ call # "sparse"
      /\ AllFull(F) /\ AllClear(F) /\ in \in Inputs
  BY Settled DEF IInv, TypesInv, FullInv, KeptInv, CallInv
<1>2. InGasp /\ ~ Final
  BY <1>1 DEF InGasp, Final
<1>3. Listed(AllPrimes(F)) \in Seq(Cubes)
  <2>1. AllPrimes(F) \in SUBSET Cubes
    BY <1>1, AllPrimesClear DEF AllFull
  <2> QED BY <2>1, ListedFacts
<1>4. old \in Seq(Cubes)
  BY <1>1, SetsFacts
<1>5. PointsOf(Foriginal) = PtsOf(old)
  BY DEF PointsOf
<1> HIDE DEF old
<1>6. both \in Seq(Cubes) /\ PtsOf(old) \subseteq PtsOf(both)
  BY <1>3, <1>4, ConcatPts
<1> HIDE DEF both
<1>7. primes \in Seq(Cubes) /\ PtsOf(both) \subseteq PtsOf(primes)
  BY <1>6, DuplFacts, DuplKept, FromBelow, BelowPts
<1> HIDE DEF primes
<1>8. Primes(primes) \in Seq(CubeRecords) /\ PtsOf(primes) \subseteq PointsOf(Primes(primes))
  <2>1. DOMAIN primes = 1 .. Len(primes) /\ Len(primes) \in Nat /\ \A j \in DOMAIN primes : primes[j] \in Cubes
    BY <1>7
  <2>2. \A j \in DOMAIN primes : /\ [Flagged(primes[j]) EXCEPT !.PRIME = TRUE] \in CubeRecords
                                 /\ [Flagged(primes[j]) EXCEPT !.PRIME = TRUE].set = primes[j]
    BY <2>1 DEF Flagged, CubeRecords
  <2>3. Primes(primes) = [j \in DOMAIN primes |-> [Flagged(primes[j]) EXCEPT !.PRIME = TRUE]]
    BY DEF Primes
  <2>4. Primes(primes) \in [1 .. Len(primes) -> CubeRecords]
    BY <2>1, <2>2, <2>3
  <2>5. Primes(primes) \in Seq(CubeRecords)
    BY <2>1, <2>4
  <2>6. DOMAIN Primes(primes) = DOMAIN primes /\ \A j \in DOMAIN primes : Primes(primes)[j].set = primes[j]
    BY <2>2, <2>3
  <2>7. ASSUME NEW q \in PtsOf(primes) PROVE q \in PointsOf(Primes(primes))
    BY <2>6, InCover, InRecords
  <2> QED BY <2>5, <2>7
<1>9. \/ m.ok /\ LoopOrSparse(m.cubes, again)
      \/ pc' = "fatal"
  BY DEF primes, both, old
<1>10. ASSUME m.ok PROVE m.cubes \in Seq(CubeRecords) /\ PointsOf(Foriginal) \subseteq PointsOf(m.cubes) \cup PtsOf(D)
  <2>1. m.cubes \in Seq(CubeRecords)
    BY <1>8, MarkedFacts
  <2>2. PointsOf(Primes(primes)) \subseteq PointsOf(m.cubes) \cup PtsOf(D)
    BY <1>1, <1>8, <1>10, MarkedKept
  <2> QED BY <1>5, <1>6, <1>7, <1>8, <2>1, <2>2
<1> HIDE DEF m, again
<1>11. CASE m.ok /\ LoopOrSparse(m.cubes, again)
  BY <1>1, <1>2, <1>10, <1>11, LoopOrSparseKept
<1>12. CASE pc' = "fatal"
  BY <1>12 DEF Kept
<1> QED BY <1>9, <1>11, <1>12

(***************************************************************************)
(* make_sparse.  A cube that loses a part in mv_reduce loses only points   *)
(* that a cube which keeps the part, or a don't care, has as well.         *)
(***************************************************************************)
LEMMA PartVarFacts ==
  ASSUME i \in Parts PROVE PartVar \in Vars /\ i \in var_mask[PartVar]
BY MaskFacts DEF PartVar

(* The cofactor of a cube against one part of it.                          *)
LEMMA CofactoredFacts ==
  ASSUME i \in Parts, NEW c \in Cubes, i \in c
  PROVE  /\ Cofactored(c) \in Cubes /\ Cofactored(c) \subseteq c
         /\ \A q \in Points : q \subseteq c /\ i \in q => q \subseteq Cofactored(c)
<1>1. PartVar \in Vars /\ i \in var_mask[PartVar]
  BY PartVarFacts
<1>2. Cofactored(c) \in Cubes /\ Cofactored(c) \subseteq c
  BY DEF Cofactored, Cubes
<1>3. ASSUME NEW q \in Points, q \subseteq c, i \in q PROVE q \subseteq Cofactored(c)
  <2>1. PICK p : q \cap var_mask[PartVar] = {p}
    BY <1>1, PointFacts
  <2>2. p = i
    BY <1>1, <1>3, <2>1
  <2> QED BY <1>3, <2>1, <2>2 DEF Cofactored
<1> QED BY <1>2, <1>3

(* The positions of the cubes that have the part, in order.                *)
LEMMA HavingFacts ==
  ASSUME NEW A \in Seq(CubeRecords), A = F
  PROVE  /\ DOMAIN HavingAt = 1 .. Cardinality(Having)
         /\ \A k \in DOMAIN HavingAt : HavingAt[k] \in Having
         /\ \A j \in Having : \E k \in DOMAIN HavingAt : HavingAt[k] = j
         /\ \A k \in DOMAIN HavingAt, l \in DOMAIN HavingAt : HavingAt[k] = HavingAt[l] => k = l
<1>1. Having \in SUBSET (1 .. Len(F)) /\ Len(F) \in Nat
  BY DEF Having
<1>2. IsFiniteSet(Having)
  BY <1>1, PositionsFinite, FS_Subset
<1>3. StrictTotalOrder(Having, Increasing(Having))
  BY <1>1, IncreasingOrder
<1> DEFINE at == Listing(Having, Increasing(Having))
           n  == Cardinality(Having)
<1>4. /\ at \in [1 .. n -> Having]
      /\ \A j \in Having : \E k \in 1 .. n : at[k] = j
  BY <1>2, <1>3, ListingFacts
<1>5. \A k \in 1 .. n, l \in 1 .. n : at[k] = at[l] => k = l
  BY <1>2, <1>3, ListingOnce
<1>6. HavingAt = at
  BY DEF HavingAt
<1> HIDE DEF at, n
<1>7. DOMAIN at = 1 .. n
  BY <1>4
<1> QED BY <1>4, <1>5, <1>6, <1>7 DEF n

(* What mv_reduce hands to irredundant: the cofactors of the cubes that    *)
(* have the part.                                                          *)
LEMMA PartOfFacts ==
  ASSUME i \in Parts, NEW A \in Seq(Cubes)
  PROVE  PartOf(A) \in Seq(Cubes) /\ PtsOf(PartOf(A)) \subseteq PtsOf(A)
<1> DEFINE I    == {k \in DOMAIN A : i \in A[k]}
           with == Keep(A, I)
<1>1. I \in SUBSET DOMAIN A /\ \A k \in I : i \in A[k] /\ A[k] \in Cubes
  OBVIOUS
<1>2. PartOf(A) = [k \in DOMAIN with |-> Cofactored(with[k])]
  BY DEF PartOf
<1> HIDE DEF I
<1>3. with \in Seq(Cubes) /\ \A k \in DOMAIN with : \E j \in I : with[k] = A[j]
  BY <1>1, KeepFacts
<1> HIDE DEF with
<1>4. \A k \in DOMAIN with : with[k] \in Cubes /\ i \in with[k]
  BY <1>1, <1>3
<1>5. \A k \in DOMAIN with : Cofactored(with[k]) \in Cubes /\ Cofactored(with[k]) \subseteq with[k]
  BY <1>4, CofactoredFacts
<1>6. DOMAIN with = 1 .. Len(with) /\ Len(with) \in Nat
  BY <1>3
<1>7. PartOf(A) \in [1 .. Len(with) -> Cubes]
  BY <1>2, <1>5, <1>6
<1>8. PartOf(A) \in Seq(Cubes)
  BY <1>6, <1>7
<1>9. \A k \in DOMAIN PartOf(A) : \E j \in DOMAIN A : PartOf(A)[k] \subseteq A[j]
  BY <1>1, <1>2, <1>3, <1>5
<1> QED BY <1>8, <1>9, BelowPts DEF Below

(* For the cover itself they stand in the order of HavingAt.               *)
LEMMA PartOfCover ==
  ASSUME F \in Seq(CubeRecords)
  PROVE  /\ DOMAIN PartOf(Sets(F)) = DOMAIN HavingAt
         /\ \A k \in DOMAIN HavingAt : PartOf(Sets(F))[k] = Cofactored(F[HavingAt[k]].set)
<1> DEFINE A    == Sets(F)
           I    == {k \in DOMAIN A : i \in A[k]}
           with == Keep(A, I)
<1>1. DOMAIN A = DOMAIN F /\ \A j \in DOMAIN F : A[j] = F[j].set
  BY SetsFacts
<1>2. PartOf(A) = [k \in DOMAIN with |-> Cofactored(with[k])]
  BY DEF PartOf
<1> HIDE DEF A
<1>3. I = Having
  BY <1>1 DEF Having
<1>4. with = [k \in 1 .. Cardinality(Having) |-> A[HavingAt[k]]]
  BY <1>3 DEF Keep, HavingAt
<1>5. DOMAIN HavingAt = 1 .. Cardinality(Having) /\ \A k \in DOMAIN HavingAt : HavingAt[k] \in DOMAIN F
  BY HavingFacts DEF Having
<1> HIDE DEF with
<1>6. DOMAIN with = DOMAIN HavingAt /\ \A k \in DOMAIN HavingAt : with[k] = F[HavingAt[k]].set
  BY <1>1, <1>4, <1>5
<1> QED BY <1>2, <1>6 DEF A

(* What a cube loses is in one that keeps the part.                        *)
LEMMA MvReducePartKept ==
  ASSUME IInv, FullInv, KeptInv, MvReducePart PROVE Kept'
<1> DEFINE m == mark_irredundant(PartOf(Sets(F)), PartOf(in.D))
           lose == {HavingAt[k] : k \in DOMAIN HavingAt \ m.active}
           fewer(c) == IF PartVar = output \/ ~ (var_mask[PartVar] \subseteq c) THEN c \ {i} ELSE c
           lost(j)  == [F[j] EXCEPT !.PRIME = FALSE, !.set = fewer(F[j].set)]
<1>1. /\ F \in Seq(CubeRecords) /\ Kept /\ in \in Inputs
      /\ pc = "mv_reduce" /\ UNCHANGED <<in, call>> /\ pc' \in {"mv_reduce", "fatal"}
  BY DEF IInv, TypesInv, KeptInv, MvReducePart, main, costs, expansion
<1>2. i \in Parts
  <2>1. i \in Nat /\ i < size
    BY DEF MvReducePart, IInv, TypesInv
  <2>2. size \in Nat /\ Parts = 0 .. size - 1
    BY PartsFinite DEF Parts
  <2> QED BY <2>1, <2>2
<1>3. /\ F' = [j \in DOMAIN F |-> IF j \notin lose THEN F[j] ELSE lost(j)]
      /\ pc' # "fatal" => m.ok
  <2> DEFINE p == PartIrredundant
  <2>1. /\ F' = [j \in DOMAIN F |-> IF j \notin p.lose THEN F[j] ELSE lost(j)]
        /\ pc' # "fatal" => p.ok
    BY DEF MvReducePart
  <2>2. p.lose = lose /\ p.ok = m.ok
    BY DEF PartIrredundant, Losers
  <2> HIDE DEF p, lose, m, lost
  <2> QED BY <2>1, <2>2
<1>4. CASE pc' = "fatal"
  BY <1>4 DEF Kept
<1>5. CASE pc' # "fatal"
  <2>1. in.D \in Seq(Cubes)
    BY <1>1, InputsAssumption
  <2>2. Sets(F) \in Seq(Cubes)
    BY <1>1, SetsFacts
  <2>3. PartOf(Sets(F)) \in Seq(Cubes) /\ PartOf(in.D) \in Seq(Cubes) /\ PtsOf(PartOf(in.D)) \subseteq PtsOf(in.D)
    BY <1>2, <2>1, <2>2, PartOfFacts
  <2>4. /\ m.active \subseteq DOMAIN PartOf(Sets(F))
        /\ \A q \in PtsOf(PartOf(Sets(F))) :
              q \in PtsOf(PartOf(in.D)) \/ \E l \in m.active : q \subseteq PartOf(Sets(F))[l]
    <3>1. m.ok
      BY <1>3, <1>5
    <3> DEFINE A  == PartOf(Sets(F))
               dc == PartOf(in.D)
    <3>2. A \in Seq(Cubes) /\ dc \in Seq(Cubes) /\ m = mark_irredundant(A, dc)
      BY <2>3
    <3> HIDE DEF m, A, dc
    <3>3. /\ m.active \subseteq DOMAIN A
          /\ \A q \in PtsOf(A) : q \in PtsOf(dc) \/ \E l \in m.active : q \subseteq A[l]
      BY <3>1, <3>2, MarkSound
    <3> QED BY <3>3 DEF A, dc
  <2> HIDE DEF m
  <2>5. /\ \A k \in DOMAIN HavingAt : HavingAt[k] \in DOMAIN F /\ i \in F[HavingAt[k]].set
        /\ \A j \in DOMAIN F : i \in F[j].set => \E k \in DOMAIN HavingAt : HavingAt[k] = j
        /\ \A k \in DOMAIN HavingAt, l \in DOMAIN HavingAt : HavingAt[k] = HavingAt[l] => k = l
    BY <1>1, HavingFacts DEF Having
  <2>6. /\ DOMAIN PartOf(Sets(F)) = DOMAIN HavingAt
        /\ \A k \in DOMAIN HavingAt : PartOf(Sets(F))[k] = Cofactored(F[HavingAt[k]].set)
    BY <1>1, PartOfCover
  <2>7. \A j \in DOMAIN F : F[j] \in CubeRecords /\ F[j].set \in Cubes
    BY <1>1, SetsFacts
  <2>8. \A j \in DOMAIN F : F[j].set \ {i} \subseteq fewer(F[j].set)
    OBVIOUS
  <2> HIDE DEF fewer
  <2>9. \A j \in DOMAIN F : lost(j).set = fewer(F[j].set)
    BY <2>7 DEF CubeRecords
  <2> HIDE DEF lost
  <2>10. /\ DOMAIN F' = DOMAIN F
         /\ \A j \in DOMAIN F : F[j].set \ {i} \subseteq F'[j].set
         /\ \A j \in DOMAIN F : j \notin lose => F'[j] = F[j]
    BY <1>3, <2>8, <2>9
  <2>11. \A l \in m.active : HavingAt[l] \in DOMAIN F /\ HavingAt[l] \notin lose
    BY <2>4, <2>5, <2>6
  <2> HIDE DEF lose
  <2>12. PointsOf(F) \subseteq PointsOf(F') \cup PtsOf(in.D)
    <3> SUFFICES ASSUME NEW q \in PointsOf(F), q \notin PtsOf(in.D) PROVE q \in PointsOf(F')
      OBVIOUS
    <3>1. PICK j \in DOMAIN F : q \subseteq F[j].set /\ q \in Points
      BY InRecords
    <3>2. CASE i \notin q
      <4>1. q \subseteq F'[j].set
        BY <2>10, <3>1, <3>2
      <4> QED BY <2>10, <3>1, <4>1, InRecords
    <3>3. CASE i \in q
      <4>1. PICK k \in DOMAIN HavingAt : HavingAt[k] = j
        BY <2>5, <3>1, <3>3
      <4>2. q \subseteq Cofactored(F[j].set)
        BY <1>2, <2>7, <3>1, <3>3, CofactoredFacts
      <4>3. q \in PtsOf(PartOf(Sets(F)))
        BY <2>6, <3>1, <4>1, <4>2, InCover
      <4>4. PICK l \in m.active : q \subseteq PartOf(Sets(F))[l]
        BY <2>3, <2>4, <4>3
      <4>5. l \in DOMAIN HavingAt /\ PartOf(Sets(F))[l] = Cofactored(F[HavingAt[l]].set)
        BY <2>4, <2>6, <4>4
      <4>6. Cofactored(F[HavingAt[l]].set) \subseteq F[HavingAt[l]].set
        BY <1>2, <2>5, <2>7, <4>5, CofactoredFacts
      <4>7. q \subseteq F'[HavingAt[l]].set /\ HavingAt[l] \in DOMAIN F'
        BY <2>10, <2>11, <4>4, <4>5, <4>6
      <4> QED BY <3>1, <4>7, InRecords
    <3> QED BY <3>2, <3>3
  <2>13. ~ InGasp /\ Final /\ ~ InGasp' /\ Final'
    BY <1>1, <1>5 DEF InGasp, Final
  <2>14. Held = PointsOf(F) \cup PtsOf(in.D)
    BY <2>13, HeldFacts
  <2>15. Held' = PointsOf(F') \cup PtsOf(in.D)
    BY <1>1, <2>13 DEF Held
  <2> QED BY <1>1, <2>12, <2>14, <2>15, KeptStep
<1> QED BY <1>4, <1>5

(* The last steps drop cubes without points, or none.                      *)
LEMMA RestKept ==
  ASSUME IInv, FullInv, KeptInv, MvReduceEnd \/ Sparse \/ Verify PROVE Kept'
<1> USE DEF main, costs, expansion
<1>1. F \in Seq(CubeRecords) /\ Kept /\ in' = in
  BY DEF IInv, TypesInv, KeptInv, MvReduceEnd, Sparse, Verify
<1>2. CASE pc' = "fatal"
  BY <1>2 DEF Kept
<1>3. CASE pc' # "fatal"
  <2>1. /\ pc \in {"mv_reduce", "expanded", "compare"} /\ (pc = "expanded" => call = "sparse")
        /\ pc' \in {"compare", "expand", "mv_reduce", "verified"} /\ (pc' = "expand" => call' = "sparse")
    BY <1>3 DEF MvReduceEnd, Sparse, Verify
  <2>2. ~ InGasp /\ Final /\ ~ InGasp' /\ Final'
    BY <2>1 DEF InGasp, Final
  <2>3. Held = PointsOf(F) \cup PtsOf(in.D)
    BY <2>2, HeldFacts
  <2>4. Held' = PointsOf(F') \cup PtsOf(in.D)
    BY <1>1, <2>2 DEF Held
  <2>5. PointsOf(F) \subseteq PointsOf(F')
    <3>1. CASE Sparse \/ Verify
      BY <3>1 DEF Sparse, Verify
    <3>2. CASE MvReduceEnd
      <4> DEFINE I == {j \in DOMAIN F : \A v \in Vars : sparse[v] => F[j].set \cap var_mask[v] # {}}
      <4>1. F' = Keep(F, I) /\ I \in SUBSET DOMAIN F
        BY <3>2 DEF MvReduceEnd
      <4>2. \A j \in DOMAIN F : j \notin I => Pts(F[j].set) \subseteq {}
        BY NoPoints
      <4> HIDE DEF I
      <4>3. PointsOf(F) \subseteq PointsOf(Keep(F, I)) \cup {}
        BY <1>1, <4>1, <4>2, KeepPoints
      <4> QED BY <4>1, <4>3
    <3> QED BY <3>1, <3>2
  <2>6. pc \notin {"begin", "fatal"}
    BY <2>1
  <2> QED BY <1>1, <2>3, <2>4, <2>5, <2>6, KeptStep
<1> QED BY <1>2, <1>3

(* Every step keeps the ON-set.                                            *)
LEMMA NextKept == IInv /\ FullInv /\ KeptInv /\ [Next]_vars => KeptInv'
<1> SUFFICES ASSUME IInv, FullInv, KeptInv, [Next]_vars PROVE KeptInv'
  OBVIOUS
<1>1. CASE UNCHANGED vars
  BY <1>1 DEF vars, main, costs, expansion, KeptInv, CallInv, EssenInv, CoveredInv, RaisingInv, Within,
              Expanding, Raising, Kept, OnsetKept, InGasp, Final
<1>2. CASE Next
  <2>0. CallInv /\ EssenInv /\ CoveredInv /\ RaisingInv
    BY DEF KeptInv
  <2>1. CallInv' /\ EssenInv' /\ CoveredInv' /\ RaisingInv'
    BY <1>2, <2>0, CallStep, EssenStep, CoveredStep
  <2>2. Kept'
    <3>1. CASE \/ Expand \/ SkipCube \/ OpenCube \/ SelectFeasible \/ NoneFeasible
               \/ RaiseFrequent \/ Mincov \/ HeuristicMincov \/ CloseCube \/ DropCovered
      <4>1. pc # "fatal"
        BY <3>1 DEF Expand, SkipCube, OpenCube, SelectFeasible, NoneFeasible, RaiseFrequent, Mincov,
                    HeuristicMincov, CloseCube, DropCovered
      <4> QED BY <3>1, <4>1, ExpandKept
    <3>2. CASE Begin \/ Irredundant1 \/ Irredundant2 \/ Essential \/ SingleExpand
      BY <3>2, BeginKept, IrredundantKept, EssentialKept
    <3>3. CASE Reduce \/ ReduceCube \/ ReduceEnd \/ ReduceGasp \/ ExpandGasp \/ ExpandGaspEnd
      BY <3>3, ReduceKept, GaspKept
    <3>4. CASE IrredGasp \/ SuperGasp \/ MvReducePart \/ MvReduceEnd \/ Sparse \/ Verify
      BY <3>4, IrredGaspKept, SuperGaspKept, MvReducePartKept, RestKept
    <3>5. CASE StartOver
      BY <3>5 DEF StartOver, Kept, OnsetKept
    <3>6. CASE Done
      BY <1>1, <3>6 DEF Done, KeptInv
    <3> QED BY <1>2, <3>1, <3>2, <3>3, <3>4, <3>5, <3>6 DEF Next
  <2> QED BY <2>1, <2>2 DEF KeptInv
<1> QED BY <1>1, <1>2

(* Nothing can be lost at first.                                           *)
LEMMA InitKept == Init => KeptInv
BY DEF Init, KeptInv, CallInv, EssenInv, CoveredInv, RaisingInv, Expanding, Raising, Kept, OnsetKept

(* No point of the ON-set is lost on the way, whatever is expanded,        *)
(* covered, reduced, thrown out or set aside, for all covers and options;  *)
(* unless the minimizer has given up.                                      *)
THEOREM OnsetAlwaysKept == Spec => [](pc # "fatal" => OnsetKept)
<1>1. KeptInv => (pc # "fatal" => OnsetKept)
  BY DEF KeptInv, Kept
<1> QED BY InitIInv, InitFull, InitKept, NextIInv, NextFull, NextKept, <1>1, PTL DEF Spec

(***************************************************************************)
(* The end.                                                                *)
(***************************************************************************)
Agrees ==
  /\ \A j \in DOMAIN F : Pts(F[j].set) \subseteq PtsOf(in.F) \cup PtsOf(in.D)
  /\ PtsOf(in.F) \subseteq PointsOf(F) \cup PtsOf(in.D)
VerifiedInv == pc = "verified" => Agrees

(* verify lets only covers pass that agree with the input.                 *)
LEMMA VerifyRight ==
  ASSUME IInv, Verify, pc' = "verified" PROVE Agrees'
<1>1. /\ F \in Seq(CubeRecords) /\ in.F \in Seq(Cubes) /\ in.D \in Seq(Cubes)
      /\ F' = F /\ in' = in
      /\ Covers(in.F, Sets(F), in.D) /\ Covers(Sets(F), in.F, in.D)
  BY InputsAssumption DEF IInv, TypesInv, Verify, main
<1>2. Sets(F) \in Seq(Cubes) /\ DOMAIN Sets(F) = DOMAIN F /\ \A j \in DOMAIN F : Sets(F)[j] = F[j].set
  BY <1>1, SetsFacts
<1>3. ASSUME NEW A \in Seq(Cubes), NEW B \in Seq(Cubes), NEW dc \in Seq(Cubes), Covers(A, B, dc),
             NEW j \in DOMAIN B
      PROVE  Pts(B[j]) \subseteq PtsOf(A) \cup PtsOf(dc)
  <2>1. B[j] \in Cubes /\ cube_is_covered(cube2list(A, dc), B[j])
    BY <1>3 DEF Covers
  <2> QED BY <1>3, <2>1, CubeCovered
<1>4. \A j \in DOMAIN F : Pts(F[j].set) \subseteq PtsOf(in.F) \cup PtsOf(in.D)
  BY <1>1, <1>2, <1>3
<1>5. \A j \in DOMAIN in.F : Pts(in.F[j]) \subseteq PointsOf(F) \cup PtsOf(in.D)
  BY <1>1, <1>2, <1>3 DEF PointsOf
<1>6. PtsOf(in.F) \subseteq PointsOf(F) \cup PtsOf(in.D)
  BY <1>5 DEF PtsOf
<1> QED BY <1>1, <1>4, <1>6 DEF Agrees

(* A result that has been verified has exactly the points of the input, up *)
(* to the don't cares: what verify asks with tautology is enough.          *)
THEOREM VerifiedAgrees == Spec => [](pc = "verified" => Agrees)
<1>1. Init => VerifiedInv
  BY DEF Init, VerifiedInv
<1>2. IInv /\ VerifiedInv /\ [Next]_vars => VerifiedInv'
  <2> SUFFICES ASSUME IInv, VerifiedInv, [Next]_vars PROVE VerifiedInv'
    OBVIOUS
  <2>1. CASE UNCHANGED vars
    BY <2>1 DEF vars, main, costs, expansion, VerifiedInv, Agrees
  <2>2. CASE Verify
    BY <2>2, VerifyRight DEF VerifiedInv
  <2>3. CASE Done
    BY <2>1, <2>3 DEF Done
  <2>4. CASE Next /\ ~ Verify /\ ~ Done
    <3>1. pc' # "verified"
      <4> USE <2>4
      <4>1. CASE Begin \/ Expand \/ SkipCube \/ OpenCube
        BY <4>1 DEF Begin, Expand, SkipCube, OpenCube
      <4>2. CASE SelectFeasible \/ NoneFeasible
        BY <4>2 DEF SelectFeasible, NoneFeasible
      <4>3. CASE RaiseFrequent \/ HeuristicMincov
        BY <4>3 DEF RaiseFrequent, HeuristicMincov, RaisePart
      <4>4. CASE Mincov \/ CloseCube \/ DropCovered
        BY <4>4 DEF Mincov, CloseCube, DropCovered
      <4>5. CASE Irredundant1 \/ Essential \/ SingleExpand
        BY <4>5 DEF Irredundant1, Essential, SingleExpand
      <4>6. CASE Reduce \/ ReduceCube \/ ReduceEnd \/ Irredundant2 \/ ReduceGasp
        BY <4>6 DEF Reduce, ReduceCube, ReduceEnd, Irredundant2, ReduceGasp
      <4>7. CASE ExpandGasp \/ ExpandGaspEnd
        BY <4>7 DEF ExpandGasp, ExpandGaspEnd
      <4>8. CASE IrredGasp \/ SuperGasp
        BY <4>8 DEF IrredGasp, SuperGasp, LoopOrSparse
      <4>9. CASE MvReducePart \/ MvReduceEnd \/ Sparse \/ StartOver
        BY <4>9 DEF MvReducePart, MvReduceEnd, Sparse, StartOver
      <4> QED BY <4>1, <4>2, <4>3, <4>4, <4>5, <4>6, <4>7, <4>8, <4>9 DEF Next
    <3> QED BY <3>1 DEF VerifiedInv
  <2> QED BY <2>1, <2>2, <2>3, <2>4
<1>3. VerifiedInv => (pc = "verified" => Agrees)
  BY DEF VerifiedInv
<1> QED BY InitIInv, InitFull, NextIInv, NextFull, <1>1, <1>2, <1>3, PTL DEF Spec

(***************************************************************************)
(* verify never finds a difference.  From the last time that mv_reduce     *)
(* drops the cubes without a part in a multiple-valued variable, every     *)
(* cube keeps one in each variable, so tautology finds it covered.         *)
(***************************************************************************)
SparseFull(A) == \A j \in DOMAIN A : \A v \in Vars : sparse[v] => A[j].set \cap var_mask[v] # {}
Thinned   == pc = "compare" \/ (call = "sparse" /\ pc \in {"expand", "next", "feasible", "raise", "expanded"})
SparseInv == Thinned => SparseFull(F)

(* The cubes of B contain cubes of A.                                      *)
Grown(A, B) == \A k \in DOMAIN B : \E j \in DOMAIN A : A[j].set \subseteq B[k].set

(* Larger cubes have the parts that smaller ones have.                     *)
LEMMA GrownSparse ==
  ASSUME NEW A, NEW B, Grown(A, B), SparseFull(A) PROVE SparseFull(B)
<1> SUFFICES ASSUME NEW k \in DOMAIN B, NEW v \in Vars, sparse[v] PROVE B[k].set \cap var_mask[v] # {}
  BY DEF SparseFull
<1>1. PICK j \in DOMAIN A : A[j].set \subseteq B[k].set
  BY DEF Grown
<1> QED BY <1>1 DEF SparseFull

(* The expansion only lets cubes grow.                                     *)
LEMMA ExpandGrows ==
  ASSUME IInv, KeptInv,
         \/ Expand \/ SkipCube \/ OpenCube \/ SelectFeasible \/ NoneFeasible
         \/ RaiseFrequent \/ Mincov \/ HeuristicMincov \/ CloseCube \/ DropCovered
  PROVE  Grown(F, F') /\ call' = call /\ pc \in {"expand", "next", "feasible", "raise"}
         /\ pc' # "compare"
<1>0. F \in Seq(CubeRecords) /\ \A j \in DOMAIN F : F[j] \in CubeRecords
  BY DEF IInv, TypesInv
<1>1. CASE Expand
  <2>1. mini_sort(F, ascend) \in Seq(CubeRecords) /\ From(mini_sort(F, ascend), F)
    BY <1>0, MiniSort
  <2>2. DOMAIN F' = DOMAIN mini_sort(F, ascend)
        /\ \A j \in DOMAIN F' : F'[j].set = mini_sort(F, ascend)[j].set
    <3>1. \A j \in DOMAIN mini_sort(F, ascend) : mini_sort(F, ascend)[j] \in CubeRecords
      BY <2>1
    <3> QED BY <1>1, <3>1 DEF Expand, Unmarked, CubeRecords
  <2>3. Grown(F, F')
    BY <2>1, <2>2 DEF Grown, From
  <2> QED BY <1>1, <2>3 DEF Expand
<1>2. CASE SkipCube
  BY <1>2 DEF SkipCube, Grown
<1>3. CASE OpenCube
  <2>1. i \in DOMAIN F
    BY <1>0, <1>3 DEF OpenCube, IInv, TypesInv
  <2>2. DOMAIN F' = DOMAIN F /\ \A j \in DOMAIN F : F'[j].set = F[j].set
    BY <1>0, <1>3, <2>1 DEF OpenCube, CubeRecords
  <2> QED BY <1>3, <2>2 DEF OpenCube, Grown
<1>4. CASE SelectFeasible \/ NoneFeasible
  BY <1>4 DEF SelectFeasible, NoneFeasible, Grown
<1>5. CASE RaiseFrequent \/ Mincov \/ HeuristicMincov
  BY <1>5 DEF RaiseFrequent, Mincov, HeuristicMincov, RaisePart, Grown
<1>6. CASE CloseCube
  <2>1. i \in DOMAIN F /\ F[i].set \subseteq RAISE
    BY <1>6 DEF CloseCube, IInv, ExpansionInv, KeptInv, RaisingInv, Raising
  <2>2. DOMAIN F' = DOMAIN F /\ \A j \in DOMAIN F : F'[j].set = IF j = i THEN RAISE \cup FREESET ELSE F[j].set
    BY <1>0, <1>6, <2>1 DEF CloseCube, CubeRecords
  <2>3. \A j \in DOMAIN F : F[j].set \subseteq F'[j].set
    BY <2>1, <2>2
  <2>4. Grown(F, F')
    BY <2>2, <2>3 DEF Grown
  <2> QED BY <1>6, <2>4 DEF CloseCube
<1>7. CASE DropCovered
  <2>1. From(F', F)
    BY <1>0, <1>7, KeepFrom DEF DropCovered
  <2> QED BY <1>7, <2>1 DEF DropCovered, From, Grown
<1> QED BY <1>1, <1>2, <1>3, <1>4, <1>5, <1>6, <1>7

(* The cubes that mv_reduce leaves have a part in each of those variables. *)
LEMMA MvReduceSparse ==
  ASSUME IInv, MvReduceEnd PROVE SparseFull(F')
<1> DEFINE kept == {j \in DOMAIN F : \A v \in Vars : sparse[v] => F[j].set \cap var_mask[v] # {}}
<1>1. F \in Seq(CubeRecords) /\ kept \in SUBSET DOMAIN F /\ F' = Keep(F, kept)
  BY DEF MvReduceEnd, IInv, TypesInv
<1> HIDE DEF kept
<1>2. \A k \in DOMAIN Keep(F, kept) : \E j \in kept : Keep(F, kept)[k] = F[j]
  BY <1>1, KeepFacts
<1> QED BY <1>1, <1>2 DEF SparseFull, kept

(* Every step keeps those parts.                                           *)
LEMMA NextSparse == IInv /\ KeptInv /\ SparseInv /\ [Next]_vars => SparseInv'
<1> SUFFICES ASSUME IInv, KeptInv, SparseInv, [Next]_vars PROVE SparseInv'
  OBVIOUS
<1> USE DEF main, costs, expansion
<1>1. CASE UNCHANGED vars
  BY <1>1 DEF vars, SparseInv, Thinned
<1>2. CASE \/ Expand \/ SkipCube \/ OpenCube \/ SelectFeasible \/ NoneFeasible
           \/ RaiseFrequent \/ Mincov \/ HeuristicMincov \/ CloseCube \/ DropCovered
  <2>1. Grown(F, F') /\ call' = call /\ pc \in {"expand", "next", "feasible", "raise"} /\ pc' # "compare"
    BY <1>2, ExpandGrows
  <2> QED BY <2>1, GrownSparse DEF SparseInv, Thinned
<1>3. CASE MvReduceEnd
  BY <1>3, MvReduceSparse DEF SparseInv
<1>4. CASE Sparse
  BY <1>4 DEF Sparse, SparseInv, Thinned
<1>5. CASE Begin \/ ReduceEnd \/ ExpandGaspEnd
  BY <1>5 DEF Begin, ReduceEnd, ExpandGaspEnd, SparseInv, Thinned
<1>6. CASE Irredundant1 \/ Irredundant2 \/ Essential \/ SingleExpand
  BY <1>6 DEF Irredundant1, Irredundant2, Essential, SingleExpand, SparseInv, Thinned
<1>7. CASE Reduce \/ ReduceCube \/ ReduceGasp \/ ExpandGasp
  BY <1>7 DEF Reduce, ReduceCube, ReduceGasp, ExpandGasp, SparseInv, Thinned
<1>8. CASE IrredGasp \/ SuperGasp
  BY <1>8 DEF IrredGasp, SuperGasp, LoopOrSparse, SparseInv, Thinned
<1>9. CASE MvReducePart \/ StartOver \/ Verify
  BY <1>9 DEF MvReducePart, StartOver, Verify, SparseInv, Thinned
<1>10. CASE Done
  BY <1>1, <1>10 DEF Done
<1> QED BY <1>1, <1>2, <1>3, <1>4, <1>5, <1>6, <1>7, <1>8, <1>9, <1>10 DEF Next

(* A clear cube of a complete input lies in the ON-set and the don't cares.*)
LEMMA ClearWithin ==
  ASSUME in \in Inputs, Complete(in), NEW c \in Cubes, Clear(c)
  PROVE  Pts(c) \subseteq PtsOf(in.F) \cup PtsOf(in.D)
<1> SUFFICES ASSUME NEW x \in Points, x \subseteq c, x \in PtsOf(in.R) PROVE FALSE
  BY DEF Complete, Pts
<1>1. PICK r \in DOMAIN R : x \subseteq R[r]
  BY DEF PtsOf, Pts, R
<1>2. ASSUME NEW v \in Vars PROVE var_mask[v] \cap R[r] \cap c # {}
  <2>1. PICK q : x \cap var_mask[v] = {q}
    BY PointFacts
  <2> QED BY <1>1, <2>1
<1> QED BY <1>2 DEF Clear, cdist0

(* What verify asks is so.                                                 *)
LEMMA VerifySeen ==
  ASSUME IInv, FullInv, KeptInv, SparseInv, Complete(in), pc = "compare"
  PROVE  Covers(in.F, Sets(F), in.D) /\ Covers(Sets(F), in.F, in.D)
<1>1. /\ in \in Inputs /\ F \in Seq(CubeRecords) /\ in.F \in Seq(Cubes) /\ in.D \in Seq(Cubes)
      /\ \A j \in DOMAIN in.F : cdist0(in.F[j], Parts)
  BY InputsAssumption DEF IInv, TypesInv
<1>2. /\ Sets(F) \in Seq(Cubes) /\ DOMAIN Sets(F) = DOMAIN F
      /\ \A j \in DOMAIN F : Sets(F)[j] = F[j].set /\ F[j].set \in Cubes
  BY <1>1, SetsFacts
<1>3. ASSUME NEW j \in DOMAIN F PROVE cube_is_covered(cube2list(in.F, in.D), F[j].set)
  <2>1. \A v \in Vars : var_mask[v] \cap F[j].set # {}
    <3> SUFFICES ASSUME NEW v \in Vars PROVE F[j].set \cap var_mask[v] # {}
      OBVIOUS
    <3>1. CASE v \in 0 .. num_binary_vars - 1
      BY <3>1 DEF FullInv, AllFull, Full
    <3>2. CASE v \notin 0 .. num_binary_vars - 1
      <4>1. v \in Int /\ 0 <= v /\ num_binary_vars \in Int
        BY CubeAssumption DEF Vars
      <4>2. v >= num_binary_vars
        BY <3>2, <4>1
      <4>3. sparse[v]
        BY <4>2 DEF sparse
      <4> QED BY <4>3 DEF SparseInv, Thinned, SparseFull
    <3> QED BY <3>1, <3>2
  <2>2. Clear(F[j].set)
    BY DEF IInv, Orthogonal, Candidate
  <2>3. Pts(F[j].set) \subseteq PtsOf(in.F) \cup PtsOf(in.D)
    BY <1>1, <1>2, <2>2, ClearWithin
  <2> QED BY <1>1, <1>2, <2>1, <2>3, CoveredSeen
<1>4. ASSUME NEW j \in DOMAIN in.F PROVE cube_is_covered(cube2list(Sets(F), in.D), in.F[j])
  <2>1. in.F[j] \in Cubes /\ \A v \in Vars : var_mask[v] \cap in.F[j] # {}
    BY <1>1 DEF cdist0
  <2>2. PtsOf(in.F) \subseteq PtsOf(Sets(F)) \cup PtsOf(in.D)
    BY DEF KeptInv, Kept, OnsetKept, InGasp, Final
  <2>3. Pts(in.F[j]) \subseteq PtsOf(Sets(F)) \cup PtsOf(in.D)
    BY <2>2 DEF PtsOf
  <2> QED BY <1>1, <1>2, <2>1, <2>3, CoveredSeen
<1> QED BY <1>2, <1>3, <1>4 DEF Covers

(* On a complete input the minimizer never gives up at the end: verify     *)
(* accepts every result it is asked about.                                 *)
THEOREM VerifyAccepts ==
  ASSUME \A x \in Inputs : Complete(x)
  PROVE  Spec => [][pc = "compare" => pc' # "fatal"]_vars
<1>1. Init => SparseInv
  BY DEF Init, SparseInv, Thinned
<1>2. IInv /\ FullInv /\ KeptInv /\ SparseInv /\ [Next]_vars => [pc = "compare" => pc' # "fatal"]_vars
  <2> SUFFICES ASSUME IInv, FullInv, KeptInv, SparseInv, Next, pc = "compare" PROVE pc' # "fatal"
    OBVIOUS
  <2>1. Complete(in)
    BY DEF IInv, TypesInv
  <2>2. Covers(in.F, Sets(F), in.D) /\ Covers(Sets(F), in.F, in.D)
    BY <2>1, VerifySeen
  <2>3. StartOver \/ Verify
    <3> USE DEF Next
    <3>1. ~ (Begin \/ Expand \/ SkipCube \/ OpenCube \/ SelectFeasible \/ NoneFeasible)
      BY DEF Begin, Expand, SkipCube, OpenCube, SelectFeasible, NoneFeasible
    <3>2. ~ (RaiseFrequent \/ Mincov \/ HeuristicMincov \/ CloseCube \/ DropCovered)
      BY DEF RaiseFrequent, Mincov, HeuristicMincov, CloseCube, DropCovered
    <3>3. ~ (Irredundant1 \/ Essential \/ SingleExpand \/ Reduce \/ ReduceCube \/ ReduceEnd)
      BY DEF Irredundant1, Essential, SingleExpand, Reduce, ReduceCube, ReduceEnd
    <3>4. ~ (Irredundant2 \/ ReduceGasp \/ ExpandGasp \/ ExpandGaspEnd \/ IrredGasp \/ SuperGasp)
      BY DEF Irredundant2, ReduceGasp, ExpandGasp, ExpandGaspEnd, IrredGasp, SuperGasp
    <3>5. ~ (MvReducePart \/ MvReduceEnd \/ Sparse \/ Done)
      BY DEF MvReducePart, MvReduceEnd, Sparse, Done, Ended
    <3> QED BY <3>1, <3>2, <3>3, <3>4, <3>5
  <2> QED BY <2>2, <2>3 DEF StartOver, Verify
<1> QED BY InitIInv, InitFull, InitKept, NextIInv, NextFull, NextKept, NextSparse, <1>1, <1>2, PTL DEF Spec

(* The union of the sets Q[x].                                             *)
Union(Q, s) == UNION {Q[x] : x \in s}

(* The sum of the sizes of sets that do not meet is the size of their      *)
(* union.                                                                  *)
LEMMA FoldedCounts ==
  ASSUME NEW S, IsFiniteSet(S), NEW Q, \A x \in S : IsFiniteSet(Q[x]),
         \A x \in S, y \in S : x # y => Q[x] \cap Q[y] = {},
         NEW f, \A x \in S : f[x] = Cardinality(Q[x]),
         NEW h, h = FoldedSum(S, f, h)
  PROVE  IsFiniteSet(Union(Q, S)) /\ h[S] = Cardinality(Union(Q, S))
<1> DEFINE All(s) == Union(Q, s)
           m == [s \in SUBSET S |-> Cardinality(s)]
           P == {s \in SUBSET S : IsFiniteSet(All(s)) /\ h[s] = Cardinality(All(s))}
<1>1. m \in [SUBSET S -> Nat]
  BY FS_Subset, FS_CardinalityType
<1>2. ASSUME NEW s \in SUBSET S, \A t \in SUBSET S : m[t] < m[s] => t \in P PROVE s \in P
  <2>1. CASE s = {}
    <3>1. All(s) = {} /\ h[s] = 0
      BY <2>1 DEF FoldedSum, Union
    <3> QED BY <3>1, FS_EmptySet
  <2>2. CASE s # {}
    <3> DEFINE x == Taken(s)
               t == s \ {x}
    <3>1. x \in s /\ x \in S /\ t \in SUBSET S /\ m[t] < m[s]
      BY <2>2, TakenFrom
    <3>2. IsFiniteSet(All(t)) /\ h[t] = Cardinality(All(t))
      BY <1>2, <3>1
    <3>3. h[s] = h[t] + Cardinality(Q[x])
      BY <2>2, <3>1 DEF FoldedSum
    <3> HIDE DEF x, m
    <3>4. All(s) = All(t) \cup Q[x]
      BY <3>1 DEF Union
    <3>5. All(t) \cap Q[x] = {}
      BY <3>1 DEF Union
    <3>6. IsFiniteSet(Q[x])
      BY <3>1
    <3> HIDE DEF All, t
    <3>7. /\ IsFiniteSet(All(t) \cup Q[x])
          /\ Cardinality(All(t) \cup Q[x]) = Cardinality(All(t)) + Cardinality(Q[x]) - Cardinality(All(t) \cap Q[x])
      BY <3>2, <3>6, FS_Union
    <3>8. Cardinality(All(t) \cap Q[x]) = 0 /\ Cardinality(All(t)) \in Nat /\ Cardinality(Q[x]) \in Nat
      BY <3>2, <3>5, <3>6, FS_EmptySet, FS_CardinalityType
    <3>9. IsFiniteSet(All(s)) /\ h[s] = Cardinality(All(s))
      BY <3>2, <3>3, <3>4, <3>7, <3>8
    <3> QED BY <3>9
  <2> QED BY <2>1, <2>2
<1> DEFINE Subs == SUBSET S
<1>3. Subs \subseteq P
  <2>1. m \in [Subs -> Nat]
    BY <1>1
  <2>2. \A s \in Subs : (\A t \in Subs : m[t] < m[s] => t \in P) => s \in P
    BY <1>2
  <2> HIDE DEF Subs, P, m
  <2> QED BY <2>1, <2>2, MeasureInduction
<1> QED BY <1>3

(* The literals of a cover, as cover_cost counts them: the parts of the    *)
(* binary variables that its cubes lack, those of the others they have.    *)
Zeros(C, v) == {x \in (DOMAIN C) \X var_mask[v] : x[2] \notin C[x[1]]}
Ones(C, v)  == {x \in (DOMAIN C) \X var_mask[v] : x[2] \in C[x[1]]}
Literals(C) == (UNION {Zeros(C, v) : v \in 0 .. num_binary_vars - 1})
                 \cup (UNION {Ones(C, v) : v \in num_binary_vars .. num_vars - 1})

(* What massive_count counts in one variable.                              *)
LEMMA ZerosCounted ==
  ASSUME NEW C \in Seq(Cubes), NEW v \in Vars
  PROVE  /\ IsFiniteSet(Zeros(C, v)) /\ IsFiniteSet(Ones(C, v))
         /\ massive_count(cube1list(C)).var_zeros[v] = Cardinality(Zeros(C, v))
         /\ Len(C) * part_size[v] - massive_count(cube1list(C)).var_zeros[v] = Cardinality(Ones(C, v))
<1> DEFINE T   == cube1list(C)
           all == (DOMAIN C) \X var_mask[v]
<1>1. T.cubes = C /\ T.cof = {}
  BY DEF cube1list
<1>2. massive_count(T).var_zeros[v] = Cardinality(Zeros(C, v))
  <2>1. massive_count(T).var_zeros[v] =
          Cardinality({x \in (DOMAIN T.cubes) \X (var_mask[v] \ T.cof) : x[2] \notin T.cubes[x[1]]})
    BY DEF massive_count, VarSummary, Summary
  <2>2. {x \in (DOMAIN T.cubes) \X (var_mask[v] \ T.cof) : x[2] \notin T.cubes[x[1]]} = Zeros(C, v)
    BY <1>1 DEF Zeros
  <2> QED BY <2>1, <2>2
<1>4. /\ IsFiniteSet(DOMAIN C) /\ Cardinality(DOMAIN C) = Len(C) /\ Len(C) \in Nat
  <2>1. DOMAIN C = 1 .. Len(C) /\ Len(C) \in Nat
    OBVIOUS
  <2>2. /\ IsFiniteSet(1 .. Len(C))
        /\ Cardinality(1 .. Len(C)) = IF 1 > Len(C) THEN 0 ELSE Len(C) - 1 + 1
    BY <2>1, FS_Interval
  <2>3. (IF 1 > Len(C) THEN 0 ELSE Len(C) - 1 + 1) = Len(C)
    BY <2>1
  <2> QED BY <2>1, <2>2, <2>3
<1>5. IsFiniteSet(var_mask[v]) /\ Cardinality(var_mask[v]) = part_size[v] /\ part_size[v] \in Nat
  <2>1. /\ first_part[v] \in Nat /\ first_part[v + 1] \in Nat /\ first_part[v] < first_part[v + 1]
        /\ var_mask[v] = first_part[v] .. first_part[v + 1] - 1
    BY MaskFacts
  <2>2. first_part[v + 1] = first_part[v] + part_size[v] /\ part_size[v] \in Nat
    BY CubeAssumption
  <2> DEFINE low  == first_part[v]
             high == first_part[v + 1] - 1
  <2>3. low \in Int /\ high \in Int /\ ~ (low > high) /\ high - low + 1 = part_size[v]
    BY <2>1, <2>2
  <2>4. var_mask[v] = low .. high
    BY <2>1
  <2> HIDE DEF low, high
  <2>5. /\ IsFiniteSet(low .. high)
        /\ Cardinality(low .. high) = IF low > high THEN 0 ELSE high - low + 1
    BY <2>3, FS_Interval
  <2> QED BY <2>2, <2>3, <2>4, <2>5
<1>6. IsFiniteSet(all) /\ Cardinality(all) = Len(C) * part_size[v]
  <2>1. /\ IsFiniteSet((DOMAIN C) \X var_mask[v])
        /\ Cardinality((DOMAIN C) \X var_mask[v]) = Cardinality(DOMAIN C) * Cardinality(var_mask[v])
    BY <1>4, <1>5, FS_Product
  <2> QED BY <1>4, <1>5, <2>1
<1>7. Zeros(C, v) \in SUBSET all /\ Ones(C, v) = all \ Zeros(C, v) /\ all \cap Zeros(C, v) = Zeros(C, v)
  BY DEF Zeros, Ones
<1> HIDE DEF all, T
<1>8. IsFiniteSet(Zeros(C, v)) /\ Cardinality(Zeros(C, v)) \in Nat
  BY <1>6, <1>7, FS_Subset, FS_CardinalityType
<1>9. /\ IsFiniteSet(all \ Zeros(C, v))
      /\ Cardinality(all \ Zeros(C, v)) = Cardinality(all) - Cardinality(all \cap Zeros(C, v))
  BY <1>6, FS_Difference
<1> QED BY <1>2, <1>6, <1>7, <1>8, <1>9 DEF T


(* The cost of a cover is the number of its literals.                      *)
LEMMA CostCounted ==
  ASSUME NEW C \in Seq(Cubes)
  PROVE  IsFiniteSet(Literals(C)) /\ cover_cost(C).total = Cardinality(Literals(C))
<1> DEFINE zeros == massive_count(cube1list(C)).var_zeros
           ones(v) == Len(C) * part_size[v] - zeros[v]
           Low   == 0 .. num_binary_vars - 1
           High  == num_binary_vars .. num_vars - 2
           in0   == [v \in Low |-> zeros[v]]
           mv0   == [v \in High |-> ones(v)]
           inputs == FoldSet(LAMBDA v, n : n + zeros[v], 0, Low)
           others == FoldSet(LAMBDA v, n : n + ones(v), 0, High)
           Zs == [v \in Low |-> Zeros(C, v)]
           Os == [v \in High |-> Ones(C, v)]
           AllZ == UNION {Zeros(C, v) : v \in Low}
           AllO == UNION {Ones(C, v) : v \in High}
           Out  == Ones(C, output)
<1>2. /\ Low \subseteq Vars /\ High \subseteq Vars /\ output \in Vars
      /\ IsFiniteSet(Low) /\ IsFiniteSet(High)
      /\ num_binary_vars .. num_vars - 1 = High \cup {output}
      /\ Low \cap High = {} /\ output \notin Low \cup High
  <2>1. num_vars \in Nat /\ num_binary_vars \in Nat /\ num_binary_vars <= num_vars - 1
    BY CubeAssumption
  <2>2. IsFiniteSet(Low) /\ IsFiniteSet(High)
    BY <2>1, FS_Interval
  <2> QED BY <2>1, <2>2 DEF Vars, output
<1>3. \A v \in Vars : /\ IsFiniteSet(Zeros(C, v)) /\ IsFiniteSet(Ones(C, v))
                      /\ zeros[v] = Cardinality(Zeros(C, v)) /\ ones(v) = Cardinality(Ones(C, v))
  BY ZerosCounted
<1>4. cover_cost(C).total = inputs + others + ones(output)
  BY DEF cover_cost
<1> HIDE DEF zeros
<1>a. \A v \in Vars, w \in Vars : v # w => var_mask[v] \cap var_mask[w] = {}
  BY OneVariable
<1>b. \A v \in Vars, w \in Vars : v # w => /\ Zeros(C, v) \cap Zeros(C, w) = {}
                                           /\ Ones(C, v) \cap Ones(C, w) = {}
                                           /\ Zeros(C, v) \cap Ones(C, w) = {}
  <2> SUFFICES ASSUME NEW v \in Vars, NEW w \in Vars, v # w
               PROVE  /\ Zeros(C, v) \cap Zeros(C, w) = {}
                      /\ Ones(C, v) \cap Ones(C, w) = {}
                      /\ Zeros(C, v) \cap Ones(C, w) = {}
    OBVIOUS
  <2>1. var_mask[v] \cap var_mask[w] = {}
    BY <1>a
  <2> QED BY <2>1 DEF Zeros, Ones
<1>5. IsFiniteSet(AllZ) /\ inputs = Cardinality(AllZ)
  <2> DEFINE Sum(h) == [s \in SUBSET Low |->
                          IF s = {} THEN 0 ELSE LET x == CHOOSE x \in s : TRUE IN h[s \ {x}] + zeros[x]]
             iter == CHOOSE h : h = Sum(h)
  <2>1. inputs = iter[Low]
    BY DEF FoldSet, MapThenFoldSet
  <2>2. (\A v \in Low : in0[v] = Cardinality(Zs[v])) /\ in0 \in [Low -> Nat]
    <3>1. \A v \in Low : zeros[v] = Cardinality(Zs[v]) /\ Cardinality(Zs[v]) \in Nat
      BY <1>2, <1>3, FS_CardinalityType
    <3> HIDE DEF Low, Zs
    <3> QED BY <3>1
  <2>3. \A h : Sum(h) = FoldedSum(Low, in0, h)
    <3>1. ASSUME NEW s \in SUBSET Low, s # {} PROVE Taken(s) \in Low
      <4> HIDE DEF Low
      <4> QED BY <1>2, <3>1, TakenFrom
    <3> QED BY <3>1 DEF FoldedSum, Taken
  <2> HIDE DEF in0, Sum
  <2>4. \E h : h = Sum(h)
    BY <1>2, <2>2, <2>3, FoldedSums
  <2>5. iter = Sum(iter)
    BY <2>4
  <2> HIDE DEF iter, inputs
  <2>6. (\A v \in Low : IsFiniteSet(Zs[v])) /\ \A v \in Low, w \in Low : v # w => Zs[v] \cap Zs[w] = {}
    <3> HIDE DEF Low
    <3> QED BY <1>2, <1>3, <1>b
  <2>7. AllZ = Union(Zs, Low)
    <3> HIDE DEF Low
    <3> QED BY DEF Union
  <2> HIDE DEF Low, Zs, AllZ
  <2>8. iter = FoldedSum(Low, in0, iter)
    BY <2>3, <2>5
  <2>9. IsFiniteSet(Union(Zs, Low)) /\ iter[Low] = Cardinality(Union(Zs, Low))
    BY ONLY <1>2, <2>2, <2>6, <2>8, FoldedCounts
  <2> QED BY <2>1, <2>7, <2>9
<1>6. IsFiniteSet(AllO) /\ others = Cardinality(AllO)
  <2> DEFINE Sum(h) == [s \in SUBSET High |->
                          IF s = {} THEN 0 ELSE LET x == CHOOSE x \in s : TRUE IN h[s \ {x}] + ones(x)]
             iter == CHOOSE h : h = Sum(h)
  <2>1. others = iter[High]
    BY DEF FoldSet, MapThenFoldSet
  <2>2. (\A v \in High : mv0[v] = Cardinality(Os[v])) /\ mv0 \in [High -> Nat]
    <3>1. \A v \in High : ones(v) = Cardinality(Os[v]) /\ Cardinality(Os[v]) \in Nat
      BY <1>2, <1>3, FS_CardinalityType
    <3> HIDE DEF High, Os, ones
    <3> QED BY <3>1
  <2>3. \A h : Sum(h) = FoldedSum(High, mv0, h)
    <3>1. ASSUME NEW s \in SUBSET High, s # {} PROVE Taken(s) \in High
      BY <1>2, <3>1, TakenFrom
    <3> HIDE DEF ones
    <3> QED BY <3>1 DEF FoldedSum, Taken
  <2> HIDE DEF mv0, Sum
  <2>4. \E h : h = Sum(h)
    BY <1>2, <2>2, <2>3, FoldedSums
  <2>5. iter = Sum(iter)
    BY <2>4
  <2> HIDE DEF iter, others
  <2>6. (\A v \in High : IsFiniteSet(Os[v])) /\ \A v \in High, w \in High : v # w => Os[v] \cap Os[w] = {}
    <3> HIDE DEF High
    <3> QED BY <1>2, <1>3, <1>b
  <2>7. AllO = Union(Os, High)
    <3> HIDE DEF High
    <3> QED BY DEF Union
  <2> HIDE DEF High, Os, AllO
  <2>8. iter = FoldedSum(High, mv0, iter)
    BY <2>3, <2>5
  <2>9. IsFiniteSet(Union(Os, High)) /\ iter[High] = Cardinality(Union(Os, High))
    BY ONLY <1>2, <2>2, <2>6, <2>8, FoldedCounts
  <2> QED BY <2>1, <2>7, <2>9
<1>7. IsFiniteSet(Out) /\ ones(output) = Cardinality(Out)
  BY <1>2, <1>3
<1>8. Literals(C) = (AllZ \cup AllO) \cup Out
  <2>1. Literals(C) = AllZ \cup (UNION {Ones(C, v) : v \in num_binary_vars .. num_vars - 1})
    BY Zenon DEF Literals
  <2> HIDE DEF High, AllZ
  <2>2. UNION {Ones(C, v) : v \in num_binary_vars .. num_vars - 1} = AllO \cup Out
    BY <1>2
  <2> QED BY <2>1, <2>2
<1>9. AllZ \cap AllO = {} /\ (AllZ \cup AllO) \cap Out = {}
  <2> HIDE DEF Low, High
  <2>1. \A v \in Low, w \in High : v # w
    BY <1>2
  <2>2. \A v \in Low : v # output
    BY <1>2
  <2>3. \A v \in High : v # output
    BY <1>2
  <2> QED BY <1>2, <1>b, <2>1, <2>2, <2>3
<1> HIDE DEF AllZ, AllO, Out, inputs, others, ones
<1>10. /\ IsFiniteSet(AllZ \cup AllO)
       /\ Cardinality(AllZ \cup AllO) = Cardinality(AllZ) + Cardinality(AllO) - Cardinality(AllZ \cap AllO)
  BY <1>5, <1>6, FS_Union
<1> DEFINE AllI == AllZ \cup AllO
<1>11. /\ IsFiniteSet(AllI \cup Out)
       /\ Cardinality(AllI \cup Out) = Cardinality(AllI) + Cardinality(Out) - Cardinality(AllI \cap Out)
  <2> HIDE DEF AllI
  <2>1. IsFiniteSet(AllI)
    BY <1>10 DEF AllI
  <2> QED BY <1>7, <2>1, FS_Union
<1>12. /\ Cardinality(AllZ) \in Nat /\ Cardinality(AllO) \in Nat /\ Cardinality(Out) \in Nat
       /\ Cardinality({}) = 0
  BY <1>5, <1>6, <1>7, FS_EmptySet, FS_CardinalityType
<1>13. Literals(C) = AllI \cup Out /\ Cardinality(AllI \cap Out) = 0
  BY <1>8, <1>9, <1>12
<1>14. Cardinality(AllI) = inputs + others /\ inputs \in Nat /\ others \in Nat
  <2>1. Cardinality(AllZ \cap AllO) = 0
    BY <1>9, <1>12
  <2> QED BY <1>5, <1>6, <1>10, <1>12, <2>1
<1> HIDE DEF AllI
<1> QED BY <1>4, <1>7, <1>11, <1>12, <1>13, <1>14


(* A cover whose cubes have given up parts of multiple-valued variables    *)
(* costs no more, and the same only if no cube has given up any.           *)
LEMMA CheaperCost ==
  ASSUME NEW A \in Seq(Cubes), NEW B \in Seq(Cubes), DOMAIN B = DOMAIN A,
         \A j \in DOMAIN A : B[j] \subseteq A[j],
         \A j \in DOMAIN A : \A v \in 0 .. num_binary_vars - 1 : A[j] \cap var_mask[v] \subseteq B[j]
  PROVE  /\ cover_cost(B).total <= cover_cost(A).total
         /\ cover_cost(B).total = cover_cost(A).total => \A j \in DOMAIN A : B[j] = A[j]
<1> DEFINE Low  == 0 .. num_binary_vars - 1
           High == num_binary_vars .. num_vars - 1
<1>1. Low \subseteq Vars /\ High \subseteq Vars /\ Vars = Low \cup High /\ Low \cap High = {}
  <2>1. num_vars \in Nat /\ num_binary_vars \in Nat /\ num_binary_vars <= num_vars - 1
    BY CubeAssumption
  <2> QED BY <2>1 DEF Vars
<1>2. /\ Literals(A) = (UNION {Zeros(A, v) : v \in Low}) \cup (UNION {Ones(A, v) : v \in High})
      /\ Literals(B) = (UNION {Zeros(B, v) : v \in Low}) \cup (UNION {Ones(B, v) : v \in High})
  BY Zenon DEF Literals
<1>3. \A v \in Low : Zeros(B, v) \subseteq Zeros(A, v)
  BY DEF Zeros
<1>4. \A v \in High : Ones(B, v) \subseteq Ones(A, v)
  BY DEF Ones
<1> HIDE DEF Low, High
<1>a. \A x \in Literals(B) : (\E v \in Low : x \in Zeros(B, v)) \/ (\E v \in High : x \in Ones(B, v))
  BY <1>2
<1>5. Literals(B) \in SUBSET Literals(A)
  BY <1>2, <1>3, <1>4
<1>6. /\ IsFiniteSet(Literals(A))
      /\ cover_cost(A).total = Cardinality(Literals(A))
      /\ cover_cost(B).total = Cardinality(Literals(B))
  BY CostCounted
<1>7. /\ Cardinality(Literals(B)) <= Cardinality(Literals(A))
      /\ Cardinality(Literals(A)) = Cardinality(Literals(B)) => Literals(A) = Literals(B)
  BY <1>5, <1>6, FS_Subset
<1>8. ASSUME Literals(A) = Literals(B), NEW j \in DOMAIN A PROVE B[j] = A[j]
  <2> SUFFICES ASSUME NEW p \in A[j] PROVE p \in B[j]
    OBVIOUS
  <2>1. p \in Parts
    BY DEF Cubes
  <2>2. PICK w \in Vars : p \in var_mask[w]
    BY <2>1, MaskFacts
  <2>3. CASE w \in Low
    BY <2>2, <2>3 DEF Low
  <2>4. CASE w \in High
    <3>1. <<j, p>> \in Ones(A, w)
      BY <2>2 DEF Ones
    <3>2. <<j, p>> \in Literals(B)
      BY <1>2, <1>8, <2>4, <3>1
    <3>3. CASE \E v \in Low : <<j, p>> \in Zeros(B, v)
      <4>1. PICK v \in Low : p \in var_mask[v]
        BY <3>3 DEF Zeros
      <4> QED BY <1>1, <2>2, <2>4, <4>1, OneVariable
    <3>4. CASE \E v \in High : <<j, p>> \in Ones(B, v)
      BY <3>4 DEF Ones
    <3>5. \/ \E v \in Low : <<j, p>> \in Zeros(B, v)
          \/ \E v \in High : <<j, p>> \in Ones(B, v)
      BY ONLY <1>a, <3>2
    <3> QED BY <3>3, <3>4, <3>5
  <2> QED BY <1>1, <2>3, <2>4
<1> QED BY <1>6, <1>7, <1>8

(* Nor does a part of a cover cost more than all of it.                    *)
LEMMA KeepCost ==
  ASSUME NEW C \in Seq(Cubes), NEW I \in SUBSET DOMAIN C
  PROVE  cover_cost(Keep(C, I)).total <= cover_cost(C).total
<1> DEFINE at == Listing(I, Increasing(I))
           n  == Cardinality(I)
           K  == Keep(C, I)
           f  == [x \in Literals(K) |-> <<at[x[1]], x[2]>>]
<1>1. IsFiniteSet(I) /\ I \subseteq Nat
  <2>1. DOMAIN C \subseteq Nat /\ IsFiniteSet(DOMAIN C)
    BY PositionsFinite
  <2> QED BY <2>1, FS_Subset
<1>2. StrictTotalOrder(I, Increasing(I))
  BY <1>1, IncreasingOrder
<1>3. at \in [1 .. n -> I]
  BY <1>1, <1>2, ListingFacts
<1>4. \A k \in 1 .. n, l \in 1 .. n : at[k] = at[l] => k = l
  BY <1>1, <1>2, ListingOnce
<1>5. K = [k \in 1 .. n |-> C[at[k]]] /\ K \in Seq(Cubes)
  BY KeepFacts DEF Keep
<1> HIDE DEF at, n, K
<1>6. \A x \in Literals(K) : x = <<x[1], x[2]>> /\ x[1] \in 1 .. n
  BY <1>5 DEF Literals, Zeros, Ones
<1>7. \A x \in Literals(K) : <<at[x[1]], x[2]>> \in Literals(C)
  <2> SUFFICES ASSUME NEW x \in Literals(K) PROVE <<at[x[1]], x[2]>> \in Literals(C)
    OBVIOUS
  <2>1. x[1] \in 1 .. n /\ at[x[1]] \in DOMAIN C /\ K[x[1]] = C[at[x[1]]]
    BY <1>3, <1>5, <1>6
  <2>2. CASE \E v \in 0 .. num_binary_vars - 1 : x \in Zeros(K, v)
    <3>1. PICK v \in 0 .. num_binary_vars - 1 : x \in Zeros(K, v)
      BY <2>2
    <3>2. <<at[x[1]], x[2]>> \in Zeros(C, v)
      BY <2>1, <3>1 DEF Zeros
    <3> QED BY <3>1, <3>2 DEF Literals
  <2>3. CASE \E v \in num_binary_vars .. num_vars - 1 : x \in Ones(K, v)
    <3>1. PICK v \in num_binary_vars .. num_vars - 1 : x \in Ones(K, v)
      BY <2>3
    <3>2. <<at[x[1]], x[2]>> \in Ones(C, v)
      BY <2>1, <3>1 DEF Ones
    <3> QED BY <3>1, <3>2 DEF Literals
  <2> QED BY <2>2, <2>3 DEF Literals
<1>8. f \in Injection(Literals(K), Literals(C))
  <2>1. f \in [Literals(K) -> Literals(C)]
    BY <1>7
  <2>2. ASSUME NEW x \in Literals(K), NEW y \in Literals(K), f[x] = f[y] PROVE x = y
    <3>1. at[x[1]] = at[y[1]] /\ x[2] = y[2]
      BY <2>2
    <3>2. x[1] = y[1]
      BY <1>4, <1>6, <3>1
    <3> QED BY <1>6, <3>1, <3>2
  <2> QED BY <2>1, <2>2 DEF Injection, IsInjective
<1>9. /\ IsFiniteSet(Literals(C))
      /\ cover_cost(C).total = Cardinality(Literals(C))
      /\ cover_cost(K).total = Cardinality(Literals(K))
  BY <1>5, CostCounted
<1> HIDE DEF f
<1>10. Cardinality(Literals(K)) <= Cardinality(Literals(C))
  BY <1>8, <1>9, FS_Injection
<1> QED BY <1>9, <1>10 DEF K


(***************************************************************************)
(* mv_reduce once more: when a round through the outputs changes nothing,  *)
(* every output of every cube has been found needed.  The cost tells: a    *)
(* cube that gives a part up makes it smaller.                             *)
(***************************************************************************)
AllParts(c) == \A v \in Vars : var_mask[v] \cap c # {}
Needed(A, j, p) ==
  \E y \in Pts(A[j].set) : /\ p \in y /\ y \notin PtsOf(in.D)
                           /\ \A k \in DOMAIN A \ {j} : ~ (y \subseteq A[k].set)
NeededBelow(n) ==
  \A p \in var_mask[output], j \in DOMAIN F :
    p < n /\ p \in F[j].set /\ AllParts(F[j].set) => Needed(F, j, p)
RoundInv ==
  pc = "mv_reduce" => /\ best_cost.total \in Nat
                      /\ CostOf(F).total <= best_cost.total
                      /\ CostOf(F).total = best_cost.total => NeededBelow(i)

(* Where a cube has a point with the part, the cofactor has it.            *)
LEMMA PartOfPoint ==
  ASSUME i \in Parts, NEW A \in Seq(Cubes), NEW j \in DOMAIN A,
         NEW q \in Points, q \subseteq A[j], i \in q
  PROVE  \E k \in DOMAIN PartOf(A) : q \subseteq PartOf(A)[k]
<1> DEFINE I    == {k \in DOMAIN A : i \in A[k]}
           with == Keep(A, I)
<1>1. I \in SUBSET DOMAIN A /\ j \in I /\ A[j] \in Cubes
  OBVIOUS
<1>2. PartOf(A) = [k \in DOMAIN with |-> Cofactored(with[k])]
  BY DEF PartOf
<1> HIDE DEF I
<1>3. PICK k \in DOMAIN with : with[k] = A[j]
  BY <1>1, KeepFacts
<1> HIDE DEF with
<1>4. q \subseteq Cofactored(with[k])
  BY <1>1, <1>3, CofactoredFacts
<1> QED BY <1>2, <1>3, <1>4

(* An output that no cube gives up is needed by those that have it.        *)
LEMMA OutputSeen ==
  ASSUME IInv, i \in var_mask[output],
         NEW m, m = mark_irredundant(PartOf(Sets(F)), PartOf(in.D)), DOMAIN HavingAt \subseteq m.active,
         NEW j \in DOMAIN F, i \in F[j].set, AllParts(F[j].set)
  PROVE  Needed(F, j, i)
<1> DEFINE A  == PartOf(Sets(F))
           dc == PartOf(in.D)
<1>1. F \in Seq(CubeRecords) /\ in \in Inputs /\ in.D \in Seq(Cubes)
  BY InputsAssumption DEF IInv, TypesInv
<1>2. output \in Vars /\ i \in Parts
  <2>1. output \in Vars
    BY CubeAssumption DEF output, Vars
  <2> QED BY <2>1, MaskFacts
<1>3. PartVar = output
  BY <1>2, PartVarFacts, OneVariable
<1>4. Sets(F) \in Seq(Cubes) /\ \A k \in DOMAIN F : F[k].set \in Cubes
  BY <1>1, SetsFacts
<1>5. A \in Seq(Cubes) /\ dc \in Seq(Cubes)
  BY <1>1, <1>2, <1>4, PartOfFacts
<1>6. /\ DOMAIN A = DOMAIN HavingAt
      /\ \A k \in DOMAIN HavingAt : A[k] = Cofactored(F[HavingAt[k]].set)
  BY <1>1, PartOfCover
<1>7. /\ \A k \in DOMAIN F : i \in F[k].set => \E l \in DOMAIN HavingAt : HavingAt[l] = k
      /\ \A k \in DOMAIN HavingAt : HavingAt[k] \in DOMAIN F
  BY <1>1, HavingFacts DEF Having
<1>8. m = mark_irredundant(A, dc)
  OBVIOUS
<1>a. \A x \in Points, k \in DOMAIN in.D : x \subseteq in.D[k] /\ i \in x => \E l \in DOMAIN dc : x \subseteq dc[l]
  BY <1>1, <1>2, PartOfPoint
<1> HIDE DEF A, dc
<1>9. PICK l \in DOMAIN HavingAt : HavingAt[l] = j
  BY <1>7
<1>10. A[l] = Cofactored(F[j].set) /\ F[j].set \in Cubes
  BY <1>4, <1>6, <1>9
<1>11. A[l] \subseteq F[j].set /\ A[l] \cap var_mask[output] = {i}
  BY <1>2, <1>3, <1>10, CofactoredFacts DEF Cofactored
<1>12. \A v \in Vars : var_mask[v] \cap A[l] # {}
  <2> SUFFICES ASSUME NEW v \in Vars PROVE var_mask[v] \cap A[l] # {}
    OBVIOUS
  <2>1. CASE v = output
    BY <1>11, <2>1
  <2>2. CASE v # output
    <3>1. PICK p \in var_mask[v] : p \in F[j].set
      BY DEF AllParts
    <3>2. p \notin var_mask[output]
      BY <1>2, <2>2, <3>1, OneVariable
    <3>3. p \in A[l]
      BY <1>3, <1>10, <3>1, <3>2 DEF Cofactored
    <3> QED BY <3>1, <3>3
  <2> QED BY <2>1, <2>2
<1>13. DOMAIN A \subseteq m.active =>
         \A k \in DOMAIN A : (\A v \in Vars : var_mask[v] \cap A[k] # {}) =>
           \E q \in Pts(A[k]) : /\ \A d \in DOMAIN dc : ~ (q \subseteq dc[d])
                                /\ \A h \in DOMAIN A \ {k} : ~ (q \subseteq A[h])
  BY <1>5, <1>8, MarkSeen
<1>14. PICK q \in Pts(A[l]) : /\ \A d \in DOMAIN dc : ~ (q \subseteq dc[d])
                              /\ \A h \in DOMAIN A \ {l} : ~ (q \subseteq A[h])
  BY <1>6, <1>12, <1>13
<1>15. q \in Points /\ q \subseteq A[l] /\ q \subseteq F[j].set /\ i \in q
  <2>1. q \in Points /\ q \subseteq A[l]
    BY DEF Pts
  <2>2. PICK p : q \cap var_mask[output] = {p}
    BY <1>2, <2>1, PointFacts
  <2> QED BY <1>11, <2>1, <2>2
<1>16. q \notin PtsOf(in.D)
  <2> SUFFICES ASSUME NEW k \in DOMAIN in.D, q \subseteq in.D[k] PROVE FALSE
    BY InCover
  <2> QED BY <1>a, <1>14, <1>15
<1>17. ASSUME NEW k \in DOMAIN F \ {j}, q \subseteq F[k].set PROVE FALSE
  <2>1. i \in F[k].set /\ F[k].set \in Cubes
    BY <1>4, <1>15, <1>17
  <2>2. PICK h \in DOMAIN HavingAt : HavingAt[h] = k
    BY <1>7, <2>1
  <2>3. q \subseteq A[h]
    BY <1>2, <1>6, <1>15, <1>17, <2>1, <2>2, CofactoredFacts
  <2> QED BY <1>6, <1>9, <1>14, <2>2, <2>3
<1> QED BY <1>15, <1>16, <1>17 DEF Needed, Pts

(* A record for each cube, kept or not, in the same place.                 *)
LEMMA KeepSets ==
  ASSUME NEW A \in Seq(CubeRecords), NEW I \in SUBSET DOMAIN A
  PROVE  Sets(Keep(A, I)) = Keep(Sets(A), I)
<1> DEFINE at == Listing(I, Increasing(I))
           n  == Cardinality(I)
<1>1. IsFiniteSet(I) /\ I \subseteq Nat
  <2>1. DOMAIN A \subseteq Nat /\ IsFiniteSet(DOMAIN A)
    BY PositionsFinite
  <2> QED BY <2>1, FS_Subset
<1>2. at \in [1 .. n -> I]
  <2>1. StrictTotalOrder(I, Increasing(I))
    BY <1>1, IncreasingOrder
  <2> QED BY <1>1, <2>1, ListingFacts
<1>3. Keep(A, I) = [k \in 1 .. n |-> A[at[k]]] /\ Keep(Sets(A), I) = [k \in 1 .. n |-> Sets(A)[at[k]]]
  BY DEF Keep
<1> HIDE DEF at, n
<1>4. \A k \in 1 .. n : Sets(A)[at[k]] = A[at[k]].set
  BY <1>2, SetsFacts
<1>5. Sets(Keep(A, I)) = [k \in 1 .. n |-> A[at[k]].set]
  BY <1>3 DEF Sets
<1> QED BY <1>3, <1>4, <1>5


(* Parts from the first multiple-valued variable on are of no binary one,  *)
(* and the parts of the output are among them.                             *)
LEMMA BinaryApart ==
  /\ \A p \in Nat : p >= first_part[num_binary_vars] =>
       \A v \in 0 .. num_binary_vars - 1 : p \notin var_mask[v]
  /\ \A p \in var_mask[output] : p \in Nat /\ p < size /\ ~ (p < first_part[num_binary_vars])
<1>1. ASSUME NEW p \in Nat, p >= first_part[num_binary_vars],
             NEW v \in 0 .. num_binary_vars - 1, p \in var_mask[v]
      PROVE  FALSE
  <2>1. v \in Vars /\ var_mask[v] = first_part[v] .. first_part[v + 1] - 1 /\ v + 1 \in 0 .. num_vars
        /\ num_binary_vars \in 0 .. num_vars /\ v + 1 <= num_binary_vars
    BY CubeAssumption DEF Vars, var_mask
  <2>2. first_part[v + 1] <= first_part[num_binary_vars]
    <3>1. num_binary_vars \in Vars /\ v < num_binary_vars
      BY CubeAssumption DEF Vars
    <3> QED BY <2>1, <3>1, PartsApart
  <2>3. first_part[v] \in Nat /\ first_part[v + 1] \in Nat /\ first_part[num_binary_vars] \in Nat
    BY <2>1, CubeAssumption
  <2> QED BY <1>1, <2>1, <2>2, <2>3
<1>2. ASSUME NEW p \in var_mask[output] PROVE p \in Nat /\ p < size /\ ~ (p < first_part[num_binary_vars])
  <2>1. /\ num_vars \in Nat /\ num_binary_vars \in 0 .. num_vars - 1 /\ output \in Vars
        /\ num_binary_vars \in Vars /\ (num_binary_vars = output \/ num_binary_vars < output)
    BY CubeAssumption DEF output, Vars
  <2>2. /\ first_part[output] \in Nat /\ first_part[output + 1] \in Nat
        /\ var_mask[output] = first_part[output] .. first_part[output + 1] - 1
        /\ first_part[output + 1] <= size /\ size \in Nat
        /\ first_part[num_binary_vars] \in Nat /\ first_part[num_binary_vars + 1] \in Nat
        /\ first_part[num_binary_vars] < first_part[num_binary_vars + 1]
    BY <2>1, MaskFacts, PartsFinite
  <2>3. first_part[num_binary_vars] <= first_part[output]
    <3>1. CASE num_binary_vars = output
      BY <2>2, <3>1
    <3>2. CASE num_binary_vars < output
      <4>1. first_part[num_binary_vars + 1] <= first_part[output]
        BY <2>1, <3>2, PartsApart
      <4> QED BY <2>2, <4>1
    <3> QED BY <2>1, <3>1, <3>2
  <2> QED BY <2>2, <2>3
<1> QED BY <1>1, <1>2

(* A round begins with the cost of the cover taken.                        *)
LEMMA RoundBegins ==
  ASSUME F' \in Seq(CubeRecords), best_cost' = CostOf(F'), i' = first_part[num_binary_vars]
  PROVE  RoundInv'
<1>1. CostOf(F').total \in Nat
  BY CostFacts
<1>2. NeededBelow(i)'
  <2> SUFFICES ASSUME NEW p \in var_mask[output], p < i' PROVE FALSE
    BY DEF NeededBelow
  <2> QED BY BinaryApart
<1> HIDE DEF CostOf
<1> QED BY <1>1, <1>2 DEF RoundInv

(* The next part of it.                                                    *)
LEMMA RoundGoesOn ==
  ASSUME IInv, IInv', FullInv, RoundInv, MvReducePart PROVE RoundInv'
<1> DEFINE m == mark_irredundant(PartOf(Sets(F)), PartOf(in.D))
           lose == {HavingAt[k] : k \in DOMAIN HavingAt \ m.active}
           fewer(c) == IF PartVar = output \/ ~ (var_mask[PartVar] \subseteq c) THEN c \ {i} ELSE c
           lost(j)  == [F[j] EXCEPT !.PRIME = FALSE, !.set = fewer(F[j].set)]
<1>1. /\ F \in Seq(CubeRecords) /\ F' \in Seq(CubeRecords) /\ pc = "mv_reduce"
      /\ in' = in /\ best_cost' = best_cost /\ i' = i + 1 /\ i \in Nat /\ i < size
      /\ i >= first_part[num_binary_vars]
  BY DEF IInv, TypesInv, FullInv, MvReducePart, main, costs, expansion
<1>2. /\ best_cost.total \in Nat /\ CostOf(F).total <= best_cost.total
      /\ CostOf(F).total = best_cost.total => NeededBelow(i)
  BY <1>1 DEF RoundInv
<1>3. F' = [j \in DOMAIN F |-> IF j \notin lose THEN F[j] ELSE lost(j)]
  <2> DEFINE p == PartIrredundant
  <2>1. F' = [j \in DOMAIN F |-> IF j \notin p.lose THEN F[j] ELSE lost(j)]
    BY DEF MvReducePart
  <2>2. p.lose = lose
    BY DEF PartIrredundant, Losers
  <2> HIDE DEF p, lose, m, lost
  <2> QED BY <2>1, <2>2
<1>4. m = mark_irredundant(PartOf(Sets(F)), PartOf(in.D))
  OBVIOUS
<1> HIDE DEF m
<1>5. \A j \in DOMAIN F : F[j] \in CubeRecords
  BY <1>1
<1>6. \A j \in DOMAIN F : lost(j).set = fewer(F[j].set)
  <2> HIDE DEF fewer
  <2> QED BY <1>5 DEF CubeRecords
<1>7. \A j \in DOMAIN F : F[j].set \ {i} \subseteq fewer(F[j].set) /\ fewer(F[j].set) \subseteq F[j].set
  OBVIOUS
<1>8. PartVar = output => \A j \in DOMAIN F : i \notin fewer(F[j].set)
  OBVIOUS
<1> HIDE DEF fewer, lost
<1>9. /\ DOMAIN F' = DOMAIN F
      /\ \A j \in DOMAIN F : F[j].set \ {i} \subseteq F'[j].set /\ F'[j].set \subseteq F[j].set
      /\ PartVar = output => \A j \in lose : j \in DOMAIN F => i \notin F'[j].set
  BY <1>3, <1>6, <1>7, <1>8
<1> DEFINE A == Sets(F)
           B == Sets(F')
<1>10. /\ A \in Seq(Cubes) /\ B \in Seq(Cubes) /\ DOMAIN B = DOMAIN A /\ DOMAIN A = DOMAIN F
       /\ \A j \in DOMAIN F : A[j] = F[j].set /\ B[j] = F'[j].set
  BY <1>1, <1>9, SetsFacts
<1>11. CostOf(F) = cover_cost(A) /\ CostOf(F') = cover_cost(B)
  BY DEF CostOf
<1> HIDE DEF A, B
<1>12. /\ \A j \in DOMAIN A : B[j] \subseteq A[j]
       /\ \A j \in DOMAIN A : \A v \in 0 .. num_binary_vars - 1 : A[j] \cap var_mask[v] \subseteq B[j]
  <2>1. \A v \in 0 .. num_binary_vars - 1 : i \notin var_mask[v]
    BY <1>1, BinaryApart
  <2> QED BY <1>9, <1>10, <2>1
<1>13. /\ cover_cost(B).total <= cover_cost(A).total
       /\ cover_cost(B).total = cover_cost(A).total => \A j \in DOMAIN A : B[j] = A[j]
  BY <1>10, <1>12, CheaperCost
<1>14. CostOf(F).total \in Nat /\ CostOf(F').total \in Nat
  BY <1>1, CostFacts
<1>15. CostOf(F').total <= best_cost'.total
  BY <1>1, <1>2, <1>11, <1>13, <1>14
<1>16. ASSUME CostOf(F').total = best_cost'.total PROVE NeededBelow(i)'
  <2>1. CostOf(F).total = best_cost.total /\ cover_cost(B).total = cover_cost(A).total
    BY <1>1, <1>2, <1>11, <1>13, <1>14, <1>16
  <2>2. \A j \in DOMAIN F : F'[j].set = F[j].set
    BY <1>10, <1>13, <2>1
  <2> SUFFICES ASSUME NEW p \in var_mask[output], NEW j \in DOMAIN F,
                      p < i + 1, p \in F[j].set, AllParts(F[j].set)
               PROVE  Needed(F, j, p)
    <3>1. ASSUME NEW p, NEW j \in DOMAIN F, Needed(F, j, p) PROVE Needed(F, j, p)'
      BY <1>1, <1>9, <2>2, <3>1 DEF Needed
    <3> QED BY <1>1, <1>9, <2>2, <3>1 DEF NeededBelow
  <2>3. CASE p < i
    BY <1>2, <2>1, <2>3 DEF NeededBelow
  <2>4. CASE ~ (p < i)
    <3>1. p = i
      BY <1>1, <2>4, BinaryApart
    <3>2. PartVar = output
      <4>1. output \in Vars
        BY CubeAssumption DEF output, Vars
      <4>2. i \in Parts
        BY <3>1, <4>1, MaskFacts
      <4> QED BY <3>1, <4>1, <4>2, PartVarFacts, OneVariable
    <3>3. DOMAIN HavingAt \subseteq m.active
      <4> SUFFICES ASSUME NEW k \in DOMAIN HavingAt \ m.active PROVE FALSE
        OBVIOUS
      <4>1. HavingAt[k] \in lose
        OBVIOUS
      <4>2. HavingAt[k] \in DOMAIN F /\ i \in F[HavingAt[k]].set
        BY <1>1, HavingFacts DEF Having
      <4> HIDE DEF lose
      <4> QED BY <1>9, <2>2, <3>2, <4>1, <4>2
    <3> QED BY <1>4, <3>1, <3>3, OutputSeen
  <2> QED BY <2>3, <2>4
<1> HIDE DEF CostOf
<1> QED BY <1>1, <1>2, <1>15, <1>16 DEF RoundInv


(* The step that ends it.                                                  *)
LEMMA RoundEnds ==
  ASSUME IInv, FullInv, RoundInv, MvReduceEnd, pc' = "compare", Complete(in) PROVE MinimalCover(F')
<1> DEFINE I  == {j \in DOMAIN F : \A v \in Vars : sparse[v] => F[j].set \cap var_mask[v] # {}}
           at == Listing(I, Increasing(I))
           n  == Cardinality(I)
           K  == Keep(F, I)
<1>1. /\ F \in Seq(CubeRecords) /\ pc = "mv_reduce" /\ in \in Inputs /\ in.D \in Seq(Cubes)
      /\ i >= size /\ F' = K /\ CostOf(K).total = best_cost.total
  BY InputsAssumption DEF IInv, TypesInv, MvReduceEnd
<1>2. I \in SUBSET DOMAIN F
  OBVIOUS
<1>3. \A j \in I : AllParts(F[j].set)
  <2> SUFFICES ASSUME NEW j \in I, NEW v \in Vars PROVE F[j].set \cap var_mask[v] # {}
    BY DEF AllParts
  <2>1. CASE v \in 0 .. num_binary_vars - 1
    BY <1>1, <2>1 DEF FullInv, AllFull, Full
  <2>2. CASE v \notin 0 .. num_binary_vars - 1
    <3>1. v \in Int /\ 0 <= v /\ num_binary_vars \in Int
      BY CubeAssumption DEF Vars
    <3>2. v >= num_binary_vars
      BY <2>2, <3>1
    <3>3. sparse[v]
      BY <3>2 DEF sparse
    <3> QED BY <3>3
  <2> QED BY <2>1, <2>2
<1>4. /\ at \in [1 .. n -> I] /\ \A k \in 1 .. n, l \in 1 .. n : at[k] = at[l] => k = l
  <2> HIDE DEF I
  <2>1. IsFiniteSet(I) /\ I \subseteq Nat
    <3>1. DOMAIN F \subseteq Nat /\ IsFiniteSet(DOMAIN F)
      BY <1>1, PositionsFinite
    <3> QED BY <1>2, <3>1, FS_Subset
  <2>2. StrictTotalOrder(I, Increasing(I))
    BY <2>1, IncreasingOrder
  <2>3. at \in [1 .. n -> I]
    BY <2>1, <2>2, ListingFacts
  <2>4. \A k \in 1 .. n, l \in 1 .. n : at[k] = at[l] => k = l
    BY <2>1, <2>2, ListingOnce
  <2> QED BY <2>3, <2>4
<1>5. K = [k \in 1 .. n |-> F[at[k]]] /\ K \in Seq(CubeRecords) /\ Sets(K) = Keep(Sets(F), I)
  <2> HIDE DEF I
  <2>1. K = [k \in 1 .. n |-> F[at[k]]]
    BY DEF Keep
  <2>2. K \in Seq(CubeRecords) /\ Sets(K) = Keep(Sets(F), I)
    BY <1>1, <1>2, KeepFacts, KeepSets
  <2> QED BY <2>1, <2>2
<1> HIDE DEF I, at, n, K
<1>6. CostOf(K).total <= CostOf(F).total
  <2>1. Sets(F) \in Seq(Cubes) /\ I \in SUBSET DOMAIN Sets(F)
    BY <1>1, <1>2, SetsFacts
  <2>2. cover_cost(Keep(Sets(F), I)).total <= cover_cost(Sets(F)).total
    BY <2>1, KeepCost
  <2> QED BY <1>5, <2>2 DEF CostOf
<1>7. NeededBelow(i)
  <2>1. CostOf(F).total \in Nat /\ CostOf(K).total \in Nat
    BY <1>1, <1>5, CostFacts
  <2>2. /\ CostOf(F).total <= best_cost.total
        /\ CostOf(F).total = best_cost.total => NeededBelow(i)
    BY <1>1 DEF RoundInv
  <2> HIDE DEF CostOf
  <2> QED BY <1>1, <1>6, <2>1, <2>2
<1>8. /\ DOMAIN K = 1 .. n /\ DOMAIN Sets(K) = 1 .. n /\ Sets(K) \in Seq(Cubes)
      /\ \A k \in 1 .. n : at[k] \in I /\ at[k] \in DOMAIN F /\ K[k] = F[at[k]] /\ Sets(K)[k] = F[at[k]].set
  <2>1. DOMAIN K = 1 .. n /\ \A k \in 1 .. n : at[k] \in I /\ at[k] \in DOMAIN F /\ K[k] = F[at[k]]
    BY <1>2, <1>4, <1>5
  <2> QED BY <1>5, <2>1, SetsFacts
<1>9. ASSUME NEW k \in 1 .. n, NEW p \in K[k].set \cap var_mask[output], NotNeeded(K, k, p) PROVE FALSE
  <2> DEFINE j == at[k]
             X == [Sets(K) EXCEPT ![k] = @ \ {p}]
  <2>1. j \in I /\ j \in DOMAIN F /\ K[k] = F[j] /\ AllParts(F[j].set) /\ F[j].set \in Cubes
    BY <1>1, <1>3, <1>8, SetsFacts
  <2>2. p < i
    <3>1. p \in Nat /\ p < size
      BY BinaryApart
    <3>2. size \in Nat /\ i \in Nat
      BY PartsFinite DEF IInv, TypesInv
    <3> QED BY <1>1, <3>1, <3>2
  <2>3. Needed(F, j, p)
    BY <1>7, <2>1, <2>2 DEF NeededBelow
  <2>4. PICK y \in Pts(F[j].set) : /\ p \in y /\ y \notin PtsOf(in.D)
                                   /\ \A l \in DOMAIN F \ {j} : ~ (y \subseteq F[l].set)
    BY <2>3 DEF Needed
  <2>5. Clear(F[j].set)
    BY <1>1, <2>1 DEF IInv, Orthogonal, Candidate
  <2>6. y \in PtsOf(in.F)
    BY <1>1, <2>1, <2>4, <2>5, ClearWithin
  <2>7. X \in Seq(Cubes) /\ DOMAIN X = 1 .. n
        /\ \A l \in 1 .. n : X[l] = IF l = k THEN F[j].set \ {p} ELSE F[at[l]].set
    <3>1. Sets(K)[k] \ {p} \in Cubes
      BY <1>8, <2>1 DEF Cubes
    <3>2. X \in Seq(Cubes)
      <4> DEFINE S == Sets(K)
                 c == Sets(K)[k] \ {p}
      <4>1. S \in Seq(Cubes) /\ k \in DOMAIN S /\ c \in Cubes /\ X = [S EXCEPT ![k] = c]
        BY <1>8, <3>1
      <4> HIDE DEF S, c, X
      <4> QED BY <4>1
    <3>3. DOMAIN X = 1 .. n
      BY <1>8
    <3> QED BY <1>8, <3>2, <3>3
  <2>8. y \in PtsOf(X \o in.D)
    BY <1>9, <2>6 DEF NotNeeded
  <2> HIDE DEF X, j
  <2>9. y \in PtsOf(X)
    BY <1>1, <2>4, <2>7, <2>8, ConcatPts
  <2>10. PICK l \in 1 .. n : y \subseteq X[l]
    BY <2>7, <2>9, InCover
  <2>11. l # k
    BY <2>4, <2>7, <2>10
  <2>12. at[l] # j /\ at[l] \in DOMAIN F /\ y \subseteq F[at[l]].set
    BY <1>4, <1>8, <2>7, <2>10, <2>11 DEF j
  <2> QED BY <2>4, <2>12
<1> QED BY <1>1, <1>8, <1>9 DEF MinimalCover

(* Nothing but a single expansion, the end of irredundant after a gasp,    *)
(* make_sparse and mv_reduce itself leads into mv_reduce.                  *)
LEMMA NextRound == IInv /\ IInv' /\ FullInv /\ RoundInv /\ [Next]_vars => RoundInv'
<1> SUFFICES ASSUME IInv, IInv', FullInv, RoundInv, [Next]_vars PROVE RoundInv'
  OBVIOUS
<1> USE DEF main, costs, expansion
<1>0. F' \in Seq(CubeRecords)
  BY DEF IInv, TypesInv
<1>1. CASE UNCHANGED vars
  BY <1>1 DEF vars, RoundInv, NeededBelow, Needed
<1>2. CASE IrredGasp \/ SuperGasp
  <2>1. ASSUME NEW A, NEW again, LoopOrSparse(A, again) PROVE RoundInv'
    <3>1. CASE again
      BY <2>1, <3>1 DEF LoopOrSparse, RoundInv
    <3>2. CASE ~ again
      BY <1>0, <2>1, <3>2, RoundBegins DEF LoopOrSparse
    <3> QED BY <3>1, <3>2
  <2>2. ASSUME pc' = "fatal" PROVE RoundInv'
    BY <2>2 DEF RoundInv
  <2> HIDE DEF RoundInv
  <2> QED BY <1>2, <2>1, <2>2 DEF IrredGasp, SuperGasp
<1>3. CASE Sparse
  <2>1. CASE pc' = "mv_reduce"
    <3>1. best_cost' = CostOf(F') /\ i' = first_part[num_binary_vars]
      BY <1>3, <2>1 DEF Sparse
    <3> QED BY <1>0, <3>1, RoundBegins
  <2>2. CASE pc' # "mv_reduce"
    BY <2>2 DEF RoundInv
  <2> QED BY <2>1, <2>2
<1>4. CASE MvReducePart
  BY <1>4, RoundGoesOn
<1>a. CASE SingleExpand
  <2>1. best_cost' = CostOf(F') /\ i' = first_part[num_binary_vars]
    BY <1>a DEF SingleExpand
  <2> QED BY <1>0, <2>1, RoundBegins
<1>5. CASE Next /\ ~ (IrredGasp \/ SuperGasp \/ SingleExpand \/ Sparse \/ MvReducePart \/ Done)
  <2>1. pc' # "mv_reduce"
    <3> USE <1>5
    <3>1. CASE Begin \/ Expand \/ SkipCube \/ OpenCube
      BY <3>1 DEF Begin, Expand, SkipCube, OpenCube
    <3>2. CASE SelectFeasible \/ NoneFeasible
      BY <3>2 DEF SelectFeasible, NoneFeasible
    <3>3. CASE RaiseFrequent \/ HeuristicMincov
      BY <3>3 DEF RaiseFrequent, HeuristicMincov, RaisePart
    <3>4. CASE Mincov \/ CloseCube \/ DropCovered
      BY <3>4 DEF Mincov, CloseCube, DropCovered
    <3>5. CASE Irredundant1 \/ Essential
      BY <3>5 DEF Irredundant1, Essential
    <3>6. CASE Reduce \/ ReduceCube \/ ReduceEnd \/ Irredundant2 \/ ReduceGasp
      BY <3>6 DEF Reduce, ReduceCube, ReduceEnd, Irredundant2, ReduceGasp
    <3>7. CASE ExpandGasp \/ ExpandGaspEnd
      BY <3>7 DEF ExpandGasp, ExpandGaspEnd
    <3>8. CASE MvReduceEnd \/ StartOver \/ Verify
      BY <3>8 DEF MvReduceEnd, StartOver, Verify
    <3> QED BY <3>1, <3>2, <3>3, <3>4, <3>5, <3>6, <3>7, <3>8 DEF Next
  <2> QED BY <2>1 DEF RoundInv
<1>6. CASE Done
  BY <1>1, <1>6 DEF Done
<1> QED BY <1>1, <1>2, <1>3, <1>4, <1>5, <1>6, <1>a

(* On a complete input: when mv_reduce has gone through all outputs and    *)
(* has taken nothing off, no output of a cube can go.                      *)
THEOREM SettledMinimalHolds ==
  ASSUME \A x \in Inputs : Complete(x)
  PROVE  Spec => SettledMinimal
<1>1. Init => RoundInv
  BY DEF Init, RoundInv
<1>2. /\ IInv /\ FullInv /\ RoundInv /\ [Next]_vars
      => [pc = "mv_reduce" /\ pc' = "compare" => MinimalCover(F')]_vars
  <2> SUFFICES ASSUME IInv, FullInv, RoundInv, Next, pc = "mv_reduce", pc' = "compare"
               PROVE  MinimalCover(F')
    OBVIOUS
  <2>1. Complete(in)
    BY DEF IInv, TypesInv
  <2>2. MvReduceEnd
    <3> USE DEF Next
    <3>1. ~ (Begin \/ Expand \/ SkipCube \/ OpenCube \/ SelectFeasible \/ NoneFeasible)
      BY DEF Begin, Expand, SkipCube, OpenCube, SelectFeasible, NoneFeasible
    <3>2. ~ (RaiseFrequent \/ Mincov \/ HeuristicMincov \/ CloseCube \/ DropCovered)
      BY DEF RaiseFrequent, Mincov, HeuristicMincov, CloseCube, DropCovered
    <3>3. ~ (Irredundant1 \/ Essential \/ SingleExpand \/ Reduce \/ ReduceCube \/ ReduceEnd)
      BY DEF Irredundant1, Essential, SingleExpand, Reduce, ReduceCube, ReduceEnd
    <3>4. ~ (Irredundant2 \/ ReduceGasp \/ ExpandGasp \/ ExpandGaspEnd \/ IrredGasp \/ SuperGasp)
      BY DEF Irredundant2, ReduceGasp, ExpandGasp, ExpandGaspEnd, IrredGasp, SuperGasp
    <3>5. ~ (MvReducePart \/ Sparse \/ StartOver \/ Verify \/ Done)
      BY DEF MvReducePart, Sparse, StartOver, Verify, Done, Ended
    <3> QED BY <3>1, <3>2, <3>3, <3>4, <3>5
  <2> QED BY <2>1, <2>2, RoundEnds
<1>3. IInv /\ FullInv /\ RoundInv /\ [Next]_vars => RoundInv'
  BY NextIInv, NextRound
<1> QED BY InitIInv, InitFull, NextIInv, NextFull, <1>1, <1>2, <1>3, PTL DEF Spec, SettledMinimal

(***************************************************************************)
(* Where the minimizer may give up.  Most of the checks in expand.c,       *)
(* irred.c, sparse.c and gasp.c always succeed: no cube of the blocking    *)
(* matrix is only one variable away when a part is raised, for essen_parts *)
(* has just dropped those, and a matrix of mincov always has a cover.      *)
(***************************************************************************)
FarOff(B, c) == \A b \in B : cdist01(R[b], c) = 2
FarInv       == pc \in {"feasible", "raise"} => FarOff(BB, RAISE)

(* The distance counts up to 2.                                            *)
LEMMA Distance012 ==
  ASSUME NEW a, NEW b
  PROVE  /\ cdist01(a, b) \in {0, 1, 2}
         /\ cdist01(a, b) = 2 <=> Cardinality(Conflicts(a, b)) > 1
         /\ IsFiniteSet(Conflicts(a, b))
<1>1. Conflicts(a, b) \in SUBSET Vars
  BY DEF Conflicts
<1>2. IsFiniteSet(Conflicts(a, b))
  BY <1>1, PartsFinite, FS_Subset
<1>3. Cardinality(Conflicts(a, b)) \in Nat
  BY <1>2, FS_CardinalityType
<1> QED BY <1>2, <1>3 DEF cdist01, cdist

(* What essen_parts leaves in the blocking matrix is at least two          *)
(* variables away.                                                         *)
LEMMA EssenFar ==
  ASSUME NEW A, NEW B, NEW C, NEW c, NEW free, ~ Touched(B, c)
  PROVE  FarOff(essen_parts(A, B, C, c, free).BB, c)
<1> DEFINE parts == essen_parts(A, B, C, c, free)
           low   == free \ ForcedLow(B, c)
<1>1. parts.BB = B \ Near(B, c) \/ parts.BB = elim_BB(B \ Near(B, c), c \cup low)
  BY DEF essen_parts
<1> HIDE DEF parts, low
<1>2. parts.BB \subseteq B \ Near(B, c)
  BY <1>1 DEF elim_BB
<1>3. \A b \in B \ Near(B, c) : cdist01(R[b], c) # 0 /\ cdist01(R[b], c) # 1
  BY DEF Touched, Near
<1>4. \A b \in B \ Near(B, c) : cdist01(R[b], c) = 2
  BY <1>3, Distance012
<1> QED BY <1>2, <1>4 DEF FarOff, parts

(* Raising what no cube of the blocking matrix has brings none nearer.     *)
LEMMA RaisingFar ==
  ASSUME NEW B, NEW c, NEW free, FarOff(B, c) PROVE FarOff(B, c \cup essen_raising(B, free))
<1> SUFFICES ASSUME NEW b \in B PROVE cdist01(R[b], c \cup essen_raising(B, free)) = 2
  BY DEF FarOff
<1>1. R[b] \cap essen_raising(B, free) = {}
  BY DEF essen_raising
<1>2. Conflicts(R[b], c \cup essen_raising(B, free)) = Conflicts(R[b], c)
  BY <1>1 DEF Conflicts
<1>3. cdist01(R[b], c) = 2
  BY DEF FarOff
<1> QED BY <1>2, <1>3 DEF cdist01, cdist

(* One part more does not meet a cube that is two variables away.          *)
LEMMA OnePartMore ==
  ASSUME NEW B, NEW c, NEW p, FarOff(B, c) PROVE ~ Touched(B, c \cup {p})
<1> SUFFICES ASSUME NEW b \in B, cdist0(R[b], c \cup {p}) PROVE FALSE
  BY TouchedFacts
<1> DEFINE apart == Conflicts(R[b], c)
<1>1. Cardinality(apart) > 1 /\ IsFiniteSet(apart)
  BY Distance012 DEF FarOff
<1>2. \A v \in apart : v \in Vars /\ p \in var_mask[v]
  BY DEF Conflicts, cdist0
<1> HIDE DEF apart
<1>3. \A v, w \in apart : v = w
  BY <1>2, OneVariable
<1>4. PICK v \in apart : TRUE
  BY <1>1, FS_EmptySet
<1>5. apart = {v}
  BY <1>3, <1>4
<1>6. Cardinality({v}) = 1
  BY FS_Singleton
<1> QED BY <1>1, <1>5, <1>6

(* No cube of the blocking matrix comes near unseen.                       *)
LEMMA NextFar == IInv /\ FarInv /\ [Next]_vars => FarInv'
<1> SUFFICES ASSUME IInv, FarInv, [Next]_vars, pc' \in {"feasible", "raise"}
             PROVE  FarOff(BB', RAISE') /\ in' = in
  BY DEF FarInv, FarOff, R
<1>1. CASE UNCHANGED vars
  BY <1>1 DEF vars, main, expansion, FarInv, FarOff, R
<1>2. ASSUME NEW B, NEW C, NEW c, NEW free, ~ Touched(B, c), RAISE' = c, in' = in,
             BB' = essen_parts(F, B, C, c, free).BB
      PROVE  FarOff(BB', RAISE') /\ in' = in
  <2>1. FarOff(BB', c)
    BY <1>2, EssenFar
  <2> QED BY <1>2, <2>1 DEF FarOff, R
<1>3. CASE OpenCube
  <2>1. /\ ~ Touched(Opened.BB, F[i].set) /\ RAISE' = F[i].set /\ in' = in
        /\ BB' = essen_parts(F, Opened.BB, Opened.CC, F[i].set, Opened.FREESET).BB
    BY <1>3 DEF OpenCube, main
  <2> QED BY <1>2, <2>1
<1>4. CASE SelectFeasible
  <2> DEFINE raise2 == Raised \cup F[BestFeasible].set
  <2>1. /\ ~ Touched(BB, raise2) /\ RAISE' = raise2 /\ in' = in
        /\ BB' = essen_parts(F, BB, CC \ NowCovered, raise2, FREESET \ raise2).BB
    BY <1>4 DEF SelectFeasible, main
  <2> HIDE DEF raise2
  <2> QED BY <1>2, <2>1
<1>5. CASE NoneFeasible
  <2>1. FarOff(BB, RAISE) /\ RAISE' = RAISE \cup essen_raising(BB, FREESET) /\ BB' = BB /\ in' = in
    BY <1>5 DEF NoneFeasible, FarInv, Raised, main
  <2>2. FarOff(BB, RAISE \cup essen_raising(BB, FREESET))
    BY <2>1, RaisingFar
  <2> QED BY <2>1, <2>2 DEF FarOff, R
<1>6. CASE RaiseFrequent \/ HeuristicMincov
  <2>1. ASSUME NEW p, RaisePart(p) PROVE FarOff(BB', RAISE') /\ in' = in
    <3> DEFINE raise2 == RAISE \cup {p}
    <3>1. /\ ~ Touched(BB, raise2) /\ RAISE' = raise2 /\ in' = in
          /\ BB' = essen_parts(F, BB, CC, raise2, FREESET \ {p}).BB
      BY <2>1 DEF RaisePart, main
    <3> HIDE DEF raise2
    <3> QED BY <1>2, <3>1
  <2> QED BY <1>6, <2>1 DEF RaiseFrequent, HeuristicMincov
<1>7. CASE Mincov
  BY <1>7 DEF Mincov, FarOff, main
<1>8. CASE SkipCube \/ CloseCube \/ DropCovered \/ Begin \/ Expand
  BY <1>8 DEF SkipCube, CloseCube, DropCovered, Begin, Expand
<1>9. CASE Irredundant1 \/ Essential \/ SingleExpand \/ Reduce \/ ReduceCube \/ ReduceEnd
  BY <1>9 DEF Irredundant1, Essential, SingleExpand, Reduce, ReduceCube, ReduceEnd
<1>10. CASE Irredundant2 \/ ReduceGasp \/ ExpandGasp \/ ExpandGaspEnd
  BY <1>10 DEF Irredundant2, ReduceGasp, ExpandGasp, ExpandGaspEnd
<1>11. CASE IrredGasp \/ SuperGasp
  BY <1>11 DEF IrredGasp, SuperGasp, LoopOrSparse
<1>12. CASE MvReducePart \/ MvReduceEnd \/ Sparse \/ StartOver \/ Verify
  BY <1>12 DEF MvReducePart, MvReduceEnd, Sparse, StartOver, Verify
<1>13. CASE Done
  BY <1>1, <1>13 DEF Done
<1> QED BY <1>1, <1>3, <1>4, <1>5, <1>6, <1>7, <1>8, <1>9, <1>10, <1>11, <1>12, <1>13 DEF Next


(* mincov finds a cover of the blocking sets.                              *)
LEMMA MincovFound ==
  ASSUME in \in Inputs, BB \subseteq DOMAIN R PROVE do_sm_minimum_cover(BlockingSets, TRUE) # NIL
<1> DEFINE at  == Listing(BB, Increasing(BB))
           low == [k \in 1 .. Cardinality(BB) |-> force_lower(R[at[k]], RAISE)]
           B   == BlockingSets
           A   == {x \in (DOMAIN B) \X UNION ToSet(B) : x[2] \in B[x[1]]}
<1>1. R \in Seq(Cubes) /\ \A r \in DOMAIN R : R[r] \in Cubes
  BY OffsetFacts
<1>2. DOMAIN R = 1 .. Len(R) /\ Len(R) \in Nat
  BY <1>1
<1>3. IsFiniteSet(BB) /\ Cardinality(BB) \in Nat /\ BB \subseteq Int
  BY <1>2, PositionsFinite, FS_Subset, FS_CardinalityType
<1>4. at \in [1 .. Cardinality(BB) -> BB]
  BY <1>3, IncreasingOrder, ListingFacts
<1>5. B = unravel(low, num_binary_vars)
  BY DEF BlockingSets
<1> HIDE DEF at, B
<1>6. low \in Seq(Cubes)
  <2>1. \A k \in 1 .. Cardinality(BB) : force_lower(R[at[k]], RAISE) \in Cubes
    BY <1>1, <1>4 DEF force_lower, Cubes
  <2> QED BY <1>3, <2>1
<1> HIDE DEF low
<1>7. B \in Seq(Cubes)
  BY <1>5, <1>6, UnravelFacts
<1>8. DOMAIN B = 1 .. Len(B) /\ Len(B) \in Nat /\ \A k \in DOMAIN B : B[k] \in Cubes
  BY <1>7
<1>9. UNION ToSet(B) \subseteq Parts
  BY <1>8 DEF ToSet, Cubes
<1>10. A \in Matrices
  <2>1. IsFiniteSet(DOMAIN B) /\ IsFiniteSet(Parts) /\ DOMAIN B \subseteq Nat /\ Parts \subseteq Nat
    BY <1>8, PositionsFinite, PartsFinite
  <2>2. IsFiniteSet((DOMAIN B) \X Parts)
    BY <2>1, FS_Product
  <2>3. A \in SUBSET ((DOMAIN B) \X Parts)
    BY <1>9
  <2>4. IsFiniteSet(A)
    BY <2>2, <2>3, FS_Subset
  <2>5. A \in SUBSET (Nat \X Nat)
    BY <2>1, <2>3
  <2> QED BY <2>4, <2>5 DEF Matrices, Finite
<1>11. do_sm_minimum_cover(B, TRUE) = sm_minimum_cover(A, TRUE)
  BY DEF do_sm_minimum_cover
<1> HIDE DEF A
<1> QED BY <1>10, <1>11, MinimumCover DEF B

(* irredundant finds one of the partially redundant cubes.                 *)
LEMMA MarkedOk ==
  ASSUME NEW A \in Seq(CubeRecords), NEW dc \in Seq(Cubes) PROVE Marked(A, dc).ok
<1>1. Sets(A) \in Seq(Cubes)
  BY SetsFacts
<1>2. mark_irredundant(Sets(A), dc).ok
  BY <1>1, MarkSeen
<1> QED BY <1>2 DEF Marked, Mark

(* The cubes that are opened, raised and found again do not meet the       *)
(* OFF-set, but for a candidate of the gasp.                               *)
LEMMA ExpandNotFatal ==
  ASSUME IInv, FarInv, OpenCube \/ SelectFeasible \/ RaiseFrequent \/ HeuristicMincov \/ Mincov, pc' = "fatal"
  PROVE  pc = "next" /\ call = "gasp"
<1>1. CASE OpenCube
  <2>1. pc = "next" /\ TypesInv /\ i \in DOMAIN F /\ Touched(Opened.BB, F[i].set)
    <3>1. TypesInv /\ F \in Seq(CubeRecords) /\ i \in Nat /\ i # 0 /\ i <= Len(F)
      BY <1>1 DEF IInv, TypesInv, OpenCube
    <3>2. i \in DOMAIN F
      BY <3>1
    <3> QED BY <1>1, <3>1, <3>2 DEF OpenCube
  <2>2. ~ Clear(F[i].set)
    <3>1. Opened.BB \subseteq DOMAIN R
      BY <2>1, OpenedFacts
    <3> QED BY <2>1, <3>1, TouchedFacts DEF Clear
  <2> QED BY <2>1, <2>2, Settled DEF AllClear
<1>2. CASE SelectFeasible
  <2>1. pc = "feasible" /\ Feasible # {} /\ Touched(BB, Raised \cup F[BestFeasible].set)
    BY <1>2 DEF SelectFeasible
  <2>2. BestFeasible \in Feasible
    BY <2>1, FeasibleFacts, BestFeasibleFacts DEF Covering
  <2> QED BY <2>1, <2>2 DEF Feasible, feasibly_covered
<1>3. CASE RaiseFrequent \/ HeuristicMincov
  <2>1. PICK p : RaisePart(p)
    BY <1>3 DEF RaiseFrequent, HeuristicMincov
  <2>2. pc = "raise" /\ Touched(BB, RAISE \cup {p})
    BY <1>3, <2>1 DEF RaiseFrequent, HeuristicMincov, RaisePart
  <2> QED BY <2>2, OnePartMore DEF FarInv
<1>4. CASE Mincov
  <2>1. pc = "raise" /\ do_sm_minimum_cover(BlockingSets, TRUE) = NIL
    BY <1>4 DEF Mincov
  <2>2. in \in Inputs /\ BB \subseteq DOMAIN R
    BY <2>1 DEF IInv, TypesInv, ExpansionInv, Blocking
  <2> QED BY <2>1, <2>2, MincovFound
<1> QED BY <1>1, <1>2, <1>3, <1>4

(* irredundant always comes back with a cover, whoever calls it.           *)
LEMMA IrredundantNotFatal ==
  ASSUME IInv, FullInv, Irredundant1 \/ Irredundant2 \/ IrredGasp PROVE pc' # "fatal"
<1>1. F \in Seq(CubeRecords) /\ Foriginal \in Seq(CubeRecords) /\ D \in Seq(Cubes)
  BY DEF IInv, TypesInv, FullInv
<1>2. Marked(F, D).ok
  BY <1>1, MarkedOk
<1>3. CASE Irredundant1
  BY <1>2, <1>3 DEF Irredundant1
<1>4. CASE Irredundant2
  BY <1>2, <1>4 DEF Irredundant2
<1>5. CASE IrredGasp
  <2> DEFINE m == IF F = <<>> THEN [ok |-> TRUE, cubes |-> Foriginal] ELSE Marked(Foriginal \o F, D)
  <2>1. Foriginal \o F \in Seq(CubeRecords)
    BY <1>1
  <2>2. m.ok
    BY <1>1, <2>1, MarkedOk
  <2>3. IF m.ok THEN LoopOrSparse(m.cubes, Better(cost', best_cost))
        ELSE F' = m.cubes /\ pc' = "fatal" /\ UNCHANGED <<i, best_cost>>
    BY <1>5 DEF IrredGasp
  <2> HIDE DEF m
  <2>4. LoopOrSparse(m.cubes, Better(cost', best_cost))
    BY <2>2, <2>3
  <2> QED BY <2>4 DEF LoopOrSparse
<1> QED BY <1>3, <1>4, <1>5

(* So it is for the super gasp, whose reduced cubes are clear, for the     *)
(* gasp, when it expands them, and for mv_reduce.                          *)
LEMMA RestNotFatal ==
  ASSUME IInv, FullInv, ExpandGasp \/ SuperGasp \/ MvReducePart PROVE pc' # "fatal"
<1>1. /\ TypesInv /\ in \in Inputs /\ F \in Seq(CubeRecords) /\ i \in Nat /\ D \in Seq(Cubes)
      /\ in.D \in Seq(Cubes)
  BY InputsAssumption DEF IInv, TypesInv, FullInv
<1>2. ASSUME NEW j \in DOMAIN F, pc \in {"expand_gasp", "super_gasp"}
      PROVE  ~ Touched(DOMAIN R, F[j].set)
  <2>1. AllClear(F)
    BY <1>2, Settled
  <2> QED BY <2>1, TouchedFacts DEF AllClear, Clear
<1>3. CASE ExpandGasp
  <2>1. pc = "expand_gasp" /\ i <= Len(F) /\ i # 0
    BY <1>3 DEF ExpandGasp, IInv, TypesInv
  <2>2. i \in DOMAIN F
    BY <1>1, <2>1
  <2> QED BY <1>2, <1>3, <2>1, <2>2 DEF ExpandGasp
<1>4. CASE SuperGasp
  <2> DEFINE m == Marked(Primes(sf_dupl(Sets(Foriginal) \o Listed(AllPrimes(F)))), D)
             met == \E j \in DOMAIN F : ~ F[j].PRIME /\ Touched(DOMAIN R, F[j].set)
  <2>1. /\ pc = "super_gasp"
        /\ IF ~ m.ok \/ met THEN F' = m.cubes /\ pc' = "fatal" /\ UNCHANGED <<i, best_cost>>
           ELSE LoopOrSparse(m.cubes, cost'.cubes < best_cost.cubes)
    BY <1>4 DEF SuperGasp
  <2>2. ~ met
    BY <1>2, <2>1
  <2>3. m.ok
    BY <1>1, <2>1, SuperGaspCubes, MarkedOk
  <2> HIDE DEF m, met
  <2>4. LoopOrSparse(m.cubes, cost'.cubes < best_cost.cubes)
    BY <2>1, <2>2, <2>3
  <2> QED BY <2>4 DEF LoopOrSparse
<1>5. CASE MvReducePart
  <2>1. pc = "mv_reduce" /\ i \in Parts
    <3>1. pc = "mv_reduce" /\ i < size
      BY <1>5 DEF MvReducePart
    <3> QED BY <1>1, <3>1, PartsFinite DEF Parts
  <2>2. Sets(F) \in Seq(Cubes)
    BY <1>1, SetsFacts
  <2>3. PartOf(Sets(F)) \in Seq(Cubes) /\ PartOf(in.D) \in Seq(Cubes)
    BY <1>1, <2>1, <2>2, PartOfFacts
  <2>4. mark_irredundant(PartOf(Sets(F)), PartOf(in.D)).ok
    BY <2>3, MarkSeen
  <2>5. PartIrredundant.ok
    BY <2>4 DEF PartIrredundant, Losers
  <2> QED BY <1>5, <2>1, <2>5 DEF MvReducePart
<1> QED BY <1>3, <1>4, <1>5

(* The minimizer gives up in three places only: when a cube is reduced to  *)
(* nothing in reduce_gasp, when a candidate of the gasp meets the OFF-set  *)
(* as it is expanded, and when verify rejects the result (which            *)
(* VerifyAccepts excludes on a complete input).                            *)
THEOREM GivesUpInGasp ==
  Spec => [][pc' = "fatal" =>
               pc \in {"fatal", "gasp", "compare"} \/ (pc = "next" /\ call = "gasp")]_vars
<1>1. Init => FarInv
  BY DEF Init, FarInv
<1>2. /\ IInv /\ FullInv /\ FarInv /\ [Next]_vars
      => [pc' = "fatal" => pc \in {"fatal", "gasp", "compare"} \/ (pc = "next" /\ call = "gasp")]_vars
  <2> SUFFICES ASSUME IInv, FullInv, FarInv, Next, pc' = "fatal"
               PROVE  pc \in {"fatal", "gasp", "compare"} \/ (pc = "next" /\ call = "gasp")
    OBVIOUS
  <2>1. CASE OpenCube \/ SelectFeasible \/ RaiseFrequent \/ HeuristicMincov \/ Mincov
    BY <2>1, ExpandNotFatal
  <2>2. CASE Irredundant1 \/ Irredundant2 \/ IrredGasp
    BY <2>2, IrredundantNotFatal
  <2>3. CASE ExpandGasp \/ SuperGasp \/ MvReducePart
    BY <2>3, RestNotFatal
  <2>4. CASE ReduceGasp \/ StartOver \/ Verify
    BY <2>4 DEF ReduceGasp, StartOver, Verify
  <2>5. CASE Done
    BY <2>5 DEF Done, vars
  <2>6. CASE Begin \/ Expand \/ SkipCube \/ NoneFeasible \/ CloseCube \/ DropCovered
    BY <2>6 DEF Begin, Expand, SkipCube, NoneFeasible, CloseCube, DropCovered
  <2>7. CASE Essential \/ SingleExpand \/ Reduce \/ ReduceCube \/ ReduceEnd \/ ExpandGaspEnd
    BY <2>7 DEF Essential, SingleExpand, Reduce, ReduceCube, ReduceEnd, ExpandGaspEnd
  <2>8. CASE MvReduceEnd \/ Sparse
    BY <2>8 DEF MvReduceEnd, Sparse
  <2> QED BY <2>1, <2>2, <2>3, <2>4, <2>5, <2>6, <2>7, <2>8 DEF Next
<1> QED BY InitIInv, InitFull, NextIInv, NextFull, NextFar, <1>1, <1>2, PTL DEF Spec
=============================================================================
