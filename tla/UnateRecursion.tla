--------------------------- MODULE UnateRecursion ---------------------------
(***************************************************************************)
(* The recursive questions about a cover (espresso/main/irred.c,           *)
(* reduce.c, compl.c, unate.c): is it a tautology, what is the smallest    *)
(* cube containing its complement, what is its complement.  Each looks for *)
(* a special case and otherwise splits on the best variable.               *)
(***************************************************************************)
EXTENDS Covers

Ceiling(T)    == T.cof \cup sf_or(T.cubes)
HasFullRow(T) == \E p \in ToSet(T.cubes) : full_row(p, T.cof)

(* The cubes that are full in the unate variables: the others do not help  *)
(* to make a tautology.                                                    *)
UnateReduced(T, unate) ==
  [T EXCEPT !.cubes = Keep(@, {k \in DOMAIN @ : InVars(unate) \subseteq @[k] \cup T.cof})]

(***************************************************************************)
(* irred.c: tautology with taut_special_cases.                             *)
(***************************************************************************)
TautHalves(T, half, best, taut) ==
  taut[scofactor(T, half.left, best)] /\ taut[scofactor(T, half.right, best)]
TautSplit(T, best, taut) == TautHalves(T, binate_split_select(T, best), best, taut)

TautParts(T, split, best, taut) ==
  IF split.B.cubes = <<>> THEN TautSplit(T, best, taut) ELSE taut[split.A] \/ taut[split.B]

TautReduced(S, count, taut, reduce) ==
  /\ Ceiling(S) = Parts
  /\ count.unate # count.active
  /\ \/ Cardinality(count.active) = 1
     \/ IF count.unate # {} THEN reduce[UnateReduced(S, count.unate)]
        ELSE IF count.var_zeros[count.best] < Len(S.cubes) \div 2
               THEN TautParts(S, cubelist_partition(S), count.best, taut)
               ELSE TautSplit(S, count.best, taut)
TautNoRow(T, taut) ==
  LET reduce[S \in CubelistType] == TautReduced(S, massive_count(S), taut, reduce)
  IN reduce[T]

taut[T \in CubelistType] == HasFullRow(T) \/ TautNoRow(T, taut)
tautology(T) == taut[T]

cube_is_covered(T, c) == tautology(cofactor(T, c))

(***************************************************************************)
(* reduce.c: sccc, the smallest cube containing the complement.            *)
(***************************************************************************)
sccc_cube(result, p) ==
  IF cactive(p) >= 0
    THEN result \cap ((p \ var_mask[cactive(p)]) \cup (var_mask[cactive(p)] \ p))
    ELSE result

(* Bug: the halves are intersected where they should be joined. *)
Mutsccc_merge(left, right, cl, cr) == (left \cap cl) \cap (right \cap cr)
sccc_merge(left, right, cl, cr) == (left \cap cl) \cup (right \cap cr)

ScccUnate(T) == {q \in Parts : \A p \in ToSet(T.cubes) : q \in sccc_cube(Parts, p \cup T.cof)}

ScccHalves(T, half, best, sccc) ==
  sccc_merge(sccc[scofactor(T, half.left, best)],
             sccc[scofactor(T, half.right, best)], half.left, half.right)
ScccSplit(T, best, sccc) == ScccHalves(T, binate_split_select(T, best), best, sccc)

ScccParts(T, split, best, sccc) ==
  IF split.B.cubes = <<>> THEN ScccSplit(T, best, sccc)
  ELSE sccc[split.A] \cap sccc[split.B]

ScccCeiling(T, ceil, other, sccc) ==
  IF other = Parts THEN Parts ELSE sccc_merge(sccc[cofactor(T, ceil)], Parts, ceil, other)

sccc_special_cases(T, count, sccc) ==
  CASE T.cubes = <<>> -> Parts
    [] T.cubes # <<>> /\ HasFullRow(T) -> {}
    [] OTHER ->
       IF count.unate = count.active \/ Len(T.cubes) = 1 THEN ScccUnate(T)
       ELSE IF Ceiling(T) # Parts
         THEN ScccCeiling(T, Ceiling(T), sccc_cube(Parts, Ceiling(T)), sccc)
       ELSE IF Cardinality(count.active) = 1 THEN {}
       ELSE IF count.var_zeros[count.best] < Len(T.cubes) \div 2
              THEN ScccParts(T, cubelist_partition(T), count.best, sccc)
              ELSE ScccSplit(T, count.best, sccc)
sccc[T \in CubelistType] == sccc_special_cases(T, massive_count(T), sccc)

reduce_cube(FD, p) == sccc[cofactor(FD, p)] \cap p

(***************************************************************************)
(* unate.c: all minimal column covers of a matrix.  A column of the matrix *)
(* stands for the one part of a unate variable that is missing in some     *)
(* cube: here the column is the part itself.                               *)
(***************************************************************************)
map_cover_to_unate(T, count) ==
  [i \in DOMAIN T.cubes |-> {p \in Parts : count.part_zeros[p] > 0} \ T.cubes[i]]

map_unate_to_cover(A, count) ==
  [i \in DOMAIN A |->
     {q \in Parts : count.part_zeros[q] = 0 =>
        \A v \in count.unate : q \in var_mask[v] => var_mask[v] \cap A[i] = {}}]

abs_covered(A, pick)          == Keep(A, {k \in DOMAIN A : pick \notin A[k]})
abs_covered_many(A, pick_set) == Keep(A, {k \in DOMAIN A : A[k] \cap pick_set = {}})

(* The column of the greatest weight, the first one of several.            *)
abs_select_restricted(A, restrict) ==
  LET weight == sf_count_restricted(A, restrict)
  IN CHOOSE i \in restrict : \A j \in restrict :
       weight[i] > weight[j] \/ (weight[i] = weight[j] /\ i <= j)

AddTo(A, S) == [i \in DOMAIN A |-> A[i] \cup S]

unate_complement[A \in CoverType] ==
  IF A = <<>> THEN <<{}>>
  ELSE IF Len(A) = 1 THEN [i \in 1 .. Cardinality(A[1]) |-> {Listing(A[1], Increasing(A[1]))[i]}]
  ELSE LET least    == Min({Cardinality(p) : p \in ToSet(A)})
           restrict == UNION {p \in ToSet(A) : Cardinality(p) = least}
           pick     == abs_select_restricted(A, restrict)
       IN CASE least = 0 -> <<>>
            [] least = 1 -> AddTo(unate_complement[abs_covered_many(A, restrict)], restrict)
            [] OTHER -> AddTo(unate_complement[abs_covered(A, pick)], {pick})
                          \o unate_complement[[i \in DOMAIN A |-> A[i] \ {pick}]]

unate_compl(A) == sf_rev_contain(unate_complement[A])

(***************************************************************************)
(* compl.c.  compl_cube is De Morgan's law: one cube per active variable.  *)
(***************************************************************************)
compl_cube(p) ==
  LET active == Listing(ActiveVars(p), Increasing(ActiveVars(p)))
  IN [i \in DOMAIN active |-> set_merge(Parts \ p, Parts, var_mask[active[i]])]

(***************************************************************************)
(* compl_merge: the two halves, each within its cube.  A right cube that   *)
(* equals a left one outside the splitting variable is merged into it (the *)
(* first one of several), and the cubes that remain are lifted to the      *)
(* other half if a cube of the other half, or no cube of the ON-set, is in *)
(* the way.                                                                *)
(***************************************************************************)
SameOutside(a, b, mask) == a \cup mask = b \cup mask

compl_d1merge(L, R, mask) ==
  LET first(i) == \A k \in 1 .. i - 1 : ~SameOutside(L[k], L[i], mask)
  IN [L |-> [i \in DOMAIN L |-> L[i] \cup
               UNION {r \in ToSet(R) : first(i) /\ SameOutside(L[i], r, mask)}],
      active |-> {j \in DOMAIN R : \A l \in ToSet(L) : ~SameOutside(l, R[j], mask)}]

compl_lift(A, B, bcube, mask) ==
  [i \in DOMAIN A |->
     IF \E b \in ToSet(B) : set_merge(bcube, A[i], mask) \subseteq b
       THEN A[i] \cup (bcube \cap mask) ELSE A[i]]

compl_lift_onset(A, T, bcube, mask) ==
  [i \in DOMAIN A |->
     IF \E p \in ToSet(T) : cdist0(p, A[i] \cup (bcube \cap mask))
       THEN A[i] ELSE A[i] \cup (bcube \cap mask)]

compl_merge(T, Left, Right, cl, cr, mask, onset) ==
  LET L == [i \in DOMAIN Left |-> Left[i] \cap cl]
      R == [i \in DOMAIN Right |-> Right[i] \cap cr]
      merged == compl_d1merge(L, R, mask)
      L1 == IF onset THEN compl_lift_onset(merged.L, cubeunlist(T), cr, mask)
            ELSE compl_lift(merged.L, R, cr, mask)
      R1 == IF onset THEN compl_lift_onset(R, cubeunlist(T), cl, mask)
            ELSE compl_lift(R, L1, cl, mask)
  IN L1 \o Keep(R1, merged.active)

MergeHalves(T, L, R, half, mask) ==
  compl_merge(T, L, R, half.left, half.right, mask,
              Len(R) * Len(L) > (Len(R) + Len(L)) * Len(T.cubes))
ComplHalves(T, half, best, compl) ==
  MergeHalves(T, compl[scofactor(T, half.left, best)], compl[scofactor(T, half.right, best)],
              half, var_mask[best])
ComplSplit(T, best, compl) == ComplHalves(T, binate_split_select(T, best), best, compl)

ComplCeiling(T, ceil, compl) ==
  compl[[T EXCEPT !.cof = @ \cup (Parts \ ceil)]] \o compl_cube(ceil)

compl_special_cases(T, count, compl) ==
  CASE T.cubes = <<>> -> <<Parts>>
    [] Len(T.cubes) = 1 -> compl_cube(T.cof \cup T.cubes[1])
    [] OTHER ->
       IF HasFullRow(T) THEN <<>>
       ELSE IF Ceiling(T) # Parts THEN ComplCeiling(T, Ceiling(T), compl)
       ELSE IF Cardinality(count.active) = 1 THEN <<>>
       ELSE IF count.unate = count.active
              THEN map_unate_to_cover(unate_compl(map_cover_to_unate(T, count)), count)
              ELSE ComplSplit(T, count.best, compl)
compl[T \in CubelistType] == compl_special_cases(T, massive_count(T), compl)
complement(T) == compl[T]
=============================================================================
