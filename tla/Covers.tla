------------------------------- MODULE Covers -------------------------------
(***************************************************************************)
(* Covers and cubelists of the minimizer (espresso/main/set.c, contain.c,  *)
(* cofactor.c, cvrm.c, cvrmisc.c).                                         *)
(*                                                                         *)
(* A cover (set family) is a sequence of cubes.  A cubelist is a record of *)
(* the cube `cof' of the parts cofactored against (T[0]) and the sequence  *)
(* of the cubes (T[2] ...); a part in cof counts as present in every cube. *)
(***************************************************************************)
EXTENDS CubeSpace, SequencesExt

CoverType    == Seq(Cubes)
CubelistType == [cof : Cubes, cubes : Seq(Cubes)]

(* set_ord of a cube is its Cardinality; the families' own observers:      *)
sf_or(A)  == UNION ToSet(A)
sf_and(A) == {p \in Parts : \A a \in ToSet(A) : p \in a}

(* The column sums of a family, and of the rows weighted by their size.    *)
sf_count(A) == [p \in Parts |-> Cardinality({i \in DOMAIN A : p \in A[i]})]
sf_count_restricted(A, r) ==
  [p \in r |-> FoldSeq(LAMBDA a, n : IF p \in a THEN n + 1024 \div (Cardinality(a) - 1) ELSE n, 0, A)]

sf_join(A, B)   == A \o B
sf_addset(A, s) == Append(A, s)

(***************************************************************************)
(* contain.c: sorting by decreasing or increasing size, then removing the  *)
(* equal cubes and the cubes contained in another one (or containing one). *)
(***************************************************************************)
BySize(a, b)    == descend(a, Cardinality(a), b, Cardinality(b))
ByRevSize(a, b) == ascend(a, Cardinality(a), b, Cardinality(b))

(* Sorting: equal cubes stay in the order they came.                       *)
SortBy(A, before(_, _)) ==
  LET order == {x \in (DOMAIN A) \X (DOMAIN A) :
                  before(A[x[1]], A[x[2]]) \/ (A[x[1]] = A[x[2]] /\ x[1] < x[2])}
      at    == Listing(DOMAIN A, order)
  IN [k \in DOMAIN A |-> A[at[k]]]

sf_sort(A)     == SortBy(A, BySize)
sf_rev_sort(A) == SortBy(A, ByRevSize)

rm_equal(A1) ==
  Keep(A1, {i \in DOMAIN A1 : i < Len(A1) => A1[i] # A1[i + 1]})

Contained(a, S) == \E b \in S : a \subseteq b /\ a # b
rm_contain(A1) == Keep(A1, {i \in DOMAIN A1 : ~Contained(A1[i], ToSet(A1))})
rm_rev_contain(A1) ==
  Keep(A1, {i \in DOMAIN A1 : \A b \in ToSet(A1) : b \subseteq A1[i] => b = A1[i]})

sf_contain(A)     == rm_contain(rm_equal(sf_sort(A)))
sf_rev_contain(A) == rm_rev_contain(rm_equal(sf_rev_sort(A)))
sf_dupl(A)        == rm_equal(sf_sort(A))

(* The union of two families that are already sorted and contained: equal  *)
(* cubes are kept once, a cube contained in one of the other family goes.  *)
sf_union(A, B) ==
  sf_dupl(Keep(A, {k \in DOMAIN A : ~Contained(A[k], ToSet(B))})
            \o Keep(B, {k \in DOMAIN B : ~Contained(B[k], ToSet(A))}))

(* Cubes that are equal outside the mask are merged into one.              *)
dist_merge(A, mask) ==
  LET before(a, b) == d1_order(a, b, mask)
      class == rm_equal(SortBy([i \in DOMAIN A |-> A[i] \cup mask], before))
  IN [j \in DOMAIN class |-> UNION {a \in ToSet(A) : a \cup mask = class[j]}]
d1merge(A, var) == dist_merge(A, var_mask[var])

(***************************************************************************)
(* cofactor.c.  A cube that is given as c itself (the same pointer) is     *)
(* left out by cofactor: its callers below take it from the list first.    *)
(***************************************************************************)
cube1list(A)       == [cof |-> {}, cubes |-> A]
cube2list(A, B)    == cube1list(A \o B)
cube3list(A, B, C) == cube1list(A \o B \o C)
cubeunlist(T)      == [i \in DOMAIN T.cubes |-> T.cubes[i] \cup T.cof]

cofactor(T, c) ==
  [cof   |-> T.cof \cup (Parts \ c),
   cubes |-> Keep(T.cubes, {k \in DOMAIN T.cubes : cdist0(T.cubes[k], c)})]

scofactor(T, c, var) ==
  [cof   |-> T.cof \cup (Parts \ c),
   cubes |-> Keep(T.cubes, {k \in DOMAIN T.cubes : T.cubes[k] \cap c \cap var_mask[var] # {}})]

(***************************************************************************)
(* massive_count: the zeros of every part over the list, and what follows  *)
(* from them for the variables.  The best variable to split on has the     *)
(* most active parts, then the most zeros, then the lowest peak (which is  *)
(* the number of active parts again for a multiple-valued variable), then  *)
(* the lowest number.                                                      *)
(***************************************************************************)
MostActive(active, total, peak) ==
  LET better(v, w) == \/ active[v] > active[w]
                      \/ active[v] = active[w] /\ total[v] > total[w]
                      \/ active[v] = active[w] /\ total[v] = total[w] /\ peak[v] < peak[w]
  IN CHOOSE v \in Vars : \A w \in Vars \ {v} : better(v, w) \/ (~better(w, v) /\ v < w)

Summary(zeros, active, total) ==
  [part_zeros |-> zeros, var_zeros |-> total, parts_active |-> active,
   active |-> {v \in Vars : active[v] > 0},
   unate  |-> {v \in Vars : active[v] = 1},
   best   |-> MostActive(active, total,
                [v \in Vars |-> IF v < num_binary_vars
                                  THEN Max({zeros[p] : p \in var_mask[v]}) ELSE active[v]])]

VarSummary(zeros, T) ==
  Summary(zeros,
    [v \in Vars |-> Cardinality({p \in var_mask[v] : zeros[p] > 0})],
    [v \in Vars |-> Cardinality({x \in (DOMAIN T.cubes) \X (var_mask[v] \ T.cof) :
                                   x[2] \notin T.cubes[x[1]]})])

massive_count(T) ==
  VarSummary([p \in Parts |-> IF p \in T.cof THEN 0
                ELSE Cardinality({i \in DOMAIN T.cubes : p \notin T.cubes[i]})], T)

(* The lower half of the free parts of the best variable, and the rest.    *)
LowerHalf(S) == {p \in S : 2 * (Cardinality({q \in S : q < p}) + 1) <= Cardinality(S)}
binate_split_select(T, best) ==
  LET others == Parts \ var_mask[best]
      free   == var_mask[best] \ T.cof
  IN [left |-> others \cup LowerHalf(free), right |-> others \cup (free \ LowerHalf(free))]

(***************************************************************************)
(* cubelist_partition: the cubes connected with the first one by common    *)
(* active variables.  The seed is the intersection of the cubes taken so   *)
(* far.  The pair of both parts; the second is empty if all are connected. *)
(***************************************************************************)
Joined(T, seed) == {i \in DOMAIN T.cubes : ccommon(T.cubes[i], seed, T.cof)}
cubelist_partition(T) ==
  LET grown(seed) == {p \in seed : \A i \in Joined(T, seed) : p \in T.cubes[i]}
      grow[seed \in Cubes] == IF grown(seed) = seed THEN seed ELSE grow[grown(seed)]
      covered == {1} \cup Joined(T, grow[T.cubes[1]])
  IN [A |-> [T EXCEPT !.cubes = Keep(@, covered)],
      B |-> [T EXCEPT !.cubes = Keep(@, DOMAIN T.cubes \ covered)]]

(***************************************************************************)
(* cvrm.c: unravelling.  A cube becomes the cubes with one part of each of *)
(* the variables from start to end (a variable with at most one part stays *)
(* as it is), the parts of the last variable changing fastest: of two such *)
(* cubes the one with the lowest part that the other lacks comes first.    *)
(***************************************************************************)
Unravelled(c, V) ==
  LET split   == {v \in V : set_dist(c, var_mask[v]) > 1}
      choices == {f \in [split -> c] : \A v \in split : f[v] \in var_mask[v]}
  IN {(c \ InVars(split)) \cup {f[v] : v \in split} : f \in choices}

Lower(a, b) == \E p \in a \ b : \A q \in b \ a : p < q
Listed(S)   == Listing(S, {x \in S \X S : Lower(x[1], x[2])})

unravel_range(B, start, end) ==
  LET pieces == UNION {{i} \X Unravelled(B[i], start .. end) : i \in DOMAIN B}
      order  == {x \in pieces \X pieces :
                   \/ x[1][1] < x[2][1]
                   \/ x[1][1] = x[2][1] /\ Lower(x[1][2], x[2][2])}
      at     == Listing(pieces, order)
  IN [k \in 1 .. Cardinality(pieces) |-> at[k][2]]
unravel(B, start) == unravel_range(B, start, num_vars - 1)

lex_sort(T) == SortBy(T, lex_order)

(***************************************************************************)
(* cover_cost: the literals of the inputs (zeros), of the other multiple-  *)
(* valued variables and of the outputs (ones).                             *)
(***************************************************************************)
cover_cost(F) ==
  LET zeros   == massive_count(cube1list(F)).var_zeros
      ones(v) == Len(F) * part_size[v] - zeros[v]
      in      == FoldSet(LAMBDA v, n : n + zeros[v], 0, 0 .. num_binary_vars - 1)
      mv      == FoldSet(LAMBDA v, n : n + ones(v), 0, num_binary_vars .. num_vars - 2)
      out     == ones(output)
  IN [cubes |-> Len(F), in |-> in, mv |-> mv, out |-> out, total |-> in + mv + out]

(* The points that a cover contains.  Not code: what it stands for.        *)
PtsOf(A) == UNION {Pts(A[i]) : i \in DOMAIN A}
=============================================================================
