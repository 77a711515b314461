---------------------------- MODULE Irredundant ----------------------------
(***************************************************************************)
(* Which cubes of a cover are needed (espresso/main/irred.c), and which of *)
(* them every minimum cover needs (essen.c).  Covers are sequences of sets *)
(* of parts; a cube is named by its position in F.                         *)
(***************************************************************************)
EXTENDS UnateRecursion, MinCov

Without(F, i) == Keep(F, DOMAIN F \ {i})

(***************************************************************************)
(* irred_split_cover: the relatively essential cubes are those the others  *)
(* and D do not cover; of the rest the totally redundant ones are covered  *)
(* by them and D, the partially redundant ones are not.                    *)
(***************************************************************************)
RelativelyEssential(F, D) ==
  {i \in DOMAIN F : ~cube_is_covered(cube2list(Without(F, i), D), F[i])}
PartiallyRedundant(F, D, essen) ==
  {i \in DOMAIN F \ essen : ~cube_is_covered(cube2list(Keep(F, essen), D), F[i])}

(***************************************************************************)
(* ftautology: the leaves of the tautology tree of L[c] that no cube before*)
(* position `redund' fills alone.  Each gives a row of the table: the cube *)
(* c itself and the redundant cubes that fill the leaf.  A subproblem is   *)
(* the parts cofactored against and the positions in L of the cubes left.  *)
(***************************************************************************)
ftautology(L, redund, c) ==
  LET rows[x \in Cubes \X SUBSET (DOMAIN L)] ==
        LET T     == [cof |-> x[1], cubes |-> Keep(L, x[2])]
            full  == {i \in x[2] : full_row(L[i], x[1])}
            count == massive_count(T)
            half  == binate_split_select(T, count.best)
            side(h) == <<x[1] \cup (Parts \ h),
                         {i \in x[2] : L[i] \cap h \cap var_mask[count.best] # {}}>>
        IN IF \E i \in full : i < redund THEN <<>>
           ELSE IF count.unate = count.active THEN <<{c} \cup full>>
           ELSE IF count.unate # {}
             THEN rows[<<x[1], {i \in x[2] : InVars(count.unate) \subseteq L[i] \cup x[1]}>>]
           ELSE rows[side(half.left)] \o rows[side(half.right)]
  IN rows[<<Parts \ L[c], {i \in DOMAIN L \ {c} : cdist0(L[i], L[c])}>>]

(***************************************************************************)
(* irred_derive_table: how each partially redundant cube can be covered.   *)
(* A cube that has been dealt with is not REDUND any more: its own rows    *)
(* already see to the leaves it fills.  The columns are positions in F.    *)
(* (Left out: beyond 1000 rows the dominated ones are dropped early.)      *)
(***************************************************************************)
irred_derive_table(F, D, essen, partial) ==
  LET L     == D \o Keep(F, essen) \o Keep(F, partial)
      base  == Len(L) - Cardinality(partial)
      at    == Listing(partial, Increasing(partial))
      named(row) == {at[i - base] : i \in row}
      rows  == FlattenSeq([k \in 1 .. Cardinality(partial) |-> ftautology(L, base + k, base + k)])
  IN {x \in (DOMAIN rows) \X partial : x[2] \in named(rows[x[1]])}

(* The positions that stay; ok is FALSE where the covering step fails.     *)
MinimalSubset(F, essen, cover) ==
  [ok |-> cover # NIL, active |-> {i \in DOMAIN F : i \in essen \cup cover.row}, relessen |-> essen]
CoverTheRest(F, D, essen) ==
  MinimalSubset(F, essen,
    sm_minimum_cover(irred_derive_table(F, D, essen, PartiallyRedundant(F, D, essen)), TRUE))
mark_irredundant(F, D) == CoverTheRest(F, D, RelativelyEssential(F, D))

(***************************************************************************)
(* essen.c: c is essential if the consensus of the other cubes with it,    *)
(* and D, do not cover it.                                                 *)
(***************************************************************************)
cb_consensus_dist0(p, c) ==
  LET news == {v \in num_binary_vars .. num_vars - 1 : (p \ c) \cap var_mask[v] # {}}
      at   == Listing(news, Increasing(news))
  IN CASE p \subseteq c -> <<>>
       [] ~(p \subseteq c) /\ news # {} ->
            [k \in 1 .. Cardinality(news) |-> set_merge(c, p \cap c, var_mask[at[k]])]
       [] OTHER -> IF num_binary_vars > 0 THEN <<p \cap c>> ELSE <<>>

cb_consensus(T, c) ==
  FlattenSeq([i \in DOMAIN T |->
    CASE cdist01(T[i], c) = 0 -> cb_consensus_dist0(T[i], c)
      [] cdist01(T[i], c) = 1 -> <<consensus(T[i], c)>>
      [] OTHER -> <<>>])

essen_cube(F, D, c) == ~cube_is_covered(cube2list(cb_consensus(F \o D, c), D), c)

(***************************************************************************)
(* reduce.c and gasp.c: the reduction of a cube against the others.        *)
(***************************************************************************)
Reduction(F, D, i) == reduce_cube(cube2list(Without(F, i), D), F[i])
=============================================================================
