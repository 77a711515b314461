------------------------------- MODULE MinCov -------------------------------
(***************************************************************************)
(* Minimum column covers of a sparse 0-1 matrix (espresso/mincov,          *)
(* espresso/sparse, main/sminterf.c), every column having weight 1.        *)
(*                                                                         *)
(* A matrix is the set of the pairs <<row, column>> of its elements, so a  *)
(* row or a column that loses its last element is gone, as sm_delrow and   *)
(* sm_delcol see to.  A solution is its set of columns and its cost; NIL   *)
(* says that none was found below the bound.                               *)
(***************************************************************************)
EXTENDS Orders, FiniteSetsExt, SequencesExt

Finite(S)  == {s \in SUBSET S : IsFiniteSet(s)}
Solutions == [row : Finite(Nat), cost : Int]
NIL       == [row |-> {}, cost |-> -1]
Matrices  == Finite(Nat \X Nat)

Rows(A)       == {p[1] : p \in A}
Cols(A)       == {p[2] : p \in A}
sm_row(A, r)  == {p[2] : p \in {q \in A : q[1] = r}}
sm_col(A, c)  == {p[1] : p \in {q \in A : q[2] = c}}
sm_delrow(A, R) == {p \in A : p[1] \notin R}
sm_delcol(A, C) == {p \in A : p[2] \notin C}

(* The numbers of a set in increasing order, as the linked lists keep them. *)
InOrder(S) == Listing(S, Increasing(S))

solution_alloc          == [row |-> {}, cost |-> 0]
solution_add(sol, cols) == [row |-> sol.row \cup cols, cost |-> sol.cost + Cardinality(cols)]
solution_choose_best(best1, best2) ==
  IF best1 # NIL /\ (best2 # NIL => best1.cost <= best2.cost) THEN best1 ELSE best2

(***************************************************************************)
(* dominate.c.  A row goes if another one that stays is contained in it, a *)
(* column if it is contained in another one; of two equal ones the one     *)
(* with the lower row, or the higher column, number stays.                 *)
(***************************************************************************)
sm_row_dominance(A) ==
  LET after(r1, r) == \/ Cardinality(sm_row(A, r1)) > Cardinality(sm_row(A, r))
                      \/ sm_row(A, r1) = sm_row(A, r) /\ r1 > r
  IN sm_delrow(A, {r1 \in Rows(A) : \E r \in Rows(A) :
                     after(r1, r) /\ sm_row(A, r) \subseteq sm_row(A, r1)})

sm_col_dominance(A) ==
  LET after(c1, c) == \/ Cardinality(sm_col(A, c1)) > Cardinality(sm_col(A, c))
                      \/ sm_col(A, c1) = sm_col(A, c) /\ c1 > c
  IN sm_delcol(A, {c \in Cols(A) : \E c1 \in Cols(A) :
                     after(c1, c) /\ sm_col(A, c) \subseteq sm_col(A, c1)})

(***************************************************************************)
(* select_essential: until nothing changes, the dominated columns, the     *)
(* columns that some row needs, the dominated rows.  It stops in the       *)
(* middle as soon as the solution costs as much as the bound.              *)
(***************************************************************************)
solution_accept(P, cols) ==
  [A |-> sm_delrow(P.A, UNION {sm_col(P.A, c) : c \in cols}), select |-> solution_add(P.select, cols)]

Essen(A) == UNION {sm_row(A, r) : r \in {s \in Rows(A) : Cardinality(sm_row(A, s)) = 1}}
SelectEssen(P, bound) ==
  LET at    == InOrder(Essen(P.A))
      count == Min({Cardinality(Essen(P.A)), Max({1, bound - P.select.cost})})
  IN solution_accept(P, {at[k] : k \in 1 .. count})

Dominated(P) == [P EXCEPT !.A = sm_col_dominance(@)]
Round(P, bound) == [SelectEssen(Dominated(P), bound) EXCEPT !.A = sm_row_dominance(@)]

select_essential(A0, select0, bound) ==
  LET loop[P \in [A : Matrices, select : Solutions]] ==
        LET P1 == Dominated(P)
            P2 == SelectEssen(P1, bound)
        IN IF Essen(P1.A) # {} /\ P2.select.cost >= bound THEN P2
           ELSE IF Round(P, bound) = P THEN P ELSE loop[Round(P, bound)]
  IN loop[[A |-> A0, select |-> select0]]

(***************************************************************************)
(* gimpel.c: a row of two columns, c1 of which has only one other row.     *)
(***************************************************************************)
IsGimpel(A, r, c1) ==
  /\ Cardinality(sm_row(A, r)) = 2 /\ c1 \in sm_row(A, r)
  /\ Cardinality(sm_col(A, c1)) = 2
GimpelRows(A) == {r \in Rows(A) : \E c \in sm_row(A, r) : IsGimpel(A, r, c)}

GimpelMerge(A, primary, secondary, c1, c2, save_sec) ==
  [c1 |-> c1, c2 |-> c2, save_sec |-> save_sec,
   A  |-> sm_delrow(sm_delcol(A \cup ((sm_col(A, c2) \ {primary}) \X save_sec), {c1, c2}),
                    {primary, secondary})]
GimpelAt(A, primary, c1) ==
  LET c2        == CHOOSE c \in sm_row(A, primary) : c # c1
      secondary == CHOOSE r \in sm_col(A, c1) : r # primary
  IN GimpelMerge(A, primary, secondary, c1, c2, sm_row(A, secondary) \ {c1})
GimpelFirst(A, primary) ==
  GimpelAt(A, primary, Min({c \in sm_row(A, primary) : IsGimpel(A, primary, c)}))
GimpelOf(A) == GimpelFirst(A, Min(GimpelRows(A)))

(***************************************************************************)
(* indep.c: rows that have no column in common, the row that meets the     *)
(* fewest of the rows left first.                                          *)
(***************************************************************************)
Meets(A, r) == {s \in Rows(A) : sm_row(A, s) \cap sm_row(A, r) # {}}
sm_maximal_independent_set(A) ==
  LET rest[B \in SUBSET Rows(A)] ==
        IF B = {} THEN {}
        ELSE LET left(r) == Cardinality(Meets(A, r) \cap B)
                 best    == CHOOSE r \in B : \A s \in B :
                              left(r) < left(s) \/ (left(r) = left(s) /\ r <= s)
             IN {best} \cup rest[B \ Meets(A, best)]
  IN rest[Rows(A)]

(* The column with the greatest sum of 1/(length - 1) over its rows, in    *)
(* exact arithmetic where the code adds up doubles.                        *)
select_column(A, indep) ==
  LET others(r) == Cardinality(sm_row(A, r)) - 1
      unit   == FoldSet(LAMBDA n, product : n * product, 1, {others(r) : r \in Rows(A)})
      w(c)   == FoldSet(LAMBDA r, sum : sum + unit \div others(r), 0, sm_col(A, c))
      columns == UNION {sm_row(A, r) : r \in indep}
  IN CHOOSE c \in columns : \A d \in columns : w(c) > w(d) \/ (w(c) = w(d) /\ c <= d)

(***************************************************************************)
(* part.c: the rows connected with the first row by common columns.  (The  *)
(* walk ends early when it has seen all columns, or all rows: both mean    *)
(* that the matrix is one block.)                                          *)
(***************************************************************************)
Block(A) ==
  LET grow[R \in SUBSET Rows(A)] ==
        LET met == UNION {Meets(A, r) : r \in R} IN IF met = R THEN R ELSE grow[met]
  IN grow[{Min(Rows(A))}]
sm_block_partition(A) ==
  [L |-> {p \in A : p[1] \in Block(A)}, R |-> {p \in A : p[1] \notin Block(A)}]

(***************************************************************************)
(* mincov.c: the best cover of A that extends select and costs less than   *)
(* bound.  With no_branching the first column picked is never reconsidered.*)
(***************************************************************************)
GimpelUndo(g, best) ==
  IF best = NIL THEN NIL
  ELSE solution_add(best, {IF g.save_sec \cap best.row # {} THEN g.c2 ELSE g.c1})
Gimpel(g, select, lb, bound, no_branching, mincov) ==
  GimpelUndo(g, mincov[<<g.A, select, lb - 1, bound - 1, no_branching>>])

Blocks(L, R, select, lb, bound, no_branching, mincov) ==
  LET best1 == mincov[<<L, solution_alloc, 0, bound - select.cost, no_branching>>]
  IN IF best1 = NIL THEN NIL
     ELSE mincov[<<R, solution_add(select, best1.row), lb, bound, no_branching>>]

Branch(A, select, pick, lb, bound, no_branching, mincov) ==
  LET yes    == solution_accept([A |-> A, select |-> select], {pick})
      best1  == mincov[<<yes.A, yes.select, lb, bound, no_branching>>]
      bound1 == IF best1 # NIL THEN Min({bound, best1.cost}) ELSE bound
      best2  == mincov[<<sm_delcol(A, {pick}), select, lb, bound1, no_branching>>]
  IN IF no_branching \/ (best1 # NIL /\ best1.cost = lb) THEN best1
     ELSE solution_choose_best(best1, best2)

Divide(P, part, indep, lb, bound, no_branching, mincov) ==
  IF lb >= bound THEN NIL
  ELSE IF P.A = {} THEN P.select
  ELSE IF part.R = {}
    THEN Branch(P.A, P.select, select_column(P.A, indep), lb, bound, no_branching, mincov)
  ELSE IF Cardinality(Cols(part.L)) > Cardinality(Cols(part.R))
    THEN Blocks(part.R, part.L, P.select, lb, bound, no_branching, mincov)
  ELSE Blocks(part.L, part.R, P.select, lb, bound, no_branching, mincov)

Bounded(P, indep, lb, bound, no_branching, mincov) ==
  Divide(P, sm_block_partition(P.A), indep, Max({P.select.cost + Cardinality(indep), lb}),
         bound, no_branching, mincov)

Reduced(P, lb, bound, no_branching, mincov) ==
  IF P.select.cost >= bound THEN NIL
  ELSE IF GimpelRows(P.A) # {} THEN Gimpel(GimpelOf(P.A), P.select, lb, bound, no_branching, mincov)
  ELSE Bounded(P, sm_maximal_independent_set(P.A), lb, bound, no_branching, mincov)

sm_mincov[x \in Matrices \X Solutions \X Int \X Int \X BOOLEAN] ==
  Reduced(select_essential(x[1], x[2], x[4]), x[3], x[4], x[5], sm_mincov)

verify_cover(A, cover) == \A r \in Rows(A) : sm_row(A, r) \cap cover # {}

(* The columns, or NIL where the code fails or follows a null pointer.     *)
Verified(A, best) == IF best # NIL /\ verify_cover(A, best.row) THEN best ELSE NIL
sm_minimum_cover(A, heuristic) ==
  IF A = {} THEN solution_alloc
  ELSE Verified(A, sm_mincov[<<A, solution_alloc, 0, Cardinality(Cols(A)) + 1, heuristic>>])

(* sminterf.c: the sets of a family are the rows.                          *)
do_sm_minimum_cover(family, heuristic) ==
  sm_minimum_cover({x \in (DOMAIN family) \X UNION ToSet(family) : x[2] \in family[x[1]]}, heuristic)
=============================================================================
