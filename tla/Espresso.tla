------------------------------ MODULE Espresso ------------------------------
(***************************************************************************)
(* The heuristic minimizer (espresso/main/espresso.c, expand.c, reduce.c,  *)
(* gasp.c, sparse.c; irred.c and essen.c through Irredundant): expand the  *)
(* cubes of F against the OFF-set R, keep what is needed, set the          *)
(* essential primes aside, then reduce, expand and thin out as long as the *)
(* cover shrinks; a last gasp may start the loop again.                    *)
(*                                                                         *)
(* One behaviour is one call of minimise_karnaugh, or of the stand-alone   *)
(* program, on one input.  The cover is a sequence of records: the set of  *)
(* parts and the flags the steps leave on a cube for later ones.  ACTIVE   *)
(* and COVERED live as sets of positions, for the time they mean anything. *)
(***************************************************************************)
EXTENDS Irredundant

CONSTANTS
  Inputs,         \* the inputs: records of the covers F, D, R and the options
  max_expansion   \* 500: as many sets the OFF-set may be unravelled into

(* The options of a run that the steps below ask for.  minimise_karnaugh   *)
(* has them all at their defaults, so does the program without options.    *)
Options == [single_expand : BOOLEAN, remove_essential : BOOLEAN,
            use_super_gasp : BOOLEAN, force_irredundant : BOOLEAN, unwrap_onset : BOOLEAN]
Defaults == [single_expand |-> FALSE, remove_essential |-> TRUE,
             use_super_gasp |-> FALSE, force_irredundant |-> TRUE, unwrap_onset |-> TRUE]

(* The cubes have a part in every variable, and F and R do not meet: R is  *)
(* the complement of F and D, or was read together with F.                 *)
ASSUME InputsAssumption ==
  /\ max_expansion \in Nat
  /\ \A x \in Inputs :
       /\ x.F \in Seq(Cubes) /\ x.D \in Seq(Cubes) /\ x.R \in Seq(Cubes)
       /\ x.opt \in Options
       /\ \A f \in DOMAIN x.F : cdist0(x.F[f], Parts)
       /\ \A r \in DOMAIN x.R : cdist0(x.R[r], Parts)
       /\ \A f \in DOMAIN x.F, r \in DOMAIN x.R : ~cdist0(x.R[r], x.F[f])

VARIABLES
  in,            \* the input: the covers F, D1, R of the call and the options
  unwrap_onset,  \* whether the cover may still be unravelled by outputs
  toggle,        \* reduce.c: how to sort next; it outlives the calls
  pc,            \* what comes next
  call,          \* which step of the main loop the expansion belongs to
  F, E, D,       \* the cover, the essential primes, the don't cares
  Foriginal,     \* gasp.c: F before reduce_gasp
  G,             \* gasp.c: the new cubes found so far
  i,             \* the position, or the part, a loop is at
  cost, best_cost,
  covered,       \* COVERED: positions in F that an expanded cube covers
  RAISE, FREESET, OVEREXPANDED_CUBE,
  BB,            \* ACTIVE positions in R: cubes that still block the expansion
  CC,            \* ACTIVE positions in F: cubes that may still be covered
  feas,          \* select_feasible: positions not found infeasible yet
  num_covered

main      == <<in, unwrap_onset, toggle, E, D, Foriginal, G>>
costs     == <<cost, best_cost>>
expansion == <<covered, RAISE, FREESET, OVEREXPANDED_CUBE, BB, CC, feas, num_covered>>
vars      == <<main, costs, expansion, pc, call, F, i>>

R == in.R

Flagged(s)  == [set |-> s, PRIME |-> FALSE, NONESSEN |-> FALSE, RELESSEN |-> FALSE]
Cubed(A)    == [j \in DOMAIN A |-> Flagged(A[j])]
CubeRecords == [set : Cubes, PRIME : BOOLEAN, NONESSEN : BOOLEAN, RELESSEN : BOOLEAN]
Sets(A)     == [j \in DOMAIN A |-> A[j].set]
CostOf(A)   == cover_cost(Sets(A))

(***************************************************************************)
(* cvrm.c: the orders in which the cubes are taken.  The weight of a cube  *)
(* is the inner product with the column sums: how often a part of it       *)
(* occurs in the cover.                                                    *)
(***************************************************************************)
SortCubes(A, key, precedes(_, _, _, _)) ==
  LET order == {x \in (DOMAIN A) \X (DOMAIN A) :
                  \/ precedes(A[x[1]].set, key[x[1]], A[x[2]].set, key[x[2]])
                  \/ key[x[1]] = key[x[2]] /\ A[x[1]].set = A[x[2]].set /\ x[1] < x[2]}
      at    == Listing(DOMAIN A, order)
  IN [k \in DOMAIN A |-> A[at[k]]]

Weights(A) ==
  [j \in DOMAIN A |-> SIZE(Cardinality({x \in (DOMAIN A) \X A[j].set : x[2] \in A[x[1]].set}))]
mini_sort(A, precedes(_, _, _, _)) == SortCubes(A, Weights(A), precedes)

Largest(A) == CHOOSE j \in DOMAIN A : \A k \in DOMAIN A :
  \/ Cardinality(A[j].set) > Cardinality(A[k].set)
  \/ Cardinality(A[j].set) = Cardinality(A[k].set) /\ j <= k
sort_reduce(A) ==
  SortCubes(A, [j \in DOMAIN A |->
                  SIZE((num_vars - cdist(A[Largest(A)].set, A[j].set)) * 128
                         + Min({Cardinality(A[j].set), 127}))], descend)

(***************************************************************************)
(* expand.c: the blocking matrix.  Of the active cubes of R those at       *)
(* distance 1 from RAISE force the parts of the one variable that still    *)
(* keeps them apart out of FREESET (essen_parts); then the cubes of R that *)
(* the over-expanded cube misses, and the cubes of F it does not contain,  *)
(* are out of the game (elim_lowering).  A cube at distance 0 is fatal.    *)
(***************************************************************************)
Touched(B, r)   == \E b \in B : cdist01(R[b], r) = 0
(* Bug: cubes that are further away force their parts out as well. *)
MutNear(B, r)   == {b \in B : cdist01(R[b], r) > 0}
Near(B, r)      == {b \in B : cdist01(R[b], r) = 1}
ForcedLow(B, r) == UNION {force_lower(R[b], r) : b \in Near(B, r)}

(* Bug: cubes that can no longer be met stay in the game. *)
Mutelim_BB(B, over)   == B
elim_BB(B, over)      == {b \in B : cdist0(R[b], over)}
elim_CC(A, C, over)   == {j \in C : A[j].set \subseteq over}

(* Bug: the forced parts are not taken out of FREESET. *)
Mutessen_parts(A, B, C, raise, free) ==
  [BB |-> B \ Near(B, raise), CC |-> C, FREESET |-> free]
essen_parts(A, B, C, raise, free) ==
  LET xlower == ForcedLow(B, raise)
      low    == free \ xlower
      B1     == B \ Near(B, raise)
  IN IF xlower = {} THEN [BB |-> B1, CC |-> C, FREESET |-> free]
     ELSE [BB |-> elim_BB(B1, raise \cup low), CC |-> elim_CC(A, C, raise \cup low),
           FREESET |-> low]

(* Free parts that no active cube of R has can always be raised.           *)
essen_raising(B, free) == {p \in free : \A b \in B : p \notin R[b]}

feasibly_covered(B, c, raise) == ~Touched(B, raise \cup c)
new_lower(B, c, raise)        == ForcedLow(B, raise \cup c)

(* The free part that most of the cubes in C have, -1 if no part is free.  *)
most_frequent(A, C, free) ==
  LET count(p) == Cardinality({j \in C : p \in A[j].set})
  IN IF free = {} THEN -1
     ELSE CHOOSE p \in free : \A q \in free :
            count(p) > count(q) \/ (count(p) = count(q) /\ p <= q)

(* The parts to keep away from, one set for each way to stay clear of one  *)
(* cube of the OFF-set.                                                    *)
BlockingSets ==
  LET at == Listing(BB, Increasing(BB))
  IN unravel([k \in 1 .. Cardinality(BB) |-> force_lower(R[at[k]], RAISE)], num_binary_vars)

(***************************************************************************)
(* espresso: the start.  A cover with several outputs is first unravelled, *)
(* one output to a cube, unless every cube has all of them.                *)
(***************************************************************************)
Unwrapped(A) ==
  IF /\ unwrap_onset /\ part_size[output] > 1
     /\ cover_cost(A).out # Len(A) * part_size[output] /\ cover_cost(A).out < 5000
    THEN sf_contain(unravel(A, output)) ELSE A

Begin ==
  /\ pc = "begin"
  /\ D' = in.D
  /\ F' = Cubed(Unwrapped(in.F))
  /\ call' = "initial" /\ pc' = "expand"
  /\ UNCHANGED <<in, unwrap_onset, toggle, E, Foriginal, G, i, costs, expansion>>

(***************************************************************************)
(* expand: every cube that is neither prime nor covered, in order.         *)
(***************************************************************************)
Unmarked(A) == [j \in DOMAIN A |-> [A[j] EXCEPT !.NONESSEN = FALSE]]

Expand ==
  /\ pc = "expand"
  /\ F' = Unmarked(mini_sort(F, ascend))
  /\ covered' = {} /\ i' = 1 /\ pc' = "next"
  /\ UNCHANGED <<main, costs, call, RAISE, FREESET, OVEREXPANDED_CUBE, BB, CC, feas, num_covered>>

Skipped(j) == F[j].PRIME \/ j \in covered

SkipCube ==
  /\ pc = "next" /\ i <= Len(F) /\ Skipped(i)
  /\ i' = i + 1
  /\ UNCHANGED <<main, costs, expansion, pc, call, F>>

(* expand1 up to essen_parts.  Under make_sparse only the binary variables *)
(* are expanded: the parts of the others are not free.                     *)
Opened ==
  LET c    == F[i].set
      C    == {j \in DOMAIN F \ {i} : ~Skipped(j)}
      free == (Parts \ c) \ InVars({v \in Vars : sparse[v]})
  IN IF call = "sparse"
       THEN [BB |-> elim_BB(DOMAIN R, c \cup free), CC |-> elim_CC(F, C, c \cup free), FREESET |-> free]
       ELSE [BB |-> DOMAIN R, CC |-> C, FREESET |-> Parts \ c]

OpenCube ==
  /\ pc = "next" /\ i <= Len(F) /\ ~Skipped(i)
  /\ F' = [F EXCEPT ![i].PRIME = TRUE]
  /\ RAISE' = F[i].set
  /\ \E parts \in {essen_parts(F, Opened.BB, Opened.CC, F[i].set, Opened.FREESET)} :
        /\ BB' = parts.BB /\ CC' = parts.CC /\ FREESET' = parts.FREESET
        /\ OVEREXPANDED_CUBE' = F[i].set \cup parts.FREESET
        /\ feas' = parts.CC
        /\ pc' = IF Touched(Opened.BB, F[i].set) THEN "fatal"
                 ELSE IF parts.CC = {} THEN "raise" ELSE "feasible"
  /\ num_covered' = 0
  /\ UNCHANGED <<main, costs, call, i, covered>>

(* select_feasible, one round: raise what nothing blocks, see which cubes  *)
(* that covers, and which of the others could be covered.                  *)
Raised     == RAISE \cup essen_raising(BB, FREESET)
NowCovered == {j \in feas \cap CC : F[j].set \subseteq Raised}
Feasible   == {j \in (feas \cap CC) \ NowCovered : feasibly_covered(BB, F[j].set, Raised)}

(* The best one leaves the most others feasible, then raises the fewest    *)
(* parts, then comes first.                                                *)
Lookahead(j) == Cardinality({k \in Feasible : new_lower(BB, F[j].set, Raised) \cap F[k].set = {}})
NewParts(j)  == set_dist(F[j].set, FREESET \ Raised)
BestFeasible == CHOOSE j \in Feasible : \A k \in Feasible :
  \/ Lookahead(j) > Lookahead(k)
  \/ /\ Lookahead(j) = Lookahead(k)
     /\ NewParts(j) < NewParts(k) \/ (NewParts(j) = NewParts(k) /\ j <= k)

SelectFeasible ==
  /\ pc = "feasible" /\ Feasible # {}
  /\ RAISE' = Raised \cup F[BestFeasible].set
  /\ \E parts \in {essen_parts(F, BB, CC \ NowCovered, RAISE', FREESET \ RAISE')} :
        BB' = parts.BB /\ CC' = parts.CC /\ FREESET' = parts.FREESET
  /\ pc' = IF Touched(BB, RAISE') THEN "fatal" ELSE "feasible"
  /\ feas' = Feasible
  /\ covered' = covered \cup NowCovered
  /\ num_covered' = num_covered + Cardinality(NowCovered)
  /\ UNCHANGED <<main, costs, call, F, i, OVEREXPANDED_CUBE>>

NoneFeasible ==
  /\ pc = "feasible" /\ Feasible = {}
  /\ RAISE' = Raised /\ FREESET' = FREESET \ Raised
  /\ CC' = CC \ NowCovered /\ feas' = {}
  /\ covered' = covered \cup NowCovered
  /\ num_covered' = num_covered + Cardinality(NowCovered)
  /\ pc' = "raise"
  /\ UNCHANGED <<main, costs, call, F, i, OVEREXPANDED_CUBE, BB>>

(* Raise one part, and see what that lowers.                               *)
RaisePart(part) ==
  /\ RAISE' = RAISE \cup {part}
  /\ \E parts \in {essen_parts(F, BB, CC, RAISE \cup {part}, FREESET \ {part})} :
        BB' = parts.BB /\ CC' = parts.CC /\ FREESET' = parts.FREESET
  /\ pc' = IF Touched(BB, RAISE \cup {part}) THEN "fatal" ELSE "raise"
  /\ UNCHANGED <<main, costs, call, F, i, covered, OVEREXPANDED_CUBE, feas, num_covered>>

(* Cubes are left that the over-expanded cube contains.                    *)
RaiseFrequent ==
  /\ pc = "raise" /\ CC # {}
  /\ RaisePart(most_frequent(F, CC, FREESET))

(* mincov: keep a minimum cover of the blocking sets low and raise the     *)
(* rest; if unravelling takes too much, raise the first free part instead. *)
Mincov ==
  /\ pc = "raise" /\ CC = {} /\ BB # {} /\ Len(BlockingSets) <= max_expansion
  /\ \E xlower \in {do_sm_minimum_cover(BlockingSets, TRUE)} :
        /\ RAISE' = RAISE \cup (FREESET \ xlower.row)
        /\ pc' = IF xlower = NIL THEN "fatal" ELSE "raise"
  /\ FREESET' = {} /\ BB' = {}
  /\ UNCHANGED <<main, costs, call, F, i, covered, OVEREXPANDED_CUBE, CC, feas, num_covered>>

HeuristicMincov ==
  /\ pc = "raise" /\ CC = {} /\ BB # {} /\ Len(BlockingSets) > max_expansion
  /\ RaisePart(most_frequent(F, {}, FREESET))

(* Nothing blocks the cube any more.                                       *)
CloseCube ==
  /\ pc = "raise" /\ CC = {} /\ BB = {}
  /\ RAISE' = RAISE \cup FREESET
  /\ F' = [F EXCEPT ![i].set = RAISE',
                    ![i].NONESSEN = (num_covered = 0 /\ RAISE' # OVEREXPANDED_CUBE)]
  /\ covered' = covered \ {i}
  /\ i' = i + 1 /\ pc' = "next"
  /\ UNCHANGED <<main, costs, call, FREESET, OVEREXPANDED_CUBE, BB, CC, feas, num_covered>>

DropCovered ==
  /\ pc = "next" /\ i > Len(F)
  /\ F' = Keep(F, DOMAIN F \ covered)
  /\ pc' = "expanded"
  /\ UNCHANGED <<main, costs, expansion, call, i>>

(***************************************************************************)
(* irredundant after an expansion, then where the main loop goes.          *)
(***************************************************************************)
Mark(A, m) ==
  [ok |-> m.ok,
   cubes |-> Keep([j \in DOMAIN A |-> [A[j] EXCEPT !.RELESSEN = (j \in m.relessen)]], m.active)]
Marked(A, dc) == Mark(A, mark_irredundant(Sets(A), dc))

Irredundant1 ==
  /\ pc = "expanded" /\ call = "initial"
  /\ \E m \in {Marked(F, D)} :
        F' = m.cubes /\ pc' = IF m.ok THEN "essential" ELSE "fatal"
  /\ UNCHANGED <<main, costs, expansion, call, i>>

(* essential: only cubes that irredundant found relatively essential, and  *)
(* expand not inessential, are tested.  The essential ones become part of  *)
(* the don't cares until the end.                                          *)
Essentials ==
  {j \in DOMAIN F : ~F[j].NONESSEN /\ F[j].RELESSEN /\ essen_cube(Sets(F), D, F[j].set)}

Essential ==
  /\ pc = "essential" /\ ~in.opt.single_expand
  /\ \E essen \in {IF in.opt.remove_essential THEN Essentials ELSE {}} :
        /\ E' = Keep(F, essen)
        /\ F' = Keep(F, DOMAIN F \ essen)
        /\ D' = D \o Keep(Sets(F), essen)
  /\ best_cost' = CostOf(F') /\ cost' = CostOf(F')
  /\ pc' = "reduce"
  /\ UNCHANGED <<in, unwrap_onset, toggle, Foriginal, G, expansion, call, i>>

SingleExpand ==
  /\ pc = "essential" /\ in.opt.single_expand
  /\ best_cost' = CostOf(F) /\ i' = first_part[num_binary_vars] /\ pc' = "mv_reduce"
  /\ UNCHANGED <<main, expansion, call, F, cost>>

(* reduce: the order alternates from call to call; every cube is replaced  *)
(* by its reduction at once, so the later ones see the earlier reduced.    *)
Reduce ==
  /\ pc = "reduce"
  /\ F' = IF toggle THEN sort_reduce(F) ELSE mini_sort(F, descend)
  /\ toggle' = ~toggle
  /\ i' = 1 /\ pc' = "reducing"
  /\ UNCHANGED <<in, unwrap_onset, E, D, Foriginal, G, costs, expansion, call>>

ReduceCube ==
  /\ pc = "reducing" /\ i <= Len(F)
  /\ \E cunder \in {Reduction(Sets(F), D, i)} :
        F' = [F EXCEPT ![i].set = cunder, ![i].PRIME = (cunder = F[i].set)]
  /\ i' = i + 1
  /\ UNCHANGED <<main, costs, expansion, pc, call>>

ReduceEnd ==
  /\ pc = "reducing" /\ i > Len(F)
  /\ F' = Keep(F, {j \in DOMAIN F : F[j].set # {}})
  /\ call' = "loop" /\ pc' = "expand"
  /\ UNCHANGED <<main, costs, expansion, i>>

(* The inner loop goes on as long as the number of cubes falls.            *)
Irredundant2 ==
  /\ pc = "expanded" /\ call = "loop"
  /\ \E m \in {Marked(F, D)} :
        /\ F' = m.cubes
        /\ cost' = CostOf(m.cubes) /\ best_cost' = cost'
        /\ pc' = IF ~m.ok THEN "fatal"
                 ELSE IF cost'.cubes < best_cost.cubes THEN "reduce" ELSE "gasp"
  /\ UNCHANGED <<main, expansion, call, i>>

(***************************************************************************)
(* gasp.c: every cube reduced as far as it goes, whatever becomes of the   *)
(* others, in the hope that it expands to something new.                   *)
(***************************************************************************)
ReduceGasp ==
  /\ pc = "gasp"
  /\ \E cunder \in {[j \in DOMAIN F |-> Reduction(Sets(F), D, j)]} :
        /\ F' = [j \in DOMAIN F |-> IF cunder[j] = F[j].set THEN F[j] ELSE Flagged(cunder[j])]
        /\ pc' = IF \E j \in DOMAIN F : cunder[j] = {} THEN "fatal"
                 ELSE IF in.opt.use_super_gasp THEN "super_gasp" ELSE "expand_gasp"
  /\ Foriginal' = F /\ G' = <<>> /\ i' = 1
  /\ UNCHANGED <<in, unwrap_onset, toggle, E, D, costs, expansion, call>>

(* expand1_gasp for the cube i of the reduced cover: a cube that can grow  *)
(* to cover what is left of another one is a candidate.                    *)
GaspParts  == essen_parts(F, DOMAIN R, {j \in DOMAIN F \ {i} : ~F[j].PRIME},
                          F[i].set, Parts \ F[i].set)
Coverable(parts, raised, c) == feasibly_covered(parts.BB, c, raised)

(* What is left of cube j when the reduced cube i stands in for cube i.    *)
c2essential(j) == Reduction([Sets(Foriginal) EXCEPT ![i] = F[i].set], D, j)
GaspPartners(parts, raised) ==
  {j \in parts.CC : /\ F[j].set \subseteq raised \/ Coverable(parts, raised, F[j].set)
                    /\ Coverable(parts, raised, c2essential(j))}

GaspCubes(raised, at) == [k \in DOMAIN at |-> raised \cup c2essential(at[k])]
GaspFrom(parts, raised) ==
  GaspCubes(raised, Listing(GaspPartners(parts, raised), Increasing(GaspPartners(parts, raised))))
GaspFound(parts) == GaspFrom(parts, F[i].set \cup essen_raising(parts.BB, parts.FREESET))
GaspNew == GaspFound(GaspParts)

ExpandGasp ==
  /\ pc = "expand_gasp" /\ i <= Len(F)
  /\ G' = G \o GaspNew
  /\ pc' = IF Touched(DOMAIN R, F[i].set) THEN "fatal" ELSE pc
  /\ i' = i + 1
  /\ UNCHANGED <<in, unwrap_onset, toggle, E, D, Foriginal, costs, expansion, call, F>>

ExpandGaspEnd ==
  /\ pc = "expand_gasp" /\ i > Len(F)
  /\ F' = Cubed(sf_dupl(G))
  /\ call' = "gasp" /\ pc' = "expand"
  /\ UNCHANGED <<main, costs, expansion, i>>

(* After the gasp: again, if the cover is better; otherwise the essential  *)
(* primes come back and the cover is made sparse.                          *)
(* Bug: the essential primes are forgotten at the end. *)
MutLoopOrSparse(A, again) ==
  /\ F' = A /\ best_cost' = CostOf(A)
  /\ IF again THEN pc' = "reduce" /\ UNCHANGED i
     ELSE pc' = "mv_reduce" /\ i' = first_part[num_binary_vars]
LoopOrSparse(A, again) ==
  IF again
    THEN F' = A /\ best_cost' = CostOf(A) /\ pc' = "reduce" /\ UNCHANGED i
    ELSE /\ F' = A \o E /\ best_cost' = CostOf(A \o E)
         /\ pc' = "mv_reduce" /\ i' = first_part[num_binary_vars]

Better(c, d) == c.cubes < d.cubes \/ (c.cubes = d.cubes /\ c.total < d.total)

IrredGasp ==
  /\ pc = "expanded" /\ call = "gasp"
  /\ \E m \in {IF F = <<>> THEN [ok |-> TRUE, cubes |-> Foriginal] ELSE Marked(Foriginal \o F, D)} :
        /\ cost' = CostOf(m.cubes)
        /\ IF m.ok THEN LoopOrSparse(m.cubes, Better(cost', best_cost))
           ELSE F' = m.cubes /\ pc' = "fatal" /\ UNCHANGED <<i, best_cost>>
  /\ UNCHANGED <<main, expansion, call>>

(***************************************************************************)
(* super_gasp: instead, all the primes that cover a reduced cube, and the  *)
(* best choice among them and the old cubes.  The primes of a cube keep    *)
(* low a minimal set of parts that hits every blocking set.                *)
(***************************************************************************)
Hitting(B)    == {C \in SUBSET UNION B : \A b \in B : b \cap C # {}}
MinHitting(B) == {C \in Hitting(B) : \A c \in C : C \ {c} \notin Hitting(B)}

find_all_primes(B, raise, free) ==
  LET blocking == ToSet(unravel(Listed({force_lower(R[b], raise) : b \in B}), num_binary_vars))
  IN IF B = {} THEN {raise} ELSE {raise \cup (free \ C) : C \in MinHitting(blocking)}

AllPrimes(A) ==
  UNION {LET parts == essen_parts(A, DOMAIN R, {}, A[j].set, Parts \ A[j].set)
         IN IF A[j].PRIME THEN {A[j].set}
            ELSE find_all_primes(parts.BB, A[j].set, parts.FREESET) : j \in DOMAIN A}

Primes(A) == [j \in DOMAIN A |-> [Flagged(A[j]) EXCEPT !.PRIME = TRUE]]

SuperGasp ==
  /\ pc = "super_gasp"
  /\ \E m \in {Marked(Primes(sf_dupl(Sets(Foriginal) \o Listed(AllPrimes(F)))), D)} :
        /\ cost' = CostOf(m.cubes)
        /\ IF ~m.ok \/ \E j \in DOMAIN F : ~F[j].PRIME /\ Touched(DOMAIN R, F[j].set)
           THEN F' = m.cubes /\ pc' = "fatal" /\ UNCHANGED <<i, best_cost>>
           ELSE LoopOrSparse(m.cubes, cost'.cubes < best_cost.cubes)
  /\ UNCHANGED <<main, expansion, call>>

(***************************************************************************)
(* make_sparse.  mv_reduce takes every part of the multiple-valued         *)
(* variables for itself: of the cubes that have it, those that are not     *)
(* needed for it lose it, unless it is one part of a full input.           *)
(***************************************************************************)
PartVar       == CHOOSE v \in Vars : i \in var_mask[v]
Cofactored(c) == (c \ var_mask[PartVar]) \cup {i}
Having       == {j \in DOMAIN F : i \in F[j].set}
HavingAt     == Listing(Having, Increasing(Having))
PartOf(A)    == LET with == Keep(A, {k \in DOMAIN A : i \in A[k]})
                IN [k \in DOMAIN with |-> Cofactored(with[k])]
(* Bug: no cube gives up an output. *)
MutLosers(m) == [ok |-> m.ok, lose |-> {}]
Losers(m)    == [ok |-> m.ok, lose |-> {HavingAt[k] : k \in DOMAIN HavingAt \ m.active}]
PartIrredundant == Losers(mark_irredundant(PartOf(Sets(F)), PartOf(in.D)))

MvReducePart ==
  /\ pc = "mv_reduce" /\ i < size
  /\ \E m \in {PartIrredundant} :
        /\ F' = [j \in DOMAIN F |->
                   IF j \notin m.lose THEN F[j]
                   ELSE [F[j] EXCEPT !.PRIME = FALSE,
                          !.set = IF PartVar = output \/ ~(var_mask[PartVar] \subseteq @) THEN @ \ {i} ELSE @]]
        /\ pc' = IF m.ok THEN pc ELSE "fatal"
  /\ i' = i + 1
  /\ UNCHANGED <<main, costs, expansion, call>>

MvReduceEnd ==
  /\ pc = "mv_reduce" /\ i >= size
  /\ F' = Keep(F, {j \in DOMAIN F : \A v \in Vars : sparse[v] => F[j].set \cap var_mask[v] # {}})
  /\ cost' = CostOf(F')
  /\ IF cost'.total = best_cost.total
       THEN pc' = "compare" /\ UNCHANGED <<best_cost, call>>
       ELSE best_cost' = cost' /\ call' = "sparse" /\ pc' = "expand"
  /\ UNCHANGED <<main, expansion, i>>

(* After the inputs have been expanded once more.                          *)
Sparse ==
  /\ pc = "expanded" /\ call = "sparse"
  /\ cost' = CostOf(F)
  /\ IF cost'.total = best_cost.total
       THEN pc' = "compare" /\ UNCHANGED <<best_cost, i>>
       ELSE /\ best_cost' = cost'
            /\ pc' = IF in.opt.force_irredundant THEN "mv_reduce" ELSE "compare"
            /\ i' = first_part[num_binary_vars]
  /\ UNCHANGED <<main, expansion, call, F>>

(* A cover that has become larger than the input is thrown away, and the   *)
(* whole done again without unravelling.                                   *)
(* Bug: the cover is unravelled again when the minimizer starts over. *)
MutStartOver ==
  /\ pc = "compare" /\ Len(in.F) < Len(F)
  /\ pc' = "begin"
  /\ UNCHANGED <<in, unwrap_onset, toggle, E, D, Foriginal, G, costs, expansion, call, F, i>>

StartOver ==
  /\ pc = "compare" /\ Len(in.F) < Len(F)
  /\ unwrap_onset' = FALSE /\ pc' = "begin"
  /\ UNCHANGED <<in, toggle, E, D, Foriginal, G, costs, expansion, call, F, i>>

(* verify, in main.c: the result and the input cover each other.           *)
Covers(A, B, dc) == \A j \in DOMAIN B : cube_is_covered(cube2list(A, dc), B[j])
Verify ==
  /\ pc = "compare" /\ Len(in.F) >= Len(F)
  /\ pc' = IF Covers(in.F, Sets(F), in.D) /\ Covers(Sets(F), in.F, in.D) THEN "verified" ELSE "fatal"
  /\ UNCHANGED <<main, costs, expansion, call, F, i>>

(***************************************************************************)
(* The specification.                                                      *)
(***************************************************************************)
NoCost == [cubes |-> 0, in |-> 0, mv |-> 0, out |-> 0, total |-> 0]

Init ==
  /\ in \in Inputs
  /\ unwrap_onset = in.opt.unwrap_onset
  /\ toggle \in BOOLEAN
  /\ pc = "begin" /\ call = "initial"
  /\ F = <<>> /\ E = <<>> /\ D = <<>> /\ Foriginal = <<>> /\ G = <<>>
  /\ i = 0 /\ cost = NoCost /\ best_cost = NoCost
  /\ covered = {} /\ RAISE = {} /\ FREESET = {} /\ OVEREXPANDED_CUBE = {}
  /\ BB = {} /\ CC = {} /\ feas = {} /\ num_covered = 0

Ended == pc \in {"verified", "fatal"}
Done  == Ended /\ UNCHANGED vars

Next ==
  \/ Begin \/ Expand \/ SkipCube \/ OpenCube \/ SelectFeasible \/ NoneFeasible
  \/ RaiseFrequent \/ Mincov \/ HeuristicMincov \/ CloseCube \/ DropCovered
  \/ Irredundant1 \/ Essential \/ SingleExpand \/ Reduce \/ ReduceCube \/ ReduceEnd
  \/ Irredundant2 \/ ReduceGasp \/ ExpandGasp \/ ExpandGaspEnd \/ IrredGasp \/ SuperGasp
  \/ MvReducePart \/ MvReduceEnd \/ Sparse \/ StartOver \/ Verify \/ Done

(* The minimizer runs in one thread and nothing interrupts it: weak        *)
(* fairness of Next, written out.  Every step before the end changes       *)
(* something, and that one is possible is what TLC's check for deadlocks   *)
(* shows.                                                                  *)
Fairness == []<>Ended \/ []<><<TRUE>>_vars
Spec     == Init /\ [][Next]_vars /\ Fairness

(***************************************************************************)
(* Properties.                                                             *)
(***************************************************************************)

(* What the variables hold; above all that the cubes of the cover keep a   *)
(* part in every binary variable while expand and reduce take parts off,   *)
(* unless reduce has just found a cube covered by the others and emptied.  *)
Full(c) == \A v \in 0 .. num_binary_vars - 1 : c \cap var_mask[v] # {}
FullCubes ==
  /\ \A j \in DOMAIN F : Full(F[j].set) \/ (pc = "reducing" /\ F[j].set = {}) \/ pc = "fatal"
  /\ pc \in {"feasible", "raise"} => Full(RAISE)
TypeOK ==
  /\ unwrap_onset \in BOOLEAN /\ toggle \in BOOLEAN
  /\ call \in {"initial", "loop", "gasp", "sparse"}
  /\ F \in Seq(CubeRecords) /\ E \in Seq(CubeRecords) /\ Foriginal \in Seq(CubeRecords)
  /\ D \in Seq(Cubes) /\ G \in Seq(Cubes)
  /\ i \in Nat /\ cost.total \in Nat /\ best_cost.total \in Nat
  /\ covered \subseteq Nat /\ num_covered \in Nat
  /\ RAISE \in Cubes /\ FREESET \in Cubes /\ OVEREXPANDED_CUBE \in Cubes
  /\ BB \subseteq DOMAIN R /\ CC \subseteq Nat /\ feas \subseteq Nat
  /\ FullCubes

(* No cube of the cover, of the essential primes and of the cover kept     *)
(* from before the gasp meets the OFF-set, nor does the cube that is being *)
(* raised.  (A candidate of the gasp counts from when it is expanded:      *)
(* expand checks it then, and gives up if it meets the OFF-set.)           *)
Clear(c) == \A r \in DOMAIN R : ~cdist0(R[r], c)
Candidate(j) == call = "gasp" /\ pc \in {"expand", "next", "feasible", "raise"} /\ ~F[j].PRIME
Orthogonal ==
  pc # "fatal" =>
  /\ \A j \in DOMAIN F : Candidate(j) \/ Clear(F[j].set)
  /\ \A j \in DOMAIN E : Clear(E[j].set)
  /\ \A j \in DOMAIN Foriginal : Clear(Foriginal[j].set)
  /\ pc \in {"feasible", "raise"} => Clear(RAISE)

(* No point of the ON-set is lost on the way, whatever is expanded,        *)
(* covered, reduced, thrown out or set aside: the cover and the don't      *)
(* cares contain it, during a gasp the cover kept from before it.          *)
InGasp == pc \in {"expand_gasp", "super_gasp"}
            \/ (call = "gasp" /\ pc \in {"expand", "next", "feasible", "raise", "expanded"})
Final  == pc \in {"mv_reduce", "compare", "verified"} \/ call = "sparse"
OnsetKept ==
  pc # "begin" =>
    PtsOf(in.F) \subseteq PtsOf(Sets(IF InGasp THEN Foriginal ELSE F))
                            \cup PtsOf(IF Final THEN in.D ELSE D)

(* Whenever expand picks a part to raise, because a cube may still be      *)
(* covered or one of the OFF-set blocks, a part is free: most_frequent     *)
(* never answers -1, which nothing checks before the part is inserted.     *)
PartLeft == pc = "raise" /\ (CC # {} \/ BB # {}) => FREESET # {}

(* When mv_reduce has gone through all outputs and taken nothing off, no   *)
(* output of a cube can go, hence no cube: some point of the ON-set would  *)
(* be left to neither the others nor the don't cares.  (A result that      *)
(* still lost an output in the last round may have one too many: the cover *)
(* of mincov may hold a column it does not need.)                          *)
NotNeeded(A, j, p) ==
  PtsOf(in.F) \subseteq PtsOf([Sets(A) EXCEPT ![j] = @ \ {p}] \o in.D)
MinimalCover(A) ==
  \A j \in DOMAIN A : \A p \in A[j].set \cap var_mask[output] : ~NotNeeded(A, j, p)
SettledMinimal == [][pc = "mv_reduce" /\ pc' = "compare" => MinimalCover(F')]_vars

(* Until mincov decides on the parts that are left, a part has only been   *)
(* given up that the cube could not take any more without meeting the      *)
(* OFF-set, whatever was raised, lowered and thrown out of the game in     *)
(* what order.  (What mincov then keeps low may be more than that: its     *)
(* cover of the blocking sets need not be irredundant, and a blocking set  *)
(* may hold a part of a multiple-valued variable that was given up here.   *)
(* make_sparse only expands the binary variables.)                         *)
NoneGivenUp ==
  pc \in {"feasible", "raise"} /\ call # "sparse" /\ (BB # {} \/ FREESET # {}) =>
    \A p \in Parts \ (RAISE \cup FREESET) : ~Clear(RAISE \cup {p})

(* Every point is in one of the three covers of an input: so it is when D  *)
(* or R is a complement (type f, fd, fr), what fdr leaves to the user.     *)
Complete(x) == Points \subseteq PtsOf(x.F) \cup PtsOf(x.D) \cup PtsOf(x.R)

(* The minimizer ends, and its result is verified: no loop goes on for     *)
(* ever, a rerun without unravelling is not too large again, no check      *)
(* inside finds the OFF-set touched or a matrix uncovered.                 *)
Termination == <>(pc = "verified")
=============================================================================
