----------------------- MODULE EquationHolderProofs -----------------------
(***************************************************************************)
(* The substitutions of the equation store keep the solutions, for every   *)
(* set of problems that satisfies ProblemAssumption.  First what the       *)
(* operators of EquationHolder do, then what eliminate does, then the      *)
(* invariant, with one lemma per group of actions.                         *)
(***************************************************************************)
EXTENDS EquationHolder, AnfProofs, SequenceTheorems

(* A polynomial without monomials is a constant. *)
LEMMA EmptyConst ==
  ASSUME NEW p
  PROVE  IsEmpty(p) <=> p = Const(TRUE) \/ p = Const(FALSE)
BY DEF IsEmpty, Monos, Const

(* A constant is a polynomial. *)
LEMMA ConstInPoly == \A b \in BOOLEAN : Const(b) \in Poly
BY DEF Const, Poly, Monomial

(* Nothing is put into a constant. *)
LEMMA ReplaceConst ==
  ASSUME NEW p, IsEmpty(p), NEW v, NEW q
  PROVE  Replace(p, v, q) = p
<1>1. With(p, v) = {}
  BY DEF IsEmpty, Monos, With
<1>2. Quotient(p, v) = {}
  BY <1>1 DEF Quotient
<1>3. Times(Quotient(p, v), q) = {}
  BY <1>2 DEF Times, OddUnions
<1> QED BY <1>1, <1>3 DEF Replace, Xor

(* Polynomial::replace (polynomial.cpp:286-343) gives a polynomial.       *)
LEMMA ReplaceInPoly ==
  ASSUME NEW p \in Poly, NEW q \in Poly, NEW v
  PROVE  Replace(p, v, q) \in Poly
<1>1. AllVars(p) \subseteq Var /\ AllVars(q) \subseteq Var
  BY PolyVars
<1>2. AllVars(Replace(p, v, q)) \subseteq Var
  BY <1>1, VarsReplace
<1> QED BY <1>2, PolyVars

(* The left side of an equation is a constant or its one variable. *)
LEMMA LeftSide ==
  ASSUME NEW l \in Lefts
  PROVE  /\ l \in Poly
         /\ IsEmpty(l) => AllVars(l) = {}
         /\ ~ IsEmpty(l) => /\ SingleVar(l) \in Var
                            /\ l = VarPoly(SingleVar(l))
                            /\ AllVars(l) = {SingleVar(l)}
BY VarOrConst DEF Lefts

---------------------------------------------------------------------------
(* Equation::replace reaches a left side only if the two are the same.     *)
LEMMA HitsSame ==
  ASSUME NEW d \in Equation, NEW e \in Equation, IsMono(e)
  PROVE  HitsLeft(d, e) <=> d.left = e.left
<1>1. d.left \in Lefts /\ e.left \in Lefts
  BY DEF Equation
<1>2. /\ ~ IsEmpty(e.left) /\ LeftVar(e) = SingleVar(e.left)
      /\ e.left = VarPoly(LeftVar(e)) /\ AllVars(e.left) = {LeftVar(e)}
  BY <1>1, LeftSide DEF IsMono, LeftVar
<1>3. CASE IsEmpty(d.left)
  BY <1>1, <1>2, <1>3, LeftSide DEF HitsLeft
<1>4. CASE ~ IsEmpty(d.left)
  <2>1. d.left = VarPoly(SingleVar(d.left)) /\ AllVars(d.left) = {SingleVar(d.left)}
    BY <1>1, <1>4, LeftSide
  <2> QED BY <1>2, <2>1 DEF HitsLeft
<1> QED BY <1>3, <1>4

(* Equation::replace with an equation whose variable is on no other left   *)
(* side, or is known: what it keeps, and that no assignment that satisfies *)
(* the equation put in tells the old equation from the new one.            *)
LEMMA ReplaceEquation ==
  ASSUME NEW d \in Equation, NEW e \in Equation, IsMono(e),
         d.left = e.left => IsEmpty(e.right)
  PROVE  /\ replace(d, e) \in Equation
         /\ replace(d, e).type = d.type /\ replace(d, e).replaced = d.replaced
         /\ replace(d, e).left = d.left \/ IsEmpty(replace(d, e).left)
         /\ d.left = e.left => IsEmpty(replace(d, e).left)
         /\ IsEmpty(d.right) => replace(d, e).right = d.right
         /\ \A T : Satisfied(e, T) => (Satisfied(replace(d, e), T) <=> Satisfied(d, T))
<1> DEFINE f == replace(d, e)
           v == LeftVar(e)
<1>1. /\ d.left \in Lefts /\ e.left \in Lefts /\ d.right \in Poly /\ e.right \in Poly
  BY DEF Equation
<1>2. e.left = VarPoly(v)
  BY <1>1, LeftSide DEF IsMono, LeftVar
<1>3. /\ f.type = d.type /\ f.replaced = d.replaced /\ f.left = ReplacedLeft(d, e)
      /\ f.right = Replace(d.right, v, e.right)
  BY DEF replace, Equation
<1>4. HitsLeft(d, e) <=> d.left = e.left
  BY HitsSame
<1>5. IF d.left = e.left THEN f.left = e.right /\ IsEmpty(e.right) ELSE f.left = d.left
  <2>1. IsEmpty(e.right) => ~ OneMono(e.right)
    BY DEF IsEmpty, OneMono
  <2> QED BY <1>3, <1>4, <2>1 DEF ReplacedLeft
<1>6. f.left \in Lefts
  BY <1>1, <1>5, EmptyConst DEF Lefts
<1>7. f.right \in Poly
  BY <1>1, <1>3, ReplaceInPoly
<1>8. f \in Equation
  <2>1. /\ ReplacedLeft(d, e) \in Lefts
        /\ Replace(d.right, v, e.right) \in Poly
    BY <1>3, <1>6, <1>7
  <2> HIDE DEF v
  <2> SUFFICES [d EXCEPT !.left = ReplacedLeft(d, e),
                         !.right = Replace(d.right, v, e.right)] \in Equation
    BY DEF replace, v
  <2> QED BY <2>1 DEF Equation
<1>9. IsEmpty(d.right) => f.right = d.right
  BY <1>3, ReplaceConst
<1>10. ASSUME NEW T, Satisfied(e, T)
       PROVE  Satisfied(f, T) <=> Satisfied(d, T)
  <2>1. v \in T <=> Eval(e.right, T)
    BY <1>2, <1>10, EvalSimple DEF Satisfied
  <2>2. Eval(f.right, T) <=> Eval(d.right, T)
    <3>1. IsFiniteSet(d.right) /\ IsFiniteSet(e.right)
      BY <1>1, FinitePoly
    <3>2. Eval(Replace(d.right, v, e.right), T) <=> Eval(d.right, T)
      BY <2>1, <3>1, EvalReplace
    <3> QED BY <1>3, <3>2
  <2>3. Eval(f.left, T) <=> Eval(d.left, T)
    BY <1>5, <1>10 DEF Satisfied
  <2>4. /\ Eval(f.right, T) \in BOOLEAN /\ Eval(d.right, T) \in BOOLEAN
        /\ Eval(f.left, T) \in BOOLEAN /\ Eval(d.left, T) \in BOOLEAN
    BY DEF Eval, Odd
  <2> QED BY <2>2, <2>3, <2>4 DEF Satisfied
<1> QED BY <1>3, <1>5, <1>8, <1>9, <1>10

---------------------------------------------------------------------------
(* What SolutionsKept compares, for one assignment: T satisfies the        *)
(* equations of the nodes in L and the ones in R.                          *)
AllSat(E, L, R, T) == (\A n \in L : Satisfied(E[n], T)) /\ (\A e \in R : Satisfied(e, T))

(* Solutions are compared assignment by assignment. *)
LEMMA SolutionsSame ==
  ASSUME problem' = problem,
         \A T : AllSat(eqs, live, removed, T) <=> AllSat(eqs', live', removed', T)
  PROVE  Solutions(LiveEqs \cup removed)' = Solutions(LiveEqs \cup removed)
<1>1. Solutions(LiveEqs \cup removed)
        = {T \in SUBSET problem.used : AllSat(eqs, live, removed, T)}
  BY DEF Solutions, LiveEqs, AllSat
<1>2. Solutions(LiveEqs \cup removed)'
        = {T \in SUBSET problem'.used : AllSat(eqs', live', removed', T)}
  BY DEF Solutions, LiveEqs, AllSat, Satisfied
<1> QED BY <1>1, <1>2

(* The types of the list. *)
ListOK == /\ eqs \in [Nodes -> Equation] /\ live \subseteq Nodes
          /\ removed \subseteq [left : Lefts, right : Poly]

(* Erasing an equation keeps it in `removed'.                              *)
LEMMA EraseKeeps ==
  ASSUME NEW n \in live, NEW E, Erase(n),
         \A T : Satisfied(E[n], T) <=> Satisfied(eqs[n], T)
  PROVE  \A T : AllSat(E, live, removed, T) <=> AllSat(E, live', removed', T)
<1> DEFINE s == [left |-> eqs[n].left, right |-> eqs[n].right]
<1>1. \A T : Satisfied(s, T) <=> Satisfied(eqs[n], T)
  BY DEF Satisfied
<1>2. live' = live \ {n} /\ removed' = removed \cup {s}
  BY DEF Erase
<1> HIDE DEF s
<1> QED BY <1>1, <1>2 DEF AllSat

(* Erasing an equation keeps the list well-formed.                         *)
LEMMA EraseOK ==
  ASSUME NEW n \in live, Erase(n), ListOK
  PROVE  live' \subseteq live /\ removed' \subseteq [left : Lefts, right : Poly]
<1>1. eqs[n] \in Equation
  BY DEF ListOK
<1> QED BY <1>1 DEF Erase, ListOK, Equation

(***************************************************************************)
(* EquationHolder::eliminate, if no left side it would have to replace     *)
(* stands for an unknown value: it does not throw, and the list and the    *)
(* erased equations keep their common solutions.                           *)
(***************************************************************************)
LEMMA EliminateSound ==
  ASSUME ListOK, problem' = problem,
         NEW n \in live, NEW r, NEW delete_eq \in BOOLEAN, NEW flag \in BOOLEAN,
         eliminate(n, r, delete_eq, flag),
         \A d \in Targets(n, r) :
           IsMono(eqs[n]) /\ eqs[d].left = eqs[n].left => IsEmpty(eqs[n].right)
  PROVE  /\ ListOK' /\ live' \subseteq live
         /\ pc' = pc \/ (pc' = "assert" /\ ~ IsMono(eqs[n]))
         /\ Solutions(LiveEqs \cup removed)' = Solutions(LiveEqs \cup removed)
         /\ \A d \in Nodes :
              /\ eqs'[d].type = eqs[d].type
              /\ eqs'[d].left = eqs[d].left \/ IsEmpty(eqs'[d].left)
              /\ IsEmpty(eqs[d].right) => eqs'[d].right = eqs[d].right
              /\ d # n => eqs'[d].replaced = eqs[d].replaced
         /\ IsMono(eqs[n]) /\ ~ tautology(eqs[n]) =>
              \A d \in Targets(n, r) :
                eqs[d].left = eqs[n].left => IsEmpty(eqs'[d].left)
<1> DEFINE e == eqs[n]
           Replaced == [d \in Nodes |->
                  IF d \in Targets(n, r) THEN replace(eqs[d], eqs[n])
                  ELSE IF d = n THEN [eqs[d] EXCEPT !.replaced = @ \/ flag]
                  ELSE eqs[d]]
<1>1. /\ Nodes' = Nodes /\ e \in Equation /\ n \in Nodes /\ n \notin Targets(n, r)
      /\ Targets(n, r) \subseteq live /\ Targets(n, r) \subseteq Nodes
  BY DEF Nodes, ListOK, Targets
<1>2. CASE tautology(e) /\ eqs' = eqs /\ Erase(n) /\ UNCHANGED pc
  <2>1. \A T : AllSat(eqs, live, removed, T) <=> AllSat(eqs', live', removed', T)
    BY <1>2, EraseKeeps
  <2>2. ListOK' /\ live' \subseteq live
    BY <1>1, <1>2, EraseOK DEF ListOK
  <2> QED BY <1>2, <2>1, <2>2, SolutionsSame
<1>3. ASSUME NEW d \in Targets(n, r), IsMono(e)
      PROVE  /\ ~ CannotReplace(eqs[d], e)
             /\ eqs[d].left = e.left => IsEmpty(e.right)
  BY <1>1, <1>3, HitsSame DEF CannotReplace, ListOK
<1>4. CASE /\ \/ Targets(n, r) # {} /\ ~ IsMono(e) /\ pc' = "assert"
              \/ /\ IsMono(e) /\ pc' = "throw"
                 /\ \E d \in Targets(n, r) : CannotReplace(eqs[d], e)
           /\ UNCHANGED <<eqs, live, removed>>
  <2>1. pc' = "assert" /\ ~ IsMono(e)
    BY <1>3, <1>4
  <2>2. \A T : AllSat(eqs, live, removed, T) <=> AllSat(eqs', live', removed', T)
    BY <1>4
  <2>3. ListOK'
    BY <1>1, <1>4 DEF ListOK
  <2> QED BY <1>4, <2>1, <2>2, <2>3, SolutionsSame
<1>5. CASE /\ Targets(n, r) # {} => IsMono(e)
           /\ eqs' = Replaced
           /\ IF delete_eq THEN Erase(n) ELSE UNCHANGED <<live, removed>>
           /\ UNCHANGED pc
  <2>1. ASSUME NEW d \in Targets(n, r)
        PROVE  /\ eqs'[d] \in Equation /\ IsMono(e) /\ d # n
               /\ eqs'[d].type = eqs[d].type /\ eqs'[d].replaced = eqs[d].replaced
               /\ eqs'[d].left = eqs[d].left \/ IsEmpty(eqs'[d].left)
               /\ eqs[d].left = e.left => IsEmpty(eqs'[d].left)
               /\ IsEmpty(eqs[d].right) => eqs'[d].right = eqs[d].right
               /\ \A T : Satisfied(e, T) => (Satisfied(eqs'[d], T) <=> Satisfied(eqs[d], T))
    <3>1. eqs'[d] = replace(eqs[d], e) /\ IsMono(e) /\ eqs[d] \in Equation
      BY <1>1, <1>5 DEF ListOK
    <3> QED BY <1>1, <1>3, <3>1, ReplaceEquation
  <2>2. eqs'[n] = [e EXCEPT !.replaced = @ \/ flag]
    BY <1>1, <1>5
  <2>3. /\ eqs'[n] \in Equation /\ eqs'[n].type = e.type
        /\ eqs'[n].left = e.left /\ eqs'[n].right = e.right
    BY <1>1, <2>2 DEF Equation
  <2>4. \A d \in Nodes \ (Targets(n, r) \cup {n}) : eqs'[d] = eqs[d]
    BY <1>5
  <2>5. \A T : Satisfied(eqs'[n], T) <=> Satisfied(e, T)
    BY <2>3 DEF Satisfied
  <2>6. ASSUME NEW T
        PROVE  AllSat(eqs, live, removed, T) <=> AllSat(eqs', live, removed, T)
    <3>1. ASSUME Satisfied(e, T), NEW d \in live
          PROVE  Satisfied(eqs'[d], T) <=> Satisfied(eqs[d], T)
      <4>1. d \in Nodes
        BY DEF ListOK
      <4> QED BY <2>1, <2>4, <2>5, <3>1, <4>1
    <3> QED BY <2>5, <3>1 DEF AllSat
  <2>7. \A T : AllSat(eqs', live, removed, T) <=> AllSat(eqs', live', removed', T)
    BY <1>5, <2>5, EraseKeeps
  <2>8. /\ eqs' = [d \in Nodes |-> eqs'[d]]
        /\ \A d \in Nodes : eqs'[d] \in Equation
    <3>1. \A d \in Nodes : eqs[d] \in Equation
      BY DEF ListOK
    <3> QED BY <1>5, <2>1, <2>3, <2>4, <3>1
  <2>9. /\ live' \subseteq live /\ removed' \subseteq [left : Lefts, right : Poly]
    BY <1>5, EraseOK DEF ListOK
  <2>10. ListOK'
    BY <1>1, <2>8, <2>9 DEF ListOK
  <2>11. ASSUME NEW d \in Nodes
         PROVE  /\ eqs'[d].type = eqs[d].type
                /\ eqs'[d].left = eqs[d].left \/ IsEmpty(eqs'[d].left)
                /\ IsEmpty(eqs[d].right) => eqs'[d].right = eqs[d].right
                /\ d # n => eqs'[d].replaced = eqs[d].replaced
    BY <2>1, <2>3, <2>4
  <2>12. Solutions(LiveEqs \cup removed)' = Solutions(LiveEqs \cup removed)
    BY <2>6, <2>7, SolutionsSame
  <2> QED BY <1>5, <2>1, <2>9, <2>10, <2>11, <2>12
<1> QED BY <1>2, <1>4, <1>5 DEF eliminate

---------------------------------------------------------------------------
(***************************************************************************)
(* The invariant.  SolutionsKept is not inductive: putting x = y + 1 in    *)
(* another equation x = q would lose the inversion.  KnownFirst rules that *)
(* out: if two equations have the same variable on the left, the first one *)
(* gives its value, and the propagation has not yet reached it.            *)
(***************************************************************************)
Twins(n, m) == n < m /\ IsMono(eqs[n]) /\ eqs[n].left = eqs[m].left
Known(n)    == /\ eqs[n].type.kind = "help" /\ IsEmpty(eqs[n].right)
               /\ ~ eqs[n].replaced
               /\ problem.propagate => pc = "trivial" /\ it <= n
KnownFirst  == \A n, m \in live : Twins(n, m) => Known(n)

ListInv == problem \in Problems /\ ListOK /\ KnownFirst /\ SolutionsKept
           /\ solutions \subseteq SUBSET problem.used

FlowInv ==
  /\ pc \in Loops \ {"throw"} /\ it \in Nat /\ range \in Nat \ {0}
  /\ pc \in {"trivial", "bool", "mono"} => problem.propagate
  /\ pc = "linear" => range \in 1 .. Len(problem.ranges)
  /\ changed \in BOOLEAN /\ refuted \in BOOLEAN
  /\ depend \subseteq Var /\ checked \subseteq Var
  /\ ret \in {"Undef", "True", "False"}

SameVarsInv == /\ \A x \in DOMAIN same_vars : x \in Var /\ same_vars[x] \in Var
               /\ SameVarsLinked

Inv == ListInv /\ FlowInv /\ SameVarsInv /\ RefutedRightly

(* What ProblemAssumption says of the problem at hand. *)
LEMMA ProblemFacts ==
  ASSUME problem \in Problems
  PROVE  /\ Nodes = 1 .. N /\ N \in Nat /\ Nodes \subseteq Nat
         /\ problem.eqs \in [Nodes -> Equation]
         /\ problem.propagate \in BOOLEAN /\ problem.used \subseteq Var
         /\ problem.ranges \in Seq(StateRange)
         /\ \A k \in 1 .. Len(problem.ranges) : problem.ranges[k] \in StateRange
BY ProblemAssumption, LenProperties, ElementOfSeq DEF Nodes, N

(* An equation of the list holds in every solution.                        *)
LEMMA SolutionSatisfies ==
  ASSUME SolutionsKept, NEW n \in live, NEW T \in solutions
  PROVE  Satisfied(eqs[n], T)
BY DEF SolutionsKept, Solutions, LiveEqs

(* A step that changes no equation, and erases at most one.                *)
LEMMA ListShrinks ==
  ASSUME ListInv, UNCHANGED <<problem, solutions, eqs>>,
         \/ UNCHANGED <<live, removed>>
         \/ \E n \in live : Erase(n),
         \A n \in live : DueTrivial(n) /\ pc = "trivial" /\ it <= n =>
                           pc' = "trivial" /\ it' <= n
  PROVE  ListInv'
<1>1. problem' \in Problems /\ Nodes' = Nodes
  BY DEF ListInv, Nodes
<1>2. live' \subseteq live /\ ListOK'
  BY <1>1, EraseOK DEF ListInv, ListOK
<1>3. KnownFirst'
  <2> SUFFICES ASSUME NEW n \in live', NEW m \in live', Twins(n, m)'
               PROVE  Known(n)'
    BY DEF KnownFirst
  <2>1. n \in live /\ m \in live /\ Twins(n, m)
    BY <1>2 DEF Twins, IsMono
  <2>2. Known(n)
    BY <2>1 DEF ListInv, KnownFirst
  <2>3. DueTrivial(n)
    BY <2>1, <2>2 DEF Known, Twins, DueTrivial, trivial_equation
  <2> QED BY <2>1, <2>2, <2>3 DEF Known
<1>4. SolutionsKept'
  <2>1. \A T : AllSat(eqs, live, removed, T) <=> AllSat(eqs', live', removed', T)
    <3>1. CASE UNCHANGED <<live, removed>>
      BY <3>1
    <3>2. CASE \E n \in live : Erase(n)
      BY <3>2, EraseKeeps
    <3> QED BY <3>1, <3>2
  <2> QED BY <2>1, SolutionsSame DEF ListInv, SolutionsKept
<1> QED BY <1>1, <1>2, <1>3, <1>4 DEF ListInv

(***************************************************************************)
(* eliminate on a node whose variable is on no other left side it would    *)
(* replace, or which is the first, known one of twins.                     *)
(***************************************************************************)
LEMMA ListEliminates ==
  ASSUME ListInv, UNCHANGED <<problem, solutions>>,
         NEW n \in live, NEW r, NEW delete_eq \in BOOLEAN, NEW flag \in BOOLEAN,
         eliminate(n, r, delete_eq, flag),
         \A d \in Targets(n, r) :
           IsMono(eqs[n]) /\ eqs[d].left = eqs[n].left => IsEmpty(eqs[n].right),
         \A k, m \in live : Twins(k, m) /\ Known(k) =>
           \/ /\ k # n
              /\ pc = "trivial" => IsMono(eqs[n]) /\ it' <= k
           \/ k = n /\ m \in Targets(n, r)
  PROVE  ListInv' /\ (pc' = pc \/ (pc' = "assert" /\ ~ IsMono(eqs[n])))
<1>1. ListOK /\ problem' = problem /\ SolutionsKept
  BY DEF ListInv
<1>2. /\ ListOK' /\ live' \subseteq live
      /\ pc' = pc \/ (pc' = "assert" /\ ~ IsMono(eqs[n]))
      /\ Solutions(LiveEqs \cup removed)' = Solutions(LiveEqs \cup removed)
  BY <1>1, EliminateSound
<1>3. \A d \in Nodes :
        /\ eqs'[d].type = eqs[d].type
        /\ eqs'[d].left = eqs[d].left \/ IsEmpty(eqs'[d].left)
        /\ IsEmpty(eqs[d].right) => eqs'[d].right = eqs[d].right
        /\ d # n => eqs'[d].replaced = eqs[d].replaced
  BY <1>1, EliminateSound
<1>4. IsMono(eqs[n]) /\ ~ tautology(eqs[n]) =>
        \A d \in Targets(n, r) : eqs[d].left = eqs[n].left => IsEmpty(eqs'[d].left)
  BY <1>1, EliminateSound
<1>5. KnownFirst'
  <2> SUFFICES ASSUME NEW k \in live', NEW m \in live', Twins(k, m)'
               PROVE  Known(k)'
    BY DEF KnownFirst
  <2>1. k \in live /\ m \in live /\ k \in Nodes /\ m \in Nodes
    BY <1>1, <1>2 DEF ListOK
  <2>2. /\ k < m /\ ~ IsEmpty(eqs'[k].left) /\ eqs'[k].left = eqs'[m].left
    BY DEF Twins, IsMono
  <2>3. eqs'[k].left = eqs[k].left /\ eqs'[m].left = eqs[m].left
    BY <1>3, <2>1, <2>2
  <2>4. Twins(k, m)
    BY <2>2, <2>3 DEF Twins, IsMono
  <2>5. Known(k)
    BY <2>1, <2>4 DEF ListInv, KnownFirst
  <2>6. k # n \/ m \notin Targets(n, r)
    <3> SUFFICES ASSUME k = n, m \in Targets(n, r) PROVE FALSE
      OBVIOUS
    <3>1. IsMono(eqs[n]) /\ ~ tautology(eqs[n])
      BY <2>4, <2>5 DEF Twins, Known, tautology, OneMono, IsEmpty
    <3> QED BY <1>4, <2>2, <2>3, <3>1
  <2>7. k # n /\ (pc = "trivial" => pc' = "trivial" /\ it' <= k)
    BY <1>2, <2>1, <2>4, <2>5, <2>6
  <2> QED BY <1>1, <1>3, <2>1, <2>5, <2>7 DEF Known
<1>6. SolutionsKept'
  BY <1>1, <1>2 DEF SolutionsKept
<1> QED BY <1>2, <1>5, <1>6 DEF ListInv

(* A known bit is put into its twin before the twin is put anywhere.       *)
LEMMA TrivialHits ==
  ASSUME Inv, TrivialStep, NEW d \in Targets(it, AnyRange), eqs[d].left = eqs[it].left
  PROVE  IsEmpty(eqs[it].right) /\ d \in Nat /\ it < d
<1>1. /\ it \in live /\ IsMono(eqs[it]) /\ pc = "trivial" /\ it \in Nat
      /\ ListInv /\ Nodes \subseteq Nat /\ live \subseteq Nodes
  BY ProblemFacts DEF TrivialStep, DueTrivial, trivial_equation, Inv, ListInv, ListOK, FlowInv
<1>2. d \in live /\ d # it /\ d \in Nat /\ IsMono(eqs[d])
  BY <1>1 DEF Targets, IsMono
<1>3. CASE it < d
  BY <1>1, <1>2, <1>3 DEF ListInv, KnownFirst, Twins, Known
<1>4. CASE d < it
  <2>1. Known(d)
    BY <1>1, <1>2, <1>4 DEF ListInv, KnownFirst, Twins
  <2>2. it <= d
    BY <1>1, <2>1 DEF Known, Inv, FlowInv
  <2> QED BY <1>1, <1>2, <1>4, <2>2
<1> QED BY <1>1, <1>2, <1>3, <1>4

(* A fact propagated keeps the shape of the list.                          *)
LEMMA TrivialStepInv ==
  ASSUME Inv, TrivialStep
  PROVE  ListInv' /\ pc' = pc
<1>1. /\ it \in live /\ IsMono(eqs[it]) /\ pc = "trivial" /\ it' = it + 1
      /\ ListInv /\ Nodes \subseteq Nat /\ live \subseteq Nodes /\ it \in Nat
  BY ProblemFacts DEF TrivialStep, DueTrivial, trivial_equation, Inv, ListInv, ListOK, FlowInv
<1>2. \A d \in Targets(it, AnyRange) : eqs[d].left = eqs[it].left => IsEmpty(eqs[it].right)
  BY TrivialHits
<1>3. ASSUME NEW k \in live, NEW m \in live, Twins(k, m), Known(k), k = it
      PROVE  m \in Targets(it, AnyRange)
  BY <1>1, <1>3 DEF Targets, Twins, Contains
<1>4. eliminate(it, AnyRange, FALSE, TRUE) /\ UNCHANGED <<problem, solutions>>
  BY DEF TrivialStep
<1>5. ASSUME NEW k \in live, NEW m \in live, Twins(k, m), Known(k), k # it
      PROVE  it' <= k
  <2>1. k \in Nat /\ it <= k
    BY <1>1, <1>5 DEF Known, Inv, FlowInv
  <2> QED BY <1>1, <1>5, <2>1
<1>6. ListInv' /\ (pc' = pc \/ (pc' = "assert" /\ ~ IsMono(eqs[it])))
  BY <1>1, <1>2, <1>3, <1>4, <1>5, ListEliminates
<1> QED BY <1>1, <1>6

(* In the pass over the products no two equations are twins.               *)
LEMMA MonoHits ==
  ASSUME Inv, MonoStep, NEW d \in Targets(it, AnyRange)
  PROVE  eqs[d].left # eqs[it].left
<1>1. /\ it \in live /\ IsMono(eqs[it]) /\ pc = "mono" /\ problem.propagate
      /\ ListInv /\ Nodes \subseteq Nat /\ live \subseteq Nodes
  BY ProblemFacts DEF MonoStep, DueMono, Inv, ListInv, ListOK, FlowInv
<1>2. \A k, m \in live : ~ Twins(k, m)
  BY <1>1 DEF ListInv, KnownFirst, Known
<1> SUFFICES ASSUME eqs[d].left = eqs[it].left PROVE FALSE
  OBVIOUS
<1>3. d \in live /\ d # it /\ d \in Nat /\ it \in Nat /\ IsMono(eqs[d])
  BY <1>1 DEF Targets, IsMono
<1>4. it < d \/ d < it
  BY <1>3
<1> QED BY <1>1, <1>2, <1>3, <1>4 DEF Twins

(* A renaming keeps the shape of the list.                                 *)
LEMMA MonoStepInv ==
  ASSUME Inv, MonoStep
  PROVE  ListInv' /\ pc' = pc
<1>1. /\ it \in live /\ IsMono(eqs[it]) /\ pc = "mono" /\ problem.propagate
      /\ ListInv /\ Nodes \subseteq Nat /\ live \subseteq Nodes
      /\ eliminate(it, AnyRange, TRUE, FALSE) /\ UNCHANGED <<problem, solutions>>
  BY ProblemFacts DEF MonoStep, DueMono, Inv, ListInv, ListOK, FlowInv
<1>2. \A k, m \in live : ~ Twins(k, m)
  BY <1>1 DEF ListInv, KnownFirst, Known
<1>3. \A d \in Targets(it, AnyRange) : eqs[d].left # eqs[it].left
  BY MonoHits
<1>4. ListInv' /\ (pc' = pc \/ (pc' = "assert" /\ ~ IsMono(eqs[it])))
  BY <1>1, <1>2, <1>3, ListEliminates
<1> QED BY <1>1, <1>4

(* A shift register is linearized with its states, none of them known bits.*)
LEMMA LinearHits ==
  ASSUME Inv, pc = "linear", NEW n \in StateNodes(problem.ranges[range]),
         NEW d \in Targets(n, problem.ranges[range]), IsMono(eqs[n])
  PROVE  eqs[d].left # eqs[n].left
<1> DEFINE r == problem.ranges[range]
<1> SUFFICES ASSUME eqs[d].left = eqs[n].left PROVE FALSE
  OBVIOUS
<1>1. ListInv /\ Nodes \subseteq Nat /\ live \subseteq Nodes
  BY ProblemFacts DEF Inv, ListInv, ListOK
<1>2. n \in live /\ n \in Nat /\ eqs[n].type.kind = "sr"
  BY <1>1 DEF StateNodes, IsState
<1>3. d \in live /\ d # n /\ d \in Nat /\ Contains(r, eqs[d].type)
  BY <1>1 DEF Targets
<1>4. Twins(n, d) \/ Twins(d, n)
  <2>1. n < d \/ d < n
    BY <1>2, <1>3
  <2> QED BY <2>1 DEF Twins, IsMono
<1>5. Twins(d, n) /\ Known(d)
  BY <1>1, <1>2, <1>3, <1>4 DEF ListInv, KnownFirst, Known
<1>6. r = AnyRange
  BY <1>3, <1>5 DEF Known, Contains
<1>7. r \in StateRange
  BY <1>1, ProblemFacts DEF Inv, FlowInv, ListInv
<1>8. "which" \in DOMAIN r /\ "which" \notin DOMAIN AnyRange
  BY <1>7 DEF StateRange, AnyRange
<1> QED BY <1>6, <1>8

(* A linearized bit keeps the shape of the list, or the assertion fails.   *)
LEMMA LinearStepInv ==
  ASSUME Inv, LinearStep
  PROVE  ListInv' /\ pc' \in {pc, "assert"} /\ pc = "linear"
<1> DEFINE r == problem.ranges[range]
<1>1. /\ ListInv /\ Nodes \subseteq Nat /\ live \subseteq Nodes
      /\ pc = "linear" /\ UNCHANGED <<problem, solutions>>
  BY ProblemFacts DEF LinearStep, Inv, ListInv, ListOK
<1>2. CASE UNCHANGED <<eqs, live, removed, pc>>
  BY <1>1, <1>2, ListShrinks
<1>3. ASSUME NEW n \in StateNodes(r), eliminate(n, r, FALSE, FALSE)
      PROVE  ListInv' /\ pc' \in {pc, "assert"}
  <2>1. n \in live /\ n \in Nat /\ eqs[n].type.kind = "sr"
    BY <1>1, <1>3 DEF StateNodes, IsState
  <2>2. \A d \in Targets(n, r) : IsMono(eqs[n]) => eqs[d].left # eqs[n].left
    BY <1>1, LinearHits
  <2>3. \A k, m \in live : Twins(k, m) => k # n
    BY <1>1, <2>1 DEF ListInv, KnownFirst, Known
  <2> HIDE DEF r
  <2>4. ListInv' /\ (pc' = pc \/ pc' = "assert")
    <3>1. /\ \A d \in Targets(n, r) :
               IsMono(eqs[n]) /\ eqs[d].left = eqs[n].left => IsEmpty(eqs[n].right)
          /\ \A k, m \in live : Twins(k, m) /\ Known(k) =>
               \/ /\ k # n
                  /\ pc = "trivial" => IsMono(eqs[n]) /\ it' <= k
               \/ k = n /\ m \in Targets(n, r)
      BY <1>1, <2>2, <2>3
    <3>2. eliminate(n, r, FALSE, FALSE)
      BY <1>3
    <3> QED BY <1>1, <2>1, <3>1, <3>2, ListEliminates
  <2> QED BY <2>4
<1> QED BY <1>1, <1>2, <1>3 DEF LinearStep

(* The lists one_test starts from satisfy the invariant. *)
LEMMA InitInv == Init => Inv
<1> SUFFICES ASSUME Init PROVE Inv
  OBVIOUS
<1> USE DEF Init
<1>1. /\ problem \in Problems /\ eqs \in [Nodes -> Equation] /\ Nodes \subseteq Nat
      /\ problem.propagate \in BOOLEAN /\ N \in Nat
      /\ Nodes = 1 .. N
  BY ProblemFacts
<1>2. ListOK
  BY <1>1 DEF ListOK
<1>3. KnownFirst
  <2> SUFFICES ASSUME NEW n \in live, NEW m \in live, Twins(n, m) PROVE Known(n)
    BY DEF KnownFirst
  <2>1. n \in DOMAIN problem.eqs /\ m \in DOMAIN problem.eqs
    BY DEF Nodes
  <2>2. eqs[n].type.kind = "help" /\ IsEmpty(eqs[n].right) /\ ~ eqs[n].replaced
    BY <2>1, ProblemAssumption DEF Twins, IsMono
  <2>3. it <= n
    BY <1>1, <2>1 DEF Nodes
  <2> QED BY <2>2, <2>3 DEF Known
<1>4. SolutionsKept /\ solutions \subseteq SUBSET problem.used
  BY DEF SolutionsKept, Solutions, LiveEqs
<1>5. FlowInv
  <2>1. pc = "between" \/ (pc = "trivial" /\ problem.propagate)
    BY <1>1
  <2>2. pc \in {"trivial", "bool", "mono"} => problem.propagate
    BY <2>1
  <2>3. /\ pc \in Loops \ {"throw"} /\ pc # "linear"
        /\ it \in Nat /\ range \in Nat \ {0}
    BY <2>1 DEF Loops
  <2>4. /\ changed \in BOOLEAN /\ refuted \in BOOLEAN
        /\ depend \subseteq Var /\ checked \subseteq Var
        /\ ret \in {"Undef", "True", "False"}
    OBVIOUS
  <2> QED BY <2>2, <2>3, <2>4 DEF FlowInv
<1>6. SameVarsInv /\ RefutedRightly
  BY DEF SameVarsInv, SameVarsLinked, RefutedRightly
<1> QED BY <1>1, <1>2, <1>3, <1>4, <1>5, <1>6 DEF Inv, ListInv

(* The variables of the sides are variables.                               *)
LEMMA SideVars ==
  ASSUME Inv, NEW n \in live
  PROVE  /\ AllVars(eqs[n].right) \subseteq Var /\ eqs[n].right \in Poly
         /\ n \in Nodes /\ eqs[n] \in Equation
         /\ IsMono(eqs[n]) => LeftVar(eqs[n]) \in Var
<1>1. n \in Nodes /\ eqs[n] \in Equation
  BY DEF Inv, ListInv, ListOK
<1>2. eqs[n].left \in Lefts /\ eqs[n].right \in Poly
  BY <1>1 DEF Equation
<1> QED BY <1>1, <1>2, LeftSide, PolyVars DEF IsMono, LeftVar

(* Every action keeps the list, the solutions, and the order of the loops. *)
LEMMA NextListFlow ==
  ASSUME Inv, Next
  PROVE  ListInv' /\ FlowInv'
<1> USE DEF FlowInv, Loops, Propagated, AtEnd
<1>1. /\ ListInv /\ FlowInv /\ Nodes = 1 .. N /\ N \in Nat /\ live \subseteq Nodes
      /\ problem.propagate \in BOOLEAN
      /\ Len(problem.ranges) \in Nat
      /\ \A k \in 1 .. Len(problem.ranges) : problem.ranges[k] \in StateRange
  BY ProblemFacts, LenProperties DEF Inv, ListInv, ListOK
<1>2. CASE Skip
  <2>1. ListInv'
    BY <1>1, <1>2, ListShrinks DEF Skip
  <2> QED BY <1>1, <1>2, <2>1 DEF Skip
<1>3. CASE TrivialStep
  BY <1>1, <1>3, TrivialStepInv DEF TrivialStep
<1>4. CASE TrivialEnd
  <2>1. ListInv'
    BY <1>1, <1>4, ListShrinks DEF TrivialEnd
  <2> QED BY <1>1, <1>4, <2>1 DEF TrivialEnd
<1>5. CASE BoolStep
  <2>1. ListInv'
    BY <1>1, <1>5, ListShrinks DEF BoolStep, DueBool
  <2>2. pc' \in {pc, "solved", "between"} /\ it' \in {it, it + 1}
    BY <1>5 DEF BoolStep
  <2>3. ret' \in {"Undef", "True", "False"} /\ refuted' \in BOOLEAN
    BY <1>1, <1>5 DEF BoolStep, AndAssign
  <2> QED BY <1>1, <1>5, <2>1, <2>2, <2>3 DEF BoolStep
<1>6. CASE BoolEnd
  <2>1. ListInv'
    BY <1>1, <1>6, ListShrinks DEF BoolEnd
  <2> QED BY <1>1, <1>6, <2>1 DEF BoolEnd
<1>7. CASE MonoStep
  BY <1>1, <1>7, MonoStepInv DEF MonoStep
<1>8. CASE MonoEnd
  <2>1. ListInv'
    BY <1>1, <1>8, ListShrinks DEF MonoEnd
  <2>2. pc' \in {"trivial", "solved", "between"} /\ it' \in {it, 1}
    BY <1>8 DEF MonoEnd
  <2>3. ret' \in {"Undef", "True", "False"}
    BY <1>1, <1>8 DEF MonoEnd, AndAssign
  <2>4. problem.propagate /\ UNCHANGED <<problem, range, depend, checked, refuted>>
    BY <1>1, <1>8 DEF MonoEnd
  <2>5. changed' \in BOOLEAN
    BY <1>8 DEF MonoEnd
  <2>6. it' \in Nat /\ range' \in Nat \ {0} /\ refuted' \in BOOLEAN
    BY <1>1, <2>2, <2>4
  <2>7. /\ pc' \in Loops \ {"throw"} /\ pc' # "linear"
        /\ pc' \in {"trivial", "bool", "mono"} => problem'.propagate
    BY <2>2, <2>4
  <2>8. depend' \subseteq Var /\ checked' \subseteq Var
    BY <1>1, <2>4
  <2> QED BY <2>1, <2>3, <2>5, <2>6, <2>7, <2>8
<1>9. CASE BetweenStart
  <2>1. ListInv'
    BY <1>1, <1>9, ListShrinks DEF BetweenStart
  <2>2. problem.ranges[range].from \in Nat
    BY <1>1, <1>9 DEF BetweenStart, StateRange
  <2> QED BY <1>1, <1>9, <2>1, <2>2 DEF BetweenStart
<1>10. CASE LinearStep
  <2>1. ListInv' /\ pc' \in {pc, "assert"} /\ pc = "linear"
    BY <1>10, LinearStepInv
  <2>2. /\ it' = it + 1
        /\ UNCHANGED <<problem, range, changed, depend, checked, ret, refuted>>
    BY <1>10 DEF LinearStep
  <2> QED BY <1>1, <2>1, <2>2
<1>11. CASE LinearEnd
  <2>1. ListInv'
    BY <1>1, <1>11, ListShrinks DEF LinearEnd
  <2> QED BY <1>1, <1>11, <2>1 DEF LinearEnd
<1>12. CASE RemoveStart
  <2>1. ListInv'
    BY <1>1, <1>12, ListShrinks DEF RemoveStart
  <2>2. depend' \subseteq Var
    BY <1>12, SideVars DEF RemoveStart
  <2> QED BY <1>1, <1>12, <2>1, <2>2 DEF RemoveStart
<1>13. CASE DependStep
  <2>1. ListInv'
    BY <1>1, <1>13, ListShrinks DEF DependStep
  <2>2. depend' \subseteq Var /\ checked' \subseteq Var
    BY <1>1, <1>13, SideVars DEF DependStep, DueDepend
  <2> QED BY <1>1, <1>13, <2>1, <2>2 DEF DependStep
<1>14. CASE DependEnd
  <2>1. ListInv'
    BY <1>1, <1>14, ListShrinks DEF DependEnd
  <2> QED BY <1>1, <1>14, <2>1 DEF DependEnd
<1>15. CASE EraseStep
  <2>1. ListInv'
    BY <1>1, <1>15, ListShrinks DEF EraseStep, DueErase
  <2> QED BY <1>1, <1>15, <2>1 DEF EraseStep
<1>16. CASE EraseEnd
  <2>1. ListInv'
    BY <1>1, <1>16, ListShrinks DEF EraseEnd
  <2> QED BY <1>1, <1>16, <2>1 DEF EraseEnd
<1> QED
  BY <1>2, <1>3, <1>4, <1>5, <1>6, <1>7, <1>8, <1>9, <1>10, <1>11, <1>12,
     <1>13, <1>14, <1>15, <1>16 DEF Next

(* A right side that is one variable has its value, or the opposite one.   *)
LEMMA SingleVarLinks ==
  ASSUME NEW p \in Poly, IsSingleVar(p)
  PROVE  /\ SingleVar(p) \in Var
         /\ \E b \in BOOLEAN : \A T : (Eval(p, T) <=> SingleVar(p) \in T) = b
<1> DEFINE y == SingleVar(p)
<1>1. y \in AllVars(p) /\ Monos(p) = {{y}}
  BY DEF IsSingleVar, SingleVar
<1>2. y \in Var
  BY <1>1, PolyVars
<1>3. IsFiniteSet(VarPoly(y)) /\ IsFiniteSet(Const(TRUE))
  <2>1. VarPoly(y) \in Poly
    BY <1>2 DEF VarPoly, Poly, Monomial
  <2> QED BY <2>1, ConstInPoly, FinitePoly
<1>4. CASE IsInverted(p)
  <2>1. p = Xor(VarPoly(y), Const(TRUE))
    BY <1>1, <1>4 DEF IsInverted, Monos, Xor, VarPoly, Const
  <2>2. ASSUME NEW T PROVE Eval(p, T) <=> ~ (y \in T)
    <3>1. Eval(Xor(VarPoly(y), Const(TRUE)), T)
            <=> ~ (Eval(VarPoly(y), T) <=> Eval(Const(TRUE), T))
      BY <1>3, EvalXor
    <3>2. Eval(Const(TRUE), T) /\ (Eval(VarPoly(y), T) <=> y \in T)
      BY EvalSimple
    <3> QED BY <2>1, <3>1, <3>2
  <2>3. \A T : (Eval(p, T) <=> y \in T) = FALSE
    BY <2>2
  <2> QED BY <1>2, <2>3
<1>5. CASE ~ IsInverted(p)
  <2>1. p = VarPoly(y)
    BY <1>1, <1>5 DEF IsInverted, Monos, VarPoly
  <2>2. \A T : (Eval(p, T) <=> y \in T) = TRUE
    BY <2>1, EvalSimple
  <2> QED BY <1>2, <2>2
<1> QED BY <1>4, <1>5

(* Only eliminate_mono_equations writes same_vars; links are transitive.   *)
LEMMA NextSameVars ==
  ASSUME Inv, Next
  PROVE  SameVarsInv'
<1>1. solutions' = solutions
  BY DEF Next, Skip, TrivialStep, TrivialEnd, BoolStep, BoolEnd, MonoStep, MonoEnd,
     BetweenStart, LinearStep, LinearEnd, RemoveStart, DependStep, DependEnd,
     EraseStep, EraseEnd
<1>2. CASE same_vars' = same_vars
  BY <1>1, <1>2 DEF Inv, SameVarsInv, SameVarsLinked
<1>3. CASE MonoStep /\ same_vars' # same_vars
  <2> DEFINE x == LeftVar(eqs[it])
             y == SingleVar(eqs[it].right)
             Linked(u, w) == \E b \in BOOLEAN : \A T \in solutions : (u \in T <=> w \in T) = b
  <2>1. /\ it \in live /\ IsMono(eqs[it]) /\ IsSingleVar(eqs[it].right)
        /\ same_vars' = Renamed(x, y)
    BY <1>3 DEF MonoStep, DueMono
  <2>2. /\ x \in Var /\ eqs[it].right \in Poly /\ eqs[it].left \in Lefts
        /\ eqs[it].left = VarPoly(x)
    BY <2>1, SideVars, LeftSide DEF Equation, IsMono, LeftVar
  <2>3. y \in Var /\ Linked(x, y)
    <3>1. PICK b \in BOOLEAN : \A T : (Eval(eqs[it].right, T) <=> y \in T) = b
      BY <2>1, <2>2, SingleVarLinks
    <3>2. ASSUME NEW T \in solutions PROVE x \in T <=> Eval(eqs[it].right, T)
      <4>1. Satisfied(eqs[it], T)
        BY <2>1, SolutionSatisfies DEF Inv, ListInv
      <4>2. Eval(VarPoly(x), T) <=> x \in T
        BY EvalSimple
      <4> QED BY <2>2, <4>1, <4>2 DEF Satisfied
    <3>3. \A T \in solutions : (x \in T <=> y \in T) = b
      BY <3>1, <3>2
    <3>4. y \in Var
      BY <2>1, <2>2, SingleVarLinks
    <3> QED BY <3>3, <3>4
  <2>4. \A z \in DOMAIN same_vars : z \in Var /\ same_vars[z] \in Var
                                    /\ Linked(z, same_vars[z])
    BY DEF Inv, SameVarsInv, SameVarsLinked
  <2>5. ASSUME NEW u, Linked(u, x) PROVE Linked(u, y)
    <3>1. PICK b \in BOOLEAN : \A T \in solutions : (u \in T <=> x \in T) = b
      BY <2>5
    <3>2. PICK c \in BOOLEAN : \A T \in solutions : (x \in T <=> y \in T) = c
      BY <2>3
    <3>3. \A T \in solutions : (u \in T <=> y \in T) = (b <=> c)
      BY <3>1, <3>2
    <3> QED BY <3>3
  <2> HIDE DEF x, y, Linked
  <2>6. ASSUME NEW z \in DOMAIN same_vars'
        PROVE  z \in Var /\ same_vars'[z] \in Var /\ Linked(z, same_vars'[z])
    <3>1. z \in DOMAIN same_vars \cup {x}
      BY <2>1, <2>6 DEF Renamed
    <3>2. same_vars'[z] = IF z = x \/ same_vars[z] = x THEN y ELSE same_vars[z]
      BY <2>1, <3>1 DEF Renamed
    <3>3. CASE z = x
      BY <2>2, <2>3, <3>2, <3>3
    <3>4. CASE z # x /\ same_vars[z] = x
      BY <2>3, <2>4, <2>5, <3>1, <3>2, <3>4
    <3>5. CASE z # x /\ same_vars[z] # x
      BY <2>4, <3>1, <3>2, <3>5
    <3> QED BY <3>3, <3>4, <3>5
  <2> QED BY <1>1, <2>6 DEF SameVarsInv, SameVarsLinked, Linked
<1>4. MonoStep \/ same_vars' = same_vars
  BY DEF Next, Skip, TrivialStep, TrivialEnd, BoolStep, BoolEnd, MonoEnd,
     BetweenStart, LinearStep, LinearEnd, RemoveStart, DependStep, DependEnd,
     EraseStep, EraseEnd
<1> QED BY <1>2, <1>3, <1>4

(* The refuting equation is of two different constants.                    *)
LEMMA NextRefuted ==
  ASSUME Inv, Next
  PROVE  RefutedRightly'
<1>1. solutions' = solutions
  BY DEF Next, Skip, TrivialStep, TrivialEnd, BoolStep, BoolEnd, MonoStep, MonoEnd,
     BetweenStart, LinearStep, LinearEnd, RemoveStart, DependStep, DependEnd,
     EraseStep, EraseEnd
<1>2. CASE refuted' = refuted
  BY <1>1, <1>2 DEF Inv, RefutedRightly
<1>3. CASE BoolStep /\ refuted' # refuted
  <2> DEFINE e == eqs[it]
  <2>1. it \in live /\ IsEmpty(e.left) /\ IsEmpty(e.right) /\ e.left # e.right
    BY <1>3 DEF BoolStep, DueBool, IsMono
  <2>2. \/ e.left = Const(TRUE) /\ e.right = Const(FALSE)
        \/ e.left = Const(FALSE) /\ e.right = Const(TRUE)
    BY <2>1, EmptyConst
  <2>3. \A T : ~ Satisfied(e, T)
    <3>1. \A T : Eval(Const(TRUE), T) /\ ~ Eval(Const(FALSE), T)
      BY EvalSimple
    <3> QED BY <2>2, <3>1 DEF Satisfied
  <2>4. solutions = {}
    BY <2>1, <2>3, SolutionSatisfies DEF Inv, ListInv
  <2> QED BY <1>1, <2>4 DEF RefutedRightly
<1>4. BoolStep \/ refuted' = refuted
  BY DEF Next, Skip, TrivialStep, TrivialEnd, BoolEnd, MonoStep, MonoEnd,
     BetweenStart, LinearStep, LinearEnd, RemoveStart, DependStep, DependEnd,
     EraseStep, EraseEnd
<1> QED BY <1>2, <1>3, <1>4

(* The invariant holds in every state.                                     *)
THEOREM Invariance == Spec => []Inv
<1>1. Inv /\ [Next]_vars => Inv'
  <2> SUFFICES ASSUME Inv, [Next]_vars PROVE Inv'
    OBVIOUS
  <2>1. CASE Next
    BY <2>1, NextListFlow, NextSameVars, NextRefuted DEF Inv
  <2>2. CASE UNCHANGED vars
    <3> USE DEF vars
    <3>1. ListInv'
      BY <2>2, ListShrinks DEF Inv
    <3>2. FlowInv'
      BY <2>2 DEF Inv, FlowInv, Loops
    <3>3. SameVarsInv' /\ RefutedRightly'
      BY <2>2 DEF Inv, SameVarsInv, SameVarsLinked, RefutedRightly
    <3> QED BY <3>1, <3>2, <3>3 DEF Inv
  <2> QED BY <2>1, <2>2
<1> QED BY <1>1, InitInv, PTL DEF Spec

(***************************************************************************)
(* Type correctness of the equation store: whatever is substituted, a left *)
(* side is one variable or a constant (equation.h:32-70).                  *)
(***************************************************************************)
THEOREM TypeCorrect == Spec => []TypeOK
<1>1. Inv => TypeOK
  BY DEF Inv, ListInv, ListOK, FlowInv, SameVarsInv, Loops, TypeOK
<1> QED BY <1>1, Invariance, PTL

(***************************************************************************)
(* No substitution of eliminate_trivial_and_mono_equations or              *)
(* linearize_linearizable (equationholder.cpp:52-197), in any order of     *)
(* equations and ranges, adds or loses a solution.                         *)
(***************************************************************************)
THEOREM SolutionsAlwaysKept == Spec => []SolutionsKept
<1>1. Inv => SolutionsKept
  BY DEF Inv, ListInv
<1> QED BY <1>1, Invariance, PTL

(* A problem the propagation refutes has no solution                       *)
(* (equationholder.cpp:82-86).                                             *)
THEOREM RefutationsRight == Spec => []RefutedRightly
<1>1. Inv => RefutedRightly
  BY DEF Inv
<1> QED BY <1>1, Invariance, PTL

(* The pairs of same_vars are equal or opposite in all the solutions       *)
(* (equationholder.cpp:108-118).                                           *)
THEOREM SameVarsAlwaysLinked == Spec => []SameVarsLinked
<1>1. Inv => SameVarsLinked
  BY DEF Inv, SameVarsInv
<1> QED BY <1>1, Invariance, PTL

(* Equation::replace is never asked to put a polynomial on a left side:    *)
(* the exception of equation.cpp:52 is unreachable.                        *)
THEOREM NeverThrows == Spec => [](pc # "throw")
<1>1. Inv => pc # "throw"
  BY DEF Inv, FlowInv
<1> QED BY <1>1, Invariance, PTL
---------------------------------------------------------------------------
(***************************************************************************)
(* The second invariant is about which variables the equations of the list *)
(* hold: it rests on DefinitionAssumption.                                 *)
(***************************************************************************)

(* What DefinitionAssumption says of the problem at hand. *)
LEMMA DefinitionFacts ==
  ASSUME problem \in Problems
  PROVE  /\ Depth(problem) \in [problem.used -> Nat] /\ problem.base \subseteq problem.used
         /\ \A n \in Nodes :
              LET e == problem.eqs[n] IN
              /\ IsMono(e) /\ EqVars(e) \subseteq problem.used
              /\ \A w \in AllVars(e.right) : Depth(problem)[w] < Depth(problem)[LeftVar(e)]
              /\ LeftVar(e) \in problem.base => e.type.kind = "help"
              /\ e.type.kind = "help" => IsEmpty(e.right)
         /\ \A v \in problem.used \ problem.base :
              \E n \in Nodes : problem.eqs[n].left = VarPoly(v)
<1>1. problem.eqs \in [Nodes -> Equation]
  BY ProblemFacts
<1>2. /\ Depth(problem) \in [problem.used -> Nat] /\ problem.base \subseteq problem.used
      /\ \A n \in Nodes : LET v == SingleVar(problem.eqs[n].left) IN
           /\ ~ IsEmpty(problem.eqs[n].left) /\ v \in problem.used
           /\ \A w \in AllVars(problem.eqs[n].right) :
                w \in problem.used /\ Depth(problem)[w] < Depth(problem)[v]
           /\ v \in problem.base => problem.eqs[n].type.kind = "help"
           /\ problem.eqs[n].type.kind = "help" => IsEmpty(problem.eqs[n].right)
      /\ \A v \in problem.used \ problem.base :
           \E n \in Nodes : problem.eqs[n].left = VarPoly(v)
  BY DefinitionAssumption DEF Nodes
<1>3. ASSUME NEW n \in Nodes
      PROVE  AllVars(problem.eqs[n].left) = {LeftVar(problem.eqs[n])}
  BY <1>1, <1>2, LeftSide DEF Equation, LeftVar
<1> QED BY <1>2, <1>3 DEF IsMono, LeftVar, EqVars

(* The parts of the invariant.  The variables of a right side stand before *)
(* the left side in the order of the definitions, whatever is substituted, *)
(* and a reference bit has at most a known value.                          *)
Ordered ==
  \A n \in Nodes :
    /\ EqVars(eqs[n]) \subseteq problem.used
    /\ IsMono(eqs[n]) =>
         /\ \A w \in AllVars(eqs[n].right) :
              Depth(problem)[w] < Depth(problem)[LeftVar(eqs[n])]
         /\ LeftVar(eqs[n]) \in problem.base => IsEmpty(eqs[n].right)

(* What EquationHolder::eliminate does to the variables. *)
PutIn(n, r, delete_eq, flag) ==
  /\ live' = IF delete_eq THEN live \ {n} ELSE live
  /\ eqs'[n].left = eqs[n].left /\ eqs'[n].right = eqs[n].right
  /\ eqs'[n].replaced = (eqs[n].replaced \/ flag)
  /\ \A d \in Nodes \ {n} : eqs'[d].replaced = eqs[d].replaced
  /\ \A d \in Targets(n, r) :
       IsMono(eqs[n]) /\ LeftVar(eqs[n]) \notin EqVars(eqs'[d])
  /\ \A d \in Nodes :
       /\ eqs'[d].type = eqs[d].type
       /\ eqs'[d].left = eqs[d].left
            \/ (IsEmpty(eqs'[d].left) /\ d \in Targets(n, r) /\ eqs[d].left = eqs[n].left)
       /\ \/ eqs'[d].right = eqs[d].right
          \/ /\ d \in Targets(n, r) /\ LeftVar(eqs[n]) \in AllVars(eqs[d].right)
             /\ AllVars(eqs'[d].right) \subseteq AllVars(eqs[d].right) \cup AllVars(eqs[n].right)
       /\ \A T : Satisfied(eqs[n], T) => (Satisfied(eqs'[d], T) <=> Satisfied(eqs[d], T))

(* A variable that is not there is not replaced. *)
LEMMA ReplaceAbsent ==
  ASSUME NEW p, NEW v, v \notin AllVars(p), NEW q
  PROVE  Replace(p, v, q) = p
<1>1. With(p, v) = {}
  BY DEF With, AllVars
<1>2. Quotient(p, v) = {}
  BY <1>1 DEF Quotient
<1>3. Times(Quotient(p, v), q) = {}
  BY <1>2 DEF Times, OddUnions
<1> QED BY <1>1, <1>3 DEF Replace, Xor

(* The left side of an equation of the list. *)
LEMMA MonoLeft ==
  ASSUME NEW e \in Equation
  PROVE  /\ IsMono(e) => /\ e.left = VarPoly(LeftVar(e)) /\ AllVars(e.left) = {LeftVar(e)}
                         /\ LeftVar(e) \in EqVars(e)
         /\ ~ IsMono(e) => AllVars(e.left) = {}
         /\ \A v : e.left = VarPoly(v) => IsMono(e) /\ LeftVar(e) = v
<1>1. e.left \in Lefts
  BY DEF Equation
<1>2. ASSUME NEW v, e.left = VarPoly(v)
      PROVE  IsMono(e) /\ LeftVar(e) = v
  <2>1. ~ IsEmpty(e.left) /\ AllVars(e.left) = {v}
    BY <1>2 DEF IsEmpty, Monos, VarPoly, AllVars
  <2> QED BY <1>1, <2>1, LeftSide DEF IsMono, LeftVar
<1> QED BY <1>1, <1>2, LeftSide DEF IsMono, LeftVar, EqVars

(* An ordered definition does not hold its own variable. *)
LEMMA OrderedNoSelf ==
  ASSUME problem \in Problems, ListOK, Ordered, NEW n \in Nodes, IsMono(eqs[n])
  PROVE  LeftVar(eqs[n]) \notin AllVars(eqs[n].right)
<1>1. LeftVar(eqs[n]) \in problem.used
  BY MonoLeft DEF Ordered, ListOK
<1>2. Depth(problem)[LeftVar(eqs[n])] \in Nat
  BY <1>1, DefinitionFacts
<1> QED BY <1>2 DEF Ordered

(* eliminate puts a polynomial for a variable in the other equations.      *)
LEMMA EliminatePuts ==
  ASSUME ListOK, problem \in Problems, problem' = problem, Ordered,
         NEW n \in live, NEW r, NEW delete_eq \in BOOLEAN, NEW flag \in BOOLEAN,
         eliminate(n, r, delete_eq, flag), pc' \notin {"assert", "throw"},
         \A d \in Targets(n, r) :
           IsMono(eqs[n]) /\ eqs[d].left = eqs[n].left => IsEmpty(eqs[n].right)
  PROVE  PutIn(n, r, delete_eq, flag) /\ Ordered'
<1> DEFINE e == eqs[n]
           v == LeftVar(eqs[n])
<1>1. /\ Nodes' = Nodes /\ e \in Equation /\ n \in Nodes /\ n \notin Targets(n, r)
      /\ Targets(n, r) \subseteq Nodes /\ \A d \in Nodes : eqs[d] \in Equation
  BY DEF Nodes, ListOK, Targets
<1>2. IsMono(e) => /\ e.left = VarPoly(v) /\ v \notin AllVars(e.right)
  BY <1>1, MonoLeft, OrderedNoSelf
<1>3. ~ tautology(e)
  <2> SUFFICES ASSUME IsMono(e), OneMono(e.right), e.left = Monos(e.right) PROVE FALSE
    BY DEF tautology
  <2>1. {v} \in e.right
    BY <1>2 DEF VarPoly, Monos
  <2> QED BY <1>2, <2>1 DEF AllVars
<1>4. /\ Targets(n, r) # {} => IsMono(e)
      /\ eqs' = [d \in Nodes |->
                  IF d \in Targets(n, r) THEN replace(eqs[d], e)
                  ELSE IF d = n THEN [eqs[d] EXCEPT !.replaced = @ \/ flag]
                  ELSE eqs[d]]
      /\ live' = IF delete_eq THEN live \ {n} ELSE live
  BY <1>3 DEF eliminate, Erase
<1>5. ASSUME NEW d \in Targets(n, r)
      PROVE  /\ IsMono(e) /\ v \notin EqVars(eqs'[d])
             /\ eqs'[d].type = eqs[d].type /\ eqs'[d].replaced = eqs[d].replaced
             /\ eqs'[d].left = eqs[d].left
                  \/ (IsEmpty(eqs'[d].left) /\ eqs[d].left = e.left)
             /\ \/ eqs'[d].right = eqs[d].right
                \/ /\ v \in AllVars(eqs[d].right)
                   /\ AllVars(eqs'[d].right) \subseteq AllVars(eqs[d].right) \cup AllVars(e.right)
             /\ \A T : Satisfied(e, T) => (Satisfied(eqs'[d], T) <=> Satisfied(eqs[d], T))
  <2>1. IsMono(e) /\ eqs'[d] = replace(eqs[d], e) /\ eqs[d] \in Equation
    BY <1>1, <1>4
  <2>2. /\ eqs'[d] \in Equation
        /\ eqs'[d].type = eqs[d].type /\ eqs'[d].replaced = eqs[d].replaced
        /\ eqs'[d].left = eqs[d].left \/ IsEmpty(eqs'[d].left)
        /\ eqs[d].left = e.left => IsEmpty(eqs'[d].left)
        /\ \A T : Satisfied(e, T) => (Satisfied(eqs'[d], T) <=> Satisfied(eqs[d], T))
    BY <1>1, <2>1, ReplaceEquation
  <2>3. eqs'[d].right = Replace(eqs[d].right, v, e.right)
    BY <2>1 DEF replace, Equation
  <2>4. /\ AllVars(eqs'[d].right) \subseteq (AllVars(eqs[d].right) \ {v}) \cup AllVars(e.right)
        /\ v \notin AllVars(eqs[d].right) => eqs'[d].right = eqs[d].right
    BY <2>3, VarsReplace, ReplaceAbsent
  <2>5. eqs[d].left # e.left => eqs'[d].left = eqs[d].left
    <3>1. ~ HitsLeft(eqs[d], e) <=> eqs[d].left # e.left
      BY <1>1, <2>1, HitsSame
    <3>2. eqs'[d].left = ReplacedLeft(eqs[d], e)
      BY <2>1 DEF replace, Equation
    <3> QED BY <3>1, <3>2 DEF ReplacedLeft
  <2>6. v \notin AllVars(eqs'[d].left)
    <3>1. CASE IsEmpty(eqs'[d].left)
      BY <2>2, <3>1, MonoLeft DEF IsMono
    <3>2. CASE ~ IsEmpty(eqs'[d].left)
      <4>1. eqs'[d].left = eqs[d].left /\ eqs[d].left # e.left
        BY <2>2, <3>2
      <4>2. AllVars(eqs'[d].left) = {LeftVar(eqs'[d])} /\ eqs'[d].left = VarPoly(LeftVar(eqs'[d]))
        BY <2>2, <3>2, MonoLeft DEF IsMono
      <4> QED BY <1>2, <2>1, <4>1, <4>2
    <3> QED BY <3>1, <3>2
  <2>7. v \notin EqVars(eqs'[d])
    BY <1>2, <2>1, <2>4, <2>6 DEF EqVars
  <2> QED BY <2>1, <2>2, <2>4, <2>5, <2>7
<1>6. /\ eqs'[n].left = e.left /\ eqs'[n].right = e.right /\ eqs'[n].type = e.type
      /\ eqs'[n].replaced = (e.replaced \/ flag)
  <2>1. eqs'[n] = [e EXCEPT !.replaced = @ \/ flag]
    BY <1>1, <1>4
  <2> QED BY <1>1, <2>1 DEF Equation
<1>7. \A d \in Nodes \ (Targets(n, r) \cup {n}) : eqs'[d] = eqs[d]
  BY <1>4
<1>8. PutIn(n, r, delete_eq, flag)
  <2>1. ASSUME NEW d \in Nodes
        PROVE  /\ eqs'[d].type = eqs[d].type
               /\ eqs'[d].left = eqs[d].left
                    \/ (IsEmpty(eqs'[d].left) /\ d \in Targets(n, r) /\ eqs[d].left = e.left)
               /\ \/ eqs'[d].right = eqs[d].right
                  \/ /\ d \in Targets(n, r) /\ v \in AllVars(eqs[d].right)
                     /\ AllVars(eqs'[d].right) \subseteq AllVars(eqs[d].right) \cup AllVars(e.right)
               /\ d # n => eqs'[d].replaced = eqs[d].replaced
               /\ \A T : Satisfied(e, T) => (Satisfied(eqs'[d], T) <=> Satisfied(eqs[d], T))
    <3>1. CASE d \in Targets(n, r)
      BY <1>5, <3>1
    <3>2. CASE d = n
      BY <1>1, <1>6, <3>2 DEF Satisfied
    <3>3. CASE d \notin Targets(n, r) /\ d # n
      BY <1>7, <3>3
    <3> QED BY <3>1, <3>2, <3>3
  <2> HIDE DEF v, e
  <2> QED BY <1>4, <1>5, <1>6, <2>1 DEF PutIn, v, e
<1>9. Ordered'
  <2> SUFFICES ASSUME NEW d \in Nodes
               PROVE  /\ EqVars(eqs'[d]) \subseteq problem.used
                      /\ IsMono(eqs'[d]) =>
                           /\ \A w \in AllVars(eqs'[d].right) :
                                Depth(problem)[w] < Depth(problem)[LeftVar(eqs'[d])]
                           /\ LeftVar(eqs'[d]) \in problem.base => IsEmpty(eqs'[d].right)
    BY <1>1 DEF Ordered, LeftVar, IsMono
  <2>1. AllVars(eqs'[d].left) \subseteq AllVars(eqs[d].left)
    <3>1. IsEmpty(eqs'[d].left) => AllVars(eqs'[d].left) = {}
      BY DEF IsEmpty, Monos, AllVars
    <3> QED BY <1>8, <3>1 DEF PutIn
  <2>2. AllVars(eqs[d].right) \subseteq problem.used /\ AllVars(e.right) \subseteq problem.used
        /\ AllVars(eqs[d].left) \subseteq problem.used
    BY <1>1 DEF Ordered, EqVars
  <2>3. EqVars(eqs'[d]) \subseteq problem.used
    BY <1>8, <2>1, <2>2 DEF PutIn, EqVars
  <2>4. ASSUME IsMono(eqs'[d])
        PROVE  IsMono(eqs[d]) /\ LeftVar(eqs'[d]) = LeftVar(eqs[d])
    BY <1>8, <2>4 DEF PutIn, IsMono, LeftVar
  <2>5. ASSUME IsMono(eqs'[d]), NEW w \in AllVars(eqs'[d].right)
        PROVE  Depth(problem)[w] < Depth(problem)[LeftVar(eqs'[d])]
    <3>1. CASE w \in AllVars(eqs[d].right)
      BY <2>4, <2>5, <3>1 DEF Ordered
    <3>2. CASE w \notin AllVars(eqs[d].right)
      <4>1. w \in AllVars(e.right) /\ v \in AllVars(eqs[d].right) /\ d \in Targets(n, r)
        BY <1>8, <2>5, <3>2 DEF PutIn
      <4>2. IsMono(e)
        BY <1>5, <4>1
      <4>3. Depth(problem)[w] < Depth(problem)[v]
        BY <1>1, <4>1, <4>2 DEF Ordered
      <4>4. Depth(problem)[v] < Depth(problem)[LeftVar(eqs[d])]
        BY <2>4, <2>5, <4>1 DEF Ordered
      <4>5. w \in problem.used /\ v \in problem.used /\ LeftVar(eqs[d]) \in problem.used
        BY <1>1, <2>2, <2>4, <2>5, <4>1, MonoLeft
      <4>6. /\ Depth(problem)[w] \in Nat /\ Depth(problem)[v] \in Nat
            /\ Depth(problem)[LeftVar(eqs[d])] \in Nat
        BY <4>5, DefinitionFacts
      <4> QED BY <2>4, <2>5, <4>3, <4>4, <4>6
    <3> QED BY <3>1, <3>2
  <2>6. ASSUME IsMono(eqs'[d]), LeftVar(eqs'[d]) \in problem.base
        PROVE  IsEmpty(eqs'[d].right)
    <3>1. IsEmpty(eqs[d].right)
      BY <2>4, <2>6 DEF Ordered
    <3>2. AllVars(eqs[d].right) = {}
      BY <3>1 DEF IsEmpty, Monos, AllVars
    <3> QED BY <1>8, <3>1, <3>2 DEF PutIn
  <2> QED BY <2>3, <2>5, <2>6
<1> QED BY <1>8, <1>9
(* The steps that rewrite the list, and the others, which at most erase.   *)
StillEqs ==
  /\ UNCHANGED <<problem, eqs, same_vars>>
  /\ live' = live \/ ((BoolStep \/ EraseStep) /\ live' = live \ {it})
Rewrites(n, r, delete_eq, flag) ==
  /\ n \in live /\ PutIn(n, r, delete_eq, flag) /\ problem' = problem
  /\ flag \/ delete_eq => r = AnyRange

(* Every step leaves the equations, drops one, or substitutes.             *)
LEMMA StepKinds ==
  ASSUME Inv, Ordered, Next
  PROVE  /\ problem' = problem /\ Ordered'
         /\ \/ StillEqs
            \/ TrivialStep /\ Rewrites(it, AnyRange, FALSE, TRUE) /\ same_vars' = same_vars
            \/ MonoStep /\ Rewrites(it, AnyRange, TRUE, FALSE)
            \/ LinearStep /\ same_vars' = same_vars /\
                 \E n \in StateNodes(problem.ranges[range]) :
                   Rewrites(n, problem.ranges[range], FALSE, FALSE)
<1>1. ListOK /\ problem \in Problems /\ problem' = problem
  BY DEF Inv, ListInv, Next, Skip, TrivialStep, TrivialEnd, BoolStep, BoolEnd, MonoStep,
     MonoEnd, BetweenStart, LinearStep, LinearEnd, RemoveStart, DependStep, DependEnd,
     EraseStep, EraseEnd
<1>2. StillEqs => Ordered'
  <2>1. Nodes' = Nodes
    BY <1>1 DEF Nodes
  <2> QED BY <2>1 DEF StillEqs, Ordered, IsMono, LeftVar
<1>3. CASE TrivialStep
  <2>1. /\ it \in live /\ eliminate(it, AnyRange, FALSE, TRUE) /\ pc = "trivial"
        /\ same_vars' = same_vars
    BY <1>3 DEF TrivialStep, DueTrivial
  <2>2. pc' = pc
    BY <1>3, TrivialStepInv
  <2>3. \A d \in Targets(it, AnyRange) :
          IsMono(eqs[it]) /\ eqs[d].left = eqs[it].left => IsEmpty(eqs[it].right)
    BY <1>3, TrivialHits
  <2>4. PutIn(it, AnyRange, FALSE, TRUE) /\ Ordered'
    BY <1>1, <2>1, <2>2, <2>3, EliminatePuts
  <2> QED BY <1>1, <1>3, <2>1, <2>4 DEF Rewrites
<1>4. CASE MonoStep
  <2>1. it \in live /\ eliminate(it, AnyRange, TRUE, FALSE) /\ pc = "mono"
    BY <1>4 DEF MonoStep, DueMono
  <2>2. pc' = pc
    BY <1>4, MonoStepInv
  <2>3. \A d \in Targets(it, AnyRange) :
          IsMono(eqs[it]) /\ eqs[d].left = eqs[it].left => IsEmpty(eqs[it].right)
    BY <1>4, MonoHits
  <2>4. PutIn(it, AnyRange, TRUE, FALSE) /\ Ordered'
    BY <1>1, <2>1, <2>2, <2>3, EliminatePuts
  <2> QED BY <1>1, <1>4, <2>1, <2>4 DEF Rewrites
<1>5. CASE LinearStep
  <2> DEFINE r == problem.ranges[range]
  <2>1. pc = "linear" /\ same_vars' = same_vars
    BY <1>5 DEF LinearStep
  <2>2. CASE UNCHANGED <<eqs, live>>
    BY <1>1, <1>2, <2>1, <2>2 DEF StillEqs
  <2>3. ASSUME NEW n \in StateNodes(r), eliminate(n, r, FALSE, FALSE), ~ UNCHANGED <<eqs, live>>
        PROVE  Rewrites(n, r, FALSE, FALSE) /\ Ordered'
    <3>1. n \in live
      BY DEF StateNodes
    <3>2. pc' \notin {"assert", "throw"}
      BY <2>1, <2>3 DEF eliminate
    <3>3. \A d \in Targets(n, r) :
            IsMono(eqs[n]) /\ eqs[d].left = eqs[n].left => IsEmpty(eqs[n].right)
      BY <2>1, LinearHits
    <3> HIDE DEF r
    <3>4. PutIn(n, r, FALSE, FALSE) /\ Ordered'
      BY <1>1, <2>3, <3>1, <3>2, <3>3, EliminatePuts
    <3> QED BY <1>1, <3>1, <3>4 DEF Rewrites
  <2> QED BY <1>1, <1>5, <2>1, <2>2, <2>3 DEF LinearStep
<1>6. CASE ~ TrivialStep /\ ~ MonoStep /\ ~ LinearStep
  <2>1. StillEqs
    BY <1>1, <1>6 DEF Next, Skip, TrivialEnd, BoolStep, BoolEnd, MonoEnd, BetweenStart,
       LinearEnd, RemoveStart, DependStep, DependEnd, EraseStep, EraseEnd, StillEqs, Erase
  <2> QED BY <1>1, <1>2, <2>1
<1> QED BY <1>3, <1>4, <1>5, <1>6

(* Where the variables of a rewritten equation come from. *)
LEMMA RewrittenVars ==
  ASSUME Inv, NEW n, NEW r, NEW delete_eq, NEW flag, Rewrites(n, r, delete_eq, flag),
         NEW d \in live
  PROVE  /\ EqVars(eqs'[d]) \subseteq EqVars(eqs[d]) \cup EqVars(eqs[n])
         /\ IsMono(eqs'[d]) => eqs'[d].left = eqs[d].left
         /\ live' \subseteq live
<1>1. d \in Nodes
  BY DEF Inv, ListInv, ListOK
<1>2. IsEmpty(eqs'[d].left) => AllVars(eqs'[d].left) = {}
  BY DEF IsEmpty, Monos, AllVars
<1> QED BY <1>1, <1>2 DEF Rewrites, PutIn, EqVars, IsMono

(* What has been put everywhere does not come back: the equations that are *)
(* put in later do not hold it.                                            *)
LEMMA NextOnce ==
  ASSUME Inv, Ordered, Next, PropagatedOnce
  PROVE  PropagatedOnce'
<1>1. ListOK /\ live \subseteq Nodes
  BY DEF Inv, ListInv, ListOK
<1>2. CASE StillEqs
  BY <1>2 DEF StillEqs, PropagatedOnce, IsMono, LeftVar
<1>3. ASSUME NEW n, NEW r, NEW delete_eq, NEW flag \in BOOLEAN, Rewrites(n, r, delete_eq, flag)
      PROVE  PropagatedOnce'
  <2> SUFFICES ASSUME NEW k \in live', NEW m \in live', k # m,
                      eqs'[k].replaced, IsMono(eqs'[k])
               PROVE  LeftVar(eqs'[k]) \notin EqVars(eqs'[m])
    BY DEF PropagatedOnce, IsMono, LeftVar
  <2>1. live' \subseteq live /\ k \in live /\ m \in live /\ n \in live
    BY <1>3, RewrittenVars DEF Rewrites, PutIn
  <2>2. eqs'[k].left = eqs[k].left /\ IsMono(eqs[k]) /\ LeftVar(eqs'[k]) = LeftVar(eqs[k])
    BY <1>3, <2>1, RewrittenVars DEF IsMono, LeftVar
  <2>3. CASE m \in Targets(n, r) /\ k = n
    BY <1>3, <2>2, <2>3 DEF Rewrites, PutIn
  <2>4. CASE m \notin Targets(n, r) /\ k = n
    <3>1. ~ flag
      BY <1>3, <2>1, <2>4 DEF Rewrites, Targets, Contains
    <3>2. eqs[k].replaced
      BY <1>3, <2>4, <3>1 DEF Rewrites, PutIn
    <3>3. m \in Nodes /\ m # n
      BY <1>1, <2>1, <2>4
    <3>4. eqs'[m].left = eqs[m].left /\ eqs'[m].right = eqs[m].right
      BY <1>3, <2>4, <3>3 DEF Rewrites, PutIn
    <3> QED BY <2>1, <2>2, <2>4, <3>2, <3>3, <3>4 DEF PropagatedOnce, EqVars
  <2>5. CASE k # n
    <3>1. eqs[k].replaced
      BY <1>1, <1>3, <2>1, <2>5 DEF Rewrites, PutIn
    <3>2. \A j \in live \ {k} : LeftVar(eqs[k]) \notin EqVars(eqs[j])
      BY <2>1, <2>2, <3>1 DEF PropagatedOnce
    <3>3. EqVars(eqs'[m]) \subseteq EqVars(eqs[m]) \cup EqVars(eqs[n])
      BY <1>3, <2>1, RewrittenVars
    <3> QED BY <2>1, <2>2, <2>5, <3>2, <3>3
  <2> QED BY <2>3, <2>4, <2>5
<1> QED BY <1>2, <1>3, StepKinds

(* A renamed variable is in no equation any more, so no later renaming     *)
(* leads to it, and no reference bit is renamed.                           *)
Gone == \A x \in DOMAIN same_vars : \A n \in live : x \notin EqVars(eqs[n])

(* Every step keeps the renamed variables out of the list and resolved.    *)
LEMMA NextResolved ==
  ASSUME Inv, Ordered, Next, Gone, SameVarsResolved
  PROVE  Gone' /\ SameVarsResolved'
<1>1. live \subseteq Nodes /\ ListOK /\ problem \in Problems
  BY DEF Inv, ListInv, ListOK
<1>2. CASE StillEqs
  BY <1>2 DEF StillEqs, Gone, SameVarsResolved
<1>3. ASSUME NEW n, NEW r, NEW delete_eq, NEW flag, Rewrites(n, r, delete_eq, flag)
      PROVE  \A x \in DOMAIN same_vars : \A d \in live' : x \notin EqVars(eqs'[d])
  <2> SUFFICES ASSUME NEW x \in DOMAIN same_vars, NEW d \in live'
               PROVE  x \notin EqVars(eqs'[d])
    OBVIOUS
  <2>1. n \in live /\ d \in live
    BY <1>3 DEF Rewrites, PutIn
  <2>2. EqVars(eqs'[d]) \subseteq EqVars(eqs[d]) \cup EqVars(eqs[n])
    BY <1>3, <2>1, RewrittenVars
  <2> QED BY <2>1, <2>2 DEF Gone
<1>4. ASSUME NEW n, NEW r, NEW delete_eq, NEW flag, Rewrites(n, r, delete_eq, flag),
             same_vars' = same_vars
      PROVE  Gone' /\ SameVarsResolved'
  BY <1>3, <1>4 DEF Gone, SameVarsResolved, Rewrites
<1>5. CASE MonoStep /\ Rewrites(it, AnyRange, TRUE, FALSE)
  <2> DEFINE e == eqs[it]
             x == LeftVar(eqs[it])
             y == SingleVar(eqs[it].right)
  <2>1. /\ it \in live /\ IsMono(e) /\ OneMono(e.right) /\ e \in Equation /\ it \in Nodes
        /\ problem' = problem
    BY <1>1, <1>5 DEF MonoStep, DueMono, ListOK
  <2>2. \A d \in live' : x \notin EqVars(eqs'[d])
    <3>1. live' \subseteq Targets(it, AnyRange)
      BY <1>5 DEF Rewrites, PutIn, Targets, Contains
    <3> QED BY <1>5, <3>1 DEF Rewrites, PutIn
  <2>3. \A z \in DOMAIN same_vars : \A d \in live' : z \notin EqVars(eqs'[d])
    BY <1>3, <1>5
  <2>4. CASE ~ IsSingleVar(e.right)
    <3>1. same_vars' = same_vars
      BY <1>5, <2>4 DEF MonoStep
    <3> QED BY <1>4, <1>5, <3>1
  <2>5. CASE IsSingleVar(e.right)
    <3>1. same_vars' = Renamed(x, y)
      BY <1>5, <2>5 DEF MonoStep
    <3>2. y \in AllVars(e.right)
      BY <2>5 DEF IsSingleVar, SingleVar
    <3>3. y # x /\ x \in EqVars(e)
      BY <1>1, <2>1, <3>2, OrderedNoSelf, MonoLeft
    <3>4. x \notin DOMAIN same_vars /\ y \notin DOMAIN same_vars
      BY <2>1, <3>2, <3>3 DEF Gone, EqVars
    <3>5. x \notin problem.base
      <4>1. ~ IsEmpty(e.right)
        BY <2>1 DEF OneMono, IsEmpty
      <4> QED BY <2>1, <4>1 DEF Ordered
    <3> HIDE DEF x, y
    <3>6. DOMAIN same_vars' = DOMAIN same_vars \cup {x}
      BY <3>1 DEF Renamed
    <3>7. ASSUME NEW z \in DOMAIN same_vars'
          PROVE  same_vars'[z] \notin DOMAIN same_vars \cup {x}
      <4>1. same_vars'[z] = IF z = x \/ same_vars[z] = x THEN y ELSE same_vars[z]
        BY <3>1, <3>6 DEF Renamed
      <4>2. CASE z = x \/ same_vars[z] = x
        BY <3>3, <3>4, <4>1, <4>2
      <4>3. CASE z # x /\ same_vars[z] # x
        BY <3>6, <4>1, <4>3 DEF SameVarsResolved
      <4> QED BY <4>2, <4>3
    <3>8. Gone'
      BY <2>2, <2>3, <3>6 DEF Gone, x
    <3>9. SameVarsResolved'
      BY <2>1, <3>5, <3>6, <3>7 DEF SameVarsResolved
    <3> QED BY <3>8, <3>9
  <2> QED BY <2>4, <2>5
<1> QED BY <1>2, <1>4, <1>5, StepKinds

(* Until remove_unneeded erases them, every variable of the list that is   *)
(* no reference bit has its definition in the list.                        *)
LiveDefined ==
  pc \notin {"erase", "convert"} =>
    \A n \in live : \A v \in EqVars(eqs[n]) \ problem.base :
      \E m \in live : eqs[m].left = VarPoly(v)

(* Every step keeps a definition for each variable in use.                 *)
LEMMA NextLiveDefined ==
  ASSUME Inv, Ordered, Next, LiveDefined
  PROVE  LiveDefined'
<1>1. live \subseteq Nodes /\ ListOK /\ pc \in Loops /\ problem' = problem
  BY StepKinds DEF Inv, ListInv, ListOK, FlowInv
<1> SUFFICES ASSUME pc' \notin {"erase", "convert"}, NEW d \in live',
                    NEW v \in EqVars(eqs'[d]) \ problem.base
             PROVE  \E m \in live' : eqs'[m].left = VarPoly(v)
  BY <1>1 DEF LiveDefined
<1>2. pc \notin {"erase", "convert"}
  BY DEF Next, Skip, TrivialStep, TrivialEnd, BoolStep, BoolEnd, MonoStep, MonoEnd,
     BetweenStart, LinearStep, LinearEnd, RemoveStart, DependStep, DependEnd,
     EraseStep, EraseEnd, AtEnd
<1>3. CASE StillEqs
  <2>1. PICK m \in live : eqs[m].left = VarPoly(v)
    BY <1>2, <1>3 DEF StillEqs, LiveDefined
  <2>2. IsMono(eqs[m])
    BY <1>1, <2>1, MonoLeft DEF ListOK
  <2>3. ~ EraseStep /\ (BoolStep => ~ IsMono(eqs[it]))
    BY <1>2 DEF EraseStep, BoolStep, DueBool
  <2>4. m \in live'
    BY <1>3, <2>2, <2>3 DEF StillEqs
  <2> QED BY <1>3, <2>1, <2>4 DEF StillEqs
<1>4. ASSUME NEW n, NEW r, NEW delete_eq \in BOOLEAN, NEW flag, Rewrites(n, r, delete_eq, flag)
      PROVE  \E m \in live' : eqs'[m].left = VarPoly(v)
  <2>1. n \in live /\ d \in live /\ v \in EqVars(eqs[d]) \cup EqVars(eqs[n])
    BY <1>4, RewrittenVars DEF Rewrites
  <2>2. PICK m \in live : eqs[m].left = VarPoly(v)
    BY <1>2, <2>1 DEF LiveDefined
  <2>3. CASE eqs'[m].left = eqs[m].left /\ m \in live'
    BY <2>2, <2>3
  <2>4. CASE ~ (eqs'[m].left = eqs[m].left /\ m \in live')
    <3>1. m \in Nodes /\ n \in Nodes
      BY <1>1, <2>1
    <3>2. eqs[n].left = VarPoly(v)
      BY <1>4, <2>2, <2>4, <3>1 DEF Rewrites, PutIn
    <3>3. LeftVar(eqs[n]) = v
      BY <1>1, <3>1, <3>2, MonoLeft DEF ListOK
    <3>4. ~ delete_eq
      <4> SUFFICES ASSUME delete_eq PROVE FALSE
        OBVIOUS
      <4>1. d \in Targets(n, r)
        BY <1>4, <2>1 DEF Rewrites, PutIn, Targets, Contains
      <4> QED BY <1>4, <3>3, <4>1 DEF Rewrites, PutIn
    <3> QED BY <1>4, <2>1, <3>2, <3>4 DEF Rewrites, PutIn
  <2> QED BY <2>3, <2>4
<1> QED BY <1>3, <1>4, StepKinds
(* A round of the propagation that changes nothing has seen every equation.*)
TrivialDone(n) == trivial_equation(eqs[n]) => eqs[n].replaced
RoundInv ==
  pc \in {"trivial", "bool", "mono"} /\ ~ changed =>
    \A n \in live :
      /\ pc = "trivial" => (n < it => TrivialDone(n))
      /\ pc = "bool" => TrivialDone(n) /\ (n < it => ~ DueBool(n))
      /\ pc = "mono" => TrivialDone(n) /\ ~ DueBool(n) /\ (n < it => ~ DueMono(n))

(* Every step keeps what a round of the propagation has done.              *)
LEMMA NextRound ==
  ASSUME Inv, Next, RoundInv, FixedPoint
  PROVE  RoundInv' /\ FixedPoint'
<1>1. /\ Nodes = 1 .. N /\ N \in Nat /\ live \subseteq Nodes /\ it \in Nat
      /\ pc \in Loops /\ range \in Nat \ {0} /\ problem' = problem
  <2>1. problem' = problem
    BY DEF Next, Skip, TrivialStep, TrivialEnd, BoolStep, BoolEnd, MonoStep, MonoEnd,
       BetweenStart, LinearStep, LinearEnd, RemoveStart, DependStep, DependEnd,
       EraseStep, EraseEnd
  <2> QED BY <2>1, ProblemFacts DEF Inv, ListInv, ListOK, FlowInv
<1>2. \A n \in live : n \in Nat /\ n >= 1 /\ n < N + 1
  BY <1>1
<1> USE DEF RoundInv, FixedPoint, TrivialDone, DueBool, DueMono, IsMono,
            trivial_equation, AtEnd
<1>3. CASE Skip
  <2>1. UNCHANGED <<eqs, live, changed, pc, problem, range, refuted>> /\ it' = it + 1
    BY <1>3 DEF Skip
  <2>2. \A n \in live : n < it' => n < it \/ n = it
    BY <1>1, <1>2, <2>1
  <2>3. /\ pc = "trivial" => ~ DueTrivial(it)
        /\ pc = "bool" => ~ DueBool(it)
        /\ pc = "mono" => ~ DueMono(it)
    BY <1>3 DEF Skip
  <2> QED BY <2>1, <2>2, <2>3 DEF DueTrivial
<1>4. CASE TrivialStep
  <2>1. changed' = TRUE /\ pc' = pc /\ pc = "trivial"
    BY <1>4, TrivialStepInv DEF TrivialStep
  <2> QED BY <2>1
<1>5. CASE TrivialEnd
  BY <1>1, <1>2, <1>5 DEF TrivialEnd
<1>6. CASE BoolStep
  <2>1. CASE eqs[it].left # eqs[it].right
    <3>1. pc' \in {"solved", "between"} /\ refuted' = TRUE
      BY <1>6, <2>1 DEF BoolStep, Propagated
    <3> QED BY <3>1
  <2>2. CASE eqs[it].left = eqs[it].right
    <3>1. /\ live' = live \ {it} /\ it' = it + 1 /\ pc' = "bool" /\ pc = "bool"
          /\ UNCHANGED <<eqs, changed>>
      BY <1>6, <2>2 DEF BoolStep, Erase
    <3>2. \A n \in live' : n < it' => n < it
      BY <1>1, <1>2, <3>1
    <3> QED BY <3>1, <3>2
  <2> QED BY <2>1, <2>2
<1>7. CASE BoolEnd
  BY <1>1, <1>2, <1>7 DEF BoolEnd
<1>8. CASE MonoStep
  <2>1. changed' = TRUE /\ pc' = pc /\ pc = "mono"
    BY <1>8, MonoStepInv DEF MonoStep
  <2> QED BY <2>1
<1>9. CASE MonoEnd
  <2>1. /\ pc = "mono" /\ it = N + 1 /\ UNCHANGED <<eqs, live>>
        /\ IF changed THEN pc' = "trivial" /\ it' = 1 ELSE pc' \in {"solved", "between"}
    BY <1>9 DEF MonoEnd, Propagated
  <2> QED BY <1>1, <1>2, <2>1
<1>10. CASE LinearStep
  <2>1. pc = "linear" /\ pc' \in {"linear", "assert"}
    BY <1>10, LinearStepInv
  <2> QED BY <2>1
<1>11. CASE LinearEnd
  <2>1. pc' = "between" /\ range' = range + 1
    BY <1>11 DEF LinearEnd
  <2>2. range' # 1
    BY <1>1, <2>1
  <2> QED BY <2>1, <2>2
<1>12. CASE BetweenStart \/ RemoveStart \/ DependStep \/ DependEnd \/ EraseStep \/ EraseEnd
  <2>1. pc' \in {"linear", "depend", "erase", "convert"}
    BY <1>12 DEF BetweenStart, RemoveStart, DependStep, DependEnd, EraseStep, EraseEnd
  <2> QED BY <2>1
<1> QED
  BY <1>3, <1>4, <1>5, <1>6, <1>7, <1>8, <1>9, <1>10, <1>11, <1>12 DEF Next

(* The closure of remove_unneeded: the right sides of the outputs, and of  *)
(* one definition of every variable in `checked', hold only variables that *)
(* are checked or still to be looked at; in the end only reference bits    *)
(* are left to be looked at.                                               *)
NeededInv ==
  pc \in {"depend", "erase", "convert"} =>
    /\ \A n \in live : eqs[n].type.kind = "output" => AllVars(eqs[n].right) \subseteq Needed
    /\ \A x \in checked : \E n \in live :
         eqs[n].left = VarPoly(x) /\ AllVars(eqs[n].right) \subseteq Needed
    /\ pc = "depend" => /\ depend \subseteq LiveVars
                        /\ ~ changed => \A n \in live : n < it => ~ DueDepend(n)
    /\ pc # "depend" => depend \subseteq problem.base /\ \A n \in live : ~ DueDepend(n)

(* Every step keeps what the closure of remove_unneeded has collected.     *)
LEMMA NextNeeded ==
  ASSUME Inv, Next, LiveDefined, NeededInv
  PROVE  NeededInv'
<1>1. /\ Nodes = 1 .. N /\ N \in Nat /\ live \subseteq Nodes /\ it \in Nat
      /\ pc \in Loops /\ problem' = problem /\ \A n \in live : eqs[n] \in Equation
  <2>1. problem' = problem
    BY DEF Next, Skip, TrivialStep, TrivialEnd, BoolStep, BoolEnd, MonoStep, MonoEnd,
       BetweenStart, LinearStep, LinearEnd, RemoveStart, DependStep, DependEnd,
       EraseStep, EraseEnd
  <2> QED BY <2>1, ProblemFacts DEF Inv, ListInv, ListOK, FlowInv
<1>2. \A n \in live : n \in Nat /\ n >= 1 /\ n < N + 1
  BY <1>1
<1>3. CASE pc' \notin {"depend", "erase", "convert"}
  BY <1>3 DEF NeededInv
<1>4. CASE RemoveStart
  <2>1. /\ UNCHANGED <<eqs, live>> /\ pc' = "depend" /\ it' = 1 /\ checked' = {}
        /\ depend' = UNION {AllVars(eqs[n].right) :
                              n \in {m \in live : eqs[m].type.kind = "output"}}
    BY <1>4 DEF RemoveStart
  <2>2. depend' \subseteq LiveVars'
    BY <2>1 DEF LiveVars, LiveEqs, EqVars
  <2> QED BY <1>2, <2>1, <2>2 DEF NeededInv, Needed
<1>5. CASE Skip
  <2>1. /\ UNCHANGED <<eqs, live, changed, pc, problem, depend, checked>> /\ it' = it + 1
        /\ pc = "depend" => ~ DueDepend(it)
    BY <1>5 DEF Skip
  <2>2. \A n \in live : n < it' => n < it \/ n = it
    BY <1>1, <1>2, <2>1
  <2>3. LiveVars' = LiveVars /\ Needed' = Needed /\ \A n : DueDepend(n)' = DueDepend(n)
    BY <2>1 DEF LiveVars, LiveEqs, Needed, DueDepend, IsMono, LeftVar
  <2> QED BY <2>1, <2>2, <2>3 DEF NeededInv
<1>6. CASE DependStep
  <2> DEFINE e == eqs[it]
             x == LeftVar(eqs[it])
  <2>1. /\ UNCHANGED <<eqs, live, problem>> /\ pc = "depend" /\ pc' = "depend" /\ changed' = TRUE
        /\ it \in live /\ IsMono(e) /\ x \in depend
        /\ depend' = (depend \cup (AllVars(e.right) \ checked)) \ {x}
        /\ checked' = checked \cup {x}
    BY <1>6 DEF DependStep, DueDepend
  <2>2. e.left = VarPoly(x)
    BY <1>1, <2>1, MonoLeft
  <2>3. Needed \cup AllVars(e.right) = Needed'
    BY <2>1 DEF Needed
  <2>4. LiveVars' = LiveVars /\ AllVars(e.right) \subseteq LiveVars
    BY <2>1 DEF LiveVars, LiveEqs, EqVars
  <2>5. /\ \A n \in live : eqs[n].type.kind = "output" => AllVars(eqs[n].right) \subseteq Needed
        /\ \A y \in checked : \E n \in live :
             eqs[n].left = VarPoly(y) /\ AllVars(eqs[n].right) \subseteq Needed
        /\ depend \subseteq LiveVars
    BY <2>1 DEF NeededInv
  <2>6. depend' \subseteq LiveVars
    BY <2>1, <2>4, <2>5
  <2>7. \A y \in checked' : \E n \in live :
          eqs[n].left = VarPoly(y) /\ AllVars(eqs[n].right) \subseteq Needed'
    BY <2>1, <2>2, <2>3, <2>5
  <2>8. \A n \in live : eqs[n].type.kind = "output" => AllVars(eqs[n].right) \subseteq Needed'
    BY <2>3, <2>5
  <2> QED BY <2>1, <2>4, <2>6, <2>7, <2>8 DEF NeededInv
<1>7. CASE DependEnd
  <2>1. /\ UNCHANGED <<eqs, live, problem, depend, checked>> /\ pc = "depend" /\ it = N + 1
        /\ it' = 1 /\ pc' = (IF changed THEN "depend" ELSE "erase")
    BY <1>7 DEF DependEnd, AtEnd
  <2>2. LiveVars' = LiveVars /\ Needed' = Needed /\ \A n : DueDepend(n)' = DueDepend(n)
    BY <2>1 DEF LiveVars, LiveEqs, Needed, DueDepend, IsMono, LeftVar
  <2>3. ~ changed => \A n \in live : ~ DueDepend(n)
    BY <1>2, <2>1 DEF NeededInv
  <2>4. ASSUME ~ changed, NEW v \in depend PROVE v \in problem.base
    <3> SUFFICES ASSUME v \notin problem.base PROVE FALSE
      OBVIOUS
    <3>1. PICK n \in live : v \in EqVars(eqs[n])
      BY <2>1 DEF NeededInv, LiveVars, LiveEqs
    <3>2. PICK m \in live : eqs[m].left = VarPoly(v)
      BY <2>1, <3>1 DEF LiveDefined
    <3>3. DueDepend(m)
      BY <1>1, <3>2, MonoLeft DEF DueDepend
    <3> QED BY <2>3, <2>4, <3>3
  <2> QED BY <1>2, <2>1, <2>2, <2>3, <2>4 DEF NeededInv
<1>8. CASE EraseStep
  <2>1. /\ UNCHANGED <<eqs, problem, depend, checked>> /\ pc = "erase" /\ pc' = "erase"
        /\ live' = live \ {it} /\ LeftVar(eqs[it]) \notin checked /\ it \in live
    BY <1>8 DEF EraseStep, DueErase, Erase
  <2>2. /\ \A n \in live : eqs[n].type.kind = "output" => AllVars(eqs[n].right) \subseteq Needed
        /\ \A x \in checked : \E n \in live :
             eqs[n].left = VarPoly(x) /\ AllVars(eqs[n].right) \subseteq Needed
        /\ depend \subseteq problem.base /\ \A n \in live : ~ DueDepend(n)
    BY <2>1 DEF NeededInv
  <2>3. Needed' = Needed /\ \A n \in live' : DueDepend(n)' = DueDepend(n)
    BY <2>1 DEF Needed, DueDepend, IsMono, LeftVar
  <2>4. ASSUME NEW x \in checked
        PROVE  \E n \in live' : eqs[n].left = VarPoly(x) /\ AllVars(eqs[n].right) \subseteq Needed
    <3>1. PICK n \in live : eqs[n].left = VarPoly(x) /\ AllVars(eqs[n].right) \subseteq Needed
      BY <2>2
    <3>2. LeftVar(eqs[n]) = x
      BY <1>1, <3>1, MonoLeft
    <3> QED BY <2>1, <3>1, <3>2
  <2> QED BY <2>1, <2>2, <2>3, <2>4 DEF NeededInv
<1>9. CASE EraseEnd
  <2>1. UNCHANGED <<eqs, live, problem, depend, checked>> /\ pc = "erase" /\ pc' = "convert"
    BY <1>9 DEF EraseEnd, AtEnd
  <2>2. Needed' = Needed /\ \A n : DueDepend(n)' = DueDepend(n)
    BY <2>1 DEF Needed, DueDepend, IsMono, LeftVar
  <2> QED BY <2>1, <2>2 DEF NeededInv
<1>10. CASE TrivialStep \/ MonoStep \/ LinearStep
  <2>1. pc' \notin {"depend", "erase", "convert"}
    BY <1>10, TrivialStepInv, MonoStepInv, LinearStepInv DEF TrivialStep, MonoStep, LinearStep
  <2> QED BY <1>3, <2>1
<1>11. CASE TrivialEnd \/ BoolStep \/ BoolEnd \/ MonoEnd \/ BetweenStart \/ LinearEnd
  <2>1. pc' \notin {"depend", "erase", "convert"}
    BY <1>11 DEF TrivialEnd, BoolStep, BoolEnd, MonoEnd, BetweenStart, LinearEnd, Propagated
  <2> QED BY <1>3, <2>1
<1> QED
  BY <1>4, <1>5, <1>6, <1>7, <1>8, <1>9, <1>10, <1>11 DEF Next

(* The second invariant. *)
VarsInv == /\ Ordered /\ PropagatedOnce /\ Gone /\ SameVarsResolved
           /\ LiveDefined /\ RoundInv /\ FixedPoint /\ NeededInv

(* The second invariant holds before the first step.                       *)
LEMMA InitVarsInv == Init => VarsInv
<1> SUFFICES ASSUME Init PROVE VarsInv
  OBVIOUS
<1> USE DEF Init
<1>1. /\ Nodes = 1 .. N /\ N \in Nat /\ problem.eqs \in [Nodes -> Equation]
      /\ problem.propagate \in BOOLEAN
  BY ProblemFacts
<1>2. Ordered
  BY DefinitionFacts DEF Ordered
<1>3. PropagatedOnce /\ Gone /\ SameVarsResolved
  <2>1. \A n \in Nodes : eqs[n].replaced = FALSE
    BY ProblemAssumption DEF Nodes
  <2> QED BY <2>1 DEF PropagatedOnce, Gone, SameVarsResolved
<1>4. LiveDefined
  BY DefinitionFacts DEF LiveDefined
<1>5. RoundInv
  <2>1. \A n \in live : ~ (n < it) /\ pc \notin {"bool", "mono"}
    BY <1>1
  <2> QED BY <2>1 DEF RoundInv
<1>6. FixedPoint /\ NeededInv
  BY DEF FixedPoint, NeededInv
<1> QED BY <1>2, <1>3, <1>4, <1>5, <1>6 DEF VarsInv

(* The second invariant: which variables are where in the list.            *)
THEOREM VarsInvariance == Spec => []VarsInv
<1>1. Inv /\ VarsInv /\ [Next]_vars => VarsInv'
  <2> SUFFICES ASSUME Inv, VarsInv, [Next]_vars PROVE VarsInv'
    OBVIOUS
  <2>1. CASE Next
    BY <2>1, StepKinds, NextOnce, NextResolved, NextLiveDefined, NextRound, NextNeeded
       DEF VarsInv
  <2>2. CASE UNCHANGED vars
    <3>1. Nodes' = Nodes /\ N' = N
      BY <2>2 DEF vars, Nodes, N
    <3>2. Ordered' /\ PropagatedOnce' /\ Gone' /\ SameVarsResolved' /\ LiveDefined'
      BY <2>2, <3>1 DEF vars, VarsInv, Ordered, PropagatedOnce, Gone, SameVarsResolved,
         LiveDefined, IsMono, LeftVar
    <3>3. RoundInv' /\ FixedPoint'
      BY <2>2, <3>1 DEF vars, VarsInv, RoundInv, FixedPoint, TrivialDone, DueBool, DueMono,
         IsMono, trivial_equation
    <3>4. NeededInv'
      BY <2>2, <3>1 DEF vars, VarsInv, NeededInv, Needed, LiveVars, LiveEqs, DueDepend,
         IsMono, LeftVar
    <3> QED BY <3>2, <3>3, <3>4 DEF VarsInv
  <2> QED BY <2>1, <2>2
<1> QED BY <1>1, InitVarsInv, Invariance, PTL DEF Spec

(***************************************************************************)
(* The loop of Polynomial::replace (polynomial.cpp:290) always ends: no    *)
(* equation of the list has its own variable on the right side.            *)
(***************************************************************************)
THEOREM NeverSelfReferring == Spec => []NoSelfReference
<1>1. Inv /\ VarsInv => NoSelfReference
  <2> SUFFICES ASSUME Inv, VarsInv, NEW n \in live, IsMono(eqs[n])
               PROVE  LeftVar(eqs[n]) \notin AllVars(eqs[n].right)
    BY DEF NoSelfReference
  <2>1. n \in Nodes /\ ListOK /\ problem \in Problems
    BY DEF Inv, ListInv, ListOK
  <2> QED BY <2>1, OrderedNoSelf DEF VarsInv
<1> QED BY <1>1, Invariance, VarsInvariance, PTL

(* A known value or renaming that eliminate_trivial_equations              *)
(* (equationholder.cpp:200) has put everywhere stays everywhere.           *)
THEOREM AlwaysPropagatedOnce == Spec => []PropagatedOnce
<1>1. VarsInv => PropagatedOnce
  BY DEF VarsInv
<1> QED BY <1>1, VarsInvariance, PTL

(* The loop of eliminate_trivial_and_mono_equations (equationholder.cpp:52)*)
(* ends only when no equation is left that either pass would use.          *)
THEOREM FixedPointReached == Spec => []FixedPoint
<1>1. VarsInv => FixedPoint
  BY DEF VarsInv
<1> QED BY <1>1, VarsInvariance, PTL

(* One look-up in same_vars is enough (grain-of-salt.cpp:333), and the     *)
(* reference bits are never renamed.                                       *)
THEOREM SameVarsAlwaysResolved == Spec => []SameVarsResolved
<1>1. VarsInv => SameVarsResolved
  BY DEF VarsInv
<1> QED BY <1>1, VarsInvariance, PTL
---------------------------------------------------------------------------
(***************************************************************************)
(* What the reference bits determine, and that the store keeps the fills   *)
(* of them that fit.                                                       *)
(***************************************************************************)

(* So does the truth of an equation. *)
LEMMA SatisfiedAgrees ==
  ASSUME NEW e, NEW S, NEW T, \A v \in EqVars(e) : v \in S <=> v \in T
  PROVE  Satisfied(e, S) <=> Satisfied(e, T)
<1>1. Eval(e.left, S) = Eval(e.left, T) /\ Eval(e.right, S) = Eval(e.right, T)
  BY EvalAgrees DEF EqVars
<1> QED BY <1>1 DEF Satisfied

(* A definition says what value its variable has. *)
LEMMA SatisfiedMono ==
  ASSUME NEW e, NEW v, e.left = VarPoly(v), NEW T
  PROVE  Satisfied(e, T) <=> (v \in T <=> Eval(e.right, T))
<1>1. Eval(VarPoly(v), T) <=> v \in T
  BY EvalSimple
<1>2. Eval(VarPoly(v), T) \in BOOLEAN /\ Eval(e.right, T) \in BOOLEAN
  BY DEF Eval, Odd
<1> QED BY <1>1, <1>2 DEF Satisfied

(* In every set of variables one stands first. *)
LEMMA FirstVariable ==
  ASSUME problem \in Problems, NEW X, X \subseteq problem.used, X # {}
  PROVE  \E v \in X : \A w \in X : Depth(problem)[v] <= Depth(problem)[w]
<1> DEFINE depth == Depth(problem)
           Below(v) == 0 .. depth[v]
<1>1. \A v \in X : depth[v] \in Nat
  BY DefinitionFacts
<1>2. PICK u \in X : TRUE
  OBVIOUS
<1> DEFINE F == {Below(v) : v \in {w \in X : depth[w] <= depth[u]}}
<1> HIDE DEF depth
<1>3. F \subseteq SUBSET Below(u) /\ F # {}
  BY <1>1, <1>2
<1>4. IsFiniteSet(Below(u))
  BY <1>1, <1>2, FS_Interval
<1>5. PICK U \in F : \A V \in F : ~ (V \subseteq U /\ V # U)
  <2> HIDE DEF F, Below
  <2> QED BY <1>3, <1>4, NoMinimalSet
<1>6. PICK v \in X : depth[v] <= depth[u] /\ U = Below(v)
  BY <1>5
<1>7. ASSUME NEW w \in X PROVE depth[v] <= depth[w]
  <2> SUFFICES ASSUME depth[w] < depth[v] PROVE FALSE
    BY <1>1
  <2>1. Below(w) \in F
    BY <1>1, <1>2, <1>6
  <2>2. Below(w) \subseteq Below(v) /\ depth[v] \in Below(v) /\ depth[v] \notin Below(w)
    BY <1>1
  <2> QED BY <1>5, <1>6, <2>1, <2>2
<1> QED BY <1>7 DEF depth

(* Two assignments that satisfy definitions of the variables of a set that *)
(* hold no others, and agree on the rest of the set, agree on all of it.   *)
LEMMA Determines ==
  ASSUME problem \in Problems, ListOK, Ordered, NEW S, NEW T,
         NEW D, D \subseteq problem.used,
         \A x \in D :
           \/ x \in S <=> x \in T
           \/ \E n \in Nodes : /\ eqs[n].left = VarPoly(x) /\ AllVars(eqs[n].right) \subseteq D
                               /\ Satisfied(eqs[n], S) /\ Satisfied(eqs[n], T)
  PROVE  \A x \in D : x \in S <=> x \in T
<1> DEFINE X == {x \in D : ~ (x \in S <=> x \in T)}
<1> SUFFICES ASSUME X # {} PROVE FALSE
  OBVIOUS
<1>1. PICK x \in X : \A w \in X : Depth(problem)[x] <= Depth(problem)[w]
  BY FirstVariable
<1>2. PICK n \in Nodes : /\ eqs[n].left = VarPoly(x) /\ AllVars(eqs[n].right) \subseteq D
                         /\ Satisfied(eqs[n], S) /\ Satisfied(eqs[n], T)
  BY <1>1
<1>3. IsMono(eqs[n]) /\ LeftVar(eqs[n]) = x
  BY <1>2, MonoLeft DEF ListOK
<1>4. ASSUME NEW w \in AllVars(eqs[n].right) PROVE w \in S <=> w \in T
  <2>1. Depth(problem)[w] < Depth(problem)[x]
    BY <1>3 DEF Ordered
  <2>2. Depth(problem)[w] \in Nat /\ Depth(problem)[x] \in Nat /\ w \in D
    BY <1>2, DefinitionFacts
  <2> QED BY <1>1, <2>1, <2>2
<1>5. Eval(eqs[n].right, S) = Eval(eqs[n].right, T)
  BY <1>4, EvalAgrees
<1> QED BY <1>1, <1>2, <1>5, SatisfiedMono

(***************************************************************************)
(* remove_unneeded (equationholder.cpp:260-331) keeps what the outputs     *)
(* need: the reference bits determine every variable that they hold, and   *)
(* every one that its definition holds, and so on.                         *)
(***************************************************************************)
THEOREM NeededAlwaysKept == Spec => []NeededKept
<1>1. ASSUME Inv, VarsInv, pc = "convert",
             NEW U \in Solutions(LiveEqs), NEW V \in Solutions(LiveEqs),
             \A v \in problem.base : v \in U <=> v \in V
      PROVE  \A v \in Needed : v \in U <=> v \in V
  <2>1. /\ problem \in Problems /\ ListOK /\ Ordered /\ live \subseteq Nodes
        /\ \A n \in live : Satisfied(eqs[n], U) /\ Satisfied(eqs[n], V)
    BY <1>1 DEF Inv, ListInv, ListOK, VarsInv, Solutions, LiveEqs
  <2>2. /\ depend \subseteq problem.base
        /\ \A x \in checked : \E n \in live :
             eqs[n].left = VarPoly(x) /\ AllVars(eqs[n].right) \subseteq Needed
    BY <1>1 DEF VarsInv, NeededInv
  <2>3. Needed \subseteq problem.used
    <3>1. problem.base \subseteq problem.used
      BY <2>1, DefinitionFacts
    <3>2. ASSUME NEW x \in checked PROVE x \in problem.used
      <4>1. PICK n \in live : eqs[n].left = VarPoly(x)
        BY <2>2
      <4>2. x \in EqVars(eqs[n])
        BY <4>1 DEF VarPoly, AllVars, EqVars
      <4> QED BY <2>1, <4>2 DEF Ordered
    <3> QED BY <2>2, <3>1, <3>2 DEF Needed
  <2>4. \A x \in Needed :
          \/ x \in U <=> x \in V
          \/ \E n \in Nodes : /\ eqs[n].left = VarPoly(x)
                              /\ AllVars(eqs[n].right) \subseteq Needed
                              /\ Satisfied(eqs[n], U) /\ Satisfied(eqs[n], V)
    BY <1>1, <2>1, <2>2 DEF Needed
  <2> DEFINE D == Needed
  <2>5. /\ D \subseteq problem.used
        /\ \A x \in D :
             \/ x \in U <=> x \in V
             \/ \E n \in Nodes : /\ eqs[n].left = VarPoly(x)
                                 /\ AllVars(eqs[n].right) \subseteq D
                                 /\ Satisfied(eqs[n], U) /\ Satisfied(eqs[n], V)
    BY <2>3, <2>4
  <2> HIDE DEF D
  <2>6. \A x \in D : x \in U <=> x \in V
    BY <2>1, <2>5, Determines
  <2> QED BY <2>6 DEF D
<1>2. Inv /\ VarsInv => NeededKept
  <2> SUFFICES ASSUME Inv, VarsInv, pc = "convert",
                      NEW U \in Solutions(LiveEqs), NEW V \in Solutions(LiveEqs),
                      (U \cap (Needed \cup problem.base)) \cap problem.base
                        = (V \cap (Needed \cup problem.base)) \cap problem.base
               PROVE  U \cap (Needed \cup problem.base) = V \cap (Needed \cup problem.base)
    BY DEF NeededKept
  <2>1. \A v \in problem.base : v \in U <=> v \in V
    OBVIOUS
  <2>2. \A v \in Needed : v \in U <=> v \in V
    BY <1>1, <2>1
  <2> QED BY <2>1, <2>2
<1> QED BY <1>2, Invariance, VarsInvariance, PTL
---------------------------------------------------------------------------
(* The definitions of a list that are not known bits and not outputs keep  *)
(* their left sides if no defined bit is known, and each bit has one.      *)
Definition(n) == eqs[n].type.kind \notin {"help", "output"}
LeftsKept ==
  \A n \in Nodes :
    /\ eqs[n].type = problem.eqs[n].type
    /\ eqs[n].left = problem.eqs[n].left \/ IsEmpty(eqs[n].left)
    /\ Definition(n) /\ DefinedUnknown(problem) => eqs[n].left = problem.eqs[n].left
    /\ eqs[n].type.kind = "help" => IsEmpty(eqs[n].right)

(* Every step keeps the left side of each definition.                      *)
LEMMA NextLeftsKept ==
  ASSUME Inv, Ordered, LeftsKept, Next
  PROVE  LeftsKept'
<1>1. /\ problem \in Problems /\ Nodes' = Nodes /\ problem' = problem
      /\ live \subseteq Nodes /\ Nodes \subseteq Nat
  BY StepKinds, ProblemFacts DEF Inv, ListInv, ListOK, Nodes
<1>2. CASE StillEqs
  BY <1>1, <1>2 DEF StillEqs, LeftsKept, Definition
<1>3. ASSUME NEW n, NEW r, NEW delete_eq, NEW flag, Rewrites(n, r, delete_eq, flag),
             \A d \in Targets(n, r) :
               eqs[d].left = eqs[n].left => TrivialStep /\ n = it /\ r = AnyRange
      PROVE  LeftsKept'
  <2> SUFFICES ASSUME NEW d \in Nodes
               PROVE  /\ eqs'[d].type = problem.eqs[d].type
                      /\ eqs'[d].left = problem.eqs[d].left \/ IsEmpty(eqs'[d].left)
                      /\ Definition(d)' /\ DefinedUnknown(problem) =>
                           eqs'[d].left = problem.eqs[d].left
                      /\ eqs'[d].type.kind = "help" => IsEmpty(eqs'[d].right)
    BY <1>1 DEF LeftsKept
  <2>1. /\ eqs'[d].type = eqs[d].type
        /\ eqs'[d].left = eqs[d].left
             \/ (IsEmpty(eqs'[d].left) /\ d \in Targets(n, r) /\ eqs[d].left = eqs[n].left)
    BY <1>3 DEF Rewrites, PutIn
  <2>2. IsEmpty(eqs[d].right) => eqs'[d].right = eqs[d].right
    <3>1. IsEmpty(eqs[d].right) => AllVars(eqs[d].right) = {}
      BY DEF IsEmpty, Monos, AllVars
    <3> QED BY <1>3, <3>1 DEF Rewrites, PutIn
  <2>3. ASSUME Definition(d)', DefinedUnknown(problem)
        PROVE  eqs'[d].left = eqs[d].left
    <3> SUFFICES ASSUME d \in Targets(n, r), eqs[d].left = eqs[n].left PROVE FALSE
      BY <2>1
    <3>1. TrivialStep /\ n = it /\ r = AnyRange
      BY <1>3
    <3>2. it < d /\ it \in live /\ IsMono(eqs[it])
      BY <3>1, TrivialHits DEF TrivialStep, DueTrivial, trivial_equation
    <3>3. problem.eqs[it].left = problem.eqs[d].left
      <4>1. it \in Nodes /\ ~ IsEmpty(eqs[it].left) /\ ~ IsEmpty(eqs[d].left)
        BY <1>1, <3>1, <3>2 DEF IsMono
      <4>2. eqs[it].left = problem.eqs[it].left /\ eqs[d].left = problem.eqs[d].left
        BY <4>1 DEF LeftsKept
      <4> QED BY <3>1, <4>2
    <3>4. problem.eqs[d].type.kind \in {"help", "output"}
      BY <1>1, <2>3, <3>2, <3>3 DEF DefinedUnknown, Nodes
    <3> QED BY <2>1, <2>3, <3>4 DEF Definition, LeftsKept
  <2> QED BY <2>1, <2>2, <2>3 DEF LeftsKept, Definition
<1>4. CASE TrivialStep /\ Rewrites(it, AnyRange, FALSE, TRUE)
  BY <1>3, <1>4
<1>5. CASE MonoStep /\ Rewrites(it, AnyRange, TRUE, FALSE)
  BY <1>3, <1>5, MonoHits
<1>6. ASSUME LinearStep, NEW n \in StateNodes(problem.ranges[range]),
             Rewrites(n, problem.ranges[range], FALSE, FALSE)
      PROVE  LeftsKept'
  <2>1. pc = "linear"
    BY <1>6 DEF LinearStep
  <2>2. \A d \in Targets(n, problem.ranges[range]) : eqs[d].left # eqs[n].left
    <3> SUFFICES ASSUME NEW d \in Targets(n, problem.ranges[range])
                 PROVE  eqs[d].left # eqs[n].left
      OBVIOUS
    <3>1. IsMono(eqs[n])
      BY <1>6 DEF Rewrites, PutIn
    <3> QED BY <2>1, <3>1, LinearHits
  <2> QED BY <1>3, <1>6, <2>2
<1> QED BY <1>2, <1>4, <1>5, <1>6, StepKinds

(* No run fails, and one_test never gives up: lbool::operator&= never      *)
(* changes l_Undef (SolverTypes.h:143).                                    *)
EndInv == /\ DefinedUnknown(problem) => pc # "assert"
          /\ ret = "Undef" /\ pc # "solved"

(* Every step keeps the assertion of equation.cpp:40 out of reach.         *)
LEMMA NextEnd ==
  ASSUME Inv, LeftsKept, EndInv, Next
  PROVE  EndInv'
<1>1. CASE LinearStep
  <2>1. pc = "linear" /\ UNCHANGED <<problem, ret>> /\ live \subseteq Nodes
        /\ problem \in Problems
    BY <1>1 DEF LinearStep, Inv, ListInv, ListOK
  <2>2. ASSUME DefinedUnknown(problem), NEW n \in StateNodes(problem.ranges[range])
        PROVE  IsMono(eqs[n])
    <3>1. n \in Nodes /\ Definition(n)
      BY <2>1 DEF StateNodes, IsState, Definition
    <3>2. eqs[n].left = problem.eqs[n].left
      BY <2>2, <3>1 DEF LeftsKept
    <3> QED BY <2>1, <3>1, <3>2, DefinitionFacts DEF IsMono
  <2>3. pc' \in {"linear", "assert"}
    BY <1>1, <2>1, LinearStepInv
  <2>4. ASSUME DefinedUnknown(problem), pc' = "assert" PROVE FALSE
    <3>1. PICK n \in StateNodes(problem.ranges[range]) :
            eliminate(n, problem.ranges[range], FALSE, FALSE)
      BY <1>1, <2>1, <2>4 DEF LinearStep
    <3>2. IsMono(eqs[n])
      BY <2>2, <2>4
    <3> QED BY <2>1, <2>4, <3>1, <3>2 DEF eliminate
  <2> QED BY <2>1, <2>3, <2>4 DEF EndInv
<1>2. CASE BoolStep \/ MonoEnd
  <2>1. problem' = problem /\ pc \in {"bool", "mono"}
    BY <1>2 DEF BoolStep, MonoEnd, AtEnd
  <2>2. ret' = "Undef"
    BY <1>2 DEF BoolStep, MonoEnd, Propagated, AndAssign, EndInv
  <2>3. pc' \in {"bool", "trivial", "between"}
    BY <1>2, <2>2 DEF BoolStep, MonoEnd, Propagated
  <2> QED BY <2>1, <2>2, <2>3 DEF EndInv
<1>3. CASE TrivialStep \/ MonoStep
  <2>1. UNCHANGED <<problem, ret>> /\ pc' = pc
    BY <1>3, TrivialStepInv, MonoStepInv DEF TrivialStep, MonoStep
  <2> QED BY <2>1 DEF EndInv
<1>4. CASE Skip \/ TrivialEnd \/ BoolEnd \/ BetweenStart \/ LinearEnd \/ RemoveStart
           \/ DependStep \/ DependEnd \/ EraseStep \/ EraseEnd
  <2>1. /\ UNCHANGED <<problem, ret>>
        /\ pc' \in {pc, "bool", "mono", "linear", "between", "depend", "erase", "convert"}
    BY <1>4 DEF Skip, TrivialEnd, BoolEnd, BetweenStart, LinearEnd, RemoveStart,
       DependStep, DependEnd, EraseStep, EraseEnd
  <2> QED BY <2>1 DEF EndInv
<1> QED BY <1>1, <1>2, <1>3, <1>4 DEF Next

(* The equations that satisfy nothing but the order of the definitions can *)
(* be solved one variable after the other.                                 *)
LEMMA Extends ==
  ASSUME problem \in Problems, ListOK, Ordered,
         NEW D, D \subseteq Nodes, \A n \in D : IsMono(eqs[n]),
         \A n, m \in D : LeftVar(eqs[n]) = LeftVar(eqs[m]) => n = m,
         NEW T, T \subseteq problem.used
  PROVE  \E U \in SUBSET problem.used :
           /\ \A n \in D : Satisfied(eqs[n], U)
           /\ \A v \in problem.used :
                (\A n \in D : LeftVar(eqs[n]) # v) => (v \in U <=> v \in T)
<1> DEFINE depth(n) == Depth(problem)[LeftVar(eqs[n])]
           Rest(k)  == {n \in D : k <= depth(n)}
           Solved_(k, U) ==
             /\ \A n \in D \ Rest(k) : Satisfied(eqs[n], U)
             /\ \A v \in problem.used :
                  (\A n \in D : LeftVar(eqs[n]) # v) => (v \in U <=> v \in T)
           Good(k)  == \E U \in SUBSET problem.used : Solved_(k, U)
           F        == {Rest(k) : k \in {j \in Nat : Good(j)}}
<1>1. /\ \A n \in D : LeftVar(eqs[n]) \in problem.used /\ depth(n) \in Nat
                      /\ eqs[n].left = VarPoly(LeftVar(eqs[n]))
                      /\ \A w \in AllVars(eqs[n].right) :
                           w \in problem.used /\ Depth(problem)[w] < depth(n)
      /\ IsFiniteSet(Nodes)
  <2>1. \A n \in D : eqs[n] \in Equation /\ n \in Nodes
    BY DEF ListOK
  <2>2. \A n \in D : LeftVar(eqs[n]) \in problem.used /\ eqs[n].left = VarPoly(LeftVar(eqs[n]))
    BY <2>1, MonoLeft DEF Ordered
  <2>3. \A n \in D : depth(n) \in Nat
    BY <2>2, DefinitionFacts
  <2>4. \A n \in D : \A w \in AllVars(eqs[n].right) :
          w \in problem.used /\ Depth(problem)[w] < depth(n)
    BY <2>1 DEF Ordered, EqVars
  <2>5. IsFiniteSet(Nodes)
    BY ProblemFacts, FS_Interval
  <2> QED BY <2>2, <2>3, <2>4, <2>5
<1> HIDE DEF depth
<1>2. Good(0)
  <2>1. Rest(0) = D
    BY <1>1
  <2>2. Solved_(0, T)
    BY <2>1
  <2> QED BY <2>2
<1>3. PICK R \in F : \A V \in F : ~ (V \subseteq R /\ V # R)
  <2>1. \A k \in Nat : Rest(k) \in SUBSET Nodes
    OBVIOUS
  <2>2. Rest(0) \in F
    <3> HIDE DEF Good, Rest
    <3> QED BY <1>2
  <2>3. F \subseteq SUBSET Nodes
    <3> HIDE DEF Good, Rest
    <3> QED BY <2>1
  <2> HIDE DEF F
  <2> QED BY <1>1, <2>2, <2>3, NoMinimalSet
<1>4. PICK k \in Nat : R = Rest(k) /\ Good(k)
  BY <1>3
<1>5. PICK U \in SUBSET problem.used : Solved_(k, U)
  BY <1>4
<1>6. CASE Rest(k) = {}
  BY <1>5, <1>6
<1>7. CASE Rest(k) # {}
  <2> DEFINE X == {LeftVar(eqs[n]) : n \in Rest(k)}
  <2>1. PICK x \in X : \A w \in X : Depth(problem)[x] <= Depth(problem)[w]
    <3>1. X \subseteq problem.used /\ X # {}
      BY <1>1, <1>7
    <3> HIDE DEF X
    <3> QED BY <3>1, FirstVariable
  <2>2. PICK z \in Rest(k) : x = LeftVar(eqs[z])
    BY <2>1
  <2> DEFINE m    == depth(z)
             At_  == {n \in D : depth(n) = m}
             True_ == {LeftVar(eqs[n]) : n \in {j \in At_ : Eval(eqs[j].right, U)}}
             W    == {v \in problem.used :
                        \/ v \in True_
                        \/ v \in U /\ \A n \in At_ : LeftVar(eqs[n]) # v}
  <2>3. m \in Nat /\ k <= m /\ \A n \in Rest(k) : m <= depth(n)
    BY <1>1, <2>1, <2>2 DEF depth
  <2>4. Rest(m+1) \subseteq Rest(k) /\ z \notin Rest(m+1) /\ z \in Rest(k)
    BY <1>1, <2>2, <2>3
  <2>5. \A n \in D \ Rest(m+1) : n \in At_ \/ (n \notin Rest(k) /\ depth(n) < m)
    BY <1>1, <2>3
  <2>6. ASSUME NEW v \in problem.used, Depth(problem)[v] # m
        PROVE  v \in W <=> v \in U
    <3>1. \A n \in At_ : LeftVar(eqs[n]) # v
      BY <2>6 DEF depth
    <3> QED BY <3>1
  <2>7. ASSUME NEW n \in D, depth(n) <= m
        PROVE  Eval(eqs[n].right, W) = Eval(eqs[n].right, U)
    <3>1. \A w \in AllVars(eqs[n].right) : w \in problem.used /\ Depth(problem)[w] # m
      <4> TAKE w \in AllVars(eqs[n].right)
      <4>1. w \in problem.used /\ Depth(problem)[w] < depth(n) /\ depth(n) \in Nat
        BY <1>1
      <4>2. Depth(problem)[w] \in Nat
        BY <4>1, DefinitionFacts
      <4> QED BY <2>3, <2>7, <4>1, <4>2
    <3>2. \A w \in AllVars(eqs[n].right) : w \in W <=> w \in U
      BY <2>6, <3>1
    <3> HIDE DEF W
    <3> QED BY <3>2, EvalAgrees
  <2>8. ASSUME NEW n \in D \ Rest(m+1) PROVE Satisfied(eqs[n], W)
    <3> DEFINE v == LeftVar(eqs[n])
    <3>1. v \in problem.used /\ depth(n) \in Nat /\ eqs[n].left = VarPoly(v)
      BY <1>1
    <3>2. CASE n \in At_
      <4>1. Eval(eqs[n].right, W) = Eval(eqs[n].right, U)
        BY <2>3, <2>7, <3>2
      <4>2. v \in True_ <=> Eval(eqs[n].right, U)
        BY <3>2
      <4>3. v \in W <=> Eval(eqs[n].right, U)
        BY <3>1, <3>2, <4>2
      <4> QED BY <3>1, <4>1, <4>3, SatisfiedMono
    <3>3. CASE n \notin Rest(k) /\ depth(n) < m
      <4> HIDE DEF m
      <4>0. depth(n) <= m
        BY <2>3, <3>1, <3>3
      <4> USE DEF m
      <4>1. Eval(eqs[n].right, W) = Eval(eqs[n].right, U)
        BY <2>7, <4>0
      <4>2. v \in W <=> v \in U
        BY <2>3, <2>6, <3>1, <3>3 DEF depth
      <4>3. Satisfied(eqs[n], U)
        BY <1>5, <3>3
      <4> QED BY <3>1, <4>1, <4>2, <4>3, SatisfiedMono
    <3> QED BY <2>5, <3>2, <3>3
  <2>9. ASSUME NEW v \in problem.used, \A n \in D : LeftVar(eqs[n]) # v
        PROVE  v \in W <=> v \in T
    <3>1. v \notin True_ /\ \A n \in At_ : LeftVar(eqs[n]) # v
      BY <2>9
    <3>2. v \in U <=> v \in T
      BY <1>5, <2>9
    <3> QED BY <3>1, <3>2
  <2>10. Good(m+1) /\ m + 1 \in Nat
    <3>1. W \in SUBSET problem.used
      OBVIOUS
    <3> HIDE DEF W, m, Rest
    <3> QED BY <2>3, <2>8, <2>9, <3>1
  <2>11. Rest(m+1) \in F
    <3> HIDE DEF m, Good, Rest
    <3> QED BY <2>10
  <2> QED BY <1>3, <1>4, <2>4, <2>11
<1> QED BY <1>6, <1>7

(* Both hold initially, and so always. *)
THEOREM EndInvariance == Spec => [](LeftsKept /\ EndInv)
<1>1. Init => LeftsKept /\ EndInv
  <2> SUFFICES ASSUME Init PROVE LeftsKept /\ EndInv
    OBVIOUS
  <2>1. LeftsKept
    BY DefinitionFacts DEF Init, LeftsKept
  <2> QED BY <2>1 DEF Init, EndInv
<1>2. Inv /\ VarsInv /\ LeftsKept /\ EndInv /\ [Next]_vars => (LeftsKept /\ EndInv)'
  <2> SUFFICES ASSUME Inv, VarsInv, LeftsKept, EndInv, [Next]_vars
               PROVE  (LeftsKept /\ EndInv)'
    OBVIOUS
  <2>1. CASE Next
    BY <2>1, NextLeftsKept, NextEnd DEF VarsInv
  <2>2. CASE UNCHANGED vars
    <3>1. Nodes' = Nodes
      BY <2>2 DEF vars, Nodes
    <3> QED BY <2>2, <3>1 DEF vars, LeftsKept, Definition, EndInv
  <2> QED BY <2>1, <2>2
<1> QED BY <1>1, <1>2, Invariance, VarsInvariance, PTL DEF Spec

(***************************************************************************)
(* Equation::replace neither throws (equation.cpp:52) nor fails its        *)
(* assertion (equation.cpp:40), whatever is known, if no defined bit is.   *)
(***************************************************************************)
THEOREM NeverFailing ==
  ASSUME \A p \in Problems : DefinedUnknown(p)
  PROVE  Spec => []NeverFails
<1>1. Inv /\ LeftsKept /\ EndInv => NeverFails
  BY DEF Inv, ListInv, FlowInv, EndInv, NeverFails
<1> QED BY <1>1, Invariance, EndInvariance, PTL

(* The assignments that satisfy the list. *)
Holds(E, L, T) == \A n \in L : Satisfied(E[n], T)

(* The fills of two lists are the same if each assignment that satisfies   *)
(* one list can be changed into one that satisfies the other, and has the  *)
(* same reference bits.                                                    *)
LEMMA FillsSame ==
  ASSUME problem' = problem,
         \A T \in SUBSET problem.used : Holds(eqs, live, T) =>
           \E U \in SUBSET problem.used :
             Holds(eqs', live', U) /\ \A v \in problem.base : v \in U <=> v \in T,
         \A T \in SUBSET problem.used : Holds(eqs', live', T) =>
           \E U \in SUBSET problem.used :
             Holds(eqs, live, U) /\ \A v \in problem.base : v \in U <=> v \in T
  PROVE  Fits(Solutions(LiveEqs))' = Fits(Solutions(LiveEqs))
<1> DEFINE Sol(E, L) == {T \in SUBSET problem.used : Holds(E, L, T)}
           Fill(S)   == {T \cap problem.base : T \in S}
<1>1. Fits(Solutions(LiveEqs)) = Fill(Sol(eqs, live))
  BY DEF Fits, Solutions, LiveEqs, Holds
<1>2. Fits(Solutions(LiveEqs))' = Fill(Sol(eqs', live'))
  <2>1. Fits(Solutions(LiveEqs))'
          = {T \cap problem'.base :
               T \in {U \in SUBSET problem'.used : \A e \in {eqs'[n] : n \in live'} :
                                                     Satisfied(e, U)}}
    BY DEF Fits, Solutions, LiveEqs, Satisfied
  <2>2. {U \in SUBSET problem'.used : \A e \in {eqs'[n] : n \in live'} : Satisfied(e, U)}
          = Sol(eqs', live')
    BY DEF Holds
  <2> HIDE DEF Sol
  <2> QED BY <2>1, <2>2
<1>3. ASSUME NEW S, NEW R, \A T \in S : \E U \in R : \A v \in problem.base : v \in U <=> v \in T
      PROVE  Fill(S) \subseteq Fill(R)
  <2> SUFFICES ASSUME NEW T \in S PROVE T \cap problem.base \in Fill(R)
    OBVIOUS
  <2>1. PICK U \in R : \A v \in problem.base : v \in U <=> v \in T
    BY <1>3
  <2>2. U \cap problem.base = T \cap problem.base
    BY <2>1
  <2> QED BY <2>2
<1>4. /\ \A T \in Sol(eqs, live) : \E U \in Sol(eqs', live') :
           \A v \in problem.base : v \in U <=> v \in T
      /\ \A T \in Sol(eqs', live') : \E U \in Sol(eqs, live) :
           \A v \in problem.base : v \in U <=> v \in T
  OBVIOUS
<1> HIDE DEF Sol, Fill
<1>5. Fill(Sol(eqs, live)) \subseteq Fill(Sol(eqs', live'))
  BY <1>3, <1>4
<1>6. Fill(Sol(eqs', live')) \subseteq Fill(Sol(eqs, live))
  BY <1>3, <1>4
<1> QED BY <1>1, <1>2, <1>5, <1>6

(* If no defined bit is known, a definition is the only equation with its  *)
(* variable on the left.                                                   *)
LEMMA DefinitionAlone ==
  ASSUME problem \in Problems, DefinedUnknown(problem), ListOK, LeftsKept,
         NEW n \in Nodes, Definition(n)
  PROVE  /\ IsMono(eqs[n]) /\ eqs[n].left = VarPoly(LeftVar(eqs[n]))
         /\ LeftVar(eqs[n]) \in problem.used \ problem.base
         /\ \A m \in Nodes \ {n} :
              IsMono(eqs[m]) => LeftVar(eqs[m]) # LeftVar(eqs[n])
<1>1. /\ eqs[n].left = problem.eqs[n].left /\ eqs[n].type = problem.eqs[n].type
      /\ \A m \in Nodes : eqs[m] \in Equation
  BY DEF LeftsKept, ListOK
<1>2. IsMono(eqs[n]) /\ eqs[n].left = VarPoly(LeftVar(eqs[n]))
  BY <1>1, DefinitionFacts, MonoLeft DEF IsMono
<1>3. LeftVar(eqs[n]) \in problem.used \ problem.base
  <2>1. LeftVar(eqs[n]) = LeftVar(problem.eqs[n])
    BY <1>1 DEF LeftVar
  <2>2. problem.eqs[n] \in Equation /\ IsMono(problem.eqs[n])
    BY ProblemFacts, DefinitionFacts
  <2>3. LeftVar(problem.eqs[n]) \in problem.used
    BY <2>2, MonoLeft, DefinitionFacts
  <2> QED BY <1>1, <2>1, <2>3, DefinitionFacts DEF Definition
<1>4. ASSUME NEW m \in Nodes \ {n}, IsMono(eqs[m]), LeftVar(eqs[m]) = LeftVar(eqs[n])
      PROVE  FALSE
  <2>1. eqs[m].left = eqs[n].left
    BY <1>1, <1>2, <1>4, MonoLeft
  <2>2. problem.eqs[m].left = problem.eqs[n].left /\ ~ IsEmpty(problem.eqs[n].left)
    BY <1>1, <1>2, <1>4, <2>1 DEF LeftsKept, IsMono
  <2>3. CASE m < n
    BY <1>1, <2>2, <2>3 DEF DefinedUnknown, Definition, Nodes
  <2>4. CASE n < m
    BY <1>1, <2>2, <2>4, ProblemAssumption DEF Definition, Nodes
  <2> QED BY <2>3, <2>4, ProblemFacts
<1> QED BY <1>2, <1>3, <1>4
(* A step that only puts an equation into others changes no solution.      *)
LEMMA PutInFills ==
  ASSUME Inv, NEW n, NEW r, NEW flag, Rewrites(n, r, FALSE, flag)
  PROVE  Fits(Solutions(LiveEqs))' = Fits(Solutions(LiveEqs))
<1>1. live \subseteq Nodes /\ n \in live /\ live' = live /\ problem' = problem
  BY DEF Inv, ListInv, ListOK, Rewrites, PutIn
<1>2. \A T : Satisfied(eqs'[n], T) <=> Satisfied(eqs[n], T)
  BY DEF Rewrites, PutIn, Satisfied
<1>3. \A d \in live : \A T :
        Satisfied(eqs[n], T) => (Satisfied(eqs'[d], T) <=> Satisfied(eqs[d], T))
  BY <1>1 DEF Rewrites, PutIn
<1>4. \A T : Holds(eqs', live', T) <=> Holds(eqs, live, T)
  BY <1>1, <1>2, <1>3 DEF Holds
<1> QED BY <1>1, <1>4, FillsSame

(* The variable that eliminate_mono_equations takes out can be given the   *)
(* value that the erased equation says, and is no reference bit.           *)
LEMMA MonoFills ==
  ASSUME Inv, Ordered, MonoStep, Rewrites(it, AnyRange, TRUE, FALSE)
  PROVE  Fits(Solutions(LiveEqs))' = Fits(Solutions(LiveEqs))
<1> DEFINE e == eqs[it]
           x == LeftVar(eqs[it])
<1>1. /\ live \subseteq Nodes /\ it \in live /\ problem' = problem /\ live' = live \ {it}
      /\ IsMono(e) /\ OneMono(e.right) /\ problem \in Problems /\ ListOK /\ e \in Equation
  BY DEF Inv, ListInv, ListOK, Rewrites, PutIn, MonoStep, DueMono
<1>2. /\ e.left = VarPoly(x) /\ x \notin AllVars(e.right)
      /\ x \in problem.used \ problem.base
  <2>1. ~ IsEmpty(e.right)
    BY <1>1 DEF OneMono, IsEmpty
  <2> QED BY <1>1, <2>1, MonoLeft, OrderedNoSelf DEF Ordered
<1>3. /\ \A d \in live' : x \notin EqVars(eqs'[d])
      /\ \A d \in live' : \A T :
           Satisfied(e, T) => (Satisfied(eqs'[d], T) <=> Satisfied(eqs[d], T))
  <2>1. live' \subseteq Targets(it, AnyRange)
    BY <1>1 DEF Targets, Contains
  <2> QED BY <1>1, <2>1 DEF Rewrites, PutIn
<1>4. ASSUME NEW T \in SUBSET problem.used, Holds(eqs, live, T)
      PROVE  Holds(eqs', live', T)
  BY <1>1, <1>3, <1>4 DEF Holds
<1>5. ASSUME NEW T \in SUBSET problem.used, Holds(eqs', live', T)
      PROVE  \E U \in SUBSET problem.used :
               Holds(eqs, live, U) /\ \A v \in problem.base : v \in U <=> v \in T
  <2> DEFINE U == IF Eval(e.right, T) THEN T \cup {x} ELSE T \ {x}
  <2>1. /\ U \in SUBSET problem.used /\ (x \in U <=> Eval(e.right, T))
        /\ \A v : v # x => (v \in U <=> v \in T)
    BY <1>2
  <2> HIDE DEF U
  <2>2. Eval(e.right, U) = Eval(e.right, T)
    BY <1>2, <2>1, EvalAgrees
  <2>3. Satisfied(e, U)
    BY <1>2, <2>1, <2>2, SatisfiedMono
  <2>4. ASSUME NEW d \in live' PROVE Satisfied(eqs[d], U)
    <3>1. Satisfied(eqs'[d], T)
      BY <1>5 DEF Holds
    <3>2. \A v \in EqVars(eqs'[d]) : v \in U <=> v \in T
      BY <1>3, <2>1
    <3>3. Satisfied(eqs'[d], U)
      BY <3>1, <3>2, SatisfiedAgrees
    <3> QED BY <1>3, <2>3, <3>3
  <2>5. Holds(eqs, live, U)
    BY <1>1, <2>3, <2>4 DEF Holds
  <2> QED BY <1>2, <2>1, <2>5
<1> QED BY <1>1, <1>4, <1>5, FillsSame

(* The variables that the outputs need are variables of the problem. *)
LEMMA NeededUsed ==
  ASSUME Inv, VarsInv, pc \in {"erase", "convert"}
  PROVE  Needed \subseteq problem.used
<1>1. /\ problem \in Problems /\ live \subseteq Nodes /\ Ordered
      /\ problem.base \subseteq problem.used
  BY DefinitionFacts DEF Inv, ListInv, ListOK, VarsInv
<1>2. ASSUME NEW x \in checked PROVE x \in problem.used
  <2>1. PICK n \in live : eqs[n].left = VarPoly(x)
    BY DEF VarsInv, NeededInv
  <2>2. x \in EqVars(eqs[n])
    BY <2>1 DEF VarPoly, AllVars, EqVars
  <2> QED BY <1>1, <2>2 DEF Ordered
<1>3. depend \subseteq problem.base
  BY DEF VarsInv, NeededInv
<1> QED BY <1>1, <1>2, <1>3 DEF Needed

(* The definitions are computed anew from the reference bits: what the     *)
(* known bits and the outputs say is about variables that keep their value.*)
LEMMA EraseFills ==
  ASSUME Inv, VarsInv, LeftsKept, DefinedUnknown(problem), EraseStep
  PROVE  Fits(Solutions(LiveEqs))' = Fits(Solutions(LiveEqs))
<1>1. /\ problem \in Problems /\ ListOK /\ Ordered /\ live \subseteq Nodes
      /\ problem' = problem /\ eqs' = eqs /\ live' = live \ {it} /\ pc = "erase"
      /\ it \in live /\ DueErase(it)
  BY DEF Inv, ListInv, ListOK, VarsInv, EraseStep, Erase, DueErase
<1> SUFFICES ASSUME NEW T \in SUBSET problem.used, Holds(eqs, live', T)
             PROVE  \E U \in SUBSET problem.used :
                      Holds(eqs, live, U) /\ \A v \in problem.base : v \in U <=> v \in T
  <2>1. \A S : Holds(eqs, live, S) => Holds(eqs', live', S)
    BY <1>1 DEF Holds
  <2> QED BY <1>1, <2>1, FillsSame
<1> DEFINE D == {n \in live : Definition(n)}
<1>2. /\ D \subseteq Nodes /\ \A n \in D : IsMono(eqs[n])
      /\ \A n, m \in D : LeftVar(eqs[n]) = LeftVar(eqs[m]) => n = m
  BY <1>1, DefinitionAlone
<1>3. PICK U \in SUBSET problem.used :
        /\ \A n \in D : Satisfied(eqs[n], U)
        /\ \A v \in problem.used :
             (\A n \in D : LeftVar(eqs[n]) # v) => (v \in U <=> v \in T)
  <2> HIDE DEF D
  <2> QED BY <1>1, <1>2, Extends
<1>4. \A v \in problem.base : v \in U <=> v \in T
  <2>1. \A v \in problem.base : \A n \in D : LeftVar(eqs[n]) # v
    BY <1>1, DefinitionAlone
  <2>2. problem.base \subseteq problem.used
    BY <1>1, DefinitionFacts
  <2> QED BY <1>3, <2>1, <2>2
<1>5. ASSUME NEW n \in live, ~ Definition(n), IsMono(eqs[n])
      PROVE  LeftVar(eqs[n]) \in U <=> LeftVar(eqs[n]) \in T
  <2>1. \A d \in D : LeftVar(eqs[d]) # LeftVar(eqs[n])
    BY <1>1, <1>5, DefinitionAlone
  <2>2. LeftVar(eqs[n]) \in problem.used
    BY <1>1, <1>5, MonoLeft DEF Ordered, ListOK
  <2> QED BY <1>3, <2>1, <2>2
<1>6. \A x \in Needed : x \in U <=> x \in T
  <2>1. ASSUME NEW x \in depend PROVE x \in U <=> x \in T
    <3>1. x \in problem.used
      BY <1>1, NeededUsed DEF Needed
    <3>2. \A n \in D : LeftVar(eqs[n]) # x
      BY <1>1, <1>2 DEF VarsInv, NeededInv, DueDepend
    <3> QED BY <1>3, <3>1, <3>2
  <2>2. ASSUME NEW x \in checked, ~ (x \in U <=> x \in T)
        PROVE  \E n \in Nodes : /\ eqs[n].left = VarPoly(x)
                                /\ AllVars(eqs[n].right) \subseteq Needed
                                /\ Satisfied(eqs[n], U) /\ Satisfied(eqs[n], T)
    <3>1. PICK n \in live : eqs[n].left = VarPoly(x) /\ AllVars(eqs[n].right) \subseteq Needed
      BY <1>1 DEF VarsInv, NeededInv
    <3>2. n \in Nodes /\ IsMono(eqs[n]) /\ LeftVar(eqs[n]) = x
      BY <1>1, <3>1, MonoLeft DEF ListOK
    <3>3. n # it
      BY <1>1, <3>2 DEF DueErase
    <3>4. Satisfied(eqs[n], T)
      BY <1>1, <3>3 DEF Holds
    <3>5. Definition(n)
      BY <1>5, <2>2, <3>2
    <3> QED BY <1>3, <3>1, <3>2, <3>4, <3>5
  <2> DEFINE X == Needed
  <2>3. /\ X \subseteq problem.used
        /\ \A x \in X :
             \/ x \in U <=> x \in T
             \/ \E n \in Nodes : /\ eqs[n].left = VarPoly(x)
                                 /\ AllVars(eqs[n].right) \subseteq X
                                 /\ Satisfied(eqs[n], U) /\ Satisfied(eqs[n], T)
    BY <1>1, <2>1, <2>2, NeededUsed DEF Needed
  <2> HIDE DEF X
  <2>4. \A x \in X : x \in U <=> x \in T
    BY <1>1, <2>3, Determines
  <2> QED BY <2>4 DEF X
<1>7. ASSUME NEW n \in live, ~ Definition(n) PROVE Satisfied(eqs[n], U)
  <2>0. n \in Nodes /\ eqs[n] \in Equation
    BY <1>1 DEF ListOK
  <2>1. n # it /\ Satisfied(eqs[n], T)
    <3>1. eqs[n].type.kind = "help" /\ IsMono(eqs[n]) => trivial_equation(eqs[n])
      BY <2>0 DEF LeftsKept, trivial_equation
    <3>2. n # it
      BY <1>1, <1>7, <3>1 DEF DueErase, Definition
    <3> QED BY <1>1, <3>2 DEF Holds
  <2>2. AllVars(eqs[n].right) \subseteq Needed
    <3>1. CASE eqs[n].type.kind = "output"
      BY <1>1, <3>1 DEF VarsInv, NeededInv
    <3>2. CASE eqs[n].type.kind = "help"
      BY <2>0, <3>2 DEF LeftsKept, IsEmpty, Monos, AllVars
    <3> QED BY <1>7, <3>1, <3>2 DEF Definition
  <2>3. \A v \in AllVars(eqs[n].left) : v \in U <=> v \in T
    BY <1>5, <1>7, <2>0, MonoLeft
  <2>4. \A v \in EqVars(eqs[n]) : v \in U <=> v \in T
    BY <1>6, <2>2, <2>3 DEF EqVars
  <2> QED BY <2>1, <2>4, SatisfiedAgrees
<1>8. Holds(eqs, live, U)
  BY <1>3, <1>7 DEF Holds
<1> QED BY <1>4, <1>8

(* Every step keeps the fills of the reference bits that fit. *)
LEMMA NextFills ==
  ASSUME Inv, VarsInv, LeftsKept, DefinedUnknown(problem), Next
  PROVE  Fits(Solutions(LiveEqs))' = Fits(Solutions(LiveEqs))
<1>1. CASE StillEqs
  <2>1. problem' = problem /\ eqs' = eqs
    BY <1>1 DEF StillEqs
  <2>2. CASE live' = live
    BY <2>1, <2>2 DEF Fits, Solutions, LiveEqs, Satisfied
  <2>3. CASE EraseStep
    BY <2>3, EraseFills
  <2>4. CASE BoolStep /\ live' = live \ {it} /\ live' # live
    <3>1. eqs[it].left = eqs[it].right
      BY <2>4 DEF BoolStep
    <3>2. \A T : Holds(eqs', live', T) <=> Holds(eqs, live, T)
      BY <2>1, <2>4, <3>1 DEF Holds, Satisfied
    <3> QED BY <2>1, <3>2, FillsSame
  <2> QED BY <1>1, <2>2, <2>3, <2>4 DEF StillEqs
<1>2. CASE TrivialStep /\ Rewrites(it, AnyRange, FALSE, TRUE)
  BY <1>2, PutInFills
<1>3. CASE MonoStep /\ Rewrites(it, AnyRange, TRUE, FALSE)
  BY <1>3, MonoFills DEF VarsInv
<1>4. ASSUME NEW n, Rewrites(n, problem.ranges[range], FALSE, FALSE)
      PROVE  Fits(Solutions(LiveEqs))' = Fits(Solutions(LiveEqs))
  BY <1>4, PutInFills
<1> QED BY <1>1, <1>2, <1>3, <1>4, StepKinds DEF VarsInv

(***************************************************************************)
(* What goes to the CNF fits the same reference bits as what was added,    *)
(* if no defined bit is known: eliminate_mono_equations and                *)
(* remove_unneeded (equationholder.cpp:97, 260) erase only what follows.   *)
(***************************************************************************)
THEOREM NothingEverLost ==
  ASSUME \A p \in Problems : DefinedUnknown(p)
  PROVE  Spec => []NothingLost
<1> DEFINE FitsKept == Fits(Solutions(LiveEqs)) = Fits(solutions)
<1>1. Init => FitsKept
  BY DEF Init, LiveEqs
<1>2. Inv /\ VarsInv /\ LeftsKept /\ FitsKept /\ [Next]_vars => FitsKept'
  <2> SUFFICES ASSUME Inv, VarsInv, LeftsKept, FitsKept, [Next]_vars PROVE FitsKept'
    OBVIOUS
  <2>1. CASE Next
    <3>1. Fits(Solutions(LiveEqs))' = Fits(Solutions(LiveEqs))
      BY <2>1, NextFills DEF Inv, ListInv
    <3>2. UNCHANGED <<problem, solutions>>
      BY <2>1 DEF Next, Skip, TrivialStep, TrivialEnd, BoolStep, BoolEnd, MonoStep, MonoEnd,
         BetweenStart, LinearStep, LinearEnd, RemoveStart, DependStep, DependEnd,
         EraseStep, EraseEnd
    <3>3. Fits(solutions)' = Fits(solutions)
      BY <3>2 DEF Fits
    <3> QED BY <3>1, <3>3
  <2>2. CASE UNCHANGED vars
    <3>1. Fits(Solutions(LiveEqs))' = Fits(Solutions(LiveEqs))
      BY <2>2 DEF vars, Fits, Solutions, LiveEqs, Satisfied
    <3>2. Fits(solutions)' = Fits(solutions)
      BY <2>2 DEF vars, Fits
    <3> QED BY <3>1, <3>2
  <2> QED BY <2>1, <2>2
<1>3. FitsKept => NothingLost
  BY DEF NothingLost
<1> QED BY <1>1, <1>2, <1>3, Invariance, VarsInvariance, EndInvariance, PTL DEF Spec

(***************************************************************************)
(* One run of one_test up to the conversion implements Solving: whatever   *)
(* is propagated, linearized and dropped, the fills of the reference bits  *)
(* that fit stay, and the problem is not given up while one does.          *)
(***************************************************************************)
THEOREM SolvingImplemented ==
  ASSUME \A p \in Problems : DefinedUnknown(p)
  PROVE  Spec => Solved
<1>1. Init => Abstract!Init
  <2> SUFFICES ASSUME Init PROVE Abstract!Init
    OBVIOUS
  <2>1. Verdict = "working"
    BY DEF Init, Verdict
  <2>2. problem.used \subseteq Var
    BY ProblemFacts DEF Init
  <2>3. \A T \in Solutions(LiveEqs) : T \cap problem.base \subseteq Var
    BY <2>2 DEF Solutions
  <2>4. Fits(Solutions(LiveEqs)) \in SUBSET SUBSET Var
    BY <2>3 DEF Fits
  <2> QED BY <2>1, <2>4 DEF Abstract!Init
<1>2. Inv /\ VarsInv /\ LeftsKept /\ EndInv /\ EndInv' /\ [Next]_vars
        => [Abstract!Next]_(Abstract!vars)
  <2> SUFFICES ASSUME Inv, VarsInv, LeftsKept, EndInv, EndInv', [Next]_vars
               PROVE  [Abstract!Next]_(Abstract!vars)
    OBVIOUS
  <2>1. CASE Next
    <3>1. Fits(Solutions(LiveEqs))' = Fits(Solutions(LiveEqs))
      BY <2>1, NextFills DEF Inv, ListInv
    <3>2. pc \notin {"convert", "solved"} /\ pc' # "solved"
      BY <2>1 DEF EndInv, Next, Skip, TrivialStep, TrivialEnd, BoolStep, BoolEnd, MonoStep,
         MonoEnd, BetweenStart, LinearStep, LinearEnd, RemoveStart, DependStep, DependEnd,
         EraseStep, EraseEnd, AtEnd
    <3>3. Verdict = "working" /\ Verdict' \in {"working", "convert"}
      BY <3>2 DEF Verdict
    <3> QED BY <3>1, <3>3 DEF Abstract!Next, Abstract!Rewrite, Abstract!Convert, Abstract!vars
  <2>2. CASE UNCHANGED vars
    <3>1. Fits(Solutions(LiveEqs))' = Fits(Solutions(LiveEqs)) /\ Verdict' = Verdict
      BY <2>2 DEF vars, Fits, Solutions, LiveEqs, Satisfied, Verdict
    <3> QED BY <3>1 DEF Abstract!vars
  <2> QED BY <2>1, <2>2
<1> QED
  BY <1>1, <1>2, Invariance, VarsInvariance, EndInvariance, PTL
     DEF Spec, Solved, Abstract!Spec
============================================================================
