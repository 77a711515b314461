-------------------------- MODULE EquationHolder --------------------------
(***************************************************************************)
(* The equation store (generator/equationholder.cpp, equation.cpp) as      *)
(* GrainOfSalt::one_test drives it (generator/grain-of-salt.cpp:245-262):  *)
(* propagate the known facts, linearize, drop what is not needed, and hand *)
(* the rest to the conversion to CNF.                                      *)
(*                                                                         *)
(* std::list keeps the identity of an element when others are erased, so   *)
(* the list is a fixed sequence of nodes and the set `live' of the nodes   *)
(* that are still in it.  An action is one iteration of one of the loops;  *)
(* `it' is the loop's iterator, N + 1 its end().                           *)
(*                                                                         *)
(* Mono_or_Bool, the left side, is a polynomial: one variable or a         *)
(* constant.                                                               *)
(***************************************************************************)
EXTENDS Anf, Sequences

CONSTANTS
  ElementType,   \* the DataElements an equation can carry as its `type'
  Problems       \* what one_test may be called with: records
                 \*   eqs       the equations, in the order they were added
                 \*   ranges    the state ranges linearize_linearizable visits
                 \*   propagate cpd.propagateFacts
                 \*   verbose   cpd.verbose
                 \*   base      the reference bits of the shift registers
                 \*   used      the variables of the equations

(* A left side is one variable or a constant: the lefts OutputMaker gives  *)
(* are that, and eliminate puts only constants in their place.             *)
Lefts    == {VarPoly(v) : v \in Var} \cup {Const(b) : b \in BOOLEAN}
Equation == [type : ElementType, left : Lefts, right : Poly, replaced : BOOLEAN]
StateRange == [which : Nat, from : Nat, to : Nat]

(***************************************************************************)
(* What one_test has put in the list.  A variable on two left sides is one *)
(* of the known bits, and the equation with its value comes first:         *)
(* add_given_data runs before OutputMaker::generate                        *)
(* (grain-of-salt.cpp:225-239), which defines every bit once.              *)
(***************************************************************************)
ASSUME ProblemAssumption ==
  \A p \in Problems :
    /\ p.eqs \in Seq(Equation) /\ p.ranges \in Seq(StateRange)
    /\ p.propagate \in BOOLEAN /\ p.verbose \in BOOLEAN /\ p.used \subseteq Var
    /\ \A n \in DOMAIN p.eqs : p.eqs[n].replaced = FALSE
    /\ \A n, m \in DOMAIN p.eqs :
         n < m /\ p.eqs[n].left = p.eqs[m].left /\ ~ IsEmpty(p.eqs[n].left) =>
           p.eqs[n].type.kind = "help" /\ IsEmpty(p.eqs[n].right)

(***************************************************************************)
(* The definitions of OutputMaker::generate give each bit that is no       *)
(* reference bit, and they can be put in an order in which each uses only  *)
(* earlier ones: Depth is the place of a bit in it, 1 for a bit that uses  *)
(* none, and has no value for one that comes to depend on itself, as when  *)
(* registers that read each other are shifted by different amounts.        *)
(***************************************************************************)
Uses(p, v) == UNION {AllVars(p.eqs[n].right) :
                         n \in {m \in DOMAIN p.eqs : p.eqs[m].left = VarPoly(v)}}
Depth(p) ==
  LET uses == [v \in p.used |-> Uses(p, v)]
      Upto[k \in Nat] ==
        IF k = 0 THEN [v \in {} |-> 0]
        ELSE LET g    == Upto[k-1]
                 next == {v \in p.used \ DOMAIN g : uses[v] \subseteq DOMAIN g}
             IN  [v \in DOMAIN g \cup next |-> IF v \in next THEN k ELSE g[v]]
  IN  Upto[Len(p.eqs) + 1]

ASSUME DefinitionAssumption ==
  \A p \in Problems : LET depth == Depth(p) IN
    /\ depth \in [p.used -> Nat] /\ p.base \subseteq p.used
    /\ \A n \in DOMAIN p.eqs : LET v == SingleVar(p.eqs[n].left) IN
         /\ ~ IsEmpty(p.eqs[n].left) /\ v \in p.used
         /\ \A w \in AllVars(p.eqs[n].right) : w \in p.used /\ depth[w] < depth[v]
         /\ v \in p.base => p.eqs[n].type.kind = "help"
         /\ p.eqs[n].type.kind = "help" => IsEmpty(p.eqs[n].right)
    /\ \A v \in p.used \ p.base : \E n \in DOMAIN p.eqs : p.eqs[n].left = VarPoly(v)

(* No bit that OutputMaker defines is a known one, as a fixed bit that the *)
(* shift has made a defined bit is.                                        *)
DefinedUnknown(p) ==
  \A n, m \in DOMAIN p.eqs :
    n < m /\ p.eqs[n].left = p.eqs[m].left => p.eqs[m].type.kind \in {"help", "output"}

VARIABLES
  problem,    \* the problem being solved
  eqs,        \* node -> Equation
  live,       \* the nodes still in the list
  removed,    \* history: the left and right sides of the erased equations
  same_vars,  \* map<uint, uint> same_vars
  pc,         \* the loop one_test is in
  it,         \* its iterator (a state index in linearize)
  changed,    \* changed_something, something_modified
  range,      \* the range linearize_linearizable is at
  depend,     \* the two bit sets of remove_unneeded
  checked,
  ret,        \* one_test's lbool
  refuted,    \* history: eliminate_trivial_equations returned false
  solutions   \* history: the solutions of the equations that were added

vars == <<problem, eqs, live, removed, same_vars, pc, it, changed, range,
          depend, checked, ret, refuted, solutions>>

(* What the equations say: the sets of true variables that satisfy them. *)
Satisfied(e, T) == Eval(e.left, T) = Eval(e.right, T)
Solutions(E)    == {T \in SUBSET problem.used : \A e \in E : Satisfied(e, T)}

Nodes == DOMAIN problem.eqs
N     == Len(problem.eqs)

---------------------------------------------------------------------------
(* class Equation *)

OneMono(p)    == \E m \in Monos(p) : Monos(p) = {m}
IsMono(e)     == ~ IsEmpty(e.left)
LeftVar(e)    == SingleVar(e.left)
EqVars(e)     == AllVars(e.left) \cup AllVars(e.right)

trivial_equation(e) == IsMono(e) /\ (IsEmpty(e.right) \/ IsSingleVar(e.right))
tautology(e)        == IsMono(e) /\ OneMono(e.right) /\ e.left = Monos(e.right)

(***************************************************************************)
(* Equation::replace puts e's right side in the place of e's variable.     *)
(* On the left that works only for d.left = e.left, and only with a        *)
(* constant or a single monomial, whose inversion is not looked at.        *)
(***************************************************************************)
HitsLeft(d, e)    == LeftVar(e) \in AllVars(d.left)
(* Bug: a known value is not put on a left side either. *)
MutCannotReplace(d, e) == HitsLeft(d, e) /\ ~(d.left = e.left /\ OneMono(e.right))
CannotReplace(d, e) ==
  /\ HitsLeft(d, e)
  /\ ~(d.left = e.left /\ (OneMono(e.right) \/ IsEmpty(e.right)))
(* Bug: a left side that is not reached is replaced too. *)
MutReplacedLeft(d, e) ==
  IF OneMono(e.right) THEN Monos(e.right) ELSE e.right
(* Bug: the inversion of the constant is read the wrong way. *)
MutReplacedLeftConst(d, e) ==
  IF ~ HitsLeft(d, e) THEN d.left
  ELSE IF OneMono(e.right) THEN Monos(e.right) ELSE Const(e.right = {})
ReplacedLeft(d, e) ==
  IF ~ HitsLeft(d, e) THEN d.left
  ELSE IF OneMono(e.right) THEN Monos(e.right) ELSE e.right
(* Bug: the inversion of the right side is lost. *)
Mutreplace(d, e) ==
  [d EXCEPT !.left = ReplacedLeft(d, e),
            !.right = Replace(d.right, LeftVar(e), Monos(e.right))]
replace(d, e) ==
  [d EXCEPT !.left = ReplacedLeft(d, e), !.right = Replace(d.right, LeftVar(e), e.right)]

---------------------------------------------------------------------------
(* DataElementRange::contains and DataElement::matches, for the shift      *)
(* registers; AnyRange is the range whose members are all "any".           *)

AnyRange == [any |-> TRUE]
(* Bug: "any" leaves out the output equations. *)
MutContains(r, type) ==
  IF r = AnyRange THEN type.kind \in {"sr", "filter", "help"}
  ELSE type.kind = "sr" /\ type.which = r.which /\ type.index \in r.from .. r.to
Contains(r, type) ==
  \/ r = AnyRange
  \/ type.kind = "sr" /\ type.which = r.which /\ type.index \in r.from .. r.to
IsState(type, which, i) == type.kind = "sr" /\ type.which = which /\ type.index = i

Erase(n) ==
  /\ live' = live \ {n}
  /\ removed' = removed \cup {[left |-> eqs[n].left, right |-> eqs[n].right]}

(***************************************************************************)
(* EquationHolder::eliminate(n, r, delete_eq): the equation of node n is   *)
(* put into every other equation of the range r.  A tautology is only      *)
(* erased.  Equation::replace asserts that n has a variable on the left,   *)
(* and throws if that variable is on another left side it cannot replace.  *)
(* `flag' is what the caller has set equation_is_trivial_... to before.    *)
(***************************************************************************)
(* Bug: the equation is put into itself as well. *)
MutTargets(n, r) == {d \in live : Contains(r, eqs[d].type)}
Targets(n, r) == {d \in live \ {n} : Contains(r, eqs[d].type)}

eliminate(n, r, delete_eq, flag) ==
  \/ /\ tautology(eqs[n])
     /\ eqs' = eqs
     /\ Erase(n)
     /\ UNCHANGED pc
  \/ /\ ~ tautology(eqs[n])
     /\ \/ Targets(n, r) # {} /\ ~ IsMono(eqs[n]) /\ pc' = "assert"
        \/ /\ IsMono(eqs[n])
           /\ \E d \in Targets(n, r) : CannotReplace(eqs[d], eqs[n])
           /\ pc' = "throw"
     /\ UNCHANGED <<eqs, live, removed>>
  \/ /\ ~ tautology(eqs[n])
     /\ Targets(n, r) # {} => IsMono(eqs[n])
     /\ \A d \in Targets(n, r) : ~ CannotReplace(eqs[d], eqs[n])
     /\ eqs' = [d \in Nodes |->
                  IF d \in Targets(n, r) THEN replace(eqs[d], eqs[n])
                  ELSE IF d = n THEN [eqs[d] EXCEPT !.replaced = @ \/ flag]
                  ELSE eqs[d]]
     /\ IF delete_eq THEN Erase(n) ELSE UNCHANGED <<live, removed>>
     /\ UNCHANGED pc

---------------------------------------------------------------------------
(* lbool::operator&=: with l_Undef on the left the argument is compared,   *)
(* not assigned.                                                           *)
AndAssign(a, b) == IF a = "True" /\ b = "False" THEN "False" ELSE a

(* What each loop does something about. *)
DueTrivial(n) == n \in live /\ ~ eqs[n].replaced /\ trivial_equation(eqs[n])
DueBool(n)    == n \in live /\ ~ IsMono(eqs[n]) /\ IsEmpty(eqs[n].right)
DueMono(n)    == n \in live /\ IsMono(eqs[n]) /\ OneMono(eqs[n].right)
DueDepend(n)  == n \in live /\ IsMono(eqs[n]) /\ LeftVar(eqs[n]) \in depend
DueErase(n)   == /\ n \in live /\ eqs[n].type.kind # "output" /\ IsMono(eqs[n])
                 /\ LeftVar(eqs[n]) \notin checked
                 /\ ~ trivial_equation(eqs[n])

(* Iterator steps over an erased node or one with nothing to do. *)
Skip ==
  /\ it \in Nodes
  /\ \/ pc = "trivial" /\ ~ DueTrivial(it)
     \/ pc = "bool"    /\ ~ DueBool(it)
     \/ pc = "mono"    /\ ~ DueMono(it)
     \/ pc = "depend"  /\ ~ DueDepend(it)
     \/ pc = "erase"   /\ ~ DueErase(it)
  /\ it' = it + 1
  /\ UNCHANGED <<problem, solutions, eqs, live, removed, same_vars, pc, changed,
                 range,
                 depend, checked, ret, refuted>>

AtEnd(loop) == pc = loop /\ it = N + 1

(* eliminate_trivial_equations: a known value or an equal variable is put  *)
(* everywhere else, and the equation stays.                                *)
TrivialStep ==
  /\ pc = "trivial" /\ it \in Nodes /\ DueTrivial(it)
  /\ eliminate(it, AnyRange, FALSE, TRUE)
  /\ changed' = TRUE
  /\ it' = it + 1
  /\ UNCHANGED <<problem, solutions, same_vars, range, depend, checked, ret, refuted>>

TrivialEnd ==
  /\ AtEnd("trivial")
  /\ pc' = "bool" /\ it' = 1
  /\ UNCHANGED <<problem, solutions, eqs, live, removed, same_vars, changed, range,
                 depend, checked, ret, refuted>>

(* one_test gives up only if the result has reached ret, and is verbose. *)
Propagated(result) ==
  /\ ret' = AndAssign(ret, result)
  /\ pc' = IF ret' # "Undef" /\ problem.verbose THEN "solved" ELSE "between"

(* "bool = bool" is erased if true; if false the propagation returns. *)
BoolStep ==
  /\ pc = "bool" /\ it \in Nodes /\ DueBool(it)
  /\ IF eqs[it].left = eqs[it].right
       THEN Erase(it) /\ it' = it + 1 /\ UNCHANGED <<pc, ret, refuted>>
       ELSE /\ refuted' = TRUE
            /\ Propagated("False")
            /\ UNCHANGED <<live, removed, it>>
  /\ UNCHANGED <<problem, solutions, eqs, same_vars, changed, range, depend, checked>>

BoolEnd ==
  /\ AtEnd("bool")
  /\ pc' = "mono" /\ it' = 1
  /\ UNCHANGED <<problem, solutions, eqs, live, removed, same_vars, changed, range,
                 depend, checked, ret, refuted>>

(* eliminate_mono_equations: x = monomial is put everywhere and erased; if *)
(* the monomial is one variable, same_vars remembers which one.            *)
(* Bugs: every entry is renamed; or only the new one. *)
MutRenamedAll(x, y)   == [z \in DOMAIN same_vars \cup {x} |-> y]
MutRenamedFirst(x, y) ==
  [z \in DOMAIN same_vars \cup {x} |-> IF z = x THEN y ELSE same_vars[z]]
Renamed(x, y) ==
  [z \in DOMAIN same_vars \cup {x} |->
     IF z = x \/ same_vars[z] = x THEN y ELSE same_vars[z]]

MonoStep ==
  /\ pc = "mono" /\ it \in Nodes /\ DueMono(it)
  /\ same_vars' = IF IsSingleVar(eqs[it].right)
                    THEN Renamed(LeftVar(eqs[it]), SingleVar(eqs[it].right))
                    ELSE same_vars
  /\ eliminate(it, AnyRange, TRUE, FALSE)
  /\ changed' = TRUE
  /\ it' = it + 1
  /\ UNCHANGED <<problem, solutions, range, depend, checked, ret, refuted>>

(* eliminate_trivial_and_mono_equations goes round until nothing changes. *)
(* Bugs: one round only; or the flag is not reset. *)
MutMonoEndOnce ==
  /\ AtEnd("mono")
  /\ changed' = FALSE
  /\ Propagated("Undef")
  /\ UNCHANGED <<problem, solutions, eqs, live, removed, same_vars, it, range, depend,
                 checked, refuted>>
MutMonoEndStale ==
  /\ AtEnd("mono")
  /\ IF changed THEN pc' = "trivial" /\ it' = 1 /\ UNCHANGED ret
                ELSE Propagated("Undef") /\ UNCHANGED it
  /\ UNCHANGED <<problem, solutions, eqs, live, removed, same_vars, changed, range, depend,
                 checked, refuted>>
MonoEnd ==
  /\ AtEnd("mono")
  /\ changed' = FALSE
  /\ IF changed THEN pc' = "trivial" /\ it' = 1 /\ UNCHANGED ret
                ELSE Propagated("Undef") /\ UNCHANGED it
  /\ UNCHANGED <<problem, solutions, eqs, live, removed, same_vars, range, depend,
                 checked, refuted>>

---------------------------------------------------------------------------
(* linearize_linearizable: eliminateBetween(r, r, false) for each range.   *)

BetweenStart ==
  /\ pc = "between" /\ range <= Len(problem.ranges)
  /\ pc' = "linear" /\ it' = problem.ranges[range].from
  /\ UNCHANGED <<problem, solutions, eqs, live, removed, same_vars, changed, range,
                 depend, checked, ret, refuted>>

(* findEquationByState: the first equation of that state. *)
StateNodes(r) == {n \in live : IsState(eqs[n].type, r.which, it)}

LinearStep ==
  LET r == problem.ranges[range] IN
  /\ pc = "linear" /\ it < r.to
  /\ \/ StateNodes(r) = {} /\ UNCHANGED <<eqs, live, removed, pc>>
     \/ \E n \in StateNodes(r) :
          /\ \A m \in StateNodes(r) : n <= m
          /\ eliminate(n, r, FALSE, FALSE)
  /\ it' = it + 1
  /\ UNCHANGED <<problem, solutions, same_vars, changed, range, depend, checked, ret, refuted>>

LinearEnd ==
  /\ pc = "linear" /\ it >= problem.ranges[range].to
  /\ pc' = "between" /\ range' = range + 1
  /\ UNCHANGED <<problem, solutions, eqs, live, removed, same_vars, it, changed, depend,
                 checked, ret, refuted>>

---------------------------------------------------------------------------
(* remove_unneeded: the variables the outputs depend on, then the closure  *)
(* over the definitions, then the erasure of the other definitions.        *)

RemoveStart ==
  /\ pc = "between" /\ range > Len(problem.ranges)
  /\ depend' = UNION {AllVars(eqs[n].right) :
                        n \in {m \in live : eqs[m].type.kind = "output"}}
  /\ checked' = {} /\ changed' = FALSE
  /\ pc' = "depend" /\ it' = 1
  /\ UNCHANGED <<problem, solutions, eqs, live, removed, same_vars, range, ret, refuted>>

(* Bug: the variables of a needed definition are not needed. *)
MutDependStep ==
  /\ pc = "depend" /\ it \in Nodes /\ DueDepend(it)
  /\ LET x == LeftVar(eqs[it]) IN
     /\ depend' = depend \ {x}
     /\ checked' = checked \cup {x}
  /\ changed' = TRUE
  /\ it' = it + 1
  /\ UNCHANGED <<problem, solutions, eqs, live, removed, same_vars, pc, range, ret, refuted>>
DependStep ==
  /\ pc = "depend" /\ it \in Nodes /\ DueDepend(it)
  /\ LET x == LeftVar(eqs[it]) IN
     /\ depend' = (depend \cup (AllVars(eqs[it].right) \ checked)) \ {x}
     /\ checked' = checked \cup {x}
  /\ changed' = TRUE
  /\ it' = it + 1
  /\ UNCHANGED <<problem, solutions, eqs, live, removed, same_vars, pc, range, ret, refuted>>

(* Bug: the closure is computed in one pass. *)
MutDependEnd ==
  /\ AtEnd("depend")
  /\ it' = 1 /\ changed' = FALSE
  /\ pc' = "erase"
  /\ UNCHANGED <<problem, solutions, eqs, live, removed, same_vars, range, depend,
                 checked, ret, refuted>>
DependEnd ==
  /\ AtEnd("depend")
  /\ it' = 1 /\ changed' = FALSE
  /\ pc' = IF changed THEN "depend" ELSE "erase"
  /\ UNCHANGED <<problem, solutions, eqs, live, removed, same_vars, range, depend,
                 checked, ret, refuted>>

EraseStep ==
  /\ pc = "erase" /\ it \in Nodes /\ DueErase(it)
  /\ Erase(it)
  /\ it' = it + 1
  /\ UNCHANGED <<problem, solutions, eqs, same_vars, pc, changed, range, depend, checked,
                 ret, refuted>>

EraseEnd ==
  /\ AtEnd("erase")
  /\ pc' = "convert"
  /\ UNCHANGED <<problem, solutions, eqs, live, removed, same_vars, it, changed, range,
                 depend, checked, ret, refuted>>

---------------------------------------------------------------------------
Init ==
  /\ problem \in Problems
  /\ eqs = problem.eqs
  /\ live = Nodes
  /\ removed = {}
  /\ same_vars = [x \in {} |-> x]
  /\ pc = IF problem.propagate THEN "trivial" ELSE "between"
  /\ it = 1
  /\ changed = FALSE
  /\ range = 1
  /\ depend = {} /\ checked = {}
  /\ ret = "Undef"
  /\ refuted = FALSE
  /\ solutions = Solutions({eqs[n] : n \in Nodes})

Next ==
  \/ Skip
  \/ TrivialStep \/ TrivialEnd \/ BoolStep \/ BoolEnd \/ MonoStep \/ MonoEnd
  \/ BetweenStart \/ LinearStep \/ LinearEnd
  \/ RemoveStart \/ DependStep \/ DependEnd \/ EraseStep \/ EraseEnd

Ended == pc \in {"convert", "solved", "assert", "throw"}

Spec     == Init /\ [][Next]_vars
FairSpec == Spec /\ WF_vars(Next)        \* a single thread that keeps running
---------------------------------------------------------------------------
(***************************************************************************)
(* Type correctness: after any substitutions a left side is still one      *)
(* variable or a constant, as getSingleVar asserts (monomial.cpp:83-93).   *)
(***************************************************************************)
Loops == {"trivial", "bool", "mono", "between", "linear", "depend", "erase",
          "convert", "solved", "assert", "throw"}
TypeOK ==
  /\ eqs \in [Nodes -> Equation]
  /\ live \subseteq Nodes
  /\ removed \subseteq [left : Lefts, right : Poly]
  /\ \A x \in DOMAIN same_vars : x \in Var /\ same_vars[x] \in Var
  /\ pc \in Loops /\ it \in Nat /\ range \in Nat \ {0}
  /\ changed \in BOOLEAN /\ refuted \in BOOLEAN
  /\ depend \subseteq Var /\ checked \subseteq Var
  /\ ret \in {"Undef", "True", "False"}
  /\ solutions \subseteq SUBSET problem.used

LiveEqs == {eqs[n] : n \in live}

(***************************************************************************)
(* The equations in the list and the ones erased from it have, together,   *)
(* the solutions of the equations that were added: no substitution, in     *)
(* any order of the passes, adds or loses one.                             *)
(***************************************************************************)
SolutionsKept == Solutions(LiveEqs \cup removed) = solutions

(***************************************************************************)
(* What is erased is implied by what defines it: over the reference bits   *)
(* the list alone keeps the solutions, and one_test gives up ("Solved by   *)
(* ...", grain-of-salt.cpp:248) only if there are none.                    *)
(***************************************************************************)
Fits(S) == {T \cap problem.base : T \in S}
Verdict == IF pc \in {"convert", "solved"} THEN pc ELSE "working"
Abstract == INSTANCE Solving WITH
              State <- SUBSET Var, fits <- Fits(Solutions(LiveEqs)), verdict <- Verdict
Solved == Abstract!Spec

(* The first half of it, for the equations that go to the CNF: the fills   *)
(* of the reference bits that satisfy them are the ones that satisfied the *)
(* equations that were added ("unneccessary", equationholder.cpp:268).     *)
NothingLost == pc = "convert" => Fits(Solutions(LiveEqs)) = Fits(solutions)

(***************************************************************************)
(* The propagation refutes a problem only if it has no solution.           *)
(***************************************************************************)
RefutedRightly == refuted => solutions = {}

(***************************************************************************)
(* No run of one_test fails an assertion of Equation::replace or throws    *)
(* from it (equation.cpp:40, 52).                                          *)
(***************************************************************************)
NeverFails == pc \notin {"assert", "throw"}

(***************************************************************************)
(* The variable of a known or renaming equation that has been propagated   *)
(* is in no other equation, through all the later substitutions.           *)
(***************************************************************************)
PropagatedOnce ==
  \A n \in live : eqs[n].replaced /\ IsMono(eqs[n]) =>
    \A m \in live \ {n} : LeftVar(eqs[n]) \notin EqVars(eqs[m])

(***************************************************************************)
(* The propagation stops at a fixed point: no known value and no product   *)
(* is left to put in the place of a variable.                              *)
(***************************************************************************)
FixedPoint ==
  problem.propagate /\ pc = "between" /\ range = 1 /\ ~ refuted =>
    \A n \in live : /\ ~ DueMono(n) /\ ~ DueBool(n)
                    /\ trivial_equation(eqs[n]) => eqs[n].replaced

(***************************************************************************)
(* A definition never comes to depend on itself, so that the loop of       *)
(* Polynomial::replace always ends.                                        *)
(***************************************************************************)
NoSelfReference ==
  \A n \in live : IsMono(eqs[n]) => LeftVar(eqs[n]) \notin AllVars(eqs[n].right)

(***************************************************************************)
(* A variable and the one same_vars gives for it determine each other, in  *)
(* all solutions the same way.                                             *)
(***************************************************************************)
SameVarsLinked ==
  \A x \in DOMAIN same_vars : \E b \in BOOLEAN :
    \A T \in solutions : (x \in T <=> same_vars[x] \in T) = b

(* same_vars gives equal variables (equationholder.cpp:108, "left ==       *)
(* right"): the inversion of the right side is not looked at.              *)
SameVarsEqual ==
  \A x \in DOMAIN same_vars : \A T \in solutions : x \in T <=> same_vars[x] \in T

(***************************************************************************)
(* check_found_state looks up one renaming (grain-of-salt.cpp:333): the    *)
(* variable it leads to was not renamed, and no reference bit ever is.     *)
(***************************************************************************)
SameVarsResolved ==
  /\ \A x \in DOMAIN same_vars : same_vars[x] \notin DOMAIN same_vars
  /\ DOMAIN same_vars \cap problem.base = {}

(***************************************************************************)
(* In what goes to the CNF the reference bits determine every variable     *)
(* that the outputs need: remove_unneeded keeps the definitions of all of  *)
(* them.  (Of others it may keep a part: x = y stays when y's definition   *)
(* goes.)                                                                  *)
(***************************************************************************)
LiveVars == UNION {EqVars(e) : e \in LiveEqs}
Needed   == checked \cup depend
NeededKept ==
  pc = "convert" =>
    \A S, T \in {U \cap (Needed \cup problem.base) : U \in Solutions(LiveEqs)} :
      S \cap problem.base = T \cap problem.base => S = T

(* A contradiction the propagation found ends a verbose run as solved      *)
(* (equationholder.cpp:85, grain-of-salt.cpp:247-250).                     *)
ContradictionStops == refuted /\ problem.verbose => pc = "solved"

(***************************************************************************)
(* Every loop ends: the propagation runs out of facts and the closure of   *)
(* remove_unneeded out of variables.                                       *)
(***************************************************************************)
EventuallyEnds == <>Ended
==========================================================================
