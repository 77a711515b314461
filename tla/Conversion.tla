---------------------------- MODULE Conversion ----------------------------
(***************************************************************************)
(* The equations that one_test is left with become a CNF file:             *)
(* EquationsToSat (generator/equationstosat.cpp) makes the clauses,        *)
(* SolverAttrib (solverattrib.cpp) cuts the XORs, mixes the variables and  *)
(* writes the file, Variables (variables.cpp) numbers the variables.       *)
(*                                                                         *)
(* The loops of GrainOfSalt::speed_test and debug and of CalcBestBits      *)
(* (bestbits.cpp:175-188) make a new SolverAttrib for every problem, but   *)
(* share one Variables: clear_internal_vars must make it as new.           *)
(*                                                                         *)
(* A literal is a variable and its sign (TRUE: negated), a clause a set of *)
(* literals, an XOR a sequence of literals of which an odd number must be  *)
(* true.  An ExtendedMonomial, a product of variables and negated          *)
(* variables, is a set of literals too.  Clause groups and descriptions,   *)
(* comments of the file, are left out; so is the order of the clauses,     *)
(* and with it permutateClauses.                                           *)
(***************************************************************************)
EXTENDS Anf, Sequences

CONSTANTS
  Problems,   \* the lists of equations EquationsToSat may be given
  Settings,   \* the options of main.cpp it depends on: max_karnaugh_table,
              \* xor_cut_len, use_xor_clauses, noExtendedMonomial, permutateVars
  Draws,      \* bound: the numbers that mtrand.randInt gives (Nat: all)
  MaxTests    \* bound: the number of problems in a row

NumVars == Cardinality(Var)      \* last_noninternal_var + 1
Lefts   == {VarPoly(v) : v \in Var} \cup {Const(b) : b \in BOOLEAN}

(***************************************************************************)
(* The variables of the arrays come first.  No variable is defined by      *)
(* itself, but for "x = x": NoSelfReference in EquationHolder.  With       *)
(* xor_cut_len < 3 the loop of addXorClause does not advance.              *)
(***************************************************************************)
ASSUME ConversionAssumption ==
  /\ Var = 0 .. NumVars - 1 /\ MaxTests \in Nat
  /\ \A p \in Problems :
       /\ p \in Seq([left : Lefts, right : Poly])
       /\ \A k \in DOMAIN p : \/ AllVars(p[k].left) \cap AllVars(p[k].right) = {}
                            \/ p[k].left = p[k].right
  /\ \A s \in Settings :
       /\ s.max_karnaugh_table \in Nat
       /\ s.xor_cut_len \in Nat /\ s.xor_cut_len >= 3
       /\ s.use_xor_clauses \in BOOLEAN /\ s.noExtendedMonomial \in BOOLEAN
       /\ s.permutateVars \in BOOLEAN
  /\ 0 \in Draws /\ \A j \in Draws : j \in Nat

VARIABLES
  cpd,          \* the options of this run of the program
  tests,        \* problems so far
  pc,
  problem, it,  \* EquationsToSat: the equations and the iterator of convert
  monoList,     \* the extended monomials of the right side
  todo,         \* those of them the loop at hand has still to visit
  lits,         \* the XOR: its literals, and in addXorClause those not yet cut
  last_var,     \* addXorClause: the variable of the piece cut before, or none
  next_available_var, frozen, extmonos, cutxors,       \* Variables
  clauses, xorClauses, variableMix,                    \* SolverAttrib
  written       \* what the last file says, or none

store   == <<next_available_var, frozen, extmonos, cutxors>>
given   == <<cpd, tests, problem>>
vars    == <<given, pc, it, monoList, todo, lits, last_var, store, clauses,
             xorClauses, variableMix, written>>

None  == [none |-> TRUE]
NoVar == -1
Empty == [x \in {} |-> x]
Put(f, x, v) == [y \in DOMAIN f \cup {x} |-> IF y = x THEN v ELSE f[y]]

---------------------------------------------------------------------------
(* Literals (SolverTypes.h), clauses and XORs, in the assignment that      *)
(* makes exactly the variables in T true.                                  *)

Lit(v, sign)     == <<v, sign>>
Neg(l)           == <<l[1], ~ l[2]>>
LitTrue(l, T)    == IF l[2] THEN l[1] \notin T ELSE l[1] \in T
ClauseTrue(c, T) == \E l \in c : LitTrue(l, T)
XorTrue(s, T)    == Odd(Cardinality({k \in DOMAIN s : LitTrue(s[k], T)}))

---------------------------------------------------------------------------
(* class ExtendedMonomial: the positive and the inverted variables. *)
ExtendedMonomial == SUBSET (Var \X BOOLEAN)

Positive(m)  == {Lit(v, FALSE) : v \in m}            \* from a Monomial
VarSet(x)    == {l[1] : l \in x}
deg(x)       == Cardinality(x)
impossible(x) == \E v \in VarSet(x) : {Lit(v, FALSE), Lit(v, TRUE)} \subseteq x
evaluate(x, T) == \A l \in x : LitTrue(l, T)
(* Bug: the bit is cleared and not set on the other side. *)
Mutnegate(x, v) == {l \in x : l[1] # v}
negate(x, v) == {IF l[1] = v THEN Neg(l) ELSE l : l \in x}

(* The list is sorted by the bit sets of the variables, read as numbers,   *)
(* and negate does not change them.                                        *)
Before(m, n) == \E v \in n \ m : \A u \in m \ n : u < v
First(S)     == CHOOSE x \in S : \A y \in S \ {x} : Before(VarSet(x), VarSet(y))

(* find_one_larger_containing_this: a larger one always comes later.       *)
LargerOnes(x) == {y \in monoList : x \subseteq y /\ deg(y) = deg(x) + 1}
SingleVarDiff(x, y) == CHOOSE v \in VarSet(y) : v \notin VarSet(x)

---------------------------------------------------------------------------
(* The clauses of an extended monomial e <=> product of x, and those of an *)
(* XOR: XOR_permutator gives the sign patterns with an even number of      *)
(* changes.                                                                *)

EqualityClauses(e, x) ==
  {{Lit(e, TRUE), l} : l \in x} \cup {{Lit(e, FALSE)} \cup {Neg(l) : l \in x}}
EvenSubsets(S) == {F \in SUBSET S : ~ Odd(Cardinality(F))}
Flipped(s, F)  == {IF k \in F THEN Neg(s[k]) ELSE s[k] : k \in DOMAIN s}
all_combinations(s) == {Flipped(s, F) : F \in EvenSubsets(DOMAIN s)}

(***************************************************************************)
(* minimise_karnaugh (espresso): cubes that together are the points where  *)
(* p has the value b.  Any such cubes: the ON-rows are what espresso()     *)
(* makes of the points, the OFF-rows the cubes of complement(), which need *)
(* not be prime or disjoint.  That the rows are covers: see Karnaugh.      *)
(***************************************************************************)
Cubes(p)       == {x \in SUBSET (AllVars(p) \X BOOLEAN) : ~ impossible(x)}
Within(x, p, b) == \A T \in SUBSET AllVars(p) : evaluate(x, T) => Eval(p, T) = b
Implicants(p, b) == {x \in Cubes(p) : Within(x, p, b)}
Covers(p, b) ==
  {C \in SUBSET Implicants(p, b) :
     \A T \in SUBSET AllVars(p) : Eval(p, T) = b => \E x \in C : evaluate(x, T)}

---------------------------------------------------------------------------
Init ==
  /\ cpd \in Settings /\ tests = 0
  /\ pc = "idle"
  /\ problem = <<>> /\ it = 1
  /\ monoList = {} /\ todo = {} /\ lits = <<>> /\ last_var = NoVar
  /\ next_available_var = NumVars /\ frozen = FALSE
  /\ extmonos = Empty /\ cutxors = Empty
  /\ clauses = {} /\ xorClauses = {} /\ variableMix = Empty
  /\ written = None

(* A new problem; a refuted one is not converted (grain-of-salt.cpp:247).  *)
StartTest ==
  /\ pc = "idle" /\ tests < MaxTests
  /\ tests' = tests + 1
  /\ problem' \in Problems
  /\ pc' \in {"convert", "done"}
  /\ UNCHANGED <<cpd, it, monoList, todo, lits, last_var, store, clauses, xorClauses,
                 variableMix, written>>

equation      == problem[it]
Converting    == pc = "convert" /\ it \in DOMAIN problem
IsVar(left)   == ~ IsEmpty(left)
IsTautology(e) == IsVar(e.left) /\ e.left = Monos(e.right) /\ Size(e.right) = 1
UseKarnaugh(p) ==
  Cardinality(AllVars(p)) <= cpd.max_karnaugh_table /\ ~ SimpleXOR(p)

(* Bug: the iterator is not advanced. *)
MutSkipTautology ==
  /\ Converting /\ IsTautology(equation)
  /\ UNCHANGED vars
SkipTautology ==
  /\ Converting /\ IsTautology(equation)
  /\ it' = it + 1
  /\ UNCHANGED <<given, pc, monoList, todo, lits, last_var, store, clauses, xorClauses,
                 variableMix, written>>

(* add_karnaugh_table: no point of the table on the wrong side. *)
TableClauses(left, p, on, off) ==
  LET v == SingleVar(left) IN
  IF IsVar(left)
    THEN {{Lit(v, FALSE)} \cup {Neg(l) : l \in x} : x \in on}
         \cup {{Lit(v, TRUE)} \cup {Neg(l) : l \in x} : x \in off}
    ELSE {{Neg(l) : l \in x} : x \in IF IsInverted(left) THEN off ELSE on}

AddKarnaugh ==
  /\ Converting /\ ~ IsTautology(equation) /\ UseKarnaugh(equation.right)
  /\ \E rows \in Covers(equation.right, TRUE) \X Covers(equation.right, FALSE) :
       clauses' = clauses \cup TableClauses(equation.left, equation.right, rows[1], rows[2])
  /\ it' = it + 1
  /\ UNCHANGED <<given, pc, monoList, todo, lits, last_var, store, xorClauses,
                 variableMix, written>>

---------------------------------------------------------------------------
(* add_as_xor *)

StartXor ==
  /\ Converting /\ ~ IsTautology(equation) /\ ~ UseKarnaugh(equation.right)
  /\ monoList' = {Positive(m) : m \in Monos(equation.right)}
  /\ todo' = monoList'
  /\ pc' = IF cpd.noExtendedMonomial THEN "monos" ELSE "simplify"
  /\ UNCHANGED <<given, it, lits, last_var, store, clauses, xorClauses, variableMix,
                 written>>

(* m + m * v = m * ~v: m goes, and v is negated in the larger monomial. *)
SimplifyStep ==
  /\ pc = "simplify" /\ todo # {}
  /\ LET x == First(todo)
         y == First(LargerOnes(x))
         z == negate(y, SingleVarDiff(x, y))
     IN IF LargerOnes(x) = {}
          THEN todo' = todo \ {x} /\ UNCHANGED <<monoList, pc>>
          ELSE IF impossible(x) \/ impossible(y)
          THEN pc' = "assert" /\ UNCHANGED <<monoList, todo>>
          ELSE /\ monoList' = (monoList \ {x, y}) \cup {z}
               /\ todo' = (todo \ {x, y}) \cup {z}
               /\ UNCHANGED pc
  /\ UNCHANGED <<given, it, lits, last_var, store, clauses, xorClauses, variableMix,
                 written>>

SimplifyEnd ==
  /\ pc = "simplify" /\ todo = {}
  /\ todo' = monoList
  /\ pc' = "monos"
  /\ UNCHANGED <<given, it, monoList, lits, last_var, store, clauses, xorClauses,
                 variableMix, written>>

(* The literal of an extended monomial: itself, the variable it has, or a  *)
(* new one, defined here (insert_equality_clauses).                        *)
MonoStep ==
  /\ pc = "monos" /\ todo # {}
  /\ LET x == First(todo) IN
     /\ todo' = todo \ {x}
     /\ \/ /\ deg(x) = 1
           /\ \E l \in x : lits' = Append(lits, l)
           /\ UNCHANGED <<pc, clauses, store>>
        \/ /\ deg(x) > 1 /\ x \in DOMAIN extmonos
           /\ lits' = Append(lits, Lit(extmonos[x], FALSE))
           /\ UNCHANGED <<pc, clauses, store>>
        \/ /\ deg(x) > 1 /\ x \notin DOMAIN extmonos /\ frozen
           /\ pc' = "assert"
           /\ UNCHANGED <<lits, clauses, store>>
        \/ /\ deg(x) > 1 /\ x \notin DOMAIN extmonos /\ ~ frozen
           /\ extmonos' = Put(extmonos, x, next_available_var)
           /\ next_available_var' = next_available_var + 1
           /\ clauses' = clauses \cup EqualityClauses(next_available_var, x)
           /\ lits' = Append(lits, Lit(next_available_var, FALSE))
           /\ UNCHANGED <<pc, frozen, cutxors>>
  /\ UNCHANGED <<given, it, monoList, last_var, xorClauses, variableMix, written>>

(* The left side joins the XOR; the constants negate its first literal,    *)
(* where there is one.  "0 = 0" says nothing.                              *)
WithLeft(left)   == IF IsVar(left) THEN Append(lits, Lit(SingleVar(left), FALSE)) ELSE lits
(* Bug: the right side's constant is left out of an output. *)
MutInvert(e)     == IF IsVar(e.left) THEN ~ IsInverted(e.right) ELSE IsInverted(e.left)
Invert(e)        == IF IsVar(e.left) THEN ~ IsInverted(e.right)
                    ELSE IsInverted(e.left) = IsInverted(e.right)
Inverted(s)      == [k \in DOMAIN s |-> IF k = 1 THEN Neg(s[k]) ELSE s[k]]
XorOf(e)         == IF Invert(e) THEN Inverted(WithLeft(e.left)) ELSE WithLeft(e.left)

MonoEnd ==
  /\ pc = "monos" /\ todo = {}
  /\ monoList' = {}
  /\ \/ /\ WithLeft(equation.left) = <<>> /\ Invert(equation)
        /\ pc' = "convert" /\ it' = it + 1
        /\ UNCHANGED <<lits, xorClauses>>
     \/ /\ WithLeft(equation.left) # <<>> \/ ~ Invert(equation)
        /\ cpd.use_xor_clauses
        /\ xorClauses' = xorClauses \cup {XorOf(equation)}
        /\ lits' = <<>>
        /\ pc' = "convert" /\ it' = it + 1
     \/ /\ WithLeft(equation.left) # <<>> \/ ~ Invert(equation)
        /\ ~ cpd.use_xor_clauses
        /\ lits' = XorOf(equation)
        /\ pc' = "cut"
        /\ UNCHANGED <<it, xorClauses>>
  /\ UNCHANGED <<given, todo, last_var, store, clauses, variableMix, written>>

(***************************************************************************)
(* addXorClause: a piece of at most xor_cut_len - 1 literals, the first of *)
(* them the variable of the piece before it.  If literals are left, a new  *)
(* variable, negated, ends the piece and stands for it.                    *)
(***************************************************************************)
Chain    == IF last_var = NoVar THEN <<>> ELSE <<Lit(last_var, FALSE)>>
Taken    == IF Len(lits) <= cpd.xor_cut_len - 1 - Len(Chain) THEN Len(lits)
            ELSE cpd.xor_cut_len - 1 - Len(Chain)
Piece    == Chain \o SubSeq(lits, 1, Taken)
Rest     == SubSeq(lits, Taken + 1, Len(lits))

CutStep ==
  /\ pc = "cut" /\ lits # <<>>
  /\ \/ /\ Rest = <<>>
        /\ clauses' = clauses \cup all_combinations(Piece)
        /\ lits' = <<>>
        /\ UNCHANGED <<pc, last_var, store>>
     \/ /\ Rest # <<>> /\ frozen
        /\ pc' = "assert"
        /\ UNCHANGED <<lits, last_var, clauses, store>>
     \/ /\ Rest # <<>> /\ ~ frozen
        /\ cutxors' = Put(cutxors, Piece, next_available_var)
        /\ next_available_var' = next_available_var + 1
        /\ last_var' = next_available_var
        /\ clauses' = clauses \cup
             all_combinations(Append(Piece, Lit(next_available_var, TRUE)))
        /\ lits' = Rest
        /\ UNCHANGED <<pc, frozen, extmonos>>
  /\ UNCHANGED <<given, it, monoList, todo, xorClauses, variableMix, written>>

CutEnd ==
  /\ pc = "cut" /\ lits = <<>>
  /\ last_var' = NoVar
  /\ pc' = "convert" /\ it' = it + 1
  /\ UNCHANGED <<given, monoList, todo, lits, store, clauses, xorClauses, variableMix,
                 written>>

---------------------------------------------------------------------------
(* print_satfile *)

(* setupPermutateVars: get_last_var freezes the store. *)
PrintStart ==
  /\ pc = "convert" /\ it \notin DOMAIN problem
  /\ frozen' = TRUE
  /\ variableMix' = [v \in 0 .. next_available_var - 1 |-> v]
  /\ it' = 0
  /\ pc' = IF cpd.permutateVars THEN "mix" ELSE "write"
  /\ UNCHANGED <<given, monoList, todo, lits, last_var, next_available_var, extmonos,
                 cutxors, clauses, xorClauses, written>>

(* permutateVars: the entry of `it' is swapped with an earlier one. *)
randInt(i)       == {j \in Draws : j <= i}
(* Bug: the second half of the swap is missing. *)
MutSwapped(f, i, j) == [f EXCEPT ![i] = f[j]]
Swapped(f, i, j) == [f EXCEPT ![i] = f[j], ![j] = f[i]]
MixStep ==
  /\ pc = "mix" /\ it < next_available_var
  /\ \E j \in randInt(it) : variableMix' = Swapped(variableMix, it, j)
  /\ it' = it + 1
  /\ UNCHANGED <<given, pc, monoList, todo, lits, last_var, store, clauses, xorClauses,
                 written>>

Mixed(l)       == Lit(variableMix[l[1]], l[2])
MixedClause(c) == {Mixed(l) : l \in c}
MixedXor(s)    == [k \in DOMAIN s |-> Mixed(s[k])]
InRange(L)     == VarSet(L) \subseteq DOMAIN variableMix

MixEnd ==
  /\ pc = "mix" /\ it = next_available_var
  /\ \/ /\ \A c \in clauses : InRange(c)
        /\ \A s \in xorClauses : InRange({s[k] : k \in DOMAIN s})
        /\ clauses' = {MixedClause(c) : c \in clauses}
        /\ xorClauses' = {MixedXor(s) : s \in xorClauses}
        /\ pc' = "write"
     \/ /\ \/ \E c \in clauses : ~ InRange(c)
           \/ \E s \in xorClauses : ~ InRange({s[k] : k \in DOMAIN s})
        /\ pc' = "assert"
        /\ UNCHANGED <<clauses, xorClauses>>
  /\ UNCHANGED <<given, it, monoList, todo, lits, last_var, store, variableMix, written>>

(* get_varname_from_varnum knows the arrays and the values of the maps. *)
HasName(v) == \/ v \in Var
              \/ \E x \in DOMAIN extmonos : extmonos[x] = v
              \/ \E s \in DOMAIN cutxors : cutxors[s] = v

(* The header, the clauses, and the names: add_cut_xor_varnames asks for   *)
(* the name of every literal of every piece.                               *)
Write ==
  /\ pc = "write"
  /\ \/ /\ \A s \in DOMAIN cutxors : \A k \in DOMAIN s : HasName(s[k][1])
        /\ pc' = "done"
     \/ /\ \E s \in DOMAIN cutxors : \E k \in DOMAIN s : ~ HasName(s[k][1])
        /\ pc' = "nameless"
  /\ written' = [size |-> Cardinality(DOMAIN variableMix), clauses |-> clauses,
                 xorClauses |-> xorClauses]
  /\ UNCHANGED <<given, it, monoList, todo, lits, last_var, store, clauses, xorClauses,
                 variableMix>>

(* The SolverAttrib goes, and clear_internal_vars resets the store. *)
FreeAttrib ==
  /\ clauses' = {} /\ xorClauses' = {} /\ variableMix' = Empty /\ written' = None
  /\ problem' = <<>> /\ it' = 1
  /\ pc' = "idle"
  /\ UNCHANGED <<cpd, tests, monoList, todo, lits, last_var>>
(* Bugs: the products are kept; the store stays frozen; the first internal *)
(* number is that of the last variable of the arrays.                      *)
MutClearKeeps ==
  /\ pc = "done" /\ FreeAttrib
  /\ frozen' = FALSE /\ cutxors' = Empty /\ next_available_var' = NumVars
  /\ UNCHANGED extmonos
MutClearFrozen ==
  /\ pc = "done" /\ FreeAttrib
  /\ extmonos' = Empty /\ cutxors' = Empty /\ next_available_var' = NumVars
  /\ UNCHANGED frozen
MutClearNumber ==
  /\ pc = "done" /\ FreeAttrib
  /\ frozen' = FALSE /\ extmonos' = Empty /\ cutxors' = Empty
  /\ next_available_var' = NumVars - 1
Clear ==
  /\ pc = "done" /\ FreeAttrib
  /\ frozen' = FALSE /\ extmonos' = Empty /\ cutxors' = Empty
  /\ next_available_var' = NumVars

Next ==
  \/ StartTest \/ SkipTautology \/ AddKarnaugh
  \/ StartXor \/ SimplifyStep \/ SimplifyEnd \/ MonoStep \/ MonoEnd
  \/ CutStep \/ CutEnd
  \/ PrintStart \/ MixStep \/ MixEnd \/ Write \/ Clear

Spec     == Init /\ [][Next]_vars
FairSpec == Spec /\ WF_vars(Next)        \* a single thread that keeps running
---------------------------------------------------------------------------
(* What the equations say, and what the clauses say. *)

Satisfied(e, T)  == Eval(e.left, T) = Eval(e.right, T)
Solutions(E)     == {T \in SUBSET Var : \A e \in E : Satisfied(e, T)}
Models(n, C, X)  == {T \in SUBSET (0 .. n - 1) : /\ \A c \in C : ClauseTrue(c, T)
                                               /\ \A s \in X : XorTrue(s, T)}
Handled          == {problem[k] : k \in {j \in DOMAIN problem : j < it}}
ProblemEqs       == {problem[k] : k \in DOMAIN problem}

(* The models are the solutions, each with one value of the new variables. *)
SameSolutions(M, E) == /\ {T \cap Var : T \in M} = Solutions(E)
                       /\ Cardinality(M) = Cardinality(Solutions(E))

(* A contradiction without any variable makes no clause unless XORs are    *)
(* written as they are: see ContradictionsKept.                            *)
Contradiction(e) == Monos(e.left) \cup Monos(e.right) = {} /\ e.left # e.right
Lost(E)          == {e \in E : Contradiction(e) /\ ~ cpd.use_xor_clauses}

(***************************************************************************)
(* Type correctness.                                                       *)
(***************************************************************************)
Pcs == {"idle", "convert", "simplify", "monos", "cut", "mix", "write", "done",
        "assert", "nameless"}
Literal == (0 .. next_available_var - 1) \X BOOLEAN
TypeOK ==
  /\ cpd \in Settings /\ tests \in 0 .. MaxTests /\ pc \in Pcs
  /\ problem \in Problems \cup {<<>>} /\ it \in Nat
  /\ todo \subseteq monoList /\ monoList \subseteq ExtendedMonomial
  /\ lits \in Seq(Literal)
  /\ last_var \in {NoVar} \cup 0 .. next_available_var - 1
  /\ next_available_var \in Nat /\ frozen \in BOOLEAN
  /\ DOMAIN extmonos \subseteq ExtendedMonomial
  /\ \A x \in DOMAIN extmonos : extmonos[x] \in NumVars .. next_available_var - 1
  /\ \A s \in DOMAIN cutxors : /\ s \in Seq(Literal)
                              /\ cutxors[s] \in NumVars .. next_available_var - 1
  /\ clauses \subseteq SUBSET Literal
  /\ \A s \in xorClauses : s \in Seq(Literal)
  /\ \A v \in DOMAIN variableMix : variableMix[v] \in DOMAIN variableMix

(***************************************************************************)
(* Between two equations the clauses made so far have the solutions of the *)
(* equations handled so far: every cut, every product and every table, and *)
(* every variable that is used again, in this problem or after others.     *)
(***************************************************************************)
ModelsKept ==
  pc = "convert" =>
    SameSolutions(Models(next_available_var, clauses, xorClauses), Handled \ Lost(Handled))

(***************************************************************************)
(* The file says the same under the numbers that get_mixed_var gives,      *)
(* which check_found_state writes the true state with                      *)
(* (grain-of-salt.cpp:336).                                                *)
(***************************************************************************)
Unmixed(T) == {v \in DOMAIN variableMix : variableMix[v] \in T}
FileSays(E) ==
  SameSolutions({Unmixed(T) : T \in Models(written.size, written.clauses, written.xorClauses)}, E)
FileRight == written # None => FileSays(ProblemEqs \ Lost(ProblemEqs))

(* "Generates SAT formula from the equations" (equationstosat.h:40): also  *)
(* from one that no state satisfies.                                       *)
ContradictionsKept == written # None => FileSays(ProblemEqs)

(***************************************************************************)
(* simplify changes the sum of the monomials for no state, and the result  *)
(* is "at most as large as the input" (equationstosat.h:98).               *)
(***************************************************************************)
Sum(S, T) == Odd(Cardinality({x \in S : evaluate(x, T)}))
SimplifiedSame ==
  pc = "simplify" =>
    /\ Cardinality(monoList) <= Size(equation.right)
    /\ \A T \in SUBSET AllVars(equation.right) :
         Sum(monoList, T) = Eval(Monos(equation.right), T)

(***************************************************************************)
(* A product found in the store is defined by the clauses of this problem, *)
(* not by those of one before, and no two internal variables are the same. *)
(***************************************************************************)
Internal == {extmonos[x] : x \in DOMAIN extmonos} \cup {cutxors[s] : s \in DOMAIN cutxors}
ReusedDefined ==
  pc \in {"convert", "simplify", "monos", "cut"} =>
    /\ \A x \in DOMAIN extmonos : EqualityClauses(extmonos[x], x) \subseteq clauses
    /\ Cardinality(Internal) = Cardinality(DOMAIN extmonos) + Cardinality(DOMAIN cutxors)

(***************************************************************************)
(* No assertion fails on the way: the store is not frozen when a variable  *)
(* is needed, the monomials are possible, the literals are in the mix      *)
(* (variables.cpp:128, 143, extendedmonomial.cpp:131, solverattrib.cpp:42).*)
(***************************************************************************)
NeverFails == pc # "assert"

(* Every variable has a name when the names are written ("Var out of       *)
(* range", variables.cpp:100).                                             *)
Nameable == pc # "nameless"

(***************************************************************************)
(* Every problem's conversion ends with its file.                          *)
(***************************************************************************)
EventuallyWritten == (pc = "convert") ~> (pc = "done" /\ written # None)
==========================================================================
