----------------------------- MODULE CubeSpace -----------------------------
(***************************************************************************)
(* Cubes in positional notation, as the minimizer keeps them               *)
(* (espresso/main/cubestr.c, set.c, setc.c).                               *)
(*                                                                         *)
(* Every variable has parts: two for a binary variable (its values 0 and   *)
(* 1), any number for a multiple-valued one, the last of which stands for  *)
(* the outputs.  A cube is a bit vector over all parts of all variables:   *)
(* here the set of the parts whose bit is 1.  The word-wise loops of       *)
(* set.c (set_and, set_or, setp_implies ...) are \cap, \cup, \subseteq,    *)
(* and the bit tricks of setc.c are what they compute per variable.        *)
(***************************************************************************)
EXTENDS Orders

CONSTANTS
  num_vars,          \* cube.num_vars
  num_binary_vars,   \* cube.num_binary_vars: the variables below it are binary
  part_size,         \* cube.part_size: the number of parts of each variable
  first_part         \* cube.first_part: where they begin, and cube.size at the end

Vars == 0 .. num_vars - 1

(* What cube_setup demands, that the last variable is the multiple-valued  *)
(* one of the outputs, and how cube_setup lays the parts out: those of one *)
(* variable after those of the other.                                      *)
ASSUME CubeAssumption ==
  /\ num_vars \in Nat
  /\ num_binary_vars \in 0 .. num_vars - 1
  /\ part_size \in [Vars -> Nat \ {0}]
  /\ \A v \in 0 .. num_binary_vars - 1 : part_size[v] = 2
  /\ first_part \in [0 .. num_vars -> Nat]
  /\ first_part[0] = 0
  /\ \A v \in Vars : first_part[v + 1] = first_part[v] + part_size[v]

size     == first_part[num_vars]
Parts    == 0 .. size - 1                    \* cube.fullset
Cubes    == SUBSET Parts
var_mask == [v \in Vars |-> first_part[v] .. first_part[v + 1] - 1]
output   == num_vars - 1
sparse   == [v \in Vars |-> v >= num_binary_vars]

(* The part of a binary variable that stands for the value b, 0 or 1.      *)
LiteralPart(v, b) == first_part[v] + b

(***************************************************************************)
(* Distance: the number of variables in which two cubes have no part in    *)
(* common.  cdist01 is cdist cut off at 2, cdist0 the test for 0.          *)
(***************************************************************************)
Conflicts(a, b) == {v \in Vars : var_mask[v] \cap a \cap b = {}}
cdist(a, b)     == Cardinality(Conflicts(a, b))
cdist01(a, b)   == IF cdist(a, b) > 1 THEN 2 ELSE cdist(a, b)
cdist0(a, b)    == \A v \in Vars : var_mask[v] \cap a \cap b # {}

InVars(V) == UNION {var_mask[v] : v \in V}

(* The parts of a in the variables in which a and b do not meet.           *)
force_lower(a, b) == a \cap InVars(Conflicts(a, b))

(* The intersection, but the union in the variables where it is null.      *)
consensus(a, b) == (a \cap b) \cup ((a \cup b) \cap InVars(Conflicts(a, b)))

(* set_merge: a under the mask, b elsewhere.                               *)
set_merge(a, b, mask) == (a \cap mask) \cup (b \ mask)

(* set_dist: the number of parts two sets have in common.                  *)
set_dist(a, b) == Cardinality(a \cap b)

(***************************************************************************)
(* A variable is active in a cube that lacks one of its parts.             *)
(***************************************************************************)
ActiveVars(a) == {v \in Vars : ~(var_mask[v] \subseteq a)}

(* The only active variable of a, or -1 if there is none or more than one. *)
cactive(a) ==
  IF \E v \in Vars : ActiveVars(a) = {v}
    THEN CHOOSE v \in Vars : ActiveVars(a) = {v} ELSE -1

(* Have a and b a common active variable, apart from the parts in cof?     *)
ccommon(a, b, cof) == ActiveVars(a \cup cof) \cap ActiveVars(b \cup cof) # {}

full_row(p, cof) == p \cup cof = Parts

(***************************************************************************)
(* The orders for qsort, as "a precedes b".  The words of two sets are     *)
(* compared from the last to the first as unsigned numbers: the set with   *)
(* the highest part that the other lacks is the greater one.               *)
(***************************************************************************)
Higher(a, b) == \E p \in a \ b : \A q \in b \ a : q < p

lex_order(a, b)      == Higher(a, b)
d1_order(a, b, mask) == Higher(a \cup mask, b \cup mask)

(* The SIZE field of a cube has 16 bits; descend and ascend compare it     *)
(* first, whatever it holds.                                               *)
SIZE(n) == n % 65536
descend(a, sizeA, b, sizeB) == sizeA > sizeB \/ (sizeA = sizeB /\ Higher(a, b))
ascend(a, sizeA, b, sizeB)  == sizeA < sizeB \/ (sizeA = sizeB /\ Higher(b, a))

(***************************************************************************)
(* The points of a cube: one part of every variable.  Not code; what the   *)
(* covers are about.                                                       *)
(***************************************************************************)
Points    == {p \in Cubes : \A v \in Vars : Cardinality(p \cap var_mask[v]) = 1}
Pts(c)    == {x \in Points : x \subseteq c}
============================================================================
