------------------------------- MODULE Anf -------------------------------
(***************************************************************************)
(* Boolean polynomials in algebraic normal form, as class Polynomial       *)
(* computes with them (generator/polynomial.cpp, monomial.cpp).            *)
(*                                                                         *)
(* A Monomial is a bit set of variables: here a set of variables.  A       *)
(* Polynomial is a sorted list of distinct monomials and a flag            *)
(* `inverted' (the constant term).  The list never holds the empty         *)
(* monomial (operator^= asserts it), so one set stands for both members:   *)
(* a polynomial is a set of monomials, and {} is in it when `inverted' is  *)
(* true.  The order of the list and the merges that keep it are left out.  *)
(***************************************************************************)
EXTENDS Integers, FiniteSets

CONSTANT Var                \* the variables of the SAT problem

ASSUME VarAssumption == IsFiniteSet(Var)

Monomial == SUBSET Var
Poly     == SUBSET Monomial

Const(b)    == IF b THEN {{}} ELSE {}        \* Polynomial(const bool)
VarPoly(v)  == {{v}}                         \* Polynomial(const Monomial&)

(* The observers of class Polynomial. *)
IsInverted(p) == {} \in p
Monos(p)      == p \ {{}}
Size(p)       == Cardinality(Monos(p))
IsEmpty(p)    == Monos(p) = {}
AllVars(p)    == UNION p
SimpleXOR(p)  == \A m \in Monos(p) : Cardinality(m) <= 1

(* The right side "is" one variable: one monomial, of degree 1. *)
IsSingleVar(p) == \E v \in AllVars(p) : Monos(p) = {{v}}
SingleVar(p)   == CHOOSE v \in AllVars(p) : Monos(p) = {{v}}

Odd(n) == n % 2 = 1

(* operator^= and xorWithAndRemoveSecond: equal monomials cancel in pairs. *)
Xor(p, q) == (p \ q) \cup (q \ p)

(***************************************************************************)
(* A product of sums: the monomials that an odd number of pairs produces,  *)
(* what operator*= leaves after cleanFromDoubles.                          *)
(***************************************************************************)
Union(x)      == x[1] \cup x[2]
PairsOf(S, c) == {x \in S : Union(x) = c}
OddUnions(S)  == {c \in {Union(x) : x \in S} : Odd(Cardinality(PairsOf(S, c)))}
Times(p, q)   == OddUnions(p \X q)

(***************************************************************************)
(* Polynomial::replace(v, q): every monomial with v is taken out, v is     *)
(* removed from it, and q times what is left is added.  The loop stops     *)
(* only if q does not bring v back: v \notin AllVars(q).                   *)
(***************************************************************************)
With(p, v)       == {m \in p : v \in m}
Quotient(p, v)   == {m \ {v} : m \in With(p, v)}
Replace(p, v, q) == Xor(p \ With(p, v), Times(Quotient(p, v), q))

(***************************************************************************)
(* Polynomial::evaluate: the value of p when exactly the variables in T    *)
(* are true.                                                               *)
(***************************************************************************)
TrueMonos(p, T) == {m \in p : m \subseteq T}
Eval(p, T)      == Odd(Cardinality(TrueMonos(p, T)))
==========================================================================
