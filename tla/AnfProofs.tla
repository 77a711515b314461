---------------------------- MODULE AnfProofs ----------------------------
(***************************************************************************)
(* The operators of Anf compute what class Polynomial means: the value of  *)
(* a sum, of a product and of a replacement, for every finite polynomial.  *)
(* The value of a polynomial is the parity of a set of monomials, so the   *)
(* lemmas are about parities of finite sets.                               *)
(***************************************************************************)
EXTENDS Anf, FiniteSetTheorems, WellFoundedInduction, TLAPS

(* Parity of a disjoint union and of a symmetric difference. *)
LEMMA OddDisjointUnion ==
  ASSUME NEW A, NEW B, IsFiniteSet(A), IsFiniteSet(B), A \cap B = {}
  PROVE  /\ IsFiniteSet(A \cup B)
         /\ Cardinality(A \cup B) = Cardinality(A) + Cardinality(B)
         /\ Odd(Cardinality(A \cup B)) <=> ~(Odd(Cardinality(A)) <=> Odd(Cardinality(B)))
<1>1. /\ IsFiniteSet(A \cup B)
      /\ Cardinality(A \cup B) = Cardinality(A) + Cardinality(B) - Cardinality(A \cap B)
  BY FS_Union
<1>2. Cardinality(A \cap B) = 0
  BY FS_EmptySet
<1>3. Cardinality(A) \in Nat /\ Cardinality(B) \in Nat
  BY FS_CardinalityType
<1>4. Cardinality(A \cup B) = Cardinality(A) + Cardinality(B)
  BY <1>1, <1>2, <1>3
<1> QED
  BY <1>1, <1>3, <1>4 DEF Odd

(* The parity of operator^= (polynomial.cpp:109-145): cancelling pairs.   *)
LEMMA OddXor ==
  ASSUME NEW A, NEW B, IsFiniteSet(A), IsFiniteSet(B)
  PROVE  /\ IsFiniteSet(Xor(A, B))
         /\ Odd(Cardinality(Xor(A, B))) <=> ~(Odd(Cardinality(A)) <=> Odd(Cardinality(B)))
<1> DEFINE C == A \cap B
<1>1. IsFiniteSet(A \ B) /\ IsFiniteSet(B \ A) /\ IsFiniteSet(C)
  BY FS_Difference, FS_Intersection
<1>2. /\ Odd(Cardinality(A)) <=> ~(Odd(Cardinality(A \ B)) <=> Odd(Cardinality(C)))
  <2>1. A = (A \ B) \cup C /\ (A \ B) \cap C = {}
    OBVIOUS
  <2> QED BY <1>1, <2>1, OddDisjointUnion
<1>3. /\ Odd(Cardinality(B)) <=> ~(Odd(Cardinality(B \ A)) <=> Odd(Cardinality(C)))
  <2>1. B = (B \ A) \cup C /\ (B \ A) \cap C = {}
    OBVIOUS
  <2> QED BY <1>1, <2>1, OddDisjointUnion
<1>4. (A \ B) \cap (B \ A) = {}
  OBVIOUS
<1> QED
  BY <1>1, <1>2, <1>3, <1>4, OddDisjointUnion DEF Xor

(* A set of subsets of a finite set has a minimal member: the induction   *)
(* that OddUnionsParity needs.                                            *)
LEMMA NoMinimalSet ==
  ASSUME NEW S, IsFiniteSet(S), NEW X, X \subseteq SUBSET S, X # {}
  PROVE  \E U \in X : \A V \in X : ~(V \subseteq U /\ V # U)
<1>1. FiniteSubsetsOf(S) = SUBSET S
  BY FS_FiniteSubsetsOfFinite
<1>2. IsWellFoundedOn(StrictSubsetOrdering(S), SUBSET S)
  BY <1>1, FS_StrictSubsetOrderingWellFounded
<1>3. \E U \in X : \A V \in X : ~(<<V, U>> \in StrictSubsetOrdering(S))
  BY <1>2, WFMin
<1> QED
  BY <1>3 DEF StrictSubsetOrdering

(* A product is odd if both factors are. *)
LEMMA OddProduct ==
  ASSUME NEW a \in Nat, NEW b \in Nat
  PROVE  Odd(a * b) <=> Odd(a) /\ Odd(b)
<1>1. PICK i \in Nat, r \in {0, 1} : a = 2 * i + r
  <2>1. a = 2 * (a \div 2) + (a % 2) /\ a \div 2 \in Nat /\ a % 2 \in {0, 1}
    OBVIOUS
  <2> QED BY <2>1
<1>2. PICK j \in Nat, s \in {0, 1} : b = 2 * j + s
  <2>1. b = 2 * (b \div 2) + (b % 2) /\ b \div 2 \in Nat /\ b % 2 \in {0, 1}
    OBVIOUS
  <2> QED BY <2>1
<1>3. PICK k \in Nat : a * b = 2 * k + r * s
  <2> DEFINE k0 == 2 * (i * j) + i * s + j * r
  <2>1. i * j \in Nat /\ i * s \in Nat /\ j * r \in Nat
    OBVIOUS
  <2>2. k0 \in Nat
    BY <2>1
  <2>3. a * b = 2 * k0 + r * s
    BY <1>1, <1>2
  <2> QED BY <2>2, <2>3
<1>4. (Odd(a) <=> r = 1) /\ (Odd(b) <=> s = 1)
  BY <1>1, <1>2 DEF Odd
<1>5. Odd(a * b) <=> r * s = 1
  <2>1. r * s \in {0, 1}
    OBVIOUS
  <2>2. (2 * k + r * s) % 2 = r * s
    BY <2>1
  <2> QED BY <1>3, <2>2 DEF Odd
<1>6. r * s = 1 <=> r = 1 /\ s = 1
  OBVIOUS
<1> QED BY <1>4, <1>5, <1>6

(* cleanFromDoubles leaves finitely many monomials. *)
LEMMA FiniteOddUnions ==
  ASSUME NEW S, IsFiniteSet(S)
  PROVE  IsFiniteSet(OddUnions(S))
<1> DEFINE I == {Union(x) : x \in S}
           f == [x \in S |-> Union(x)]
<1>1. f \in Surjection(S, I)
  BY DEF Surjection
<1>2. IsFiniteSet(I)
  <2> HIDE DEF I, f
  <2> QED BY <1>1, FS_Surjection
<1>3. OddUnions(S) \subseteq I
  BY DEF OddUnions
<1> QED BY <1>2, <1>3, FS_Subset

(* cleanFromDoubles (polynomial.cpp:74-107) keeps the parity of the       *)
(* number of monomials, as it takes out two equal ones at a time.         *)
LEMMA OddUnionsParity ==
  ASSUME NEW S, IsFiniteSet(S)
  PROVE  Odd(Cardinality(S)) <=> Odd(Cardinality(OddUnions(S)))
<1> DEFINE Same(U) == Odd(Cardinality(U)) <=> Odd(Cardinality(OddUnions(U)))
           X == {U \in SUBSET S : ~ Same(U)}
<1>1. SUFFICES ASSUME X # {} PROVE FALSE
  <2>1. S \in SUBSET S
    OBVIOUS
  <2> QED BY <2>1
<1>2. PICK U \in X : \A V \in X : ~(V \subseteq U /\ V # U)
  <2>1. X \subseteq SUBSET S
    OBVIOUS
  <2> HIDE DEF X
  <2> QED BY <1>1, <2>1, NoMinimalSet
<1>3. U \subseteq S /\ IsFiniteSet(U)
  BY <1>2, FS_Subset
<1>4. U # {}
  <2>1. OddUnions({}) = {}
    BY DEF OddUnions
  <2>2. Same({})
    BY <2>1
  <2> QED BY <1>2, <2>2
<1>5. PICK x0 \in U : TRUE
  BY <1>4
<1> DEFINE c == Union(x0)
           F == PairsOf(U, c)
           V == U \ F
<1>6. /\ F \subseteq U /\ x0 \in F /\ V \subseteq U /\ V # U
      /\ F \cap V = {} /\ F \cup V = U
  BY <1>5 DEF PairsOf
<1>7. IsFiniteSet(F) /\ IsFiniteSet(V)
  BY <1>3, <1>6, FS_Subset
<1>8. Same(V)
  <2>1. V \in SUBSET S
    BY <1>3, <1>6
  <2>2. V \notin X
    BY <1>2, <1>6
  <2> QED BY <2>1, <2>2
<1>9. Odd(Cardinality(U)) <=> ~(Odd(Cardinality(F)) <=> Odd(Cardinality(V)))
  BY <1>6, <1>7, OddDisjointUnion
<1>10. ASSUME NEW d, d # c
       PROVE  d \in OddUnions(U) <=> d \in OddUnions(V)
  <2>1. PairsOf(U, d) = PairsOf(V, d)
    BY <1>10 DEF PairsOf
  <2>2. d \in {Union(x) : x \in U} <=> d \in {Union(x) : x \in V}
    BY <1>10 DEF PairsOf
  <2> QED BY <2>1, <2>2 DEF OddUnions
<1>11. c \notin OddUnions(V)
  BY DEF OddUnions, PairsOf
<1>12. c \in OddUnions(U) <=> Odd(Cardinality(F))
  BY <1>5 DEF OddUnions
<1>13. IsFiniteSet(OddUnions(V))
  BY <1>7, FiniteOddUnions
<1>14. Odd(Cardinality(OddUnions(U))) <=> ~(Odd(Cardinality(F)) <=> Odd(Cardinality(OddUnions(V))))
  <2> HIDE DEF c, F, V
  <2>1. CASE Odd(Cardinality(F))
    <3>1. OddUnions(U) = OddUnions(V) \cup {c}
      BY <2>1, <1>10, <1>12
    <3>2. /\ IsFiniteSet({c}) /\ Cardinality({c}) = 1 
          /\ OddUnions(V) \cap {c} = {}
      BY <1>11, FS_Singleton
    <3>3. Odd(Cardinality({c}))
      BY <3>2 DEF Odd
    <3> QED BY <2>1, <3>1, <3>2, <3>3, <1>13, OddDisjointUnion
  <2>2. CASE ~ Odd(Cardinality(F))
    <3>1. OddUnions(U) = OddUnions(V)
      BY <2>2, <1>10, <1>11, <1>12
    <3> QED BY <2>2, <3>1
  <2> QED BY <2>1, <2>2
<1>15. Same(U)
  BY <1>8, <1>9, <1>14
<1> QED
  BY <1>2, <1>15

(* The true monomials of a polynomial are finitely many. *)
LEMMA FiniteTrueMonos ==
  ASSUME NEW p, IsFiniteSet(p), NEW T
  PROVE  IsFiniteSet(TrueMonos(p, T))
BY FS_Subset DEF TrueMonos

(* Adding polynomials adds their values. *)
THEOREM EvalXor ==
  ASSUME NEW p, NEW q, IsFiniteSet(p), IsFiniteSet(q), NEW T
  PROVE  Eval(Xor(p, q), T) <=> ~(Eval(p, T) <=> Eval(q, T))
<1>1. TrueMonos(Xor(p, q), T) = Xor(TrueMonos(p, T), TrueMonos(q, T))
  BY DEF TrueMonos, Xor
<1> QED
  BY <1>1, FiniteTrueMonos, OddXor DEF Eval

(* Multiplying polynomials multiplies their values. *)
THEOREM EvalTimes ==
  ASSUME NEW p, NEW q, IsFiniteSet(p), IsFiniteSet(q), NEW T
  PROVE  /\ IsFiniteSet(Times(p, q))
         /\ Eval(Times(p, q), T) <=> Eval(p, T) /\ Eval(q, T)
<1> DEFINE P == TrueMonos(p, T)
           Q == TrueMonos(q, T)
<1>1. IsFiniteSet(P) /\ IsFiniteSet(Q)
  BY FiniteTrueMonos
<1>2. TrueMonos(Times(p, q), T) = OddUnions(P \X Q)
  <2>1. ASSUME NEW d, d \subseteq T
        PROVE  PairsOf(p \X q, d) = PairsOf(P \X Q, d)
    BY <2>1 DEF PairsOf, Union, TrueMonos
  <2>2. ASSUME NEW d
        PROVE  d \in TrueMonos(Times(p, q), T) <=> d \in OddUnions(P \X Q)
    <3>1. CASE d \subseteq T
      <4>1. d \in {Union(x) : x \in p \X q} <=> d \in {Union(x) : x \in P \X Q}
        BY <3>1 DEF Union, TrueMonos
      <4> QED BY <2>1, <3>1, <4>1 DEF TrueMonos, Times, OddUnions
    <3>2. CASE ~(d \subseteq T)
      <4>1. d \notin {Union(x) : x \in P \X Q}
        BY <3>2 DEF Union, TrueMonos
      <4> QED BY <3>2, <4>1 DEF TrueMonos, OddUnions
    <3> QED BY <3>1, <3>2
  <2> QED BY <2>2
<1>3. /\ IsFiniteSet(P \X Q)
      /\ Cardinality(P \X Q) = Cardinality(P) * Cardinality(Q)
  BY <1>1, FS_Product
<1>4. Odd(Cardinality(P \X Q)) <=> Odd(Cardinality(P)) /\ Odd(Cardinality(Q))
  <2>1. Cardinality(P) \in Nat /\ Cardinality(Q) \in Nat
    BY <1>1, FS_CardinalityType
  <2> QED BY <1>3, <2>1, OddProduct
<1>5. IsFiniteSet(Times(p, q))
  BY FS_Product, FiniteOddUnions DEF Times
<1> QED
  BY <1>2, <1>3, <1>4, <1>5, OddUnionsParity DEF Eval

(* So are the monomials that Polynomial::replace takes the variable from. *)
LEMMA FiniteQuotient ==
  ASSUME NEW p, IsFiniteSet(p), NEW v
  PROVE  IsFiniteSet(Quotient(p, v))
<1> DEFINE f == [m \in With(p, v) |-> m \ {v}]
<1>1. IsFiniteSet(With(p, v))
  BY FS_Subset DEF With
<1>2. f \in Surjection(With(p, v), Quotient(p, v))
  BY DEF Surjection, Quotient
<1> QED
  BY <1>1, <1>2, FS_Surjection

(* Taking the variable v out of the monomials that hold it. *)
LEMMA EvalQuotient ==
  ASSUME NEW p, IsFiniteSet(p), NEW v, NEW T
  PROVE  Eval(With(p, v), T) <=> v \in T /\ Eval(Quotient(p, v), T)
<1> DEFINE A == TrueMonos(With(p, v), T)
           B == TrueMonos(Quotient(p, v), T)
           f == [m \in A |-> m \ {v}]
<1>1. IsFiniteSet(A) /\ IsFiniteSet(B)
  <2>1. IsFiniteSet(With(p, v))
    BY FS_Subset DEF With
  <2> QED BY <2>1, FiniteQuotient, FiniteTrueMonos
<1>2. CASE v \in T
  <2>1. f \in [A -> B]
    BY <1>2 DEF TrueMonos, Quotient, With
  <2>2. \A s, t \in A : f[s] = f[t] => s = t
    <3>1. \A s \in A : v \in s /\ s = f[s] \cup {v}
      BY DEF TrueMonos, With
    <3> QED BY <3>1
  <2>3. \A t \in B : \E s \in A : f[s] = t
    <3> SUFFICES ASSUME NEW t \in B PROVE \E s \in A : f[s] = t
      OBVIOUS
    <3>1. PICK m \in With(p, v) : t = m \ {v}
      BY DEF TrueMonos, Quotient
    <3>2. m \in A
      BY <1>2, <3>1 DEF TrueMonos, With
    <3> QED BY <3>1, <3>2
  <2>4. f \in Bijection(A, B)
    <3> HIDE DEF f, A, B
    <3> QED BY <2>1, <2>2, <2>3 DEF Bijection, Injection, Surjection, IsInjective
  <2>5. Cardinality(A) = Cardinality(B)
    <3>1. ExistsBijection(A, B)
      BY <2>4 DEF ExistsBijection
    <3> HIDE DEF A, B
    <3> QED BY <1>1, <3>1, FS_Bijection
  <2> QED BY <1>2, <2>5 DEF Eval
<1>3. CASE v \notin T
  <2>1. A = {}
    BY <1>3 DEF TrueMonos, With
  <2>2. ~ Odd(Cardinality(A))
    BY <2>1, FS_EmptySet DEF Odd
  <2> QED BY <1>3, <2>2 DEF Eval
<1> QED BY <1>2, <1>3

(***************************************************************************)
(* Polynomial::replace is sound: under every assignment in which the       *)
(* variable has the value of the polynomial put in its place, the value    *)
(* of the polynomial does not change.                                      *)
(***************************************************************************)
THEOREM EvalReplace ==
  ASSUME NEW p, NEW q, IsFiniteSet(p), IsFiniteSet(q), NEW v, NEW T,
         v \in T <=> Eval(q, T)
  PROVE  /\ IsFiniteSet(Replace(p, v, q))
         /\ Eval(Replace(p, v, q), T) <=> Eval(p, T)
<1> DEFINE W == With(p, v)
           R == p \ W
<1>1. /\ W \subseteq p /\ R \subseteq p
      /\ p = Xor(R, W)
  BY DEF With, Xor
<1>2. IsFiniteSet(W) /\ IsFiniteSet(R) /\ IsFiniteSet(Quotient(p, v))
  BY <1>1, FS_Subset, FiniteQuotient
<1>3. Eval(p, T) <=> ~(Eval(R, T) <=> Eval(W, T))
  <2> HIDE DEF W, R
  <2> QED BY <1>1, <1>2, EvalXor
<1>4. /\ IsFiniteSet(Times(Quotient(p, v), q))
      /\ Eval(Times(Quotient(p, v), q), T) <=> Eval(W, T)
  BY <1>2, EvalTimes, EvalQuotient
<1>5. /\ IsFiniteSet(Replace(p, v, q))
      /\ Eval(Replace(p, v, q), T) <=> ~(Eval(R, T) <=> Eval(Times(Quotient(p, v), q), T))
  BY <1>2, <1>4, EvalXor, OddXor DEF Replace
<1> QED BY <1>3, <1>4, <1>5

(* What replace leaves: only variables of the two polynomials, and the     *)
(* replaced one only if its replacement holds it.                          *)
THEOREM VarsReplace ==
  ASSUME NEW p, NEW q, NEW v
  PROVE  AllVars(Replace(p, v, q)) \subseteq (AllVars(p) \ {v}) \cup AllVars(q)
<1> SUFFICES ASSUME NEW m \in Replace(p, v, q)
             PROVE  m \subseteq (AllVars(p) \ {v}) \cup AllVars(q)
  BY DEF AllVars
<1>1. CASE m \in p \ With(p, v)
  BY <1>1 DEF With, AllVars
<1>2. CASE m \in Times(Quotient(p, v), q)
  <2>1. PICK x \in Quotient(p, v) \X q : m = Union(x)
    BY <1>2 DEF Times, OddUnions
  <2>2. x[1] \in Quotient(p, v) /\ x[2] \in q /\ m = x[1] \cup x[2]
    BY <2>1 DEF Union
  <2>3. x[1] \subseteq AllVars(p) \ {v}
    BY <2>2 DEF Quotient, With, AllVars
  <2>4. x[2] \subseteq AllVars(q)
    BY <2>2 DEF AllVars
  <2> QED BY <2>2, <2>3, <2>4
<1> QED BY <1>1, <1>2 DEF Replace, Xor

(* The polynomials over the variables are finitely many and finite. *)
LEMMA FinitePoly ==
  ASSUME NEW p \in Poly
  PROVE  IsFiniteSet(p)
<1>1. IsFiniteSet(Monomial)
  BY VarAssumption, FS_SUBSET DEF Monomial
<1> QED BY <1>1, FS_Subset DEF Poly

(* The value of a constant and of a variable. *)
LEMMA EvalSimple ==
  /\ \A b \in BOOLEAN : \A T : (Eval(Const(b), T) <=> b)
  /\ \A v, T : (Eval(VarPoly(v), T) <=> v \in T)
<1>1. ~ Odd(Cardinality({}))
  BY FS_EmptySet DEF Odd
<1>2. \A x : Odd(Cardinality({x}))
  <2>1. \A x : Cardinality({x}) = 1
    BY FS_Singleton
  <2>2. Odd(1)
    BY DEF Odd
  <2> QED BY <2>1, <2>2
<1>3. ASSUME NEW b \in BOOLEAN, NEW T PROVE (Eval(Const(b), T) <=> b)
  <2>1. CASE b
    <3>1. TrueMonos(Const(b), T) = {{}}
      BY <2>1 DEF TrueMonos, Const
    <3> QED BY <1>2, <2>1, <3>1 DEF Eval, Odd
  <2>2. CASE ~ b
    <3>1. TrueMonos(Const(b), T) = {}
      BY <2>2 DEF TrueMonos, Const
    <3> QED BY <1>1, <2>2, <3>1 DEF Eval, Odd
  <2> QED BY <2>1, <2>2
<1>4. ASSUME NEW v, NEW T PROVE (Eval(VarPoly(v), T) <=> v \in T)
  <2>1. CASE v \in T
    <3>1. TrueMonos(VarPoly(v), T) = {{v}}
      BY <2>1 DEF TrueMonos, VarPoly
    <3> QED BY <1>2, <2>1, <3>1 DEF Eval, Odd
  <2>2. CASE v \notin T
    <3>1. TrueMonos(VarPoly(v), T) = {}
      BY <2>2 DEF TrueMonos, VarPoly
    <3> QED BY <1>1, <2>2, <3>1 DEF Eval, Odd
  <2> QED BY <2>1, <2>2
<1> QED BY <1>3, <1>4

(* A polynomial is known by its variables. *)
LEMMA PolyVars ==
  ASSUME NEW p
  PROVE  p \in Poly <=> AllVars(p) \subseteq Var
BY DEF Poly, Monomial, AllVars

(* The value of a polynomial depends on its variables only. *)
LEMMA EvalAgrees ==
  ASSUME NEW p, NEW S, NEW T, \A v \in AllVars(p) : v \in S <=> v \in T
  PROVE  Eval(p, S) = Eval(p, T)
<1>1. TrueMonos(p, S) = TrueMonos(p, T)
  BY DEF TrueMonos, AllVars
<1> QED BY <1>1 DEF Eval

(* A polynomial that is one variable or a constant. *)
LEMMA VarOrConst ==
  ASSUME NEW l \in {VarPoly(v) : v \in Var} \cup {Const(b) : b \in BOOLEAN}
  PROVE  /\ l \in Poly
         /\ IsEmpty(l) => AllVars(l) = {}
         /\ ~ IsEmpty(l) => /\ SingleVar(l) \in Var
                            /\ l = VarPoly(SingleVar(l))
                            /\ AllVars(l) = {SingleVar(l)}
         /\ IsEmpty(l) => l = Const(IsInverted(l))
<1>1. CASE \E b \in BOOLEAN : l = Const(b)
  BY <1>1 DEF Const, IsEmpty, Monos, AllVars, Poly, Monomial, IsInverted
<1>2. CASE \E v \in Var : l = VarPoly(v)
  <2>0. PICK v \in Var : l = VarPoly(v)
    BY <1>2
  <2>1. AllVars(l) = {v} /\ Monos(l) = {{v}} /\ ~ IsEmpty(l) /\ l \in Poly
    BY <2>0 DEF VarPoly, AllVars, Monos, IsEmpty, Poly, Monomial
  <2>2. SingleVar(l) = v
    BY <2>1 DEF SingleVar
  <2> QED BY <2>0, <2>1, <2>2
<1> QED BY <1>1, <1>2
============================================================================
