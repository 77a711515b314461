------------------------- MODULE ConversionProofs -------------------------
(***************************************************************************)
(* The conversion to CNF (Conversion.tla) is right for any list of         *)
(* equations, any options and any number of problems in a row: no          *)
(* assertion fails, and the clauses, cut, tabulated, simplified and mixed, *)
(* have the solutions of the equations.                                    *)
(*                                                                         *)
(* First the operators: literals and clauses, the XORs that addXorClause   *)
(* cuts, the monomials that simplify pairs, models and solutions, and the  *)
(* tables.  Then two invariants: CourseOK, the state agrees with the place *)
(* the program is at, and MeaningOK, which adds what the clauses say at    *)
(* every one of those places.                                              *)
(***************************************************************************)
EXTENDS Conversion, AnfProofs, SequenceTheorems

(* A literal and its negation have opposite values. *)
LEMMA NegTrue ==
  ASSUME NEW l \in Nat \X BOOLEAN, NEW T
  PROVE  LitTrue(Neg(l), T) <=> ~ LitTrue(l, T)
<1>1. PICK v \in Nat, b \in BOOLEAN : l = <<v, b>>
  OBVIOUS
<1>2. l[1] = v /\ l[2] = b /\ Neg(l)[1] = v /\ Neg(l)[2] = ~ b
  BY <1>1 DEF Neg
<1> QED
  BY <1>2 DEF LitTrue

(***************************************************************************)
(* The clause with the changes F is false only where exactly the literals  *)
(* of F are true.                                                          *)
(***************************************************************************)
LEMMA FlippedFalse ==
  ASSUME NEW s \in Seq(Nat \X BOOLEAN), NEW T, NEW F \in SUBSET DOMAIN s
  PROVE  ClauseTrue(Flipped(s, F), T) <=> F # {k \in DOMAIN s : LitTrue(s[k], T)}
<1> DEFINE G == {k \in DOMAIN s : LitTrue(s[k], T)}
           C(k) == IF k \in F THEN Neg(s[k]) ELSE s[k]
<1>1. ASSUME NEW k \in DOMAIN s
      PROVE  LitTrue(C(k), T) <=> (k \in F <=> k \notin G)
  <2>1. s[k] \in Nat \X BOOLEAN
    OBVIOUS
  <2>2. k \in G <=> LitTrue(s[k], T)
    OBVIOUS
  <2>3. CASE k \in F
    BY <2>1, <2>2, <2>3, NegTrue
  <2>4. CASE k \notin F
    BY <2>2, <2>4
  <2> QED
    BY <2>3, <2>4
<1>2. ClauseTrue(Flipped(s, F), T) <=> \E k \in DOMAIN s : LitTrue(C(k), T)
  BY DEF ClauseTrue, Flipped
<1>3. F # G <=> \E k \in DOMAIN s : (k \in F <=> k \notin G)
  OBVIOUS
<1> QED
  BY <1>1, <1>2, <1>3

(***************************************************************************)
(* XOR_permutator::all_combinations(s, true) (xor_computer.cpp:66): its    *)
(* clauses are all true exactly where an odd number of the literals is.    *)
(***************************************************************************)
THEOREM CombinationsAreXor ==
  ASSUME NEW s \in Seq(Nat \X BOOLEAN), NEW T
  PROVE  (\A c \in all_combinations(s) : ClauseTrue(c, T)) <=> XorTrue(s, T)
<1> DEFINE G == {k \in DOMAIN s : LitTrue(s[k], T)}
<1>1. G \in SUBSET DOMAIN s
  OBVIOUS
<1>2. (\A c \in all_combinations(s) : ClauseTrue(c, T))
        <=> \A F \in EvenSubsets(DOMAIN s) : ClauseTrue(Flipped(s, F), T)
  BY DEF all_combinations
<1>3. \A F \in EvenSubsets(DOMAIN s) : ClauseTrue(Flipped(s, F), T) <=> F # G
  BY FlippedFalse DEF EvenSubsets
<1>4. G \in EvenSubsets(DOMAIN s) <=> ~ XorTrue(s, T)
  BY <1>1 DEF EvenSubsets, XorTrue
<1> QED
  BY <1>2, <1>3, <1>4

(***************************************************************************)
(* insert_equality_clauses (equationstosat.cpp:118): the clauses are true  *)
(* exactly where the new variable has the value of the product.            *)
(***************************************************************************)
THEOREM EqualityDefines ==
  ASSUME NEW e \in Nat, NEW x \in SUBSET (Nat \X BOOLEAN), NEW T
  PROVE  (\A c \in EqualityClauses(e, x) : ClauseTrue(c, T)) <=> (e \in T <=> evaluate(x, T))
<1>1. LitTrue(Lit(e, FALSE), T) <=> e \in T
  <2>1. Lit(e, FALSE)[1] = e /\ Lit(e, FALSE)[2] = FALSE
    BY DEF Lit
  <2> QED
    BY <2>1 DEF LitTrue
<1>2. LitTrue(Lit(e, TRUE), T) <=> e \notin T
  <2>1. Lit(e, TRUE)[1] = e /\ Lit(e, TRUE)[2] = TRUE
    BY DEF Lit
  <2> QED
    BY <2>1 DEF LitTrue
<1>3. \A l \in x : ClauseTrue({Lit(e, TRUE), l}, T) <=> e \notin T \/ LitTrue(l, T)
  BY <1>2 DEF ClauseTrue
<1>4. ClauseTrue({Lit(e, FALSE)} \cup {Neg(l) : l \in x}, T)
        <=> e \in T \/ \E l \in x : ~ LitTrue(l, T)
  <2>1. \A l \in x : LitTrue(Neg(l), T) <=> ~ LitTrue(l, T)
    BY NegTrue
  <2> QED
    BY <1>1, <2>1 DEF ClauseTrue
<1>5. (\A c \in EqualityClauses(e, x) : ClauseTrue(c, T))
        <=> /\ \A l \in x : ClauseTrue({Lit(e, TRUE), l}, T)
            /\ ClauseTrue({Lit(e, FALSE)} \cup {Neg(l) : l \in x}, T)
  BY DEF EqualityClauses
<1> QED
  BY <1>3, <1>4, <1>5 DEF evaluate

---------------------------------------------------------------------------
(* The numbers of the variables. *)
Upto(n)    == 0 .. n - 1
LitsOf(n)  == Upto(n) \X BOOLEAN

(* The variables of the equations are the first numbers.                   *)
LEMMA VarNumbers ==
  /\ NumVars \in Nat /\ Var = Upto(NumVars) /\ Var \subseteq Nat /\ IsFiniteSet(Var)
<1>1. IsFiniteSet(Var) /\ NumVars \in Nat
  BY VarAssumption, FS_CardinalityType DEF NumVars
<1> QED BY <1>1, ConversionAssumption DEF Upto

(* The parts of a literal. *)
LEMMA LitMake ==
  /\ \A v, b : Lit(v, b)[1] = v /\ Lit(v, b)[2] = b
  /\ \A S : \A v \in S : \A b \in BOOLEAN : Lit(v, b) \in S \X BOOLEAN
  /\ \A v, T : LitTrue(Lit(v, FALSE), T) <=> v \in T
  /\ \A v, T : LitTrue(Lit(v, TRUE), T) <=> v \notin T
BY DEF Lit, LitTrue

(* A literal is its variable and its sign.                                 *)
LEMMA LitParts ==
  ASSUME NEW S, NEW l \in S \X BOOLEAN
  PROVE  /\ l[1] \in S /\ l[2] \in BOOLEAN /\ l = Lit(l[1], l[2])
         /\ Neg(l) \in S \X BOOLEAN /\ Neg(l)[1] = l[1] /\ Neg(l)[2] = ~ l[2]
<1>1. PICK v \in S, b \in BOOLEAN : l = <<v, b>>
  OBVIOUS
<1>2. l[1] = v /\ l[2] = b /\ Neg(l) = <<v, ~ b>> /\ (~ b) \in BOOLEAN
  BY <1>1 DEF Neg
<1>3. l = Lit(l[1], l[2])
  BY <1>1, <1>2 DEF Lit
<1>4. Neg(l)[1] = v /\ Neg(l)[2] = ~ b /\ Neg(l) \in S \X BOOLEAN
  <2> DEFINE a == ~ b
  <2>1. a \in BOOLEAN /\ Neg(l) = <<v, a>>
    BY <1>2
  <2> HIDE DEF a
  <2>2. Neg(l)[1] = v /\ Neg(l)[2] = a /\ Neg(l) \in S \X BOOLEAN
    BY <2>1
  <2> QED BY <2>2 DEF a
<1> QED BY <1>1, <1>2, <1>3, <1>4

(* The value of literals, clauses, products and XORs depends on their      *)
(* variables only.                                                         *)
LEMMA LitAgrees ==
  ASSUME NEW N, NEW S, NEW T, \A v \in N : v \in S <=> v \in T,
         NEW l \in N \X BOOLEAN
  PROVE  LitTrue(l, S) <=> LitTrue(l, T)
BY LitParts DEF LitTrue

(* A clause has one value where its variables have the same values.        *)
LEMMA ClauseAgrees ==
  ASSUME NEW N, NEW S, NEW T, \A v \in N : v \in S <=> v \in T,
         NEW c \in SUBSET (N \X BOOLEAN)
  PROVE  /\ ClauseTrue(c, S) <=> ClauseTrue(c, T)
         /\ evaluate(c, S) <=> evaluate(c, T)
BY LitAgrees DEF ClauseTrue, evaluate

(* An XOR has one value where its variables have the same values.          *)
LEMMA XorAgrees ==
  ASSUME NEW N, NEW S, NEW T, \A v \in N : v \in S <=> v \in T,
         NEW s \in Seq(N \X BOOLEAN)
  PROVE  XorTrue(s, S) <=> XorTrue(s, T)
<1>1. \A k \in DOMAIN s : s[k] \in N \X BOOLEAN
  OBVIOUS
<1>2. \A k \in DOMAIN s : LitTrue(s[k], S) <=> LitTrue(s[k], T)
  BY <1>1, LitAgrees
<1>3. {k \in DOMAIN s : LitTrue(s[k], S)} = {k \in DOMAIN s : LitTrue(s[k], T)}
  BY <1>2
<1> QED BY <1>3 DEF XorTrue

---------------------------------------------------------------------------
(* The sequences that addXorClause cuts. *)

(* Parity of none and of one.                                              *)
LEMMA OddSmall ==
  /\ ~ Odd(0) /\ Odd(1)
  /\ \A x : Odd(Cardinality({x}))
  /\ ~ Odd(Cardinality({}))
<1>1. ~ Odd(0) /\ Odd(1)
  BY DEF Odd
<1> QED BY <1>1, FS_EmptySet, FS_Singleton

(* The true literals of a sequence are finitely many. *)
LEMMA TruePlaces ==
  ASSUME NEW S, NEW s \in Seq(S), NEW T
  PROVE  IsFiniteSet({k \in DOMAIN s : LitTrue(s[k], T)})
<1>1. DOMAIN s = 1 .. Len(s) /\ Len(s) \in Nat
  BY LenProperties
<1>2. IsFiniteSet(1 .. Len(s))
  BY <1>1, FS_Interval
<1>3. {k \in DOMAIN s : LitTrue(s[k], T)} \in SUBSET (1 .. Len(s))
  BY <1>1
<1> QED BY <1>2, <1>3, FS_Subset

(* An XOR of a sequence and another is the XOR of the two values. *)
LEMMA XorConcat ==
  ASSUME NEW S, NEW s \in Seq(S), NEW t \in Seq(S), NEW T
  PROVE  XorTrue(s \o t, T) <=> ~ (XorTrue(s, T) <=> XorTrue(t, T))
<1> DEFINE P(q) == {k \in DOMAIN q : LitTrue(q[k], T)}
           n == Len(s)
           B == {k + n : k \in P(t)}
           f == [k \in P(t) |-> k + n]
<1>1. /\ s \o t \in Seq(S) /\ DOMAIN s = 1 .. n /\ DOMAIN t = 1 .. Len(t)
      /\ n \in Nat /\ Len(t) \in Nat
      /\ DOMAIN (s \o t) = 1 .. n + Len(t)
      /\ \A i \in 1 .. n + Len(t) : (s \o t)[i] = IF i <= n THEN s[i] ELSE t[i - n]
  BY LenProperties, ConcatProperties
<1>2. P(s \o t) = P(s) \cup B
  <2>1. ASSUME NEW i \in P(s \o t) PROVE i \in P(s) \cup B
    <3>1. i \in 1 .. n + Len(t) /\ LitTrue((s \o t)[i], T)
      BY <1>1
    <3>2. CASE i <= n
      BY <1>1, <3>1, <3>2
    <3>3. CASE ~ (i <= n)
      <4>1. i - n \in 1 .. Len(t) /\ (s \o t)[i] = t[i - n] /\ i = (i - n) + n
        BY <1>1, <3>1, <3>3
      <4> QED BY <1>1, <3>1, <4>1
    <3> QED BY <3>2, <3>3
  <2>2. ASSUME NEW i \in P(s) PROVE i \in P(s \o t)
    BY <1>1
  <2>3. ASSUME NEW i \in B PROVE i \in P(s \o t)
    <3>1. PICK k \in P(t) : i = k + n
      OBVIOUS
    <3>2. k \in 1 .. Len(t) /\ LitTrue(t[k], T)
      BY <1>1
    <3>3. i \in 1 .. n + Len(t) /\ ~ (i <= n) /\ i - n = k
      BY <1>1, <3>1, <3>2
    <3>4. (s \o t)[i] = t[k]
      BY <1>1, <3>3
    <3> QED BY <1>1, <3>2, <3>3, <3>4
  <2> HIDE DEF P, B
  <2> QED BY <2>1, <2>2, <2>3
<1>3. P(s) \cap B = {}
  BY <1>1
<1>4. IsFiniteSet(P(s)) /\ IsFiniteSet(P(t))
  BY TruePlaces
<1>5. IsFiniteSet(B) /\ Cardinality(B) = Cardinality(P(t))
  <2>1. f \in [P(t) -> B] /\ \A i \in B : \E k \in P(t) : f[k] = i
    OBVIOUS
  <2>2. \A i, k \in P(t) : f[i] = f[k] => i = k
    BY <1>1
  <2> HIDE DEF f, P, B
  <2>3. f \in Bijection(P(t), B)
    BY <2>1, <2>2 DEF Bijection, Injection, Surjection, IsInjective
  <2>4. ExistsBijection(P(t), B)
    BY <2>3 DEF ExistsBijection
  <2> QED BY <1>4, <2>4, FS_Bijection
<1>6. Odd(Cardinality(P(s) \cup B)) <=> ~ (Odd(Cardinality(P(s))) <=> Odd(Cardinality(B)))
  <2> HIDE DEF P, B
  <2> QED BY <1>3, <1>4, <1>5, OddDisjointUnion
<1> QED BY <1>2, <1>5, <1>6 DEF XorTrue

(* The XOR of no literal and of one. *)
LEMMA XorSmall ==
  /\ \A T : ~ XorTrue(<<>>, T)
  /\ \A l, T : XorTrue(<<l>>, T) <=> LitTrue(l, T)
<1>1. ASSUME NEW T PROVE ~ XorTrue(<<>>, T)
  <2>1. {k \in DOMAIN <<>> : LitTrue(<<>>[k], T)} = {}
    OBVIOUS
  <2> QED BY <2>1, OddSmall DEF XorTrue
<1>2. ASSUME NEW l, NEW T PROVE XorTrue(<<l>>, T) <=> LitTrue(l, T)
  <2> DEFINE A == {k \in DOMAIN <<l>> : LitTrue(<<l>>[k], T)}
  <2>1. A = IF LitTrue(l, T) THEN {1} ELSE {}
    OBVIOUS
  <2>2. XorTrue(<<l>>, T) <=> Odd(Cardinality(A))
    BY DEF XorTrue
  <2> HIDE DEF A
  <2>3. CASE LitTrue(l, T)
    BY <2>1, <2>2, <2>3, OddSmall
  <2>4. CASE ~ LitTrue(l, T)
    BY <2>1, <2>2, <2>4, OddSmall
  <2> QED BY <2>3, <2>4
<1> QED BY <1>1, <1>2

(* A literal more. *)
LEMMA XorAppend ==
  ASSUME NEW S, NEW s \in Seq(S), NEW l \in S, NEW T
  PROVE  XorTrue(Append(s, l), T) <=> ~ (XorTrue(s, T) <=> LitTrue(l, T))
<1>1. Append(s, l) = s \o <<l>> /\ <<l>> \in Seq(S)
  BY AppendIsConcat
<1>2. XorTrue(s \o <<l>>, T) <=> ~ (XorTrue(s, T) <=> XorTrue(<<l>>, T))
  BY <1>1, XorConcat
<1> QED BY <1>1, <1>2, XorSmall

(* Negating the first literal negates the XOR. *)
LEMMA XorInverted ==
  ASSUME NEW s \in Seq(Nat \X BOOLEAN), s # <<>>, NEW T
  PROVE  XorTrue(Inverted(s), T) <=> ~ XorTrue(s, T)
<1> DEFINE P(q) == {k \in DOMAIN q : LitTrue(q[k], T)}
           A == P(s) \ {1}
<1>1. DOMAIN s = 1 .. Len(s) /\ Len(s) \in Nat \ {0} /\ DOMAIN Inverted(s) = DOMAIN s
      /\ 1 \in DOMAIN s
  BY LenProperties, EmptySeq DEF Inverted
<1>2. LitTrue(Inverted(s)[1], T) <=> ~ LitTrue(s[1], T)
  <2>1. s[1] \in Nat \X BOOLEAN /\ Inverted(s)[1] = Neg(s[1])
    BY <1>1 DEF Inverted
  <2> QED BY <2>1, NegTrue
<1>3. P(Inverted(s)) \ {1} = A
  BY <1>1 DEF Inverted
<1>4. IsFiniteSet(A)
  <2>1. IsFiniteSet(P(s))
    BY TruePlaces
  <2> HIDE DEF P
  <2> QED BY <2>1, FS_RemoveElement
<1>5. Odd(Cardinality(A \cup {1})) <=> ~ Odd(Cardinality(A))
  <2>1. A \cap {1} = {} /\ IsFiniteSet({1})
    BY FS_Singleton
  <2> HIDE DEF A
  <2> QED BY <1>4, <2>1, OddDisjointUnion, OddSmall
<1>6. /\ P(s) = IF LitTrue(s[1], T) THEN A \cup {1} ELSE A
      /\ P(Inverted(s)) = IF LitTrue(s[1], T) THEN A ELSE A \cup {1}
  BY <1>1, <1>2, <1>3
<1>7. Odd(Cardinality(P(Inverted(s)))) <=> ~ Odd(Cardinality(P(s)))
  <2> HIDE DEF P, A
  <2>1. CASE LitTrue(s[1], T)
    BY <1>5, <1>6, <2>1
  <2>2. CASE ~ LitTrue(s[1], T)
    BY <1>5, <1>6, <2>2
  <2> QED BY <2>1, <2>2
<1> QED BY <1>7 DEF XorTrue

---------------------------------------------------------------------------
(* The monomials that add_as_xor simplifies. *)

(* A set of extended monomials is finite. *)
LEMMA MonosFinite ==
  /\ \A S : S \subseteq ExtendedMonomial => IsFiniteSet(S)
  /\ \A x \in ExtendedMonomial : IsFiniteSet(x)
<1>1. IsFiniteSet(BOOLEAN)
  <2>1. BOOLEAN = {TRUE} \cup {FALSE}
    OBVIOUS
  <2>2. IsFiniteSet({TRUE}) /\ IsFiniteSet({FALSE})
    BY FS_Singleton
  <2> QED BY <2>1, <2>2, FS_Union
<1>2. IsFiniteSet(Var \X BOOLEAN)
  BY <1>1, VarNumbers, FS_Product
<1>3. IsFiniteSet(ExtendedMonomial)
  BY <1>2, FS_SUBSET DEF ExtendedMonomial
<1> QED BY <1>2, <1>3, FS_Subset DEF ExtendedMonomial

(* The sum of the monomials and of all but one. *)
LEMMA SumRemove ==
  ASSUME NEW S, IsFiniteSet(S), NEW x \in S, NEW T
  PROVE  Sum(S, T) <=> ~ (Sum(S \ {x}, T) <=> evaluate(x, T))
<1> DEFINE A == {y \in S \ {x} : evaluate(y, T)}
<1>1. IsFiniteSet(A) /\ IsFiniteSet({x}) /\ A \cap {x} = {}
  BY FS_Subset, FS_Singleton
<1>2. {y \in S : evaluate(y, T)} = IF evaluate(x, T) THEN A \cup {x} ELSE A
  OBVIOUS
<1>3. Odd(Cardinality(A \cup {x})) <=> ~ Odd(Cardinality(A))
  <2> HIDE DEF A
  <2> QED BY <1>1, OddDisjointUnion, OddSmall
<1>4. Sum(S \ {x}, T) <=> Odd(Cardinality(A))
  BY DEF Sum
<1>5. Sum(S, T) <=> Odd(Cardinality(IF evaluate(x, T) THEN A \cup {x} ELSE A))
  BY <1>2 DEF Sum
<1> HIDE DEF A
<1>6. CASE evaluate(x, T)
  BY <1>3, <1>4, <1>5, <1>6
<1>7. CASE ~ evaluate(x, T)
  BY <1>4, <1>5, <1>7
<1> QED BY <1>6, <1>7

(* A Monomial as an ExtendedMonomial (extendedmonomial.cpp:35). *)
LEMMA PositiveFacts ==
  ASSUME NEW m
  PROVE  /\ VarSet(Positive(m)) = m /\ ~ impossible(Positive(m))
         /\ \A T : evaluate(Positive(m), T) <=> m \subseteq T
         /\ m \subseteq Var => Positive(m) \in ExtendedMonomial
<1>0. /\ \A l \in Positive(m) : \E v \in m : l = Lit(v, FALSE)
      /\ \A v \in m : Lit(v, FALSE) \in Positive(m)
      /\ \A v, b : Lit(v, b)[1] = v /\ Lit(v, b)[2] = b
  BY LitMake DEF Positive
<1>1. VarSet(Positive(m)) = m
  <2>1. VarSet(Positive(m)) \subseteq m
    <3> SUFFICES ASSUME NEW l \in Positive(m) PROVE l[1] \in m
      BY DEF VarSet
    <3>1. PICK v \in m : l = Lit(v, FALSE)
      BY <1>0
    <3> QED BY <1>0, <3>1
  <2>2. m \subseteq VarSet(Positive(m))
    <3> SUFFICES ASSUME NEW v \in m PROVE \E l \in Positive(m) : l[1] = v
      BY DEF VarSet
    <3> QED BY <1>0
  <2> QED BY <2>1, <2>2
<1>2. ~ impossible(Positive(m))
  <2> SUFFICES ASSUME NEW v, Lit(v, TRUE) \in Positive(m) PROVE FALSE
    BY DEF impossible
  <2>1. PICK w \in m : Lit(v, TRUE) = Lit(w, FALSE)
    BY <1>0
  <2>2. Lit(v, TRUE)[2] = TRUE /\ Lit(w, FALSE)[2] = FALSE
    BY <1>0
  <2> QED BY <2>1, <2>2
<1>3. \A T : evaluate(Positive(m), T) <=> m \subseteq T
  <2>1. \A T : \A v \in m : LitTrue(Lit(v, FALSE), T) <=> v \in T
    BY LitMake
  <2>2. \A T : evaluate(Positive(m), T) => m \subseteq T
    BY <1>0, <2>1 DEF evaluate
  <2>3. \A T : m \subseteq T => evaluate(Positive(m), T)
    <3> SUFFICES ASSUME NEW T, m \subseteq T, NEW l \in Positive(m) PROVE LitTrue(l, T)
      BY DEF evaluate
    <3>1. PICK v \in m : l = Lit(v, FALSE)
      BY <1>0
    <3> QED BY <2>1, <3>1
  <2> QED BY <2>2, <2>3
<1>4. m \subseteq Var => Positive(m) \in ExtendedMonomial
  <2> SUFFICES ASSUME m \subseteq Var, NEW l \in Positive(m) PROVE l \in Var \X BOOLEAN
    BY DEF ExtendedMonomial
  <2>1. PICK v \in m : l = Lit(v, FALSE)
    BY <1>0
  <2> QED BY <2>1, LitMake
<1> QED BY <1>1, <1>2, <1>3, <1>4

(* The sum of the monomials of a polynomial is its value. *)
LEMMA SumPositive ==
  ASSUME NEW q, IsFiniteSet(q), NEW T
  PROVE  /\ Sum({Positive(m) : m \in q}, T) <=> Eval(q, T)
         /\ IsFiniteSet({Positive(m) : m \in q})
         /\ Cardinality({Positive(m) : m \in q}) = Cardinality(q)
<1> DEFINE Image(M) == {Positive(m) : m \in M}
<1>1. ASSUME NEW M, IsFiniteSet(M)
      PROVE  IsFiniteSet(Image(M)) /\ Cardinality(Image(M)) = Cardinality(M)
  <2> DEFINE f == [m \in M |-> Positive(m)]
  <2>1. f \in [M -> Image(M)] /\ \A x \in Image(M) : \E m \in M : f[m] = x
    OBVIOUS
  <2>2. \A m, n \in M : f[m] = f[n] => m = n
    <3>1. \A m \in M : VarSet(f[m]) = m
      BY PositiveFacts
    <3> HIDE DEF f
    <3> QED BY <3>1
  <2> HIDE DEF f, Image
  <2>3. ExistsBijection(M, Image(M))
    BY <2>1, <2>2 DEF ExistsBijection, Bijection, Injection, Surjection, IsInjective
  <2> QED BY <1>1, <2>3, FS_Bijection
<1>2. {x \in Image(q) : evaluate(x, T)} = Image(TrueMonos(q, T))
  BY PositiveFacts DEF TrueMonos
<1>3. Cardinality(Image(TrueMonos(q, T))) = Cardinality(TrueMonos(q, T))
  BY <1>1, FiniteTrueMonos
<1> QED BY <1>1, <1>2, <1>3 DEF Sum, Eval

---------------------------------------------------------------------------
(* The order of the list (monomial.h, operator<): a number is greater if   *)
(* its greatest digit that differs is set.                                 *)

(* A set of variables that is not empty has a greatest one.                *)
LEMMA GreatestNat ==
  ASSUME NEW n \in Nat, NEW S, S \subseteq Upto(n), S # {}
  PROVE  \E v \in S : \A u \in S : u <= v
<1> DEFINE B == {k \in Nat : \A u \in S : u <= k}
<1>1. \A u \in S : u \in Nat /\ u <= n
  BY DEF Upto
<1>2. PICK k \in B : \A j \in B : ~ (<<j, k>> \in OpToRel(<, Nat))
  <2>1. n \in B /\ B \subseteq Nat
    BY <1>1
  <2> HIDE DEF B
  <2> QED BY <2>1, NatLessThanWellFounded, WFMin, Zenon
<1>3. \A j \in B : ~ (j < k)
  BY <1>2 DEF OpToRel
<1>4. k \in S
  <2> SUFFICES ASSUME k \notin S PROVE FALSE
    OBVIOUS
  <2>1. \A u \in S : u <= k - 1
    BY <1>1
  <2>2. k - 1 \in B
    BY <1>1, <2>1
  <2> QED BY <1>3, <2>2
<1> QED BY <1>4

(* It is a strict total order. *)
LEMMA BeforeOrder ==
  /\ \A m \in SUBSET Var : ~ Before(m, m)
  /\ \A m, n \in SUBSET Var : m # n => Before(m, n) \/ Before(n, m)
  /\ \A m, n, p \in SUBSET Var : Before(m, n) /\ Before(n, p) => Before(m, p)
<1>1. \A m \in SUBSET Var : ~ Before(m, m)
  BY DEF Before
<1>2. ASSUME NEW m \in SUBSET Var, NEW n \in SUBSET Var, m # n
      PROVE  Before(m, n) \/ Before(n, m)
  <2> DEFINE D == (m \ n) \cup (n \ m)
  <2>1. D \subseteq Upto(NumVars) /\ D \subseteq Nat /\ D # {} /\ NumVars \in Nat
    BY <1>2, VarNumbers
  <2>2. PICK v \in D : \A u \in D : u <= v
    <3> HIDE DEF D
    <3> QED BY <2>1, GreatestNat
  <2>3. \A u \in D : u # v => u < v
    BY <2>1, <2>2
  <2> QED BY <2>2, <2>3 DEF Before
<1>3. ASSUME NEW m \in SUBSET Var, NEW n \in SUBSET Var, NEW p \in SUBSET Var,
             Before(m, n), Before(n, p)
      PROVE  Before(m, p)
  <2>1. PICK v \in n \ m : \A u \in m \ n : u < v
    BY <1>3 DEF Before
  <2>2. PICK w \in p \ n : \A u \in n \ p : u < w
    BY <1>3 DEF Before
  <2>3. v \in Nat /\ w \in Nat /\ v # w /\ m \subseteq Nat /\ n \subseteq Nat
    BY VarNumbers
  <2>4. CASE v < w
    <3>1. w \in p \ m
      BY <2>1, <2>2, <2>3, <2>4
    <3>2. \A u \in m \ p : u < w
      BY <2>1, <2>2, <2>3, <2>4
    <3> QED BY <3>1, <3>2 DEF Before
  <2>5. CASE w < v
    <3>1. v \in p \ m
      BY <2>1, <2>2, <2>3, <2>5
    <3>2. \A u \in m \ p : u < v
      BY <2>1, <2>2, <2>3, <2>5
    <3> QED BY <3>1, <3>2 DEF Before
  <2> QED BY <2>3, <2>4, <2>5
<1> QED BY <1>1, <1>2, <1>3

(* The monomials of a list: possible, and no two with the same variables.  *)
MonosOK(L) == /\ L \subseteq ExtendedMonomial
              /\ \A x \in L : ~ impossible(x)
              /\ \A x, y \in L : VarSet(x) = VarSet(y) => x = y

(* Such a list has a first one. *)
LEMMA FirstFacts ==
  ASSUME NEW S, MonosOK(S), S # {}
  PROVE  First(S) \in S
<1> DEFINE Below(x) == {y \in S : Before(VarSet(y), VarSet(x))}
           X == {Below(x) : x \in S}
<1>1. IsFiniteSet(S) /\ \A x \in S : VarSet(x) \in SUBSET Var
  BY MonosFinite DEF MonosOK, VarSet, ExtendedMonomial
<1>2. X \subseteq SUBSET S /\ X # {}
  OBVIOUS
<1>3. PICK U \in X : \A V \in X : ~ (V \subseteq U /\ V # U)
  <2> HIDE DEF X
  <2> QED BY <1>1, <1>2, NoMinimalSet
<1>4. PICK x \in S : U = Below(x)
  BY <1>3
<1>5. ASSUME NEW y \in S \ {x} PROVE Before(VarSet(x), VarSet(y))
  <2> SUFFICES ASSUME Before(VarSet(y), VarSet(x)) PROVE FALSE
    <3>1. VarSet(x) # VarSet(y)
      BY DEF MonosOK
    <3> QED BY <1>1, <3>1, BeforeOrder
  <2>1. Below(y) \subseteq Below(x)
    <3> SUFFICES ASSUME NEW w \in S, Before(VarSet(w), VarSet(y))
                 PROVE  Before(VarSet(w), VarSet(x))
      OBVIOUS
    <3>1. VarSet(w) \in SUBSET Var /\ VarSet(y) \in SUBSET Var /\ VarSet(x) \in SUBSET Var
      BY <1>1
    <3> QED BY <3>1, BeforeOrder
  <2>2. y \in Below(x) /\ y \notin Below(y)
    BY <1>1, BeforeOrder
  <2>3. Below(y) \in X
    OBVIOUS
  <2> QED BY <1>3, <1>4, <2>1, <2>2, <2>3
<1>6. \E z \in S : \A y \in S \ {z} : Before(VarSet(z), VarSet(y))
  BY <1>5
<1> QED BY <1>6 DEF First
(* A possible monomial has every variable with one sign. *)
LEMMA OneSign ==
  ASSUME NEW y \in ExtendedMonomial, ~ impossible(y)
  PROVE  \A j, k \in y : j[1] = k[1] => j = k
<1>1. \A k \in y : k[2] \in BOOLEAN /\ k = Lit(k[1], k[2])
  BY LitParts DEF ExtendedMonomial
<1> SUFFICES ASSUME NEW j \in y, NEW k \in y, j[1] = k[1], j # k PROVE FALSE
  OBVIOUS
<1>2. j[2] # k[2] /\ j[2] \in BOOLEAN /\ k[2] \in BOOLEAN
  BY <1>1
<1>3. j = Lit(j[1], j[2]) /\ k = Lit(j[1], k[2]) /\ j[1] \in VarSet(y)
  BY <1>1 DEF VarSet
<1>4. CASE j[2] = TRUE
  <2>1. k[2] = FALSE
    BY <1>2, <1>4
  <2>2. {Lit(j[1], FALSE), Lit(j[1], TRUE)} \subseteq y
    BY <1>3, <1>4, <2>1
  <2> QED BY <1>3, <2>2 DEF impossible
<1>5. CASE j[2] = FALSE
  <2>1. k[2] = TRUE
    BY <1>2, <1>5
  <2>2. {Lit(j[1], FALSE), Lit(j[1], TRUE)} \subseteq y
    BY <1>3, <1>5, <2>1
  <2> QED BY <1>3, <2>2 DEF impossible
<1> QED BY <1>2, <1>4, <1>5

(* ExtendedMonomial::negate: the other sign for one variable, and the      *)
(* others as they were.                                                    *)
LEMMA NegateFacts ==
  ASSUME NEW y \in ExtendedMonomial, ~ impossible(y), NEW l \in y
  PROVE  /\ negate(y, l[1]) = (y \ {l}) \cup {Neg(l)}
         /\ negate(y, l[1]) \in ExtendedMonomial /\ ~ impossible(negate(y, l[1]))
         /\ VarSet(negate(y, l[1])) = VarSet(y)
<1> DEFINE z == negate(y, l[1])
<1>1. \A k \in y : /\ k \in Var \X BOOLEAN /\ k[1] \in Var /\ k[2] \in BOOLEAN
                   /\ k = Lit(k[1], k[2])
                   /\ Neg(k) \in Var \X BOOLEAN /\ Neg(k)[1] = k[1] /\ Neg(k)[2] = ~ k[2]
  BY LitParts DEF ExtendedMonomial
<1>2. \A j, k \in y : j[1] = k[1] => j = k
  BY OneSign
<1>3. z = (y \ {l}) \cup {Neg(l)}
  <2>1. z = {IF k[1] = l[1] THEN Neg(k) ELSE k : k \in y}
    BY DEF negate
  <2>2. \A k \in y : k[1] = l[1] <=> k = l
    BY <1>2
  <2> QED BY <2>1, <2>2
<1>4. z \in ExtendedMonomial
  BY <1>1, <1>3 DEF ExtendedMonomial
<1>5. VarSet(z) = VarSet(y)
  <2>1. VarSet(z) \subseteq VarSet(y)
    BY <1>1, <1>3 DEF VarSet
  <2>2. ASSUME NEW k \in y PROVE k[1] \in VarSet(z)
    <3>1. CASE k = l
      BY <1>1, <1>3, <3>1 DEF VarSet
    <3>2. CASE k # l
      BY <1>3, <3>2 DEF VarSet
    <3> QED BY <3>1, <3>2
  <2> QED BY <2>1, <2>2 DEF VarSet
<1>6. ~ impossible(z)
  <2>1. \A j, k \in z : j[1] = k[1] => j = k
    BY <1>1, <1>2, <1>3
  <2> SUFFICES ASSUME NEW v, Lit(v, FALSE) \in z, Lit(v, TRUE) \in z PROVE FALSE
    BY DEF impossible
  <2>2. Lit(v, FALSE) = Lit(v, TRUE)
    <3>1. Lit(v, FALSE)[1] = v /\ Lit(v, TRUE)[1] = v
      BY LitMake
    <3> QED BY <2>1, <3>1
  <2>3. Lit(v, FALSE)[2] = FALSE /\ Lit(v, TRUE)[2] = TRUE
    BY LitMake
  <2> QED BY <2>2, <2>3
<1> QED BY <1>3, <1>4, <1>5, <1>6

(***************************************************************************)
(* ExtendedMonomialList::simplify (equationstosat.h:98): x + y = x + x * l *)
(* is x times not l, where y has one literal l more than x.                *)
(***************************************************************************)
LEMMA SimplifiesPair ==
  ASSUME NEW L, MonosOK(L), NEW x \in L, NEW y \in L, x \subseteq y, deg(y) = deg(x) + 1
  PROVE  LET z == negate(y, SingleVarDiff(x, y))
             K == (L \ {x, y}) \cup {z}
         IN  /\ z \in ExtendedMonomial /\ VarSet(z) = VarSet(y) /\ z \notin L \ {x, y}
             /\ MonosOK(K) /\ Cardinality(K) = Cardinality(L) - 1
             /\ \A T : Sum(K, T) <=> Sum(L, T)
<1> DEFINE z == negate(y, SingleVarDiff(x, y))
           R == L \ {x, y}
           K == R \cup {z}
<1>1. /\ x \in ExtendedMonomial /\ y \in ExtendedMonomial /\ ~ impossible(y)
      /\ IsFiniteSet(x) /\ IsFiniteSet(y) /\ IsFiniteSet(L)
      /\ Cardinality(x) \in Nat /\ Cardinality(y) = Cardinality(x) + 1
  BY MonosFinite, FS_CardinalityType DEF MonosOK, deg
<1>2. PICK l \in y : y \ x = {l}
  <2>1. IsFiniteSet(y \ x) /\ Cardinality(y \ x) = Cardinality(y) - Cardinality(y \cap x)
    BY <1>1, FS_Difference
  <2>2. Cardinality(y \cap x) = Cardinality(x)
    <3>1. y \cap x = x
      OBVIOUS
    <3> QED BY <3>1
  <2>3. Cardinality(y \ x) = 1
    BY <1>1, <2>1, <2>2
  <2>4. \E l : y \ x = {l}
    BY <2>1, <2>3, FS_Singleton
  <2> QED BY <2>4
<1>3. /\ \A k \in y : /\ k \in Var \X BOOLEAN /\ k[1] \in Var
                      /\ Neg(k)[1] = k[1] /\ k \in Nat \X BOOLEAN
      /\ y = x \cup {l} /\ l \notin x
  BY <1>1, <1>2, LitParts, VarNumbers DEF ExtendedMonomial
<1>4. /\ negate(y, l[1]) = (y \ {l}) \cup {Neg(l)}
      /\ negate(y, l[1]) \in ExtendedMonomial /\ ~ impossible(negate(y, l[1]))
      /\ VarSet(negate(y, l[1])) = VarSet(y)
  BY <1>1, NegateFacts
<1>5. SingleVarDiff(x, y) = l[1]
  <2>1. l[1] \in VarSet(y) /\ \A v \in VarSet(y) : v \notin VarSet(x) => v = l[1]
    BY <1>3 DEF VarSet
  <2>2. l[1] \notin VarSet(x)
    BY <1>1, <1>3, OneSign DEF VarSet
  <2> QED BY <2>1, <2>2 DEF SingleVarDiff
<1>6. /\ z = x \cup {Neg(l)} /\ z \in ExtendedMonomial /\ ~ impossible(z)
      /\ VarSet(z) = VarSet(y)
  BY <1>3, <1>4, <1>5
<1>7. x # y /\ z \notin R /\ MonosOK(K)
  <2>1. \A w \in R : VarSet(w) # VarSet(z)
    BY <1>6 DEF MonosOK
  <2>2. x # y
    BY <1>3
  <2> HIDE DEF z
  <2>3. MonosOK(K)
    BY <1>6, <2>1 DEF MonosOK
  <2> QED BY <2>1, <2>2, <2>3
<1>8. Cardinality(K) = Cardinality(L) - 1
  <2>1. /\ IsFiniteSet(L \ {x}) /\ Cardinality(L \ {x}) = Cardinality(L) - 1
        /\ Cardinality(L) \in Nat
    BY <1>1, FS_RemoveElement, FS_CardinalityType
  <2>2. R = (L \ {x}) \ {y} /\ y \in L \ {x}
    BY <1>7
  <2>3. IsFiniteSet(R) /\ Cardinality(R) = Cardinality(L) - 2 /\ Cardinality(R) \in Nat
    <3> HIDE DEF R
    <3>1. IsFiniteSet(R) /\ Cardinality(R) = Cardinality(L \ {x}) - 1
      BY <2>1, <2>2, FS_RemoveElement
    <3>2. Cardinality(R) \in Nat
      BY <3>1, FS_CardinalityType
    <3> QED BY <2>1, <3>1, <3>2
  <2> HIDE DEF R, z
  <2>4. Cardinality(K) = Cardinality(R) + 1
    BY <1>7, <2>3, FS_AddElement
  <2> QED BY <2>1, <2>3, <2>4
<1>9. ASSUME NEW T PROVE Sum(K, T) <=> Sum(L, T)
  <2>1. IsFiniteSet(L \ {x}) /\ IsFiniteSet(K)
    BY <1>1, <1>7, MonosFinite, FS_RemoveElement DEF MonosOK
  <2>2. R = (L \ {x}) \ {y} /\ y \in L \ {x} /\ K \ {z} = R /\ z \in K
    BY <1>7
  <2> HIDE DEF R, z, K
  <2>3. Sum(L, T) <=> ~ (Sum(L \ {x}, T) <=> evaluate(x, T))
    BY <1>1, SumRemove
  <2>4. Sum(L \ {x}, T) <=> ~ (Sum(R, T) <=> evaluate(y, T))
    BY <2>1, <2>2, SumRemove
  <2>5. Sum(K, T) <=> ~ (Sum(R, T) <=> evaluate(z, T))
    BY <2>1, <2>2, SumRemove
  <2>6. /\ evaluate(y, T) <=> evaluate(x, T) /\ LitTrue(l, T)
        /\ evaluate(z, T) <=> evaluate(x, T) /\ LitTrue(Neg(l), T)
    BY <1>3, <1>6 DEF evaluate
  <2>7. LitTrue(Neg(l), T) <=> ~ LitTrue(l, T)
    BY <1>3, NegTrue
  <2> QED BY <2>3, <2>4, <2>5, <2>6, <2>7
<1> QED BY <1>6, <1>7, <1>8, <1>9

---------------------------------------------------------------------------
(* Models and solutions.  Each model is a solution with values for the new *)
(* variables, each solution is in one model, and in one only.              *)
Matches(M, E) ==
  /\ \A U \in M : U \cap Var \in Solutions(E)
  /\ \A T \in Solutions(E) : \E U \in M : U \cap Var = T
  /\ \A U, V \in M : U \cap Var = V \cap Var => U = V

(* That is what ModelsKept and FileRight compare. *)
LEMMA MatchesSame ==
  ASSUME NEW M, NEW E, Matches(M, E)
  PROVE  SameSolutions(M, E)
<1> DEFINE f == [U \in M |-> U \cap Var]
           S == Solutions(E)
<1>1. {U \cap Var : U \in M} = S
  BY DEF Matches
<1>2. f \in [M -> S] /\ (\A U, V \in M : f[U] = f[V] => U = V) /\ \A T \in S : \E U \in M : f[U] = T
  BY DEF Matches
<1>3. IsFiniteSet(S)
  BY VarNumbers, FS_SUBSET, FS_Subset DEF Solutions
<1> HIDE DEF f, S
<1>4. f \in Bijection(M, S)
  BY <1>2 DEF Bijection, Injection, Surjection, IsInjective
<1>5. IsFiniteSet(M)
  BY <1>3, <1>4, FS_Injection DEF Bijection
<1>6. Cardinality(S) = Cardinality(M)
  BY <1>4, <1>5, FS_Bijection DEF ExistsBijection
<1> QED BY <1>1, <1>6 DEF SameSolutions, S

(* One more equation, and what says the same of the models. *)
LEMMA MatchesRestrict ==
  ASSUME NEW M, NEW E, Matches(M, E), NEW e, NEW K, K \subseteq M,
         \A U \in M : U \in K <=> Satisfied(e, U \cap Var)
  PROVE  Matches(K, E \cup {e})
<1>1. \A T : T \in Solutions(E \cup {e}) <=> T \in Solutions(E) /\ Satisfied(e, T)
  BY DEF Solutions
<1>2. \A U \in K : U \cap Var \in Solutions(E \cup {e})
  BY <1>1 DEF Matches
<1>3. ASSUME NEW T \in Solutions(E \cup {e}) PROVE \E U \in K : U \cap Var = T
  <2>1. PICK U \in M : U \cap Var = T
    BY <1>1 DEF Matches
  <2> QED BY <1>1, <2>1
<1> QED BY <1>2, <1>3 DEF Matches

(* One more variable, with a value that the others determine. *)
LEMMA MatchesExtend ==
  ASSUME NEW n \in Nat, NumVars <= n, NEW M, M \subseteq SUBSET Upto(n), NEW E, Matches(M, E),
         NEW G, NEW K,
         \A U : U \in K <=> /\ U \in SUBSET Upto(n+1) /\ U \cap Upto(n) \in M
                            /\ n \in U <=> U \cap Upto(n) \in G
  PROVE  Matches(K, E)
<1>1. Upto(n+1) = Upto(n) \cup {n} /\ n \notin Upto(n)
  BY DEF Upto
<1>2. Var \subseteq Upto(n)
  BY VarNumbers DEF Upto
<1>3. \A U \in K : /\ U \cap Upto(n) \in M /\ (U \cap Upto(n)) \cap Var = U \cap Var
                   /\ U = IF U \cap Upto(n) \in G THEN (U \cap Upto(n)) \cup {n} ELSE U \cap Upto(n)
  BY <1>1, <1>2
<1>4. \A U \in K : U \cap Var \in Solutions(E)
  BY <1>3 DEF Matches
<1>5. ASSUME NEW T \in Solutions(E) PROVE \E U \in K : U \cap Var = T
  <2>1. PICK V \in M : V \cap Var = T
    BY DEF Matches
  <2> DEFINE U == IF V \in G THEN V \cup {n} ELSE V
  <2>2. U \in SUBSET Upto(n+1) /\ U \cap Upto(n) = V /\ (n \in U <=> V \in G)
    BY <1>1
  <2>3. U \cap Var = V \cap Var
    BY <1>1, <1>2
  <2> HIDE DEF U
  <2>4. U \in K
    BY <2>2
  <2> QED BY <2>1, <2>3, <2>4
<1>6. ASSUME NEW U \in K, NEW V \in K, U \cap Var = V \cap Var PROVE U = V
  <2> DEFINE W == U \cap Upto(n)
  <2>1. U \cap Upto(n) = V \cap Upto(n)
    <3>1. /\ U \cap Upto(n) \in M /\ V \cap Upto(n) \in M
          /\ (U \cap Upto(n)) \cap Var = (V \cap Upto(n)) \cap Var
      BY <1>3, <1>6
    <3> QED BY <3>1 DEF Matches
  <2>2. U = IF W \in G THEN W \cup {n} ELSE W
    BY <1>3
  <2>3. V = IF W \in G THEN W \cup {n} ELSE W
    BY <1>3, <2>1
  <2> QED BY <2>2, <2>3
<1> QED BY <1>4, <1>5, <1>6 DEF Matches

(* Clauses and XORs that are added. *)
LEMMA ModelsRestrict ==
  ASSUME NEW n, NEW C, NEW X
  PROVE  /\ \A D, U : U \in Models(n, C \cup D, X) <=>
              U \in Models(n, C, X) /\ \A c \in D : ClauseTrue(c, U)
         /\ \A s, U : U \in Models(n, C, X \cup {s}) <=> U \in Models(n, C, X) /\ XorTrue(s, U)
         /\ Models(n, C, X) \subseteq SUBSET Upto(n)
BY DEF Models, Upto

(* Clauses that define a new variable. *)
LEMMA ModelsExtend ==
  ASSUME NEW n \in Nat, NEW C \in SUBSET SUBSET LitsOf(n), NEW X \in SUBSET Seq(LitsOf(n)),
         NEW D, NEW G,
         \A U \in SUBSET Upto(n+1) :
           (\A c \in D : ClauseTrue(c, U)) <=> (n \in U <=> U \cap Upto(n) \in G)
  PROVE  \A U : U \in Models(n+1, C \cup D, X)
                 <=> /\ U \in SUBSET Upto(n+1) /\ U \cap Upto(n) \in Models(n, C, X)
                     /\ n \in U <=> U \cap Upto(n) \in G
<1>1. ASSUME NEW U \in SUBSET Upto(n+1)
      PROVE  U \in Models(n+1, C, X) <=> U \cap Upto(n) \in Models(n, C, X)
  <2> DEFINE V == U \cap Upto(n)
             N == Upto(n)
  <2>1. \A v \in N : v \in U <=> v \in V
    OBVIOUS
  <2>2. V \in SUBSET Upto(n)
    OBVIOUS
  <2> HIDE DEF V
  <2>3. \A c \in C : ClauseTrue(c, U) <=> ClauseTrue(c, V)
    <3> SUFFICES ASSUME NEW c \in C PROVE ClauseTrue(c, U) <=> ClauseTrue(c, V)
      OBVIOUS
    <3>1. c \in SUBSET (N \X BOOLEAN)
      BY DEF LitsOf
    <3> HIDE DEF N
    <3> QED BY <2>1, <3>1, ClauseAgrees
  <2>4. \A s \in X : XorTrue(s, U) <=> XorTrue(s, V)
    <3> SUFFICES ASSUME NEW s \in X PROVE XorTrue(s, U) <=> XorTrue(s, V)
      OBVIOUS
    <3>1. s \in Seq(N \X BOOLEAN)
      BY DEF LitsOf
    <3> HIDE DEF N
    <3> QED BY <2>1, <3>1, XorAgrees
  <2> QED BY <2>2, <2>3, <2>4 DEF Models, Upto, V
<1>2. \A U : U \in Models(n+1, C \cup D, X) <=>
               U \in Models(n+1, C, X) /\ \A c \in D : ClauseTrue(c, U)
  BY DEF Models
<1>3. \A U \in Models(n+1, C, X) : U \in SUBSET Upto(n+1)
  BY DEF Models, Upto
<1> QED BY <1>1, <1>2, <1>3

(* An equation looks at the variables of the arrays only. *)
LEMMA SatisfiedVars ==
  ASSUME NEW p \in Poly, NEW U
  PROVE  Eval(p, U \cap Var) = Eval(p, U)
<1>1. AllVars(p) \subseteq Var
  BY PolyVars
<1>2. \A v \in AllVars(p) : v \in U \cap Var <=> v \in U
  BY <1>1
<1> QED BY <1>2, EvalAgrees

---------------------------------------------------------------------------
(* add_karnaugh_table *)

(* The cubes of a cover hold exactly where the polynomial has the value.   *)
LEMMA CoverTrue ==
  ASSUME NEW p \in Poly, NEW b \in BOOLEAN, NEW C \in Covers(p, b)
  PROVE  /\ \A x \in C : x \in SUBSET LitsOf(NumVars)
         /\ \A U : (\E x \in C : evaluate(x, U)) <=> Eval(p, U) = b
<1> DEFINE A == AllVars(p)
<1>1. A \subseteq Var /\ Var = Upto(NumVars)
  BY PolyVars, VarNumbers
<1>2. ASSUME NEW U, NEW x \in SUBSET (A \X BOOLEAN)
      PROVE  /\ U \cap A \in SUBSET A /\ Eval(p, U \cap A) = Eval(p, U)
             /\ evaluate(x, U \cap A) <=> evaluate(x, U)
  <2>1. \A v \in A : v \in U \cap A <=> v \in U
    OBVIOUS
  <2>2. Eval(p, U \cap A) = Eval(p, U)
    BY <2>1, EvalAgrees
  <2> HIDE DEF A
  <2>3. evaluate(x, U \cap A) <=> evaluate(x, U)
    <3> DEFINE V == U \cap A
    <3>1. \A v \in A : v \in V <=> v \in U
      OBVIOUS
    <3> HIDE DEF V
    <3>2. evaluate(x, V) <=> evaluate(x, U)
      BY <3>1, ClauseAgrees
    <3> QED BY <3>2 DEF V
  <2> QED BY <2>2, <2>3
<1>3. C \subseteq Implicants(p, b)
  BY DEF Covers
<1>4. \A x \in C : x \in SUBSET (A \X BOOLEAN) /\ Within(x, p, b)
  BY <1>3 DEF Implicants, Cubes
<1>5. \A x \in C : x \in SUBSET LitsOf(NumVars)
  BY <1>1, <1>4 DEF LitsOf
<1>6. ASSUME NEW U, NEW x \in C, evaluate(x, U) PROVE Eval(p, U) = b
  BY <1>2, <1>4, <1>6 DEF Within
<1>7. ASSUME NEW U, Eval(p, U) = b PROVE \E x \in C : evaluate(x, U)
  <2>1. \A T \in SUBSET A : Eval(p, T) = b => \E x \in C : evaluate(x, T)
    BY DEF Covers
  <2>2. U \cap A \in SUBSET A /\ Eval(p, U \cap A) = b
    <3>1. {} \in SUBSET (A \X BOOLEAN)
      OBVIOUS
    <3> QED BY <1>2, <1>7, <3>1
  <2>3. PICK x \in C : evaluate(x, U \cap A)
    BY <2>1, <2>2
  <2> QED BY <1>2, <1>4, <2>3
<1> QED BY <1>5, <1>6, <1>7(* The clause that forbids a cube, with another literal and without. *)
LEMMA CubeClause ==
  ASSUME NEW S, S \subseteq Nat, NEW x \in SUBSET (S \X BOOLEAN), NEW a \in S \X BOOLEAN
  PROVE  /\ {Neg(l) : l \in x} \in SUBSET (S \X BOOLEAN)
         /\ {a} \cup {Neg(l) : l \in x} \in SUBSET (S \X BOOLEAN)
         /\ \A U : ClauseTrue({Neg(l) : l \in x}, U) <=> ~ evaluate(x, U)
         /\ \A U : ClauseTrue({a} \cup {Neg(l) : l \in x}, U)
                     <=> LitTrue(a, U) \/ ~ evaluate(x, U)
<1> DEFINE N == {Neg(l) : l \in x}
<1>1. \A l \in x : Neg(l) \in S \X BOOLEAN
  BY LitParts
<1>2. \A l \in x : \A U : LitTrue(Neg(l), U) <=> ~ LitTrue(l, U)
  <2>1. \A l \in x : l \in Nat \X BOOLEAN
    OBVIOUS
  <2> QED BY <2>1, NegTrue
<1>3. N \in SUBSET (S \X BOOLEAN)
  BY <1>1
<1>4. \A U : ClauseTrue(N, U) <=> ~ evaluate(x, U)
  BY <1>2 DEF ClauseTrue, evaluate
<1> HIDE DEF N
<1>5. \A U : ClauseTrue({a} \cup N, U) <=> LitTrue(a, U) \/ ClauseTrue(N, U)
  BY DEF ClauseTrue
<1> QED BY <1>3, <1>4, <1>5 DEF N

(***************************************************************************)
(* add_karnaugh_table (equationstosat.cpp): the clauses of the table hold  *)
(* exactly where the equation does.                                        *)
(***************************************************************************)
THEOREM TableRight ==
  ASSUME NEW left \in Lefts, NEW p \in Poly,
         NEW on \in Covers(p, TRUE), NEW off \in Covers(p, FALSE)
  PROVE  /\ TableClauses(left, p, on, off) \subseteq SUBSET LitsOf(NumVars)
         /\ \A U : (\A c \in TableClauses(left, p, on, off) : ClauseTrue(c, U))
                     <=> Eval(left, U) = Eval(p, U)
<1> DEFINE S == Upto(NumVars)
           v == SingleVar(left)
           Cl(a, x) == {a} \cup {Neg(l) : l \in x}
           Nc(x) == {Neg(l) : l \in x}
<1>1. S \subseteq Nat /\ Var = S
  BY VarNumbers DEF Upto
<1>2. /\ \A x \in on \cup off : x \in SUBSET (S \X BOOLEAN)
      /\ \A U : (\E x \in on : evaluate(x, U)) <=> Eval(p, U) = TRUE
      /\ \A U : (\E x \in off : evaluate(x, U)) <=> Eval(p, U) = FALSE
  BY CoverTrue DEF LitsOf
<1>3. \A U : Eval(p, U) \in BOOLEAN
  BY DEF Eval, Odd
<1>4. CASE IsVar(left)
  <2>1. v \in S /\ \A U : Eval(left, U) <=> v \in U
    BY <1>1, <1>4, VarOrConst, EvalSimple DEF IsVar, Lefts
  <2>2. TableClauses(left, p, on, off) =
          {Cl(Lit(v, FALSE), x) : x \in on} \cup {Cl(Lit(v, TRUE), x) : x \in off}
    BY <1>4 DEF TableClauses
  <2> DEFINE a == Lit(v, FALSE)
             b == Lit(v, TRUE)
  <2>3. a \in S \X BOOLEAN /\ b \in S \X BOOLEAN
    BY <2>1, LitMake
  <2>4. \A U : (LitTrue(a, U) <=> v \in U) /\ (LitTrue(b, U) <=> v \notin U)
    BY LitMake
  <2>5. TableClauses(left, p, on, off) = {Cl(a, x) : x \in on} \cup {Cl(b, x) : x \in off}
    BY <2>2
  <2> HIDE DEF a, b, v
  <2>6. \A x \in on \cup off :
          /\ Cl(a, x) \in SUBSET (S \X BOOLEAN) /\ Cl(b, x) \in SUBSET (S \X BOOLEAN)
          /\ \A U : (ClauseTrue(Cl(a, x), U) <=> LitTrue(a, U) \/ ~ evaluate(x, U))
          /\ \A U : (ClauseTrue(Cl(b, x), U) <=> LitTrue(b, U) \/ ~ evaluate(x, U))
    <3> SUFFICES ASSUME NEW x \in on \cup off
                 PROVE  /\ Cl(a, x) \in SUBSET (S \X BOOLEAN) /\ Cl(b, x) \in SUBSET (S \X BOOLEAN)
                        /\ \A U : (ClauseTrue(Cl(a, x), U) <=> LitTrue(a, U) \/ ~ evaluate(x, U))
                        /\ \A U : (ClauseTrue(Cl(b, x), U) <=> LitTrue(b, U) \/ ~ evaluate(x, U))
      OBVIOUS
    <3>1. x \in SUBSET (S \X BOOLEAN)
      BY <1>2
    <3> HIDE DEF S
    <3> QED BY <1>1, <2>3, <3>1, CubeClause
  <2> HIDE DEF Cl, S
  <2>7. TableClauses(left, p, on, off) \subseteq SUBSET LitsOf(NumVars)
    BY <2>5, <2>6 DEF LitsOf, S
  <2>8. ASSUME NEW U
        PROVE  (\A c \in TableClauses(left, p, on, off) : ClauseTrue(c, U))
                 <=> Eval(left, U) = Eval(p, U)
    <3>1. (\A c \in TableClauses(left, p, on, off) : ClauseTrue(c, U))
            <=> /\ \A x \in on : v \in U \/ ~ evaluate(x, U)
                /\ \A x \in off : v \notin U \/ ~ evaluate(x, U)
      BY <2>4, <2>5, <2>6
    <3>2. (\A c \in TableClauses(left, p, on, off) : ClauseTrue(c, U))
            <=> (v \in U <=> Eval(p, U) = TRUE)
      BY <1>2, <1>3, <3>1
    <3>3. Eval(left, U) \in BOOLEAN
      BY DEF Eval, Odd
    <3> QED BY <1>3, <2>1, <3>2, <3>3
  <2> QED BY <2>7, <2>8
<1>5. CASE ~ IsVar(left)
  <2> DEFINE b == IsInverted(left)
             K == IF b THEN off ELSE on
  <2>1. b \in BOOLEAN /\ \A U : Eval(left, U) <=> b
    <3>1. left = Const(b)
      BY <1>5, VarOrConst DEF IsVar, Lefts
    <3>2. b \in BOOLEAN
      BY DEF IsInverted
    <3> HIDE DEF b
    <3> QED BY <3>1, <3>2, EvalSimple
  <2>2. TableClauses(left, p, on, off) = {Nc(x) : x \in K}
    BY <1>5 DEF TableClauses
  <2>3. \A x \in K : Nc(x) \in SUBSET (S \X BOOLEAN)
                     /\ \A U : ClauseTrue(Nc(x), U) <=> ~ evaluate(x, U)
    <3> SUFFICES ASSUME NEW x \in on \cup off
                 PROVE  Nc(x) \in SUBSET (S \X BOOLEAN)
                        /\ \A U : ClauseTrue(Nc(x), U) <=> ~ evaluate(x, U)
      OBVIOUS
    <3>1. x \in SUBSET (S \X BOOLEAN)
      BY <1>2
    <3>2. CASE x = {}
      <4>1. Nc(x) = {}
        BY <3>2
      <4> QED BY <3>2, <4>1 DEF ClauseTrue, evaluate
    <3>3. CASE x # {}
      <4>1. PICK l \in x : TRUE
        BY <3>3
      <4>2. l \in S \X BOOLEAN
        BY <3>1
      <4> HIDE DEF S
      <4> QED BY <1>1, <3>1, <4>2, CubeClause
    <3> QED BY <3>2, <3>3
  <2> HIDE DEF b, Nc, S
  <2>4. TableClauses(left, p, on, off) \subseteq SUBSET LitsOf(NumVars)
    BY <2>2, <2>3 DEF LitsOf, S
  <2>5. ASSUME NEW U
        PROVE  (\A c \in TableClauses(left, p, on, off) : ClauseTrue(c, U))
                 <=> Eval(left, U) = Eval(p, U)
    <3>1. (\A c \in TableClauses(left, p, on, off) : ClauseTrue(c, U))
            <=> \A x \in K : ~ evaluate(x, U)
      BY <2>2, <2>3
    <3>2. Eval(left, U) \in BOOLEAN
      BY DEF Eval, Odd
    <3>3. CASE b
      BY <1>2, <1>3, <2>1, <3>1, <3>2, <3>3
    <3>4. CASE ~ b
      BY <1>2, <1>3, <2>1, <3>1, <3>2, <3>4
    <3> QED BY <3>3, <3>4
  <2> QED BY <2>4, <2>5
<1> QED BY <1>4, <1>5

---------------------------------------------------------------------------
(* The course of a conversion: where it stands, the store and the list of  *)
(* monomials agree with the place the program is at.                       *)
ConvertPcs == {"convert", "simplify", "monos", "cut"}

FlowOK ==
  /\ pc # "assert"
  /\ pc = "idle" =>
       /\ problem = <<>> /\ it = 1 /\ clauses = {} /\ xorClauses = {}
       /\ next_available_var = NumVars /\ frozen = FALSE
       /\ extmonos = Empty /\ cutxors = Empty /\ variableMix = Empty /\ written = None
  /\ pc \in ConvertPcs =>
       it >= 1 /\ frozen = FALSE /\ variableMix = Empty /\ written = None
  /\ pc \in ConvertPcs \ {"convert"} => it \in DOMAIN problem
  /\ pc \notin {"monos", "cut"} => lits = <<>>
  /\ pc # "cut" => last_var = NoVar
  /\ pc \notin {"simplify", "monos"} => monoList = {}
  /\ pc \in {"mix", "write"} => DOMAIN variableMix = Upto(next_available_var)

Distinct(f) == \A x, y \in DOMAIN f : f[x] = f[y] => x = y
StoreOK ==
  /\ NumVars <= next_available_var
  /\ IsFiniteSet(DOMAIN extmonos) /\ IsFiniteSet(DOMAIN cutxors)
  /\ Distinct(extmonos) /\ Distinct(cutxors)
  /\ \A x \in DOMAIN extmonos, s \in DOMAIN cutxors : extmonos[x] # cutxors[s]
  /\ pc \in ConvertPcs =>
       \A x \in DOMAIN extmonos : EqualityClauses(extmonos[x], x) \subseteq clauses

ListOK ==
  pc \in {"simplify", "monos"} =>
    /\ MonosOK(monoList)
    /\ Cardinality(monoList) <= Size(equation.right)
    /\ monoList = {} <=> IsEmpty(equation.right)
    /\ \A T : Sum(monoList, T) <=> Eval(Monos(equation.right), T)

CourseOK == TypeOK /\ FlowOK /\ StoreOK /\ ListOK

(* The equations of a problem. *)
LEMMA EquationFacts ==
  ASSUME problem \in Problems \cup {<<>>}, NEW k \in DOMAIN problem
  PROVE  /\ problem[k].left \in Lefts /\ problem[k].right \in Poly
         /\ \/ AllVars(problem[k].left) \cap AllVars(problem[k].right) = {}
            \/ problem[k].left = problem[k].right
         /\ DOMAIN problem = 1 .. Len(problem) /\ Len(problem) \in Nat /\ k \in Nat
<1>1. problem \in Problems
  OBVIOUS
<1>2. problem \in Seq([left : Lefts, right : Poly])
  BY <1>1, ConversionAssumption
<1>3. DOMAIN problem = 1 .. Len(problem) /\ Len(problem) \in Nat
  BY <1>2, LenProperties
<1>4. problem[k] \in [left : Lefts, right : Poly]
  <2> DEFINE R == [left : Lefts, right : Poly]
  <2>1. problem \in Seq(R)
    BY <1>2
  <2> HIDE DEF R
  <2>2. problem[k] \in R
    BY <2>1
  <2> QED BY <2>2 DEF R
<1>5. problem[k].left \in Lefts /\ problem[k].right \in Poly
  BY <1>4
<1>6. \/ AllVars(problem[k].left) \cap AllVars(problem[k].right) = {}
      \/ problem[k].left = problem[k].right
  BY <1>1, ConversionAssumption
<1>7. k \in Nat
  BY <1>3
<1> QED BY <1>3, <1>5, <1>6, <1>7

(* A variable more: what was a literal still is. *)
LEMMA MoreLiterals ==
  ASSUME NEW n \in Nat, NEW m \in Nat, n <= m
  PROVE  /\ Upto(n) \subseteq Upto(m) /\ LitsOf(n) \subseteq LitsOf(m)
         /\ Seq(LitsOf(n)) \subseteq Seq(LitsOf(m))
<1>1. Upto(n) \subseteq Upto(m)
  BY DEF Upto
<1>2. LitsOf(n) \subseteq LitsOf(m)
  BY <1>1 DEF LitsOf
<1>3. ASSUME NEW s \in Seq(LitsOf(n)) PROVE s \in Seq(LitsOf(m))
  BY <1>2
<1> QED BY <1>1, <1>2, <1>3

(* One more entry of a map of Variables. *)
LEMMA PutFacts ==
  ASSUME NEW f, NEW x, NEW v
  PROVE  /\ DOMAIN Put(f, x, v) = DOMAIN f \cup {x}
         /\ Put(f, x, v)[x] = v
         /\ \A y \in DOMAIN f : y # x => Put(f, x, v)[y] = f[y]
         /\ IsFiniteSet(DOMAIN f) => IsFiniteSet(DOMAIN Put(f, x, v))
<1>1. DOMAIN Put(f, x, v) = DOMAIN f \cup {x}
  BY DEF Put
<1>2. /\ Put(f, x, v)[x] = v
      /\ \A y \in DOMAIN f : y # x => Put(f, x, v)[y] = f[y]
  BY DEF Put
<1>3. IsFiniteSet(DOMAIN f) => IsFiniteSet(DOMAIN f \cup {x})
  BY FS_AddElement
<1> QED BY <1>1, <1>2, <1>3

(* The clauses of a product are clauses. *)
LEMMA EqualityLiterals ==
  ASSUME NEW n \in Nat, NumVars <= n, NEW x \in ExtendedMonomial
  PROVE  EqualityClauses(n, x) \subseteq SUBSET LitsOf(n+1)
<1>1. x \subseteq LitsOf(n+1)
  BY VarNumbers DEF ExtendedMonomial, LitsOf, Upto
<1>2. Lit(n, TRUE) \in LitsOf(n+1) /\ Lit(n, FALSE) \in LitsOf(n+1)
  <2>1. n \in Upto(n+1)
    BY DEF Upto
  <2> QED BY <2>1, LitMake DEF LitsOf
<1>3. \A l \in x : Neg(l) \in LitsOf(n+1)
  BY <1>1, LitParts DEF LitsOf
<1> QED BY <1>1, <1>2, <1>3 DEF EqualityClauses

(* The sequences of literals and their sign patterns. *)
LEMMA CombinationLiterals ==
  ASSUME NEW n \in Nat, NEW s \in Seq(LitsOf(n))
  PROVE  /\ all_combinations(s) \subseteq SUBSET LitsOf(n)
         /\ Inverted(s) \in Seq(LitsOf(n))
<1>1. \A k \in DOMAIN s : s[k] \in LitsOf(n) /\ Neg(s[k]) \in LitsOf(n)
  <2> SUFFICES ASSUME NEW k \in DOMAIN s PROVE s[k] \in LitsOf(n) /\ Neg(s[k]) \in LitsOf(n)
    OBVIOUS
  <2>1. s[k] \in LitsOf(n)
    OBVIOUS
  <2> QED BY <2>1, LitParts DEF LitsOf
<1>2. all_combinations(s) \subseteq SUBSET LitsOf(n)
  BY <1>1 DEF all_combinations, Flipped
<1>3. DOMAIN s = 1 .. Len(s) /\ Len(s) \in Nat
  BY LenProperties
<1>4. Inverted(s) \in [1 .. Len(s) -> LitsOf(n)]
  BY <1>1, <1>3 DEF Inverted
<1> QED BY <1>2, <1>3, <1>4, SeqDef

(* The pieces that addXorClause cuts. *)
LEMMA CutFacts ==
  ASSUME TypeOK, lits # <<>>
  PROVE  /\ Chain \in Seq(Literal) /\ SubSeq(lits, 1, Taken) \in Seq(Literal)
         /\ Piece \in Seq(Literal) /\ Rest \in Seq(Literal)
         /\ Piece = Chain \o SubSeq(lits, 1, Taken)
         /\ lits = SubSeq(lits, 1, Taken) \o Rest
<1>1. /\ lits \in Seq(Literal) /\ Len(lits) \in Nat \ {0}
      /\ cpd.xor_cut_len \in Nat /\ cpd.xor_cut_len >= 3
  <2>1. lits \in Seq(Literal) /\ cpd \in Settings
    BY DEF TypeOK
  <2> HIDE DEF Literal
  <2>2. Len(lits) \in Nat \ {0}
    BY <2>1, LenProperties, EmptySeq
  <2> QED BY <2>1, <2>2, ConversionAssumption
<1>2. Chain \in Seq(Literal) /\ Len(Chain) \in {0, 1}
  <2>1. CASE last_var = NoVar
    BY <2>1 DEF Chain
  <2>2. CASE last_var # NoVar
    <3>1. last_var \in 0 .. next_available_var - 1
      BY <2>2 DEF TypeOK
    <3>2. Lit(last_var, FALSE) \in Literal
      BY <3>1, LitMake DEF Literal
    <3> DEFINE l == Lit(last_var, FALSE)
    <3>3. Chain = <<l>>
      BY <2>2 DEF Chain
    <3> HIDE DEF l
    <3>4. l \in Literal
      BY <3>2 DEF l
    <3>5. <<l>> \in Seq(Literal) /\ Len(<<l>>) = 1
      BY <3>4
    <3> QED BY <3>3, <3>5
  <2> QED BY <2>1, <2>2
<1>3. Taken \in 0 .. Len(lits)
  <2> DEFINE n == Len(lits)
             c == Len(Chain)
             k == cpd.xor_cut_len
  <2>1. Taken = IF n <= k - 1 - c THEN n ELSE k - 1 - c
    BY DEF Taken
  <2>2. n \in Nat /\ c \in {0, 1} /\ k \in Nat /\ k >= 3
    BY <1>1, <1>2
  <2> HIDE DEF n, c, k
  <2>3. Taken \in 0 .. n
    BY <2>1, <2>2
  <2> QED BY <2>3 DEF n
<1> HIDE DEF Literal
<1>4. SubSeq(lits, 1, Taken) \in Seq(Literal) /\ Rest \in Seq(Literal)
  BY <1>1, <1>3, SubSeqProperties DEF Rest
<1>5. Piece \in Seq(Literal)
  BY <1>2, <1>4, ConcatProperties DEF Piece
<1>6. lits = SubSeq(lits, 1, Taken) \o Rest
  <2>1. SubSeq(lits, 1, Len(lits)) = lits
    BY <1>1, SubSeqFull
  <2>2. SubSeq(lits, 1, Taken) \o SubSeq(lits, Taken + 1, Len(lits)) = SubSeq(lits, 1, Len(lits))
    <3>1. 1 \in 1 .. Len(lits) + 1 /\ Taken \in 1 - 1 .. Len(lits) /\ Len(lits) \in Taken .. Len(lits)
      BY <1>1, <1>3
    <3> QED BY <1>1, <3>1, ConcatAdjacentSubSeq
  <2> QED BY <2>1, <2>2 DEF Rest
<1> QED BY <1>2, <1>4, <1>5, <1>6 DEF Piece

---------------------------------------------------------------------------
(* The steps of the conversion keep the agreement; those that do not add a *)
(* variable first.                                                         *)
LEMMA InitCourse == Init => CourseOK
<1> SUFFICES ASSUME Init PROVE CourseOK
  OBVIOUS
<1> USE VarNumbers DEF Init
<1>1. TypeOK
  <2>1. 0 \in 0 .. MaxTests
    BY ConversionAssumption
  <2>2. DOMAIN Empty = {}
    BY DEF Empty
  <2>3. lits \in Seq(Literal) /\ pc \in Pcs /\ NumVars \in Nat
    BY DEF Pcs
  <2>4. \A s \in xorClauses : s \in Seq(Literal)
    OBVIOUS
  <2>5. cpd \in Settings /\ it \in Nat /\ frozen \in BOOLEAN /\ problem \in Problems \cup {<<>>}
    OBVIOUS
  <2> QED BY <2>1, <2>2, <2>3, <2>4, <2>5 DEF TypeOK
<1>2. FlowOK
  BY DEF FlowOK, ConvertPcs
<1>3. StoreOK
  <2>1. DOMAIN Empty = {}
    BY DEF Empty
  <2> QED BY <2>1, FS_EmptySet DEF StoreOK, ConvertPcs, Distinct
<1>4. ListOK
  BY DEF ListOK
<1> QED BY <1>1, <1>2, <1>3, <1>4 DEF CourseOK

(* The literals stay as long as no variable is added. *)
LEMMA SameLiterals ==
  ASSUME next_available_var' = next_available_var
  PROVE  Literal' = Literal
BY DEF Literal

(* A new problem, and the steps that only move the iterator. *)
LEMMA PlainCourse ==
  ASSUME CourseOK, StartTest \/ SkipTautology \/ CutEnd \/ SimplifyEnd
  PROVE  CourseOK'
<1> USE DEF given, store
<1>0. TypeOK /\ FlowOK /\ StoreOK /\ ListOK
  BY DEF CourseOK
<1>1. CASE StartTest
  <2> USE <1>1 DEF StartTest
  <2>1. TypeOK'
    <3>1. tests' \in 0 .. MaxTests
      BY <1>0, ConversionAssumption DEF TypeOK
    <3>2. pc' \in Pcs
      BY DEF Pcs
    <3> QED BY <1>0, <3>1, <3>2, SameLiterals DEF TypeOK
  <2>2. FlowOK'
    BY <1>0 DEF FlowOK, ConvertPcs
  <2>3. StoreOK'
    <3>1. DOMAIN extmonos = {}
      BY <1>0 DEF FlowOK, Empty
    <3> QED BY <1>0, <3>1 DEF StoreOK, Distinct
  <2>4. ListOK'
    BY <1>0 DEF ListOK
  <2> QED BY <2>1, <2>2, <2>3, <2>4 DEF CourseOK
<1>2. CASE SkipTautology
  <2> USE <1>2 DEF SkipTautology, Converting
  <2>1. TypeOK'
    BY <1>0, SameLiterals DEF TypeOK
  <2>2. FlowOK'
    <3>1. it \in Nat
      BY <1>0 DEF TypeOK
    <3> QED BY <1>0, <3>1 DEF FlowOK, ConvertPcs
  <2>3. StoreOK'
    BY <1>0 DEF StoreOK, Distinct
  <2>4. ListOK'
    BY <1>0 DEF ListOK
  <2> QED BY <2>1, <2>2, <2>3, <2>4 DEF CourseOK
<1>3. CASE CutEnd
  <2> USE <1>3 DEF CutEnd
  <2>1. TypeOK'
    BY <1>0, SameLiterals DEF TypeOK, Pcs
  <2>2. FlowOK'
    <3>1. it \in Nat
      BY <1>0 DEF TypeOK
    <3> QED BY <1>0, <3>1 DEF FlowOK, ConvertPcs
  <2>3. StoreOK'
    BY <1>0 DEF StoreOK, Distinct, ConvertPcs
  <2>4. ListOK'
    BY <1>0 DEF ListOK
  <2> QED BY <2>1, <2>2, <2>3, <2>4 DEF CourseOK
<1>4. CASE SimplifyEnd
  <2> USE <1>4 DEF SimplifyEnd
  <2>1. TypeOK'
    BY <1>0, SameLiterals DEF TypeOK, Pcs
  <2>2. FlowOK'
    BY <1>0 DEF FlowOK, ConvertPcs
  <2>3. StoreOK'
    BY <1>0 DEF StoreOK, Distinct, ConvertPcs
  <2>4. ListOK'
    BY <1>0 DEF ListOK, equation
  <2> QED BY <2>1, <2>2, <2>3, <2>4 DEF CourseOK
<1> QED BY <1>1, <1>2, <1>3, <1>4

(* The mix of the variables, the file, and the store reset. *)
LEMMA PrintCourse ==
  ASSUME CourseOK, PrintStart \/ MixStep \/ MixEnd \/ Write \/ Clear
  PROVE  CourseOK'
<1> USE DEF given, store
<1>0. TypeOK /\ FlowOK /\ StoreOK /\ ListOK
  BY DEF CourseOK
<1>1. CASE PrintStart
  <2> USE <1>1 DEF PrintStart
  <2>1. TypeOK'
    <3>1. \A v \in DOMAIN variableMix' : variableMix'[v] \in DOMAIN variableMix'
      OBVIOUS
    <3>2. pc' \in Pcs /\ it' \in Nat /\ frozen' \in BOOLEAN
      BY DEF Pcs
    <3> QED BY <1>0, <3>1, <3>2, SameLiterals DEF TypeOK
  <2>2. FlowOK'
    BY <1>0 DEF FlowOK, ConvertPcs, Upto
  <2>3. StoreOK'
    BY <1>0 DEF StoreOK, Distinct, ConvertPcs
  <2>4. ListOK'
    BY <1>0 DEF ListOK
  <2> QED BY <2>1, <2>2, <2>3, <2>4 DEF CourseOK
<1>2. CASE MixStep
  <2> USE <1>2 DEF MixStep
  <2>0. PICK j \in randInt(it) : variableMix' = Swapped(variableMix, it, j)
    OBVIOUS
  <2>1. /\ DOMAIN variableMix = Upto(next_available_var) /\ it \in Upto(next_available_var)
        /\ j \in Upto(next_available_var)
    <3>1. DOMAIN variableMix = Upto(next_available_var) /\ it \in Nat /\ next_available_var \in Nat
      BY <1>0 DEF FlowOK, TypeOK
    <3>2. j \in Nat /\ j <= it
      BY <2>0, ConversionAssumption DEF randInt
    <3> QED BY <3>1, <3>2 DEF Upto
  <2>2. /\ DOMAIN variableMix' = DOMAIN variableMix
        /\ \A v \in DOMAIN variableMix' : variableMix'[v] \in DOMAIN variableMix'
    BY <1>0, <2>0, <2>1 DEF TypeOK, Swapped
  <2>3. TypeOK'
    BY <1>0, <2>2, SameLiterals DEF TypeOK
  <2>4. FlowOK'
    BY <1>0, <2>2 DEF FlowOK, ConvertPcs, Upto
  <2>5. StoreOK'
    BY <1>0 DEF StoreOK, Distinct, ConvertPcs
  <2>6. ListOK'
    BY <1>0 DEF ListOK
  <2> QED BY <2>3, <2>4, <2>5, <2>6 DEF CourseOK
<1>3. CASE MixEnd
  <2> USE <1>3 DEF MixEnd
  <2> DEFINE n == next_available_var
  <2>1. /\ DOMAIN variableMix = Upto(n) /\ n \in Nat
        /\ \A v \in Upto(n) : variableMix[v] \in Upto(n)
        /\ clauses \subseteq SUBSET LitsOf(n) /\ \A s \in xorClauses : s \in Seq(LitsOf(n))
    BY <1>0 DEF FlowOK, TypeOK, Literal, LitsOf, Upto
  <2>2. \A L \in SUBSET LitsOf(n) : InRange(L) /\ \A l \in L : Mixed(l) \in LitsOf(n)
    <3> SUFFICES ASSUME NEW L \in SUBSET LitsOf(n), NEW l \in L
                 PROVE  l[1] \in DOMAIN variableMix /\ Mixed(l) \in LitsOf(n)
      BY DEF InRange, VarSet
    <3>1. l[1] \in Upto(n) /\ l[2] \in BOOLEAN
      BY LitParts DEF LitsOf
    <3> QED BY <2>1, <3>1, LitMake DEF Mixed, LitsOf
  <2>3. \A s \in Seq(LitsOf(n)) :
          InRange({s[k] : k \in DOMAIN s}) /\ MixedXor(s) \in Seq(LitsOf(n))
    <3> SUFFICES ASSUME NEW s \in Seq(LitsOf(n))
                 PROVE  InRange({s[k] : k \in DOMAIN s}) /\ MixedXor(s) \in Seq(LitsOf(n))
      OBVIOUS
    <3>1. \A k \in DOMAIN s : s[k] \in LitsOf(n)
      OBVIOUS
    <3>2. {s[k] : k \in DOMAIN s} \in SUBSET LitsOf(n)
      BY <3>1
    <3>3. DOMAIN s = 1 .. Len(s) /\ Len(s) \in Nat
      BY LenProperties
    <3>4. MixedXor(s) \in [1 .. Len(s) -> LitsOf(n)]
      BY <2>2, <3>2, <3>3 DEF MixedXor
    <3> QED BY <2>2, <3>2, <3>3, <3>4, SeqDef
  <2>4. /\ clauses' = {MixedClause(c) : c \in clauses}
        /\ xorClauses' = {MixedXor(s) : s \in xorClauses}
        /\ pc' = "write"
    <3>1. \A c \in clauses : InRange(c)
      BY <2>1, <2>2
    <3>2. \A s \in xorClauses : InRange({s[k] : k \in DOMAIN s})
      BY <2>1, <2>3
    <3> QED BY <3>1, <3>2
  <2>5. clauses' \subseteq SUBSET LitsOf(n) /\ \A s \in xorClauses' : s \in Seq(LitsOf(n))
    <3>1. \A c \in clauses : MixedClause(c) \in SUBSET LitsOf(n)
      BY <2>1, <2>2 DEF MixedClause
    <3>2. \A s \in xorClauses : MixedXor(s) \in Seq(LitsOf(n))
      BY <2>1, <2>3
    <3> QED BY <2>4, <3>1, <3>2
  <2>6. TypeOK'
    <3>1. Literal = LitsOf(n)
      BY DEF Literal, LitsOf, Upto
    <3> QED BY <1>0, <2>4, <2>5, <3>1, SameLiterals DEF TypeOK, Pcs
  <2>7. FlowOK'
    BY <1>0, <2>1, <2>4 DEF FlowOK, ConvertPcs
  <2>8. StoreOK'
    BY <1>0, <2>4 DEF StoreOK, Distinct, ConvertPcs
  <2>9. ListOK'
    BY <1>0, <2>4 DEF ListOK
  <2> QED BY <2>6, <2>7, <2>8, <2>9 DEF CourseOK
<1>4. CASE Write
  <2> USE <1>4 DEF Write
  <2>0. pc' \in {"done", "nameless"}
    OBVIOUS
  <2>1. TypeOK'
    BY <1>0, <2>0, SameLiterals DEF TypeOK, Pcs
  <2>2. FlowOK'
    BY <1>0, <2>0 DEF FlowOK, ConvertPcs
  <2>3. StoreOK'
    BY <1>0, <2>0 DEF StoreOK, Distinct, ConvertPcs
  <2>4. ListOK'
    BY <1>0, <2>0 DEF ListOK
  <2> QED BY <2>1, <2>2, <2>3, <2>4 DEF CourseOK
<1>5. CASE Clear
  <2> USE <1>5 DEF Clear, FreeAttrib
  <2>0. DOMAIN Empty = {}
    BY DEF Empty
  <2>1. TypeOK'
    <3>1. /\ next_available_var' \in Nat /\ frozen' \in BOOLEAN /\ it' \in Nat
          /\ problem' \in Problems \cup {<<>>} /\ pc' \in Pcs
      BY VarNumbers DEF Pcs
    <3>2. lits' = <<>> /\ last_var' = NoVar
      BY <1>0 DEF FlowOK
    <3>3. cpd' \in Settings /\ tests' \in 0 .. MaxTests
      BY <1>0 DEF TypeOK
    <3>4. todo' \subseteq monoList' /\ monoList' \subseteq ExtendedMonomial
      BY <1>0 DEF TypeOK
    <3> QED BY <2>0, <3>1, <3>2, <3>3, <3>4 DEF TypeOK
  <2>2. FlowOK'
    BY <1>0 DEF FlowOK, ConvertPcs
  <2>3. StoreOK'
    BY <2>0, FS_EmptySet, VarNumbers DEF StoreOK, Distinct
  <2>4. ListOK'
    BY DEF ListOK
  <2> QED BY <2>1, <2>2, <2>3, <2>4 DEF CourseOK
<1> QED BY <1>1, <1>2, <1>3, <1>4, <1>5(* The XOR with the left side. *)
LEMMA XorLiterals ==
  ASSUME TypeOK, NumVars <= next_available_var, NEW e, e.left \in Lefts
  PROVE  WithLeft(e.left) \in Seq(Literal) /\ XorOf(e) \in Seq(Literal)
<1>1. lits \in Seq(Literal) /\ Literal = LitsOf(next_available_var) /\ next_available_var \in Nat
  BY DEF TypeOK, Literal, LitsOf, Upto
<1>2. WithLeft(e.left) \in Seq(Literal)
  <2>1. CASE IsVar(e.left)
    <3> DEFINE l == Lit(SingleVar(e.left), FALSE)
    <3>1. SingleVar(e.left) \in Upto(next_available_var)
      <4>1. SingleVar(e.left) \in Upto(NumVars)
        BY <2>1, VarNumbers, VarOrConst DEF Lefts, IsVar
      <4> QED BY <1>1, <4>1, VarNumbers, MoreLiterals
    <3>2. l \in Literal
      BY <1>1, <3>1, LitMake DEF LitsOf
    <3>3. WithLeft(e.left) = Append(lits, l)
      BY <2>1 DEF WithLeft
    <3> HIDE DEF l
    <3> QED BY <1>1, <3>2, <3>3, AppendProperties
  <2>2. CASE ~ IsVar(e.left)
    BY <1>1, <2>2 DEF WithLeft
  <2> QED BY <2>1, <2>2
<1>3. Inverted(WithLeft(e.left)) \in Seq(Literal)
  BY <1>1, <1>2, CombinationLiterals
<1> QED BY <1>2, <1>3 DEF XorOf

(* The list of monomials: made, and simplified. *)
LEMMA ListCourse ==
  ASSUME CourseOK, StartXor \/ SimplifyStep
  PROVE  CourseOK'
<1> USE DEF given, store
<1>0. TypeOK /\ FlowOK /\ StoreOK /\ ListOK
  BY DEF CourseOK
<1>1. CASE StartXor
  <2> USE <1>1 DEF StartXor, Converting
  <2> DEFINE q == Monos(equation.right)
  <2>1. equation.right \in Poly /\ IsFiniteSet(q) /\ \A m \in q : m \subseteq Var
    <3>1. equation.right \in Poly
      BY <1>0, EquationFacts DEF TypeOK, equation
    <3>2. IsFiniteSet(equation.right)
      BY <3>1, FinitePoly
    <3> QED BY <3>1, <3>2, FS_Subset DEF Monos, Poly, Monomial
  <2>2. monoList' = {Positive(m) : m \in q} /\ todo' = monoList' /\ equation' = equation
    BY DEF equation
  <2> HIDE DEF q
  <2>3. MonosOK(monoList')
    <3>1. \A x \in monoList' : \E m \in q : x = Positive(m)
      BY <2>2
    <3>2. \A m \in q : Positive(m) \in ExtendedMonomial /\ ~ impossible(Positive(m))
                       /\ VarSet(Positive(m)) = m
      BY <2>1, PositiveFacts
    <3>3. \A x, y \in monoList' : VarSet(x) = VarSet(y) => x = y
      BY <3>1, <3>2
    <3> QED BY <3>1, <3>2, <3>3 DEF MonosOK
  <2>4. /\ Cardinality(monoList') = Cardinality(q) /\ Cardinality(q) \in Nat
        /\ \A T : Sum(monoList', T) <=> Eval(q, T)
        /\ monoList' = {} <=> q = {}
    BY <2>1, <2>2, SumPositive, FS_CardinalityType
  <2>5. ListOK'
    <3>1. Size(equation.right) = Cardinality(q) /\ (IsEmpty(equation.right) <=> q = {})
      BY DEF Size, IsEmpty, q
    <3> QED BY <2>2, <2>3, <2>4, <3>1 DEF ListOK, q
  <2>6. TypeOK'
    <3>1. monoList' \subseteq ExtendedMonomial
      BY <2>3 DEF MonosOK
    <3>2. pc' \in Pcs
      BY DEF Pcs
    <3> QED BY <1>0, <2>2, <3>1, <3>2, SameLiterals DEF TypeOK
  <2>7. FlowOK'
    <3>1. pc' \in {"simplify", "monos"}
      OBVIOUS
    <3> QED BY <1>0, <3>1 DEF FlowOK, ConvertPcs
  <2>8. StoreOK'
    BY <1>0 DEF StoreOK, Distinct, ConvertPcs
  <2> QED BY <2>5, <2>6, <2>7, <2>8 DEF CourseOK
<1>2. CASE SimplifyStep
  <2> DEFINE x == First(todo)
             y == First(LargerOnes(x))
             z == negate(y, SingleVarDiff(x, y))
  <2>0. /\ pc = "simplify" /\ todo # {}
        /\ UNCHANGED <<given, it, lits, last_var, store, clauses, xorClauses, variableMix,
                       written>>
        /\ equation' = equation
    BY <1>2 DEF SimplifyStep, equation
  <2>1. /\ MonosOK(monoList) /\ todo \subseteq monoList /\ x \in todo /\ x \in monoList
        /\ Cardinality(monoList) <= Size(equation.right)
        /\ monoList = {} <=> IsEmpty(equation.right)
        /\ \A T : Sum(monoList, T) <=> Eval(Monos(equation.right), T)
    <3>1. MonosOK(monoList) /\ todo \subseteq monoList
      BY <1>0, <2>0 DEF ListOK, TypeOK
    <3>2. MonosOK(todo)
      BY <3>1 DEF MonosOK
    <3>3. First(todo) \in todo
      BY <2>0, <3>2, FirstFacts
    <3> QED BY <1>0, <2>0, <3>1, <3>3 DEF ListOK
  <2>2. LargerOnes(x) # {} =>
          y \in monoList /\ x \subseteq y /\ deg(y) = deg(x) + 1 /\ ~ impossible(x) /\ ~ impossible(y)
    <3> SUFFICES ASSUME LargerOnes(x) # {}
                 PROVE  y \in monoList /\ x \subseteq y /\ deg(y) = deg(x) + 1
                        /\ ~ impossible(x) /\ ~ impossible(y)
      OBVIOUS
    <3>1. MonosOK(LargerOnes(x))
      BY <2>1 DEF MonosOK, LargerOnes
    <3>2. y \in LargerOnes(x)
      BY <3>1, FirstFacts
    <3> QED BY <2>1, <3>2 DEF LargerOnes, MonosOK
  <2>3. \/ /\ LargerOnes(x) = {}
           /\ todo' = todo \ {x} /\ monoList' = monoList /\ pc' = pc
        \/ /\ LargerOnes(x) # {}
           /\ monoList' = (monoList \ {x, y}) \cup {z}
           /\ todo' = (todo \ {x, y}) \cup {z} /\ pc' = pc
    BY <1>2, <2>2 DEF SimplifyStep
  <2>4. ASSUME LargerOnes(x) # {}, monoList' = (monoList \ {x, y}) \cup {z}
        PROVE  /\ MonosOK(monoList') /\ monoList' # {} /\ monoList # {}
               /\ Cardinality(monoList') <= Size(equation.right)
               /\ \A T : Sum(monoList', T) <=> Eval(Monos(equation.right), T)
    <3> DEFINE K == (monoList \ {x, y}) \cup {z}
    <3>1. /\ MonosOK(K) /\ Cardinality(K) = Cardinality(monoList) - 1
          /\ \A T : Sum(K, T) <=> Sum(monoList, T)
      BY <2>1, <2>2, <2>4, SimplifiesPair
    <3>2. K = monoList' /\ K # {}
      BY <2>4
    <3>3. Cardinality(monoList) \in Nat /\ Size(equation.right) \in Nat
      <4>1. IsFiniteSet(monoList)
        BY <2>1, MonosFinite DEF MonosOK
      <4>2. equation.right \in Poly
        BY <1>0, <2>0, EquationFacts DEF TypeOK, FlowOK, ConvertPcs, equation
      <4>3. IsFiniteSet(Monos(equation.right))
        BY <4>2, FinitePoly, FS_Subset DEF Monos
      <4> QED BY <4>1, <4>3, FS_CardinalityType DEF Size
    <3> HIDE DEF K
    <3> QED BY <2>1, <3>1, <3>2, <3>3
  <2> HIDE DEF x, y, z
  <2>5. ListOK'
    <3>1. CASE monoList' = monoList
      BY <2>0, <2>1, <3>1 DEF ListOK
    <3>2. CASE LargerOnes(x) # {} /\ monoList' = (monoList \ {x, y}) \cup {z}
      BY <2>0, <2>1, <2>4, <3>2 DEF ListOK
    <3> QED BY <2>3, <3>1, <3>2
  <2>6. TypeOK'
    <3>1. monoList' \subseteq ExtendedMonomial
      BY <2>1, <2>3, <2>4 DEF MonosOK
    <3>2. todo' \subseteq monoList'
      BY <2>1, <2>3
    <3> QED BY <1>0, <2>0, <2>3, <3>1, <3>2, SameLiterals DEF TypeOK
  <2>7. FlowOK'
    BY <1>0, <2>0, <2>3 DEF FlowOK, ConvertPcs
  <2>8. StoreOK'
    BY <1>0, <2>0, <2>3 DEF StoreOK, Distinct, ConvertPcs
  <2> QED BY <2>5, <2>6, <2>7, <2>8 DEF CourseOK
<1> QED BY <1>1, <1>2(* The tables, and the XOR when all its monomials have a literal. *)
LEMMA EquationCourse ==
  ASSUME CourseOK, AddKarnaugh \/ MonoEnd
  PROVE  CourseOK'
<1> USE DEF given, store
<1>0. TypeOK /\ FlowOK /\ StoreOK /\ ListOK
  BY DEF CourseOK
<1>1. CASE AddKarnaugh
  <2> USE <1>1 DEF AddKarnaugh, Converting
  <2>1. clauses' \subseteq SUBSET Literal /\ clauses \subseteq clauses'
    <3>0. PICK rows \in Covers(equation.right, TRUE) \X Covers(equation.right, FALSE) :
            clauses' = clauses \cup TableClauses(equation.left, equation.right, rows[1], rows[2])
      OBVIOUS
    <3>1. PICK on \in Covers(equation.right, TRUE), off \in Covers(equation.right, FALSE) :
            clauses' = clauses \cup TableClauses(equation.left, equation.right, on, off)
      BY <3>0
    <3>2. equation.left \in Lefts /\ equation.right \in Poly
      BY <1>0, EquationFacts DEF TypeOK, equation
    <3>3. TableClauses(equation.left, equation.right, on, off) \subseteq SUBSET LitsOf(NumVars)
      BY <3>2, TableRight
    <3>4. LitsOf(NumVars) \subseteq Literal
      <4>1. Literal = LitsOf(next_available_var) /\ NumVars <= next_available_var
            /\ next_available_var \in Nat
        BY <1>0 DEF Literal, LitsOf, Upto, StoreOK, TypeOK
      <4> QED BY <4>1, MoreLiterals, VarNumbers
    <3>5. clauses \subseteq SUBSET Literal
      BY <1>0 DEF TypeOK
    <3> QED BY <3>1, <3>3, <3>4, <3>5
  <2>2. TypeOK'
    <3>1. it' \in Nat
      BY <1>0 DEF TypeOK
    <3> QED BY <1>0, <2>1, <3>1, SameLiterals DEF TypeOK
  <2>3. FlowOK'
    <3>1. it \in Nat
      BY <1>0 DEF TypeOK
    <3> QED BY <1>0, <3>1 DEF FlowOK, ConvertPcs
  <2>4. StoreOK'
    <3>1. \A x \in DOMAIN extmonos : EqualityClauses(extmonos[x], x) \subseteq clauses
      BY <1>0 DEF StoreOK, ConvertPcs
    <3>2. \A x \in DOMAIN extmonos : EqualityClauses(extmonos[x], x) \subseteq clauses'
      BY <2>1, <3>1
    <3> QED BY <1>0, <3>2 DEF StoreOK, Distinct
  <2>5. ListOK'
    BY <1>0 DEF ListOK
  <2> QED BY <2>2, <2>3, <2>4, <2>5 DEF CourseOK
<1>2. CASE MonoEnd
  <2>0. /\ pc = "monos" /\ todo = {} /\ monoList' = {} /\ it \in Nat /\ it >= 1
        /\ UNCHANGED <<given, todo, last_var, store, clauses, variableMix, written>>
        /\ \/ pc' = "convert" /\ it' = it + 1 /\ lits' = lits /\ lits = <<>>
              /\ xorClauses' = xorClauses
           \/ pc' = "convert" /\ it' = it + 1 /\ lits' = <<>>
              /\ xorClauses' = xorClauses \cup {XorOf(equation)}
           \/ pc' = "cut" /\ lits' = XorOf(equation) /\ UNCHANGED <<it, xorClauses>>
    <3>1. /\ pc = "monos" /\ todo = {} /\ monoList' = {} /\ it \in Nat /\ it >= 1
          /\ UNCHANGED <<given, todo, last_var, store, clauses, variableMix, written>>
      BY <1>0, <1>2 DEF MonoEnd, TypeOK, FlowOK, ConvertPcs
    <3>2. WithLeft(equation.left) = <<>> => lits = <<>>
      <4>1. lits \in Seq(Literal)
        BY <1>0 DEF TypeOK
      <4>2. \A l : Append(lits, l) # <<>>
        <5> SUFFICES ASSUME NEW l PROVE Append(lits, l) # <<>>
          OBVIOUS
        <5>1. lits \in Seq(Literal \cup {l}) /\ l \in Literal \cup {l}
          BY <4>1
        <5> QED BY <5>1, AppendProperties
      <4> QED BY <4>2 DEF WithLeft
    <3> QED BY <1>2, <3>1, <3>2 DEF MonoEnd
  <2>1. XorOf(equation) \in Seq(Literal)
    <3>1. equation.left \in Lefts
      BY <1>0, <2>0, EquationFacts DEF TypeOK, FlowOK, ConvertPcs, equation
    <3> QED BY <1>0, <3>1, XorLiterals DEF StoreOK
  <2>2. TypeOK'
    <3>1. lits' \in Seq(Literal') /\ it' \in Nat /\ \A s \in xorClauses' : s \in Seq(Literal')
      <4>1. lits \in Seq(Literal) /\ (\A s \in xorClauses : s \in Seq(Literal)) /\ <<>> \in Seq(Literal)
        BY <1>0 DEF TypeOK
      <4>2. Literal' = Literal
        BY <2>0, SameLiterals
      <4>3. \/ lits' = lits \/ lits' = <<>> \/ lits' = XorOf(equation)
        BY <2>0
      <4>4. lits' \in Seq(Literal)
        BY <2>1, <4>1, <4>3
      <4>5. it' \in Nat /\ xorClauses' \subseteq xorClauses \cup {XorOf(equation)}
        BY <2>0
      <4>6. \A s \in xorClauses' : s \in Seq(Literal)
        BY <2>1, <4>1, <4>5
      <4> QED BY <4>2, <4>4, <4>5, <4>6
    <3>2. pc' \in Pcs /\ todo' \subseteq monoList' /\ monoList' \subseteq ExtendedMonomial
      BY <2>0 DEF Pcs
    <3> QED BY <1>0, <2>0, <3>1, <3>2, SameLiterals DEF TypeOK
  <2>3. FlowOK'
    BY <1>0, <2>0 DEF FlowOK, ConvertPcs
  <2>4. StoreOK'
    BY <1>0, <2>0 DEF StoreOK, Distinct, ConvertPcs
  <2>5. ListOK'
    BY <1>0, <2>0 DEF ListOK
  <2> QED BY <2>2, <2>3, <2>4, <2>5 DEF CourseOK
<1> QED BY <1>1, <1>2

(* What a new variable does to the store: its number is greater than all   *)
(* before it.                                                              *)
LEMMA NewVariable ==
  ASSUME TypeOK, StoreOK, next_available_var' = next_available_var + 1,
         NEW x \in ExtendedMonomial, NEW s \in Seq(Literal),
         \/ extmonos' = Put(extmonos, x, next_available_var) /\ UNCHANGED cutxors
         \/ cutxors' = Put(cutxors, s, next_available_var) /\ UNCHANGED extmonos
  PROVE  /\ Seq(Literal) \subseteq Seq(Literal') /\ Literal \subseteq Literal'
         /\ Literal' = LitsOf(next_available_var + 1)
         /\ DOMAIN extmonos' \subseteq ExtendedMonomial
         /\ \A y \in DOMAIN extmonos' : extmonos'[y] \in NumVars .. next_available_var' - 1
         /\ \A t \in DOMAIN cutxors' : /\ t \in Seq(Literal')
                                      /\ cutxors'[t] \in NumVars .. next_available_var' - 1
         /\ NumVars <= next_available_var'
         /\ IsFiniteSet(DOMAIN extmonos') /\ IsFiniteSet(DOMAIN cutxors')
         /\ Distinct(extmonos') /\ Distinct(cutxors')
         /\ \A y \in DOMAIN extmonos', t \in DOMAIN cutxors' : extmonos'[y] # cutxors'[t]
<1> DEFINE n == next_available_var
<1>1. n \in Nat /\ NumVars <= n /\ NumVars \in Nat
  BY VarNumbers DEF TypeOK, StoreOK
<1>2. /\ Literal = LitsOf(n) /\ Literal' = LitsOf(n + 1)
  BY <1>1 DEF Literal, LitsOf, Upto
<1>3. Seq(Literal) \subseteq Seq(Literal') /\ Literal \subseteq Literal'
  <2>1. n + 1 \in Nat /\ n <= n + 1
    BY <1>1
  <2> QED BY <1>1, <1>2, <2>1, MoreLiterals
<1>4. /\ DOMAIN extmonos \subseteq ExtendedMonomial
      /\ \A y \in DOMAIN extmonos : extmonos[y] \in NumVars .. n - 1
      /\ \A t \in DOMAIN cutxors : t \in Seq(Literal) /\ cutxors[t] \in NumVars .. n - 1
      /\ IsFiniteSet(DOMAIN extmonos) /\ IsFiniteSet(DOMAIN cutxors)
      /\ Distinct(extmonos) /\ Distinct(cutxors)
      /\ \A y \in DOMAIN extmonos, t \in DOMAIN cutxors : extmonos[y] # cutxors[t]
  BY DEF TypeOK, StoreOK
<1>5. CASE extmonos' = Put(extmonos, x, n) /\ UNCHANGED cutxors
  <2>1. /\ DOMAIN extmonos' = DOMAIN extmonos \cup {x} /\ extmonos'[x] = n
        /\ \A y \in DOMAIN extmonos : y # x => extmonos'[y] = extmonos[y]
        /\ IsFiniteSet(DOMAIN extmonos')
    <3>1. /\ DOMAIN Put(extmonos, x, n) = DOMAIN extmonos \cup {x} /\ Put(extmonos, x, n)[x] = n
          /\ \A y \in DOMAIN extmonos : y # x => Put(extmonos, x, n)[y] = extmonos[y]
      BY DEF Put
    <3>2. IsFiniteSet(DOMAIN Put(extmonos, x, n))
      BY <1>4, PutFacts
    <3> QED BY <1>5, <3>1, <3>2
  <2>2. /\ \A y \in DOMAIN extmonos' : extmonos'[y] \in NumVars .. n
        /\ \A y \in DOMAIN extmonos' : y # x => extmonos'[y] < n
        /\ \A t \in DOMAIN cutxors' : cutxors'[t] \in NumVars .. n /\ cutxors'[t] < n
    BY <1>1, <1>4, <1>5, <2>1
  <2>3. Distinct(extmonos')
    BY <1>4, <2>1, <2>2 DEF Distinct
  <2>4. \A y \in DOMAIN extmonos', t \in DOMAIN cutxors' : extmonos'[y] # cutxors'[t]
    BY <1>1, <1>4, <1>5, <2>1, <2>2
  <2>5. next_available_var' - 1 = n /\ NumVars <= next_available_var'
    BY <1>1
  <2>6. DOMAIN extmonos' \subseteq ExtendedMonomial /\ \A t \in DOMAIN cutxors' : t \in Seq(Literal')
    BY <1>3, <1>4, <1>5, <2>1
  <2>7. IsFiniteSet(DOMAIN cutxors') /\ Distinct(cutxors')
    BY <1>4, <1>5
  <2> HIDE DEF n
  <2> QED BY <1>2, <1>3, <2>1, <2>2, <2>3, <2>4, <2>5, <2>6, <2>7 DEF n
<1>6. CASE cutxors' = Put(cutxors, s, n) /\ UNCHANGED extmonos
  <2>1. /\ DOMAIN cutxors' = DOMAIN cutxors \cup {s} /\ cutxors'[s] = n
        /\ \A y \in DOMAIN cutxors : y # s => cutxors'[y] = cutxors[y]
        /\ IsFiniteSet(DOMAIN cutxors')
    <3>1. /\ DOMAIN Put(cutxors, s, n) = DOMAIN cutxors \cup {s} /\ Put(cutxors, s, n)[s] = n
          /\ \A y \in DOMAIN cutxors : y # s => Put(cutxors, s, n)[y] = cutxors[y]
      BY DEF Put
    <3>2. IsFiniteSet(DOMAIN Put(cutxors, s, n))
      BY <1>4, PutFacts
    <3> QED BY <1>6, <3>1, <3>2
  <2>2. /\ \A y \in DOMAIN cutxors' : cutxors'[y] \in NumVars .. n
        /\ \A y \in DOMAIN cutxors' : y # s => cutxors'[y] < n
        /\ \A t \in DOMAIN extmonos' : extmonos'[t] \in NumVars .. n /\ extmonos'[t] < n
    BY <1>1, <1>4, <1>6, <2>1
  <2>3. Distinct(cutxors')
    BY <1>4, <2>1, <2>2 DEF Distinct
  <2>4. \A y \in DOMAIN extmonos', t \in DOMAIN cutxors' : extmonos'[y] # cutxors'[t]
    BY <1>1, <1>4, <1>6, <2>1, <2>2
  <2>5. next_available_var' - 1 = n /\ NumVars <= next_available_var'
    BY <1>1
  <2>6. DOMAIN extmonos' \subseteq ExtendedMonomial /\ \A t \in DOMAIN cutxors' : t \in Seq(Literal')
    BY <1>3, <1>4, <1>6, <2>1
  <2>7. IsFiniteSet(DOMAIN extmonos') /\ Distinct(extmonos')
    BY <1>4, <1>6
  <2> HIDE DEF n
  <2> QED BY <1>2, <1>3, <2>1, <2>2, <2>3, <2>4, <2>5, <2>6, <2>7 DEF n
<1> QED BY <1>5, <1>6(* The literal of a monomial. *)
LEMMA MonoCourse ==
  ASSUME CourseOK, MonoStep
  PROVE  CourseOK'
<1> USE DEF given, store
<1> DEFINE x == First(todo)
           n == next_available_var
<1>0. TypeOK /\ FlowOK /\ StoreOK /\ ListOK
  BY DEF CourseOK
<1>1. /\ pc = "monos" /\ todo' = todo \ {x} /\ frozen = FALSE /\ equation' = equation
      /\ UNCHANGED <<given, it, monoList, last_var, xorClauses, variableMix, written>>
      /\ n \in Nat /\ NumVars <= n /\ NumVars \in Nat /\ Literal = LitsOf(n)
      /\ lits \in Seq(Literal) /\ clauses \subseteq SUBSET Literal
  BY <1>0, VarNumbers DEF MonoStep, FlowOK, ConvertPcs, equation, StoreOK, TypeOK, Literal, LitsOf, Upto
<1>2. x \in ExtendedMonomial
  <2>1. MonosOK(todo) /\ todo # {}
    BY <1>0, <1>1 DEF ListOK, TypeOK, MonosOK, MonoStep
  <2> QED BY <2>1, FirstFacts DEF MonosOK
<1>3. x \subseteq Literal
  <2>1. Var \subseteq Upto(n)
    BY <1>1, VarNumbers, MoreLiterals
  <2> QED BY <1>1, <1>2, <2>1 DEF ExtendedMonomial, LitsOf
<1>4. \A y \in DOMAIN extmonos : EqualityClauses(extmonos[y], y) \subseteq clauses
  BY <1>0, <1>1 DEF StoreOK, ConvertPcs
<1> HIDE DEF x
<1>5. ListOK' /\ todo' \subseteq monoList'
  BY <1>0, <1>1 DEF ListOK, TypeOK
<1>6. CASE (\E l \in Literal : lits' = Append(lits, l)) /\ UNCHANGED <<pc, clauses, store>>
  <2>1. lits' \in Seq(Literal)
    <3>1. PICK l \in Literal : lits' = Append(lits, l)
      BY <1>6
    <3> QED BY <1>1, <3>1, AppendProperties
  <2>2. TypeOK'
    BY <1>0, <1>1, <1>5, <1>6, <2>1, SameLiterals DEF TypeOK
  <2>3. FlowOK'
    BY <1>0, <1>1, <1>6 DEF FlowOK, ConvertPcs
  <2>4. StoreOK'
    BY <1>0, <1>6 DEF StoreOK, Distinct, ConvertPcs
  <2> QED BY <1>5, <2>2, <2>3, <2>4 DEF CourseOK
<1>7. CASE /\ extmonos' = Put(extmonos, x, n) /\ n' = n + 1
           /\ clauses' = clauses \cup EqualityClauses(n, x)
           /\ lits' = Append(lits, Lit(n, FALSE)) /\ UNCHANGED <<pc, frozen, cutxors>>
  <2>1. /\ Seq(Literal) \subseteq Seq(Literal') /\ Literal \subseteq Literal'
        /\ Literal' = LitsOf(n + 1)
        /\ DOMAIN extmonos' \subseteq ExtendedMonomial
        /\ \A y \in DOMAIN extmonos' : extmonos'[y] \in NumVars .. n' - 1
        /\ \A t \in DOMAIN cutxors' : t \in Seq(Literal') /\ cutxors'[t] \in NumVars .. n' - 1
        /\ NumVars <= n'
        /\ IsFiniteSet(DOMAIN extmonos') /\ IsFiniteSet(DOMAIN cutxors')
        /\ Distinct(extmonos') /\ Distinct(cutxors')
        /\ \A y \in DOMAIN extmonos', t \in DOMAIN cutxors' : extmonos'[y] # cutxors'[t]
    <3>1. <<>> \in Seq(Literal)
      OBVIOUS
    <3> QED BY <1>0, <1>2, <1>7, <3>1, NewVariable
  <2>2. lits' \in Seq(Literal')
    <3>1. Lit(n, FALSE) \in Literal'
      <4>1. n \in Upto(n + 1)
        BY <1>1 DEF Upto
      <4> QED BY <2>1, <4>1, LitMake DEF LitsOf
    <3>2. lits \in Seq(Literal')
      BY <1>1, <2>1
    <3> QED BY <1>7, <3>1, <3>2, AppendProperties
  <2>3. clauses' \subseteq SUBSET Literal'
    <3>1. EqualityClauses(n, x) \subseteq SUBSET LitsOf(n + 1)
      BY <1>1, <1>2, EqualityLiterals
    <3> QED BY <1>1, <1>7, <2>1, <3>1
  <2>4. TypeOK'
    <3>1. n' \in Nat /\ last_var' = NoVar
      BY <1>0, <1>1, <1>7 DEF FlowOK
    <3>2. \A s \in xorClauses' : s \in Seq(Literal')
      BY <1>0, <1>1, <2>1 DEF TypeOK
    <3> QED BY <1>0, <1>1, <1>5, <1>7, <2>1, <2>2, <2>3, <3>1, <3>2 DEF TypeOK
  <2>5. FlowOK'
    BY <1>0, <1>1, <1>7 DEF FlowOK, ConvertPcs
  <2>6. StoreOK'
    <3>1. \A y \in DOMAIN extmonos' : EqualityClauses(extmonos'[y], y) \subseteq clauses'
      <4> SUFFICES ASSUME NEW y \in DOMAIN extmonos'
                   PROVE  EqualityClauses(extmonos'[y], y) \subseteq clauses'
        OBVIOUS
      <4>1. DOMAIN extmonos' = DOMAIN extmonos \cup {x} /\ extmonos'[x] = n
        BY <1>7 DEF Put
      <4>2. y # x => y \in DOMAIN extmonos /\ extmonos'[y] = extmonos[y]
        BY <1>7, <4>1 DEF Put
      <4> QED BY <1>4, <1>7, <4>1, <4>2
    <3> QED BY <2>1, <3>1 DEF StoreOK
  <2> QED BY <1>5, <2>4, <2>5, <2>6 DEF CourseOK
<1>8. \/ (\E l \in Literal : lits' = Append(lits, l)) /\ UNCHANGED <<pc, clauses, store>>
      \/ /\ extmonos' = Put(extmonos, x, n) /\ n' = n + 1
         /\ clauses' = clauses \cup EqualityClauses(n, x)
         /\ lits' = Append(lits, Lit(n, FALSE)) /\ UNCHANGED <<pc, frozen, cutxors>>
  <2>1. CASE deg(x) = 1 /\ (\E l \in x : lits' = Append(lits, l)) /\ UNCHANGED <<pc, clauses, store>>
    BY <1>3, <2>1
  <2>2. CASE /\ x \in DOMAIN extmonos /\ lits' = Append(lits, Lit(extmonos[x], FALSE))
             /\ UNCHANGED <<pc, clauses, store>>
    <3>1. extmonos[x] \in Upto(n)
      BY <1>0, <1>1, <2>2 DEF TypeOK, Upto
    <3>2. Lit(extmonos[x], FALSE) \in Literal
      BY <1>1, <3>1, LitMake DEF LitsOf
    <3> QED BY <2>2, <3>2
  <2>3. CASE frozen
    BY <1>1, <2>3
  <2>4. CASE /\ extmonos' = Put(extmonos, x, n) /\ n' = n + 1
             /\ clauses' = clauses \cup EqualityClauses(n, x)
             /\ lits' = Append(lits, Lit(n, FALSE)) /\ UNCHANGED <<pc, frozen, cutxors>>
    BY <2>4
  <2> QED BY <2>1, <2>2, <2>3, <2>4 DEF MonoStep, x
<1> QED BY <1>6, <1>7, <1>8

(* A piece of an XOR. *)
LEMMA CutCourse ==
  ASSUME CourseOK, CutStep
  PROVE  CourseOK'
<1> USE DEF given, store
<1> DEFINE n == next_available_var
<1>0. TypeOK /\ FlowOK /\ StoreOK /\ ListOK
  BY DEF CourseOK
<1>1. /\ pc = "cut" /\ lits # <<>> /\ frozen = FALSE
      /\ UNCHANGED <<given, it, monoList, todo, xorClauses, variableMix, written>>
      /\ n \in Nat /\ NumVars <= n /\ NumVars \in Nat /\ Literal = LitsOf(n)
      /\ clauses \subseteq SUBSET Literal
  BY <1>0, VarNumbers DEF CutStep, FlowOK, ConvertPcs, StoreOK, TypeOK, Literal, LitsOf, Upto
<1>2. Piece \in Seq(Literal) /\ Rest \in Seq(Literal)
  BY <1>0, <1>1, CutFacts
<1>3. \A y \in DOMAIN extmonos : EqualityClauses(extmonos[y], y) \subseteq clauses
  BY <1>0, <1>1 DEF StoreOK, ConvertPcs
<1>4. CASE /\ clauses' = clauses \cup all_combinations(Piece) /\ lits' = <<>>
           /\ UNCHANGED <<pc, last_var, store>>
  <2>1. clauses' \subseteq SUBSET Literal
    BY <1>1, <1>2, <1>4, CombinationLiterals
  <2>2. lits' \in Seq(Literal)
    BY <1>4
  <2>3. TypeOK'
    BY <1>0, <1>1, <1>4, <2>1, <2>2, SameLiterals DEF TypeOK
  <2>4. FlowOK'
    BY <1>0, <1>1, <1>4 DEF FlowOK, ConvertPcs
  <2>5. StoreOK'
    <3>1. \A y \in DOMAIN extmonos : EqualityClauses(extmonos[y], y) \subseteq clauses'
      BY <1>3, <1>4
    <3> QED BY <1>0, <1>4, <3>1 DEF StoreOK, Distinct
  <2>6. ListOK'
    BY <1>1, <1>4 DEF ListOK
  <2> QED BY <2>3, <2>4, <2>5, <2>6 DEF CourseOK
<1>5. CASE /\ cutxors' = Put(cutxors, Piece, n) /\ n' = n + 1 /\ last_var' = n
           /\ clauses' = clauses \cup all_combinations(Append(Piece, Lit(n, TRUE)))
           /\ lits' = Rest /\ UNCHANGED <<pc, frozen, extmonos>>
  <2>1. /\ Seq(Literal) \subseteq Seq(Literal') /\ Literal \subseteq Literal'
        /\ Literal' = LitsOf(n + 1)
        /\ DOMAIN extmonos' \subseteq ExtendedMonomial
        /\ \A y \in DOMAIN extmonos' : extmonos'[y] \in NumVars .. n' - 1
        /\ \A t \in DOMAIN cutxors' : t \in Seq(Literal') /\ cutxors'[t] \in NumVars .. n' - 1
        /\ NumVars <= n'
        /\ IsFiniteSet(DOMAIN extmonos') /\ IsFiniteSet(DOMAIN cutxors')
        /\ Distinct(extmonos') /\ Distinct(cutxors')
        /\ \A y \in DOMAIN extmonos', t \in DOMAIN cutxors' : extmonos'[y] # cutxors'[t]
    <3>1. {} \in ExtendedMonomial
      BY DEF ExtendedMonomial
    <3> QED BY <1>0, <1>2, <1>5, <3>1, NewVariable
  <2>2. clauses' \subseteq SUBSET Literal'
    <3>1. Lit(n, TRUE) \in Literal'
      <4>1. n \in Upto(n + 1)
        BY <1>1 DEF Upto
      <4> QED BY <2>1, <4>1, LitMake DEF LitsOf
    <3>2. Append(Piece, Lit(n, TRUE)) \in Seq(Literal')
      <4>1. Piece \in Seq(Literal')
        BY <1>2, <2>1
      <4> QED BY <3>1, <4>1, AppendProperties
    <3>3. n + 1 \in Nat
      BY <1>1
    <3>4. all_combinations(Append(Piece, Lit(n, TRUE))) \subseteq SUBSET LitsOf(n + 1)
      BY <2>1, <3>2, <3>3, CombinationLiterals
    <3> QED BY <1>1, <1>5, <2>1, <3>4
  <2>3. TypeOK'
    <3>1. n' \in Nat /\ last_var' \in {NoVar} \cup 0 .. n' - 1
      BY <1>1, <1>5
    <3>2. \A s \in xorClauses' : s \in Seq(Literal')
      BY <1>0, <1>1, <2>1 DEF TypeOK
    <3>3. lits' \in Seq(Literal')
      BY <1>2, <1>5, <2>1
    <3> QED BY <1>0, <1>1, <1>5, <2>1, <2>2, <3>1, <3>2, <3>3 DEF TypeOK
  <2>4. FlowOK'
    BY <1>0, <1>1, <1>5 DEF FlowOK, ConvertPcs
  <2>5. StoreOK'
    <3>1. \A y \in DOMAIN extmonos' : EqualityClauses(extmonos'[y], y) \subseteq clauses'
      BY <1>3, <1>5
    <3> QED BY <2>1, <3>1 DEF StoreOK
  <2>6. ListOK'
    BY <1>1, <1>5 DEF ListOK
  <2> QED BY <2>3, <2>4, <2>5, <2>6 DEF CourseOK
<1> QED BY <1>1, <1>4, <1>5 DEF CutStep

(* No step at all. *)
LEMMA StutterCourse ==
  ASSUME CourseOK, UNCHANGED vars
  PROVE  CourseOK'
<1> USE DEF vars, given, store
<1>1. TypeOK'
  BY SameLiterals DEF CourseOK, TypeOK
<1>2. FlowOK'
  BY DEF CourseOK, FlowOK
<1>3. StoreOK' /\ ListOK'
  BY DEF CourseOK, StoreOK, Distinct, ListOK, equation
<1> QED BY <1>1, <1>2, <1>3 DEF CourseOK

(* Every step keeps the agreement. *)
LEMMA NextCourse == CourseOK /\ [Next]_vars => CourseOK'
BY PlainCourse, PrintCourse, ListCourse, EquationCourse, MonoCourse, CutCourse, StutterCourse
   DEF Next

(* It holds of every state. *)
LEMMA CourseInvariance == Spec => []CourseOK
BY InitCourse, NextCourse, PTL DEF Spec

---------------------------------------------------------------------------
(***************************************************************************)
(* Type correctness of the conversion.                                     *)
(***************************************************************************)
THEOREM ConversionTyped == Spec => []TypeOK
<1>1. CourseOK => TypeOK
  BY DEF CourseOK
<1> QED BY <1>1, CourseInvariance, PTL

(***************************************************************************)
(* No assertion fails: a variable is never asked of a frozen store         *)
(* (variables.cpp:128, 143), the monomials are possible                    *)
(* (extendedmonomial.cpp:131), every literal has a mixed number            *)
(* (solverattrib.cpp:42).                                                  *)
(***************************************************************************)
THEOREM NeverFailing == Spec => []NeverFails
<1>1. CourseOK => NeverFails
  BY DEF CourseOK, FlowOK, NeverFails
<1> QED BY <1>1, CourseInvariance, PTL

(* simplify (equationstosat.h:98) changes the sum for no state and makes   *)
(* the list no longer.                                                     *)
THEOREM AlwaysSimplifiedSame == Spec => []SimplifiedSame
<1>1. CourseOK => SimplifiedSame
  <2> SUFFICES ASSUME CourseOK, pc = "simplify", NEW T
               PROVE  /\ Cardinality(monoList) <= Size(equation.right)
                      /\ Sum(monoList, T) = Eval(Monos(equation.right), T)
    BY DEF SimplifiedSame
  <2>1. /\ Cardinality(monoList) <= Size(equation.right)
        /\ Sum(monoList, T) <=> Eval(Monos(equation.right), T)
    BY DEF CourseOK, ListOK
  <2>2. Sum(monoList, T) \in BOOLEAN /\ Eval(Monos(equation.right), T) \in BOOLEAN
    BY DEF Sum, Eval, Odd
  <2> QED BY <2>1, <2>2
<1> QED BY <1>1, CourseInvariance, PTL

(* The values of a map, where no two are the same. *)
LEMMA DistinctValues ==
  ASSUME NEW f, IsFiniteSet(DOMAIN f), Distinct(f)
  PROVE  /\ IsFiniteSet({f[x] : x \in DOMAIN f})
         /\ Cardinality({f[x] : x \in DOMAIN f}) = Cardinality(DOMAIN f)
<1> DEFINE D == DOMAIN f
           V == {f[x] : x \in DOMAIN f}
           g == [x \in D |-> f[x]]
<1>1. g \in [D -> V] /\ (\A y \in V : \E x \in D : g[x] = y)
      /\ \A x, y \in D : g[x] = g[y] => x = y
  BY DEF Distinct
<1> HIDE DEF V, D, g
<1>2. ExistsBijection(D, V)
  BY <1>1 DEF ExistsBijection, Bijection, Injection, Surjection, IsInjective
<1>3. IsFiniteSet(D)
  BY DEF D
<1>4. IsFiniteSet(V) /\ Cardinality(V) = Cardinality(D)
  BY <1>2, <1>3, FS_Bijection
<1> QED BY <1>4 DEF V, D

(***************************************************************************)
(* While a problem is converted every product of the store is defined by   *)
(* the clauses of this problem, and no two internal variables are one.     *)
(***************************************************************************)
THEOREM AlwaysReusedDefined == Spec => []ReusedDefined
<1>1. CourseOK => ReusedDefined
  <2> SUFFICES ASSUME CourseOK, pc \in {"convert", "simplify", "monos", "cut"}
               PROVE  /\ \A x \in DOMAIN extmonos : EqualityClauses(extmonos[x], x) \subseteq clauses
                      /\ Cardinality(Internal) =
                           Cardinality(DOMAIN extmonos) + Cardinality(DOMAIN cutxors)
    BY DEF ReusedDefined
  <2>1. /\ \A x \in DOMAIN extmonos : EqualityClauses(extmonos[x], x) \subseteq clauses
        /\ IsFiniteSet(DOMAIN extmonos) /\ IsFiniteSet(DOMAIN cutxors)
        /\ Distinct(extmonos) /\ Distinct(cutxors)
        /\ \A x \in DOMAIN extmonos, s \in DOMAIN cutxors : extmonos[x] # cutxors[s]
    BY DEF CourseOK, StoreOK, ConvertPcs
  <2> DEFINE A == {extmonos[x] : x \in DOMAIN extmonos}
             B == {cutxors[s] : s \in DOMAIN cutxors}
  <2>2. A \cap B = {} /\ Internal = A \cup B
    BY <2>1 DEF Internal
  <2>3. /\ IsFiniteSet(A) /\ Cardinality(A) = Cardinality(DOMAIN extmonos)
        /\ IsFiniteSet(B) /\ Cardinality(B) = Cardinality(DOMAIN cutxors)
    BY <2>1, DistinctValues
  <2> HIDE DEF A, B
  <2>4. Cardinality(Internal) = Cardinality(DOMAIN extmonos) + Cardinality(DOMAIN cutxors)
    BY <2>2, <2>3, OddDisjointUnion
  <2> QED BY <2>1, <2>4
<1> QED BY <1>1, CourseInvariance, PTL

---------------------------------------------------------------------------
(***************************************************************************)
(* What the clauses say.  Between two equations the models are the         *)
(* solutions of those handled; within one, the XOR that is built has in    *)
(* every model the value that the monomials still to come make up to that  *)
(* of the right side; and while it is cut, the piece before and the        *)
(* literals left say the equation.                                         *)
(***************************************************************************)
Said    == Models(next_available_var, clauses, xorClauses)
Kept(E) == E \ Lost(E)

ModelsOK ==
  /\ pc \in {"convert", "simplify", "monos"} => Matches(Said, Kept(Handled))
  /\ pc = "monos" =>
       /\ lits = <<>> <=> todo = monoList
       /\ \A U \in Said :
            Eval(Monos(equation.right), U) <=> ~ (XorTrue(lits, U) <=> Sum(todo, U))
  /\ pc = "cut" /\ lits # <<>> =>
       /\ Matches(Said, Kept(Handled)) /\ ~ Contradiction(equation)
       /\ \A U \in Said : XorTrue(Chain \o lits, U) <=> Satisfied(equation, U)
  /\ pc = "cut" /\ lits = <<>> => Matches(Said, Kept(Handled \cup {equation}))

(* One more equation is handled. *)
LEMMA HandledNext ==
  ASSUME problem \in Problems \cup {<<>>}, it \in DOMAIN problem
  PROVE  /\ it' = it + 1 /\ problem' = problem => Handled' = Handled \cup {equation}
         /\ it' = it /\ problem' = problem => Handled' = Handled /\ equation' = equation
<1>1. DOMAIN problem = 1 .. Len(problem) /\ Len(problem) \in Nat
  BY EquationFacts
<1>2. {j \in DOMAIN problem : j < it + 1} = {j \in DOMAIN problem : j < it} \cup {it}
  BY <1>1
<1>3. it' = it + 1 /\ problem' = problem => Handled' = Handled \cup {equation}
  BY <1>2 DEF Handled, equation
<1>4. it' = it /\ problem' = problem => Handled' = Handled /\ equation' = equation
  BY DEF Handled, equation
<1> QED BY <1>3, <1>4

(* A contradiction that makes no clause is not asked for. *)
LEMMA KeptNext ==
  ASSUME NEW E, NEW e
  PROVE  /\ e \in Lost({e}) => Kept(E \cup {e}) = Kept(E)
         /\ e \notin Lost({e}) => Kept(E \cup {e}) = Kept(E) \cup {e}
BY DEF Kept, Lost

(* Clauses or an XOR that say the equation in every model. *)
LEMMA EquationSaid ==
  ASSUME NEW M, NEW E, Matches(M, E), NEW e, e.left \in Poly, e.right \in Poly,
         NEW K, K \subseteq M, \A U \in M : U \in K <=> Satisfied(e, U)
  PROVE  Matches(K, E \cup {e})
<1>1. \A U : Satisfied(e, U \cap Var) <=> Satisfied(e, U)
  BY SatisfiedVars DEF Satisfied
<1> QED BY <1>1, MatchesRestrict

(* Where the variables below n agree, so does all that is made of them. *)
LEMMA BelowAgrees ==
  ASSUME NEW n \in Nat, NumVars <= n, NEW U
  PROVE  LET V == U \cap Upto(n) IN
         /\ \A s \in Seq(LitsOf(n)) : XorTrue(s, U) <=> XorTrue(s, V)
         /\ \A x \in ExtendedMonomial : evaluate(x, U) <=> evaluate(x, V)
         /\ \A S \in SUBSET ExtendedMonomial : Sum(S, U) <=> Sum(S, V)
         /\ \A p \in Poly : Eval(p, U) = Eval(p, V)
<1> DEFINE V == U \cap Upto(n)
           N == Upto(n)
<1>1. \A v \in N : v \in U <=> v \in V
  OBVIOUS
<1>2. Var \subseteq N
  BY VarNumbers, MoreLiterals
<1> HIDE DEF V, N
<1>3. \A s \in Seq(N \X BOOLEAN) : XorTrue(s, U) <=> XorTrue(s, V)
  BY <1>1, XorAgrees
<1>4. \A x \in ExtendedMonomial : evaluate(x, U) <=> evaluate(x, V)
  <2> SUFFICES ASSUME NEW x \in ExtendedMonomial PROVE evaluate(x, U) <=> evaluate(x, V)
    OBVIOUS
  <2>1. x \in SUBSET (N \X BOOLEAN)
    BY <1>2 DEF ExtendedMonomial
  <2> QED BY <1>1, <2>1, ClauseAgrees
<1>5. \A S \in SUBSET ExtendedMonomial : Sum(S, U) <=> Sum(S, V)
  <2> SUFFICES ASSUME NEW S \in SUBSET ExtendedMonomial PROVE Sum(S, U) <=> Sum(S, V)
    OBVIOUS
  <2>1. {x \in S : evaluate(x, U)} = {x \in S : evaluate(x, V)}
    BY <1>4
  <2> QED BY <2>1 DEF Sum
<1>6. \A p \in Poly : Eval(p, U) = Eval(p, V)
  <2> SUFFICES ASSUME NEW p \in Poly PROVE Eval(p, U) = Eval(p, V)
    OBVIOUS
  <2>1. \A v \in AllVars(p) : v \in U <=> v \in V
    BY <1>1, <1>2, PolyVars
  <2> QED BY <2>1, EvalAgrees
<1> QED BY <1>3, <1>4, <1>5, <1>6 DEF V, N, LitsOf

(* A polynomial is the sum of its monomials and its constant. *)
LEMMA EvalConstant ==
  ASSUME NEW p \in Poly, NEW U
  PROVE  /\ Eval(p, U) <=> ~ (Eval(Monos(p), U) <=> IsInverted(p))
         /\ Monos(p) \in Poly
<1>1. IsFiniteSet(p) /\ IsFiniteSet(Monos(p))
  BY FinitePoly, FS_Subset DEF Monos
<1>2. IsInverted(p) \in BOOLEAN
  BY DEF IsInverted
<1>3. p = Xor(Monos(p), Const(IsInverted(p)))
  BY DEF Xor, Monos, Const, IsInverted
<1>4. IsFiniteSet(Const(IsInverted(p)))
  BY <1>2, FS_EmptySet, FS_Singleton DEF Const
<1>5. Eval(Const(IsInverted(p)), U) <=> IsInverted(p)
  BY <1>2, EvalSimple
<1>6. Eval(Xor(Monos(p), Const(IsInverted(p))), U)
        <=> ~ (Eval(Monos(p), U) <=> Eval(Const(IsInverted(p)), U))
  BY <1>1, <1>4, EvalXor
<1>7. Monos(p) \in Poly
  BY DEF Monos, Poly
<1> QED BY <1>3, <1>5, <1>6, <1>7

(***************************************************************************)
(* The end of add_as_xor (equationstosat.cpp): the XOR with the left side  *)
(* and the constants says the equation; the one that is left out, of no    *)
(* literal, is true.                                                       *)
(***************************************************************************)
LEMMA XorOfRight ==
  ASSUME TypeOK, NumVars <= next_available_var, NEW e, e.left \in Lefts, e.right \in Poly,
         NEW U, XorTrue(lits, U) <=> Eval(Monos(e.right), U)
  PROVE  /\ WithLeft(e.left) # <<>> \/ ~ Invert(e) => (XorTrue(XorOf(e), U) <=> Satisfied(e, U))
         /\ WithLeft(e.left) = <<>> /\ Invert(e) => Satisfied(e, U)
<1> DEFINE w == WithLeft(e.left)
           r == IsInverted(e.right)
           x == XorTrue(lits, U)
<1>1. /\ lits \in Seq(Literal) /\ next_available_var \in Nat
      /\ Literal = LitsOf(next_available_var) /\ Literal \subseteq Nat \X BOOLEAN
  BY DEF TypeOK, Literal, LitsOf, Upto
<1>2. /\ Eval(e.right, U) <=> ~ (x <=> r)
      /\ r \in BOOLEAN /\ Eval(e.right, U) \in BOOLEAN /\ Eval(e.left, U) \in BOOLEAN
      /\ x \in BOOLEAN
  BY EvalConstant DEF IsInverted, Eval, Odd, XorTrue
<1>3. w \in Seq(Literal) /\ w \in Seq(Nat \X BOOLEAN)
  BY <1>1, XorLiterals
<1>4. w # <<>> => (XorTrue(Inverted(w), U) <=> ~ XorTrue(w, U))
  BY <1>3, XorInverted
<1>5. ~ XorTrue(<<>>, U)
  BY XorSmall
<1>6. CASE IsVar(e.left)
  <2> DEFINE v == SingleVar(e.left)
             l == Lit(v, FALSE)
  <2>1. v \in Upto(NumVars) /\ (Eval(e.left, U) <=> v \in U)
    BY <1>6, VarNumbers, VarOrConst, EvalSimple DEF IsVar, Lefts
  <2>2. v \in Upto(next_available_var)
    BY <1>1, <2>1, VarNumbers, MoreLiterals
  <2>3. l \in Literal /\ (LitTrue(l, U) <=> v \in U)
    BY <1>1, <2>2, LitMake DEF LitsOf
  <2>4. w = Append(lits, l)
    BY <1>6 DEF WithLeft
  <2> HIDE DEF v, l
  <2>5. XorTrue(w, U) <=> ~ (x <=> v \in U)
    BY <1>1, <2>3, <2>4, XorAppend
  <2>6. w # <<>>
    BY <1>1, <2>3, <2>4, AppendProperties
  <2>7. Invert(e) <=> ~ r
    BY <1>6 DEF Invert
  <2>8. XorOf(e) = IF ~ r THEN Inverted(w) ELSE w
    BY <2>7 DEF XorOf
  <2>9. XorTrue(XorOf(e), U) <=> ~ (XorTrue(w, U) <=> ~ r)
    <3> HIDE DEF w, r
    <3>1. CASE r
      BY <2>8, <3>1
    <3>2. CASE ~ r
      BY <1>4, <2>6, <2>8, <3>2
    <3> QED BY <3>1, <3>2
  <2>10. Satisfied(e, U) <=> (v \in U <=> ~ (x <=> r))
    BY <1>2, <2>1 DEF Satisfied
  <2> HIDE DEF w, r, x
  <2> QED BY <2>5, <2>6, <2>9, <2>10 DEF w
<1>7. CASE ~ IsVar(e.left)
  <2> DEFINE b == IsInverted(e.left)
  <2>1. b \in BOOLEAN /\ (Eval(e.left, U) <=> b)
    <3>1. e.left = Const(b)
      BY <1>7, VarOrConst DEF IsVar, Lefts
    <3>2. b \in BOOLEAN
      BY DEF IsInverted
    <3> HIDE DEF b
    <3> QED BY <3>1, <3>2, EvalSimple
  <2>2. w = lits /\ (Invert(e) <=> (b <=> r))
    BY <1>2, <1>7, <2>1 DEF WithLeft, Invert
  <2>3. Satisfied(e, U) <=> (b <=> ~ (x <=> r))
    BY <1>2, <2>1 DEF Satisfied
  <2>4. XorOf(e) = IF Invert(e) THEN Inverted(w) ELSE w
    BY DEF XorOf
  <2>5. XorTrue(w, U) <=> x
    BY <2>2
  <2>6. w = <<>> => ~ x
    BY <1>5, <2>2
  <2> HIDE DEF w, r, x, b
  <2>7. CASE Invert(e)
    BY <1>4, <2>2, <2>3, <2>4, <2>5, <2>6, <2>7 DEF w
  <2>8. CASE ~ Invert(e)
    BY <2>2, <2>3, <2>4, <2>5, <2>6, <2>8 DEF w
  <2> QED BY <2>7, <2>8
<1> QED BY <1>6, <1>7

---------------------------------------------------------------------------
(* The steps, one by one: those that change no clause. *)
LEMMA PlainModels ==
  ASSUME CourseOK, ModelsOK,
         StartTest \/ SkipTautology \/ StartXor \/ SimplifyStep \/ SimplifyEnd \/ CutEnd
  PROVE  ModelsOK'
<1> USE DEF given, store
<1>0. TypeOK /\ FlowOK /\ StoreOK /\ ListOK
  BY DEF CourseOK
<1>1. CASE StartTest
  <2> USE <1>1 DEF StartTest
  <2>1. /\ pc' \in {"convert", "done"} /\ Handled' = {}
        /\ next_available_var' = NumVars /\ clauses' = {} /\ xorClauses' = {}
    <3>1. it' = 1
      BY <1>0 DEF FlowOK
    <3>2. \A j \in DOMAIN problem' : ~ (j < 1)
      <4>1. problem' \in Seq([left : Lefts, right : Poly])
        BY ConversionAssumption
      <4>2. DOMAIN problem' = 1 .. Len(problem')
        BY <4>1, LenProperties
      <4> QED BY <4>2
    <3>3. Handled' = {}
      BY <3>1, <3>2 DEF Handled
    <3> QED BY <1>0, <3>3 DEF FlowOK
  <2>2. Said' = SUBSET Var
    BY <2>1, VarNumbers DEF Said, Models, Upto
  <2>3. Kept({})' = {}
    BY DEF Kept, Lost
  <2>4. Matches(SUBSET Var, {})
    <3>1. Solutions({}) = SUBSET Var
      BY DEF Solutions
    <3> QED BY <3>1 DEF Matches
  <2>5. Kept(Handled)' = {}
    BY <2>1 DEF Kept, Lost
  <2> QED BY <2>1, <2>2, <2>4, <2>5 DEF ModelsOK
<1>2. CASE SkipTautology
  <2> USE <1>2 DEF SkipTautology, Converting
  <2>1. /\ Said' = Said /\ pc' = "convert" /\ Handled' = Handled \cup {equation}
        /\ Matches(Said, Kept(Handled)) /\ (\A E : Kept(E)' = Kept(E))
        /\ equation.left \in Lefts /\ equation.right \in Poly
        /\ \/ AllVars(equation.left) \cap AllVars(equation.right) = {}
           \/ equation.left = equation.right
    <3>1. Handled' = Handled \cup {equation}
      BY <1>0, HandledNext DEF TypeOK
    <3>2. Matches(Said, Kept(Handled))
      BY DEF ModelsOK
    <3>3. /\ equation.left \in Lefts /\ equation.right \in Poly
          /\ \/ AllVars(equation.left) \cap AllVars(equation.right) = {}
             \/ equation.left = equation.right
      BY <1>0, EquationFacts DEF TypeOK, equation
    <3> QED BY <3>1, <3>2, <3>3 DEF Said, Kept, Lost
  <2>2. equation.left = equation.right
    <3>1. IsVar(equation.left) /\ equation.left = Monos(equation.right)
      BY DEF IsTautology
    <3>2. AllVars(equation.left) = {SingleVar(equation.left)}
      BY <2>1, <3>1, VarOrConst DEF Lefts, IsVar
    <3>3. AllVars(equation.left) \subseteq AllVars(equation.right)
      BY <3>1 DEF AllVars, Monos
    <3> QED BY <2>1, <3>2, <3>3
  <2>3. Matches(Said, Kept(Handled \cup {equation}))
    <3>1. \A U \in Said : U \in Said <=> Satisfied(equation, U)
      BY <2>2 DEF Satisfied
    <3>2. equation.left \in Poly
      BY <2>1, VarOrConst DEF Lefts
    <3>3. Matches(Said, Kept(Handled) \cup {equation})
      BY <2>1, <3>1, <3>2, EquationSaid
    <3> QED BY <2>1, <3>3, KeptNext
  <2>4. Kept(Handled)' = Kept(Handled \cup {equation})
    BY <2>1 DEF Kept, Lost
  <2> QED BY <2>1, <2>3, <2>4 DEF ModelsOK
<1>3. CASE StartXor
  <2> USE <1>3 DEF StartXor, Converting
  <2>1. /\ Said' = Said /\ pc' \in {"simplify", "monos"} /\ Handled' = Handled
        /\ Matches(Said, Kept(Handled)) /\ Kept(Handled)' = Kept(Handled)
        /\ lits' = <<>> /\ todo' = monoList' /\ equation' = equation
    BY <1>0 DEF Said, Kept, Lost, Handled, equation, ModelsOK, FlowOK
  <2>2. CourseOK'
    BY ListCourse
  <2>3. \A U : Eval(Monos(equation.right), U) <=> ~ (XorTrue(<<>>, U) <=> Sum(monoList', U))
    <3>1. \A U : Sum(monoList', U) <=> Eval(Monos(equation.right), U)
      BY <2>1, <2>2 DEF CourseOK, ListOK
    <3> QED BY <3>1, XorSmall
  <2> QED BY <2>1, <2>3 DEF ModelsOK
<1>4. CASE SimplifyStep
  <2>1. /\ Said' = Said /\ Handled' = Handled /\ pc = "simplify"
        /\ Matches(Said, Kept(Handled)) /\ Kept(Handled)' = Kept(Handled)
    BY <1>0, <1>4 DEF Said, Kept, Lost, Handled, ModelsOK, SimplifyStep
  <2>2. pc' \in {"simplify", "assert"}
    BY <1>4 DEF SimplifyStep
  <2> QED BY <2>1, <2>2 DEF ModelsOK
<1>5. CASE SimplifyEnd
  <2> USE <1>5 DEF SimplifyEnd
  <2>1. /\ Said' = Said /\ pc' = "monos" /\ Handled' = Handled
        /\ Matches(Said, Kept(Handled)) /\ Kept(Handled)' = Kept(Handled)
        /\ lits' = <<>> /\ todo' = monoList' /\ equation' = equation /\ monoList' = monoList
    BY <1>0 DEF Said, Kept, Lost, Handled, equation, ModelsOK, FlowOK
  <2>2. \A U : Eval(Monos(equation.right), U) <=> ~ (XorTrue(<<>>, U) <=> Sum(monoList, U))
    <3>1. \A U : Sum(monoList, U) <=> Eval(Monos(equation.right), U)
      BY <1>0 DEF ListOK
    <3> QED BY <3>1, XorSmall
  <2> QED BY <2>1, <2>2 DEF ModelsOK
<1>6. CASE CutEnd
  <2> USE <1>6 DEF CutEnd
  <2>1. /\ Said' = Said /\ pc' = "convert" /\ Handled' = Handled \cup {equation}
        /\ Matches(Said, Kept(Handled \cup {equation}))
    <3>1. it \in DOMAIN problem
      BY <1>0 DEF FlowOK, ConvertPcs
    <3>2. Handled' = Handled \cup {equation}
      BY <1>0, <3>1, HandledNext DEF TypeOK
    <3> QED BY <3>2 DEF Said, ModelsOK
  <2>2. Kept(Handled)' = Kept(Handled \cup {equation})
    BY <2>1 DEF Kept, Lost
  <2> QED BY <2>1, <2>2 DEF ModelsOK
<1> QED BY <1>1, <1>2, <1>3, <1>4, <1>5, <1>6

(* A table of the equation. *)
LEMMA TableModels ==
  ASSUME CourseOK, ModelsOK, AddKarnaugh
  PROVE  ModelsOK'
<1> USE DEF given, store, AddKarnaugh, Converting
<1>0. TypeOK /\ FlowOK /\ StoreOK /\ ListOK
  BY DEF CourseOK
<1>1. PICK on \in Covers(equation.right, TRUE), off \in Covers(equation.right, FALSE) :
        clauses' = clauses \cup TableClauses(equation.left, equation.right, on, off)
  <2>1. PICK rows \in Covers(equation.right, TRUE) \X Covers(equation.right, FALSE) :
          clauses' = clauses \cup TableClauses(equation.left, equation.right, rows[1], rows[2])
    OBVIOUS
  <2> QED BY <2>1
<1>2. equation.left \in Lefts /\ equation.left \in Poly /\ equation.right \in Poly
  BY <1>0, EquationFacts, VarOrConst DEF TypeOK, equation, Lefts
<1>3. \A U : U \in Said' <=> U \in Said /\ Satisfied(equation, U)
  <2> DEFINE rows == TableClauses(equation.left, equation.right, on, off)
  <2>1. /\ clauses' = clauses \cup rows
        /\ UNCHANGED <<next_available_var, xorClauses>>
    BY <1>1
  <2>2. \A U : (\A c \in rows : ClauseTrue(c, U)) <=> Satisfied(equation, U)
    <3> HIDE DEF AddKarnaugh
    <3> QED BY <1>2, TableRight DEF Satisfied
  <2> HIDE DEF rows, AddKarnaugh
  <2>3. \A U : U \in Said' <=> U \in Said /\ \A c \in rows : ClauseTrue(c, U)
    BY <2>1, ModelsRestrict DEF Said
  <2> QED BY <2>2, <2>3
<1>4. Matches(Said', Kept(Handled) \cup {equation})
  <2>1. Matches(Said, Kept(Handled))
    BY DEF ModelsOK
  <2>2. Said' \subseteq Said /\ \A U \in Said : U \in Said' <=> Satisfied(equation, U)
    BY <1>3
  <2> QED BY <1>2, <2>1, <2>2, EquationSaid
<1>5. equation \notin Lost({equation})
  <2>1. PICK m \in Monos(equation.right) : ~ (Cardinality(m) <= 1)
    BY DEF UseKarnaugh, SimpleXOR
  <2> QED BY <2>1 DEF Lost, Contradiction
<1>6. Kept(Handled)' = Kept(Handled) \cup {equation}
  <2>1. Handled' = Handled \cup {equation}
    BY <1>0, HandledNext DEF TypeOK
  <2>2. Kept(Handled)' = Kept(Handled \cup {equation})
    BY <2>1 DEF Kept, Lost
  <2> QED BY <1>5, <2>2, KeptNext
<1> QED BY <1>4, <1>6 DEF ModelsOK

(* The XOR is whole. *)
LEMMA XorModels ==
  ASSUME CourseOK, ModelsOK, MonoEnd
  PROVE  ModelsOK'
<1> USE DEF given, store
<1>0. TypeOK /\ FlowOK /\ StoreOK /\ ListOK
  BY DEF CourseOK
<1>1. /\ pc = "monos" /\ todo = {} /\ it \in DOMAIN problem /\ it \in Nat
      /\ UNCHANGED <<given, last_var, store, clauses>>
      /\ lits = <<>> <=> monoList = {}
      /\ Matches(Said, Kept(Handled)) /\ last_var = NoVar
      /\ \A U \in Said : Eval(Monos(equation.right), U) <=> ~ (XorTrue(lits, U) <=> Sum(todo, U))
  BY <1>0 DEF MonoEnd, FlowOK, ConvertPcs, ModelsOK, TypeOK
<1>2. equation.left \in Lefts /\ equation.left \in Poly /\ equation.right \in Poly
  BY <1>0, <1>1, EquationFacts, VarOrConst DEF TypeOK, equation, Lefts
<1>3. \A U \in Said : XorTrue(lits, U) <=> Eval(Monos(equation.right), U)
  <2>1. \A U : ~ Sum({}, U)
    <3>1. \A U : {x \in {} : evaluate(x, U)} = {}
      OBVIOUS
    <3> QED BY <3>1, OddSmall DEF Sum
  <2> QED BY <1>1, <2>1
<1>4. /\ WithLeft(equation.left) # <<>> \/ ~ Invert(equation) =>
           \A U \in Said : XorTrue(XorOf(equation), U) <=> Satisfied(equation, U)
      /\ WithLeft(equation.left) = <<>> /\ Invert(equation) =>
           \A U \in Said : Satisfied(equation, U)
  <2>1. NumVars <= next_available_var
    BY <1>0 DEF StoreOK
  <2> QED BY <1>0, <1>2, <1>3, <2>1, XorOfRight
<1>5. lits = <<>> <=> IsEmpty(equation.right)
  BY <1>0, <1>1 DEF ListOK
<1>6. CASE /\ WithLeft(equation.left) = <<>> /\ Invert(equation)
           /\ pc' = "convert" /\ it' = it + 1 /\ UNCHANGED <<lits, xorClauses>>
  <2>1. Said' = Said /\ Matches(Said, Kept(Handled) \cup {equation})
    <3>1. \A U \in Said : U \in Said <=> Satisfied(equation, U)
      BY <1>4, <1>6
    <3>2. Matches(Said, Kept(Handled) \cup {equation})
      BY <1>1, <1>2, <3>1, EquationSaid
    <3>3. Said' = Said
      BY <1>1, <1>6 DEF Said
    <3> QED BY <3>2, <3>3
  <2>2. Kept(Handled)' \in {Kept(Handled), Kept(Handled) \cup {equation}}
    <3>1. Handled' = Handled \cup {equation}
      BY <1>0, <1>1, <1>6, HandledNext DEF TypeOK
    <3>2. Kept(Handled)' = Kept(Handled \cup {equation})
      BY <1>1, <3>1 DEF Kept, Lost
    <3> QED BY <3>2, KeptNext
  <2>3. Matches(Said', Kept(Handled)')
    BY <1>1, <2>1, <2>2
  <2> QED BY <1>6, <2>3 DEF ModelsOK
<1>7. CASE /\ WithLeft(equation.left) # <<>> \/ ~ Invert(equation)
           /\ cpd.use_xor_clauses /\ pc' = "convert" /\ it' = it + 1
           /\ xorClauses' = xorClauses \cup {XorOf(equation)}
  <2>1. \A U : U \in Said' <=> U \in Said /\ XorTrue(XorOf(equation), U)
    BY <1>1, <1>7, ModelsRestrict DEF Said
  <2>2. Matches(Said', Kept(Handled) \cup {equation})
    <3>1. Said' \subseteq Said /\ \A U \in Said : U \in Said' <=> Satisfied(equation, U)
      BY <1>4, <1>7, <2>1
    <3> QED BY <1>1, <1>2, <3>1, EquationSaid
  <2>3. Kept(Handled)' = Kept(Handled) \cup {equation}
    <3>1. Handled' = Handled \cup {equation}
      BY <1>0, <1>1, <1>7, HandledNext DEF TypeOK
    <3> QED BY <1>1, <1>7, <3>1 DEF Kept, Lost
  <2> QED BY <1>7, <2>2, <2>3 DEF ModelsOK
<1>8. CASE /\ WithLeft(equation.left) # <<>> \/ ~ Invert(equation)
           /\ ~ cpd.use_xor_clauses /\ lits' = XorOf(equation) /\ pc' = "cut"
           /\ UNCHANGED <<it, xorClauses>>
  <2>1. Said' = Said /\ Handled' = Handled /\ equation' = equation /\ Kept(Handled)' = Kept(Handled)
        /\ Kept(Handled \cup {equation})' = Kept(Handled \cup {equation})
    BY <1>1, <1>8 DEF Said, Handled, equation, Kept, Lost
  <2>2. Chain' \o lits' = XorOf(equation)
    <3>1. Chain' = <<>>
      BY <1>1 DEF Chain
    <3>2. XorOf(equation) \in Seq(Literal)
      BY <1>0, <1>2, XorLiterals DEF StoreOK
    <3> QED BY <1>8, <3>1, <3>2, ConcatEmptySeq
  <2>3. lits' # <<>> => ~ Contradiction(equation)
    <3> SUFFICES ASSUME Contradiction(equation) PROVE lits' = <<>>
      OBVIOUS
    <3>1. Monos(equation.left) = {} /\ Monos(equation.right) = {}
      BY DEF Contradiction
    <3>2. WithLeft(equation.left) = <<>>
      BY <1>5, <3>1 DEF IsEmpty, WithLeft, IsVar
    <3> QED BY <1>8, <3>2 DEF XorOf
  <2>4. lits' = <<>> => Kept(Handled \cup {equation}) = Kept(Handled)
    <3> SUFFICES ASSUME lits' = <<>> PROVE equation \in Lost({equation})
      BY KeptNext
    <3>1. WithLeft(equation.left) = <<>>
      <4>1. WithLeft(equation.left) \in Seq(Literal)
        BY <1>0, <1>2, XorLiterals DEF StoreOK
      <4>2. WithLeft(equation.left) # <<>> => Inverted(WithLeft(equation.left)) # <<>>
        BY <4>1, EmptySeq DEF Inverted
      <4> QED BY <1>8, <4>2 DEF XorOf
    <3>2. ~ Invert(equation)
      BY <1>8, <3>1
    <3>3. ~ IsVar(equation.left) /\ lits = <<>>
      <4>1. \A l : Append(lits, l) # <<>>
        <5> SUFFICES ASSUME NEW l PROVE Append(lits, l) # <<>>
          OBVIOUS
        <5>1. lits \in Seq(Literal \cup {l}) /\ l \in Literal \cup {l}
          BY <1>0 DEF TypeOK
        <5> QED BY <5>1, AppendProperties
      <4> QED BY <3>1, <4>1 DEF WithLeft
    <3>4. Monos(equation.left) = {} /\ Monos(equation.right) = {}
      BY <1>5, <3>3 DEF IsVar, IsEmpty
    <3>5. equation.left # equation.right
      BY <3>2, <3>3 DEF Invert
    <3> QED BY <1>8, <3>4, <3>5 DEF Lost, Contradiction
  <2>5. lits' # <<>> => \A U \in Said : XorTrue(Chain' \o lits', U) <=> Satisfied(equation, U)
    BY <1>4, <1>8, <2>2
  <2>6. lits' = <<>> => Matches(Said, Kept(Handled \cup {equation}))
    BY <1>1, <2>4
  <2>7. \A U : Satisfied(equation, U)' = Satisfied(equation, U) /\ Contradiction(equation)' = Contradiction(equation)
    BY <2>1 DEF Satisfied, Contradiction
  <2> QED BY <1>1, <1>8, <2>1, <2>3, <2>5, <2>6, <2>7 DEF ModelsOK
<1> QED BY <1>6, <1>7, <1>8 DEF MonoEnd(* Clauses that define a new variable keep the models apart from it. *)
LEMMA DefinedModels ==
  ASSUME TypeOK, NumVars <= next_available_var, NEW E, Matches(Said, E),
         next_available_var' = next_available_var + 1, xorClauses' = xorClauses,
         NEW D, clauses' = clauses \cup D, NEW G,
         \A U \in SUBSET Upto(next_available_var + 1) :
           (\A c \in D : ClauseTrue(c, U))
             <=> (next_available_var \in U <=> U \cap Upto(next_available_var) \in G)
  PROVE  /\ Matches(Said', E)
         /\ \A U \in Said' : /\ U \cap Upto(next_available_var) \in Said
                             /\ U \in SUBSET Upto(next_available_var + 1)
                             /\ next_available_var \in U <=> U \cap Upto(next_available_var) \in G
<1> DEFINE n == next_available_var
           C == clauses
           X == xorClauses
           K == Models(n + 1, C \cup D, X)
           M == Models(n, C, X)
<1>1. /\ n \in Nat /\ C \in SUBSET SUBSET LitsOf(n) /\ X \in SUBSET Seq(LitsOf(n))
      /\ M \subseteq SUBSET Upto(n)
  BY DEF TypeOK, Literal, LitsOf, Upto, Models
<1>2. /\ NumVars <= n /\ Matches(M, E) /\ M = Said /\ K = Said'
      /\ \A U \in SUBSET Upto(n+1) :
           (\A c \in D : ClauseTrue(c, U)) <=> (n \in U <=> U \cap Upto(n) \in G)
  BY DEF Said
<1> HIDE DEF n, C, X
<1>3. \A U : U \in K <=> /\ U \in SUBSET Upto(n+1) /\ U \cap Upto(n) \in M
                         /\ n \in U <=> U \cap Upto(n) \in G
  BY <1>1, <1>2, ModelsExtend
<1> HIDE DEF K, M
<1>4. Matches(K, E)
  BY <1>1, <1>2, <1>3, MatchesExtend
<1> QED BY <1>2, <1>3, <1>4 DEF n

(* The literal of a monomial. *)
LEMMA MonoModels ==
  ASSUME CourseOK, ModelsOK, MonoStep
  PROVE  ModelsOK'
<1> USE DEF given, store
<1> DEFINE x == First(todo)
           n == next_available_var
           q == Monos(equation.right)
<1>0. TypeOK /\ FlowOK /\ StoreOK /\ ListOK
  BY DEF CourseOK
<1>1. /\ pc = "monos" /\ todo' = todo \ {x} /\ frozen = FALSE /\ todo # {}
      /\ equation' = equation /\ Kept(Handled)' = Kept(Handled)
      /\ UNCHANGED <<given, it, monoList, last_var, xorClauses, variableMix, written>>
      /\ n \in Nat /\ NumVars <= n /\ NumVars \in Nat /\ Literal = LitsOf(n)
      /\ lits \in Seq(Literal)
  <2>1. pc = "monos" /\ todo # {} /\ todo' = todo \ {x}
        /\ UNCHANGED <<given, it, monoList, last_var, xorClauses, variableMix, written>>
    BY DEF MonoStep
  <2>2. equation' = equation /\ Kept(Handled)' = Kept(Handled)
    BY <2>1 DEF equation, Kept, Handled, Lost
  <2>3. frozen = FALSE /\ n \in Nat /\ NumVars <= n /\ NumVars \in Nat /\ lits \in Seq(Literal)
    BY <1>0, <2>1, VarNumbers DEF FlowOK, ConvertPcs, StoreOK, TypeOK
  <2>4. Literal = LitsOf(n)
    BY DEF Literal, LitsOf, Upto
  <2> QED BY <2>1, <2>2, <2>3, <2>4
<1>2. /\ x \in todo /\ x \in ExtendedMonomial /\ x \in SUBSET (Nat \X BOOLEAN)
      /\ IsFiniteSet(todo) /\ todo \in SUBSET ExtendedMonomial
  <2>1. MonosOK(todo)
    BY <1>0, <1>1 DEF ListOK, TypeOK, MonosOK
  <2>2. x \in todo /\ x \in ExtendedMonomial
    BY <1>1, <2>1, FirstFacts DEF MonosOK
  <2>3. IsFiniteSet(todo) /\ todo \in SUBSET ExtendedMonomial
    BY <2>1, MonosFinite DEF MonosOK
  <2> QED BY <2>2, <2>3, VarNumbers DEF ExtendedMonomial
<1>3. /\ Matches(Said, Kept(Handled))
      /\ \A U \in Said : Eval(q, U) <=> ~ (XorTrue(lits, U) <=> Sum(todo, U))
  BY <1>1 DEF ModelsOK
<1>4. \A U : Sum(todo, U) <=> ~ (Sum(todo', U) <=> evaluate(x, U))
  BY <1>1, <1>2, SumRemove
<1>5. todo' # monoList' /\ x \in monoList
  BY <1>0, <1>1, <1>2 DEF TypeOK
<1>6. q \in Poly
  BY <1>0, <1>1, EquationFacts, EvalConstant DEF TypeOK, FlowOK, ConvertPcs, equation
<1> HIDE DEF x, q
<1>7. ASSUME NEW l \in Literal, lits' = Append(lits, l), UNCHANGED <<pc, clauses, store>>,
             \A U \in Said : LitTrue(l, U) <=> evaluate(x, U)
      PROVE  ModelsOK'
  <2>1. lits' # <<>> /\ \A U : XorTrue(lits', U) <=> ~ (XorTrue(lits, U) <=> LitTrue(l, U))
    BY <1>1, <1>7, XorAppend, AppendProperties
  <2>2. Said' = Said
    BY <1>1, <1>7 DEF Said
  <2>3. \A U \in Said : Eval(q, U) <=> ~ (XorTrue(lits', U) <=> Sum(todo', U))
    BY <1>3, <1>4, <1>7, <2>1
  <2> QED BY <1>1, <1>3, <1>5, <1>7, <2>1, <2>2, <2>3 DEF ModelsOK, q
<1>8. CASE deg(x) = 1 /\ (\E l \in x : lits' = Append(lits, l)) /\ UNCHANGED <<pc, clauses, store>>
  <2>1. PICK l \in x : lits' = Append(lits, l)
    BY <1>8
  <2>2. x = {l}
    <3>1. IsFiniteSet(x) /\ Cardinality(x) = 1
      BY <1>2, <1>8, MonosFinite DEF deg
    <3>2. \E k : x = {k}
      BY <3>1, FS_Singleton
    <3> QED BY <3>2
  <2>3. l \in Literal
    <3>1. l \in LitsOf(NumVars)
      BY <1>2, VarNumbers DEF ExtendedMonomial, LitsOf
    <3> QED BY <1>1, <3>1, MoreLiterals
  <2>4. \A U : LitTrue(l, U) <=> evaluate(x, U)
    BY <2>2 DEF evaluate
  <2> QED BY <1>7, <1>8, <2>1, <2>3, <2>4
<1>9. CASE /\ x \in DOMAIN extmonos /\ lits' = Append(lits, Lit(extmonos[x], FALSE))
           /\ UNCHANGED <<pc, clauses, store>>
  <2> DEFINE e == extmonos[x]
             l == Lit(e, FALSE)
  <2>1. e \in Upto(n) /\ e \in Nat
    BY <1>0, <1>1, <1>9 DEF TypeOK, Upto
  <2>2. EqualityClauses(e, x) \subseteq clauses
    BY <1>0, <1>1, <1>9 DEF StoreOK, ConvertPcs
  <2> HIDE DEF e
  <2>3. l \in Literal /\ \A U : LitTrue(l, U) <=> e \in U
    BY <1>1, <2>1, LitMake DEF LitsOf
  <2>4. \A U \in Said : e \in U <=> evaluate(x, U)
    <3> SUFFICES ASSUME NEW U \in Said PROVE e \in U <=> evaluate(x, U)
      OBVIOUS
    <3>1. \A c \in EqualityClauses(e, x) : ClauseTrue(c, U)
      BY <2>2 DEF Said, Models
    <3> QED BY <1>2, <2>1, <3>1, EqualityDefines
  <2>5. lits' = Append(lits, l)
    BY <1>9 DEF e
  <2> HIDE DEF l
  <2> QED BY <1>7, <1>9, <2>3, <2>4, <2>5
<1>10. CASE /\ n' = n + 1 /\ clauses' = clauses \cup EqualityClauses(n, x)
            /\ lits' = Append(lits, Lit(n, FALSE)) /\ pc' = pc
  <2> DEFINE G == {V \in SUBSET Upto(n) : evaluate(x, V)}
             l == Lit(n, FALSE)
  <2>1. \A U \in SUBSET Upto(n + 1) : \A V : V = U \cap Upto(n) =>
          /\ XorTrue(lits, U) <=> XorTrue(lits, V)
          /\ evaluate(x, U) <=> evaluate(x, V)
          /\ Sum(todo', U) <=> Sum(todo', V)
          /\ Eval(q, U) = Eval(q, V)
    <3>1. /\ lits \in Seq(LitsOf(n)) /\ q \in Poly
          /\ x \in ExtendedMonomial /\ todo' \in SUBSET ExtendedMonomial
      BY <1>1, <1>2, <1>6
    <3> SUFFICES ASSUME NEW U \in SUBSET Upto(n + 1)
                 PROVE  LET V == U \cap Upto(n) IN
                        /\ XorTrue(lits, U) <=> XorTrue(lits, V)
                        /\ evaluate(x, U) <=> evaluate(x, V)
                        /\ Sum(todo', U) <=> Sum(todo', V)
                        /\ Eval(q, U) = Eval(q, V)
      OBVIOUS
    <3> QED BY <1>1, <3>1, BelowAgrees
  <2>2. \A U \in SUBSET Upto(n + 1) :
          (\A c \in EqualityClauses(n, x) : ClauseTrue(c, U)) <=> (n \in U <=> U \cap Upto(n) \in G)
    <3> SUFFICES ASSUME NEW U \in SUBSET Upto(n + 1)
                 PROVE  (\A c \in EqualityClauses(n, x) : ClauseTrue(c, U))
                          <=> (n \in U <=> U \cap Upto(n) \in G)
      OBVIOUS
    <3>1. (\A c \in EqualityClauses(n, x) : ClauseTrue(c, U)) <=> (n \in U <=> evaluate(x, U))
      BY <1>1, <1>2, EqualityDefines
    <3>2. U \cap Upto(n) \in G <=> evaluate(x, U)
      BY <2>1
    <3> QED BY <3>1, <3>2
  <2> HIDE DEF G
  <2>3. /\ Matches(Said', Kept(Handled))
        /\ \A U \in Said' : /\ U \cap Upto(n) \in Said /\ U \in SUBSET Upto(n + 1)
                            /\ n \in U <=> U \cap Upto(n) \in G
    BY <1>0, <1>1, <1>3, <1>10, <2>2, DefinedModels
  <2>4. /\ l \in LitsOf(n + 1) /\ lits \in Seq(LitsOf(n + 1))
        /\ \A U : LitTrue(l, U) <=> n \in U
    <3>1. n \in Upto(n + 1) /\ n + 1 \in Nat /\ n <= n + 1
      BY <1>1 DEF Upto
    <3> QED BY <1>1, <3>1, LitMake, MoreLiterals DEF LitsOf
  <2>5. lits' = Append(lits, l)
    BY <1>10
  <2> HIDE DEF l
  <2>6. lits' # <<>> /\ \A U : XorTrue(lits', U) <=> ~ (XorTrue(lits, U) <=> LitTrue(l, U))
    BY <2>4, <2>5, XorAppend, AppendProperties
  <2>7. ASSUME NEW U \in Said'
        PROVE  Eval(q, U) <=> ~ (XorTrue(lits', U) <=> Sum(todo', U))
    <3> DEFINE V == U \cap Upto(n)
    <3>1. V \in Said /\ V \in SUBSET Upto(n) /\ (n \in U <=> evaluate(x, V))
      BY <2>3 DEF G
    <3>2. /\ XorTrue(lits, U) <=> XorTrue(lits, V)
          /\ Sum(todo', U) <=> Sum(todo', V)
          /\ Eval(q, U) = Eval(q, V)
      BY <2>1, <2>3
    <3> HIDE DEF V
    <3>3. Eval(q, V) <=> ~ (XorTrue(lits, V) <=> ~ (Sum(todo', V) <=> evaluate(x, V)))
      BY <1>3, <1>4, <3>1
    <3>4. XorTrue(lits', U) <=> ~ (XorTrue(lits, V) <=> evaluate(x, V))
      BY <2>4, <2>6, <3>1, <3>2
    <3> QED BY <3>2, <3>3, <3>4
  <2> QED BY <1>1, <1>5, <1>10, <2>3, <2>6, <2>7 DEF ModelsOK, q
<1> QED
  <2>1. \/ /\ deg(x) = 1 /\ (\E l \in x : lits' = Append(lits, l))
           /\ UNCHANGED <<pc, clauses, store>>
        \/ /\ x \in DOMAIN extmonos /\ lits' = Append(lits, Lit(extmonos[x], FALSE))
           /\ UNCHANGED <<pc, clauses, store>>
        \/ /\ n' = n + 1 /\ clauses' = clauses \cup EqualityClauses(n, x)
           /\ lits' = Append(lits, Lit(n, FALSE)) /\ pc' = pc
    BY <1>1 DEF MonoStep, x
  <2> QED BY <1>8, <1>9, <1>10, <2>1(* A piece of an XOR. *)
LEMMA CutModels ==
  ASSUME CourseOK, ModelsOK, CutStep
  PROVE  ModelsOK'
<1> USE DEF given, store
<1> DEFINE n == next_available_var
           taken == SubSeq(lits, 1, Taken)
<1>0. TypeOK /\ FlowOK /\ StoreOK /\ ListOK
  BY DEF CourseOK
<1>1. /\ pc = "cut" /\ lits # <<>> /\ frozen = FALSE
      /\ UNCHANGED <<given, it, monoList, todo, xorClauses, variableMix, written>>
      /\ n \in Nat /\ NumVars <= n /\ Literal = LitsOf(n) /\ Literal \subseteq Nat \X BOOLEAN
  BY <1>0 DEF CutStep, FlowOK, ConvertPcs, StoreOK, TypeOK, Literal, LitsOf, Upto
<1>2. /\ Matches(Said, Kept(Handled)) /\ ~ Contradiction(equation)
      /\ \A U \in Said : XorTrue(Chain \o lits, U) <=> Satisfied(equation, U)
  BY <1>1 DEF ModelsOK
<1>3. /\ Chain \in Seq(Literal) /\ taken \in Seq(Literal) /\ Piece \in Seq(Literal)
      /\ Rest \in Seq(Literal) /\ Piece \in Seq(Nat \X BOOLEAN)
      /\ Piece = Chain \o taken /\ lits = taken \o Rest /\ lits \in Seq(Literal)
  <2>1. /\ Chain \in Seq(Literal) /\ taken \in Seq(Literal) /\ Piece \in Seq(Literal)
        /\ Rest \in Seq(Literal) /\ Piece = Chain \o taken /\ lits = taken \o Rest
    BY <1>0, <1>1, CutFacts
  <2>2. lits \in Seq(Literal)
    BY <1>0 DEF TypeOK
  <2>3. Piece \in Seq(Nat \X BOOLEAN)
    BY <1>1, <2>1
  <2> QED BY <2>1, <2>2, <2>3
<1>4. \A U : XorTrue(Chain \o lits, U) <=> ~ (XorTrue(Piece, U) <=> XorTrue(Rest, U))
  <2> HIDE DEF taken
  <2>1. \A U : XorTrue(Piece, U) <=> ~ (XorTrue(Chain, U) <=> XorTrue(taken, U))
    <3>1. Chain \in Seq(Literal) /\ taken \in Seq(Literal)
      BY <1>3
    <3>2. \A U : XorTrue(Chain \o taken, U) <=> ~ (XorTrue(Chain, U) <=> XorTrue(taken, U))
      BY <3>1, XorConcat
    <3> QED BY <1>3, <3>2
  <2>2. \A U : XorTrue(lits, U) <=> ~ (XorTrue(taken, U) <=> XorTrue(Rest, U))
    <3>1. taken \in Seq(Literal) /\ Rest \in Seq(Literal)
      BY <1>3
    <3>2. \A U : XorTrue(taken \o Rest, U) <=> ~ (XorTrue(taken, U) <=> XorTrue(Rest, U))
      BY <3>1, XorConcat
    <3> QED BY <1>3, <3>2
  <2>3. \A U : XorTrue(Chain \o lits, U) <=> ~ (XorTrue(Chain, U) <=> XorTrue(lits, U))
    <3>1. Chain \in Seq(Literal) /\ lits \in Seq(Literal)
      BY <1>3
    <3> QED BY <3>1, XorConcat
  <2> QED BY <2>1, <2>2, <2>3
<1>5. /\ equation.left \in Poly /\ equation.right \in Poly
      /\ Handled' = Handled /\ equation' = equation /\ it \in DOMAIN problem
  <2>1. it \in DOMAIN problem
    BY <1>0, <1>1 DEF FlowOK, ConvertPcs
  <2> QED BY <1>0, <1>1, <2>1, HandledNext, EquationFacts, VarOrConst DEF TypeOK, equation, Lefts
<1>6. /\ Kept(Handled)' = Kept(Handled)
      /\ Kept(Handled \cup {equation})' = Kept(Handled) \cup {equation}
      /\ Contradiction(equation)' = Contradiction(equation)
      /\ \A U : Satisfied(equation, U)' = Satisfied(equation, U)
  <2>1. Kept(Handled)' = Kept(Handled)
        /\ Kept(Handled \cup {equation})' = Kept(Handled \cup {equation})
    BY <1>1, <1>5 DEF Kept, Lost
  <2>2. equation \notin Lost({equation})
    BY <1>2 DEF Lost
  <2>3. Kept(Handled \cup {equation}) = Kept(Handled) \cup {equation}
    BY <2>2, KeptNext
  <2> QED BY <1>5, <2>1, <2>3 DEF Contradiction, Satisfied
<1> HIDE DEF taken
<1>7. CASE /\ Rest = <<>> /\ clauses' = clauses \cup all_combinations(Piece) /\ lits' = <<>>
           /\ UNCHANGED <<pc, last_var, store>>
  <2>1. \A U : U \in Said' <=> U \in Said /\ XorTrue(Piece, U)
    <3>1. \A U : U \in Said' <=>
            U \in Said /\ \A c \in all_combinations(Piece) : ClauseTrue(c, U)
      <4>1. Said' = Models(n, clauses \cup all_combinations(Piece), xorClauses)
        BY <1>1, <1>7 DEF Said
      <4>2. Said = Models(n, clauses, xorClauses)
        BY DEF Said
      <4> HIDE DEF n
      <4> QED BY <4>1, <4>2, ModelsRestrict
    <3> QED BY <1>3, <3>1, CombinationsAreXor
  <2>2. \A U \in Said : XorTrue(Piece, U) <=> Satisfied(equation, U)
    BY <1>2, <1>4, <1>7, XorSmall
  <2>3. Matches(Said', Kept(Handled) \cup {equation})
    <3>1. Said' \subseteq Said /\ \A U \in Said : U \in Said' <=> Satisfied(equation, U)
      BY <2>1, <2>2
    <3> QED BY <1>2, <1>5, <3>1, EquationSaid
  <2> QED BY <1>1, <1>6, <1>7, <2>3 DEF ModelsOK
<1>8. CASE /\ Rest # <<>> /\ n' = n + 1 /\ last_var' = n
           /\ clauses' = clauses \cup all_combinations(Append(Piece, Lit(n, TRUE)))
           /\ lits' = Rest /\ pc' = pc
  <2> DEFINE G == {V \in SUBSET Upto(n) : XorTrue(Piece, V)}
             l == Lit(n, TRUE)
             k == Lit(n, FALSE)
  <2>1. /\ l \in Nat \X BOOLEAN /\ k \in LitsOf(n + 1)
        /\ \A U : (LitTrue(l, U) <=> n \notin U) /\ (LitTrue(k, U) <=> n \in U)
        /\ Rest \in Seq(LitsOf(n + 1))
    <3>1. n \in Upto(n + 1) /\ n + 1 \in Nat /\ n <= n + 1
      BY <1>1 DEF Upto
    <3> QED BY <1>1, <1>3, <3>1, LitMake, MoreLiterals DEF LitsOf
  <2>2. \A U : \A V : V = U \cap Upto(n) =>
          /\ XorTrue(Piece, U) <=> XorTrue(Piece, V)
          /\ XorTrue(Rest, U) <=> XorTrue(Rest, V)
          /\ Eval(equation.left, U) = Eval(equation.left, V)
          /\ Eval(equation.right, U) = Eval(equation.right, V)
    <3>1. /\ Piece \in Seq(LitsOf(n)) /\ Rest \in Seq(LitsOf(n))
          /\ equation.left \in Poly /\ equation.right \in Poly
      BY <1>1, <1>3, <1>5
    <3> SUFFICES ASSUME NEW U
                 PROVE  LET V == U \cap Upto(n) IN
                        /\ XorTrue(Piece, U) <=> XorTrue(Piece, V)
                        /\ XorTrue(Rest, U) <=> XorTrue(Rest, V)
                        /\ Eval(equation.left, U) = Eval(equation.left, V)
                        /\ Eval(equation.right, U) = Eval(equation.right, V)
      OBVIOUS
    <3> QED BY <1>1, <3>1, BelowAgrees
  <2>3. clauses' = clauses \cup all_combinations(Append(Piece, l))
        /\ Chain' = <<k>> /\ lits' = Rest
    <3>1. n # NoVar
      BY <1>1 DEF NoVar
    <3> QED BY <1>8, <3>1 DEF Chain
  <2> HIDE DEF l, k
  <2>4. \A U \in SUBSET Upto(n + 1) :
          (\A c \in all_combinations(Append(Piece, l)) : ClauseTrue(c, U))
            <=> (n \in U <=> U \cap Upto(n) \in G)
    <3> SUFFICES ASSUME NEW U \in SUBSET Upto(n + 1)
                 PROVE  (\A c \in all_combinations(Append(Piece, l)) : ClauseTrue(c, U))
                          <=> (n \in U <=> U \cap Upto(n) \in G)
      OBVIOUS
    <3>1. Append(Piece, l) \in Seq(Nat \X BOOLEAN)
      BY <1>3, <2>1, AppendProperties
    <3>2. (\A c \in all_combinations(Append(Piece, l)) : ClauseTrue(c, U))
            <=> XorTrue(Append(Piece, l), U)
      BY <3>1, CombinationsAreXor
    <3>3. XorTrue(Append(Piece, l), U) <=> ~ (XorTrue(Piece, U) <=> LitTrue(l, U))
      <4>1. Piece \in Seq(Nat \X BOOLEAN) /\ l \in Nat \X BOOLEAN
        BY <1>3, <2>1
      <4> HIDE DEF Piece
      <4> QED BY <4>1, XorAppend
    <3>4. U \cap Upto(n) \in G <=> XorTrue(Piece, U)
      BY <2>2
    <3> QED BY <2>1, <3>2, <3>3, <3>4
  <2> HIDE DEF G
  <2>5. /\ Matches(Said', Kept(Handled))
        /\ \A U \in Said' : /\ U \cap Upto(n) \in Said /\ U \in SUBSET Upto(n + 1)
                            /\ n \in U <=> U \cap Upto(n) \in G
    BY <1>0, <1>1, <1>2, <1>8, <2>3, <2>4, DefinedModels
  <2>6. ASSUME NEW U \in Said'
        PROVE  XorTrue(Chain' \o lits', U) <=> Satisfied(equation, U)
    <3> DEFINE V == U \cap Upto(n)
    <3>1. V \in Said /\ (n \in U <=> XorTrue(Piece, V))
      BY <2>5 DEF G
    <3>2. /\ XorTrue(Rest, U) <=> XorTrue(Rest, V)
          /\ Satisfied(equation, U) <=> Satisfied(equation, V)
      BY <2>2 DEF Satisfied
    <3>3. XorTrue(<<k>> \o Rest, U) <=> ~ (LitTrue(k, U) <=> XorTrue(Rest, U))
      <4>1. <<k>> \in Seq(LitsOf(n + 1))
        BY <2>1
      <4>2. XorTrue(<<k>> \o Rest, U) <=> ~ (XorTrue(<<k>>, U) <=> XorTrue(Rest, U))
        BY <2>1, <4>1, XorConcat
      <4>3. XorTrue(<<k>>, U) <=> LitTrue(k, U)
        BY XorSmall
      <4> QED BY <4>2, <4>3
    <3>4. XorTrue(Chain \o lits, V) <=> ~ (XorTrue(Piece, V) <=> XorTrue(Rest, V))
      BY <1>4
    <3> HIDE DEF V
    <3> QED BY <1>2, <2>1, <2>3, <3>1, <3>2, <3>3, <3>4
  <2> QED BY <1>1, <1>2, <1>5, <1>6, <1>8, <2>5, <2>6 DEF ModelsOK
<1> QED BY <1>1, <1>7, <1>8 DEF CutStep

---------------------------------------------------------------------------
(***************************************************************************)
(* The file: no two variables have one mixed number, and under the mix the *)
(* clauses have the models they had.                                       *)
(***************************************************************************)
FileModels == {Unmixed(T) : T \in Models(written.size, written.clauses, written.xorClauses)}
FileOK ==
  /\ pc \in {"mix", "write"} => Distinct(variableMix)
  /\ pc = "mix" => Matches(Said, Kept(ProblemEqs))
  /\ pc = "write" => Matches({Unmixed(T) : T \in Said}, Kept(ProblemEqs))
  /\ written # None =>
       pc \in {"done", "nameless"} /\ Matches(FileModels, Kept(ProblemEqs))

MeaningOK == CourseOK /\ ModelsOK /\ FileOK

(* The steps before the print leave the file alone. *)
LEMMA BeforeFile ==
  ASSUME MeaningOK,
         \/ StartTest \/ SkipTautology \/ AddKarnaugh \/ StartXor \/ SimplifyStep
         \/ SimplifyEnd \/ MonoStep \/ MonoEnd \/ CutStep \/ CutEnd
  PROVE  FileOK'
<1>1. written = None
  BY DEF MeaningOK, CourseOK, FlowOK, ConvertPcs, StartTest, SkipTautology, AddKarnaugh,
         StartXor, SimplifyStep, SimplifyEnd, MonoStep, MonoEnd, CutStep, CutEnd, Converting
<1>2. written' = written
  BY DEF StartTest, SkipTautology, AddKarnaugh, StartXor, SimplifyStep, SimplifyEnd,
         MonoStep, MonoEnd, CutStep, CutEnd
<1>3. pc' \notin {"mix", "write"}
  BY DEF StartTest, SkipTautology, AddKarnaugh, StartXor, SimplifyStep, SimplifyEnd,
         MonoStep, MonoEnd, CutStep, CutEnd, Converting
<1> QED BY <1>1, <1>2, <1>3 DEF FileOK

(* setupPermutateVars: every variable has its own number. *)
LEMMA PrintMeaning ==
  ASSUME MeaningOK, PrintStart
  PROVE  ModelsOK' /\ FileOK'
<1> USE DEF given, store, PrintStart
<1>0. TypeOK /\ FlowOK /\ ModelsOK
  BY DEF MeaningOK, CourseOK
<1>1. pc' \in {"mix", "write"} /\ Said' = Said /\ ProblemEqs' = ProblemEqs
      /\ Kept(ProblemEqs)' = Kept(ProblemEqs)
  BY DEF Said, ProblemEqs, Kept, Lost
<1>2. ModelsOK'
  BY <1>1 DEF ModelsOK
<1>3. Matches(Said, Kept(ProblemEqs))
  <2>1. Handled = ProblemEqs
    <3>1. \A j \in DOMAIN problem : j < it
      <4>1. problem = <<>> \/ problem \in Seq([left : Lefts, right : Poly])
        BY <1>0, ConversionAssumption DEF TypeOK
      <4>2. DOMAIN problem = 1 .. Len(problem) /\ Len(problem) \in Nat
        BY <4>1, LenProperties
      <4>3. it \in Nat /\ it >= 1 /\ it \notin DOMAIN problem
        BY <1>0 DEF TypeOK, FlowOK, ConvertPcs
      <4> QED BY <4>2, <4>3
    <3> QED BY <3>1 DEF Handled, ProblemEqs
  <2> QED BY <1>0, <2>1 DEF ModelsOK
<1>4. Distinct(variableMix')
  BY DEF Distinct
<1>5. {Unmixed(T)' : T \in Said} = Said
  <2>1. \A T \in Said : Unmixed(T)' = T
    <3> SUFFICES ASSUME NEW T \in Said PROVE Unmixed(T)' = T
      OBVIOUS
    <3>1. T \subseteq 0 .. next_available_var - 1
      BY DEF Said, Models
    <3> QED BY <3>1 DEF Unmixed
  <2> QED BY <2>1
<1>6. written' = None
  BY <1>0 DEF FlowOK, ConvertPcs
<1> QED BY <1>1, <1>2, <1>3, <1>4, <1>5, <1>6 DEF FileOK
(* permutateVars: the entries of two variables are exchanged. *)
LEMMA MixMeaning ==
  ASSUME MeaningOK, MixStep
  PROVE  ModelsOK' /\ FileOK'
<1> USE DEF given, store, MixStep
<1>0. TypeOK /\ FlowOK /\ FileOK
  BY DEF MeaningOK, CourseOK
<1>1. pc = "mix" /\ pc' = "mix" /\ Said' = Said /\ written' = written
      /\ Kept(ProblemEqs)' = Kept(ProblemEqs)
  BY DEF Said, ProblemEqs, Kept, Lost
<1>2. ModelsOK'
  BY <1>1 DEF ModelsOK
<1>3. PICK j \in randInt(it) : variableMix' = Swapped(variableMix, it, j)
  OBVIOUS
<1>4. it \in DOMAIN variableMix /\ j \in DOMAIN variableMix
  <2>1. DOMAIN variableMix = Upto(next_available_var) /\ it \in Nat /\ next_available_var \in Nat
    BY <1>0 DEF FlowOK, TypeOK
  <2>2. j \in Nat /\ j <= it
    BY <1>3, ConversionAssumption DEF randInt
  <2> QED BY <2>1, <2>2 DEF Upto
<1>5. Distinct(variableMix')
  <2>1. Distinct(variableMix)
    BY <1>0, <1>1 DEF FileOK
  <2>2. DOMAIN variableMix' = DOMAIN variableMix
    BY <1>3 DEF Swapped
  <2>3. \A v \in DOMAIN variableMix :
          variableMix'[v] = variableMix[IF v = j THEN it ELSE IF v = it THEN j ELSE v]
    BY <1>3, <1>4 DEF Swapped
  <2> QED BY <1>4, <2>1, <2>2, <2>3 DEF Distinct
<1> QED BY <1>0, <1>1, <1>2, <1>5 DEF FileOK

(* A clause and an XOR say under the mix what they said before. *)
LEMMA MixedSays ==
  ASSUME DOMAIN variableMix = Upto(next_available_var), NEW T
  PROVE  /\ \A c \in SUBSET LitsOf(next_available_var) :
              ClauseTrue(MixedClause(c), T) <=> ClauseTrue(c, Unmixed(T))
         /\ \A s \in Seq(LitsOf(next_available_var)) :
              XorTrue(MixedXor(s), T) <=> XorTrue(s, Unmixed(T))
<1> DEFINE L == LitsOf(next_available_var)
<1>1. ASSUME NEW l \in L PROVE LitTrue(Mixed(l), T) <=> LitTrue(l, Unmixed(T))
  <2>1. l[1] \in DOMAIN variableMix
    BY LitParts DEF LitsOf
  <2>2. Mixed(l)[1] = variableMix[l[1]] /\ Mixed(l)[2] = l[2]
    BY LitMake DEF Mixed
  <2>3. l[1] \in Unmixed(T) <=> variableMix[l[1]] \in T
    BY <2>1 DEF Unmixed
  <2> QED BY <2>2, <2>3 DEF LitTrue
<1> HIDE DEF L
<1>2. \A c \in SUBSET L : ClauseTrue(MixedClause(c), T) <=> ClauseTrue(c, Unmixed(T))
  BY <1>1 DEF ClauseTrue, MixedClause
<1>3. ASSUME NEW s \in Seq(L) PROVE XorTrue(MixedXor(s), T) <=> XorTrue(s, Unmixed(T))
  <2>1. DOMAIN MixedXor(s) = DOMAIN s
        /\ \A k \in DOMAIN s : MixedXor(s)[k] = Mixed(s[k]) /\ s[k] \in L
    BY DEF MixedXor
  <2>2. {k \in DOMAIN MixedXor(s) : LitTrue(MixedXor(s)[k], T)} =
        {k \in DOMAIN s : LitTrue(s[k], Unmixed(T))}
    BY <1>1, <2>1
  <2> QED BY <2>2 DEF XorTrue
<1> QED BY <1>2, <1>3 DEF L

(* The clauses are mixed. *)
LEMMA MixedMeaning ==
  ASSUME MeaningOK, MixEnd
  PROVE  ModelsOK' /\ FileOK'
<1> USE DEF given, store
<1> DEFINE n == next_available_var
<1>0. TypeOK /\ FlowOK /\ FileOK /\ CourseOK'
  BY PrintCourse DEF MeaningOK, CourseOK
<1>1. /\ pc = "mix" /\ pc' = "write" /\ written' = written
      /\ clauses' = {MixedClause(c) : c \in clauses}
      /\ xorClauses' = {MixedXor(s) : s \in xorClauses}
      /\ variableMix' = variableMix /\ n' = n /\ Kept(ProblemEqs)' = Kept(ProblemEqs)
  <2>1. pc' # "assert"
    BY <1>0 DEF CourseOK, FlowOK
  <2> QED BY <2>1 DEF MixEnd, ProblemEqs, Kept, Lost
<1>2. ModelsOK'
  BY <1>1 DEF ModelsOK
<1>3. /\ DOMAIN variableMix = Upto(n) /\ Distinct(variableMix)
      /\ \A v \in Upto(n) : variableMix[v] \in Upto(n)
      /\ clauses \subseteq SUBSET LitsOf(n) /\ \A s \in xorClauses : s \in Seq(LitsOf(n))
      /\ Matches(Said, Kept(ProblemEqs))
  BY <1>0, <1>1 DEF FileOK, FlowOK, TypeOK, Literal, LitsOf, Upto
<1>4. \A T \in SUBSET Upto(n) : T \in Said' <=> Unmixed(T) \in Said
  <2> SUFFICES ASSUME NEW T \in SUBSET Upto(n) PROVE T \in Said' <=> Unmixed(T) \in Said
    OBVIOUS
  <2>1. Unmixed(T) \in SUBSET Upto(n)
    BY <1>3 DEF Unmixed
  <2>2. \A c \in clauses : ClauseTrue(MixedClause(c), T) <=> ClauseTrue(c, Unmixed(T))
    BY <1>3, MixedSays
  <2>3. \A s \in xorClauses : XorTrue(MixedXor(s), T) <=> XorTrue(s, Unmixed(T))
    BY <1>3, MixedSays
  <2> QED BY <1>1, <2>1, <2>2, <2>3 DEF Said, Models, Upto
<1>5. Said' \subseteq SUBSET Upto(n) /\ Said \subseteq SUBSET Upto(n)
  BY <1>1 DEF Said, Models, Upto
<1>6. {Unmixed(T)' : T \in Said'} = Said
  <2>1. \A T : Unmixed(T)' = Unmixed(T)
    BY <1>1 DEF Unmixed
  <2>2. \A T \in Said' : Unmixed(T) \in Said
    BY <1>4, <1>5
  <2>3. ASSUME NEW U \in Said PROVE \E T \in Said' : Unmixed(T) = U
    <3> DEFINE T == {variableMix[v] : v \in U}
    <3>1. T \in SUBSET Upto(n) /\ Unmixed(T) = U
      BY <1>3, <1>5 DEF Unmixed, Distinct
    <3> HIDE DEF T
    <3> QED BY <1>4, <3>1
  <2> QED BY <2>1, <2>2, <2>3
<1>7. written' = None
  BY <1>0, <1>1 DEF FileOK
<1> QED BY <1>1, <1>2, <1>3, <1>6, <1>7 DEF FileOK, Distinct

(* The file is written, and everything is freed. *)
LEMMA WriteMeaning ==
  ASSUME MeaningOK, Write \/ Clear
  PROVE  ModelsOK' /\ FileOK'
<1> USE DEF given, store
<1>0. TypeOK /\ FlowOK /\ FileOK
  BY DEF MeaningOK, CourseOK
<1>1. CASE Write
  <2>1. /\ pc = "write" /\ pc' \in {"done", "nameless"}
        /\ Kept(ProblemEqs)' = Kept(ProblemEqs)
        /\ written' = [size |-> Cardinality(DOMAIN variableMix), clauses |-> clauses,
                       xorClauses |-> xorClauses]
        /\ variableMix' = variableMix
    BY <1>1 DEF Write, ProblemEqs, Kept, Lost
  <2>2. Cardinality(DOMAIN variableMix) = next_available_var
    <3>1. DOMAIN variableMix = 0 .. next_available_var - 1 /\ next_available_var \in Nat
      BY <1>0, <2>1 DEF FlowOK, TypeOK, Upto
    <3>2. Cardinality(0 .. next_available_var - 1) =
            IF 0 > next_available_var - 1 THEN 0 ELSE next_available_var - 1 - 0 + 1
      BY <3>1, FS_Interval
    <3> QED BY <3>1, <3>2
  <2>3. FileModels' = {Unmixed(T) : T \in Said}
    <3>1. /\ written'.size = next_available_var /\ written'.clauses = clauses
          /\ written'.xorClauses = xorClauses
      BY <2>1, <2>2
    <3>2. \A T : Unmixed(T)' = Unmixed(T)
      BY <2>1 DEF Unmixed
    <3> QED BY <3>1, <3>2 DEF FileModels, Said
  <2>4. Matches(FileModels', Kept(ProblemEqs)')
    BY <1>0, <2>1, <2>3 DEF FileOK
  <2>5. ModelsOK'
    BY <2>1 DEF ModelsOK
  <2> QED BY <2>1, <2>4, <2>5 DEF FileOK
<1>2. CASE Clear
  <2>1. pc' = "idle" /\ written' = None
    BY <1>2 DEF Clear, FreeAttrib
  <2> QED BY <2>1 DEF ModelsOK, FileOK
<1> QED BY <1>1, <1>2

(* The invariant holds at the start, and every step keeps it. *)
LEMMA InitMeaning == Init => MeaningOK
<1> SUFFICES ASSUME Init PROVE MeaningOK
  OBVIOUS
<1>1. CourseOK
  BY InitCourse
<1>2. ModelsOK /\ FileOK
  BY DEF Init, ModelsOK, FileOK
<1> QED BY <1>1, <1>2 DEF MeaningOK

(* Every step keeps what the clauses say.                                  *)
LEMMA NextMeaning == MeaningOK /\ [Next]_vars => MeaningOK'
<1> SUFFICES ASSUME MeaningOK, [Next]_vars PROVE MeaningOK'
  OBVIOUS
<1>0. CourseOK /\ ModelsOK /\ CourseOK'
  BY NextCourse DEF MeaningOK
<1>1. CASE UNCHANGED vars
  <2>1. ModelsOK'
    <3>1. /\ Said' = Said /\ Handled' = Handled /\ Chain' = Chain /\ equation' = equation
          /\ \A E : Kept(E)' = Kept(E)
          /\ pc' = pc /\ lits' = lits /\ todo' = todo /\ monoList' = monoList
      BY <1>1 DEF vars, given, store, Said, Handled, Kept, Lost, equation, Chain
    <3>2. Kept(Handled)' = Kept(Handled) /\ Kept(Handled \cup {equation})' = Kept(Handled \cup {equation})
      BY <3>1 DEF Kept, Lost
    <3> QED BY <1>0, <3>1, <3>2 DEF ModelsOK, Satisfied, Contradiction
  <2>2. FileOK'
    BY <1>1 DEF MeaningOK, vars, given, store, FileOK, FileModels, Said, ProblemEqs, Kept, Lost,
                Unmixed, Distinct
  <2> QED BY <1>0, <2>1, <2>2 DEF MeaningOK
<1>2. CASE \/ StartTest \/ SkipTautology \/ AddKarnaugh \/ StartXor \/ SimplifyStep
           \/ SimplifyEnd \/ MonoStep \/ MonoEnd \/ CutStep \/ CutEnd
  <2>1. FileOK'
    BY <1>2, BeforeFile
  <2>2. ModelsOK'
    BY <1>0, <1>2, PlainModels, TableModels, XorModels, MonoModels, CutModels
  <2> QED BY <1>0, <2>1, <2>2 DEF MeaningOK
<1>3. CASE PrintStart \/ MixStep \/ MixEnd \/ Write \/ Clear
  <2>1. ModelsOK' /\ FileOK'
    BY <1>3, PrintMeaning, MixMeaning, MixedMeaning, WriteMeaning
  <2> QED BY <1>0, <2>1 DEF MeaningOK
<1> QED BY <1>1, <1>2, <1>3 DEF Next

(* It holds of every state. *)
LEMMA MeaningInvariance == Spec => []MeaningOK
BY InitMeaning, NextMeaning, PTL DEF Spec

---------------------------------------------------------------------------
(***************************************************************************)
(* Between two equations the models of the clauses are the solutions of    *)
(* the equations handled, each once: for any list of equations, any        *)
(* options and any problems before.                                        *)
(***************************************************************************)
THEOREM ModelsAlwaysKept == Spec => []ModelsKept
<1>1. MeaningOK => ModelsKept
  BY MatchesSame DEF MeaningOK, ModelsOK, ModelsKept, Said, Kept
<1> QED BY <1>1, MeaningInvariance, PTL

(***************************************************************************)
(* The file says the equations, under the numbers of get_mixed_var.        *)
(***************************************************************************)
THEOREM FileAlwaysRight == Spec => []FileRight
<1>1. MeaningOK => FileRight
  BY MatchesSame DEF MeaningOK, FileOK, FileRight, FileSays, FileModels, Kept
<1> QED BY <1>1, MeaningInvariance, PTL
============================================================================
