------------------------- MODULE GenerationProofs --------------------------
(***************************************************************************)
(* Proofs about the generation of a problem, for every job that satisfies  *)
(* JobsAssumption: each bit gets one definition, and the equations hold in *)
(* the run that the program has simulated.                                 *)
(*                                                                         *)
(* The simulation is a recursive function over the clocks, with one over   *)
(* the filters inside.  That such functions are defined, and what they     *)
(* compute, is shown by a least counterexample, a number in a set, so that *)
(* no induction theorem with an operator as a parameter is needed.         *)
(***************************************************************************)
EXTENDS Generation, AnfProofs, FiniteSetTheorems, FunctionTheorems,
        WellFoundedInduction, TLAPS

---------------------------------------------------------------------------
(* Induction and recursion over 0 .. n.                                    *)

(* A set of numbers that is not empty has a least one.                     *)
LEMMA LeastNumber ==
  ASSUME NEW S \in SUBSET Nat, S # {}
  PROVE  \E x \in S : \A y \in S : x <= y
<1>1. PICK x \in S : \A y \in S : ~ (<<y, x>> \in OpToRel(<, Nat))
  BY NatLessThanWellFounded, WFMin, Zenon
<1>2. \A y \in S : ~ (y < x)
  BY <1>1, Zenon DEF OpToRel
<1> QED BY <1>2

(* A set with 0 that goes on up to n has all the numbers up to n.          *)
LEMMA UpToAll ==
  ASSUME NEW n \in Nat, NEW S, 0 \in S, \A k \in 0 .. n - 1 : k \in S => k + 1 \in S
  PROVE  \A k \in 0 .. n : k \in S
<1> DEFINE Bad == {k \in 0 .. n : k \notin S}
<1>1. SUFFICES ASSUME Bad # {} PROVE FALSE
  OBVIOUS
<1>2. PICK x \in Bad : \A y \in Bad : x <= y
  <2>1. Bad \in SUBSET Nat
    OBVIOUS
  <2> HIDE DEF Bad
  <2> QED BY <1>1, <2>1, LeastNumber
<1>3. x \in 1 .. n
  BY <1>2
<1>4. x - 1 \in 0 .. n - 1 /\ x - 1 \notin Bad
  BY <1>2, <1>3
<1>5. x - 1 \in S /\ (x - 1) + 1 = x
  BY <1>3, <1>4
<1> QED BY <1>2, <1>4, <1>5

(* The values that a step computes from 0 up to n.                         *)
StepsFrom(f, n, U, x0, step) ==
  /\ f \in [0 .. n -> U] /\ f[0] = x0
  /\ \A k \in 0 .. n - 1 : f[k + 1] = step[k][f[k]]

(* A function that a step computes from 0 up to n is there.                *)
LEMMA StepsExist ==
  ASSUME NEW n \in Nat, NEW U, NEW x0 \in U, NEW step \in [0 .. n - 1 -> [U -> U]]
  PROVE  \E f : StepsFrom(f, n, U, x0, step)
<1> DEFINE Good(f, m) == /\ f \in [0 .. n -> U] /\ f[0] = x0
                         /\ \A k \in 0 .. m - 1 : f[k + 1] = step[k][f[k]]
           S == {m \in 0 .. n : \E f : Good(f, m)}
<1>1. 0 \in S
  <2> DEFINE g == [k \in 0 .. n |-> x0]
  <2>1. g \in [0 .. n -> U] /\ g[0] = x0 /\ 0 .. 0 - 1 = {}
    OBVIOUS
  <2> HIDE DEF g
  <2> QED BY <2>1
<1>2. ASSUME NEW m \in 0 .. n - 1, m \in S PROVE m + 1 \in S
  <2>1. PICK f : Good(f, m)
    BY <1>2
  <2> DEFINE g == [f EXCEPT ![m + 1] = step[m][f[m]]]
  <2>2. m \in 0 .. n /\ m + 1 \in 0 .. n /\ f[m] \in U
    BY <2>1
  <2>3. step[m][f[m]] \in U
    BY <2>2
  <2>4. g \in [0 .. n -> U] /\ g[m + 1] = step[m][f[m]]
        /\ \A k \in 0 .. n : k # m + 1 => g[k] = f[k]
    BY <2>1, <2>2, <2>3
  <2>5. \A k \in 0 .. m : g[k + 1] = step[k][g[k]]
    <3> SUFFICES ASSUME NEW k \in 0 .. m PROVE g[k + 1] = step[k][g[k]]
      OBVIOUS
    <3>1. k \in 0 .. n /\ k # m + 1 /\ k + 1 \in 0 .. n
      OBVIOUS
    <3>2. g[k] = f[k]
      BY <2>4, <3>1
    <3>3. CASE k = m
      BY <2>4, <3>2, <3>3
    <3>4. CASE k # m
      BY <2>1, <2>4, <3>1, <3>2, <3>4
    <3> QED BY <3>3, <3>4
  <2>6. Good(g, m + 1)
    <3>1. g[0] = x0
      BY <2>1, <2>4
    <3> HIDE DEF g
    <3> QED BY <2>4, <2>5, <3>1
  <2> QED BY <2>2, <2>6
<1>3. n \in S
  <2> HIDE DEF S
  <2>1. \A k \in 0 .. n : k \in S
    BY <1>1, <1>2, UpToAll
  <2> QED BY <2>1
<1>4. PICK f : Good(f, n)
  BY <1>3
<1> QED BY <1>4 DEF StepsFrom

---------------------------------------------------------------------------
(* Bits of the cipher, and the values of functions and polynomials.        *)

Bits == {"sr", "f", "out"} \X Nat \X Nat

(* The registers and the filters are numbered by natural numbers, and the  *)
(* arrays of set_name are made of bits.                                    *)
LEMMA BitsOf ==
  ASSUME NEW c, WellFormed(c)
  PROVE  /\ SRs(c) \subseteq Nat /\ Filters(c) \subseteq Nat /\ Total(c) \in Nat
         /\ Cardinality(SRs(c)) \in Nat /\ Cardinality(Filters(c)) \in Nat
         /\ \A i \in SRs(c) : c.sr_size[i] \in Nat /\ c.shift[i] \in Nat
         /\ VarsOf(c) \subseteq Bits /\ FixedBits(c) \subseteq Bits
         /\ StartBits(c) \subseteq VarsOf(c)
<1>1. Cardinality(SRs(c)) \in Nat /\ Cardinality(Filters(c)) \in Nat
  BY FS_CardinalityType DEF WellFormed
<1>2. /\ SRs(c) \subseteq Nat /\ Filters(c) \subseteq Nat /\ Total(c) \in Nat
      /\ \A i \in SRs(c) : c.sr_size[i] \in Nat /\ c.shift[i] \in Nat
  BY <1>1 DEF WellFormed, Total
<1>3. SrVars(c) \subseteq Bits
  BY <1>2 DEF SrVars, Bits
<1>4. FilterVars(c) \subseteq Bits
  BY <1>2 DEF FilterVars, Bits
<1>5. OutVars(c) \subseteq Bits
  BY <1>2 DEF OutVars, Bits, WellFormed
<1>6. FixedBits(c) \subseteq Bits
  <2>1. \A i \in SRs(c) : c.one_out[i] \cup c.zero_out[i] \cup c.tweakable[i] \subseteq Nat
    BY DEF WellFormed
  <2> QED BY <1>2, <2>1 DEF FixedBits, Bits
<1>7. StartBits(c) \subseteq SrVars(c)
  <2> SUFFICES ASSUME NEW v \in StartBits(c) PROVE v \in SrVars(c)
    OBVIOUS
  <2>1. PICK i \in SRs(c) : v \in {<<"sr", i, k>> : k \in 0 .. c.sr_size[i] - 1}
    BY DEF StartBits
  <2>2. PICK k \in 0 .. c.sr_size[i] - 1 : v = <<"sr", i, k>>
    BY <2>1
  <2>3. k \in 0 .. c.sr_size[i] + Total(c) - 1
    BY <1>2
  <2> QED BY <2>2, <2>3 DEF SrVars
<1> QED BY <1>1, <1>2, <1>3, <1>4, <1>5, <1>6, <1>7 DEF VarsOf

(* The map of the known bits has a first element.                          *)
LEMMA FirstIn ==
  ASSUME NEW S \in SUBSET Bits, S # {}
  PROVE  First(S) \in S
<1>1. \A v \in S : /\ v[1] \in {"sr", "f", "out"} /\ v[2] \in Nat /\ v[3] \in Nat
                   /\ TypeRank(v) \in Nat /\ v = <<v[1], v[2], v[3]>>
  BY DEF Bits, TypeRank
<1> DEFINE R1 == {TypeRank(v) : v \in S}
<1>2. PICK r \in R1 : \A y \in R1 : r <= y
  <2>1. R1 \in SUBSET Nat /\ R1 # {}
    BY <1>1
  <2> HIDE DEF R1
  <2> QED BY <2>1, LeastNumber
<1> DEFINE S2 == {v \in S : TypeRank(v) = r}
           R2 == {v[2] : v \in S2}
<1>3. PICK x \in R2 : \A y \in R2 : x <= y
  <2>1. R2 \in SUBSET Nat /\ R2 # {}
    BY <1>1, <1>2
  <2> HIDE DEF R2
  <2> QED BY <2>1, LeastNumber
<1> DEFINE S3 == {v \in S2 : v[2] = x}
           R3 == {v[3] : v \in S3}
<1>4. PICK z \in R3 : \A y \in R3 : z <= y
  <2>1. R3 \in SUBSET Nat /\ R3 # {}
    BY <1>1, <1>3
  <2> HIDE DEF R3
  <2> QED BY <2>1, LeastNumber
<1>5. PICK e \in S : TypeRank(e) = r /\ e[2] = x /\ e[3] = z
  BY <1>4
<1>6. ASSUME NEW v \in S \ {e} PROVE Before(e, v)
  <2>1. TypeRank(e) <= TypeRank(v) /\ TypeRank(v) \in Nat /\ TypeRank(e) \in Nat
    BY <1>1, <1>2, <1>5
  <2>2. TypeRank(v) = TypeRank(e) => e[2] <= v[2]
    BY <1>3, <1>5
  <2>3. TypeRank(v) = TypeRank(e) /\ v[2] = e[2] => e[3] <= v[3]
    BY <1>4, <1>5
  <2>4. TypeRank(v) = TypeRank(e) => v[1] = e[1]
    BY <1>1 DEF TypeRank
  <2>5. v # e => ~ (v[1] = e[1] /\ v[2] = e[2] /\ v[3] = e[3])
    BY <1>1
  <2>6. e[2] \in Nat /\ v[2] \in Nat /\ e[3] \in Nat /\ v[3] \in Nat
    BY <1>1
  <2> QED BY <2>1, <2>2, <2>3, <2>4, <2>5, <2>6 DEF Before
<1> QED BY <1>6 DEF First

(* The value of a function depends on the bits it reads.                   *)
LEMMA CalcAgrees ==
  ASSUME NEW f, NEW t, NEW S, NEW T,
         \A term \in f : \A e \in term : At(e, t) \in S <=> At(e, t) \in T
  PROVE  CalcFunc(f, t, S) <=> CalcFunc(f, t, T)
<1>1. {term \in f : \A e \in term : At(e, t) \in S} = {term \in f : \A e \in term : At(e, t) \in T}
  OBVIOUS
<1> QED BY <1>1 DEF CalcFunc

(* create_poly_from_function: the polynomial has the value that calc_func  *)
(* computes.                                                               *)
LEMMA PolyCalc ==
  ASSUME NEW f \in SUBSET SUBSET Bits, NEW t \in Nat, NEW T, IsFiniteSet(f)
  PROVE  /\ Eval(PolyFromFunction(t, f), T) <=> CalcFunc(f, t, T)
         /\ IsFiniteSet(PolyFromFunction(t, f))
<1> DEFINE mono(term) == {At(e, t) : e \in term}
           A == {term \in f : \A e \in term : At(e, t) \in T}
           B == TrueMonos(PolyFromFunction(t, f), T)
           g == [term \in A |-> mono(term)]
<1>1. ASSUME NEW x \in SUBSET Bits, NEW y \in SUBSET Bits, mono(x) = mono(y) PROVE x \subseteq y
  <2> SUFFICES ASSUME NEW e \in x PROVE e \in y
    OBVIOUS
  <2>1. PICK u \in y : At(e, t) = At(u, t)
    BY <1>1
  <2>2. e = u
    BY <2>1 DEF At, Bits
  <2> QED BY <2>2
<1>2. \A x, y \in SUBSET Bits : mono(x) = mono(y) => x = y
  <2> HIDE DEF mono
  <2> QED BY <1>1
<1>3. \A term \in f : mono(term) \subseteq T <=> \A e \in term : At(e, t) \in T
  OBVIOUS
<1>4. B = {mono(term) : term \in A}
  <2>1. PolyFromFunction(t, f) = {mono(term) : term \in f}
    BY DEF PolyFromFunction
  <2> HIDE DEF mono
  <2> QED BY <2>1, <1>3 DEF TrueMonos
<1>5. g \in Bijection(A, B)
  <2>1. g \in Surjection(A, B)
    BY <1>4 DEF Surjection
  <2>2. g \in Injection(A, B)
    <3>1. \A x \in A : x \in SUBSET Bits /\ g[x] = mono(x) /\ mono(x) \in B
      BY <1>4
    <3> HIDE DEF mono, A, B
    <3>2. \A x, y \in A : g[x] = g[y] => x = y
      BY <3>1, <1>2
    <3>3. g \in [A -> B]
      BY <3>1
    <3>4. DOMAIN g = A
      OBVIOUS
    <3> HIDE DEF g
    <3> QED BY <3>2, <3>3, <3>4 DEF Injection, IsInjective
  <2> QED BY <2>1, <2>2 DEF Bijection
<1>6. IsFiniteSet(A)
  BY FS_Subset
<1>7. Cardinality(B) = Cardinality(A)
  <2> HIDE DEF A, B, g
  <2> QED BY <1>5, <1>6, FS_Bijection DEF ExistsBijection
<1>8. IsFiniteSet(PolyFromFunction(t, f))
  <2> DEFINE P == PolyFromFunction(t, f)
             h == [term \in f |-> mono(term)]
  <2>1. h \in Surjection(f, P)
    BY DEF Surjection, PolyFromFunction
  <2> HIDE DEF P, h
  <2>2. IsFiniteSet(P)
    BY <2>1, FS_Surjection
  <2> QED BY <2>2 DEF P
<1> QED BY <1>7, <1>8 DEF Eval, CalcFunc, Odd

(* The functions of a description are finite and read bits.                *)
LEMMA FunctionFacts ==
  ASSUME NEW c, WellFormed(c), NEW B, B \subseteq StartBits(c) \cup FilterBits(Cardinality(Filters(c))),
         NEW f \in Functions(B)
  PROVE  f \in SUBSET SUBSET Bits /\ IsFiniteSet(f)
<1>1. StartBits(c) \subseteq Bits /\ Cardinality(Filters(c)) \in Nat
  BY BitsOf
<1>2. FilterBits(Cardinality(Filters(c))) \subseteq Bits
  BY <1>1 DEF FilterBits, Bits
<1> DEFINE row(i) == {<<"sr", i, k>> : k \in 0 .. c.sr_size[i] - 1}
           rows   == {row(i) : i \in SRs(c)}
           ks     == 0 .. Cardinality(Filters(c)) - 1
<1>3. ASSUME NEW i \in SRs(c) PROVE IsFiniteSet(row(i))
  <2> DEFINE I == 0 .. c.sr_size[i] - 1
             h == [k \in I |-> <<"sr", i, k>>]
             R == row(i)
  <2>1. h \in Surjection(I, R)
    BY DEF Surjection
  <2>2. IsFiniteSet(I)
    <3>1. c.sr_size[i] - 1 \in Int
      BY BitsOf
    <3> QED BY <3>1, FS_Interval
  <2> HIDE DEF h, I, R
  <2>3. IsFiniteSet(R)
    BY <2>1, <2>2, FS_Surjection
  <2> QED BY <2>3 DEF R
<1>4. IsFiniteSet(rows)
  <2> DEFINE h == [i \in SRs(c) |-> row(i)]
  <2>1. h \in Surjection(SRs(c), rows)
    BY DEF Surjection
  <2>2. IsFiniteSet(SRs(c))
    BY DEF WellFormed
  <2> HIDE DEF h, rows
  <2> QED BY <2>1, <2>2, FS_Surjection
<1>5. IsFiniteSet(StartBits(c))
  <2>1. StartBits(c) = UNION rows
    BY DEF StartBits
  <2>2. \A R \in rows : IsFiniteSet(R)
    <3> HIDE DEF row
    <3> QED BY <1>3
  <2> HIDE DEF rows
  <2> QED BY <1>4, <2>1, <2>2, FS_UNION
<1>6. IsFiniteSet(FilterBits(Cardinality(Filters(c))))
  <2> DEFINE h == [k \in ks |-> <<"f", k, 0>>]
             R == FilterBits(Cardinality(Filters(c)))
  <2>1. h \in Surjection(ks, R)
    BY DEF Surjection, FilterBits
  <2>2. IsFiniteSet(ks)
    BY <1>1, FS_Interval
  <2> HIDE DEF h, ks, R
  <2>3. IsFiniteSet(R)
    BY <2>1, <2>2, FS_Surjection
  <2> QED BY <2>3 DEF R
<1>7. IsFiniteSet(B)
  BY <1>5, <1>6, FS_Union, FS_Subset
<1>8. IsFiniteSet(SUBSET B) /\ f \subseteq SUBSET B
  BY <1>7, FS_SUBSET DEF Functions
<1>9. IsFiniteSet(f)
  BY <1>8, FS_Subset
<1> QED BY <1>1, <1>2, <1>8, <1>9

---------------------------------------------------------------------------
(* The simulation.                                                         *)

(* What the filters before k read in clock t.                              *)
LEMMA FilterReads ==
  ASSUME NEW c, WellFormed(c), NEW k \in Filters(c), NEW t \in Nat,
         NEW term \in c.filter[k], NEW e \in term
  PROVE  /\ e \in Bits
         /\ \/ \E i \in SRs(c), m \in Nat : m < c.sr_size[i] /\ At(e, t) = <<"sr", i, m + t>>
            \/ \E j \in 0 .. k - 1 : At(e, t) = <<"f", j, t>>
<1>1. e \in StartBits(c) \cup FilterBits(k)
  BY DEF WellFormed, Functions
<1>2. CASE e \in StartBits(c)
  <2>1. PICK i \in SRs(c) : e \in {<<"sr", i, m>> : m \in 0 .. c.sr_size[i] - 1}
    BY <1>2 DEF StartBits
  <2>2. PICK m \in 0 .. c.sr_size[i] - 1 : e = <<"sr", i, m>>
    BY <2>1
  <2>3. m \in Nat /\ m < c.sr_size[i] /\ i \in Nat
    BY BitsOf
  <2> QED BY <2>2, <2>3 DEF At, Bits
<1>3. CASE e \in FilterBits(k)
  <2>1. PICK j \in 0 .. k - 1 : e = <<"f", j, 0>>
    BY <1>3 DEF FilterBits
  <2>2. j \in Nat /\ 0 + t = t
    BY BitsOf
  <2> QED BY <2>1, <2>2 DEF At, Bits
<1> QED BY <1>1, <1>2, <1>3

(* One clock of the filters adds those that are 1, in order.               *)
LEMMA FiltersOfClock ==
  ASSUME NEW c, WellFormed(c), NEW t \in 0 .. Total(c) - 1, NEW T \in SUBSET VarsOf(c),
         \A i \in Filters(c) : <<"f", i, t>> \notin T
  PROVE  /\ ClockFilters(c, t, T) \in SUBSET VarsOf(c)
         /\ T \subseteq ClockFilters(c, t, T)
         /\ \A v \in ClockFilters(c, t, T) \ T : \E i \in Filters(c) : v = <<"f", i, t>>
         /\ \A i \in Filters(c) :
              <<"f", i, t>> \in ClockFilters(c, t, T) <=> CalcFunc(c.filter[i], t, ClockFilters(c, t, T))
<1> DEFINE n       == Cardinality(Filters(c))
           U       == SUBSET VarsOf(c)
           G(i, X) == X \cup (IF CalcFunc(c.filter[i], t, X) THEN {<<"f", i, t>>} ELSE {})
           step    == [i \in 0 .. n - 1 |-> [X \in U |-> G(i, X)]]
           F[i \in 0 .. n] == IF i = 0 THEN T ELSE G(i - 1, F[i - 1])
<1>1. n \in Nat /\ Filters(c) = 0 .. n - 1 /\ t \in Nat
  <2>1. Filters(c) = 0 .. n - 1
    BY DEF WellFormed
  <2>2. n \in Nat /\ Total(c) \in Nat
    BY BitsOf
  <2> QED BY <2>1, <2>2
<1>2. \A i \in 0 .. n - 1 : <<"f", i, t>> \in VarsOf(c)
  BY <1>1 DEF VarsOf, FilterVars
<1>3. step \in [0 .. n - 1 -> [U -> U]]
  BY <1>2
<1>0. n \in Nat /\ T \in U
  BY <1>1
<1>4. PICK f : StepsFrom(f, n, U, T, step)
  <2> HIDE DEF step, n, U
  <2> QED BY <1>0, <1>3, StepsExist
<1>5. f = [k \in 0 .. n |-> IF k = 0 THEN T ELSE G(k - 1, f[k - 1])]
  <2>1. ASSUME NEW k \in 0 .. n
        PROVE  f[k] = IF k = 0 THEN T ELSE G(k - 1, f[k - 1])
    <3>1. CASE k = 0
      BY <1>4, <3>1 DEF StepsFrom
    <3>2. CASE k # 0
      <4>1. k - 1 \in 0 .. n - 1 /\ k - 1 \in 0 .. n /\ (k - 1) + 1 = k
        BY <1>0, <3>2
      <4>2. f[k - 1] \in U
        BY <1>4, <4>1 DEF StepsFrom
      <4>3. step[k - 1][f[k - 1]] = G(k - 1, f[k - 1])
        BY <4>1, <4>2
      <4>4. f[k] = step[k - 1][f[k - 1]]
        BY <1>4, <4>1 DEF StepsFrom
      <4> QED BY <3>2, <4>3, <4>4
    <3> QED BY <3>1, <3>2
  <2> HIDE DEF G, U, n
  <2> QED BY <1>4, <2>1 DEF StepsFrom
<1>6. F = [k \in 0 .. n |-> IF k = 0 THEN T ELSE G(k - 1, F[k - 1])]
  <2> HIDE DEF G, n
  <2> QED BY <1>5 DEF F
<1>7. ClockFilters(c, t, T) = F[n]
  BY DEF ClockFilters
<1> DEFINE Good(k) == /\ F[k] \in U /\ T \subseteq F[k]
                      /\ \A v \in F[k] \ T : \E i \in 0 .. k - 1 : v = <<"f", i, t>>
                      /\ \A i \in 0 .. k - 1 :
                           <<"f", i, t>> \in F[k] <=> CalcFunc(c.filter[i], t, F[k])
           S == {k \in 0 .. n : Good(k)}
<1>8. 0 \in S
  <2>1. 0 .. 0 - 1 = {} /\ 0 \in 0 .. n
    BY <1>0
  <2>2. F[0] = T
    <3> HIDE DEF F, G, n
    <3> QED BY <1>6, <2>1
  <2> HIDE DEF F
  <2> QED BY <1>0, <2>1, <2>2
<1>9. ASSUME NEW k \in 0 .. n - 1, k \in S PROVE k + 1 \in S
  <2> DEFINE X == F[k]
             Y == F[k + 1]
  <2>1. Y = G(k, X)
    <3>1. k + 1 \in 0 .. n /\ k + 1 # 0 /\ (k + 1) - 1 = k
      BY <1>1
    <3> HIDE DEF F, G
    <3> QED BY <1>6, <3>1
  <2>2. /\ X \in U /\ T \subseteq X
        /\ \A v \in X \ T : \E i \in 0 .. k - 1 : v = <<"f", i, t>>
        /\ \A i \in 0 .. k - 1 : <<"f", i, t>> \in X <=> CalcFunc(c.filter[i], t, X)
    BY <1>9
  <2> HIDE DEF F, X, Y
  <2>3. <<"f", k, t>> \notin X
    BY <1>1, <2>2
  <2>4. Y \in U /\ T \subseteq Y /\ X \subseteq Y /\ \A v \in Y \ X : v = <<"f", k, t>>
    BY <1>2, <2>1, <2>2
  <2>5. \A v \in Y \ T : \E i \in 0 .. (k + 1) - 1 : v = <<"f", i, t>>
    <3> SUFFICES ASSUME NEW v \in Y \ T PROVE \E i \in 0 .. (k + 1) - 1 : v = <<"f", i, t>>
      OBVIOUS
    <3>1. CASE v \in X
      <4>1. PICK i \in 0 .. k - 1 : v = <<"f", i, t>>
        BY <2>2, <3>1
      <4>2. i \in 0 .. (k + 1) - 1
        BY <1>1
      <4> QED BY <4>1, <4>2
    <3>2. CASE v \notin X
      <4>1. k \in 0 .. (k + 1) - 1
        BY <1>1
      <4> QED BY <2>4, <3>2, <4>1
    <3> QED BY <3>1, <3>2
  <2>6. ASSUME NEW i \in 0 .. k PROVE CalcFunc(c.filter[i], t, X) <=> CalcFunc(c.filter[i], t, Y)
    <3>1. i \in Filters(c) /\ i \in Nat /\ k \in Nat /\ i <= k
      BY <1>1
    <3>2. ASSUME NEW term \in c.filter[i], NEW e \in term
          PROVE  At(e, t) \in X <=> At(e, t) \in Y
      <4>1. At(e, t) # <<"f", k, t>>
        BY <1>1, <3>1, FilterReads
      <4> QED BY <2>4, <4>1
    <3> QED BY <3>2, CalcAgrees
  <2>7. \A i \in 0 .. (k + 1) - 1 : <<"f", i, t>> \in Y <=> CalcFunc(c.filter[i], t, Y)
    <3> SUFFICES ASSUME NEW i \in 0 .. (k + 1) - 1
                 PROVE  <<"f", i, t>> \in Y <=> CalcFunc(c.filter[i], t, Y)
      OBVIOUS
    <3>1. i \in 0 .. k
      BY <1>1
    <3>2. CASE i = k
      <4>1. <<"f", k, t>> \in Y <=> CalcFunc(c.filter[k], t, X)
        BY <2>1, <2>3
      <4> QED BY <2>6, <3>1, <3>2, <4>1
    <3>3. CASE i # k
      <4>1. i \in 0 .. k - 1
        BY <1>1, <3>3
      <4>2. <<"f", i, t>> \in Y <=> <<"f", i, t>> \in X
        BY <2>4, <3>3
      <4> QED BY <2>2, <2>6, <3>1, <4>1, <4>2
    <3> QED BY <3>2, <3>3
  <2> QED BY <1>1, <2>4, <2>5, <2>7 DEF X, Y
<1>10. n \in S
  <2> HIDE DEF S, n
  <2>1. \A k \in 0 .. n : k \in S
    BY <1>0, <1>8, <1>9, UpToAll
  <2> QED BY <1>0, <2>1
<1> HIDE DEF F
<1> QED BY <1>1, <1>7, <1>10

(* What the feedbacks and the output function read in clock t.             *)
LEMMA FunctionReads ==
  ASSUME NEW c, WellFormed(c), NEW t \in Nat,
         NEW f \in Functions(StartBits(c) \cup FilterBits(Cardinality(Filters(c)))),
         NEW term \in f, NEW e \in term
  PROVE  /\ e \in Bits
         /\ \/ \E i \in SRs(c), m \in Nat : /\ m < c.sr_size[i] /\ e = <<"sr", i, m>>
                                            /\ At(e, t) = <<"sr", i, m + t>>
            \/ \E j \in Filters(c) : At(e, t) = <<"f", j, t>>
<1>1. e \in StartBits(c) \cup FilterBits(Cardinality(Filters(c)))
  BY DEF Functions
<1>2. CASE e \in StartBits(c)
  <2>1. PICK i \in SRs(c) : e \in {<<"sr", i, m>> : m \in 0 .. c.sr_size[i] - 1}
    BY <1>2 DEF StartBits
  <2>2. PICK m \in 0 .. c.sr_size[i] - 1 : e = <<"sr", i, m>>
    BY <2>1
  <2>3. m \in Nat /\ m < c.sr_size[i] /\ i \in Nat
    BY BitsOf
  <2> QED BY <2>2, <2>3 DEF At, Bits
<1>3. CASE e \in FilterBits(Cardinality(Filters(c)))
  <2>1. PICK j \in 0 .. Cardinality(Filters(c)) - 1 : e = <<"f", j, 0>>
    BY <1>3 DEF FilterBits
  <2>2. j \in Filters(c)
    BY DEF WellFormed
  <2>3. j \in Nat /\ 0 + t = t
    BY <2>2, BitsOf
  <2> QED BY <2>1, <2>2, <2>3 DEF At, Bits
<1> QED BY <1>1, <1>2, <1>3

(* The functions of a clock are those of the description.                  *)
LEMMA FunctionsOfClock ==
  ASSUME NEW c, WellFormed(c), NEW t
  PROVE  LET FB == Functions(StartBits(c) \cup FilterBits(Cardinality(Filters(c)))) IN
         /\ FeedbackOf(c, t) \in [SRs(c) -> FB] /\ c.output \in FB
         /\ \A i \in Filters(c) : c.filter[i] \in FB
<1>1. ASSUME NEW i \in Filters(c)
      PROVE  c.filter[i] \in Functions(StartBits(c) \cup FilterBits(Cardinality(Filters(c))))
  <2>1. i \in 0 .. Cardinality(Filters(c)) - 1
    BY DEF WellFormed
  <2>2. 0 .. i - 1 \subseteq 0 .. Cardinality(Filters(c)) - 1
    BY <2>1, BitsOf
  <2>3. FilterBits(i) \subseteq FilterBits(Cardinality(Filters(c)))
    BY <2>2 DEF FilterBits
  <2>4. c.filter[i] \in Functions(StartBits(c) \cup FilterBits(i))
    BY DEF WellFormed
  <2> QED BY <2>3, <2>4 DEF Functions
<1> QED BY <1>1 DEF WellFormed, FeedbackOf

(* In the bits of X, what clock u computes is right.                       *)
Computed(c, u, X) ==
  /\ \A i \in Filters(c) : <<"f", i, u>> \in X <=> CalcFunc(c.filter[i], u, X)
  /\ \A i \in SRs(c) : <<"sr", i, c.sr_size[i] + u>> \in X <=> CalcFunc(FeedbackOf(c, u)[i], u, X)

(* It stays right when the bits up to clock u stay the same.               *)
LEMMA ComputedKept ==
  ASSUME NEW c, WellFormed(c), NEW u \in Nat, NEW X, NEW Y, Computed(c, u, X),
         \A i \in Filters(c) : <<"f", i, u>> \in X <=> <<"f", i, u>> \in Y,
         \A i \in SRs(c), m \in Nat :
            m <= c.sr_size[i] + u => (<<"sr", i, m>> \in X <=> <<"sr", i, m>> \in Y)
  PROVE  Computed(c, u, Y)
<1>1. ASSUME NEW f \in Functions(StartBits(c) \cup FilterBits(Cardinality(Filters(c))))
      PROVE  CalcFunc(f, u, X) <=> CalcFunc(f, u, Y)
  <2>1. ASSUME NEW term \in f, NEW e \in term PROVE At(e, u) \in X <=> At(e, u) \in Y
    <3>1. CASE \E i \in SRs(c), m \in Nat : m < c.sr_size[i] /\ At(e, u) = <<"sr", i, m + u>>
      <4>1. PICK i \in SRs(c), m \in Nat : m < c.sr_size[i] /\ At(e, u) = <<"sr", i, m + u>>
        BY <3>1
      <4>2. m + u \in Nat /\ m + u <= c.sr_size[i] + u
        BY <4>1, BitsOf
      <4> QED BY <4>1, <4>2
    <3>2. CASE \E j \in Filters(c) : At(e, u) = <<"f", j, u>>
      BY <3>2
    <3> QED BY <3>1, <3>2, FunctionReads
  <2> QED BY <2>1, CalcAgrees
<1>2. ASSUME NEW i \in Filters(c)
      PROVE  <<"f", i, u>> \in Y <=> CalcFunc(c.filter[i], u, Y)
  <2>1. CalcFunc(c.filter[i], u, X) <=> CalcFunc(c.filter[i], u, Y)
    BY <1>1, FunctionsOfClock
  <2> QED BY <2>1 DEF Computed
<1>3. ASSUME NEW i \in SRs(c)
      PROVE  <<"sr", i, c.sr_size[i] + u>> \in Y <=> CalcFunc(FeedbackOf(c, u)[i], u, Y)
  <2>1. FeedbackOf(c, u)[i] \in Functions(StartBits(c) \cup FilterBits(Cardinality(Filters(c))))
    BY FunctionsOfClock
  <2>2. CalcFunc(FeedbackOf(c, u)[i], u, X) <=> CalcFunc(FeedbackOf(c, u)[i], u, Y)
    BY <1>1, <2>1
  <2>3. c.sr_size[i] + u \in Nat /\ c.sr_size[i] + u <= c.sr_size[i] + u
    BY BitsOf
  <2> QED BY <2>2, <2>3 DEF Computed
<1> QED BY <1>2, <1>3 DEF Computed

(* X has the run up to clock k, and no later bit.                          *)
SoFar(c, k, X) ==
  /\ X \in SUBSET VarsOf(c)
  /\ \A i \in Filters(c), u \in Nat : u >= k => <<"f", i, u>> \notin X
  /\ \A i \in SRs(c), m \in Nat : m >= c.sr_size[i] + k => <<"sr", i, m>> \notin X
  /\ \A x, m : <<"out", x, m>> \notin X
  /\ \A u \in 0 .. k - 1 : Computed(c, u, X)

(* One clock of the simulation.                                            *)
LEMMA OneClock ==
  ASSUME NEW c, WellFormed(c), NEW k \in 0 .. Total(c) - 1, NEW X, SoFar(c, k, X)
  PROVE  SoFar(c, k + 1, ClockRegisters(c, k, ClockFilters(c, k, X)))
<1> DEFINE Y == ClockFilters(c, k, X)
           Z == ClockRegisters(c, k, Y)
<1>1. k \in Nat /\ Total(c) \in Nat /\ k + 1 \in Nat /\ k < Total(c)
  BY BitsOf
<1>2. /\ X \in SUBSET VarsOf(c)
      /\ \A i \in Filters(c), u \in Nat : u >= k => <<"f", i, u>> \notin X
      /\ \A i \in SRs(c), m \in Nat : m >= c.sr_size[i] + k => <<"sr", i, m>> \notin X
      /\ \A x, m : <<"out", x, m>> \notin X
      /\ \A u \in 0 .. k - 1 : Computed(c, u, X)
  BY DEF SoFar
<1>3. /\ Y \in SUBSET VarsOf(c) /\ X \subseteq Y
      /\ \A v \in Y \ X : \E i \in Filters(c) : v = <<"f", i, k>>
      /\ \A i \in Filters(c) : <<"f", i, k>> \in Y <=> CalcFunc(c.filter[i], k, Y)
  <2>1. \A i \in Filters(c) : <<"f", i, k>> \notin X
    BY <1>1, <1>2
  <2> QED BY <1>2, <2>1, FiltersOfClock
<1>4. /\ Y \subseteq Z
      /\ \A v \in Z \ Y : \E i \in SRs(c) : v = <<"sr", i, c.sr_size[i] + k>>
      /\ \A i \in SRs(c) :
           <<"sr", i, c.sr_size[i] + k>> \in Z
             <=> <<"sr", i, c.sr_size[i] + k>> \in Y \/ CalcFunc(FeedbackOf(c, k)[i], k, Y)
  BY DEF ClockRegisters
<1>5. \A i \in SRs(c) : <<"sr", i, c.sr_size[i] + k>> \in VarsOf(c)
  <2> SUFFICES ASSUME NEW i \in SRs(c) PROVE <<"sr", i, c.sr_size[i] + k>> \in VarsOf(c)
    OBVIOUS
  <2>1. c.sr_size[i] + k \in 0 .. c.sr_size[i] + Total(c) - 1
    BY <1>1, BitsOf
  <2> QED BY <2>1 DEF VarsOf, SrVars
<1>6. Z \in SUBSET VarsOf(c)
  BY <1>3, <1>4, <1>5
<1> HIDE DEF Y, Z
<1>7. ASSUME NEW i \in Filters(c), NEW u \in Nat, u # k
      PROVE  <<"f", i, u>> \in Z <=> <<"f", i, u>> \in X
  BY <1>3, <1>4, <1>7
<1>8. ASSUME NEW i \in SRs(c), NEW m \in Nat, m # c.sr_size[i] + k
      PROVE  <<"sr", i, m>> \in Z <=> <<"sr", i, m>> \in X
  BY <1>3, <1>4, <1>8
<1>9. \A i \in Filters(c), u \in Nat : u >= k + 1 => <<"f", i, u>> \notin Z
  <2> SUFFICES ASSUME NEW i \in Filters(c), NEW u \in Nat, u >= k + 1
               PROVE  <<"f", i, u>> \notin Z
    OBVIOUS
  <2>1. u # k /\ u >= k
    BY <1>1
  <2> QED BY <1>2, <1>7, <2>1
<1>10. \A i \in SRs(c), m \in Nat : m >= c.sr_size[i] + (k + 1) => <<"sr", i, m>> \notin Z
  <2> SUFFICES ASSUME NEW i \in SRs(c), NEW m \in Nat, m >= c.sr_size[i] + (k + 1)
               PROVE  <<"sr", i, m>> \notin Z
    OBVIOUS
  <2>1. m # c.sr_size[i] + k /\ m >= c.sr_size[i] + k
    BY <1>1, BitsOf
  <2> QED BY <1>2, <1>8, <2>1
<1>11. \A x, m : <<"out", x, m>> \notin Z
  <2> SUFFICES ASSUME NEW x, NEW m PROVE <<"out", x, m>> \notin Z
    OBVIOUS
  <2>1. <<"out", x, m>> \notin Y
    BY <1>2, <1>3
  <2> QED BY <1>4, <2>1
<1>12. ASSUME NEW u \in 0 .. k - 1 PROVE Computed(c, u, Z)
  <2>1. u \in Nat /\ u # k /\ Computed(c, u, X)
    BY <1>1, <1>2
  <2>2. \A i \in Filters(c) : <<"f", i, u>> \in X <=> <<"f", i, u>> \in Z
    BY <1>7, <2>1
  <2>3. ASSUME NEW i \in SRs(c), NEW m \in Nat, m <= c.sr_size[i] + u
        PROVE  <<"sr", i, m>> \in X <=> <<"sr", i, m>> \in Z
    <3>1. m # c.sr_size[i] + k
      BY <1>1, <2>3, BitsOf
    <3> QED BY <1>8, <3>1
  <2> QED BY <2>1, <2>2, <2>3, ComputedKept
<1>13. ASSUME NEW f \in Functions(StartBits(c) \cup FilterBits(Cardinality(Filters(c))))
       PROVE  CalcFunc(f, k, Y) <=> CalcFunc(f, k, Z)
  <2>1. ASSUME NEW term \in f, NEW e \in term PROVE At(e, k) \in Y <=> At(e, k) \in Z
    <3>1. CASE \E i \in SRs(c), m \in Nat : m < c.sr_size[i] /\ At(e, k) = <<"sr", i, m + k>>
      <4>1. PICK i \in SRs(c), m \in Nat : m < c.sr_size[i] /\ At(e, k) = <<"sr", i, m + k>>
        BY <3>1
      <4>2. m + k \in Nat /\ m + k # c.sr_size[i] + k
        BY <1>1, <4>1, BitsOf
      <4> QED BY <1>4, <4>1, <4>2
    <3>2. CASE \E j \in Filters(c) : At(e, k) = <<"f", j, k>>
      BY <1>4, <3>2
    <3> QED BY <1>1, <3>1, <3>2, FunctionReads
  <2> QED BY <2>1, CalcAgrees
<1>14. Computed(c, k, Z)
  <2>1. ASSUME NEW i \in Filters(c) PROVE <<"f", i, k>> \in Z <=> CalcFunc(c.filter[i], k, Z)
    <3>1. CalcFunc(c.filter[i], k, Y) <=> CalcFunc(c.filter[i], k, Z)
      BY <1>13, FunctionsOfClock
    <3>2. <<"f", i, k>> \in Z <=> <<"f", i, k>> \in Y
      BY <1>4
    <3> QED BY <1>3, <3>1, <3>2
  <2>2. ASSUME NEW i \in SRs(c)
        PROVE  <<"sr", i, c.sr_size[i] + k>> \in Z <=> CalcFunc(FeedbackOf(c, k)[i], k, Z)
    <3>1. FeedbackOf(c, k)[i] \in Functions(StartBits(c) \cup FilterBits(Cardinality(Filters(c))))
      BY FunctionsOfClock
    <3>2. CalcFunc(FeedbackOf(c, k)[i], k, Y) <=> CalcFunc(FeedbackOf(c, k)[i], k, Z)
      BY <1>13, <3>1
    <3>3. c.sr_size[i] + k \in Nat /\ c.sr_size[i] + k >= c.sr_size[i] + k
      BY <1>1, BitsOf
    <3>4. <<"sr", i, c.sr_size[i] + k>> \notin Y
      BY <1>2, <1>3, <3>3
    <3> QED BY <1>4, <3>2, <3>4
  <2> QED BY <2>1, <2>2 DEF Computed
<1>15. \A u \in 0 .. (k + 1) - 1 : Computed(c, u, Z)
  <2> SUFFICES ASSUME NEW u \in 0 .. (k + 1) - 1 PROVE Computed(c, u, Z)
    OBVIOUS
  <2>1. u = k \/ u \in 0 .. k - 1
    BY <1>1
  <2> QED BY <1>12, <1>14, <2>1
<1>16. SoFar(c, k + 1, Z)
  BY <1>6, <1>9, <1>10, <1>11, <1>15 DEF SoFar
<1> QED BY <1>16 DEF Z, Y

(* The whole simulation.                                                   *)
LEMMA SimulatedRun ==
  ASSUME NEW c, WellFormed(c), NEW s \in SUBSET StartBits(c)
  PROVE  SoFar(c, Total(c), Simulated(c, s))
<1> DEFINE n       == Total(c)
           U       == SUBSET VarsOf(c)
           G(k, X) == ClockRegisters(c, k, ClockFilters(c, k, X))
           step    == [k \in 0 .. n - 1 |-> [X \in U |-> IF SoFar(c, k, X) THEN G(k, X) ELSE X]]
           R[t \in 0 .. n] == IF t = 0 THEN s ELSE G(t - 1, R[t - 1])
<1>1. n \in Nat /\ StartBits(c) \subseteq VarsOf(c)
  BY BitsOf
<1>2. ASSUME NEW k \in 0 .. n - 1, NEW X, SoFar(c, k, X)
      PROVE  SoFar(c, k + 1, G(k, X)) /\ G(k, X) \in U
  <2>1. SoFar(c, k + 1, G(k, X))
    BY <1>2, OneClock
  <2> HIDE DEF G
  <2> QED BY <2>1 DEF SoFar
<1>3. step \in [0 .. n - 1 -> [U -> U]]
  <2> HIDE DEF G, n, U
  <2> QED BY <1>2
<1>4. PICK f : StepsFrom(f, n, U, s, step)
  <2>1. n \in Nat /\ s \in U
    BY <1>1
  <2> HIDE DEF n, U, step, R
  <2> QED BY <1>3, <2>1, StepsExist
<1>5. f \in [0 .. n -> U] /\ f[0] = s /\ \A k \in 0 .. n - 1 : f[k + 1] = step[k][f[k]]
  BY <1>4 DEF StepsFrom
<1> DEFINE S == {k \in 0 .. n : SoFar(c, k, f[k])}
<1>6. 0 \in S
  <2>1. SoFar(c, 0, s)
    <3>1. s \in SUBSET VarsOf(c)
      BY <1>1
    <3>2. \A v \in s : \E i \in SRs(c) : \E m \in 0 .. c.sr_size[i] - 1 : v = <<"sr", i, m>>
      BY DEF StartBits
    <3>3. \A i \in Filters(c), u \in Nat : <<"f", i, u>> \notin s
      BY <3>2
    <3>4. \A x, m : <<"out", x, m>> \notin s
      BY <3>2
    <3>5. ASSUME NEW i \in SRs(c), NEW m \in Nat, m >= c.sr_size[i] + 0 PROVE <<"sr", i, m>> \notin s
      <4>1. SUFFICES ASSUME <<"sr", i, m>> \in s PROVE FALSE
        OBVIOUS
      <4>2. m \in 0 .. c.sr_size[i] - 1
        BY <3>2, <4>1
      <4> QED BY <3>5, <4>2, BitsOf
    <3>6. 0 .. 0 - 1 = {}
      OBVIOUS
    <3> QED BY <3>1, <3>3, <3>4, <3>5, <3>6 DEF SoFar
  <2> QED BY <1>1, <1>5, <2>1
<1>7. ASSUME NEW k \in 0 .. n - 1, k \in S PROVE k + 1 \in S /\ f[k + 1] = G(k, f[k])
  <2>1. k \in 0 .. n /\ k + 1 \in 0 .. n /\ SoFar(c, k, f[k]) /\ f[k] \in U
    BY <1>1, <1>5, <1>7
  <2>2. step[k][f[k]] = G(k, f[k])
    <3> HIDE DEF G
    <3> QED BY <2>1
  <2>3. SoFar(c, k + 1, G(k, f[k]))
    BY <1>2, <2>1
  <2> HIDE DEF G, step
  <2> QED BY <1>5, <2>1, <2>2, <2>3
<1>8. \A k \in 0 .. n : k \in S
  <2> HIDE DEF S, n, R, G
  <2> QED BY <1>1, <1>6, <1>7, UpToAll
<1>9. f = [k \in 0 .. n |-> IF k = 0 THEN s ELSE G(k - 1, f[k - 1])]
  <2>1. ASSUME NEW k \in 0 .. n
        PROVE  f[k] = IF k = 0 THEN s ELSE G(k - 1, f[k - 1])
    <3>1. CASE k = 0
      BY <1>5, <3>1
    <3>2. CASE k # 0
      <4>1. k - 1 \in 0 .. n - 1 /\ k - 1 \in 0 .. n /\ (k - 1) + 1 = k
        BY <1>1, <3>2
      <4>2. k - 1 \in S
        BY <1>8, <4>1
      <4> HIDE DEF G, S, n
      <4>3. f[(k - 1) + 1] = G(k - 1, f[k - 1])
        BY <1>7, <4>1, <4>2
      <4> QED BY <3>2, <4>1, <4>3
    <3> QED BY <3>1, <3>2
  <2> HIDE DEF G, U, n
  <2> QED BY <1>5, <2>1
<1>10. R = [k \in 0 .. n |-> IF k = 0 THEN s ELSE G(k - 1, R[k - 1])]
  <2> HIDE DEF G, n
  <2> QED BY <1>9 DEF R
<1>11. Simulated(c, s) = R[n]
  BY DEF Simulated
<1> HIDE DEF R
<1> DEFINE Q == {k \in 0 .. n : R[k] = f[k]}
<1>12. 0 \in Q
  <2> HIDE DEF G
  <2> QED BY <1>1, <1>5, <1>10
<1>13. ASSUME NEW k \in 0 .. n - 1, k \in Q PROVE k + 1 \in Q
  <2>1. k + 1 \in 0 .. n /\ k + 1 # 0 /\ (k + 1) - 1 = k /\ k \in 0 .. n
    BY <1>1
  <2> HIDE DEF G, S
  <2>2. R[k + 1] = G(k, R[k])
    BY <1>10, <2>1
  <2>3. f[k + 1] = G(k, f[k])
    BY <1>7, <1>8, <2>1
  <2>4. R[k] = f[k]
    BY <1>13
  <2> QED BY <2>1, <2>2, <2>3, <2>4
<1>14. \A k \in 0 .. n : k \in Q
  <2> HIDE DEF Q, n
  <2> QED BY <1>1, <1>12, <1>13, UpToAll
<1>15. n \in 0 .. n
  BY <1>1
<1> QED BY <1>8, <1>11, <1>14, <1>15

(* Every clock of the run is computed right, the output bits included.     *)
LEMMA TrueRunFacts ==
  ASSUME NEW c, WellFormed(c), NEW s \in SUBSET StartBits(c)
  PROVE  LET T == TrueRun(c, s) IN
         /\ \A u \in 0 .. Total(c) - 1 : Computed(c, u, T)
         /\ \A u \in 0 .. c.outputs - 1 :
              <<"out", 0, u>> \in T <=> CalcFunc(c.output, u + c.init_clock, T)
<1> DEFINE S == Simulated(c, s)
           T == TrueRun(c, s)
<1>1. SoFar(c, Total(c), S)
  BY SimulatedRun
<1>2. T = S \cup OutputBits(c, S)
  BY DEF TrueRun
<1>3. \A v \in OutputBits(c, S) : \E u : v = <<"out", 0, u>>
  BY DEF OutputBits
<1> HIDE DEF S, T
<1>4. /\ \A x, y : <<"f", x, y>> \in S <=> <<"f", x, y>> \in T
      /\ \A x, y : <<"sr", x, y>> \in S <=> <<"sr", x, y>> \in T
  BY <1>2, <1>3
<1>5. ASSUME NEW u \in 0 .. Total(c) - 1 PROVE Computed(c, u, T)
  <2>1. Computed(c, u, S) /\ u \in Nat
    BY <1>1, BitsOf DEF SoFar
  <2> QED BY <1>4, <2>1, ComputedKept
<1>6. ASSUME NEW u \in 0 .. c.outputs - 1
      PROVE  <<"out", 0, u>> \in T <=> CalcFunc(c.output, u + c.init_clock, T)
  <2>1. u + c.init_clock \in Nat
    BY DEF WellFormed
  <2>2. CalcFunc(c.output, u + c.init_clock, S) <=> CalcFunc(c.output, u + c.init_clock, T)
    <3> DEFINE t == u + c.init_clock
    <3>1. ASSUME NEW term \in c.output, NEW e \in term
          PROVE  At(e, t) \in S <=> At(e, t) \in T
      <4>1. t \in Nat /\ c.output \in Functions(StartBits(c) \cup FilterBits(Cardinality(Filters(c))))
        BY <2>1, FunctionsOfClock
      <4> HIDE DEF t
      <4>2. \/ \E i \in SRs(c), m \in Nat : At(e, t) = <<"sr", i, m + t>>
            \/ \E j \in Filters(c) : At(e, t) = <<"f", j, t>>
        BY <4>1, FunctionReads
      <4> QED BY <1>4, <4>2
    <3> HIDE DEF t
    <3>2. CalcFunc(c.output, t, S) <=> CalcFunc(c.output, t, T)
      BY <3>1, CalcAgrees
    <3> QED BY <3>2 DEF t
  <2>3. <<"out", 0, u>> \notin S
    BY <1>1 DEF SoFar
  <2>4. <<"out", 0, u>> \in OutputBits(c, S) <=> CalcFunc(c.output, u + c.init_clock, S)
    BY DEF OutputBits
  <2> QED BY <1>2, <2>2, <2>3, <2>4
<1> QED BY <1>5, <1>6 DEF T

---------------------------------------------------------------------------
(* The reverse feedback.                                                   *)

(* The exchange of a lone oldest bit with the new bit solves the equation  *)
(* of the clock for that oldest bit.                                       *)
LEMMA ExchangeRight ==
  ASSUME NEW c, WellFormed(c), NEW i \in SRs(c), NEW t \in Nat, NEW T,
         NEW f \in Functions(StartBits(c) \cup FilterBits(Cardinality(Filters(c)))),
         NEW j \in Changeable(f),
         <<"sr", i, c.sr_size[i] + t>> \in T <=> CalcFunc(f, t, T)
  PROVE  /\ <<"sr", j, t>> \in T <=> CalcFunc(Exchanged(c, f, i, j), t, T)
         /\ Exchanged(c, f, i, j) \in SUBSET SUBSET Bits
         /\ IsFiniteSet(Exchanged(c, f, i, j))
         /\ j \in SRs(c)
<1> DEFINE a    == {<<"sr", j, 0>>}
           b    == {<<"sr", i, c.sr_size[i]>>}
           g    == Exchanged(c, f, i, j)
           On(x) == \A e \in x : At(e, t) \in T
           X    == {term \in f \ {a} : On(term)}
           P    == IF On(a) THEN {a} ELSE {}
           Q    == IF On(b) THEN {b} ELSE {}
<1>1. f \in SUBSET SUBSET Bits /\ IsFiniteSet(f)
  BY FunctionFacts
<1>2. a \in f /\ g = (f \ {a}) \cup {b}
  BY DEF Changeable, Exchanged
<1>3. <<"sr", j, 0>> \in StartBits(c)
  <2>1. <<"sr", j, 0>> \in StartBits(c) \cup FilterBits(Cardinality(Filters(c)))
    BY <1>2 DEF Functions
  <2>2. <<"sr", j, 0>> \notin FilterBits(Cardinality(Filters(c)))
    BY DEF FilterBits
  <2> QED BY <2>1, <2>2
<1>4. j \in SRs(c)
  BY <1>3 DEF StartBits
<1>5. b \notin f
  <2>1. c.sr_size[i] \in Nat
    BY BitsOf
  <2>2. <<"sr", i, c.sr_size[i]>> \notin StartBits(c)
    <3>1. SUFFICES ASSUME <<"sr", i, c.sr_size[i]>> \in StartBits(c) PROVE FALSE
      OBVIOUS
    <3>2. PICK k \in SRs(c) : <<"sr", i, c.sr_size[i]>> \in {<<"sr", k, m>> : m \in 0 .. c.sr_size[k] - 1}
      BY <3>1 DEF StartBits
    <3>3. c.sr_size[i] \in 0 .. c.sr_size[i] - 1
      BY <3>2
    <3> QED BY <2>1, <3>3
  <2>3. <<"sr", i, c.sr_size[i]>> \notin FilterBits(Cardinality(Filters(c)))
    BY DEF FilterBits
  <2> QED BY <2>2, <2>3 DEF Functions
<1>6. On(a) <=> <<"sr", j, t>> \in T
  BY DEF At
<1>7. On(b) <=> <<"sr", i, c.sr_size[i] + t>> \in T
  BY DEF At
<1>8. g \in SUBSET SUBSET Bits /\ IsFiniteSet(g)
  <2>1. b \in SUBSET Bits
    BY BitsOf DEF Bits
  <2>2. IsFiniteSet(f \ {a}) /\ IsFiniteSet({b})
    BY <1>1, FS_Difference, FS_Singleton
  <2>3. IsFiniteSet((f \ {a}) \cup {b})
    BY <2>2, FS_Union
  <2> HIDE DEF a, b, g
  <2> QED BY <1>1, <1>2, <2>1, <2>3
<1>9. /\ {term \in f : On(term)} = X \cup P /\ X \cap P = {}
      /\ {term \in g : On(term)} = X \cup Q /\ X \cap Q = {}
      /\ X \subseteq f
  <2> HIDE DEF a, b, g, On
  <2> QED BY <1>2, <1>5
<1>10. IsFiniteSet(X) /\ IsFiniteSet(P) /\ IsFiniteSet(Q)
  <2>1. IsFiniteSet(X)
    BY <1>1, <1>9, FS_Subset
  <2> QED BY <2>1, FS_EmptySet, FS_Singleton
<1>11. /\ Odd(Cardinality(P)) <=> On(a)
       /\ Odd(Cardinality(Q)) <=> On(b)
  <2>1. ~ Odd(Cardinality({}))
    BY FS_EmptySet DEF Odd
  <2>2. \A x : Odd(Cardinality({x}))
    <3>1. \A x : Cardinality({x}) = 1
      BY FS_Singleton
    <3>2. Odd(1)
      BY DEF Odd
    <3> QED BY <3>1, <3>2
  <2> HIDE DEF On, a, b
  <2> QED BY <2>1, <2>2
<1> HIDE DEF X, P, Q
<1>12. Odd(Cardinality(X \cup P)) <=> ~ (Odd(Cardinality(X)) <=> Odd(Cardinality(P)))
  BY <1>9, <1>10, OddDisjointUnion
<1>13. Odd(Cardinality(X \cup Q)) <=> ~ (Odd(Cardinality(X)) <=> Odd(Cardinality(Q)))
  BY <1>9, <1>10, OddDisjointUnion
<1>14. CalcFunc(f, t, T) <=> Odd(Cardinality(X \cup P))
  BY <1>9 DEF CalcFunc, Odd
<1>15. CalcFunc(g, t, T) <=> Odd(Cardinality(X \cup Q))
  BY <1>9 DEF CalcFunc, Odd
<1> HIDE DEF On
<1>16. <<"sr", j, t>> \in T <=> CalcFunc(g, t, T)
  BY <1>6, <1>7, <1>11, <1>12, <1>13, <1>14, <1>15
<1> QED BY <1>4, <1>8, <1>16 DEF g

(* The bit that the exchange takes is a lone oldest bit of the feedback.   *)
LEMMA AssignChangeable ==
  ASSUME NEW c, WellFormed(c), NEW i,
         NEW f \in Functions(StartBits(c) \cup FilterBits(Cardinality(Filters(c)))),
         Changeable(f) # {}
  PROVE  AssignTo(f, i) \in Changeable(f) /\ AssignTo(f, i) \in SRs(c)
<1>1. Changeable(f) \subseteq SRs(c)
  <2> SUFFICES ASSUME NEW j \in Changeable(f) PROVE j \in SRs(c)
    OBVIOUS
  <2>1. {<<"sr", j, 0>>} \in f
    BY DEF Changeable
  <2>2. <<"sr", j, 0>> \in StartBits(c) \cup FilterBits(Cardinality(Filters(c)))
    BY <2>1 DEF Functions
  <2> QED BY <2>2 DEF StartBits, FilterBits
<1>2. Changeable(f) \in SUBSET Nat
  BY <1>1, BitsOf
<1>3. \E x \in Changeable(f) : \A y \in Changeable(f) : x <= y
  BY <1>2, LeastNumber
<1>4. Min(Changeable(f)) \in Changeable(f)
  BY <1>3 DEF Min
<1> QED BY <1>1, <1>4 DEF AssignTo

(* A shifted register has a reverse feedback, that of the register which   *)
(* takes its oldest bit: itself, or in mixed mode any other.               *)
LEMMA ReverseThere ==
  ASSUME NEW c, WellFormed(c), Accepted(c), NEW t \in Nat, NEW j \in SRs(c),
         HasTerms(FeedbackOf(c, t)[j])
  PROVE  \E i \in SRs(c) : /\ j \in Changeable(FeedbackOf(c, t)[i])
                           /\ Reversed(c, FeedbackOf(c, t))[j] = Exchanged(c, FeedbackOf(c, t)[i], i, j)
<1> DEFINE fb   == FeedbackOf(c, t)
           FB   == Functions(StartBits(c) \cup FilterBits(Cardinality(Filters(c))))
           from == {i \in SRs(c) : HasTerms(fb[i]) /\ AssignTo(fb[i], i) = j}
<1>1. fb \in [SRs(c) -> FB]
  BY FunctionsOfClock
<1>2. /\ Reversible(c, fb)
      /\ Crossed(c, fb) => \A i \in SRs(c) : HasTerms(fb[i])
  BY DEF Accepted, FeedbackOf, MixedShifts, WellFormed, AllReversed
<1> HIDE DEF fb
<1>3. \A i \in SRs(c) : HasTerms(fb[i]) =>
        AssignTo(fb[i], i) \in Changeable(fb[i]) /\ AssignTo(fb[i], i) \in SRs(c)
  <2> SUFFICES ASSUME NEW i \in SRs(c), HasTerms(fb[i])
               PROVE  AssignTo(fb[i], i) \in Changeable(fb[i]) /\ AssignTo(fb[i], i) \in SRs(c)
    OBVIOUS
  <2>1. fb[i] \in FB /\ Changeable(fb[i]) # {}
    BY <1>1, <1>2 DEF Reversible
  <2> QED BY <2>1, AssignChangeable
<1>4. from # {}
  <2>1. CASE ~ Crossed(c, fb)
    <3>1. HasTerms(fb[j])
      BY DEF fb
    <3> QED BY <2>1, <3>1 DEF Crossed
  <2>2. CASE Crossed(c, fb)
    <3> DEFINE h == [i \in SRs(c) |-> AssignTo(fb[i], i)]
    <3>1. \A i \in SRs(c) : HasTerms(fb[i])
      BY <1>2, <2>2
    <3>2. h \in [SRs(c) -> SRs(c)]
      BY <1>3, <3>1
    <3>3. \A x, y \in SRs(c) : h[x] = h[y] => x = y
      BY <1>2, <3>1 DEF Reversible
    <3>4. IsFiniteSet(SRs(c))
      BY DEF WellFormed
    <3> HIDE DEF h
    <3>5. h \in Injection(SRs(c), SRs(c))
      BY <3>2, <3>3 DEF Injection, IsInjective
    <3>6. h \in Surjection(SRs(c), SRs(c))
      BY <3>4, <3>5, FS_Injection
    <3>7. PICK i \in SRs(c) : h[i] = j
      BY <3>6 DEF Surjection
    <3> QED BY <3>1, <3>7 DEF h
  <2> QED BY <2>1, <2>2
<1> DEFINE i == CHOOSE k \in from : TRUE
<1>5. i \in from
  BY <1>4
<1>6. Reversed(c, fb)[j] = Exchanged(c, fb[i], i, j)
  BY <1>4 DEF Reversed
<1> HIDE DEF i
<1>7. i \in SRs(c) /\ j \in Changeable(fb[i])
  BY <1>3, <1>5
<1> QED BY <1>6, <1>7 DEF fb

---------------------------------------------------------------------------
(* Every equation of a job holds in its run.                               *)

(* The calls of a clock, and the equations they add.                       *)
CallSet(c, t) ==
  {[kind |-> "sr", which |-> i] : i \in SRs(c)}
  \cup {[kind |-> "filter", which |-> i] : i \in Filters(c)}
  \cup (IF t < c.init_clock THEN {} ELSE {[kind |-> "output", which |-> 0]})
DefsAt(c, t)   == {generate(c, x.kind, x.which, t) : x \in CallSet(c, t)}
DefsUpTo(c, n) == UNION {DefsAt(c, t) : t \in 0 .. n - 1}
HelpsOf(j) ==
  {HelpEquation(e, GivenData(j)[e]) : e \in DOMAIN GivenData(j)}
  \cup {HelpEquation(e, j.extra[e]) : e \in DOMAIN j.extra}

(* The function of a call computes the bit that the call defines.          *)
LEMMA FunctionRight ==
  ASSUME NEW c, WellFormed(c), Accepted(c), ShiftedFed(c), NEW s \in SUBSET StartBits(c),
         NEW t \in 0 .. Total(c) - 1, NEW x \in CallSet(c, t)
  PROVE  LET T == TrueRun(c, s)
             f == FunctionFor(c, x.kind, x.which, t)
         IN  /\ Defined(c, x.kind, x.which, t) \in T <=> CalcFunc(f, t, T)
             /\ f \in SUBSET SUBSET Bits /\ IsFiniteSet(f)
<1> DEFINE T == TrueRun(c, s)
           f == FunctionFor(c, x.kind, x.which, t)
           v == Defined(c, x.kind, x.which, t)
           FB == Functions(StartBits(c) \cup FilterBits(Cardinality(Filters(c))))
<1>1. /\ \A u \in 0 .. Total(c) - 1 : Computed(c, u, T)
      /\ \A u \in 0 .. c.outputs - 1 :
           <<"out", 0, u>> \in T <=> CalcFunc(c.output, u + c.init_clock, T)
  BY TrueRunFacts
<1>2. t \in Nat /\ Total(c) \in Nat /\ t < Total(c)
  BY BitsOf
<1>3. /\ FeedbackOf(c, t) \in [SRs(c) -> FB] /\ c.output \in FB
      /\ \A i \in Filters(c) : c.filter[i] \in FB
  BY FunctionsOfClock
<1>4. \A h \in FB : h \in SUBSET SUBSET Bits /\ IsFiniteSet(h)
  BY FunctionFacts
<1> HIDE DEF T, FB
<1>5. ASSUME NEW i \in SRs(c), x = [kind |-> "sr", which |-> i]
      PROVE  (v \in T <=> CalcFunc(f, t, T)) /\ f \in SUBSET SUBSET Bits /\ IsFiniteSet(f)
  <2>1. /\ v = <<"sr", i, IF Shifted(c, i, t) THEN t ELSE c.sr_size[i] + t>>
        /\ f = Feedback(c, i, t)
    BY <1>5 DEF Defined, FunctionFor
  <2>2. <<"sr", i, c.sr_size[i] + t>> \in T <=> CalcFunc(FeedbackOf(c, t)[i], t, T)
    BY <1>1 DEF Computed
  <2> HIDE DEF v, f
  <2>3. CASE ~ Shifted(c, i, t)
    <3>1. f = FeedbackOf(c, t)[i] /\ f \in FB
      BY <1>3, <2>1, <2>3 DEF Feedback
    <3> QED BY <1>4, <2>1, <2>2, <2>3, <3>1
  <2>4. CASE Shifted(c, i, t)
    <3>1. f = Reversed(c, FeedbackOf(c, t))[i] /\ v = <<"sr", i, t>>
      BY <2>1, <2>4 DEF Feedback
    <3>2. HasTerms(FeedbackOf(c, t)[i])
      <4>1. t \in 0 .. c.shift[i] - 1
        BY <1>2, <2>4, BitsOf DEF Shifted
      <4> QED BY <4>1 DEF ShiftedFed
    <3>3. PICK k \in SRs(c) : /\ i \in Changeable(FeedbackOf(c, t)[k])
                              /\ f = Exchanged(c, FeedbackOf(c, t)[k], k, i)
      BY <1>2, <3>1, <3>2, ReverseThere
    <3>4. FeedbackOf(c, t)[k] \in Functions(StartBits(c) \cup FilterBits(Cardinality(Filters(c))))
      BY <1>3 DEF FB
    <3>5. <<"sr", k, c.sr_size[k] + t>> \in T <=> CalcFunc(FeedbackOf(c, t)[k], t, T)
      BY <1>1 DEF Computed
    <3> QED BY <1>2, <3>1, <3>3, <3>4, <3>5, ExchangeRight
  <2> QED BY <2>3, <2>4
<1>6. ASSUME NEW i \in Filters(c), x = [kind |-> "filter", which |-> i]
      PROVE  (v \in T <=> CalcFunc(f, t, T)) /\ f \in SUBSET SUBSET Bits /\ IsFiniteSet(f)
  <2>1. v = <<"f", i, t>> /\ f = c.filter[i]
    BY <1>6 DEF Defined, FunctionFor
  <2>2. <<"f", i, t>> \in T <=> CalcFunc(c.filter[i], t, T)
    BY <1>1 DEF Computed
  <2> HIDE DEF v, f
  <2> QED BY <1>3, <1>4, <2>1, <2>2
<1>7. ASSUME ~ (t < c.init_clock), x = [kind |-> "output", which |-> 0]
      PROVE  (v \in T <=> CalcFunc(f, t, T)) /\ f \in SUBSET SUBSET Bits /\ IsFiniteSet(f)
  <2>1. v = <<"out", 0, t - c.init_clock>> /\ f = c.output
    BY <1>7 DEF Defined, FunctionFor
  <2>2. t - c.init_clock \in 0 .. c.outputs - 1 /\ (t - c.init_clock) + c.init_clock = t
    BY <1>2, <1>7 DEF Total, WellFormed
  <2> HIDE DEF v, f
  <2>3. v \in T <=> CalcFunc(f, t, T)
    BY <1>1, <2>1, <2>2
  <2> QED BY <1>3, <1>4, <2>1, <2>3
<1> HIDE DEF v, f
<1>8. (v \in T <=> CalcFunc(f, t, T)) /\ f \in SUBSET SUBSET Bits /\ IsFiniteSet(f)
  BY <1>5, <1>6, <1>7 DEF CallSet
<1> QED BY <1>8 DEF v, f, T

(* So its equation holds in the run.                                       *)
LEMMA DefinitionHolds ==
  ASSUME NEW c, WellFormed(c), Accepted(c), ShiftedFed(c), NEW s \in SUBSET StartBits(c),
         NEW e \in DefsUpTo(c, Total(c))
  PROVE  Holds(e, TrueRun(c, s))
<1>1. PICK t \in 0 .. Total(c) - 1 : e \in DefsAt(c, t)
  BY DEF DefsUpTo
<1>2. PICK x \in CallSet(c, t) : e = generate(c, x.kind, x.which, t)
  BY <1>1 DEF DefsAt
<1> DEFINE T == TrueRun(c, s)
           f == FunctionFor(c, x.kind, x.which, t)
           v == Defined(c, x.kind, x.which, t)
<1>3. (v \in T <=> CalcFunc(f, t, T)) /\ f \in SUBSET SUBSET Bits /\ IsFiniteSet(f)
  BY FunctionRight
<1>4. e.left = VarPoly(v) /\ e.right = PolyFromFunction(t, f)
  BY <1>2 DEF generate
<1> HIDE DEF T, f, v
<1>5. t \in Nat
  BY BitsOf
<1>6. Eval(e.right, T) <=> CalcFunc(f, t, T)
  BY <1>3, <1>4, <1>5, PolyCalc
<1>7. Eval(e.left, T) <=> v \in T
  BY <1>4, EvalSimple
<1>8. Eval(e.left, T) \in BOOLEAN /\ Eval(e.right, T) \in BOOLEAN
  BY DEF Eval, Odd
<1>9. Eval(e.left, T) = Eval(e.right, T)
  BY <1>3, <1>6, <1>7, <1>8
<1> QED BY <1>9 DEF Holds, T

(* And so does that of a known bit that is right.                          *)
LEMMA HelpHolds ==
  ASSUME NEW j \in Jobs, AllRight(j), NEW e \in HelpsOf(j)
  PROVE  Holds(e, TrueRun(j.d, j.start))
<1> DEFINE T == TrueRun(j.d, j.start)
<1>1. /\ j.guess \in [DOMAIN j.guess -> BOOLEAN] /\ j.extra \in [DOMAIN j.extra -> BOOLEAN]
  BY JobsAssumption
<1>2. \E v, b : b \in BOOLEAN /\ (b <=> v \in T) /\ e = HelpEquation(v, b)
  <2>1. ASSUME NEW v \in DOMAIN j.extra, e = HelpEquation(v, j.extra[v])
        PROVE  j.extra[v] \in BOOLEAN /\ (j.extra[v] <=> v \in T)
    BY <1>1 DEF AllRight
  <2>2. ASSUME NEW v \in DOMAIN GivenData(j), e = HelpEquation(v, GivenData(j)[v])
        PROVE  GivenData(j)[v] \in BOOLEAN /\ (GivenData(j)[v] <=> v \in T)
    <3>1. GivenData(j)[v] = IF v \in DOMAIN j.guess THEN j.guess[v] ELSE v \in T
      BY DEF GivenData
    <3>2. CASE v \in DOMAIN j.guess
      <4>1. j.guess[v] = (v \in T) /\ j.guess[v] \in BOOLEAN
        BY <1>1, <3>2 DEF AllRight, GoodGuess
      <4> HIDE DEF T
      <4> QED BY <3>1, <3>2, <4>1
    <3>3. CASE v \notin DOMAIN j.guess
      <4>1. v \in DOMAIN GivenData(j) /\ GivenData(j)[v] = (v \in T)
        BY <3>3 DEF GivenData
      <4> DEFINE b == GivenData(j)[v]
      <4>2. b \in BOOLEAN
        BY <4>1
      <4>3. b <=> v \in T
        BY <4>1
      <4> QED BY <4>2, <4>3
    <3> QED BY <3>2, <3>3
  <2> HIDE DEF T
  <2> QED BY <2>1, <2>2 DEF HelpsOf
<1> HIDE DEF T
<1>3. PICK v, b : b \in BOOLEAN /\ (b <=> v \in T) /\ e = HelpEquation(v, b)
  BY <1>2
<1>4. e.left = VarPoly(v) /\ e.right = Const(b)
  BY <1>3 DEF HelpEquation
<1>5. (Eval(e.left, T) <=> v \in T) /\ (Eval(e.right, T) <=> b)
  BY <1>3, <1>4, EvalSimple
<1>6. Eval(e.left, T) \in BOOLEAN /\ Eval(e.right, T) \in BOOLEAN
  BY DEF Eval, Odd
<1>7. Eval(e.left, T) = Eval(e.right, T)
  BY <1>3, <1>5, <1>6
<1> QED BY <1>7 DEF Holds, T

---------------------------------------------------------------------------
(* The state of the generation.                                            *)

Ran(s) == {s[n] : n \in DOMAIN s}

(* Elements of two sequences together.                                     *)
LEMMA ConcatRan ==
  ASSUME NEW S, NEW s \in Seq(S), NEW r \in Seq(S)
  PROVE  s \o r \in Seq(S) /\ Ran(s \o r) = Ran(s) \cup Ran(r)
<1>1. /\ s \o r \in Seq(S) /\ DOMAIN s = 1 .. Len(s) /\ DOMAIN r = 1 .. Len(r)
      /\ DOMAIN (s \o r) = 1 .. Len(s) + Len(r)
      /\ \A n \in 1 .. Len(s) + Len(r) :
           (s \o r)[n] = IF n <= Len(s) THEN s[n] ELSE r[n - Len(s)]
      /\ Len(s) \in Nat /\ Len(r) \in Nat
  OBVIOUS
<1>2. ASSUME NEW x \in Ran(s \o r) PROVE x \in Ran(s) \cup Ran(r)
  <2>1. PICK n \in 1 .. Len(s) + Len(r) : x = (s \o r)[n]
    BY <1>1 DEF Ran
  <2>2. CASE n <= Len(s)
    <3>1. n \in DOMAIN s /\ x = s[n]
      BY <1>1, <2>1, <2>2
    <3> QED BY <3>1 DEF Ran
  <2>3. CASE ~ (n <= Len(s))
    <3>1. n - Len(s) \in DOMAIN r /\ x = r[n - Len(s)]
      BY <1>1, <2>1, <2>3
    <3> QED BY <3>1 DEF Ran
  <2> QED BY <2>2, <2>3
<1>3. ASSUME NEW x \in Ran(s) PROVE x \in Ran(s \o r)
  <2>1. PICK n \in 1 .. Len(s) : x = s[n]
    BY <1>1 DEF Ran
  <2>2. n \in DOMAIN (s \o r) /\ x = (s \o r)[n]
    BY <1>1, <2>1
  <2> QED BY <2>2 DEF Ran
<1>4. ASSUME NEW x \in Ran(r) PROVE x \in Ran(s \o r)
  <2>1. PICK n \in 1 .. Len(r) : x = r[n]
    BY <1>1 DEF Ran
  <2>2. n + Len(s) \in DOMAIN (s \o r) /\ x = (s \o r)[n + Len(s)]
    BY <1>1, <2>1
  <2> QED BY <2>2 DEF Ran
<1> QED BY <1>1, <1>2, <1>3, <1>4

(* The calls of a clock are one for each register, each filter and, after  *)
(* the initialisation, the output.                                         *)
LEMMA CallsRan ==
  ASSUME NEW c, WellFormed(c), NEW t
  PROVE  Calls(c, t) \in Seq(CallSet(c, t)) /\ Ran(Calls(c, t)) = CallSet(c, t)
<1> DEFINE ns == Cardinality(SRs(c))
           nf == Cardinality(Filters(c))
           A  == [n \in 1 .. ns |-> [kind |-> "sr", which |-> n - 1]]
           B  == [n \in 1 .. nf |-> [kind |-> "filter", which |-> n - 1]]
           O  == [kind |-> "output", which |-> 0]
           C  == IF t < c.init_clock THEN <<>> ELSE <<O>>
           U  == CallSet(c, t)
           UA == {[kind |-> "sr", which |-> i] : i \in SRs(c)}
           UB == {[kind |-> "filter", which |-> i] : i \in Filters(c)}
           UC == IF t < c.init_clock THEN {} ELSE {O}
<1>1. ns \in Nat /\ nf \in Nat
  BY BitsOf
<1>2. SRs(c) = 0 .. ns - 1 /\ Filters(c) = 0 .. nf - 1
  BY DEF WellFormed
<1>3. U = UA \cup UB \cup UC
  BY DEF CallSet
<1>4. Calls(c, t) = (A \o B) \o C
  BY DEF Calls
<1> HIDE DEF ns, nf
<1>5. A \in [1 .. ns -> UA] /\ {A[k] : k \in 1 .. ns} = UA
  <2>1. \A k \in 1 .. ns : k - 1 \in SRs(c) /\ A[k] = [kind |-> "sr", which |-> k - 1]
    BY <1>1, <1>2
  <2>2. \A i \in SRs(c) : i + 1 \in 1 .. ns /\ A[i + 1] = [kind |-> "sr", which |-> i]
    BY <1>1, <1>2
  <2>3. DOMAIN A = 1 .. ns /\ A = [k \in 1 .. ns |-> A[k]]
    OBVIOUS
  <2> HIDE DEF A
  <2> QED BY <2>1, <2>2, <2>3
<1>6. B \in [1 .. nf -> UB] /\ {B[k] : k \in 1 .. nf} = UB
  <2>1. \A k \in 1 .. nf : k - 1 \in Filters(c) /\ B[k] = [kind |-> "filter", which |-> k - 1]
    BY <1>1, <1>2
  <2>2. \A i \in Filters(c) : i + 1 \in 1 .. nf /\ B[i + 1] = [kind |-> "filter", which |-> i]
    BY <1>1, <1>2
  <2>3. DOMAIN B = 1 .. nf /\ B = [k \in 1 .. nf |-> B[k]]
    OBVIOUS
  <2> HIDE DEF B
  <2> QED BY <2>1, <2>2, <2>3
<1>7. C \in Seq(UC) /\ Ran(C) = UC
  <2>1. <<>> \in Seq({}) /\ Ran(<<>>) = {}
    BY DEF Ran
  <2>2. <<O>> \in Seq({O}) /\ Ran(<<O>>) = {O}
    <3>1. <<O>> \in Seq({O}) /\ DOMAIN <<O>> = {1} /\ <<O>>[1] = O
      OBVIOUS
    <3> HIDE DEF O
    <3> QED BY <3>1 DEF Ran
  <2> HIDE DEF O
  <2> QED BY <2>1, <2>2
<1> HIDE DEF A, B, C, UA, UB, UC, U
<1>8. A \in Seq(UA) /\ Ran(A) = UA /\ B \in Seq(UB) /\ Ran(B) = UB
  <2>1. A \in Seq(UA) /\ B \in Seq(UB)
    BY <1>1, <1>5, <1>6, SMTT(20)
  <2>2. DOMAIN A = 1 .. ns /\ DOMAIN B = 1 .. nf
    BY <1>5, <1>6
  <2>3. Ran(A) = {A[k] : k \in 1 .. ns}
    BY <2>2 DEF Ran
  <2>4. Ran(B) = {B[k] : k \in 1 .. nf}
    BY <2>2 DEF Ran
  <2> QED BY <1>5, <1>6, <2>1, <2>3, <2>4
<1>9. A \in Seq(U) /\ B \in Seq(U) /\ C \in Seq(U)
  BY <1>3, <1>7, <1>8
<1> DEFINE D == A \o B
<1>10. D \in Seq(U) /\ Ran(D) = UA \cup UB
  BY <1>8, <1>9, ConcatRan
<1> HIDE DEF D
<1>11. D \o C \in Seq(U) /\ Ran(D \o C) = Ran(D) \cup Ran(C)
  BY <1>9, <1>10, ConcatRan
<1>12. Ran(D \o C) = U
  BY <1>3, <1>7, <1>10, <1>11
<1> QED BY <1>4, <1>11, <1>12 DEF U, D

(* An equation added at the end of a sequence.                             *)
LEMMA AppendRan ==
  ASSUME NEW S, NEW s \in Seq(S), NEW e \in S
  PROVE  Append(s, e) \in Seq(S) /\ Ran(Append(s, e)) = Ran(s) \cup {e}
<1>1. /\ Append(s, e) \in Seq(S) /\ DOMAIN s = 1 .. Len(s) /\ Len(s) \in Nat
      /\ DOMAIN Append(s, e) = 1 .. Len(s) + 1
      /\ \A n \in 1 .. Len(s) : Append(s, e)[n] = s[n]
      /\ Append(s, e)[Len(s) + 1] = e
  OBVIOUS
<1>2. \A n \in 1 .. Len(s) + 1 : n \in 1 .. Len(s) \/ n = Len(s) + 1
  BY <1>1
<1>3. Len(s) + 1 \in 1 .. Len(s) + 1 /\ \A n \in 1 .. Len(s) : n \in 1 .. Len(s) + 1
  BY <1>1
<1>4. ASSUME NEW x \in Ran(Append(s, e)) PROVE x \in Ran(s) \cup {e}
  BY <1>1, <1>2 DEF Ran
<1>5. ASSUME NEW x \in Ran(s) \cup {e} PROVE x \in Ran(Append(s, e))
  BY <1>1, <1>3 DEF Ran
<1> QED BY <1>1, <1>4, <1>5

(* The first call and the rest.                                            *)
LEMMA HeadTailRan ==
  ASSUME NEW S, NEW s \in Seq(S), s # <<>>
  PROVE  Head(s) \in S /\ Tail(s) \in Seq(S) /\ Ran(s) = {Head(s)} \cup Ran(Tail(s))
<1>1. /\ Len(s) \in Nat \ {0} /\ DOMAIN s = 1 .. Len(s) /\ Head(s) = s[1] /\ Tail(s) \in Seq(S)
      /\ DOMAIN Tail(s) = 1 .. Len(s) - 1 /\ \A n \in 1 .. Len(s) - 1 : Tail(s)[n] = s[n + 1]
      /\ Head(s) \in S
  OBVIOUS
<1>2. \A n \in 1 .. Len(s) : n = 1 \/ (n - 1 \in 1 .. Len(s) - 1 /\ (n - 1) + 1 = n)
  BY <1>1
<1>3. 1 \in 1 .. Len(s) /\ \A n \in 1 .. Len(s) - 1 : n + 1 \in 1 .. Len(s)
  BY <1>1
<1>4. ASSUME NEW x \in Ran(s) PROVE x \in {Head(s)} \cup Ran(Tail(s))
  <2>1. PICK n \in 1 .. Len(s) : x = s[n]
    BY <1>1 DEF Ran
  <2>2. CASE n = 1
    BY <1>1, <2>1, <2>2
  <2>3. CASE n # 1
    <3>1. n - 1 \in DOMAIN Tail(s) /\ x = Tail(s)[n - 1]
      BY <1>1, <1>2, <2>1, <2>3
    <3> QED BY <3>1 DEF Ran
  <2> QED BY <2>2, <2>3
<1>5. ASSUME NEW x \in {Head(s)} \cup Ran(Tail(s)) PROVE x \in Ran(s)
  <2>1. CASE x = Head(s)
    BY <1>1, <1>3, <2>1 DEF Ran
  <2>2. CASE x \in Ran(Tail(s))
    <3>1. PICK n \in 1 .. Len(s) - 1 : x = Tail(s)[n]
      BY <1>1, <2>2 DEF Ran
    <3>2. n + 1 \in DOMAIN s /\ x = s[n + 1]
      BY <1>1, <1>3, <3>1
    <3> QED BY <3>2 DEF Ran
  <2> QED BY <2>1, <2>2
<1> QED BY <1>1, <1>4, <1>5

---------------------------------------------------------------------------
(* The bits that the definitions of a cipher define.                       *)

(* The three kinds of calls.                                               *)
LEMMA CallKinds ==
  ASSUME NEW c, NEW t, NEW x \in CallSet(c, t)
  PROVE  /\ x = [kind |-> x.kind, which |-> x.which]
         /\ \/ x.kind = "sr" /\ x.which \in SRs(c)
            \/ x.kind = "filter" /\ x.which \in Filters(c)
            \/ x.kind = "output" /\ x.which = 0 /\ ~ (t < c.init_clock)
<1>1. CASE \E i \in SRs(c) : x = [kind |-> "sr", which |-> i]
  BY <1>1
<1>2. CASE \E i \in Filters(c) : x = [kind |-> "filter", which |-> i]
  BY <1>2
<1>3. CASE ~ (t < c.init_clock) /\ x = [kind |-> "output", which |-> 0]
  BY <1>3
<1> QED BY <1>1, <1>2, <1>3 DEF CallSet

(* The parts of the bit that a call defines.                               *)
LEMMA DefinedParts ==
  ASSUME NEW c, NEW t, NEW x \in CallSet(c, t)
  PROVE  LET v == Defined(c, x.kind, x.which, t) IN
         /\ v[2] = x.which
         /\ x.kind = "sr" =>
              /\ v[1] = "sr"
              /\ v[3] = IF Shifted(c, x.which, t) THEN t ELSE c.sr_size[x.which] + t
         /\ x.kind = "filter" => v[1] = "f" /\ v[3] = t
         /\ x.kind = "output" => v[1] = "out" /\ v[3] = t - c.init_clock
<1> DEFINE v == Defined(c, x.kind, x.which, t)
           m == IF Shifted(c, x.which, t) THEN t ELSE c.sr_size[x.which] + t
<1>1. CASE x.kind = "sr"
  <2>1. v = <<"sr", x.which, m>>
    BY <1>1 DEF Defined
  <2> HIDE DEF v, m
  <2>2. v[1] = "sr" /\ v[2] = x.which /\ v[3] = m
    BY <2>1
  <2> QED BY <1>1, <2>2 DEF v, m
<1>2. CASE x.kind = "filter"
  <2>1. v = <<"f", x.which, t>>
    BY <1>2 DEF Defined
  <2> HIDE DEF v
  <2> QED BY <1>2, <2>1 DEF v
<1>3. CASE x.kind = "output"
  <2>1. v = <<"out", x.which, t - c.init_clock>>
    BY <1>3 DEF Defined
  <2> HIDE DEF v
  <2> QED BY <1>3, <2>1 DEF v
<1> QED BY <1>1, <1>2, <1>3, CallKinds

(* Two calls that define the same bit are the same call in the same clock: *)
(* what a shifted register defines before its shift are its oldest bits,   *)
(* after it its new ones, and no new one is below the shift.               *)
LEMMA DefinedInjective ==
  ASSUME NEW c, WellFormed(c), NEW t \in 0 .. Total(c) - 1, NEW u \in 0 .. Total(c) - 1,
         NEW x \in CallSet(c, t), NEW y \in CallSet(c, u),
         Defined(c, x.kind, x.which, t) = Defined(c, y.kind, y.which, u)
  PROVE  x = y /\ t = u
<1> DEFINE v == Defined(c, x.kind, x.which, t)
<1>1. t \in Nat /\ u \in Nat /\ c.init_clock \in Nat
  <2>1. c.init_clock \in Nat
    BY DEF WellFormed
  <2> QED BY <2>1, BitsOf
<1>2. /\ v[2] = x.which
      /\ x.kind = "sr" =>
           /\ v[1] = "sr"
           /\ v[3] = IF Shifted(c, x.which, t) THEN t ELSE c.sr_size[x.which] + t
      /\ x.kind = "filter" => v[1] = "f" /\ v[3] = t
      /\ x.kind = "output" => v[1] = "out" /\ v[3] = t - c.init_clock
  BY DefinedParts
<1>3. /\ v[2] = y.which
      /\ y.kind = "sr" =>
           /\ v[1] = "sr"
           /\ v[3] = IF Shifted(c, y.which, u) THEN u ELSE c.sr_size[y.which] + u
      /\ y.kind = "filter" => v[1] = "f" /\ v[3] = u
      /\ y.kind = "output" => v[1] = "out" /\ v[3] = u - c.init_clock
  BY DefinedParts
<1> HIDE DEF v
<1>4. x.kind = y.kind /\ x.which = y.which
  BY <1>2, <1>3, CallKinds
<1>5. x = y
  BY <1>4, CallKinds
<1>6. CASE x.kind = "sr" /\ x.which \in SRs(c)
  <2>1. c.sr_size[x.which] \in Nat /\ c.shift[x.which] \in Nat
    BY <1>6, BitsOf
  <2>2. (IF Shifted(c, x.which, t) THEN t ELSE c.sr_size[x.which] + t)
          = (IF Shifted(c, x.which, u) THEN u ELSE c.sr_size[x.which] + u)
    BY <1>2, <1>3, <1>4, <1>6
  <2>3. t = u
    BY <1>1, <2>1, <2>2 DEF Shifted
  <2> QED BY <1>5, <2>3
<1>7. CASE x.kind = "filter"
  BY <1>2, <1>3, <1>4, <1>5, <1>7
<1>8. CASE x.kind = "output"
  <2>1. t - c.init_clock = u - c.init_clock
    BY <1>2, <1>3, <1>4, <1>8
  <2> QED BY <1>1, <1>5, <2>1
<1> QED BY <1>6, <1>7, <1>8, CallKinds

(* What a definition has on its left.                                      *)
LEMMA DefinitionLeft ==
  ASSUME NEW c, NEW t, NEW x \in CallSet(c, t)
  PROVE  LET e == generate(c, x.kind, x.which, t)
             v == Defined(c, x.kind, x.which, t)
         IN  e.left = VarPoly(v) /\ DefinedVar(e) = v /\ ~ IsHelp(e)
<1> DEFINE e == generate(c, x.kind, x.which, t)
           v == Defined(c, x.kind, x.which, t)
<1>1. e.left = VarPoly(v) /\ e.type.kind = x.kind
  BY DEF generate
<1> HIDE DEF e, v
<1>2. x.kind # "help"
  BY CallKinds
<1>3. AllVars(VarPoly(v)) = {v} /\ Monos(VarPoly(v)) = {{v}}
  BY DEF AllVars, Monos, VarPoly
<1>4. SingleVar(VarPoly(v)) = v
  BY <1>3 DEF SingleVar
<1> QED BY <1>1, <1>2, <1>4 DEF DefinedVar, IsHelp, e, v

(* Each call defines a bit of the cipher that is not a reference bit.      *)
LEMMA DefinedWhere ==
  ASSUME NEW c, WellFormed(c), NEW t \in 0 .. Total(c) - 1, NEW x \in CallSet(c, t)
  PROVE  Defined(c, x.kind, x.which, t) \in VarsOf(c) \ BaseBits(c)
<1>1. t \in Nat /\ c.init_clock \in Nat /\ c.outputs \in Nat /\ Total(c) = c.init_clock + c.outputs
      /\ t < c.init_clock + c.outputs
  BY BitsOf DEF WellFormed, Total
<1>2. CASE x.kind = "sr" /\ x.which \in SRs(c)
  <2> DEFINE i == x.which
             m == IF Shifted(c, i, t) THEN t ELSE c.sr_size[i] + t
  <2>1. Defined(c, x.kind, i, t) = <<"sr", i, m>>
    BY <1>2 DEF Defined
  <2>2. c.sr_size[i] \in Nat /\ c.shift[i] \in Nat
    BY <1>2, BitsOf
  <2>3. m \in 0 .. c.sr_size[i] + Total(c) - 1
    BY <1>1, <2>2
  <2>4. \A k \in 0 .. c.sr_size[i] - 1 : m # k + c.shift[i]
    BY <1>1, <2>2 DEF Shifted
  <2> HIDE DEF m
  <2>5. <<"sr", i, m>> \in VarsOf(c)
    BY <1>2, <2>3 DEF VarsOf, SrVars
  <2>6. <<"sr", i, m>> \notin BaseBits(c)
    <3>1. SUFFICES ASSUME <<"sr", i, m>> \in BaseBits(c) PROVE FALSE
      OBVIOUS
    <3>2. PICK h \in SRs(c) : <<"sr", i, m>> \in {<<"sr", h, k + c.shift[h]>> : k \in 0 .. c.sr_size[h] - 1}
      BY <3>1 DEF BaseBits
    <3>3. PICK k \in 0 .. c.sr_size[i] - 1 : m = k + c.shift[i]
      BY <3>2
    <3> QED BY <2>4, <3>3
  <2> QED BY <2>1, <2>5, <2>6
<1>3. CASE x.kind = "filter" /\ x.which \in Filters(c)
  <2>1. Defined(c, x.kind, x.which, t) = <<"f", x.which, t>>
    BY <1>3 DEF Defined
  <2> QED BY <1>3, <2>1 DEF VarsOf, FilterVars, BaseBits
<1>4. CASE x.kind = "output" /\ x.which = 0 /\ ~ (t < c.init_clock)
  <2>1. Defined(c, x.kind, x.which, t) = <<"out", 0, t - c.init_clock>>
    BY <1>4 DEF Defined
  <2>2. t - c.init_clock \in 0 .. c.outputs - 1
    BY <1>1, <1>4
  <2> QED BY <2>1, <2>2 DEF VarsOf, OutVars, BaseBits
<1> QED BY <1>2, <1>3, <1>4, CallKinds

(* Each such bit is defined by a call: a shift leaves no other gap, because *)
(* it is smaller than the number of clocks.                                *)
LEMMA DefinedSomewhere ==
  ASSUME NEW c, WellFormed(c), Accepted(c), NEW v \in VarsOf(c) \ BaseBits(c)
  PROVE  \E t \in 0 .. Total(c) - 1 : \E x \in CallSet(c, t) :
            v = Defined(c, x.kind, x.which, t)
<1>1. /\ c.init_clock \in Nat /\ c.outputs \in Nat /\ Total(c) = c.init_clock + c.outputs
  BY DEF WellFormed, Total
<1>2. CASE v \in SrVars(c)
  <2>1. PICK i \in SRs(c) : v \in {<<"sr", i, k>> : k \in 0 .. c.sr_size[i] + Total(c) - 1}
    BY <1>2 DEF SrVars
  <2>2. PICK k \in 0 .. c.sr_size[i] + Total(c) - 1 : v = <<"sr", i, k>>
    BY <2>1
  <2>3. c.sr_size[i] \in Nat /\ c.shift[i] \in Nat /\ c.shift[i] < Total(c)
    BY BitsOf DEF Accepted, ShiftsAllowed
  <2>4. ~ (c.shift[i] <= k /\ k <= c.shift[i] + c.sr_size[i] - 1)
    <3>1. SUFFICES ASSUME c.shift[i] <= k, k <= c.shift[i] + c.sr_size[i] - 1 PROVE FALSE
      OBVIOUS
    <3>2. k - c.shift[i] \in 0 .. c.sr_size[i] - 1 /\ (k - c.shift[i]) + c.shift[i] = k
      BY <2>2, <2>3, <3>1
    <3>3. v \in {<<"sr", i, m + c.shift[i]>> : m \in 0 .. c.sr_size[i] - 1}
      BY <2>2, <3>2
    <3>4. v \in BaseBits(c)
      BY <3>3 DEF BaseBits
    <3> QED BY <3>4
  <2> DEFINE t == IF k < c.shift[i] THEN k ELSE k - c.sr_size[i]
             x == [kind |-> "sr", which |-> i]
  <2>5. t \in 0 .. Total(c) - 1 /\ k = IF Shifted(c, i, t) THEN t ELSE c.sr_size[i] + t
    BY <1>1, <2>2, <2>3, <2>4 DEF Shifted
  <2> HIDE DEF t
  <2>6. x \in CallSet(c, t) /\ x.kind = "sr" /\ x.which = i
    BY DEF CallSet
  <2>7. v = Defined(c, x.kind, x.which, t)
    BY <2>2, <2>5, <2>6 DEF Defined
  <2> QED BY <2>5, <2>6, <2>7
<1>3. CASE v \in FilterVars(c)
  <2>1. PICK i \in Filters(c), t \in 0 .. Total(c) - 1 : v = <<"f", i, t>>
    BY <1>3 DEF FilterVars
  <2> DEFINE x == [kind |-> "filter", which |-> i]
  <2>2. x \in CallSet(c, t) /\ x.kind = "filter" /\ x.which = i
    BY DEF CallSet
  <2>3. v = Defined(c, x.kind, x.which, t)
    BY <2>1, <2>2 DEF Defined
  <2> QED BY <2>2, <2>3
<1>4. CASE v \in OutVars(c)
  <2>1. PICK k \in 0 .. c.outputs - 1 : v = <<"out", 0, k>>
    BY <1>4 DEF OutVars
  <2> DEFINE t == k + c.init_clock
             x == [kind |-> "output", which |-> 0]
  <2>2. t \in 0 .. Total(c) - 1 /\ ~ (t < c.init_clock) /\ t - c.init_clock = k
    BY <1>1
  <2> HIDE DEF t
  <2>3. x \in CallSet(c, t) /\ x.kind = "output" /\ x.which = 0
    BY <2>2 DEF CallSet
  <2>4. v = Defined(c, x.kind, x.which, t)
    BY <2>1, <2>2, <2>3 DEF Defined
  <2> QED BY <2>2, <2>3, <2>4
<1> QED BY <1>2, <1>3, <1>4 DEF VarsOf

(* So all definitions together define each bit but the reference bits, and *)
(* each of them once.                                                      *)
LEMMA DefinitionsCover ==
  ASSUME NEW c, WellFormed(c), Accepted(c)
  PROVE  LET D == DefsUpTo(c, Total(c)) IN
         /\ {DefinedVar(e) : e \in D} = VarsOf(c) \ BaseBits(c)
         /\ \A e, f \in D : e.left = f.left => e = f
         /\ \A e \in D : ~ IsHelp(e)
<1> DEFINE D == DefsUpTo(c, Total(c))
           N == 0 .. Total(c) - 1
<1>1. /\ \A e \in D : \E t \in N : \E x \in CallSet(c, t) : e = generate(c, x.kind, x.which, t)
      /\ \A t \in N : \A x \in CallSet(c, t) : generate(c, x.kind, x.which, t) \in D
  BY DEF DefsUpTo, DefsAt
<1> HIDE DEF D
<1>2. ASSUME NEW e \in D PROVE DefinedVar(e) \in VarsOf(c) \ BaseBits(c) /\ ~ IsHelp(e)
  <2>1. PICK t \in N : \E x \in CallSet(c, t) : e = generate(c, x.kind, x.which, t)
    BY <1>1
  <2>2. PICK x \in CallSet(c, t) : e = generate(c, x.kind, x.which, t)
    BY <2>1
  <2>3. DefinedVar(e) = Defined(c, x.kind, x.which, t) /\ ~ IsHelp(e)
    BY <2>2, DefinitionLeft
  <2> QED BY <2>3, DefinedWhere
<1>3. ASSUME NEW v \in VarsOf(c) \ BaseBits(c) PROVE \E e \in D : v = DefinedVar(e)
  <2>1. PICK t \in N : \E x \in CallSet(c, t) : v = Defined(c, x.kind, x.which, t)
    BY DefinedSomewhere
  <2>2. PICK x \in CallSet(c, t) : v = Defined(c, x.kind, x.which, t)
    BY <2>1
  <2>3. generate(c, x.kind, x.which, t) \in D
    BY <1>1
  <2>4. DefinedVar(generate(c, x.kind, x.which, t)) = Defined(c, x.kind, x.which, t)
    BY DefinitionLeft
  <2> QED BY <2>2, <2>3, <2>4
<1>4. ASSUME NEW e \in D, NEW f \in D, e.left = f.left PROVE e = f
  <2>1. PICK t \in N : \E x \in CallSet(c, t) : e = generate(c, x.kind, x.which, t)
    BY <1>1
  <2>2. PICK x \in CallSet(c, t) : e = generate(c, x.kind, x.which, t)
    BY <2>1
  <2>3. PICK u \in N : \E y \in CallSet(c, u) : f = generate(c, y.kind, y.which, u)
    BY <1>1
  <2>4. PICK y \in CallSet(c, u) : f = generate(c, y.kind, y.which, u)
    BY <2>3
  <2>5. e.left = VarPoly(Defined(c, x.kind, x.which, t))
    BY <2>2, DefinitionLeft
  <2>6. f.left = VarPoly(Defined(c, y.kind, y.which, u))
    BY <2>4, DefinitionLeft
  <2>7. Defined(c, x.kind, x.which, t) = Defined(c, y.kind, y.which, u)
    <3>1. \A v, w : VarPoly(v) = VarPoly(w) => v = w
      <4> SUFFICES ASSUME NEW v, NEW w, {{v}} = {{w}} PROVE v = w
        BY DEF VarPoly
      <4>1. {v} = {w}
        OBVIOUS
      <4> QED BY <4>1
    <3> QED BY <1>4, <2>5, <2>6, <3>1
  <2>8. x = y /\ t = u
    BY <2>7, DefinedInjective
  <2> QED BY <2>2, <2>4, <2>8
<1>5. {DefinedVar(e) : e \in D} = VarsOf(c) \ BaseBits(c)
  BY <1>2, <1>3
<1> QED BY <1>2, <1>4, <1>5 DEF D

---------------------------------------------------------------------------
(* The invariant of the generation: the equations are known bits of the    *)
(* job or definitions of its calls; those of the clocks before are there,  *)
(* and of this clock those whose call is not left.                         *)
GenInv ==
  /\ job \in Jobs /\ given \subseteq DOMAIN GivenData(job) /\ time \in 0 .. Total(d)
  /\ todo \in Seq(CallSet(d, time))
  /\ eqHolder \in Seq(HelpsOf(job) \cup DefsUpTo(d, Total(d)))
  /\ \A t \in 0 .. time - 1 : DefsAt(d, t) \subseteq Ran(eqHolder)
  /\ time < Total(d) =>
       \A x \in CallSet(d, time) :
         x \in Ran(todo) \/ generate(d, x.kind, x.which, time) \in Ran(eqHolder)

(* The known bits are bits.                                                *)
LEMMA KnownBits ==
  ASSUME NEW j \in Jobs
  PROVE  /\ WellFormed(j.d) /\ Accepted(j.d) /\ j.start \in SUBSET StartBits(j.d)
         /\ DOMAIN GivenData(j) \in SUBSET Bits /\ DOMAIN j.extra \in SUBSET Bits
<1>1. /\ WellFormed(j.d) /\ Accepted(j.d) /\ j.start \in SUBSET StartBits(j.d)
      /\ DOMAIN j.guess \cup DOMAIN j.extra \subseteq VarsOf(j.d)
  BY JobsAssumption
<1>2. VarsOf(j.d) \subseteq Bits /\ FixedBits(j.d) \subseteq Bits
  BY <1>1, BitsOf
<1>3. OutVars(j.d) \subseteq VarsOf(j.d)
  BY DEF VarsOf
<1>4. DOMAIN GivenData(j) = OutVars(j.d) \cup FixedBits(j.d) \cup DOMAIN j.guess
  BY DEF GivenData
<1> QED BY <1>1, <1>2, <1>3, <1>4

(* The invariant holds at first.                                           *)
LEMMA GenInit == Init => GenInv
<1> SUFFICES ASSUME Init PROVE GenInv
  OBVIOUS
<1>1. job \in Jobs /\ given = DOMAIN GivenData(job) /\ time = 0 /\ todo = Calls(d, 0)
      /\ eqHolder = ExtraEquations(job)
  BY DEF Init, d
<1>2. WellFormed(d) /\ DOMAIN job.extra \in SUBSET Bits
  BY <1>1, KnownBits DEF d
<1>3. time \in 0 .. Total(d) /\ 0 .. time - 1 = {}
  BY <1>1, <1>2, BitsOf
<1>4. todo \in Seq(CallSet(d, time)) /\ Ran(todo) = CallSet(d, time)
  BY <1>1, <1>2, CallsRan
<1>5. eqHolder \in Seq(HelpsOf(job) \cup DefsUpTo(d, Total(d)))
  <2>1. CASE DOMAIN job.extra = {}
    BY <1>1, <2>1 DEF ExtraEquations
  <2>2. CASE DOMAIN job.extra # {}
    <3> DEFINE e == First(DOMAIN job.extra)
               q == HelpEquation(e, job.extra[e])
    <3>1. e \in DOMAIN job.extra
      BY <1>2, <2>2, FirstIn
    <3>2. eqHolder = <<q>>
      BY <1>1, <2>2 DEF ExtraEquations
    <3>3. q \in HelpsOf(job)
      BY <3>1 DEF HelpsOf
    <3> HIDE DEF q
    <3> QED BY <3>2, <3>3
  <2> QED BY <2>1, <2>2
<1> QED BY <1>1, <1>3, <1>4, <1>5 DEF GenInv

(* And every step keeps it.                                                *)
LEMMA GenStep == GenInv /\ [Next]_vars => GenInv'
<1> SUFFICES ASSUME GenInv, [Next]_vars PROVE GenInv'
  OBVIOUS
<1> DEFINE E == HelpsOf(job) \cup DefsUpTo(d, Total(d))
<1>1. /\ job \in Jobs /\ given \subseteq DOMAIN GivenData(job) /\ time \in 0 .. Total(d)
      /\ todo \in Seq(CallSet(d, time)) /\ eqHolder \in Seq(E)
      /\ \A t \in 0 .. time - 1 : DefsAt(d, t) \subseteq Ran(eqHolder)
      /\ time < Total(d) =>
           \A x \in CallSet(d, time) :
             x \in Ran(todo) \/ generate(d, x.kind, x.which, time) \in Ran(eqHolder)
  BY DEF GenInv
<1>2. WellFormed(d) /\ DOMAIN GivenData(job) \in SUBSET Bits /\ Total(d) \in Nat
  <2>1. WellFormed(d) /\ DOMAIN GivenData(job) \in SUBSET Bits
    BY <1>1, KnownBits DEF d
  <2> QED BY <2>1, BitsOf
<1>3. CASE AddGiven
  <2> DEFINE e == First(given)
             q == HelpEquation(e, GivenData(job)[e])
  <2>1. /\ given # {} /\ given' = given \ {e} /\ eqHolder' = Append(eqHolder, q)
        /\ job' = job /\ time' = time /\ todo' = todo
    BY <1>3 DEF AddGiven
  <2>2. e \in given
    BY <1>1, <1>2, <2>1, FirstIn
  <2>3. q \in E
    BY <1>1, <2>2 DEF HelpsOf
  <2> HIDE DEF q, E
  <2>4. eqHolder' \in Seq(E) /\ Ran(eqHolder') = Ran(eqHolder) \cup {q}
    BY <1>1, <2>1, <2>3, AppendRan
  <2>5. d' = d
    BY <2>1 DEF d
  <2>6. given' \subseteq DOMAIN GivenData(job)
    BY <1>1, <2>1
  <2>7. \A t \in 0 .. time - 1 : DefsAt(d, t) \subseteq Ran(eqHolder')
    BY <1>1, <2>4
  <2>8. time < Total(d) =>
          \A x \in CallSet(d, time) :
            x \in Ran(todo) \/ generate(d, x.kind, x.which, time) \in Ran(eqHolder')
    BY <1>1, <2>4
  <2> QED BY <1>1, <2>1, <2>4, <2>5, <2>6, <2>7, <2>8 DEF GenInv, E
<1>4. CASE Generate
  <2> DEFINE x0 == Head(todo)
             q  == generate(d, x0.kind, x0.which, time)
  <2>1. /\ time < Total(d) /\ todo # <<>> /\ todo' = Tail(todo) /\ eqHolder' = Append(eqHolder, q)
        /\ job' = job /\ time' = time /\ given' = given
    BY <1>4 DEF Generate
  <2>2. x0 \in CallSet(d, time) /\ Tail(todo) \in Seq(CallSet(d, time))
        /\ Ran(todo) = {x0} \cup Ran(Tail(todo))
    BY <1>1, <2>1, HeadTailRan
  <2> HIDE DEF x0
  <2>3. q \in E
    <3>1. time \in 0 .. Total(d) - 1
      BY <1>1, <1>2, <2>1
    <3> QED BY <2>2, <3>1 DEF DefsUpTo, DefsAt
  <2> HIDE DEF E
  <2>4. eqHolder' \in Seq(E) /\ Ran(eqHolder') = Ran(eqHolder) \cup {q}
    <3> HIDE DEF q
    <3> QED BY <1>1, <2>1, <2>3, AppendRan
  <2>5. d' = d
    BY <2>1 DEF d
  <2>6. \A t \in 0 .. time - 1 : DefsAt(d, t) \subseteq Ran(eqHolder')
    BY <1>1, <2>4
  <2>7. \A x \in CallSet(d, time) :
          x \in Ran(todo') \/ generate(d, x.kind, x.which, time) \in Ran(eqHolder')
    BY <1>1, <2>1, <2>2, <2>4
  <2> QED BY <1>1, <2>1, <2>2, <2>4, <2>5, <2>6, <2>7 DEF GenInv, E
<1>5. CASE Clock
  <2>1. /\ time < Total(d) /\ todo = <<>> /\ time' = time + 1
        /\ todo' = (IF time' < Total(d) THEN Calls(d, time') ELSE <<>>)
        /\ job' = job /\ given' = given /\ eqHolder' = eqHolder
    BY <1>5 DEF Clock
  <2>2. d' = d
    BY <2>1 DEF d
  <2>3. time' \in 0 .. Total(d)
    BY <1>1, <1>2, <2>1
  <2>4. /\ Calls(d, time') \in Seq(CallSet(d, time'))
        /\ Ran(Calls(d, time')) = CallSet(d, time')
    BY <1>2, CallsRan
  <2>5. todo' \in Seq(CallSet(d, time'))
    <3>1. <<>> \in Seq(CallSet(d, time'))
      OBVIOUS
    <3>2. CASE time' < Total(d)
      BY <2>1, <2>4, <3>2
    <3>3. CASE ~ (time' < Total(d))
      BY <2>1, <3>1, <3>3
    <3> QED BY <3>2, <3>3
  <2>6. time' < Total(d) => \A x \in CallSet(d, time') : x \in Ran(todo')
    BY <2>1, <2>4
  <2>7. DefsAt(d, time) \subseteq Ran(eqHolder)
    <3>1. Ran(todo) = {}
      BY <2>1 DEF Ran
    <3> QED BY <1>1, <2>1, <3>1 DEF DefsAt
  <2>8. \A t \in 0 .. time' - 1 : DefsAt(d, t) \subseteq Ran(eqHolder)
    <3> SUFFICES ASSUME NEW t \in 0 .. time' - 1 PROVE DefsAt(d, t) \subseteq Ran(eqHolder)
      OBVIOUS
    <3>1. t = time \/ t \in 0 .. time - 1
      BY <1>1, <2>1
    <3> QED BY <1>1, <2>7, <3>1
  <2> QED BY <1>1, <2>1, <2>2, <2>3, <2>5, <2>6, <2>8 DEF GenInv, E
<1>6. CASE UNCHANGED vars
  <2>1. job' = job /\ given' = given /\ time' = time /\ todo' = todo /\ eqHolder' = eqHolder /\ d' = d
    BY <1>6 DEF vars, d
  <2> QED BY <1>1, <2>1 DEF GenInv, E
<1> QED BY <1>3, <1>4, <1>5, <1>6 DEF Next

(* Whatever the job, the generation keeps its invariant.                   *)
THEOREM GenInvAlways == Spec => []GenInv
<1> QED BY GenInit, GenStep, PTL DEF Spec

(* Every equation holds in the run that the program simulated, known bits  *)
(* included when they are right, for every cipher that the program accepts *)
(* and whose shifted registers are fed by some bit, and for every shift.   *)
THEOREM EquationsAlwaysTrue ==
  ASSUME \A j \in Jobs : ShiftedFed(j.d)
  PROVE  Spec => []EquationsTrue
<1>1. GenInv => EquationsTrue
  <2> SUFFICES ASSUME GenInv, NEW n \in DOMAIN eqHolder,
                      ~ IsHelp(eqHolder[n]) \/ AllRight(job)
               PROVE  Holds(eqHolder[n], TrueRun(d, job.start))
    BY DEF EquationsTrue
  <2> DEFINE e == eqHolder[n]
             E == HelpsOf(job) \cup DefsUpTo(d, Total(d))
  <2>1. job \in Jobs /\ e \in E
    <3>1. job \in Jobs /\ eqHolder \in Seq(E)
      BY DEF GenInv
    <3> HIDE DEF E
    <3> QED BY <3>1
  <2>2. WellFormed(d) /\ Accepted(d) /\ job.start \in SUBSET StartBits(d) /\ ShiftedFed(d)
    BY <2>1, KnownBits DEF d
  <2>3. CASE e \in DefsUpTo(d, Total(d))
    BY <2>2, <2>3, DefinitionHolds
  <2>4. CASE e \in HelpsOf(job)
    <3>1. IsHelp(e)
      BY <2>4 DEF HelpsOf, HelpEquation, IsHelp
    <3>2. AllRight(job)
      BY <3>1
    <3> QED BY <2>1, <2>4, <3>2, HelpHolds DEF d
  <2> QED BY <2>1, <2>3, <2>4
<1> QED BY <1>1, GenInvAlways, PTL

(* When the generation is done, each bit of the cipher but the reference   *)
(* bits has one definition, whatever the shifts.                           *)
THEOREM BitsAlwaysDefinedOnce == Spec => []EveryBitDefinedOnce
<1>1. GenInv => EveryBitDefinedOnce
  <2> SUFFICES ASSUME GenInv, Done
               PROVE  /\ {DefinedVar(e) : e \in Defs} = VarsOf(d) \ BaseBits(d)
                      /\ \A e, f \in Defs : e.left = f.left => e = f
    BY DEF EveryBitDefinedOnce
  <2> DEFINE D == DefsUpTo(d, Total(d))
  <2>1. /\ job \in Jobs /\ time = Total(d) /\ eqHolder \in Seq(HelpsOf(job) \cup D)
        /\ \A t \in 0 .. Total(d) - 1 : DefsAt(d, t) \subseteq Ran(eqHolder)
    BY DEF GenInv, Done
  <2>2. WellFormed(d) /\ Accepted(d)
    BY <2>1, KnownBits DEF d
  <2>3. D \subseteq Ran(eqHolder)
    BY <2>1 DEF DefsUpTo
  <2>4. /\ {DefinedVar(e) : e \in D} = VarsOf(d) \ BaseBits(d)
        /\ \A e, f \in D : e.left = f.left => e = f
        /\ \A e \in D : ~ IsHelp(e)
    BY <2>2, DefinitionsCover
  <2> HIDE DEF D
  <2>5. Ran(eqHolder) \subseteq HelpsOf(job) \cup D
    BY <2>1 DEF Ran
  <2>6. \A e \in HelpsOf(job) : IsHelp(e)
    BY DEF HelpsOf, HelpEquation, IsHelp
  <2>7. Defs = {e \in Ran(eqHolder) : ~ IsHelp(e)}
    BY DEF Defs, Ran
  <2>8. Defs = D
    BY <2>3, <2>4, <2>5, <2>6, <2>7
  <2> QED BY <2>4, <2>8
<1> QED BY <1>1, GenInvAlways, PTL
=============================================================================
