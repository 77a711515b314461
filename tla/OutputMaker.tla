--------------------------- MODULE OutputMaker ---------------------------
(***************************************************************************)
(* The equations of one problem, as operators: the known bits              *)
(* (GrainOfSalt::random_test, debug, add_given_data) and the definitions   *)
(* class OutputMaker writes (generator/output_maker.cpp).                  *)
(*                                                                         *)
(* A job is a record: d the description of the cipher, start the set of    *)
(* the bits that are 1 at time 0, guess the guessed bits, a function from  *)
(* elements to BOOLEAN, and extra the bit CalcBestBits adds before, if     *)
(* any, again a function.  The program runs the cipher first               *)
(* (Cipher!TrueRun) and takes the output bits and the tweaked bits from    *)
(* that run; the guesses are right in debug mode, and random otherwise.    *)
(***************************************************************************)
EXTENDS Anf, Cipher, Sequences

(* map<DataElement, bool> given_data: the outputs, the bits that are fixed *)
(* or tweaked, and the guesses, which come last and win.                   *)
GivenData(j) ==
  LET T     == TrueRun(j.d, j.start)
      known == OutVars(j.d) \cup FixedBits(j.d)
  IN  [e \in known \cup DOMAIN j.guess |->
         IF e \in DOMAIN j.guess THEN j.guess[e] ELSE e \in T]

(* debug mode and the good guesses of random_test. *)
GoodGuess(j) ==
  \A e \in DOMAIN j.guess : j.guess[e] = (e \in TrueRun(j.d, j.start))

(* DataElement::operator<, the order of the map. *)
TypeRank(e)  == CASE e[1] = "sr" -> 0 [] e[1] = "f" -> 1 [] e[1] = "out" -> 2
Before(a, b) ==
  \/ TypeRank(a) < TypeRank(b)
  \/ TypeRank(a) = TypeRank(b) /\ a[2] < b[2]
  \/ TypeRank(a) = TypeRank(b) /\ a[2] = b[2] /\ a[3] < b[3]
First(S) == CHOOSE e \in S : \A x \in S \ {e} : Before(e, x)

(* add_given_data. *)
HelpEquation(e, value) ==
  [type |-> [kind |-> "help", which |-> e[2], index |-> -1], left |-> VarPoly(e),
   right |-> Const(value), replaced |-> FALSE]

(* create_poly_from_function *)
PolyFromFunction(t, function) == {{At(e, t) : e \in term} : term \in function}

(***************************************************************************)
(* OutputMaker::generate(time, type).  Before its shift a register gets    *)
(* the reversed feedback, which defines its oldest bit.                    *)
(***************************************************************************)
(* Bug: one clock too long. *)
MutShifted(c, i, t) == t <= c.shift[i]
Shifted(c, i, t)  == t < c.shift[i]
Feedback(c, i, t) ==
  IF Shifted(c, i, t) THEN Reversed(c, FeedbackOf(c, t))[i] ELSE FeedbackOf(c, t)[i]
Defined(c, kind, i, t) ==
  CASE kind = "sr"     -> <<"sr", i, IF Shifted(c, i, t) THEN t ELSE c.sr_size[i] + t>>
    [] kind = "filter" -> <<"f", i, t>>
    [] kind = "output" -> <<"out", i, t - c.init_clock>>
FunctionFor(c, kind, i, t) ==
  CASE kind = "sr"     -> Feedback(c, i, t)
    [] kind = "filter" -> c.filter[i]
    [] kind = "output" -> c.output
generate(c, kind, i, t) ==
  LET var == Defined(c, kind, i, t) IN
  [type |-> [kind |-> kind, which |-> i, index |-> var[3]], left |-> VarPoly(var),
   right |-> PolyFromFunction(t, FunctionFor(c, kind, i, t)), replaced |-> FALSE]

(* The calls of one clock, in the order of the loops. *)
Calls(c, t) ==
  [n \in 1 .. Cardinality(SRs(c)) |-> [kind |-> "sr", which |-> n - 1]]
  \o [n \in 1 .. Cardinality(Filters(c)) |-> [kind |-> "filter", which |-> n - 1]]
  \o (IF t < c.init_clock THEN <<>> ELSE <<[kind |-> "output", which |-> 0]>>)

---------------------------------------------------------------------------
(* All the equations of a job, in order. *)
ExtraEquations(j) ==
  IF DOMAIN j.extra = {} THEN <<>>
  ELSE LET e == First(DOMAIN j.extra) IN <<HelpEquation(e, j.extra[e])>>
GivenEquations(j) ==
  LET F[S \in SUBSET DOMAIN GivenData(j)] ==
        IF S = {} THEN <<>>
        ELSE <<HelpEquation(First(S), GivenData(j)[First(S)])>> \o F[S \ {First(S)}]
  IN  F[DOMAIN GivenData(j)]
Definitions(c) ==
  LET F[t \in 0 .. Total(c)] ==
        IF t = 0 THEN <<>>
        ELSE F[t-1] \o [n \in DOMAIN Calls(c, t-1) |->
               generate(c, Calls(c, t-1)[n].kind, Calls(c, t-1)[n].which, t-1)]
  IN  F[Total(c)]
AllEquations(j) == ExtraEquations(j) \o GivenEquations(j) \o Definitions(j.d)
==========================================================================
