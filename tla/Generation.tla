---------------------------- MODULE Generation ----------------------------
(***************************************************************************)
(* The generation of a problem (generator/grain-of-salt.cpp, random_test   *)
(* and the first part of one_test): one equation per known bit, then,      *)
(* clock by clock, one per register, one per filter and, after the         *)
(* initialisation, one for the output bit.  An action is one call that     *)
(* adds an equation.                                                       *)
(***************************************************************************)
EXTENDS OutputMaker

CONSTANT Jobs      \* the jobs of OutputMaker

(***************************************************************************)
(* The jobs the program can have: a description it gets through with, a    *)
(* state at time 0, and known bits of the cipher.                          *)
(***************************************************************************)
ASSUME JobsAssumption ==
  \A j \in Jobs :
    /\ WellFormed(j.d) /\ Accepted(j.d) /\ j.start \subseteq StartBits(j.d)
    /\ DOMAIN j.guess \cup DOMAIN j.extra \subseteq VarsOf(j.d)
    /\ j.guess \in [DOMAIN j.guess -> BOOLEAN] /\ j.extra \in [DOMAIN j.extra -> BOOLEAN]

VARIABLES
  job,             \* what is generated
  given,           \* the known bits that have no equation yet
  time,            \* the clock of one_test's loops
  todo,            \* the calls left in this clock, in order
  eqHolder         \* the equations so far
vars == <<job, given, time, todo, eqHolder>>

d == job.d

---------------------------------------------------------------------------
Init ==
  /\ job \in Jobs
  /\ given = DOMAIN GivenData(job)
  /\ time = 0
  /\ todo = Calls(job.d, 0)
  /\ eqHolder = ExtraEquations(job)

AddGiven ==
  /\ given # {}
  /\ LET e == First(given) IN
     /\ given' = given \ {e}
     /\ eqHolder' = Append(eqHolder, HelpEquation(e, GivenData(job)[e]))
  /\ UNCHANGED <<job, time, todo>>

Generate ==
  /\ given = {} /\ time < Total(d) /\ todo # <<>>
  /\ eqHolder' = Append(eqHolder, generate(d, Head(todo).kind, Head(todo).which, time))
  /\ todo' = Tail(todo)
  /\ UNCHANGED <<job, given, time>>

(* Bug: the last clock is left out. *)
MutClock ==
  /\ given = {} /\ time < Total(d) /\ todo = <<>>
  /\ time' = time + 1
  /\ todo' = IF time' < Total(d) - 1 THEN Calls(d, time') ELSE <<>>
  /\ UNCHANGED <<job, given, eqHolder>>

Clock ==
  /\ given = {} /\ time < Total(d) /\ todo = <<>>
  /\ time' = time + 1
  /\ todo' = IF time' < Total(d) THEN Calls(d, time') ELSE <<>>
  /\ UNCHANGED <<job, given, eqHolder>>

Next == AddGiven \/ Generate \/ Clock
Done == time = Total(d)

Spec     == Init /\ [][Next]_vars
FairSpec == Spec /\ WF_vars(Next)       \* a loop of a single thread

---------------------------------------------------------------------------
Holds(e, T)   == Eval(e.left, T) = Eval(e.right, T)
IsHelp(e)     == e.type.kind = "help"
Defs          == {eqHolder[n] : n \in {m \in DOMAIN eqHolder : ~ IsHelp(eqHolder[m])}}
DefinedVar(e) == SingleVar(e.left)

(* What is given agrees with the run: the guesses and the extra bit.       *)
AllRight(j) ==
  GoodGuess(j) /\ \A e \in DOMAIN j.extra : j.extra[e] = (e \in TrueRun(j.d, j.start))

(* A shifted register is fed by some bit.  The program does not check it:  *)
(* the reverse of a feedback that is only "x" is that feedback again, and  *)
(* what it says of the oldest bit is wrong.                                *)
ShiftedFed(c) ==
  \A i \in SRs(c) : \A t \in 0 .. c.shift[i] - 1 : HasTerms(FeedbackOf(c, t)[i])

(***************************************************************************)
(* Every equation holds in the run that the program simulated, the reverse *)
(* feedback of a shifted register included, and so do the known bits when  *)
(* they are guessed right: the CNFs of debug mode are satisfiable          *)
(* (main.cpp:66).                                                          *)
(***************************************************************************)
EquationsTrue ==
  \A n \in DOMAIN eqHolder :
    ~ IsHelp(eqHolder[n]) \/ AllRight(job) => Holds(eqHolder[n], TrueRun(d, job.start))

(***************************************************************************)
(* Once every clock is generated, each bit of the cipher has one           *)
(* definition, except the reference bits, which have none: shifting a      *)
(* register moves the gap and leaves no other.                             *)
(***************************************************************************)
EveryBitDefinedOnce ==
  Done => /\ {DefinedVar(e) : e \in Defs} = VarsOf(d) \ BaseBits(d)
          /\ \A e, f \in Defs : e.left = f.left => e = f

(***************************************************************************)
(* The bits that can be computed from known ones along the definitions.    *)
(***************************************************************************)
OneMore(known) ==
  known \cup {DefinedVar(e) : e \in {x \in Defs : AllVars(x.right) \subseteq known}}
Computable ==
  LET F[n \in 0 .. Cardinality(VarsOf(d))] ==
        IF n = 0 THEN BaseBits(d) ELSE OneMore(F[n-1])
  IN  F[Cardinality(VarsOf(d))]

(* The reference bits determine every other bit: no definition depends on  *)
(* itself, forward or backward in time.                                    *)
Determined == Done => Computable = VarsOf(d)

(* The equations the program promises to generate are generated. *)
GenerationEnds == <>(eqHolder = AllEquations(job))
==========================================================================
