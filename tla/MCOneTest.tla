----------------------------- MODULE MCOneTest -----------------------------
(* Problems for OneTest: the equations of the jobs of a few small ciphers. *)
EXTENDS OneTest

C == INSTANCE Ciphers

MCElementType == [kind : {"sr", "filter", "output", "help"}, which : 0 .. 1, index : -1 .. 9]

NoBit == [e \in {} |-> TRUE]
Job(c, s, g, x) == [d |-> c, start |-> s, guess |-> g, extra |-> x]
Shifts1(c, max) == {C!WithShift(c, C!Of1(s)) : s \in 0 .. max}
Shifts2(c, max) == {C!WithShift(c, C!Of2(s, s)) : s \in 0 .. max}
Starts(c) == {s \in SUBSET StartBits(c) : PossibleStart(c, s)}

(* Every start, and every value of the guessed bits. *)
JobsOf(c, B, x) == {Job(c, s, g, x) : s \in Starts(c), g \in [B -> BOOLEAN]}
AnyBit(c) == {{}} \cup {{e} : e \in C!Guessable(c)} \cup {C!Guessable(c)}
JobsFor(Cs) == UNION {JobsOf(x[1], x[2], NoBit) :
                        x \in {y \in Cs \X UNION {AnyBit(c) : c \in Cs} : y[2] \in AnyBit(y[1])}}

(* The options propagate, linearize and verbose. *)
Options == {<<TRUE, TRUE, FALSE>>, <<TRUE, FALSE, TRUE>>, <<FALSE, TRUE, FALSE>>}
ProblemsFor(Js) == {ProblemOf(j, o[1], o[2], o[3]) : j \in Js, o \in Options}
UsedBy(Ps) == UNION {p.used : p \in Ps}

(* A bit that CalcBestBits tries, with the guesses of random_test; that is *)
(* a bit that is not among them (best_bit_test skips those).               *)
BestBitJobs(c) == UNION {{Job(c, s, g, [e \in {x[1]} |-> v]) :
                            s \in Starts(c), g \in [x[2] -> BOOLEAN], v \in BOOLEAN} :
                         x \in {y \in C!Guessable(c) \X AnyBit(c) : y[1] \notin y[2]}}

(* Known bits and best bits, with and without a second round of facts. *)
PropagateProblems ==
  ProblemsFor(JobsFor(Shifts1(C!Rotating(2), 1))
              \cup BestBitJobs(C!RotatingInverted(2)))
  \cup {ProblemOf(Job(C!Chained(2), s, NoBit, NoBit), TRUE, FALSE, TRUE) :
          s \in SUBSET {C!Sr(0,0)}}
PropagateVars     == UsedBy(PropagateProblems)

(* A register whose later bits are sums of sums; filters, crossed          *)
(* registers and initialisation, shifted or not.                           *)
SomeBit(c) == {{}, {CHOOSE e \in C!Guessable(c) : TRUE}}
ShiftJobs(Cs) == UNION {JobsOf(x[1], x[2], NoBit) :
                        x \in {y \in Cs \X UNION {SomeBit(c) : c \in Cs} : y[2] \in SomeBit(y[1])}}
ShiftProblems ==
  ProblemsFor(JobsFor({C!WithShift(C!Linear(3), C!Of1(s)) : s \in {0, 2}})
              \cup ShiftJobs(Shifts1(C!Filtered(2), 1) \cup Shifts2(C!Cross(2), 1)
                             \cup Shifts1(C!Initialised(2), 1) \cup {C!FixedBit(1)}))
ShiftVars     == UsedBy(ShiftProblems)

(* Both sets together. *)
OneTestProblems == PropagateProblems \cup ShiftProblems
OneTestVars     == UsedBy(OneTestProblems)

ASSUME NoDefinedBitKnown == \A p \in OneTestProblems : DefinedUnknown(p)

(* A fixed bit that the shift has made a defined one. *)
FixedProblems == ProblemsFor(JobsOf(C!WithShift(C!FixedBit(1), C!Of1(2)), {}, NoBit))
FixedVars     == UsedBy(FixedProblems)

SameVarsProblems == ProblemsFor(JobsOf(C!RotatingInverted(2), {}, NoBit))
SameVarsVars     == UsedBy(SameVarsProblems)
==========================================================================
