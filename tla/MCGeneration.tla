--------------------------- MODULE MCGeneration --------------------------
(* Jobs for Generation: every start and every shift of some ciphers.      *)
EXTENDS Generation

C == INSTANCE Ciphers

Shifts1(c, max) == {C!WithShift(c, C!Of1(s)) : s \in 0 .. max}
Shifts2(c, max) == {C!WithShift(c, C!Of2(s, t)) : s, t \in 0 .. max}
Fixed(c) == [c EXCEPT !.zero_out = C!Of1({1})]
Tweaked(c) == [c EXCEPT !.tweakable = C!Of1({0})]

SoundCiphers ==
  {c \in Shifts1(C!Linear(2), 1) \cup Shifts1(C!Filtered(2), 1)
         \cup Shifts2(C!Cross(2), 1) \cup Shifts1(C!Initialised(2), 2)
         \cup Shifts1(Fixed(C!Initialised(2)), 2) \cup Shifts1(Tweaked(C!Initialised(2)), 2)
     : Accepted(c)}

NoBit == [e \in {} |-> TRUE]

(* No guess, all bits of B right, or all wrong; the bit that CalcBestBits  *)
(* tries, 1 or 0: one that is not guessed.                                 *)
Guesses(c, s, B) ==
  LET T == TrueRun(c, s) IN {NoBit, [e \in B |-> e \in T], [e \in B |-> e \notin T]}
BestBit(c) == LET e == CHOOSE x \in C!Guessable(c) : TRUE IN {[y \in {e} |-> b] : b \in BOOLEAN}
GuessesOf(c, s) ==
  UNION {Guesses(c, s, C!Guessable(c) \ DOMAIN x) \X {x} : x \in {NoBit} \cup BestBit(c)}

JobsOf(Cs) ==
  UNION {{[d |-> c, start |-> s, guess |-> g[1], extra |-> g[2]] : g \in GuessesOf(c, s)} :
           <<c, s>> \in {x \in Cs \X SUBSET UNION {StartBits(c) : c \in Cs} :
                           x[2] \subseteq StartBits(x[1]) /\ PossibleStart(x[1], x[2])}}
SoundJobs   == JobsOf(SoundCiphers)
AllVarsOf(Cs) == UNION {VarsOf(c) : c \in Cs}
SoundVars   == AllVarsOf(SoundCiphers)

ASSUME AllFed == \A c \in SoundCiphers : ShiftedFed(c)
==========================================================================
