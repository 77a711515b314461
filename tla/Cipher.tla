------------------------------ MODULE Cipher ------------------------------
(***************************************************************************)
(* The stream cipher itself: its description (generator/cipherdesc.h,      *)
(* data_holder.cpp) and its simulation (generator/cipher.cpp).             *)
(*                                                                         *)
(* A bit of the cipher over time is the array element that stands for it:  *)
(* <<"sr", i, k>> is bit k of shift register i, <<"f", i, t>> filter i at  *)
(* time t, <<"out", 0, t>> output bit t.  A FunctionData is the set of its *)
(* lines, each the set of the elements it multiplies; {} is the line "x",  *)
(* the inversion.                                                          *)
(*                                                                         *)
(* A description is a record: sr_size, feedback, feedback_init, shift,     *)
(* one_out, zero_out, tweakable are functions on the register numbers      *)
(* 0..n-1, filter one on the filter numbers; output is a function of the   *)
(* cipher; init_clock and outputs are counts; lin_init and lin_norm are    *)
(* the sequences of the linearizable registers.                            *)
(***************************************************************************)
EXTENDS Integers, FiniteSets, FiniteSetsExt

SRs(d)     == DOMAIN d.sr_size
Filters(d) == DOMAIN d.filter
Total(d)   == d.init_clock + d.outputs

(* The arrays set_name reserves. *)
SrVars(d)     == UNION {{<<"sr", i, k>> : k \in 0 .. d.sr_size[i] + Total(d) - 1} : i \in SRs(d)}
FilterVars(d) == {<<"f", i, t>> : i \in Filters(d), t \in 0 .. Total(d) - 1}
OutVars(d)    == {<<"out", 0, t>> : t \in 0 .. d.outputs - 1}
VarsOf(d)     == SrVars(d) \cup FilterVars(d) \cup OutVars(d)

(* The bits of the registers at time 0, and the ones at the chosen shift:  *)
(* the "real unknowns" of the problem.                                     *)
StartBits(d) == UNION {{<<"sr", i, k>> : k \in 0 .. d.sr_size[i] - 1} : i \in SRs(d)}
BaseBits(d)  == UNION {{<<"sr", i, k + d.shift[i]>> : k \in 0 .. d.sr_size[i] - 1} : i \in SRs(d)}

(* Bits the configuration fixes at time 0 (used when init_clock > 0). *)
FixedBits(d) == IF d.init_clock = 0 THEN {}
                ELSE UNION {{<<"sr", i, k>> : k \in d.one_out[i] \cup d.zero_out[i] \cup d.tweakable[i]}
                              : i \in SRs(d)}
PossibleStart(d, s) ==
  d.init_clock > 0 => \A i \in SRs(d) : /\ \A k \in d.one_out[i]  : <<"sr", i, k>> \in s
                                        /\ \A k \in d.zero_out[i] : <<"sr", i, k>> \notin s

At(e, time) == <<e[1], e[2], e[3] + time>>

(***************************************************************************)
(* A description the simulation gets through with: the registers and the   *)
(* filters are numbered, the fixed bits are numbers (zero_out is not       *)
(* checked any further), and a function reads bits that are there at the   *)
(* start of its clock, a filter the filters before it.  The assertions of  *)
(* Cipher::calc_func allow one bit more: a feedback may read the bit that  *)
(* a register before it has just got (k = sr_size), and so may an output.  *)
(***************************************************************************)
FilterBits(n) == {<<"f", i, 0>> : i \in 0 .. n - 1}
Functions(B)  == SUBSET SUBSET B
WellFormed(d) ==
  LET n    == Cardinality(Filters(d))
      bits == StartBits(d) \cup FilterBits(n)
  IN
  /\ IsFiniteSet(SRs(d)) /\ SRs(d) = 0 .. Cardinality(SRs(d)) - 1
  /\ IsFiniteSet(Filters(d)) /\ Filters(d) = 0 .. n - 1
  /\ d.init_clock \in Nat /\ d.outputs \in Nat
  /\ d.sr_size \in [SRs(d) -> Nat] /\ d.shift \in [SRs(d) -> Nat]
  /\ \A i \in SRs(d) : d.one_out[i] \cup d.zero_out[i] \cup d.tweakable[i] \subseteq Nat
  /\ d.feedback \in [SRs(d) -> Functions(bits)]
  /\ d.feedback_init \in [SRs(d) -> Functions(bits)]
  /\ \A i \in Filters(d) : d.filter[i] \in Functions(StartBits(d) \cup FilterBits(i))
  /\ d.output \in Functions(bits)

(* Cipher::calc_func, over the set T of the bits that are 1. *)
CalcFunc(func, time, T) ==
  Cardinality({term \in func : \A e \in term : At(e, time) \in T}) % 2 = 1

(* One clock: the filters in order (a filter may use lower ones), then the *)
(* feedback of every register.                                             *)
FeedbackOf(d, time) == IF time < d.init_clock THEN d.feedback_init ELSE d.feedback

ClockFilters(d, time, T) ==
  LET F[i \in 0 .. Cardinality(Filters(d))] ==
        IF i = 0 THEN T
        ELSE F[i-1] \cup (IF CalcFunc(d.filter[i-1], time, F[i-1]) THEN {<<"f", i-1, time>>} ELSE {})
  IN  F[Cardinality(Filters(d))]

ClockRegisters(d, time, T) ==
  T \cup {<<"sr", i, d.sr_size[i] + time>> :
            i \in {j \in SRs(d) : CalcFunc(FeedbackOf(d, time)[j], time, T)}}

(* Cipher::calculate_filters_and_states and output_for_input. *)
Simulated(d, s) ==
  LET R[t \in 0 .. Total(d)] ==
        IF t = 0 THEN s ELSE ClockRegisters(d, t-1, ClockFilters(d, t-1, R[t-1]))
  IN  R[Total(d)]

OutputBits(d, T) ==
  {<<"out", 0, t>> : t \in {u \in 0 .. d.outputs - 1 : CalcFunc(d.output, u + d.init_clock, T)}}

TrueRun(d, s) == LET T == Simulated(d, s) IN T \cup OutputBits(d, T)

---------------------------------------------------------------------------
(***************************************************************************)
(* FuncDataHolder::calculate_sr_feedback_reversed_s: in the feedback of    *)
(* register i, the lone oldest bit of a register j (i itself if it is      *)
(* there) changes places with the new bit of i; what results computes the  *)
(* oldest bit of j.                                                        *)
(***************************************************************************)
HasTerms(f) == f \ {{}} # {}
Changeable(f) == {j \in {e[2] : e \in UNION f} : {<<"sr", j, 0>>} \in f}

(* Bugs: the size of the wrong register; the exchange left out. *)
MutExchangedSize(d, f, i, j) ==
  (f \ {{<<"sr", j, 0>>}}) \cup {{<<"sr", i, d.sr_size[j]>>}}
MutExchangedNot(d, f, i, j) == f
Exchanged(d, f, i, j) ==
  (f \ {{<<"sr", j, 0>>}}) \cup {{<<"sr", i, d.sr_size[i]>>}}

AssignTo(f, i) == IF i \in Changeable(f) THEN i ELSE Min(Changeable(f))

Crossed(d, fb) == \E i \in SRs(d) : HasTerms(fb[i]) /\ AssignTo(fb[i], i) # i

(* The constructor throws if some feedback has no lone oldest bit or two   *)
(* give the reverse of the same register.                                  *)
Reversible(d, fb) ==
  /\ \A i \in SRs(d) : HasTerms(fb[i]) => Changeable(fb[i]) # {}
  /\ \A i, j \in {k \in SRs(d) : HasTerms(fb[k])} :
       i # j => AssignTo(fb[i], i) # AssignTo(fb[j], j)

Reversed(d, fb) ==
  [j \in SRs(d) |->
     LET from == {i \in SRs(d) : HasTerms(fb[i]) /\ AssignTo(fb[i], i) = j} IN
     IF from = {} THEN fb[j]
     ELSE LET i == CHOOSE k \in from : TRUE IN Exchanged(d, fb[i], i, j)]

(* reload_best_bits: in mixed mode all shifts must be the same. set_shift: *)
(* a shift is smaller than the number of clocks, and a register that can   *)
(* be tweaked is not shifted.                                              *)
MixedShifts(d) == Crossed(d, d.feedback) \/ (d.init_clock > 0 /\ Crossed(d, d.feedback_init))
ShiftsAllowed(d) ==
  /\ MixedShifts(d) => \A i, j \in SRs(d) : d.shift[i] = d.shift[j]
  /\ \A i \in SRs(d) : /\ d.shift[i] < Total(d)
                       /\ d.init_clock > 0 /\ d.tweakable[i] # {} => d.shift[i] = 0

(* In mixed mode it is asserted that every register has got a reverse with *)
(* a term in it; no two get one for the same register, so all have one.    *)
AllReversed(d, fb) == \A i \in SRs(d) : HasTerms(fb[i])

(* The descriptions the program gets through with.  Either feedback can    *)
(* set the mixed mode, and nothing resets it.                              *)
Accepted(d) ==
  /\ Reversible(d, d.feedback)
  /\ Crossed(d, d.feedback) => AllReversed(d, d.feedback)
  /\ d.init_clock > 0 =>
       /\ Reversible(d, d.feedback_init)
       /\ MixedShifts(d) => AllReversed(d, d.feedback_init)
  /\ ShiftsAllowed(d)
==========================================================================
