----------------------------- MODULE OneTest -----------------------------
(***************************************************************************)
(* GrainOfSalt::one_test on the equations of a job: what the equation      *)
(* store is given.  OutputMaker makes the equations; this module adds the  *)
(* ranges of states that linearize_linearizable visits, and the options.   *)
(***************************************************************************)
EXTENDS EquationHolder, OutputMaker

InitRange(c, sr) == [which |-> sr, from |-> 0, to |-> c.init_clock]
(* Bug: the outputs are not counted. *)
MutNormRange(c, sr) == [which |-> sr, from |-> c.init_clock,
                        to |-> c.init_clock + c.sr_size[sr]]
NormRange(c, sr) == [which |-> sr, from |-> c.init_clock,
                     to |-> c.init_clock + c.sr_size[sr] + c.outputs]
Ranges(c) == [k \in DOMAIN c.lin_init |-> InitRange(c, c.lin_init[k])]
             \o [k \in DOMAIN c.lin_norm |-> NormRange(c, c.lin_norm[k])]

ProblemOf(j, propagate, linearize, verbose) ==
  [eqs |-> AllEquations(j), ranges |-> IF linearize THEN Ranges(j.d) ELSE <<>>,
   propagate |-> propagate, verbose |-> verbose,
   base |-> BaseBits(j.d), used |-> VarsOf(j.d), d |-> j.d]

---------------------------------------------------------------------------
(***************************************************************************)
(* A linearized register: its feedback is in terms of one set of reference *)
(* bits of the register itself, no more of them than it has bits           *)
(* (main.cpp:71), in all the clocks for which the register is declared     *)
(* linearizable.  This needs more than such a declaration: the range of    *)
(* equationholder.cpp:145 begins with bits that the initialisation feeds   *)
(* back, so the runs have registers that are linear in it too.             *)
(***************************************************************************)
NormalState(c, sr, k) ==
  k - (IF k < c.shift[sr] THEN 0 ELSE c.sr_size[sr]) >= c.init_clock
Feedbacks(c, sr) == {n \in live : /\ eqs[n].type.kind = "sr" /\ eqs[n].type.which = sr
                                  /\ IsMono(eqs[n]) /\ NormalState(c, sr, eqs[n].type.index)}
Linearized ==
  LET c == problem.d IN
  pc = "convert" /\ problem.ranges # <<>> =>
    \A k \in DOMAIN c.lin_norm :
      LET sr   == c.lin_norm[k]
          bits == UNION {AllVars(eqs[n].right) : n \in Feedbacks(c, sr)}
      IN  /\ Cardinality(bits) <= c.sr_size[sr]
          /\ \A v \in bits : v[1] = "sr" /\ v[2] = sr
==========================================================================
