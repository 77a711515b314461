----------------------------- MODULE Solving -----------------------------
(***************************************************************************)
(* What a user of the generator may rely on between the equations of a     *)
(* problem and its CNF: which states of the cipher fit never changes, and  *)
(* the problem is given up as solved only if no state fits.                *)
(***************************************************************************)
CONSTANT State             \* the fills of the reference bits
VARIABLES fits, verdict    \* the states that satisfy the equations; the end
vars == <<fits, verdict>>

Init == fits \in SUBSET State /\ verdict = "working"

Rewrite == verdict = "working" /\ UNCHANGED vars
Convert == verdict = "working" /\ verdict' = "convert" /\ UNCHANGED fits
GiveUp  == /\ verdict = "working" /\ fits = {}
           /\ verdict' = "solved" /\ UNCHANGED fits

Next == Rewrite \/ Convert \/ GiveUp
Spec == Init /\ [][Next]_vars
==========================================================================
