---------------------------- MODULE MCBestBits ----------------------------
(* Two registers of one bit: not shifted or shifted, with or without       *)
(* initialisation, with fixed bits or without.                             *)
EXTENDS BestBits

Of(a, b) == [i \in {0, 1} |-> IF i = 0 THEN a ELSE b]
Description(shift0, shift1, init, fixed0, mixed) ==
  [sr_size |-> Of(1, 1), sr_shift |-> Of(shift0, shift1), fixed |-> Of(fixed0, {}),
   init_clock |-> init, mixed_shifts |-> mixed]

(* The second one has the file of the third, but another fixed bit: the    *)
(* description was edited between two runs.                                *)
MCDescriptions ==
  {Description(0, 0, 0, {0}, FALSE), Description(0, 0, 1, {}, FALSE),
   Description(0, 0, 1, {0}, FALSE), Description(1, 0, 1, {0}, TRUE)}
==========================================================================
