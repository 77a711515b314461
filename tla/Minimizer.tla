------------------------------ MODULE Minimizer ------------------------------
(***************************************************************************)
(* What EquationsToSat (generator/equationstosat.cpp) expects of           *)
(* minimise_karnaugh: it hands over the points where a polynomial is TRUE  *)
(* and gets back rows that cover exactly these points, and rows that cover *)
(* exactly the others.  A row gives every input a value, 0 or 1, or 2 for  *)
(* any value.  How the rows come about is the affair of Karnaugh.          *)
(***************************************************************************)
EXTENDS Integers, Sequences

CONSTANTS no_inputs,  \* the variables of the polynomial
          karn_size,  \* the rows that the arrays of the caller have
          Tables      \* the sets of points that may be handed over

Settings == [0 .. no_inputs - 1 -> 0 .. 1]
Inputs2  == [0 .. no_inputs - 1 -> 0 .. 2]

VARIABLES asked,   \* a table has been handed over and not yet been answered
          table,   \* the points of the last one
          on, off  \* the rows with output 1 and with output 0
vars == <<asked, table, on, off>>

Matches(row, s)   == \A v \in 0 .. no_inputs - 1 : row[v] \in {2, s[v]}
Covered(rows)     == {s \in Settings : \E r \in DOMAIN rows : Matches(rows[r], s)}

Init == ~asked /\ table = {} /\ on = <<>> /\ off = <<>>

Ask ==
  /\ ~asked /\ asked'
  /\ table' \in Tables
  /\ on' = <<>> /\ off' = <<>>

Answer ==
  /\ asked /\ ~asked'
  /\ table' = table
  /\ on' \in Seq(Inputs2) /\ off' \in Seq(Inputs2)
  /\ Covered(on') = table /\ Covered(off') = Settings \ table
  /\ Len(on') + Len(off') <= karn_size

(* Every table is answered.                                                *)
Answered == asked ~> ~asked

Spec == Init /\ [][Ask \/ Answer]_vars /\ Answered
=============================================================================
