----------------------------- MODULE MCKarnaugh -----------------------------
(***************************************************************************)
(* Every polynomial of three variables that is not an XOR of them or less: *)
(* these, and only these, are handed to the minimizer.                     *)
(***************************************************************************)
EXTENDS Karnaugh

PartSize  == [v \in Vars |-> IF v < num_binary_vars THEN 2 ELSE 1]
FirstPart == [v \in 0 .. num_vars |-> 2 * v - (IF v = num_vars THEN 1 ELSE 0)]

Flip(s, v)     == [s EXCEPT ![v] = 1 - @]
DependsOn(T)   == {v \in 0 .. no_inputs - 1 : \E s \in T : Flip(s, v) \notin T}
simpleXOR(T)   == \A v \in DependsOn(T) : \A s \in Settings : s \in T <=> Flip(s, v) \notin T
MCTables       == {T \in SUBSET Settings : DependsOn(T) = 0 .. no_inputs - 1 /\ ~simpleXOR(T)}

(* The inputs of the minimizer are those that ReadPla makes.               *)
NoInputs == {}
=============================================================================
