------------------------------ MODULE Karnaugh ------------------------------
(***************************************************************************)
(* The generator and the minimizer over the arrays they share              *)
(* (generator/equationstosat.cpp: convert_to_karnaugh; espresso/main:      *)
(* minimise_karnaugh and getPLA of main.c, cvrin.c, cvrout.c): one table   *)
(* after the other is written into the arrays, read as a cover, minimized, *)
(* and written back over them.  All that outlives a call are the arrays    *)
(* and the static variable of reduce.c.                                    *)
(***************************************************************************)
EXTENDS Espresso

CONSTANTS karn_size,  \* the rows of the arrays: 2^max_karnaugh_table
          Tables      \* the points where the polynomials are TRUE

VARIABLES table,          \* the points of the polynomial at hand
          input, outputs, \* the arrays: a value for each input of a row, and for the output
          no_lines        \* the rows of each kind: no_lines[1] with output 1, then 2, then 0

arrays == <<table, input, outputs, no_lines>>
kvars  == <<vars, arrays>>

no_inputs == num_binary_vars
Values    == [0 .. no_inputs - 1 -> 0 .. 2]
Settings  == [0 .. no_inputs - 1 -> 0 .. 1]

(* setting counts from 0: the value of input v is its bit v.               *)
Earlier(s, t) == \E v \in 0 .. no_inputs - 1 :
  s[v] < t[v] /\ \A w \in v + 1 .. no_inputs - 1 : s[w] = t[w]

(* A row that this call has not written holds what earlier ones left.      *)
Lines   == 0 .. karn_size - 1
Left    == <<>>
LeftOut == -1
NoInput == [F |-> <<>>, D |-> <<>>, R |-> <<>>, opt |-> Defaults]

(***************************************************************************)
(* convert_to_karnaugh: a row for each point where the polynomial is TRUE. *)
(***************************************************************************)
convert_to_karnaugh(T) ==
  /\ pc = "idle"
  /\ table' = T
  /\ \E at \in {Listing(T, {x \in T \X T : Earlier(x[1], x[2])})} :
        input' = [r \in Lines |-> IF r < Cardinality(T) THEN at[r + 1] ELSE Left]
  /\ outputs' = [r \in Lines |-> IF r < Cardinality(T) THEN 1 ELSE LeftOut]
  /\ no_lines' = [k \in 0 .. 2 |-> IF k = 1 THEN Cardinality(T) ELSE 0]
  /\ pc' = "called"
  /\ UNCHANGED <<main, costs, expansion, call, F, i>>

(***************************************************************************)
(* read_pla and parse_pla: the rows with output 1 become the ON-set, the   *)
(* OFF-set is what it leaves.  read_cube takes the value 2 for a 1.        *)
(***************************************************************************)
read_cube(row) ==
  {LiteralPart(v, IF row[v] = 0 THEN 0 ELSE 1) : v \in 0 .. no_inputs - 1}
    \cup var_mask[output]

read_pla ==
  LET F0 == [r \in 1 .. no_lines[1] |-> read_cube(input[r - 1])]
  IN [F |-> F0, D |-> <<>>, R |-> complement(cube2list(F0, <<>>)), opt |-> Defaults]

ReadPla ==
  /\ pc = "called"
  /\ IF no_lines[1] = 0 THEN pc' = "exit" /\ in' = in
     ELSE pc' = "begin" /\ \E x \in {read_pla} : in' = x
  /\ unwrap_onset' = Defaults.unwrap_onset
  /\ UNCHANGED <<toggle, E, D, Foriginal, G, costs, expansion, call, F, i, arrays>>

(* espresso and verify.                                                    *)
Minimise == Next /\ UNCHANGED arrays

(***************************************************************************)
(* fprint_pla: the minimized ON-set, the DC-set and the OFF-set over the   *)
(* rows of the arrays, from the first one.  Then everything is freed.      *)
(***************************************************************************)
print_cube(c) ==
  [v \in 0 .. no_inputs - 1 |->
     IF LiteralPart(v, 0) \notin c THEN 1 ELSE IF LiteralPart(v, 1) \notin c THEN 0 ELSE 2]

(* Bug: the rows with output 1 are still counted as before the call. *)
Mutfprint_pla(cubes) ==
  /\ input'  = [r \in Lines |-> IF r < Len(cubes) THEN print_cube(cubes[r + 1]) ELSE input[r]]
  /\ outputs' = [r \in Lines |-> IF r < Len(F) THEN 1 ELSE IF r < Len(cubes) THEN 0 ELSE outputs[r]]
  /\ no_lines' = [no_lines EXCEPT ![0] = Len(in.R)]

fprint_pla(cubes) ==
  /\ input'  = [r \in Lines \cup (0 .. Len(cubes) - 1) |->
                  IF r < Len(cubes) THEN print_cube(cubes[r + 1]) ELSE input[r]]
  /\ outputs' = [r \in Lines \cup (0 .. Len(cubes) - 1) |->
                  IF r < Len(F) THEN 1 ELSE IF r < Len(F) + Len(in.D) THEN 2
                  ELSE IF r < Len(cubes) THEN 0 ELSE outputs[r]]
  /\ no_lines' = [k \in 0 .. 2 |->
                   IF k = 1 THEN Len(F) ELSE IF k = 2 THEN Len(in.D) ELSE Len(in.R)]

Freed ==
  /\ in' = NoInput /\ F' = <<>> /\ E' = <<>> /\ D' = <<>> /\ Foriginal' = <<>> /\ G' = <<>>
  /\ i' = 0 /\ cost' = NoCost /\ best_cost' = NoCost /\ call' = "initial"
  /\ covered' = {} /\ RAISE' = {} /\ FREESET' = {} /\ OVEREXPANDED_CUBE' = {}
  /\ BB' = {} /\ CC' = {} /\ feas' = {} /\ num_covered' = 0

Write ==
  /\ pc = "verified" /\ pc' = "idle"
  /\ fprint_pla(Sets(F) \o in.D \o in.R)
  /\ Freed
  /\ UNCHANGED <<unwrap_onset, toggle, table>>

---------------------------------------------------------------------------
KInit ==
  /\ in = NoInput /\ unwrap_onset = Defaults.unwrap_onset
  /\ toggle = TRUE
  /\ pc = "idle" /\ call = "initial"
  /\ F = <<>> /\ E = <<>> /\ D = <<>> /\ Foriginal = <<>> /\ G = <<>>
  /\ i = 0 /\ cost = NoCost /\ best_cost = NoCost
  /\ covered = {} /\ RAISE = {} /\ FREESET = {} /\ OVEREXPANDED_CUBE = {}
  /\ BB = {} /\ CC = {} /\ feas = {} /\ num_covered = 0
  /\ table = {} /\ input = [r \in Lines |-> Left]
  /\ outputs = [r \in Lines |-> LeftOut] /\ no_lines = [k \in 0 .. 2 |-> 0]

KNext ==
  \/ \E T \in Tables : convert_to_karnaugh(T)
  \/ ReadPla \/ Minimise \/ Write

(* One thread: a call that has begun goes on until it returns or gives up. *)
Stopped == pc \in {"idle", "fatal", "exit"}
KSpec   == KInit /\ [][KNext]_kvars /\ ([]<>Stopped \/ []<><<pc # "idle">>_kvars)

(***************************************************************************)
(* Properties.                                                             *)
(***************************************************************************)

(* The rows that add_karnaugh_table reads after the call: those with       *)
(* output 1 from the first on, those with output 0 right after them (it    *)
(* asserts both outputs, and that no rows with output 2 come between is    *)
(* part of that).                                                          *)
RowsOf(first, count, out) ==
  [k \in 1 .. count |-> IF outputs[first + k - 1] = out THEN input[first + k - 1] ELSE Left]
OnRows  == IF pc = "idle" THEN RowsOf(0, no_lines[1], 1) ELSE <<>>
OffRows == IF pc = "idle" THEN RowsOf(no_lines[1], no_lines[0], 0) ELSE <<>>

(* minimise_karnaugh keeps the promise that Minimizer states, for every    *)
(* table, after any number of other calls: rows that cover the table and   *)
(* rows that cover the rest, as many as fit in the arrays, always answered.*)
Abstract == INSTANCE Minimizer WITH
  asked <- pc # "idle", on <- OnRows, off <- OffRows
MinimizerSpec == Abstract!Spec
=============================================================================
