------------------------------- MODULE Orders -------------------------------
(***************************************************************************)
(* Sorting and selecting, without recursion: the elements of a finite set  *)
(* S listed in a strict total order R, a set of pairs.  The k-th element   *)
(* is the one with k - 1 elements before it.                               *)
(*                                                                         *)
(* The code sorts with qsort, by comparison functions that call two cubes  *)
(* equal only if all their bits are: the order of the result is unique up  *)
(* to equal cubes, which are kept here in the order they came.             *)
(***************************************************************************)
EXTENDS Integers, FiniteSets

Before(S, R, i) == {j \in S : <<j, i>> \in R}

Listing(S, R) ==
  LET before == [i \in S |-> Cardinality(Before(S, R, i))]
  IN [k \in 1 .. Cardinality(S) |-> CHOOSE i \in S : before[i] = k - 1]

(* The elements of a sequence at the positions in I, in their order.       *)
Increasing(I) == {x \in I \X I : x[1] < x[2]}
Keep(A, I) ==
  LET at == Listing(I, Increasing(I)) IN [k \in 1 .. Cardinality(I) |-> A[at[k]]]

(* A strict total order on S.                                              *)
StrictTotalOrder(S, R) ==
  /\ \A i \in S : <<i, i>> \notin R
  /\ \A i, j \in S : i # j => <<i, j>> \in R \/ <<j, i>> \in R
  /\ \A i, j, k \in S : <<i, j>> \in R /\ <<j, k>> \in R => <<i, k>> \in R
=============================================================================
