--------------------------- MODULE MCConversion ---------------------------
(* Small lists of equations, and the options that send them each way. *)
EXTENDS Conversion

MCVar == 0 .. 4

(* The equations x = p and b = p. *)
Def(v, p)  == [left |-> VarPoly(v), right |-> p]
Out(b, p)  == [left |-> Const(b), right |-> p]
SumOf(S)   == {{v} : v \in S}
One        == {{}}

(* Two definitions with the product of 0 and 1, and an output of them.     *)
Products == << Def(3, {{0, 1}, {2}}), Def(4, {{0, 1}} \cup One),
               Out(TRUE, {{0, 2}, {3}, {4}}) >>
(* 0 + 01 + 012 + 12 + 3: two of the monomials go, one into a larger; with *)
(* four variables it is no table.                                          *)
Nested   == << Def(4, {{0}, {0, 1}, {0, 1, 2}, {1, 2}, {3}}), Out(FALSE, {{0, 3}, {3}, {4}}) >>
(* XORs that are cut, two of which begin alike. *)
Sums     == << Def(3, SumOf({0, 1})), Def(4, SumOf({0, 1})), Out(TRUE, SumOf({0, 1, 2})) >>
Long     == << Def(4, SumOf({0, 1, 2, 3}) \cup One), Out(FALSE, {{0, 1}, {2}, {3}, {4}}) >>
(* Constants, a tautology, and no equation at all. *)
Constants == << Out(TRUE, One), Def(3, One), Def(2, SumOf({2})), Out(FALSE, {{0, 1}}) >>
Refuted   == << Def(1, One), Out(TRUE, {}), Def(2, SumOf({0, 1})) >>

(* Two long XORs that begin alike. *)
Alike == << Def(3, SumOf({0, 1, 2})), Def(4, SumOf({0, 1, 2})) >>

Option(karnaugh, cut, xors, noext, permute) ==
  [max_karnaugh_table |-> karnaugh, xor_cut_len |-> cut, use_xor_clauses |-> xors,
   noExtendedMonomial |-> noext, permutateVars |-> permute]

MCProblems == {Products, Nested, Sums, Long, Constants, Refuted, <<>>}
MCSettings == {Option(0, 3, FALSE, FALSE, TRUE), Option(0, 4, FALSE, TRUE, FALSE),
               Option(0, 3, TRUE, FALSE, FALSE), Option(3, 3, FALSE, FALSE, FALSE)}
MCDraws    == {0, 2}

RefutedProblems == {Refuted}
AlikeProblems   == {Alike}
PlainSettings   == {Option(0, 3, FALSE, FALSE, FALSE)}
==========================================================================
