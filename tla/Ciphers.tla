----------------------------- MODULE Ciphers -----------------------------
(***************************************************************************)
(* Small ciphers for the model checking runs.  Each has the shape of one   *)
(* of the configurations in build/: a register with its own feedback       *)
(* (hitag2, crypto1), a filter in the feedback (grain), registers that     *)
(* feed each other (bivium, trivium), an initialisation phase (grain).     *)
(***************************************************************************)
EXTENDS Cipher, Sequences

Sr(i, k)   == <<"sr", i, k>>
Fi(i)      == <<"f", i, 0>>
X          == {}                          \* the line "x", the inversion
None       == [i \in {} |-> {}]
PerSr(n, x) == [i \in 0 .. n-1 |-> x]
Of1(x)     == [i \in 0 .. 0 |-> x]
Of2(x, y)  == [i \in 0 .. 1 |-> IF i = 0 THEN x ELSE y]

(* A description with nothing but registers and feedback. *)
Plain(sizes, fb, out, n) ==
  [sr_size |-> sizes, feedback |-> fb, feedback_init |-> fb, filter |-> None,
   output |-> out, init_clock |-> 0, outputs |-> n,
   shift |-> [i \in DOMAIN sizes |-> 0], one_out |-> [i \in DOMAIN sizes |-> {}],
   zero_out |-> [i \in DOMAIN sizes |-> {}], tweakable |-> [i \in DOMAIN sizes |-> {}],
   lin_init |-> <<>>, lin_norm |-> <<>>]
WithShift(c, s) == [c EXCEPT !.shift = s]

(* The bits a guess may give: reload_best_bits and best_bit_test leave out *)
(* those that an initialisation fixes (var_in_impossible_position).        *)
Guessable(c) == BaseBits(c) \ FixedBits(c)

(* One linear register with a nonlinear output. *)
Linear(n) ==
  [Plain(Of1(2), Of1({{Sr(0,0)}, {Sr(0,1)}}), {{Sr(0,0), Sr(0,1)}, {Sr(0,1)}}, n)
     EXCEPT !.lin_norm = <<0>>]

(* A register with a filter in its feedback and its output. *)
Filtered(n) ==
  [Plain(Of1(3), Of1({{Sr(0,0)}, {Fi(0)}}), {{Sr(0,1)}, {Fi(0)}}, n)
     EXCEPT !.filter = Of1({{Sr(0,1), Sr(0,2)}})]

(* Two registers that feed each other, one of them inverted: the reverse   *)
(* of each feedback belongs to the other register.                         *)
Cross(n) ==
  Plain(Of2(2, 1), Of2({{Sr(1,0)}, {Sr(0,1)}}, {{Sr(0,0)}, X}), {{Sr(0,1)}, {Sr(1,0)}}, n)

(* An initialisation phase with the output fed back and fixed bits. *)
Initialised(n) ==
  [Plain(Of1(2), Of1({{Sr(0,0)}, {Sr(0,1)}}), {{Sr(0,0)}, {Sr(0,1)}}, n)
     EXCEPT !.init_clock = 1, !.feedback_init = Of1({{Sr(0,0)}, X}),
            !.lin_norm = <<0>>]

(* A shift register that only rotates: every new bit equals an old one. *)
Rotating(n) ==
  [Plain(Of1(2), Of1({{Sr(0,0)}}), {{Sr(0,0), Sr(0,1)}}, n) EXCEPT !.lin_norm = <<0>>]
RotatingInverted(n) == [Rotating(n) EXCEPT !.feedback = Of1({{Sr(0,0)}, X})]

(* A filter that cancels out of the feedback once it is substituted, and   *)
(* one that renames a bit: facts that only a second round can find.        *)
Chained(n) ==
  [Plain(Of1(2), Of1({{Sr(0,0)}, {Fi(0)}, {Sr(0,0), Sr(0,1)}}), {{Sr(0,0)}, {Fi(1)}}, n)
     EXCEPT !.filter = Of2({{Sr(0,0), Sr(0,1)}}, {{Sr(0,1)}})]

(* A bit fixed to 1 in an initialisation phase. *)
FixedBit(n) ==
  [Plain(Of1(2), Of1({{Sr(0,0)}, {Sr(0,1)}}), {{Sr(0,0), Sr(0,1)}}, n)
     EXCEPT !.init_clock = 2, !.one_out = Of1({0}), !.lin_init = <<0>>, !.lin_norm = <<0>>]

(* Two registers with a feedback of their own that also read each other. *)
Coupled(n) ==
  Plain(Of2(2, 2), Of2({{Sr(0,0)}, {Sr(1,1)}}, {{Sr(1,0)}, {Sr(0,1)}}), {{Sr(0,0)}, {Sr(1,0)}}, n)
==========================================================================
