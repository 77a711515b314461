----------------------------- MODULE MCEspresso -----------------------------
(***************************************************************************)
(* Functions of three inputs with two outputs, as the stand-alone          *)
(* program reads them: covers from a list of cubes, with and without don't *)
(* cares, under the options of its command line.                           *)
(***************************************************************************)
EXTENDS Espresso

CONSTANTS BaseCubes,  \* the cubes of which the covers are made
          BaseDC      \* the don't cares

PartSize == [v \in Vars |-> 2]
FirstPart == [v \in 0 .. num_vars |-> 2 * v]

MCBaseCubes == << {0,2,3,4,5,7}, {1,3,4,5,6,7}, {1,2,3,5,6,7}, {0,2,4,6,7}, {1,3,5,6,7}, {0,3,5,6} >>
MCBaseDC    == { <<>>, <<{0,1,2,3,4,6}>>, <<{0,2,3,4,5,6,7}, {0,1,2,4,5,6,7}, {0,1,2,3,5,6,7}>>,
                 <<{0,2,5,6,7}, {0,3,4,6,7}, {1,2,4,6,7}>> }

OptionSets ==
  {Defaults,
   [Defaults EXCEPT !.single_expand = TRUE],
   [Defaults EXCEPT !.remove_essential = FALSE, !.unwrap_onset = FALSE],
   [Defaults EXCEPT !.use_super_gasp = TRUE, !.force_irredundant = FALSE]}

(* The super gasp tries every choice of all primes: small covers only.     *)
Bases(o) == {I \in SUBSET (DOMAIN BaseCubes) \ {{}} : o.use_super_gasp => Cardinality(I) <= 3}

MCInputs == UNION {
  {[F |-> Keep(BaseCubes, I), D |-> d, R |-> complement(cube2list(Keep(BaseCubes, I), d)), opt |-> o] :
     I \in Bases(o), d \in BaseDC} : o \in OptionSets}

(* R is a complement, so nothing is left unspecified.                      *)
ASSUME AllComplete == \A x \in MCInputs : Complete(x)
=============================================================================
