# Grain of Salt in TLA+

Grain of Salt (`src/generator/`) turns a stream cipher built from shift registers
into SAT problems. It simulates the cipher from a random state, writes one
polynomial equation over GF(2) for each bit of each clock, propagates the known
bits, linearizes registers, drops definitions that no output needs, converts the
rest to CNF and writes a `.cnf` and an `.output` file. It is one thread and one
long chain of in-place rewriting. What is hard about it is not concurrency but
that every stage rewrites what the stage before has built, that stores outlive
the problem they were filled for, and that the best-bits file outlives the
program. A wrong result is a CNF that looks like any other. Small equations go
through a second program in the same process, the two-level minimizer espresso
(`src/espresso/`), by arrays that both write: its loops are the deepest control of
the repository, and every clause of a table rests on them.

This directory holds a TLA+ model of that chain, TLC configurations for small
instances and TLAPS proofs for every instance. `PROJECT.json` maps each
definition to its lines of the source.

## Inventory

| Component | State | Operations | Model |
|---|---|---|---|
| `Monomial`, `Polynomial` | sorted list of monomials, bit sets | sum, product, replace, evaluate | `Anf`, `AnfProofs` |
| `MonoStack` | pool of monomials | take, give back | not modelled: an allocation detail |
| `CipherDesc`, `FuncDataHolder` | the description, the functions and their reverse | parse, check, reverse the feedback | `Cipher` (the reversal), `Ciphers` (examples); parsing not modelled |
| `Cipher` | none between calls | simulate registers and filters, produce outputs | `Cipher` |
| `OutputMaker` | the description only | `generate`: one equation | `OutputMaker`, `Generation`, `GenerationProofs` |
| `Equation`, `EquationHolder` | list of equations, `same_vars` | propagate, linearize, remove | `EquationHolder`, `OneTest`, `Solving`, `EquationHolderProofs` |
| `ExtendedMonomial`, `EquationsToSat` | iterators of the conversion | tables, products, XORs | `Conversion`, `ConversionProofs` |
| `Variables` | numbering, products and cut XORs by variable, frozen flag | add, freeze, clear, name | `Conversion`, `ConversionProofs` |
| `SolverAttrib`, `XOR_permutator` | clauses of one problem, variable mix | cut XORs, mix, write | `Conversion`, `ConversionProofs` |
| `BestBits` | the bits to guess, their file | search, load, draw, write | `BestBits`, `BestBitsProofs` |
| `GrainOfSalt` | guesses, tweak, description, data holders | `speed_test`, `debug`, `best_bit_test`, `random_test`, `one_test` | `OneTest`, `Generation`, `Conversion`, `BestBits`; the state lines of `.output` not modelled |
| Espresso: cubes and set families | the cube structure (variables, parts) | set operations, distances, consensus, orders | `Orders`, `CubeSpace`, `Covers`; text output and memory not modelled |
| Espresso: covers | covers and cubelists | containment, cofactors, unravelling, partition, cost | `Covers` |
| Espresso: unate recursion | none between calls | tautology, smallest cube containing the complement, complement | `UnateRecursion` |
| `mincov`, `sparse` | a sparse matrix | minimum column cover by branch and bound | `MinCov` |
| Espresso: irredundant, essential | marks on the cubes | split the cover, covering table, essential primes | `Irredundant` |
| Espresso: main loop | covers F, D, E, the marks on the cubes, the blocking matrix, the static `toggle` | expand, reduce, irredundant, essential, gasps, make_sparse, verify | `Espresso`, `EspressoProofs` |
| `minimise_karnaugh` | the caller's arrays | read the table, minimise, write over the arrays | `Minimizer`, `Karnaugh` |
| Espresso: the stand-alone program | files | exact minimization, output phases, pairing, symbolic input, sharp, equivalence | not modelled: the generator reaches none of it |
| `main`, timing, debug printing, DIMACS reader, random generator | none | input and output | branch of `main` in `BestBits`; the rest not modelled |

### How they interact

`main` builds one `GrainOfSalt` per run. `speed_test`, `debug` or `best_bit_test`
loop over problems; each problem has a new `SolverAttrib` and `EquationHolder`,
all share `cpd.vars`, the one `Variables`.

1. `random_test` (or `debug`, or `CalcBestBits` with one more bit added before)
   draws a state, calls `Cipher` to simulate it and collects the known bits.
2. `add_given_data` puts them into the `EquationHolder`, then `one_test` calls
   `OutputMaker::generate` for each clock.
3. `EquationHolder` propagates, linearizes and removes, by `Equation::replace` and
   `Polynomial::replace`.
4. `EquationsToSat::convert` reads the list and calls `Variables` for new
   variables and `SolverAttrib` for clauses. An equation of few variables that is no
   simple XOR becomes a table: `convert_to_karnaugh` writes its points into
   `input`, `output` and `no_lines`, `minimise_karnaugh` reads them as covers, calls
   `espresso` and `verify`, and writes the rows back over the same arrays, where
   `add_karnaugh_table` reads them as clauses. All of espresso is freed after
   each call except the static `toggle` of `reduce.c` (and the option variables,
   which each call sets again).
5. `SolverAttrib::print_satfile` freezes the numbering, mixes variables, writes.
6. `random_test` writes `.output`; the loop calls `clear_internal_vars`.

### What is hard, and what makes each component correct

- **Order of rewriting** (EquationHolder): `eliminate` rewrites every other equation
  while the loops walk the same list. Solutions are kept, a known variable does
  not come back, the propagation ends at a fixed point, no definition comes to
  depend on itself, the exception in `Equation::replace` is unreachable.
- **Closure by variables** (`remove_unneeded`): an equation left out is one the
  reference bits still determine.
- **Time runs both ways** (OutputMaker): the part of a register before its shift is
  defined by the reversed feedback. Every bit is defined once, without cycles,
  and truly in the simulated run.
- **State that outlives a problem** (Variables): numbers, products and pieces of one
  problem must not leak into the next. Each file has the solutions of its own
  equations.
- **State that outlives the program** (BestBits): a search that is killed leaves a
  prefix; what is loaded is never a mix of two searches and never a fixed bit.
- **Flags that steer later steps** (Espresso): PRIME, COVERED, NONESSEN, RELESSEN are
  set by one step and trusted by another, across sorts and reductions. A cube that
  expand passes by is prime; one that is set aside comes back; no cube ever meets
  the OFF-set, or the program exits; no point of the ON-set is lost.
- **Loops that go on while a cost falls** (Espresso): four loops, one inside the other,
  and a rerun of the whole when the result is larger than the input. They end.
- **One array for question and answer** (Karnaugh): the rows that come back cover the
  function and its complement, there are never more than fit, and none is left over
  from the question or from the call before.
- **Numbers at a boundary**: `time < shift`, the ranges of the linearization, the
  cutting of XORs, the number of bits asked for.

`PROJECT.json` lists 40 such hazards, each at its line, with the properties for it
or the reason there is none.

## Modules

`Anf` — a polynomial is a set of monomials, a monomial a set of variables: the XOR
is the symmetric difference, a product keeps the unions that occur an odd number
of times (`cleanFromDoubles`). `Replace` is one turn of `Polynomial::replace`; its
loop runs once unless the replacement holds the variable (`NoSelfReference`).

`Cipher` — a description is a record. `TrueRun(c, start)` is the set of bits that are 1
in the simulation, `Reversed` the reversed feedback of
`calculate_sr_feedback_reversed_s`. `Ciphers` gives small descriptions, each in the
shape of a configuration in `build/`.

`OutputMaker` — `generate(c, kind, i, t)` is the equation of one call, `AllEquations(job)`
everything `one_test` starts with. `Generation` is the same as a state machine, one
action per call, EXTENDS `OutputMaker`. Its jobs (`JobsAssumption`) are those the program
gets through with: `WellFormed` is what the assertions of `Cipher::calc_func` and the
numbering of registers and filters give, `Accepted` what the reversal and `set_shift`
refuse, and known bits are bits of the cipher.

`EquationHolder` — the `std::list` is a fixed sequence of nodes, `eqs`, with the set
`live` of those still linked. An action is one iteration of one loop, `it` its
iterator, `pc` the loop:

| pc | code | actions |
|---|---|---|
| `trivial` | `eliminate_trivial_equations`, first loop | `TrivialStep`, `TrivialEnd` |
| `bool` | the same, second loop (contradictions, known left sides) | `BoolStep`, `BoolEnd` |
| `mono` | `eliminate_mono_equations` | `MonoStep`, `MonoEnd` |
| `between`, `linear` | `linearize_linearizable`, `eliminateBetween` | `BetweenStart`, `LinearStep`, `LinearEnd` |
| `depend`, `erase` | `remove_unneeded` | `RemoveStart`, `DependStep`, `DependEnd`, `EraseStep`, `EraseEnd` |

`Skip` is a turn of a loop that finds nothing to do. `removed`, `refuted` and
`solutions` are history variables for the properties; no action reads them.

`Solving` — the abstract specification: which states of the cipher fit a problem
never changes, and it is given up only when none fits. `Solved` is the
refinement, `fits` mapped to the solutions of the list over the reference bits.

`OneTest` composes `OutputMaker` and `EquationHolder`: `ProblemOf(job, ...)` is the list and
the ranges that `one_test` hands to the passes.

`Conversion` — `EquationsToSat`, `SolverAttrib` and `Variables` together, for several problems
in a row. `convert`, `simplify`, `monos`, `cut`, `mix`, `write`, `done` are the loops; a clause
is a set of literals, an XOR a sequence. `Covers` stands for Espresso: any cubes that
together are the points, prime or not, disjoint or not, as the ON-rows come from `espresso`
and the OFF-rows from `complement` (`cvrin.c:179`). `Clear` is `clear_internal_vars`.
(That what espresso returns is such a cover is the subject of `Karnaugh`.)

`BestBits` — runs of the program one after another over files that persist. `pc = "off"`
is no program running; `StartSearch` is `--genDeterBits`, `StartGenerate` is `--deterBits`,
`--probBits` or `--debug`. `write_best_bits_file` is three actions (`OpenFile`
truncates, `WriteLine` flushes one bit, `CloseFile`), and `Stop` may end the run
between any two. A description may change between runs without changing the
file's name. `Respell` is the user, who edits a written file into the form the
program reads; it is the only external action. `found` is a history variable, the
list the last search has put, or begun to put, into each file.

The minimizer is a stack of modules, each EXTENDS the one before:

`Orders` — a finite set listed in a strict total order, without recursion: what `qsort`
and the `foreach` macros do. `Keep` takes the elements of a sequence at given positions.

`CubeSpace` — a cube is the set of its parts; `cdist0`, `cdist01`, `force_lower`,
`consensus`, `set_merge` and the orders are stated per variable, the word tricks of
`setc.c` are abstracted. `SIZE` keeps its 16 bits.

`Covers` — a cover is a sequence of cubes, a cubelist the cubes with the parts
cofactored against. Sorting with removal of equal and contained cubes, cofactors, the
choice of the splitting variable, `cubelist_partition`, `unravel`, `cover_cost`.

`UnateRecursion` — `tautology`, `sccc`, `complement`, `unate_complement` as recursive
functions, each with its special cases in the order of the code.

`MinCov` — `sm_minimum_cover`: dominance, essential columns, independent sets, Gimpel's
reduction, block partition and branching, with the bounds that cut the search.

`Irredundant` — `irred_split_cover`, the covering table of `irred_derive_table` (a cube that
has its rows counts for the later ones) and `essential`. A cube is named by its
position, so a set of positions is what a flag on the cubes is in the code.

`Espresso` — the state machine. One behaviour is one call on one input; `pc` is the
step, `call` the place in the main loop from which expand was called:

| pc | code | actions |
|---|---|---|
| `begin` | `espresso`, unravel the ON-set | `Begin` |
| `expand`, `next` | `expand`, its loop over the cubes | `Expand`, `SkipCube`, `OpenCube`, `DropCovered` |
| `feasible` | `select_feasible` | `SelectFeasible`, `NoneFeasible` |
| `raise` | `expand1` and `mincov` | `RaiseFrequent`, `Mincov`, `HeuristicMincov`, `CloseCube` |
| `expanded` | `irredundant` after the expansion | `Irredundant1`, `Irredundant2`, `IrredGasp`, `Sparse` |
| `essential` | `essential`, or the end of single_expand | `Essential`, `SingleExpand` |
| `reduce`, `reducing` | `reduce` | `Reduce`, `ReduceCube`, `ReduceEnd` |
| the gasps | `last_gasp`, `super_gasp`, `expand_gasp` | `ReduceGasp`, `ExpandGasp`, `ExpandGaspEnd`, `SuperGasp` |
| `mv_reduce` | `make_sparse`, one part at a time | `MvReducePart`, `MvReduceEnd` |
| `compare` | the size of the result, `verify` | `StartOver`, `Verify` |
| `verified`, `fatal` | the return, or an exit with an error | `Done` |

`Minimizer` — the abstract specification: a table in, rows out that cover it and rows
that cover the rest, no more than the arrays hold, always answered.

`Karnaugh` — `convert_to_karnaugh`, `read_pla`, the steps of `Espresso` and `fprint_pla` over the
arrays, table after table, with what outlives a call. `MinimizerSpec` is the refinement.
Together with `Conversion`, whose `Covers` takes any cover of the points and any of the
other points, this is the composition of generator and minimizer: `Karnaugh` shows that
the rows are covers, `Conversion` that any such rows make a right file.

`MCGeneration`, `MCOneTest`, `MCConversion`, `MCBestBits`, `MCEspresso`, `MCKarnaugh` give the
constants values.

## Runs

Passing:

| Run | Shows | Bounds |
|---|---|---|
| `generation` | `EquationsTrue`, `EveryBitDefinedOnce`, `Determined`, `GenerationEnds` | four shapes of cipher, all starts, all shifts up to 1 or 2, no guess, all right, all wrong, the bit of `CalcBestBits` or none |
| `one_test` | `SolutionsKept`, `PropagatedOnce`, `FixedPoint`, `RefutedRightly`, `SameVarsLinked`, `SameVarsResolved`, `NoSelfReference`, `Linearized`, `NeededKept`, `NeverFails`, `Solved`, `EventuallyEnds` | every start, every value of each guessed bit, one or all of them guessed, the bit of `CalcBestBits`, with and without propagation, linearization, verbose; linear register with three outputs shifted 0..2, filters, crossed registers, initialisation, fixed bit |
| `conversion` | `ModelsKept`, `FileRight`, `SimplifiedSame`, `ReusedDefined`, `NeverFails`, `EventuallyWritten` | any two of seven lists in a row, five variables, four settings, every cover of the tables (up to three variables), draws 0 and 2 |
| `best_bits` | `GuessesUsable`, `LoadedAreBest`, `ChosenIsLowest`, `NeverStuck`, `EnoughCandidates`, `ClaimRight`, `SearchEnds` | three runs of the program, two registers of one bit, 0 to 3 bits asked for, two difficulties, one problem |
| `espresso` | `Orthogonal`, `PartLeft`, `OnsetKept`, `NoneGivenUp`, `SettledMinimal`, `Termination` | three binary inputs and two outputs; every cover of up to six base cubes, four sets of don't cares, four sets of options, both values of `toggle`, `max_expansion` 2 |
| `karnaugh` | `MinimizerSpec` | all functions of three variables that depend on each and are no simple XOR, one after another, in arrays of eight rows |

`one_test`, `conversion`, `best_bits` and `espresso` also check `TypeOK`; that of `espresso` holds
`FullCubes` (a cube keeps a part in every binary variable, but for one that reduce has just
emptied and drops at its end).

The bounds are small because each problem is followed through every iteration of
every loop; they are chosen for the cases, not for size:

- A cipher of two or three bits already has a feedback that is a sum, products,
  renamings (a register that only rotates), a register that feeds another, bits
  defined backward in time, and a second round of facts (`Chained`). All starts and
  all guesses occur, right and wrong, and so do contradictions.
- Two problems in a row are what it takes to see a leak from one to the next;
  a third only repeats the second because `Clear` leaves the store as new
  (`ReusedDefined`, `TypeOK` and the numbering are checked after it).
- Draws 0 and 2 give permutations that are not their own inverse.
- Three runs are a search, a second one that is killed over the file of the
  first, and a run that loads it. With two bits a file can be empty, a proper
  prefix or whole; three bits asked for are more than there are.

- The base cubes of `espresso` overlap in one or both outputs, are of all sizes, and the
  sets of don't cares go from none to most of the space: the covers contain cubes that
  others cover, essential primes, cubes that only reduction frees and cubes that only
  make_sparse thins. Every action fires, the gasps, the rerun, and the fallback of
  mincov included, for which `max_expansion` is 2 instead of 500. The options are the
  defaults, which `minimise_karnaugh` has, and those of the stand-alone program that
  change the way through the steps. The super gasp takes at most three base cubes.
- `karnaugh` has `max_expansion` 500 and the default options, as the generator does.
  Eight rows are the points of three variables, so "never more rows than points" is
  what fitting means: the code has 2^`max_karnaugh_table` rows, for tables of that many
  variables or fewer.

Violations, each a disagreement with what the sources say:

| Run | Property | What happens |
|---|---|---|
| `fixed_bit` | `NothingLost` | `remove_unneeded` keeps an equation of a fixed bit and erases the definitions in it (`equationholder.cpp:308`) |
| `same_vars` | `SameVarsEqual` | `x = y + 1` is recorded as "x is y" (`equationholder.cpp:109`) |
| `refuted` | `ContradictionStops` | `lbool::operator&=` compares instead of assigning, the verdict is lost (`SolverTypes.h:143`) |
| `lost_contradiction` | `ContradictionsKept` | `0 = 1` makes no clause (`equationstosat.cpp:176`) |
| `cut_names` | `Nameable` | an equal piece of a second XOR takes the name of the first's variable (`variables.cpp:130`) |
| `unread_file` | `ReadsWhatItWrote` | the best-bits file is written as `sr[0][3]` and read as `sr0[3]` (`bestbits.cpp:245`) |

The passing runs state around these what does hold, and say where they leave
something out:

- `conversion` has no two XORs that begin alike and are cut twice; `cut_names` has.
- `ModelsKept` and `FileRight` except the lost contradictions (`Lost`);
  `ContradictionsKept` does not.
- `SameVarsLinked` allows for the inversion; `SameVarsEqual` does not.
- `NeededKept` is about the variables that the closure of `remove_unneeded` has collected
  (`Needed`) and the reference bits. Of any other variable the list may keep a part:
  `x = y` stays when the definition of `y` goes, so those are not determined.
- `one_test` has no problem in which a shift makes a fixed bit a defined bit
  (`DefinedUnknown`, assumed in `MCOneTest`); `fixed_bit` has. There the definition of a known
  bit becomes `constant = polynomial`. `NothingLost` is what the run shows; with
  linearization on, the assertion of `equation.cpp:40` fails in the same problems.
- `Cipher.WellFormed` asks a little more of a description than the assertions of
  `Cipher::calc_func` (`cipher.cpp:43`): a function reads bits that are there at the start of
  its clock, while a feedback may also read the bit that a register before it has just got
  (index `sr_size`, as the registers are clocked one after the other), and an output that of
  any register. No description in `build/` does.
- No register of `generation` is fed by a constant (`ShiftedFed`). The reverse of a feedback
  that is only `x` is that feedback again (`data_holder.cpp:159`), so a shifted register
  with it would get equations for its oldest bits that the simulation does not obey.
- `Accepted` leaves out the shifts that `set_shift` and `reload_best_bits` refuse. Registers
  that read each other (`Ciphers.Coupled`) are in no passing run with unlike shifts:
  there the reversed feedback defines bits in a circle (`data_holder.cpp:166`), and
  `Determined` does not hold.
- No property says that the cubes expand flags PRIME are primes, as `expand.c:5`, `:35` and
  `:175` do: in general they are not. The column cover that mincov gets (`expand.c:589`)
  is that of a heuristic and may hold a column it does not need, and a blocking set may hold
  parts of the outputs that are low already, so that a part stays low for nothing. With
  six inputs, one output (type fr), the ON-row `000000` and the OFF-rows `-1-11-`,
  `1--11-`, `11--11`, `111--1`, `111---`, `-111--`, `-11-11`, `1-1-1-`, `--11-1`, `-1--11` the
  program returns `-00-0-`, although `--0-0-` meets none of the OFF-rows. Covers as small as
  those of `espresso` have no such case. `NoneGivenUp` is what holds for all of them: until
  mincov decides, a part is lowered only where raising it would meet the OFF-set.
- `SettledMinimal` speaks of a round of `mv_reduce` (`sparse.c:72`) that goes through all the
  outputs and takes nothing off: then no output can go, hence no cube. A round that took
  something off may leave a cube with an output too many, for the same reason as above: the
  columns mincov keeps (`irred.c:38`) are those of a heuristic. With six inputs, two outputs
  (type fr), the row `000000 00`, the rows `011101`, `010110`, `101011`, `001110`, `100101`,
  `111010`, `110001`, `011011` with the outputs `1-`, and the six inputs with a single 1 with
  `-1`, the program returns `-1---- 11`, `----1- 11` and `-----1 11`, although the last two cover
  the first output alone. No cover within the bounds of `espresso` has such a table.
- `xor_cut_len` is at least 3 (`ConversionAssumption`): with 2 the loop of `addXorClause`
  never ends, and `main.cpp:128` accepts it.
- `Linearized` is checked for registers that are linear during the initialisation as
  well. For one that is linear only after it, as grain's second phase, the range
  of `equationholder.cpp:145` begins with bits the initialisation has fed back, and the
  feedback is not in terms of the register's bits alone.

`CHECK_DEADLOCK FALSE` is in the configurations of the generator because the program ends.
`espresso` and `karnaugh` check deadlock: the end is a step of its own (`Done`), or the next
table.

### Fairness

`Generation`, `EquationHolder` and `Conversion` assume `WF_vars(Next)`: a single thread that
waits for nobody. `BestBits` assumes `WF_vars(Work)`: a run that has started goes on;
the user need not start another, and a run may or may not be killed. Nothing is
assumed of the random draws: `NeverStuck` says that an acceptable bit exists, not
that it is drawn. Liveness of these is stated for `FairSpec` only.

`Espresso` and `Karnaugh` are one thread as well. Their specifications write weak fairness
out instead of with `WF`: the machine has ended infinitely often, or it moves
infinitely often. That is weak fairness of the next-state action because every step
before the end changes something and, as the check for deadlocks shows, a step is
always possible. Nothing is assumed of which table the generator hands over, or that
it hands over any.

## Proofs

`tlapm` checks every step; there are no axioms beyond the assumptions named.

**Polynomials** (`AnfProofs`, from `VarAssumption`: `Var` is finite). `EvalReplace`: replacing a
variable by a polynomial of the same value does not change the value of any
polynomial. It rests on `EvalTimes` (the product with cancellation in pairs is the
product of the values), `EvalXor` and parity lemmas on finite sets. `VarsReplace` bounds
the variables of the result.

**Generation** (`GenerationProofs`, from `JobsAssumption`). For a cipher of any size, any number
of clocks, any start and any shifts:

- `EquationsAlwaysTrue`: each equation holds in the simulated run. The simulation is a
  recursive function over the clocks with one over the filters inside. No induction
  theorem is needed for it: that such a function exists (`StepsExist`) and what it
  computes (`UpToAll`) follow from a least counterexample, an element of a set of numbers.
  `OneClock` shows that a clock adds only the bits of that clock, so what earlier clocks
  have computed stays right (`ComputedKept`); `SimulatedRun` and `TrueRunFacts` are the whole
  run. `ExchangeRight` is the algebra of the reversal: putting the new bit in the place
  of a lone oldest bit solves the equation for that bit, by parity. `ReverseThere`
  shows that each shifted register has got a reverse: no two registers give one for
  the same register, so in mixed mode, where all have terms, each gets one.
  The theorem assumes `ShiftedFed` (no shifted register is fed by a constant; above).
- `BitsAlwaysDefinedOnce`: at the end each bit that is no reference bit has one
  definition. `DefinedInjective` (a bit is the left side of one call of one clock) and
  `DefinedSomewhere` (the shift is smaller than the number of clocks, which `set_shift`
  asserts, so no bit is left out) are about the definitions alone.

Both follow from `GenInv`: the list holds only known bits of the job and definitions of
its calls, all those of the clocks before, and of this clock those whose call is done.

**Equation store** (`EquationHolderProofs`, from `ProblemAssumption` and, from `VarsInv` on,
`DefinitionAssumption`). `SolutionsKept` is not
inductive: `Equation::replace` overwrites a left side that is the variable itself
with a constant or with `Monos(right)`, dropping the inversion, so two equations
with the same left side could lose a solution. The first strengthening is

    Inv == ListInv /\ FlowInv /\ SameVarsInv /\ RefutedRightly

- `ListInv` has `KnownFirst`: of two live equations with the same variable on the left, the
  earlier one is a known bit (`v = constant`) that has not been propagated. The
  loops meet it first, the other becomes `constant = polynomial`, and no left side
  is hit any more.
- `FlowInv` bounds the iterators and relates `pc` to what it may reach, so `pc # "throw"`.
- `SameVarsInv` is the type of `same_vars` and `SameVarsLinked` over `solutions`.

`EliminateSound` proves once, for any list, that `eliminate` keeps solutions and shape;
`TrivialStepInv`, `MonoStepInv`, `LinearStepInv` use it per action. The results are
`TypeCorrect`, `SolutionsAlwaysKept`, `RefutationsRight`, `SameVarsAlwaysLinked`, `NeverThrows`.

What is where in the list needs a second invariant, relative to the first:

    VarsInv == Ordered /\ PropagatedOnce /\ Gone /\ SameVarsResolved
               /\ LiveDefined /\ RoundInv /\ FixedPoint /\ NeededInv

- `Ordered`: the variables on the right of an equation stand before the one on its left in
  the order of the definitions (`Depth`), whatever has been substituted. That gives
  `NeverSelfReferring`, so that every loop of `Polynomial::replace` ends, and it is what keeps
  `PropagatedOnce` and `Gone` (a variable put everywhere or renamed away does not come
  back by a later substitution), hence `AlwaysPropagatedOnce` and `SameVarsAlwaysResolved`.
- `RoundInv`: in a round in which nothing has changed, what lies behind the iterator is
  done, for the pass at hand and the ones before. At the end of such a round it is
  `FixedPoint` (`FixedPointReached`).
- `LiveDefined`: until the erasing starts, each variable in use that is no reference bit
  has its definition in the list. `NeededInv`: `checked` holds only variables whose
  definition stays and whose right side has been collected too, and a round without
  change leaves nothing to collect. `NeededAlwaysKept` follows by the least variable, in the
  order of `Depth`, on which two solutions differ.

The end of a run needs that no definition loses its left side:

- `LeftsKept`: an equation keeps its left side or gets a constant, and a definition keeps it
  if no defined bit is known (`DefinedUnknown`). With `EndInv`: `NeverFailing` (neither the
  exception nor the assertion of `Equation::replace`), `NothingEverLost` (an erased equation
  follows from, or defines a variable outside, what stays; each fill of the reference
  bits that fits the list extends to the erased definitions in the order of `Depth`), and the
  refinement `SolvingImplemented`: `Spec => Solved`, each step a step of `Solving` or a stutter.

The assumptions are what the code before gives. `ProblemAssumption`: `add_given_data` runs
before any `generate`, and `generate` defines each bit once (`BitsAlwaysDefinedOnce`).
`DefinitionAssumption`: each bit but the reference bits is defined, and the definitions are
acyclic, which is `Determined`; registers that read each other under unlike shifts
(`Ciphers.Coupled`) do not satisfy it and are not covered. `DefinedUnknown` is a hypothesis of the
last three theorems only; it fails when a shift makes a fixed bit a defined one, which
is exactly the case that `fixed_bit` refutes.

**Conversion** (`ConversionProofs`, from `ConversionAssumption`: a cut length of at least 3, and the
equations `EquationHolder` hands over: left sides not on their right). For any number of
variables, equations and problems, any settings and draws. Two invariants:

    CourseOK  == TypeOK /\ FlowOK /\ StoreOK /\ ListOK
    MeaningOK == CourseOK /\ ModelsOK /\ FileOK

- `FlowOK`: the numbering is frozen only between print and clear, and what each loop has in
  hand is there. It gives `NeverFailing`.
- `StoreOK`: all internal variables are different and in the numbers given out, and while
  a problem is converted each stored product has its clauses in this problem. It gives
  `AlwaysReusedDefined`.
- `ListOK`: the list of `simplify` is in order and its sum is that of the right side
  (`AlwaysSimplifiedSame`).
- `ModelsOK` is what `ModelsKept` needs in the middle of an equation: between two equations the
  models are the solutions of those handled, each once; within one, the XOR built so
  far has in every model the value that the monomials to come make up to that of the
  right side; while it is cut, the chain variable and the literals left say the equation.
- `FileOK`: the mix gives each variable its own number, so the file has the same models.

`ModelsAlwaysKept` and `FileAlwaysRight` follow. The lemmas under them: `CombinationsAreXor` (the
clauses `XOR_permutator` makes for a piece of any length are true exactly where the piece has
odd parity), `EqualityDefines` (those of `insert_equality_clauses` make the internal variable the
product, of any degree) and `TableRight` (the rows of any cover, read as clauses, say the equation).

**Best bits** (`BestBitsProofs`, from `BestBitsAssumption`: the checks of `CipherDesc` on sizes
and positions, and finitely many registers; no bound on runs, problems or bits is used). That
a run loads the bits of the last search is not inductive: it depends on what is on disk
while a search that may be killed writes. The strengthening is

    IInv == FilesInv /\ RunInv /\ SearchInv /\ LoadInv /\ ClaimInv /\ CostInv

- `FilesInv`: a file is a prefix of the list last given to it, whenever the writer was
  killed, and no list has a bit twice. What is read is then either too short, and
  refused, or a prefix of that list (`FirstLinesOf`).
- `RunInv`, `SearchInv`: the list of the search, its length, and the line being written.
- `CostInv`: the bits tested and those to be tested are together all that may be taken,
  and `lowest` is the cheapest of the tested ones, which gives `GreedyIsLowest` and
  `AssertionMeansTooMany` (with `CountDistinct`, which counts a list without repetitions).
- `LoadInv`, `ClaimInv`: the loaded or drawn bits are free and `good_guess` says whether
  all guesses so far are right; that a bit is never guessed twice is used here.

`DrawNeverStuck` (`NeverStuck`) needs that bits are drawn only after the check on their number
(`PickInv`), and that this check counts right: that as many bits of all registers together may
be guessed as the sum of what each register has, less its fixed ones (`EnoughFree`). The
sum is a fold over the registers, so it is taken along `MeasureRecursion` of `OrdersProofs`
(`SumsExist` there, `SumBound`).

**Minimizer** (`EspressoProofs`, over `CubesProofs` and `OrdersProofs`; from `InputsAssumption`: the
covers given have a part in every variable and F does not meet R, which is the complement
of F and D; and from the assumptions on the layout of the cubes). For any number of
variables and parts, any cover and any options,

    Spec => []Orthogonal
    Spec => []PartLeft
    Spec => []NoneGivenUp
    Spec => []TypeOK
    Spec => [](pc # "fatal" => OnsetKept)
    Spec => [](pc = "verified" => Agrees)
    Spec => [][pc' = "fatal" => pc \in {"fatal", "gasp", "compare"} \/ (pc = "next" /\ call = "gasp")]_vars
    (\A x \in Inputs : Complete(x))  =>  (Spec => [][pc = "compare" => pc' # "fatal"]_vars)
    (\A x \in Inputs : Complete(x))  =>  (Spec => SettledMinimal)

`OrthogonalHolds` says that expand never meets the OFF-set, so the exit of `expand.c:221` is out
of reach for the cubes that the minimizer keeps; `PartLeftHolds` that `most_frequent` never
answers -1; `NoneGivenUpHolds` that expand gives nothing up for nothing before mincov decides;
`TypesHold` that no cube loses a whole binary variable; `OnsetAlwaysKept` that unless the minimizer gives up (`exit(1)`, in the model
"fatal") no point of the ON-set is lost by any of its steps; `VerifiedAgrees` that a result
it hands out has the points of the table that went in, but for don't cares: verify asks
tautology, and that is right when it says yes (`TautFills`). `VerifyAccepts` is the other way
round: where every point is in F, D or R, as it is whenever D or R is made as a complement
(types f, fd and fr; with fdr it is up to the user), verify never refuses a result. TLC
evaluates that assumption on the inputs of `espresso` (`AllComplete`). The first two are not inductive: what a raise may do depends on what expand has thrown
out of the blocking matrix. The strengthening is

    IInv == TypesInv /\ ExpansionInv /\ PassedInv /\ GaspInv /\ Orthogonal

beside `FullInv` (`CubesStayFull`):

- `ExpansionInv`, `Blocking`: a cube of R has left the matrix exactly when it cannot be met
  by raising all that is free, and no cube of R is met so far. The parts whose raising
  would meet one are not free (`essen_parts` has lowered them), so one more part can be
  raised, and where
  mincov keeps a cover of the blocking sets low the rest may be raised at once (`Hit`:
  each unravelled set holds one way to stay clear of each cube).
- `Covering`: a cube that may still be covered fits into the free parts, and one found
  infeasible would meet the OFF-set; so some part of it is free but not raised.
- `PassedInv`: what lies behind the loop of expand is prime or covered, so what is left
  has been checked, also in the gasp, where candidates come in unchecked.
- `GaspInv`: the list before the gasp and the one in it go side by side.

- `FullInv`: every cube of the cover, of the essential primes and of the cover from before
  the gasp keeps a part in every binary variable. Only reduce takes binary parts off, and
  what it leaves is empty (and dropped) or has a part in each, by `ReduceCubeFacts`.

`NoneGivenUp` is inductive beside `IInv`: a part that would meet the OFF-set keeps doing so
as RAISE grows (`StaysForced`), and `essen_parts` lowers no other (`LoweredRightly`,
`EssenForced`). In `TypeOK` the costs
are folds over the cover, again taken along `MeasureRecursion` (`FoldedSums`).

The ON-set needs more, as expand drops cubes, reduce shrinks them, the gasp starts again
from shrunk ones, and the essential primes go to the don't cares and come back:

    KeptInv == CallInv /\ EssenInv /\ CoveredInv /\ RaisingInv /\ Kept

- `CallInv`: what may be called from where, so what is to be done with the result.
- `EssenInv`: the don't cares have grown by the essential primes at most, so taking
  both back loses nothing.
- `CoveredInv`: a cube marked covered lies in a prime that stays or in the cube being raised;
  `RaisingInv`: that cube is not covered itself, and only cubes that are not prime may be.
- `Kept`: the ON-set is in the cover and the don't cares, in a gasp in the cover from before
  it. The irredundant steps keep it by `MarkSound`, reduce by `ReduceCubeFacts`, one cube after the
  other, and mv_reduce by `MarkSound` for each part: the cubes that keep it cover, in that
  part, the ones that lose it.

`VerifyAccepts` needs that tautology does not overlook what is covered, which it could do for a
cube without a part in some variable: `SparseInv` says that from the last time mv_reduce drops
the cubes without a part in a multiple-valued variable, each cube of the cover keeps one in
each, as expand only lets cubes grow (`ExpandGrows`); `FullInv` says it of the binary ones.
Then `CoveredSeen` answers both questions of verify, from `Orthogonal` and `Kept`.

`SettledMinimalHolds` counts. The cost of a cover is the number of its literals: of the binary
parts its cubes lack and the other parts they have (`CostCounted`). mv_reduce only takes parts
away, so when the cost is the same after the round nothing was taken (`CheaperCost`,
`KeepCost`). `RoundInv` says of the parts the round is past that the cost has fallen since it
began, or each cube that has the part has a point under it that neither the other cubes nor
the don't cares contain: `MarkSeen` finds it when irredundant keeps all the cubes that have the
part. As no point is open and the cover is clear of R, that point is in the ON-set.

`GivesUpInGasp` names the places where the minimizer may exit. Opening a cube, selecting a
feasible one, raising a part and the second gasp never find the OFF-set touched: `FarInv` says
that each cube of the blocking matrix differs from the raised cube in two variables at least,
as `essen_parts` has dropped those that differ in one (`EssenFar`), so one part more meets none
of them (`OnePartMore`). mincov, for the blocking sets and for irredundant, always finds a cover
(`MincovFound`, `MarkedOk`). There remain verify (excluded by `VerifyAccepts` on an input with no
point open), a candidate of the gasp that meets the OFF-set, and the empty reduction of
`gasp.c:45` that "shouldn't happen": it would take a cube that irredundant has kept for
nothing, which the heuristic of mincov does not exclude. No such case is within the bounds of
`espresso`, where `Termination` says that every run ends verified.

`OrdersProofs` proves that `Listing` is a bijection in the given order and what `Keep` keeps;
`CubesProofs` that the orders are total, that sorting and thinning out take cubes from the
cover, what `unravel` lists, and how distances behave when parts are raised or lowered.

**Unate recursion and irredundant** (`CubesProofs`). `taut`, `sccc` and the search of
`ftautology` call themselves on smaller cubelists, over a structure that is no number. The
induction theorems of the library take an operator as a parameter, which the provers cannot
instantiate; `OrdersProofs` therefore has two of its own, in which what is recursive is a
set, from `LeastNat`: `MeasureInduction` (a set that has each element all of whose smaller ones
it has is everything) and `MeasureRecursion` (a functional that looks only at arguments of
smaller measure has a fixed point). The measure `mu` of a cubelist counts the parts not yet
cofactored against and the cubes; every split, cofactor and partition makes it smaller
(`SplitSmaller`, `UnateSmaller`, `ShrinkingEnds`). With it each function is shown to be defined, to
satisfy its own equation (`TautUnfold`, `ScccUnfold`, `FtUnfold`), and to answer rightly:

- `TautFills`: a cubelist that tautology accepts contains every point of its half-space. Each
  special case keeps the points apart: a row of ones, a column of zeros, the unate
  variables, the partition into components (a point outside both lists would be outside
  their join), the two cofactors of a split.
- `TautSeen`: the other way round, along the same recursion: a list that contains every point of
  its half-space is accepted. Where tautology would say no it leaves a point out, put
  together from one part of each variable (`Assembled`): the parts no cube of a unate
  variable has, or a point of each component. That takes a variable to be open (`Open`), one of
  its parts not yet cofactored against; of a variable without one there are no points to fill.
- `ScccFacts`: the supercube of the complement contains every point outside the list, and has
  a part in each binary variable, or is empty.
- `CubeCovered`, `CoveredSeen`, `ReduceCubeFacts`: what cube_is_covered and reduce_cube make of that.
- `FtautologySound`: the rows of ftautology are complete, along the same recursion.
- `FtautologySeen`: and a row that names the cube alone stands for a point of it that no other cube
  contains.
- `MarkSound`: mark_irredundant. The rows of the table are complete for each redundant cube, the
  column cover is verified (`verify_cover` is all that is used of mincov here), so what
  stays covers what goes.
- `MarkSeen`: the step always finds a cover, and if it keeps the whole cover then each cube has a
  point of its own: that the others do not cover it, or a row of the table that names it alone.

**Minimum column cover** (`CubesProofs`). The search of mincov calls itself on a matrix with fewer
columns, so it is taken along their number (`SearchSmaller`, `SearchAnswers`). What is carried
along is `Answers`: where the bound leaves room for the columns (`Roomy`) the heuristic does not
answer NIL, and its result adds to the columns already chosen some of the matrix, meets every
row, and takes all the columns only if each is the only one of some row (`Solves`, `Alone`).
Each reduction keeps that:
dominated rows and columns (`RowDominance`, `ColDominance`), the essential columns
(`AcceptSolves`, `SelectEssentialFacts`), Gimpel's reduction (`GimpelSound`), the blocks
(`BlocksSound`) and the branch on a column (`BranchSound`), with the bounds that cut it short.
`MinimumCover` is the result: every matrix gets a cover, so `verify_cover` (`mincov.c:85`) never fails.
That the cover is a minimum is not claimed: the search is heuristic here.

Only model-checked: all liveness (outside the prover), and

- `Linearized`: it rests on the shape of a linear feedback over a whole range of clocks;
- `Determined`: it holds for the ciphers of `generation` and not for all accepted ones (above);
- `MinimizerSpec`, the refinement, which has liveness in it.

## Not modelled

- The order of the written clauses (`permutateClauses`), clause groups, descriptions,
  comments and statistics: no property speaks of them.
- The difficulty score: any number in `BestBits`. Its sum may wrap (`bestbits.cpp:186`).
- `MonoStack` and the scratch arrays of 100 monomials (`polynomial.cpp:181`).
- Parsing of configurations and options, the DIMACS reader, printing, timing.
- Espresso's other commands, which `minimise_karnaugh` never reaches: exact minimization and
  the primes (`exact.c`, `primes.c`), output phases (`opo.c`), pairing (`pair.c`), symbolic input
  (`hack.c`, `cvrin_original.c`), maps, equivalence, sharp, and the `main` of the stand-alone
  program. The option `onlymerge` of `minimise_karnaugh` (d1merge) is FALSE in its only call.
- In files that are modelled: `simplify` and `simp_comp` (`compl.c`), `random_order`,
  `recompute_onset`, `check_consistency`, and the early return of the covering table for
  more than a thousand rows, a matter of speed.
- Espresso's words, blocks and free lists: a cube is a set. The limits of the 16-bit SIZE
  field are in the model, instances that reach them are not.
- Two programs at once over one best-bits file, and files written by hand with a
  bit twice.
- The state lines of `.output`, and whether another state than the simulated one
  fits when it says UNSAT (`grain-of-salt.cpp:181`).

## Plan

Written, in this order: `Anf`, `Cipher`, `OutputMaker`, `Generation` (the equations are
right), `EquationHolder`, `Solving`, `OneTest` (they stay right), `Conversion` (the CNF says
the same), `BestBits` (the guesses), then the minimizer from `Orders` up to `Karnaugh` (the
tables are what the conversion takes them for), with its proofs.

To come:

1. `Found`: `check_found_state`, the `.output` lines and the UNSAT claim, over
   the composition of `OneTest` and `Conversion`.
2. `Pipeline`: `EquationHolder` and `Conversion` in one machine, several problems over one
   `Variables`, an abstract specification "a problem in, a file with its
   fitting states out", refined.
3. `Description`: the checks of `CipherDesc` (`check_within_limits` is never applied to
   `zero_out`, `cipherdesc.cpp:215`), `set_shift`, the acceptance of the functions.
4. The refinement of `Minimizer` by `Karnaugh`: its safety from `VerifiedAgrees`, as a theorem.
5. That a problem of `OneTest` satisfies `ProblemAssumption`, as a theorem from `GenInv`; `Linearized`.
6. A list with two programs over one best-bits file.
