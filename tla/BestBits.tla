----------------------------- MODULE BestBits -----------------------------
(***************************************************************************)
(* The bits that are guessed (class BestBits, generator/bestbits.cpp) and  *)
(* the guesses of GrainOfSalt::random_test and debug.                      *)
(*                                                                         *)
(* The program runs again and again (main.cpp:300-319).  A run with        *)
(* --genDeterBits searches the best bits greedily and rewrites their file  *)
(* before and after each bit it finds; a run with --deterBits takes its    *)
(* bits from the file, one with --probBits draws them.  The file is named  *)
(* after the shifts, init_clock and the number of outputs (one number      *)
(* here) and outlives the run; a run may be killed at any time, and one    *)
(* runs at a time.                                                         *)
(*                                                                         *)
(* A bit is a register and an index.  Here the problems of a search only   *)
(* have a difficulty, any number; Generation and OneTest make them.        *)
(***************************************************************************)
EXTENDS Integers, FiniteSets, FiniteSetsExt, Sequences

CONSTANTS
  Descriptions,  \* a cipher and its options: sr_size, sr_shift, fixed (the
                 \* one_out, zero_out and tweakable bits of each register),
                 \* init_clock, mixed_shifts
  HelpBits,      \* the numbers of bits that are asked for
  Difficulties,  \* the sums of difficulties that test_number problems have
  MaxRuns,       \* bound: runs of the program
  MaxTests       \* --num, the problems of a run

None == [none |-> TRUE]

(* check_within_limits and check_dont_clash (cipherdesc.cpp:263, 273).     *)
ASSUME BestBitsAssumption ==
  /\ None \notin Descriptions
  /\ \A c \in Descriptions :
       /\ DOMAIN c.sr_size \subseteq Nat /\ IsFiniteSet(DOMAIN c.sr_size)
       /\ \A i \in DOMAIN c.sr_size :
            /\ c.sr_size[i] \in Nat \ {0} /\ c.sr_shift[i] \in Nat
            /\ c.fixed[i] \subseteq 0 .. c.sr_size[i] - 1
       /\ c.init_clock \in Nat /\ c.mixed_shifts \in BOOLEAN
  /\ HelpBits \subseteq Nat /\ Difficulties \subseteq Nat
  /\ MaxRuns \in Nat /\ MaxTests \in Nat

VARIABLES
  files,        \* the best-bits files
  found,        \* for the properties: the list last written to each file
  runs, pc,
  cpd,          \* the description in this run
  guess_bits, from_file, varstoguess,      \* class BestBits
  goal, round,  \* --genDeterBits; the write before or after the tests
  todo,         \* the bits that the search has still to test
  difficulty,   \* and what those tested cost
  lowest,       \* lowest_difficulty
  debug, test_no,                          \* --debug, the loop of the tests
  sr_state,     \* the bits that are 1 in the simulated run
  it, given_data, good_guess, output       \* random_test
persistent == <<files, found, runs>>
options    == <<cpd, from_file, goal, debug>>
search     == <<round, todo, difficulty, lowest>>
test       == <<sr_state, it, given_data, good_guess, output>>
vars == <<persistent, pc, options, guess_bits, varstoguess, search, test_no, test>>

Empty == [x \in {} |-> x]
Put(f, x, v) == [y \in DOMAIN f \cup {x} |-> IF y = x THEN v ELSE f[y]]
Elements(s)  == {s[k] : k \in DOMAIN s}

---------------------------------------------------------------------------
(* The reference bits of a register, and those that may be guessed.        *)
Registers(c) == DOMAIN c.sr_size
(* Bug: the last bit of each register is left out. *)
MutWindow(c) == UNION {{<<i, c.sr_shift[i] + k>> : k \in 0 .. c.sr_size[i] - 2} : i \in Registers(c)}
Window(c)    == UNION {{<<i, c.sr_shift[i] + k>> : k \in 0 .. c.sr_size[i] - 1} : i \in Registers(c)}
var_in_impossible_position(c, v) == v[2] \in c.fixed[v[1]]
Excluded(c, v) == c.init_clock > 0 /\ var_in_impossible_position(c, v)

cumulated_sr_size(c) == MapThenSumSet(LAMBDA i : c.sr_size[i], Registers(c))
(* Bug: only the sizes count. *)
Mutcumulated_free(c) == cumulated_sr_size(c)
cumulated_free_sr_positions(c) ==
  MapThenSumSet(LAMBDA i : c.sr_size[i] - Cardinality(c.fixed[i]), Registers(c))
TooMany(c, n) == \/ n > cumulated_sr_size(c)
                 \/ c.init_clock > 0 /\ n > cumulated_free_sr_positions(c)
ShiftsRefused(c) == c.mixed_shifts /\ \E i \in Registers(c) : c.sr_shift[i] # c.sr_shift[0]

(***************************************************************************)
(* The file of a description (get_best_bit_filename), and its lines.       *)
(* operator<< of DataElement spells "sr[0][3]" what read_file expects as   *)
(* "sr0[3]" (dataelement.cpp:109, bestbits.cpp:245).                        *)
(***************************************************************************)
Name(c)  == <<c.sr_shift, c.init_clock>>
File(c)  == files[Name(c)]
Spelling == {"sr[i][j]", "sri[j]"}
Written  == "sr[i][j]"
Parsed   == "sri[j]"
Bits(f)  == IF f = None THEN <<>> ELSE f.bits
Unread(f) == f # None /\ f.spelling = Written

---------------------------------------------------------------------------
Init ==
  /\ files = [n \in {Name(c) : c \in Descriptions} |-> None]
  /\ found = [n \in {Name(c) : c \in Descriptions} |-> <<>>]
  /\ runs = 0 /\ pc = "off"
  /\ cpd = None /\ from_file = FALSE /\ goal = 0 /\ debug = FALSE
  /\ guess_bits = 0 /\ varstoguess = <<>>
  /\ round = "before" /\ todo = {} /\ difficulty = Empty /\ lowest = None
  /\ test_no = 0
  /\ sr_state = {} /\ it = 1 /\ given_data = Empty /\ good_guess = TRUE /\ output = "none"

(* A run ends, normally or by a signal or an error of the file system; its *)
(* memory goes.                                                            *)
Ended ==
  /\ pc' = "off"
  /\ cpd' = None /\ from_file' = FALSE /\ goal' = 0 /\ debug' = FALSE
  /\ guess_bits' = 0 /\ varstoguess' = <<>>
  /\ round' = "before" /\ todo' = {} /\ difficulty' = Empty /\ lowest' = None
  /\ test_no' = 0
  /\ sr_state' = {} /\ it' = 1 /\ given_data' = Empty /\ good_guess' = TRUE
  /\ output' = "none"
  /\ UNCHANGED persistent
Stop == pc # "off" /\ Ended

(* Outside the program: the user spells a file as read_file expects it.    *)
Respell ==
  /\ pc = "off"
  /\ \E n \in DOMAIN files :
       /\ Unread(files[n])
       /\ files' = [files EXCEPT ![n].spelling = Parsed]
  /\ UNCHANGED <<found, runs, pc, options, guess_bits, varstoguess, search, test_no, test>>

---------------------------------------------------------------------------
(* --genDeterBits: GrainOfSalt(0, true) and its loop over best_bit_test.   *)

StartSearch ==
  /\ pc = "off" /\ runs < MaxRuns
  /\ runs' = runs + 1
  /\ cpd' \in Descriptions /\ goal' \in HelpBits \ {0} /\ from_file' = TRUE
  /\ pc' = IF ShiftsRefused(cpd') THEN "refused" ELSE "open"
  /\ UNCHANGED <<files, found, debug, guess_bits, varstoguess, search, test_no, test>>

(* write_best_bits_file: open truncates, and every line is flushed.        *)
(* Bug: the file is opened to append. *)
MutOpened(c) == [spelling |-> Written, bits |-> Bits(File(c))]
Opened(c)    == [spelling |-> Written, bits |-> <<>>]
OpenFile ==
  /\ pc = "open"
  /\ files' = [files EXCEPT ![Name(cpd)] = Opened(cpd)]
  /\ found' = [found EXCEPT ![Name(cpd)] = varstoguess]
  /\ pc' = "write" /\ it' = 1
  /\ UNCHANGED <<runs, options, guess_bits, varstoguess, search, test_no, sr_state,
                 given_data, good_guess, output>>

WriteLine ==
  /\ pc = "write" /\ it <= Len(varstoguess)
  /\ files' = [files EXCEPT ![Name(cpd)].bits = Append(@, varstoguess[it])]
  /\ it' = it + 1
  /\ UNCHANGED <<found, runs, pc, options, guess_bits, varstoguess, search, test_no,
                 sr_state, given_data, good_guess, output>>

(* Before the tests of a bit, or after them: the next one, if any.         *)
CloseFile ==
  /\ pc = "write" /\ it > Len(varstoguess)
  /\ \/ /\ round = "before"
        /\ pc' = "test"
        /\ todo' = {v \in Window(cpd) : v \notin Elements(varstoguess) /\ ~ Excluded(cpd, v)}
        /\ UNCHANGED <<persistent, options, guess_bits, varstoguess, round, difficulty,
                       lowest, test_no, test>>
     \/ /\ round = "after" /\ guess_bits < goal
        /\ pc' = "open" /\ round' = "before"
        /\ UNCHANGED <<persistent, options, guess_bits, varstoguess, todo, difficulty,
                       lowest, test_no, test>>
     \/ /\ round = "after" /\ guess_bits = goal
        /\ Ended

First(S) == CHOOSE v \in S : \A u \in S : v[1] < u[1] \/ (v[1] = u[1] /\ v[2] <= u[2])
(* Bug: the comparison is the wrong way round. *)
MutLower(v, n) == IF lowest = None \/ lowest.difficulty < n
                    THEN [bit |-> v, difficulty |-> n] ELSE lowest
Lower(v, n) == IF lowest = None \/ n < lowest.difficulty
                 THEN [bit |-> v, difficulty |-> n] ELSE lowest
(* Bug: the loop does not go on to the next bit. *)
MutRemaining(v) == todo
Remaining(v)    == todo \ {v}
TestBit ==
  /\ pc = "test" /\ todo # {}
  /\ LET v == First(todo) IN
     /\ todo' = Remaining(v)
     /\ \E n \in Difficulties :
          /\ difficulty' = Put(difficulty, v, n)
          /\ lowest' = Lower(v, n)
  /\ UNCHANGED <<persistent, pc, options, guess_bits, varstoguess, round, test_no, test>>

(* No bit was left to test: the assertion in bestbits.cpp:223 fails.       *)
(* Bug: the number of bits is not counted up. *)
MutCounted == guess_bits
Counted    == guess_bits + 1
Choose ==
  /\ pc = "test" /\ todo = {}
  /\ \/ /\ lowest = None
        /\ pc' = "assert"
        /\ UNCHANGED <<varstoguess, guess_bits, round, difficulty, lowest>>
     \/ /\ lowest # None
        /\ varstoguess' = Append(varstoguess, lowest.bit)
        /\ guess_bits' = Counted
        /\ pc' = "open" /\ round' = "after"
        /\ difficulty' = Empty /\ lowest' = None
  /\ UNCHANGED <<persistent, options, todo, test_no, test>>

---------------------------------------------------------------------------
(* --deterBits and --probBits: the bits are loaded once when GrainOfSalt   *)
(* is made, and once more before each problem, but not with --debug.       *)

StartGenerate ==
  /\ pc = "off" /\ runs < MaxRuns
  /\ runs' = runs + 1
  /\ cpd' \in Descriptions /\ guess_bits' \in HelpBits
  /\ from_file' \in BOOLEAN /\ debug' \in BOOLEAN
  /\ pc' = "reload"
  /\ UNCHANGED <<files, found, goal, varstoguess, search, test_no, test>>

Loaded == IF ShiftsRefused(cpd) THEN "refused" ELSE IF test_no = 0 THEN "ready" ELSE "state"

Enough(s) == Len(s) >= guess_bits
FirstLines(s) == SubSeq(s, 1, IF Len(s) < guess_bits THEN Len(s) ELSE guess_bits)
ReloadFile ==
  /\ pc = "reload" /\ ~ TooMany(cpd, guess_bits) /\ from_file
  /\ LET read == FirstLines(Bits(File(cpd))) IN
     \/ /\ guess_bits > 0 /\ File(cpd) = None
        /\ pc' = "refused" /\ UNCHANGED varstoguess
     \/ /\ read # <<>> /\ Unread(File(cpd))
        /\ pc' = "unparsed" /\ UNCHANGED varstoguess
     \/ /\ guess_bits = 0 \/ File(cpd) # None
        /\ read = <<>> \/ ~ Unread(File(cpd))
        /\ varstoguess' = read
        /\ pc' = IF ~ Enough(read)
                    \/ \E v \in Elements(read) : Excluded(cpd, v) \/ v \notin Window(cpd)
                 THEN "refused" ELSE Loaded
  /\ UNCHANGED <<persistent, options, guess_bits, search, test_no, test>>

ReloadRandom ==
  /\ pc = "reload" /\ ~ TooMany(cpd, guess_bits) /\ ~ from_file
  /\ varstoguess' = <<>> /\ pc' = "pick"
  /\ UNCHANGED <<persistent, options, guess_bits, search, test_no, test>>

Refuse ==
  /\ pc = "reload" /\ TooMany(cpd, guess_bits)
  /\ varstoguess' = <<>> /\ pc' = "refused"
  /\ UNCHANGED <<persistent, options, guess_bits, search, test_no, test>>

(* A bit that was drawn before or is excluded is drawn again.              *)
(* Bug: the bits drawn before are not looked at. *)
MutAccepted(v) == ~ Excluded(cpd, v)
Accepted(v) == v \notin Elements(varstoguess) /\ ~ Excluded(cpd, v)
PickStep ==
  /\ pc = "pick" /\ Len(varstoguess) < guess_bits
  /\ \E v \in Window(cpd) : Accepted(v) /\ varstoguess' = Append(varstoguess, v)
  /\ UNCHANGED <<persistent, pc, options, guess_bits, search, test_no, test>>

PickEnd ==
  /\ pc = "pick" /\ Len(varstoguess) = guess_bits
  /\ pc' = Loaded
  /\ UNCHANGED <<persistent, options, guess_bits, varstoguess, search, test_no, test>>

(* The loop of speed_test and debug. *)
NextTest ==
  /\ pc = "ready"
  /\ \/ /\ test_no < MaxTests
        /\ test_no' = test_no + 1
        /\ pc' = IF debug THEN "state" ELSE "reload"
        /\ output' = "none"
        /\ UNCHANGED <<persistent, options, guess_bits, varstoguess, search, sr_state, it,
                       given_data, good_guess>>
     \/ test_no = MaxTests /\ Ended

(* generate_random_state and Cipher::calculate_filters_and_states; only    *)
(* the bits that are guessed matter here.                                  *)
MakeState ==
  /\ pc = "state"
  /\ sr_state' \in SUBSET Elements(varstoguess)
  /\ it' = 1 /\ given_data' = Empty /\ good_guess' = TRUE
  /\ pc' = "guess"
  /\ UNCHANGED <<persistent, options, guess_bits, varstoguess, search, test_no, output>>

(* Bug: only the last guess counts. *)
MutStillGood(v, b) == b = (v \in sr_state)
StillGood(v, b)    == good_guess /\ b = (v \in sr_state)
GuessStep ==
  /\ pc = "guess" /\ it <= Len(varstoguess)
  /\ LET v == varstoguess[it] IN
     \E toguess \in BOOLEAN :
       /\ debug => toguess = (v \in sr_state)
       /\ given_data' = Put(given_data, v, toguess)
       /\ good_guess' = StillGood(v, toguess)
  /\ it' = it + 1
  /\ UNCHANGED <<persistent, pc, options, guess_bits, varstoguess, search, test_no,
                 sr_state, output>>

(* The problem and its ".output", which debug does not write.              *)
WriteOutput ==
  /\ pc = "guess" /\ it > Len(varstoguess)
  /\ output' = IF debug THEN "none" ELSE IF good_guess THEN "state" ELSE "UNSAT"
  /\ pc' = "ready"
  /\ UNCHANGED <<persistent, options, guess_bits, varstoguess, search, test_no, sr_state,
                 it, given_data, good_guess>>

---------------------------------------------------------------------------
Work ==
  \/ OpenFile \/ WriteLine \/ CloseFile \/ TestBit \/ Choose
  \/ ReloadFile \/ ReloadRandom \/ Refuse \/ PickStep \/ PickEnd
  \/ NextTest \/ MakeState \/ GuessStep \/ WriteOutput
Next == StartSearch \/ StartGenerate \/ Work \/ Stop \/ Respell

Spec     == Init /\ [][Next]_vars
FairSpec == Spec /\ WF_vars(Work)        \* a run that is not killed goes on
---------------------------------------------------------------------------
(***************************************************************************)
(* Type correctness.                                                       *)
(***************************************************************************)
AllBits == UNION {Window(c) : c \in Descriptions}
TypeOK ==
  /\ \A n \in DOMAIN files :
       files[n] = None \/ (files[n].spelling \in Spelling /\ files[n].bits \in Seq(AllBits))
  /\ pc \in {"off", "refused", "unparsed", "assert", "open", "write", "test", "reload",
             "pick", "ready", "state", "guess"}
  /\ cpd \in Descriptions \cup {None} /\ (cpd = None <=> pc = "off")
  /\ varstoguess \in Seq(AllBits) /\ todo \subseteq AllBits
  /\ pc \in {"open", "write"} => guess_bits = Len(varstoguess) /\ guess_bits <= goal
  /\ pc = "guess" => DOMAIN given_data \subseteq Elements(varstoguess)

(* The reference bits that the initialisation leaves free. *)
MayBeGuessed(c) ==
  {v \in UNION {{i} \X (c.sr_shift[i] .. c.sr_shift[i] + c.sr_size[i] - 1) : i \in Registers(c)} :
     c.init_clock > 0 => v[2] \notin c.fixed[v[1]]}

(***************************************************************************)
(* The bits that a problem is made with are as many as were asked for, all *)
(* different, reference bits of their register, and none of them is fixed  *)
(* by the initialisation: a guess never speaks of a bit twice and never    *)
(* contradicts a known one.                                                *)
(***************************************************************************)
GuessesUsable ==
  pc \in {"ready", "state", "guess"} =>
    /\ Len(varstoguess) = guess_bits
    /\ Cardinality(Elements(varstoguess)) = guess_bits
    /\ Elements(varstoguess) \subseteq MayBeGuessed(cpd)

(***************************************************************************)
(* Bits from the file are the best ones of the last search with these      *)
(* shifts and init_clock, in its order, whenever a search was killed; what *)
(* is left of an older search is never used.                               *)
(***************************************************************************)
LoadedAreBest ==
  pc \in {"ready", "state", "guess"} /\ from_file =>
    /\ guess_bits <= Len(found[Name(cpd)])
    /\ varstoguess = SubSeq(found[Name(cpd)], 1, guess_bits)

(***************************************************************************)
(* The search takes a bit that no other bit, of all that may be guessed    *)
(* and are not taken yet, is cheaper than (bestbits.h:51).                 *)
(***************************************************************************)
ChosenIsLowest ==
  [][Len(varstoguess') > Len(varstoguess) /\ goal > 0 =>
       LET v == varstoguess'[Len(varstoguess')] IN
       /\ DOMAIN difficulty = MayBeGuessed(cpd) \ Elements(varstoguess)
       /\ \A u \in DOMAIN difficulty : difficulty[v] <= difficulty[u]]_vars

(***************************************************************************)
(* The draw of the bits "doesn't hang" (bestbits.cpp:121): while one is    *)
(* missing, there is one that is accepted.                                 *)
(***************************************************************************)
NeverStuck ==
  pc = "pick" /\ Len(varstoguess) < guess_bits => \E v \in Window(cpd) : Accepted(v)

(***************************************************************************)
(* The search runs out of bits, and the assertion in bestbits.cpp:223      *)
(* fails, only if more were asked for than may be guessed.                 *)
(***************************************************************************)
EnoughCandidates == pc = "assert" => goal > Cardinality(MayBeGuessed(cpd))

(***************************************************************************)
(* The ".output" file says UNSAT exactly when one of the bits given to the *)
(* problem is not what it is in the simulated run, whichever of the        *)
(* guesses it is (grain-of-salt.cpp:159-183).  That no other state fits    *)
(* the outputs is not claimed here.                                        *)
(***************************************************************************)
ClaimRight ==
  output # "none" =>
    (output = "UNSAT" <=> \E v \in DOMAIN given_data : given_data[v] # (v \in sr_state))

(***************************************************************************)
(* A search that is not killed comes to an end (main.cpp:306): the bits    *)
(* that are left to test, and those still to be found, get fewer.          *)
(***************************************************************************)
SearchEnds == (pc = "open") ~> (pc \in {"off", "assert"})

(***************************************************************************)
(* deterBits: "Set thie many of the variables that have been determined to *)
(* be 'best bits'" (main.cpp:61): what the program wrote, it can read.     *)
(***************************************************************************)
ReadsWhatItWrote == pc # "unparsed"
==========================================================================
