-------------------------- MODULE BestBitsProofs --------------------------
(***************************************************************************)
(* For all descriptions, any number of runs of the program, each of them   *)
(* killed anywhere, and any number of problems: the bits that are guessed  *)
(* can be guessed, those from the file are the best ones of one search,    *)
(* the ".output" file claims what the guesses say, and a draw of bits does *)
(* not hang for want of one.                                               *)
(***************************************************************************)
EXTENDS BestBits, OrdersProofs, SequenceTheorems

Names      == {Name(c) : c \in Descriptions}
FileRecord == [spelling : Spelling, bits : Seq(AllBits)]
Distinct(s)  == \A j, k \in 1 .. Len(s) : s[j] = s[k] => j = k
Prefix(s, t) == Len(s) <= Len(t) /\ \A k \in 1 .. Len(s) : s[k] = t[k]

(***************************************************************************)
(* The invariant.  A file is always a prefix of the list that the last     *)
(* search was about to write, and while it is written, of the search's own *)
(* list; no list has a bit twice.                                          *)
(***************************************************************************)
FilesInv ==
  /\ files \in [Names -> {None} \cup FileRecord]
  /\ found \in [Names -> Seq(AllBits)]
  /\ \A n \in Names : Prefix(Bits(files[n]), found[n]) /\ Distinct(found[n])

Pcs == {"off", "refused", "unparsed", "assert", "open", "write", "test", "reload",
        "pick", "ready", "state", "guess"}
RunInv ==
  /\ pc \in Pcs /\ cpd \in Descriptions \cup {None} /\ (cpd = None <=> pc = "off")
  /\ guess_bits \in Nat /\ goal \in Nat /\ it \in Nat \ {0}
  /\ round \in {"before", "after"} /\ output \in {"none", "state", "UNSAT"}
  /\ varstoguess \in Seq(AllBits) /\ Distinct(varstoguess)
  /\ pc = "off" => /\ varstoguess = <<>> /\ guess_bits = 0 /\ round = "before"
                   /\ lowest = None

(* The bits that have been found and, between two, the one to be found.    *)
Open(c, s) == Window(c) \ Elements(s)
SearchInv ==
  /\ pc \in {"open", "write", "test"} => guess_bits = Len(varstoguess) /\ guess_bits <= goal
  /\ pc = "test" \/ (pc \in {"open", "write"} /\ round = "before") => guess_bits < goal
  /\ pc = "write" => /\ files[Name(cpd)] \in FileRecord /\ found[Name(cpd)] = varstoguess
                     /\ Len(files[Name(cpd)].bits) = it - 1
  /\ pc \in {"open", "write"} => lowest = None
  /\ todo \subseteq AllBits
  /\ pc = "test" => /\ todo \subseteq Open(cpd, varstoguess)
                    /\ lowest # None => lowest.bit \in Open(cpd, varstoguess)

(* The bits that have been loaded or drawn. *)
Free(c) == {v \in Window(c) : ~ Excluded(c, v)}
LoadInv ==
  /\ pc \in {"pick", "ready", "state", "guess"} => Elements(varstoguess) \subseteq Free(cpd)
  /\ pc \in {"ready", "state", "guess"} => Len(varstoguess) = guess_bits
  /\ pc = "pick" => ~ from_file /\ Len(varstoguess) <= guess_bits
  /\ LoadedAreBest

AllRight == \A v \in DOMAIN given_data : given_data[v] = (v \in sr_state)
ClaimInv ==
  /\ pc \in {"off", "reload", "pick", "state", "guess"} => output = "none"
  /\ pc = "guess" => /\ it <= Len(varstoguess) + 1
                     /\ DOMAIN given_data = {varstoguess[k] : k \in 1 .. it - 1}
                     /\ good_guess <=> AllRight
  /\ output # "none" => (output = "UNSAT" <=> ~ AllRight)

(* What the bits of a search cost, and the cheapest so far. *)
Cheapest == /\ lowest.bit \in DOMAIN difficulty
            /\ lowest.difficulty = difficulty[lowest.bit]
            /\ \A u \in DOMAIN difficulty : lowest.difficulty <= difficulty[u]
CostInv ==
  /\ pc \in {"off", "reload", "pick", "ready", "state", "guess"} => goal = 0
  /\ pc \in {"off", "open", "write"} => difficulty = Empty
  /\ pc = "test" => /\ DOMAIN difficulty \cup todo = Free(cpd) \ Elements(varstoguess)
                    /\ DOMAIN difficulty \cap todo = {}
                    /\ \A u \in DOMAIN difficulty : difficulty[u] \in Nat
                    /\ lowest = None => DOMAIN difficulty = {}
                    /\ lowest # None => Cheapest
  /\ EnoughCandidates

IInv == FilesInv /\ RunInv /\ SearchInv /\ LoadInv /\ ClaimInv /\ CostInv

---------------------------------------------------------------------------
(* Lists of bits. *)

(* The elements of a list are those at its positions.                      *)
LEMMA ElementsOf ==
  ASSUME NEW S, NEW s \in Seq(S)
  PROVE  Elements(s) = {s[k] : k \in 1 .. Len(s)} /\ Elements(s) \subseteq S
BY LenProperties, ElementOfSeq DEF Elements

(* The empty list has no bit, and none twice.                              *)
LEMMA EmptyList ==
  /\ <<>> \in Seq(AllBits) /\ Len(<<>>) = 0
  /\ Distinct(<<>>) /\ Elements(<<>>) = {}
<1>1. <<>> \in Seq(AllBits) /\ Len(<<>>) = 0 /\ 1 .. 0 = {}
  BY EmptySeq
<1>2. DOMAIN <<>> = {}
  BY <1>1, LenProperties
<1>3. Elements(<<>>) = {}
  BY <1>2 DEF Elements
<1> QED BY <1>1, <1>3 DEF Distinct

(* A bit that is not in the list can be added to it. *)
LEMMA AppendNew ==
  ASSUME NEW S, NEW s \in Seq(S), NEW v \in S \ Elements(s), Distinct(s)
  PROVE  /\ Append(s, v) \in Seq(S) /\ Distinct(Append(s, v))
         /\ Len(Append(s, v)) = Len(s) + 1
         /\ Elements(Append(s, v)) = Elements(s) \cup {v}
<1>1. /\ Append(s, v) \in Seq(S) /\ Len(Append(s, v)) = Len(s) + 1
      /\ \A i \in 1 .. Len(s) : Append(s, v)[i] = s[i]
      /\ Append(s, v)[Len(s) + 1] = v /\ Len(s) \in Nat
  BY AppendProperties, LenProperties
<1>2. Elements(s) = {s[k] : k \in 1 .. Len(s)}
      /\ Elements(Append(s, v)) = {Append(s, v)[k] : k \in 1 .. Len(s) + 1}
  BY <1>1, ElementsOf
<1>3. 1 .. Len(s) + 1 = (1 .. Len(s)) \cup {Len(s) + 1}
  BY <1>1
<1>4. Elements(Append(s, v)) = Elements(s) \cup {v}
  BY <1>1, <1>2, <1>3
<1>5. ASSUME NEW j \in 1 .. Len(s) + 1, NEW k \in 1 .. Len(s) + 1,
             Append(s, v)[j] = Append(s, v)[k]
      PROVE  j = k
  BY <1>1, <1>2, <1>3, <1>5 DEF Distinct
<1> QED BY <1>1, <1>4, <1>5 DEF Distinct

(* A list without repetitions has as many elements as places. *)
LEMMA CountDistinct ==
  ASSUME NEW S, NEW s \in Seq(S), Distinct(s)
  PROVE  IsFiniteSet(Elements(s)) /\ Cardinality(Elements(s)) = Len(s)
<1>1. Len(s) \in Nat /\ s \in [1 .. Len(s) -> Elements(s)]
  BY LenProperties, ElementsOf
<1>2. s \in Bijection(1 .. Len(s), Elements(s))
  BY <1>1, ElementsOf DEF Distinct, Bijection, Injection, Surjection, IsInjective
<1>3. ExistsBijection(1 .. Len(s), Elements(s))
  BY <1>2 DEF ExistsBijection
<1> QED BY <1>1, <1>3, FS_CountingElements, FS_NatBijection

(* A prefix of a list is one of the list with a bit appended.              *)
LEMMA PrefixAppend ==
  ASSUME NEW S, NEW s \in Seq(S), NEW t \in Seq(S), Prefix(s, t), Len(s) < Len(t)
  PROVE  Prefix(Append(s, t[Len(s) + 1]), t)
<1>1. Len(s) \in Nat /\ Len(t) \in Nat
  BY LenProperties
<1>2. t[Len(s) + 1] \in S
  BY <1>1, ElementOfSeq
<1> QED BY <1>1, <1>2, AppendProperties DEF Prefix

(* What read_file returns of a file that is a prefix of t. *)
LEMMA FirstLinesOf ==
  ASSUME NEW S, NEW s \in Seq(S), NEW t \in Seq(S), Prefix(s, t), Distinct(t),
         guess_bits \in Nat
  PROVE  /\ FirstLines(s) \in Seq(S) /\ Distinct(FirstLines(s))
         /\ Enough(FirstLines(s)) => /\ Len(FirstLines(s)) = guess_bits
                                     /\ guess_bits <= Len(t)
                                     /\ FirstLines(s) = SubSeq(t, 1, guess_bits)
<1> DEFINE n == IF Len(s) < guess_bits THEN Len(s) ELSE guess_bits
<1>1. Len(s) \in Nat /\ Len(t) \in Nat /\ n \in Nat /\ n <= Len(s) /\ n <= guess_bits
      /\ n <= Len(t)
  BY LenProperties DEF Prefix
<1>2. \A i \in 1 .. n : s[i] \in S /\ t[i] \in S /\ s[i] = t[i]
  BY <1>1, ElementOfSeq DEF Prefix
<1> HIDE DEF n
<1>3. /\ SubSeq(s, 1, n) \in Seq(S) /\ Len(SubSeq(s, 1, n)) = n
      /\ \A i \in 1 .. n : SubSeq(s, 1, n)[i] = s[i]
  BY <1>1, <1>2, SubSeqProperties
<1>4. /\ SubSeq(t, 1, n) \in Seq(S) /\ Len(SubSeq(t, 1, n)) = n
      /\ \A i \in 1 .. n : SubSeq(t, 1, n)[i] = t[i]
  BY <1>1, <1>2, SubSeqProperties
<1>5. FirstLines(s) = SubSeq(s, 1, n)
  BY DEF FirstLines, n
<1>6. SubSeq(s, 1, n) = SubSeq(t, 1, n)
  BY <1>2, <1>3, <1>4, SeqEqual
<1>7. Distinct(SubSeq(s, 1, n))
  BY <1>1, <1>2, <1>3 DEF Distinct
<1>8. Enough(FirstLines(s)) => n = guess_bits
  BY <1>1, <1>3, <1>5 DEF Enough
<1> QED BY <1>1, <1>3, <1>5, <1>6, <1>7, <1>8

---------------------------------------------------------------------------
(* Bits. *)

(* The bits that may be guessed are bits of the registers.                 *)
LEMMA WindowBits ==
  ASSUME NEW c \in Descriptions
  PROVE  /\ Window(c) \subseteq AllBits /\ Free(c) \subseteq Window(c)
         /\ Free(c) = MayBeGuessed(c)
<1>1. \A i \in Registers(c) : c.sr_size[i] \in Nat \ {0} /\ c.sr_shift[i] \in Nat
  BY BestBitsAssumption DEF Registers
<1>2. Window(c) \subseteq AllBits /\ Free(c) \subseteq Window(c)
  BY DEF AllBits, Free
<1> DEFINE W == UNION {{i} \X (c.sr_shift[i] .. c.sr_shift[i] + c.sr_size[i] - 1) :
                         i \in Registers(c)}
<1>3. ASSUME NEW v PROVE v \in Window(c) <=> v \in W
  <2>1. v \in Window(c) => v \in W
    BY <1>1 DEF Window
  <2>2. ASSUME v \in W PROVE v \in Window(c)
    <3>1. PICK i \in Registers(c) :
            v \in {i} \X (c.sr_shift[i] .. c.sr_shift[i] + c.sr_size[i] - 1)
      BY <2>2
    <3>2. v = <<i, c.sr_shift[i] + (v[2] - c.sr_shift[i])>>
          /\ v[2] - c.sr_shift[i] \in 0 .. c.sr_size[i] - 1
      BY <1>1, <3>1
    <3> QED BY <3>2 DEF Window
  <2> QED BY <2>1, <2>2
<1>4. \A v : Excluded(c, v) <=> c.init_clock > 0 /\ v[2] \in c.fixed[v[1]]
  BY DEF Excluded, var_in_impossible_position
<1>5. Free(c) = MayBeGuessed(c)
  <2>1. Free(c) = {v \in W : ~ Excluded(c, v)}
    BY <1>3 DEF Free
  <2>2. MayBeGuessed(c) = {v \in W : c.init_clock > 0 => v[2] \notin c.fixed[v[1]]}
    BY DEF MayBeGuessed
  <2> QED BY <1>4, <2>1, <2>2
<1> QED BY <1>2, <1>5

(* There is a first bit among those that are left. *)
LEMMA FirstIn ==
  ASSUME NEW S \in SUBSET AllBits, S # {}
  PROVE  First(S) \in S
<1>1. ASSUME NEW v \in S PROVE v[1] \in Nat /\ v[2] \in Nat
  <2>1. PICK c \in Descriptions : v \in Window(c)
    BY DEF AllBits
  <2>2. PICK i \in Registers(c) : \E k \in 0 .. c.sr_size[i] - 1 : v = <<i, c.sr_shift[i] + k>>
    BY <2>1 DEF Window
  <2>3. i \in Nat /\ c.sr_size[i] \in Nat /\ c.sr_shift[i] \in Nat
    BY BestBitsAssumption DEF Registers
  <2> QED BY <2>2, <2>3
<1> DEFINE T == {v[1] : v \in S}
<1>2. PICK x \in T : \A y \in T : x <= y
  <2>1. T \in SUBSET Nat /\ T # {}
    BY <1>1
  <2> QED BY <2>1, LeastNat
<1> DEFINE R == {v[2] : v \in {u \in S : u[1] = x}}
<1>3. PICK z \in R : \A y \in R : z <= y
  <2>1. R \in SUBSET Nat /\ R # {}
    BY <1>1, <1>2
  <2> QED BY <2>1, LeastNat
<1>4. PICK v \in S : v[1] = x /\ v[2] = z
  BY <1>3
<1>5. ASSUME NEW u \in S PROVE v[1] < u[1] \/ (v[1] = u[1] /\ v[2] <= u[2])
  <2>1. v[1] <= u[1] /\ v[1] \in Nat /\ u[1] \in Nat
    BY <1>1, <1>2, <1>4
  <2>2. u[1] = x => v[2] <= u[2]
    BY <1>3, <1>4
  <2> QED BY <1>4, <2>1, <2>2
<1> QED BY <1>5 DEF First
---------------------------------------------------------------------------
(* The steps, one part of the invariant after the other.                   *)

(* A file that is there is not None.                                       *)
LEMMA NoFile == \A f \in FileRecord : f # None /\ Bits(f) = f.bits
<1>1. ASSUME NEW f \in FileRecord, f = None PROVE FALSE
  <2>1. DOMAIN f = {"spelling", "bits"} /\ DOMAIN f = {"none"}
    BY <1>1 DEF FileRecord, None
  <2> QED BY <2>1
<1> QED BY <1>1 DEF Bits

(* A measured bit is not None.                                             *)
LEMMA NotNone == \A v, n : [bit |-> v, difficulty |-> n] # None
<1>1. ASSUME NEW v, NEW n, [bit |-> v, difficulty |-> n] = None PROVE FALSE
  <2>1. DOMAIN [bit |-> v, difficulty |-> n] = DOMAIN None
    BY <1>1
  <2> QED BY <2>1 DEF None
<1> QED BY <1>1

(* A running program has a description. *)
LEMMA Running ==
  ASSUME RunInv, pc # "off"
  PROVE  cpd \in Descriptions /\ Name(cpd) \in Names
BY DEF RunInv, Names

(* The invariant holds before the first run.                               *)
LEMMA InitInv == Init => IInv
<1> SUFFICES ASSUME Init PROVE IInv OBVIOUS
<1> USE DEF Init
<1>1. FilesInv
  BY EmptyList DEF FilesInv, Names, Prefix, Bits
<1>2. RunInv
  <2>1. pc \in Pcs /\ cpd \in Descriptions \cup {None} /\ (cpd = None <=> pc = "off")
    BY DEF Pcs
  <2>2. /\ guess_bits \in Nat /\ goal \in Nat /\ it \in Nat \ {0}
    OBVIOUS
  <2>3. /\ round \in {"before", "after"} /\ output \in {"none", "state", "UNSAT"}
    OBVIOUS
  <2>4. varstoguess \in Seq(AllBits) /\ Distinct(varstoguess)
    BY EmptyList
  <2>5. pc = "off" => /\ varstoguess = <<>> /\ guess_bits = 0 /\ round = "before"
                   /\ lowest = None
     OBVIOUS
  <2> QED BY <2>1, <2>2, <2>3, <2>4, <2>5 DEF RunInv
<1>3. SearchInv /\ LoadInv /\ ClaimInv /\ CostInv
  BY DEF SearchInv, LoadInv, ClaimInv, LoadedAreBest, CostInv, EnoughCandidates
<1> QED BY <1>1, <1>2, <1>3 DEF IInv

(* After the end of a run there is only what outlives it. *)
LEMMA AfterEnd ==
  ASSUME IInv, Ended
  PROVE  RunInv' /\ SearchInv' /\ LoadInv' /\ ClaimInv' /\ CostInv'
<1> USE DEF Ended
<1>1. RunInv'
  <2>1. pc' \in Pcs /\ cpd' = None
    BY DEF Pcs
  <2>2. varstoguess' \in Seq(AllBits) /\ Distinct(varstoguess')
    BY EmptyList
  <2>3. /\ guess_bits' \in Nat /\ goal' \in Nat /\ it' \in Nat \ {0}
        /\ round' \in {"before", "after"} /\ output' \in {"none", "state", "UNSAT"}
    OBVIOUS
  <2> QED BY <2>1, <2>2, <2>3 DEF RunInv
<1>2. pc' = "off" /\ todo' = {} /\ output' = "none" /\ goal' = 0 /\ difficulty' = Empty
  OBVIOUS
<1>3. SearchInv' /\ LoadInv' /\ ClaimInv' /\ CostInv'
  BY <1>2 DEF SearchInv, LoadInv, LoadedAreBest, ClaimInv, CostInv, EnoughCandidates
<1> QED BY <1>1, <1>3

(* Every step keeps FilesInv: what is on disk is a prefix.                 *)
LEMMA NextFiles ==
  ASSUME IInv, [Next]_vars
  PROVE  FilesInv'
<1> USE DEF IInv
<1>1. CASE OpenFile
  <2>1. Name(cpd) \in Names /\ varstoguess \in Seq(AllBits) /\ Distinct(varstoguess)
    BY <1>1, Running DEF OpenFile, RunInv
  <2>2. Opened(cpd) \in FileRecord /\ Bits(Opened(cpd)) = <<>>
    <3>1. Opened(cpd) = [spelling |-> Written, bits |-> <<>>]
      BY DEF Opened
    <3>2. Opened(cpd) \in FileRecord /\ Opened(cpd).bits = <<>>
      BY <3>1, EmptyList DEF FileRecord, Spelling, Written
    <3> QED BY <3>2, NoFile
  <2>3. Prefix(<<>>, varstoguess)
    BY <2>1, LenProperties DEF Prefix
  <2> QED BY <1>1, <2>1, <2>2, <2>3 DEF OpenFile, FilesInv
<1>2. CASE WriteLine
  <2> DEFINE f == files[Name(cpd)]
             g == [f EXCEPT !.bits = Append(f.bits, varstoguess[it])]
  <2>1. /\ Name(cpd) \in Names /\ f \in FileRecord
        /\ found[Name(cpd)] = varstoguess /\ varstoguess \in Seq(AllBits)
        /\ Len(f.bits) + 1 = it /\ it \in 1 .. Len(varstoguess)
    BY <1>2, Running, LenProperties DEF WriteLine, SearchInv, RunInv
  <2>2. f.bits \in Seq(AllBits) /\ varstoguess[it] \in AllBits /\ f.spelling \in Spelling
    BY <2>1, ElementOfSeq DEF FileRecord
  <2>3. Append(f.bits, varstoguess[it]) \in Seq(AllBits)
    BY <2>2, AppendProperties
  <2>4. g \in FileRecord /\ g.bits = Append(f.bits, varstoguess[it])
    <3> HIDE DEF f
    <3> QED BY <2>1, <2>3 DEF FileRecord, Spelling
  <2> HIDE DEF f, g
  <2>5. Prefix(f.bits, varstoguess)
    BY <2>1, NoFile DEF FilesInv, f
  <2>6. Prefix(Bits(g), varstoguess)
    <3>1. Len(f.bits) < Len(varstoguess)
      BY <2>1, <2>2, LenProperties
    <3>2. Prefix(Append(f.bits, varstoguess[Len(f.bits) + 1]), varstoguess)
      BY <2>1, <2>2, <2>5, <3>1, PrefixAppend
    <3> QED BY <2>1, <2>4, <3>2, NoFile
  <2>7. files' = [files EXCEPT ![Name(cpd)] = g] /\ found' = found
    BY <1>2 DEF WriteLine, f, g
  <2> QED BY <2>1, <2>4, <2>6, <2>7 DEF FilesInv, f
<1>3. CASE Respell
  <2>1. PICK n \in DOMAIN files : /\ Unread(files[n])
                                 /\ files' = [files EXCEPT ![n].spelling = Parsed]
    BY <1>3 DEF Respell
  <2> DEFINE g == [files[n] EXCEPT !.spelling = Parsed]
  <2>2. n \in Names /\ files[n] \in FileRecord
    BY <2>1 DEF FilesInv, Unread
  <2>3. g \in FileRecord /\ g.bits = files[n].bits
    BY <2>2 DEF FileRecord, Parsed, Spelling
  <2>4. files' = [files EXCEPT ![n] = g] /\ found' = found
    BY <1>3, <2>1 DEF Respell
  <2> HIDE DEF g
  <2>5. Bits(g) = Bits(files[n])
    BY <2>2, <2>3, NoFile
  <2> QED BY <2>2, <2>3, <2>4, <2>5 DEF FilesInv
<1>4. CASE files' = files /\ found' = found
  BY <1>4 DEF FilesInv
<1>5. OpenFile \/ WriteLine \/ Respell \/ (files' = files /\ found' = found)
  BY DEF Next, Work, vars, persistent, Ended, Stop, StartSearch, CloseFile, TestBit, Choose,
         StartGenerate, ReloadFile, ReloadRandom, Refuse, PickStep, PickEnd, NextTest,
         MakeState, GuessStep, WriteOutput
<1> QED BY <1>1, <1>2, <1>3, <1>4, <1>5

(* The list that is loaded from a file. *)
LEMMA LoadedList ==
  ASSUME IInv, pc # "off"
  PROVE  LET read == FirstLines(Bits(File(cpd)))
             best == found[Name(cpd)]
         IN  /\ read \in Seq(AllBits) /\ Distinct(read)
             /\ Enough(read) => /\ Len(read) = guess_bits /\ guess_bits <= Len(best)
                                /\ read = SubSeq(best, 1, guess_bits)
<1>1. Name(cpd) \in Names /\ guess_bits \in Nat
  BY Running DEF IInv, RunInv
<1>2. Bits(File(cpd)) \in Seq(AllBits)
  BY <1>1, EmptyList, NoFile DEF IInv, FilesInv, File, FileRecord, Bits
<1>3. /\ found[Name(cpd)] \in Seq(AllBits)
      /\ Prefix(Bits(File(cpd)), found[Name(cpd)]) /\ Distinct(found[Name(cpd)])
  BY <1>1 DEF IInv, FilesInv, File
<1> QED BY <1>1, <1>2, <1>3, FirstLinesOf

(* Every step keeps RunInv: the list of the run in progress.               *)
LEMMA NextRun ==
  ASSUME IInv, [Next]_vars
  PROVE  RunInv'
<1> USE DEF IInv, RunInv, Pcs, vars, persistent, options, search, test
<1>1. CASE StartSearch
  BY <1>1, BestBitsAssumption DEF StartSearch
<1>2. CASE StartGenerate
  BY <1>2, BestBitsAssumption DEF StartGenerate
<1>3. CASE OpenFile
  BY <1>3 DEF OpenFile
<1>4. CASE WriteLine
  BY <1>4 DEF WriteLine
<1>5. CASE CloseFile
  <2>1. CASE Ended
    BY <2>1, AfterEnd
  <2>2. CASE round = "before"
    BY <1>5, <2>2 DEF CloseFile
  <2>3. CASE round = "after" /\ guess_bits < goal
    BY <1>5, <2>3 DEF CloseFile
  <2> QED BY <1>5, <2>1, <2>2, <2>3 DEF CloseFile
<1>6. CASE TestBit
  BY <1>6 DEF TestBit
<1>7. CASE Choose
  <2>1. CASE lowest = None
    BY <1>7, <2>1 DEF Choose
  <2>2. CASE lowest # None
    <3>1. cpd \in Descriptions /\ lowest.bit \in AllBits \ Elements(varstoguess)
      BY <1>7, <2>2, Running, WindowBits DEF Choose, SearchInv, Open
    <3>2. Append(varstoguess, lowest.bit) \in Seq(AllBits)
          /\ Distinct(Append(varstoguess, lowest.bit))
      BY <3>1, AppendNew
    <3>3. /\ varstoguess' = Append(varstoguess, lowest.bit)
          /\ guess_bits' = guess_bits + 1 /\ pc' = "open" /\ round' = "after"
          /\ UNCHANGED <<cpd, goal, it, output>>
      BY <1>7, <2>2 DEF Choose, Counted
    <3> QED BY <1>7, <3>2, <3>3 DEF Choose
  <2> QED BY <2>1, <2>2
<1>8. CASE ReloadFile
  <2> DEFINE read == FirstLines(Bits(File(cpd)))
  <2>1. read \in Seq(AllBits) /\ Distinct(read)
    BY <1>8, LoadedList DEF ReloadFile
  <2>2. /\ varstoguess' \in {varstoguess, read}
        /\ pc' \in {"refused", "unparsed", "ready", "state"}
    BY <1>8 DEF ReloadFile, Loaded
  <2> HIDE DEF read
  <2> QED BY <1>8, <2>1, <2>2 DEF ReloadFile
<1>9. CASE ReloadRandom
  BY <1>9, EmptyList DEF ReloadRandom
<1>10. CASE Refuse
  BY <1>10, EmptyList DEF Refuse
<1>11. CASE PickStep
  <2>1. PICK v \in Window(cpd) : Accepted(v) /\ varstoguess' = Append(varstoguess, v)
    BY <1>11 DEF PickStep
  <2>2. v \in AllBits \ Elements(varstoguess)
    BY <1>11, <2>1, Running, WindowBits DEF PickStep, Accepted
  <2>3. varstoguess' \in Seq(AllBits) /\ Distinct(varstoguess')
    BY <2>1, <2>2, AppendNew
  <2> QED BY <1>11, <2>3 DEF PickStep
<1>12. CASE PickEnd
  BY <1>12 DEF PickEnd, Loaded
<1>13. CASE NextTest
  <2>1. CASE Ended
    BY <2>1, AfterEnd
  <2>2. CASE ~ Ended
    <3>1. pc' \in {"state", "reload"} /\ output' = "none"
      BY <1>13, <2>2 DEF NextTest
    <3> QED BY <1>13, <2>2, <3>1 DEF NextTest
  <2> QED BY <1>13, <2>1, <2>2 DEF NextTest
<1>14. CASE MakeState
  BY <1>14 DEF MakeState
<1>15. CASE GuessStep
  BY <1>15 DEF GuessStep, StillGood
<1>16. CASE WriteOutput
  BY <1>16 DEF WriteOutput
<1>17. CASE Stop
  BY <1>17, AfterEnd DEF Stop
<1>18. CASE Respell
  BY <1>18 DEF Respell
<1>19. CASE UNCHANGED vars
  BY <1>19
<1> QED BY <1>1, <1>2, <1>3, <1>4, <1>5, <1>6, <1>7, <1>8, <1>9, <1>10, <1>11, <1>12,
           <1>13, <1>14, <1>15, <1>16, <1>17, <1>18, <1>19 DEF Next, Work

(* Every step keeps SearchInv: the list of the search.                     *)
LEMMA NextSearch ==
  ASSUME IInv, [Next]_vars
  PROVE  SearchInv'
<1> USE DEF IInv, SearchInv, vars, persistent, options, search, test
<1>1. CASE StartSearch
  <2>1. goal' \in Nat \ {0} /\ guess_bits' = 0 /\ varstoguess' = <<>> /\ pc' \in {"refused", "open"}
    BY <1>1, BestBitsAssumption DEF StartSearch, RunInv
  <2> QED BY <1>1, <2>1, EmptyList DEF StartSearch, RunInv
<1>2. CASE StartGenerate
  BY <1>2 DEF StartGenerate
<1>3. CASE OpenFile
  <2>1. Name(cpd) \in Names /\ files \in [Names -> {None} \cup FileRecord]
        /\ found \in [Names -> Seq(AllBits)]
    BY <1>3, Running DEF OpenFile, FilesInv
  <2>2. Opened(cpd) \in FileRecord /\ Opened(cpd).bits = <<>>
    <3>1. Opened(cpd) = [spelling |-> Written, bits |-> <<>>]
      BY DEF Opened
    <3> QED BY <3>1, EmptyList DEF FileRecord, Spelling, Written
  <2>3. files'[Name(cpd)] = Opened(cpd) /\ found'[Name(cpd)] = varstoguess
    BY <1>3, <2>1 DEF OpenFile
  <2> QED BY <1>3, <2>2, <2>3, EmptyList DEF OpenFile
<1>4. CASE WriteLine
  <2> DEFINE f == files[Name(cpd)]
             g == [f EXCEPT !.bits = Append(f.bits, varstoguess[it])]
  <2>1. /\ Name(cpd) \in Names /\ f \in FileRecord
        /\ files \in [Names -> {None} \cup FileRecord]
        /\ varstoguess[it] \in AllBits /\ it \in Nat
    BY <1>4, Running, LenProperties, ElementOfSeq DEF WriteLine, RunInv, FilesInv
  <2>2. f.bits \in Seq(AllBits)
    BY <2>1 DEF FileRecord
  <2>3. Append(f.bits, varstoguess[it]) \in Seq(AllBits)
        /\ Len(Append(f.bits, varstoguess[it])) = Len(f.bits) + 1
    BY <2>1, <2>2, AppendProperties
  <2>4. g \in FileRecord /\ g.bits = Append(f.bits, varstoguess[it])
    <3> HIDE DEF f
    <3> QED BY <2>1, <2>3 DEF FileRecord, Spelling
  <2>5. files'[Name(cpd)] = g
    BY <1>4, <2>1 DEF WriteLine
  <2>6. Len(g.bits) = it' - 1
    BY <1>4, <2>1, <2>3, <2>4 DEF WriteLine
  <2> HIDE DEF f, g
  <2> QED BY <1>4, <2>4, <2>5, <2>6 DEF WriteLine
<1>5. CASE CloseFile
  <2>1. CASE Ended
    BY <2>1, AfterEnd
  <2>2. CASE round = "before" /\ ~ Ended
    <3>1. todo' \subseteq Open(cpd, varstoguess) /\ Open(cpd, varstoguess) \subseteq AllBits
      BY <1>5, <2>2, Running, WindowBits DEF CloseFile, Open
    <3> QED BY <1>5, <2>2, <3>1 DEF CloseFile
  <2>3. CASE round = "after" /\ guess_bits < goal /\ ~ Ended
    BY <1>5, <2>3 DEF CloseFile
  <2> QED BY <1>5, <2>1, <2>2, <2>3 DEF CloseFile
<1>6. CASE TestBit
  <2> DEFINE v == First(todo)
  <2>1. v \in todo /\ v \in Open(cpd, varstoguess)
    BY <1>6, FirstIn DEF TestBit
  <2>2. PICK n \in Difficulties : lowest' = Lower(v, n)
    BY <1>6 DEF TestBit
  <2>3. lowest' # None => lowest'.bit \in Open(cpd, varstoguess)
    BY <1>6, <2>1, <2>2 DEF TestBit, Lower
  <2>4. todo' \subseteq todo
    BY <1>6 DEF TestBit, Remaining
  <2> QED BY <1>6, <2>3, <2>4 DEF TestBit
<1>7. CASE Choose
  <2>1. CASE lowest = None
    BY <1>7, <2>1 DEF Choose
  <2>2. CASE lowest # None
    <3>1. cpd \in Descriptions /\ lowest.bit \in AllBits \ Elements(varstoguess)
      BY <1>7, <2>2, Running, WindowBits DEF Choose, Open
    <3>2. Len(Append(varstoguess, lowest.bit)) = Len(varstoguess) + 1
      BY <3>1, AppendNew DEF RunInv
    <3>3. /\ varstoguess' = Append(varstoguess, lowest.bit)
          /\ guess_bits' = guess_bits + 1 /\ pc' = "open" /\ round' = "after"
          /\ lowest' = None /\ UNCHANGED <<goal, todo>>
      BY <1>7, <2>2 DEF Choose, Counted
    <3>4. guess_bits \in Nat /\ goal \in Nat /\ guess_bits < goal
          /\ guess_bits = Len(varstoguess)
      BY <1>7 DEF Choose, RunInv
    <3> QED BY <1>7, <3>2, <3>3, <3>4 DEF Choose
  <2> QED BY <2>1, <2>2
<1>8. CASE ReloadFile
  <2>1. pc' \in {"refused", "unparsed", "ready", "state"}
    BY <1>8 DEF ReloadFile, Loaded
  <2> QED BY <1>8, <2>1 DEF ReloadFile
<1>9. CASE ReloadRandom
  BY <1>9 DEF ReloadRandom
<1>10. CASE Refuse
  BY <1>10 DEF Refuse
<1>11. CASE PickStep
  BY <1>11 DEF PickStep
<1>12. CASE PickEnd
  BY <1>12 DEF PickEnd, Loaded
<1>13. CASE NextTest
  <2>1. CASE Ended
    BY <2>1, AfterEnd
  <2>2. CASE ~ Ended
    <3>1. pc' \in {"state", "reload"}
      BY <1>13, <2>2 DEF NextTest
    <3> QED BY <1>13, <2>2, <3>1 DEF NextTest
  <2> QED BY <2>1, <2>2
<1>14. CASE MakeState
  BY <1>14 DEF MakeState
<1>15. CASE GuessStep
  BY <1>15 DEF GuessStep
<1>16. CASE WriteOutput
  BY <1>16 DEF WriteOutput
<1>17. CASE Stop
  BY <1>17, AfterEnd DEF Stop
<1>18. CASE Respell
  <2>1. pc = "off" /\ pc' = "off" /\ todo' = todo
    BY <1>18 DEF Respell
  <2> QED BY <2>1
<1>19. CASE UNCHANGED vars
  BY <1>19
<1> QED BY <1>1, <1>2, <1>3, <1>4, <1>5, <1>6, <1>7, <1>8, <1>9, <1>10, <1>11, <1>12,
           <1>13, <1>14, <1>15, <1>16, <1>17, <1>18, <1>19 DEF Next, Work

(* Every step keeps LoadInv: the bits loaded or drawn.                     *)
LEMMA NextLoad ==
  ASSUME IInv, [Next]_vars
  PROVE  LoadInv'
<1> USE DEF IInv, LoadInv, LoadedAreBest, vars, persistent, options, search, test
<1>1. CASE StartSearch
  BY <1>1 DEF StartSearch
<1>2. CASE StartGenerate
  BY <1>2 DEF StartGenerate
<1>3. CASE OpenFile
  <2>1. pc' = "write"
    BY <1>3 DEF OpenFile
  <2> QED BY <2>1
<1>4. CASE WriteLine
  BY <1>4 DEF WriteLine
<1>5. CASE CloseFile
  <2>1. CASE Ended
    BY <2>1, AfterEnd
  <2>2. CASE ~ Ended
    <3>1. pc' \in {"test", "open"}
      BY <1>5, <2>2 DEF CloseFile
    <3> QED BY <3>1
  <2> QED BY <2>1, <2>2
<1>6. CASE TestBit
  BY <1>6 DEF TestBit
<1>7. CASE Choose
  <2>1. pc' \in {"assert", "open"}
    BY <1>7 DEF Choose
  <2> QED BY <2>1
<1>8. CASE ReloadFile
  <2> DEFINE read == FirstLines(Bits(File(cpd)))
             best == found[Name(cpd)]
  <2>1. /\ read \in Seq(AllBits)
        /\ Enough(read) => /\ Len(read) = guess_bits /\ guess_bits <= Len(best)
                           /\ read = SubSeq(best, 1, guess_bits)
    BY <1>8, LoadedList DEF ReloadFile
  <2>2. pc' \in {"refused", "unparsed", "ready", "state"}
    BY <1>8 DEF ReloadFile, Loaded
  <2>3. CASE pc' \in {"ready", "state"}
    <3>1. /\ varstoguess' = read /\ Enough(read)
          /\ \A v \in Elements(read) : ~ Excluded(cpd, v) /\ v \in Window(cpd)
      BY <1>8, <2>3 DEF ReloadFile
    <3> HIDE DEF read
    <3>2. Elements(read) \subseteq Free(cpd)
      BY <3>1 DEF Free
    <3>3. UNCHANGED <<cpd, guess_bits, found, from_file>>
      BY <1>8 DEF ReloadFile
    <3> QED BY <2>1, <2>3, <3>1, <3>2, <3>3
  <2> QED BY <2>2, <2>3
<1>9. CASE ReloadRandom
  BY <1>9, EmptyList DEF ReloadRandom, RunInv
<1>10. CASE Refuse
  BY <1>10 DEF Refuse
<1>11. CASE PickStep
  <2>1. PICK v \in Window(cpd) : Accepted(v) /\ varstoguess' = Append(varstoguess, v)
    BY <1>11 DEF PickStep
  <2>2. v \in AllBits \ Elements(varstoguess) /\ v \in Free(cpd)
    BY <1>11, <2>1, Running, WindowBits DEF PickStep, Accepted, Free
  <2>3. /\ Len(varstoguess') = Len(varstoguess) + 1
        /\ Elements(varstoguess') = Elements(varstoguess) \cup {v}
    BY <2>1, <2>2, AppendNew DEF RunInv
  <2>4. Len(varstoguess) \in Nat /\ guess_bits \in Nat /\ Len(varstoguess) < guess_bits
    BY <1>11, LenProperties DEF PickStep, RunInv
  <2> QED BY <1>11, <2>2, <2>3, <2>4 DEF PickStep
<1>12. CASE PickEnd
  <2>1. ~ from_file /\ pc' \in {"refused", "ready", "state"}
    BY <1>12 DEF PickEnd, Loaded
  <2> QED BY <1>12, <2>1 DEF PickEnd
<1>13. CASE NextTest
  <2>1. CASE Ended
    BY <2>1, AfterEnd
  <2>2. CASE ~ Ended
    <3>1. pc' \in {"state", "reload"}
      BY <1>13, <2>2 DEF NextTest
    <3> QED BY <1>13, <2>2, <3>1 DEF NextTest
  <2> QED BY <2>1, <2>2
<1>14. CASE MakeState
  BY <1>14 DEF MakeState
<1>15. CASE GuessStep
  BY <1>15 DEF GuessStep
<1>16. CASE WriteOutput
  BY <1>16 DEF WriteOutput
<1>17. CASE Stop
  BY <1>17, AfterEnd DEF Stop
<1>18. CASE Respell
  <2>1. pc' = "off"
    BY <1>18 DEF Respell
  <2> QED BY <2>1
<1>19. CASE UNCHANGED vars
  BY <1>19
<1> QED BY <1>1, <1>2, <1>3, <1>4, <1>5, <1>6, <1>7, <1>8, <1>9, <1>10, <1>11, <1>12,
           <1>13, <1>14, <1>15, <1>16, <1>17, <1>18, <1>19 DEF Next, Work

(* Every step keeps ClaimInv: good_guess and the guesses so far.           *)
LEMMA NextClaim ==
  ASSUME IInv, [Next]_vars
  PROVE  ClaimInv'
<1> USE DEF IInv, ClaimInv, AllRight, vars, persistent, options, search, test
<1>1. CASE StartSearch
  <2>1. pc' \in {"refused", "open"}
    BY <1>1 DEF StartSearch
  <2> QED BY <1>1, <2>1 DEF StartSearch
<1>2. CASE StartGenerate
  BY <1>2 DEF StartGenerate
<1>3. CASE OpenFile
  BY <1>3 DEF OpenFile
<1>4. CASE WriteLine
  BY <1>4 DEF WriteLine
<1>5. CASE CloseFile
  <2>1. CASE Ended
    BY <2>1, AfterEnd
  <2>2. CASE ~ Ended
    <3>1. pc' \in {"test", "open"} /\ UNCHANGED <<given_data, sr_state, output>>
      BY <1>5, <2>2 DEF CloseFile
    <3> QED BY <3>1
  <2> QED BY <2>1, <2>2
<1>6. CASE TestBit
  BY <1>6 DEF TestBit
<1>7. CASE Choose
  <2>1. pc' \in {"assert", "open"} /\ UNCHANGED <<given_data, sr_state, output>>
    BY <1>7 DEF Choose
  <2> QED BY <2>1
<1>8. CASE ReloadFile
  <2>1. pc' \in {"refused", "unparsed", "ready", "state"}
    BY <1>8 DEF ReloadFile, Loaded
  <2> QED BY <1>8, <2>1 DEF ReloadFile
<1>9. CASE ReloadRandom
  BY <1>9 DEF ReloadRandom
<1>10. CASE Refuse
  BY <1>10 DEF Refuse
<1>11. CASE PickStep
  BY <1>11 DEF PickStep
<1>12. CASE PickEnd
  BY <1>12 DEF PickEnd, Loaded
<1>13. CASE NextTest
  <2>1. CASE Ended
    BY <2>1, AfterEnd
  <2>2. CASE ~ Ended
    <3>1. pc' \in {"state", "reload"} /\ output' = "none"
      BY <1>13, <2>2 DEF NextTest
    <3> QED BY <3>1
  <2> QED BY <2>1, <2>2
<1>14. CASE MakeState
  <2>1. DOMAIN given_data' = {} /\ it' = 1 /\ pc' = "guess" /\ output' = "none" /\ good_guess'
    BY <1>14 DEF MakeState, Empty
  <2>2. AllRight'
    BY <2>1 DEF AllRight
  <2>3. it' <= Len(varstoguess') + 1 /\ 1 .. it' - 1 = {}
    BY <1>14, <2>1, LenProperties DEF MakeState, RunInv
  <2>4. DOMAIN given_data' = {varstoguess'[k] : k \in 1 .. it' - 1}
    BY <2>1, <2>3
  <2> QED BY <2>1, <2>2, <2>3, <2>4
<1>15. CASE GuessStep
  <2> DEFINE v == varstoguess[it]
  <2>1. PICK toguess \in BOOLEAN : /\ given_data' = Put(given_data, v, toguess)
                                  /\ good_guess' = StillGood(v, toguess)
    BY <1>15 DEF GuessStep
  <2>2. /\ it \in 1 .. Len(varstoguess) /\ Len(varstoguess) \in Nat
        /\ Distinct(varstoguess)
        /\ DOMAIN given_data = {varstoguess[k] : k \in 1 .. it - 1}
    BY <1>15, LenProperties DEF GuessStep, RunInv
  <2>3. v \notin DOMAIN given_data
    BY <2>2 DEF Distinct
  <2>4. /\ DOMAIN given_data' = DOMAIN given_data \cup {v}
        /\ given_data'[v] = toguess
        /\ \A u \in DOMAIN given_data : given_data'[u] = given_data[u]
    BY <2>1, <2>3 DEF Put
  <2>5. /\ it' = it + 1 /\ UNCHANGED <<pc, varstoguess, sr_state, output>>
        /\ pc = "guess" /\ output = "none"
    BY <1>15 DEF GuessStep
  <2>6. DOMAIN given_data' = {varstoguess'[k] : k \in 1 .. it' - 1}
    <3>1. 1 .. it' - 1 = (1 .. it - 1) \cup {it}
      BY <2>2, <2>5
    <3> QED BY <2>2, <2>4, <2>5, <3>1
  <2>7. it' <= Len(varstoguess') + 1
    BY <2>2, <2>5
  <2> HIDE DEF v
  <2>8. AllRight' <=> AllRight /\ toguess = (v \in sr_state)
    BY <2>4, <2>5, Zenon DEF AllRight
  <2>9. good_guess <=> AllRight
    BY <1>15 DEF GuessStep
  <2>10. good_guess' <=> good_guess /\ toguess = (v \in sr_state)
    BY <2>1, Zenon DEF StillGood
  <2> QED BY <2>5, <2>6, <2>7, <2>8, <2>9, <2>10
<1>16. CASE WriteOutput
  <2>1. /\ pc' = "ready"
        /\ good_guess <=> AllRight
        /\ UNCHANGED <<given_data, sr_state>>
    BY <1>16 DEF WriteOutput
  <2>2. output' # "none" => (output' = "UNSAT" <=> ~ AllRight)
    BY <1>16, <2>1 DEF WriteOutput
  <2> QED BY <2>1, <2>2
<1>17. CASE Stop
  BY <1>17, AfterEnd DEF Stop
<1>18. CASE Respell
  BY <1>18 DEF Respell
<1>19. CASE UNCHANGED vars
  BY <1>19
<1> QED BY <1>1, <1>2, <1>3, <1>4, <1>5, <1>6, <1>7, <1>8, <1>9, <1>10, <1>11, <1>12,
           <1>13, <1>14, <1>15, <1>16, <1>17, <1>18, <1>19 DEF Next, Work

(* Every step keeps CostInv: the bits tested and the lowest.               *)
LEMMA NextCost ==
  ASSUME IInv, [Next]_vars
  PROVE  CostInv'
<1> USE DEF IInv, CostInv, Cheapest, EnoughCandidates, vars, persistent, options, search, test
<1>1. CASE StartSearch
  <2>1. pc' \in {"refused", "open"} /\ UNCHANGED difficulty
    BY <1>1 DEF StartSearch
  <2> QED BY <1>1, <2>1 DEF StartSearch
<1>2. CASE StartGenerate
  <2>1. pc' \in {"reload"} /\ UNCHANGED <<goal, difficulty>>
    BY <1>2 DEF StartGenerate
  <2> QED BY <1>2, <2>1 DEF StartGenerate
<1>3. CASE OpenFile
  <2>1. pc' \in {"write"} /\ UNCHANGED <<goal, difficulty>>
    BY <1>3 DEF OpenFile
  <2> QED BY <1>3, <2>1 DEF OpenFile
<1>4. CASE WriteLine
  BY <1>4 DEF WriteLine
<1>5. CASE CloseFile
  <2>1. CASE Ended
    BY <2>1, AfterEnd
  <2>2. CASE round = "before" /\ ~ Ended
    <3>1. todo' = Free(cpd) \ Elements(varstoguess) /\ pc' = "test"
          /\ UNCHANGED <<cpd, varstoguess, difficulty, lowest>>
      BY <1>5, <2>2 DEF CloseFile, Free
    <3>2. lowest = None /\ DOMAIN difficulty = {}
      BY <1>5 DEF CloseFile, SearchInv, Empty
    <3> QED BY <3>1, <3>2
  <2>3. CASE round = "after" /\ guess_bits < goal /\ ~ Ended
    BY <1>5, <2>3 DEF CloseFile
  <2> QED BY <1>5, <2>1, <2>2, <2>3 DEF CloseFile
<1>6. CASE TestBit
  <2> DEFINE v == First(todo)
  <2>1. v \in todo /\ v \notin DOMAIN difficulty
    BY <1>6, FirstIn DEF TestBit, SearchInv
  <2>2. PICK n \in Difficulties : /\ difficulty' = Put(difficulty, v, n)
                                 /\ lowest' = Lower(v, n)
    BY <1>6 DEF TestBit
  <2>3. n \in Nat
    BY BestBitsAssumption
  <2>4. /\ todo' = todo \ {v} /\ pc = "test" /\ pc' = "test"
        /\ UNCHANGED <<cpd, varstoguess, goal>>
    BY <1>6 DEF TestBit, Remaining
  <2> HIDE DEF v
  <2>5. /\ DOMAIN difficulty' = DOMAIN difficulty \cup {v} /\ difficulty'[v] = n
        /\ \A u \in DOMAIN difficulty : difficulty'[u] = difficulty[u]
    BY <2>1, <2>2 DEF Put
  <2>6. CASE lowest' = [bit |-> v, difficulty |-> n]
    <3>1. lowest'.bit = v /\ lowest'.difficulty = n
      BY <2>6
    <3>2. lowest # None => n < lowest.difficulty
      <4>1. ASSUME lowest # None, ~ (n < lowest.difficulty) PROVE FALSE
        <5>1. lowest = [bit |-> v, difficulty |-> n]
          BY <2>2, <2>6, <4>1 DEF Lower
        <5> QED BY <2>1, <2>4, <4>1, <5>1
      <4> QED BY <4>1
    <3>3. \A u \in DOMAIN difficulty : n <= difficulty[u]
      <4>1. CASE lowest = None
        BY <2>4, <4>1
      <4>2. CASE lowest # None
        BY <2>3, <2>4, <3>2, <4>2
      <4> QED BY <4>1, <4>2
    <3>4. Cheapest'
      BY <2>3, <2>5, <3>1, <3>3
    <3>5. lowest' # None
      BY <2>6, NotNone
    <3> QED BY <2>1, <2>3, <2>4, <2>5, <3>4, <3>5
  <2>7. CASE lowest' = lowest /\ lowest # None /\ ~ (n < lowest.difficulty)
    <3>1. lowest.difficulty \in Nat /\ lowest.difficulty <= n
      BY <2>3, <2>4, <2>7
    <3>2. Cheapest'
      BY <2>4, <2>5, <2>7, <3>1
    <3> QED BY <2>1, <2>3, <2>4, <2>5, <2>7, <3>2
  <2> QED BY <2>2, <2>6, <2>7 DEF Lower
<1>7. CASE Choose
  <2>1. CASE lowest = None
    <3>1. Free(cpd) \subseteq Elements(varstoguess) /\ cpd \in Descriptions
      BY <1>7, <2>1, Running DEF Choose
    <3>2. /\ IsFiniteSet(Elements(varstoguess))
          /\ Cardinality(Elements(varstoguess)) = guess_bits
          /\ guess_bits < goal /\ guess_bits \in Nat /\ goal \in Nat
      BY <1>7, CountDistinct DEF Choose, RunInv, SearchInv
    <3>3. Cardinality(Free(cpd)) <= guess_bits /\ Cardinality(Free(cpd)) \in Nat
      BY <3>1, <3>2, FS_Subset, FS_CardinalityType
    <3>4. goal > Cardinality(MayBeGuessed(cpd))
      BY <3>1, <3>2, <3>3, WindowBits
    <3>5. pc' = "assert" /\ UNCHANGED <<cpd, goal>>
      BY <1>7, <2>1 DEF Choose
    <3> HIDE DEF EnoughCandidates
    <3>6. EnoughCandidates'
      BY <3>4, <3>5 DEF EnoughCandidates, MayBeGuessed, Registers
    <3> QED BY <3>5, <3>6
  <2>2. CASE lowest # None
    <3>1. pc' = "open" /\ difficulty' = Empty
      BY <1>7, <2>2 DEF Choose
    <3> QED BY <3>1
  <2> QED BY <2>1, <2>2
<1>8. CASE ReloadFile
  <2>1. pc' \in {"refused", "unparsed", "ready", "state"} /\ UNCHANGED <<goal>>
    BY <1>8 DEF ReloadFile, Loaded
  <2> QED BY <1>8, <2>1 DEF ReloadFile
<1>9. CASE ReloadRandom
  <2>1. pc' \in {"pick"} /\ UNCHANGED <<goal>>
    BY <1>9 DEF ReloadRandom
  <2> QED BY <1>9, <2>1 DEF ReloadRandom
<1>10. CASE Refuse
  <2>1. pc' \in {"refused"} /\ UNCHANGED <<goal>>
    BY <1>10 DEF Refuse
  <2> QED BY <1>10, <2>1 DEF Refuse
<1>11. CASE PickStep
  BY <1>11 DEF PickStep
<1>12. CASE PickEnd
  <2>1. pc' \in {"refused", "ready", "state"} /\ UNCHANGED <<goal>>
    BY <1>12 DEF PickEnd, Loaded
  <2> QED BY <1>12, <2>1 DEF PickEnd
<1>13. CASE NextTest
  <2>1. CASE Ended
    BY <2>1, AfterEnd
  <2>2. CASE ~ Ended
    <3>1. pc' \in {"state", "reload"} /\ goal' = goal
      BY <1>13, <2>2 DEF NextTest
    <3> QED BY <1>13, <3>1 DEF NextTest
  <2> QED BY <2>1, <2>2
<1>14. CASE MakeState
  BY <1>14 DEF MakeState
<1>15. CASE GuessStep
  BY <1>15 DEF GuessStep
<1>16. CASE WriteOutput
  BY <1>16 DEF WriteOutput
<1>17. CASE Stop
  BY <1>17, AfterEnd DEF Stop
<1>18. CASE Respell
  BY <1>18 DEF Respell
<1>19. CASE UNCHANGED vars
  BY <1>19
<1> QED BY <1>1, <1>2, <1>3, <1>4, <1>5, <1>6, <1>7, <1>8, <1>9, <1>10, <1>11, <1>12,
           <1>13, <1>14, <1>15, <1>16, <1>17, <1>18, <1>19 DEF Next, Work

---------------------------------------------------------------------------
(* The strengthened invariant of every run of the program.                 *)
LEMMA Invariance == Spec => []IInv
<1>1. Init => IInv
  BY InitInv
<1>2. IInv /\ [Next]_vars => IInv'
  BY NextFiles, NextRun, NextSearch, NextLoad, NextClaim, NextCost DEF IInv
<1> QED BY <1>1, <1>2, PTL DEF Spec

(***************************************************************************)
(* Type correctness, however often the program runs and is killed.         *)
(***************************************************************************)
THEOREM TypeCorrect == Spec => []TypeOK
<1>1. ASSUME IInv PROVE TypeOK
  <2>1. \A n \in DOMAIN files :
          files[n] = None \/ (files[n].spelling \in Spelling /\ files[n].bits \in Seq(AllBits))
    <3>1. ASSUME NEW n \in DOMAIN files, files[n] # None
          PROVE  files[n].spelling \in Spelling /\ files[n].bits \in Seq(AllBits)
      <4>1. files[n] \in FileRecord
        BY <1>1, <3>1 DEF IInv, FilesInv
      <4> QED BY <4>1 DEF FileRecord
    <3> QED BY <3>1
  <2>2. pc = "guess" => DOMAIN given_data \subseteq Elements(varstoguess)
    <3> SUFFICES ASSUME pc = "guess", NEW v \in DOMAIN given_data
                 PROVE  v \in Elements(varstoguess)
      OBVIOUS
    <3>1. /\ it <= Len(varstoguess) + 1 /\ it \in Nat /\ Len(varstoguess) \in Nat
          /\ v \in {varstoguess[k] : k \in 1 .. it - 1}
          /\ Elements(varstoguess) = {varstoguess[k] : k \in 1 .. Len(varstoguess)}
      BY <1>1, ElementsOf, LenProperties DEF IInv, RunInv, ClaimInv
    <3> QED BY <3>1
  <2> QED BY <1>1, <2>1, <2>2 DEF IInv, RunInv, SearchInv, TypeOK, Pcs
<1> QED BY <1>1, Invariance, PTL

(***************************************************************************)
(* The bits a problem is made with are as many as were asked for, all      *)
(* different, and left free by the initialisation, whether they were read  *)
(* from a file (of any search, killed anywhere) or drawn.                  *)
(***************************************************************************)
THEOREM GuessesAreUsable == Spec => []GuessesUsable
<1>1. ASSUME IInv PROVE GuessesUsable
  <2> SUFFICES ASSUME pc \in {"ready", "state", "guess"}
               PROVE  /\ Len(varstoguess) = guess_bits
                      /\ Cardinality(Elements(varstoguess)) = guess_bits
                      /\ Elements(varstoguess) \subseteq MayBeGuessed(cpd)
    BY DEF GuessesUsable
  <2>1. Len(varstoguess) = guess_bits /\ Elements(varstoguess) \subseteq Free(cpd)
    BY <1>1 DEF IInv, LoadInv
  <2>2. Cardinality(Elements(varstoguess)) = Len(varstoguess)
    BY <1>1, CountDistinct DEF IInv, RunInv
  <2>3. cpd \in Descriptions
    BY <1>1, Running DEF IInv
  <2> QED BY <2>1, <2>2, <2>3, WindowBits
<1> QED BY <1>1, Invariance, PTL

(***************************************************************************)
(* Bits from the file are the first of the list that the last search of    *)
(* this description wrote or was writing when it was killed.               *)
(***************************************************************************)
THEOREM LoadedBitsAreBest == Spec => []LoadedAreBest
<1>1. IInv => LoadedAreBest
  BY DEF IInv, LoadInv
<1> QED BY <1>1, Invariance, PTL

(***************************************************************************)
(* ".output" says UNSAT exactly when one of the guesses, whichever it is,  *)
(* is not what the bit is in the simulated run.                            *)
(***************************************************************************)
THEOREM ClaimIsRight == Spec => []ClaimRight
<1>1. IInv => ClaimRight
  BY DEF IInv, ClaimInv, AllRight, ClaimRight
<1> QED BY <1>1, Invariance, PTL

(***************************************************************************)
(* The assertion in bestbits.cpp:223 fails only when the user asked for    *)
(* more bits than may be guessed.                                          *)
(***************************************************************************)
THEOREM AssertionMeansTooMany == Spec => []EnoughCandidates
<1>1. IInv => EnoughCandidates
  BY DEF IInv, CostInv
<1> QED BY <1>1, Invariance, PTL

(***************************************************************************)
(* The bit that the greedy search takes was compared with every other bit  *)
(* that may be guessed and is not taken yet, and none was cheaper.         *)
(***************************************************************************)
THEOREM GreedyIsLowest == Spec => ChosenIsLowest
<1> DEFINE Step == Len(varstoguess') > Len(varstoguess) /\ goal > 0 =>
                     LET v == varstoguess'[Len(varstoguess')] IN
                     /\ DOMAIN difficulty = MayBeGuessed(cpd) \ Elements(varstoguess)
                     /\ \A u \in DOMAIN difficulty : difficulty[v] <= difficulty[u]
<1>1. ASSUME IInv, [Next]_vars PROVE [Step]_vars
  <2> SUFFICES ASSUME Len(varstoguess') > Len(varstoguess), goal > 0
               PROVE  LET v == varstoguess'[Len(varstoguess')] IN
                      /\ DOMAIN difficulty = MayBeGuessed(cpd) \ Elements(varstoguess)
                      /\ \A u \in DOMAIN difficulty : difficulty[v] <= difficulty[u]
    OBVIOUS
  <2>1. Choose /\ lowest # None
    <3>1. varstoguess' # varstoguess /\ varstoguess' # <<>> /\ goal # 0
      <4>1. Len(varstoguess) \in Nat /\ goal \in Nat /\ Len(<<>>) = 0
        BY <1>1, LenProperties, EmptyList DEF IInv, RunInv
      <4> QED BY <4>1
    <3>2. pc \notin {"reload", "pick"}
      BY <1>1, <3>1 DEF IInv, CostInv
    <3> QED BY <1>1, <3>1, <3>2 DEF Next, Work, vars, persistent, options, search, test, Ended,
          Stop, Respell, StartSearch, StartGenerate, OpenFile, WriteLine, CloseFile, TestBit,
          Choose, ReloadFile, ReloadRandom, Refuse, PickStep, PickEnd, NextTest, MakeState,
          GuessStep, WriteOutput
  <2>2. /\ pc = "test" /\ todo = {} /\ varstoguess' = Append(varstoguess, lowest.bit)
    BY <2>1 DEF Choose
  <2>3. DOMAIN difficulty = Free(cpd) \ Elements(varstoguess) /\ Cheapest
    BY <1>1, <2>1, <2>2 DEF IInv, CostInv
  <2>4. cpd \in Descriptions /\ Free(cpd) = MayBeGuessed(cpd) /\ Free(cpd) \subseteq AllBits
    BY <1>1, <2>2, Running, WindowBits DEF IInv
  <2>5. varstoguess'[Len(varstoguess')] = lowest.bit
    <3>1. lowest.bit \in AllBits /\ varstoguess \in Seq(AllBits)
      BY <1>1, <2>3, <2>4 DEF Cheapest, IInv, RunInv
    <3> QED BY <2>2, <3>1, AppendProperties
  <2> QED BY <2>3, <2>4, <2>5 DEF Cheapest
<1>2. Spec => [][Step]_vars
  BY <1>1, Invariance, PTL DEF Spec
<1> QED BY <1>2 DEF ChosenIsLowest

---------------------------------------------------------------------------
(***************************************************************************)
(* A sum is at most the number of elements that disjoint sets have         *)
(* together.                                                               *)
(***************************************************************************)

(* The elements of the sets W[x] together.                                 *)
Joined(s, W) == UNION {W[x] : x \in s}

(* Sets that do not meet have as many elements together as the sum of      *)
(* what each of them has at least.                                         *)
LEMMA SumBound ==
  ASSUME NEW S, IsFiniteSet(S), NEW f \in [S -> Nat], NEW h, h = Summed(S, f, h),
         NEW W, \A x \in S : IsFiniteSet(W[x]) /\ Cardinality(W[x]) >= f[x],
         \A x \in S, y \in S : x # y => W[x] \cap W[y] = {}
  PROVE  h[S] \in Nat /\ IsFiniteSet(Joined(S, W)) /\ Cardinality(Joined(S, W)) >= h[S]
<1> DEFINE m == [s \in SUBSET S |-> Cardinality(s)]
           U(s) == Joined(s, W)
           P == {s \in SUBSET S : h[s] \in Nat /\ IsFiniteSet(U(s)) /\ Cardinality(U(s)) >= h[s]}
<1>1. m \in [SUBSET S -> Nat]
  BY FS_Subset, FS_CardinalityType
<1>2. ASSUME NEW s \in SUBSET S, \A t \in SUBSET S : m[t] < m[s] => t \in P PROVE s \in P
  <2>1. CASE s = {}
    <3>1. h[s] = 0
      BY <2>1 DEF Summed
    <3>2. U(s) = {}
      BY <2>1 DEF Joined
    <3>3. IsFiniteSet(U(s)) /\ Cardinality(U(s)) = 0
      BY <3>2, FS_EmptySet, Zenon
    <3> HIDE DEF U
    <3> QED BY <3>1, <3>3
  <2>2. CASE s # {}
    <3> DEFINE x == Taken(s)
               t == s \ {x}
    <3>1. x \in s /\ t \in SUBSET S /\ m[t] < m[s]
      BY <2>2, TakenFrom
    <3>2. h[t] \in Nat /\ IsFiniteSet(U(t)) /\ Cardinality(U(t)) >= h[t]
      BY <1>2, <3>1
    <3>3. h[s] = f[x] + h[t]
      BY <2>2 DEF Summed
    <3>4. IsFiniteSet(W[x]) /\ Cardinality(W[x]) >= f[x] /\ f[x] \in Nat
      BY <3>1
    <3> HIDE DEF x
    <3>5. U(s) = W[x] \cup U(t)
      BY <3>1 DEF Joined
    <3>6. W[x] \cap U(t) = {}
      BY <3>1 DEF Joined
    <3> HIDE DEF U, t
    <3>7. /\ IsFiniteSet(W[x] \cup U(t))
          /\ Cardinality(W[x] \cup U(t)) = Cardinality(W[x]) + Cardinality(U(t)) - Cardinality({})
      <4> DEFINE A == W[x]
                 C == U(t)
      <4>1. IsFiniteSet(A) /\ IsFiniteSet(C) /\ A \cap C = {}
        BY <3>2, <3>4, <3>6
      <4> HIDE DEF A, C
      <4>2. /\ IsFiniteSet(A \cup C)
            /\ Cardinality(A \cup C) = Cardinality(A) + Cardinality(C) - Cardinality(A \cap C)
        BY <4>1, FS_Union
      <4>3. Cardinality(A \cap C) = Cardinality({})
        BY <4>1
      <4> QED BY <4>2, <4>3 DEF A, C
    <3>8. /\ Cardinality({}) = 0 /\ Cardinality(W[x]) \in Nat /\ Cardinality(U(t)) \in Nat
      BY <3>2, <3>4, FS_EmptySet, FS_CardinalityType
    <3>9. h[s] \in Nat /\ Cardinality(U(s)) >= h[s]
      BY <3>2, <3>3, <3>4, <3>5, <3>7, <3>8
    <3> QED BY <3>5, <3>7, <3>9
  <2> QED BY <2>1, <2>2
<1> HIDE DEF m, P, U
<1>3. SUBSET S \subseteq P
  BY <1>1, <1>2, MeasureInduction
<1>4. S \in P
  BY <1>3
<1> QED BY <1>4 DEF P, U

---------------------------------------------------------------------------
(* The reference bits of a register, and those of them that are left free. *)
OfRegister(c, i)   == {<<i, c.sr_shift[i] + k>> : k \in 0 .. c.sr_size[i] - 1}
FreeOf(c, i)       == {v \in OfRegister(c, i) : ~ Excluded(c, v)}
(* A register has as many reference bits as it is long.                    *)
LEMMA RegisterBits ==
  ASSUME NEW c \in Descriptions, NEW i \in Registers(c)
  PROVE  IsFiniteSet(OfRegister(c, i)) /\ Cardinality(OfRegister(c, i)) = c.sr_size[i]
<1> DEFINE n == c.sr_size[i]
           s == c.sr_shift[i]
           I == 0 .. n - 1
           T == OfRegister(c, i)
           f == [k \in I |-> <<i, s + k>>]
<1>1. n \in Nat \ {0} /\ s \in Nat
  BY BestBitsAssumption DEF Registers
<1>2. IsFiniteSet(I) /\ Cardinality(I) = n
  <2>1. 0 \in Int /\ n - 1 \in Int /\ ~ (0 > n - 1) /\ (n - 1) - 0 + 1 = n
    BY <1>1
  <2> HIDE DEF n
  <2>2. IsFiniteSet(0 .. n - 1) /\ Cardinality(0 .. n - 1) = (n - 1) - 0 + 1
    BY <2>1, FS_Interval
  <2> QED BY <2>1, <2>2
<1>3. T = {<<i, s + k>> : k \in I}
  BY DEF OfRegister
<1> HIDE DEF T
<1>4. \A k \in I, l \in I : s + k = s + l => k = l
  BY <1>1
<1> HIDE DEF I, s
<1>5. f \in [I -> T] /\ \A t \in T : \E k \in I : f[k] = t
  BY <1>3
<1>6. \A k \in I, l \in I : f[k] = f[l] => k = l
  BY <1>4
<1>7. f \in Bijection(I, T)
  BY <1>5, <1>6 DEF Bijection, Injection, Surjection, IsInjective
<1>8. IsFiniteSet(T) /\ Cardinality(T) = Cardinality(I)
  BY <1>2, <1>7, FS_Bijection DEF ExistsBijection
<1> QED BY <1>2, <1>8 DEF T

(* The initialisation takes at most the bits that are said to be fixed.    *)
LEMMA FreeBits ==
  ASSUME NEW c \in Descriptions, NEW i \in Registers(c)
  PROVE  /\ IsFiniteSet(FreeOf(c, i)) /\ c.sr_size[i] - Cardinality(c.fixed[i]) \in Nat
         /\ Cardinality(FreeOf(c, i)) >= c.sr_size[i] - Cardinality(c.fixed[i])
<1> DEFINE n == c.sr_size[i]
           X == c.fixed[i]
           T == OfRegister(c, i)
           G == {v \in T : Excluded(c, v)}
           g == [v \in G |-> v[2]]
<1>1. n \in Nat \ {0} /\ X \subseteq 0 .. n - 1
  BY BestBitsAssumption DEF Registers
<1>2. IsFiniteSet(T) /\ Cardinality(T) = n
  BY RegisterBits
<1>3. IsFiniteSet(X) /\ Cardinality(X) <= n /\ Cardinality(X) \in Nat
  <2>1. 0 \in Int /\ n - 1 \in Int /\ ~ (0 > n - 1) /\ (n - 1) - 0 + 1 = n
    BY <1>1
  <2> HIDE DEF n, X
  <2>2. IsFiniteSet(0 .. n - 1) /\ Cardinality(0 .. n - 1) = n
    BY <2>1, FS_Interval
  <2> QED BY <1>1, <2>2, FS_Subset, FS_CardinalityType
<1>4. \A v \in G : v = <<i, v[2]>> /\ v[2] \in X
  <2>1. \A v \in T : v = <<i, v[2]>> /\ v[1] = i
    BY DEF OfRegister
  <2> QED BY <2>1 DEF Excluded, var_in_impossible_position
<1> HIDE DEF X, G
<1>5. g \in [G -> X] /\ \A u \in G, v \in G : g[u] = g[v] => u = v
  BY <1>4
<1>6. g \in Injection(G, X)
  BY <1>5 DEF Injection, IsInjective
<1>7. IsFiniteSet(G) /\ Cardinality(G) <= Cardinality(X)
  BY <1>3, <1>6, FS_Injection
<1>8. FreeOf(c, i) = T \ G /\ T \cap G = G
  BY DEF FreeOf, G
<1>9. IsFiniteSet(T \ G) /\ Cardinality(T \ G) = Cardinality(T) - Cardinality(T \cap G)
  BY <1>2, FS_Difference
<1>10. Cardinality(G) \in Nat
  BY <1>7, FS_CardinalityType
<1>11. Cardinality(FreeOf(c, i)) = n - Cardinality(G)
  BY <1>2, <1>8, <1>9
<1> QED BY <1>1, <1>3, <1>7, <1>8, <1>9, <1>10, <1>11 DEF X

(* Bits of different registers are different.                              *)
LEMMA RegistersApart ==
  ASSUME NEW c, NEW i, NEW j, i # j PROVE OfRegister(c, i) \cap OfRegister(c, j) = {}
<1>1. \A v \in OfRegister(c, i) : v[1] = i
  BY DEF OfRegister
<1>2. \A v \in OfRegister(c, j) : v[1] = j
  BY DEF OfRegister
<1> QED BY <1>1, <1>2

(* The check on the number of bits refuses what cannot be had: there are   *)
(* as many bits that may be guessed.                                       *)
LEMMA EnoughFree ==
  ASSUME NEW c \in Descriptions, NEW n \in Nat, ~ TooMany(c, n)
  PROVE  IsFiniteSet(Free(c)) /\ Cardinality(Free(c)) >= n
<1> DEFINE S == Registers(c)
           W == [i \in S |-> FreeOf(c, i)]
<1>1. IsFiniteSet(S) /\ c.init_clock \in Nat
  BY BestBitsAssumption DEF Registers
<1>2. Joined(S, W) = Free(c)
  <2>1. Window(c) = UNION {OfRegister(c, i) : i \in S}
    BY DEF Window, OfRegister
  <2> QED BY <2>1 DEF Free, FreeOf, Joined
<1>3. \A i \in S, j \in S : i # j => W[i] \cap W[j] = {}
  BY RegistersApart DEF FreeOf
<1>4. CASE c.init_clock = 0
  <2> DEFINE f == [i \in S |-> c.sr_size[i]]
             Sum(h) == [s \in SUBSET S |->
                          IF s = {} THEN 0
                          ELSE LET x == CHOOSE x \in s : TRUE IN c.sr_size[x] + h[s \ {x}]]
             iter == CHOOSE h : h = Sum(h)
  <2>1. f \in [S -> Nat]
    BY BestBitsAssumption DEF Registers
  <2>2. cumulated_sr_size(c) = iter[S]
    BY DEF cumulated_sr_size, MapThenSumSet, MapThenFoldSet
  <2>3. \A h : Sum(h) = Summed(S, f, h)
    <3>1. ASSUME NEW s \in SUBSET S, s # {} PROVE Taken(s) \in S
      BY <1>1, <3>1, TakenFrom
    <3> QED BY <3>1 DEF Summed, Taken
  <2>4. iter = Summed(S, f, iter)
    <3> HIDE DEF f, Sum
    <3>1. \E h : h = Sum(h)
      BY <1>1, <2>1, <2>3, SumsExist
    <3>2. iter = Sum(iter)
      BY <3>1
    <3> HIDE DEF iter
    <3> QED BY <2>3, <3>2
  <2>5. \A i \in S : IsFiniteSet(W[i]) /\ Cardinality(W[i]) >= f[i]
    <3>1. ASSUME NEW i \in S
          PROVE  W[i] = OfRegister(c, i) /\ f[i] = c.sr_size[i] /\ f[i] \in Nat
      BY <1>4, <2>1 DEF FreeOf, Excluded
    <3> QED BY <3>1, RegisterBits
  <2>6. ~ (n > iter[S])
    BY <2>2 DEF TooMany
  <2> HIDE DEF f, W, iter, S
  <2>7. /\ iter[S] \in Nat /\ IsFiniteSet(Joined(S, W))
        /\ Cardinality(Joined(S, W)) >= iter[S]
    BY <1>1, <1>3, <2>1, <2>4, <2>5, SumBound
  <2>8. Cardinality(Free(c)) \in Nat
    BY <1>2, <2>7, FS_CardinalityType
  <2>9. /\ iter[S] \in Nat /\ IsFiniteSet(Free(c)) /\ Cardinality(Free(c)) >= iter[S]
    BY <1>2, <2>7
  <2>10. n \in Nat /\ n <= iter[S]
    BY <2>6, <2>9
  <2> QED BY ONLY <2>8, <2>9, <2>10
<1>5. CASE c.init_clock > 0
  <2> DEFINE f == [i \in S |-> c.sr_size[i] - Cardinality(c.fixed[i])]
             Sum(h) == [s \in SUBSET S |->
                          IF s = {} THEN 0
                          ELSE LET x == CHOOSE x \in s : TRUE IN (c.sr_size[x] - Cardinality(c.fixed[x])) + h[s \ {x}]]
             iter == CHOOSE h : h = Sum(h)
  <2>1. f \in [S -> Nat]
    BY FreeBits
  <2>2. cumulated_free_sr_positions(c) = iter[S]
    BY DEF cumulated_free_sr_positions, MapThenSumSet, MapThenFoldSet
  <2>3. \A h : Sum(h) = Summed(S, f, h)
    <3>1. ASSUME NEW s \in SUBSET S, s # {} PROVE Taken(s) \in S
      BY <1>1, <3>1, TakenFrom
    <3> QED BY <3>1 DEF Summed, Taken
  <2>4. iter = Summed(S, f, iter)
    <3> HIDE DEF f, Sum
    <3>1. \E h : h = Sum(h)
      BY <1>1, <2>1, <2>3, SumsExist
    <3>2. iter = Sum(iter)
      BY <3>1
    <3> HIDE DEF iter
    <3> QED BY <2>3, <3>2
  <2>5. \A i \in S : IsFiniteSet(W[i]) /\ Cardinality(W[i]) >= f[i]
    BY FreeBits
  <2>6. ~ (n > iter[S])
    BY <1>5, <2>2 DEF TooMany
  <2> HIDE DEF f, W, iter, S
  <2>7. /\ iter[S] \in Nat /\ IsFiniteSet(Joined(S, W))
        /\ Cardinality(Joined(S, W)) >= iter[S]
    BY <1>1, <1>3, <2>1, <2>4, <2>5, SumBound
  <2>8. Cardinality(Free(c)) \in Nat
    BY <1>2, <2>7, FS_CardinalityType
  <2>9. /\ iter[S] \in Nat /\ IsFiniteSet(Free(c)) /\ Cardinality(Free(c)) >= iter[S]
    BY <1>2, <2>7
  <2>10. n \in Nat /\ n <= iter[S]
    BY <2>6, <2>9
  <2> QED BY ONLY <2>8, <2>9, <2>10
<1> QED BY <1>1, <1>4, <1>5

(* Bits are drawn only if no more are asked for than may be guessed.       *)
PickInv == pc = "pick" => ~ TooMany(cpd, guess_bits)

(* Every step keeps that.                                                  *)
LEMMA NextPick ==
  ASSUME PickInv, [Next]_vars PROVE PickInv'
<1> USE DEF PickInv, vars, persistent, options, search, test
<1>1. ASSUME pc' = "pick" PROVE ReloadRandom \/ PickStep \/ UNCHANGED vars
  BY <1>1 DEF Next, Work, Ended, Stop, Respell, StartSearch, StartGenerate, OpenFile, WriteLine,
       CloseFile, TestBit, Choose, ReloadFile, Loaded, Refuse, PickEnd, NextTest, MakeState,
       GuessStep, WriteOutput
<1>2. CASE ReloadRandom
  BY <1>2 DEF ReloadRandom
<1>3. CASE PickStep
  BY <1>3 DEF PickStep
<1>4. CASE UNCHANGED vars
  BY <1>4
<1> QED BY <1>1, <1>2, <1>3, <1>4

(***************************************************************************)
(* The draw of the bits never hangs for want of a bit: while one is        *)
(* missing, one is left that was not drawn and is not fixed.  The check on *)
(* the number of bits counts the registers' free bits for that.            *)
(***************************************************************************)
THEOREM DrawNeverStuck == Spec => []NeverStuck
<1>1. Init => PickInv
  BY DEF Init, PickInv
<1>2. ASSUME IInv, PickInv PROVE NeverStuck
  <2> SUFFICES ASSUME pc = "pick", Len(varstoguess) < guess_bits,
                      \A v \in Window(cpd) : ~ Accepted(v)
               PROVE  FALSE
    BY DEF NeverStuck
  <2>1. cpd \in Descriptions /\ guess_bits \in Nat /\ ~ TooMany(cpd, guess_bits)
    BY <1>2, Running DEF PickInv, IInv, RunInv
  <2>2. IsFiniteSet(Free(cpd)) /\ Cardinality(Free(cpd)) >= guess_bits
    BY <2>1, EnoughFree
  <2>3. /\ IsFiniteSet(Elements(varstoguess))
        /\ Cardinality(Elements(varstoguess)) = Len(varstoguess) /\ Len(varstoguess) \in Nat
    BY <1>2, CountDistinct, LenProperties DEF IInv, RunInv
  <2>4. Free(cpd) \subseteq Elements(varstoguess)
    BY DEF Accepted, Free
  <2>5. Cardinality(Free(cpd)) <= Cardinality(Elements(varstoguess)) /\ Cardinality(Free(cpd)) \in Nat
    BY <2>2, <2>3, <2>4, FS_Subset, FS_CardinalityType
  <2> QED BY <2>1, <2>2, <2>3, <2>5
<1> QED BY <1>1, <1>2, NextPick, Invariance, PTL DEF Spec
===========================================================================
