----------------------------- MODULE Compressor -----------------------------
(***************************************************************************)
(* The compression study of this fork: the data of the lines of the bank   *)
(* l2-0, stored as the exclusive or of pairs of lines                      *)
(* (src/src/compressor_xor.cpp, compressor.cpp) and updated by the         *)
(* insertions of src/src/cache_arrays.cpp.                                 *)
(*                                                                         *)
(* A line is a sequence of small bytes.  postinsertL2 inserts a line with  *)
(* the contents of the application's memory; postinsert, of any other      *)
(* cache, takes the branch "silent eviction" when the last request of any  *)
(* cache was a dirty writeback, with the line numbers of its own cache.    *)
(* The sums of sizes and flips that are printed are left out.              *)
(***************************************************************************)
EXTENDS Integers, Sequences, SequencesExt, FiniteSets, FiniteSetsExt, Functions, Bitwise

CONSTANTS
    numLines,       \* lines of the bank
    Bytes,          \* bytes of a line, 64 in the code
    WordBytes,      \* bytes of a word, 4 in the code
    ByteBits,       \* bits of a byte
    UnitBits,       \* bits per unit of size, 8 in the code
    MaxInserts      \* bound on the insertions

VARIABLES
    orig,           \* data_array_orig
    data,           \* data_array
    perf,           \* data_array_perf
    ref, refPerf,   \* index_ref, index_ref_perf
    occupied, occPerf,       \* occupied: the lines of columns 0 and 2
    initialized, initPerf,   \* initialized: the lines of columns 0 and 2
    inserts         \* insertions so far

vars == <<orig, data, perf, ref, refPerf, occupied, occPerf, initialized, initPerf, inserts>>

Tags == 0 .. numLines - 1
LineSet == [1 .. Bytes -> 0 .. 2 ^ ByteBits - 1]
Zero == [i \in 1 .. Bytes |-> 0]

\* The contents of the arrays are not read before they are written, except for
\* the printed sums.
Init ==
    /\ orig = [t \in Tags |-> Zero]
    /\ data = [t \in Tags |-> Zero]
    /\ perf = [t \in Tags |-> Zero]
    /\ ref = [t \in Tags |-> 0]
    /\ refPerf = [t \in Tags |-> 0]
    /\ occupied = {} /\ occPerf = {}
    /\ initialized = {} /\ initPerf = {}
    /\ inserts = 0

----------------------------------------------------------------------------
(* Lines. *)

xxor(l1, l2) == [i \in 1 .. Bytes |-> l1[i] ^^ l2[i]]

sub(w1, w2) == [i \in 1 .. WordBytes |-> (w1[i] - w2[i]) % 2 ^ ByteBits]

\* The bits of a byte without its leading zeroes.
countWidth(b) == Min({i \in 0 .. ByteBits : b < 2 ^ i})

Widths(l) == FoldFunction(LAMBDA b, n : n + countWidth(b), 0, l)

\* The size of a line, in units rounded up.
countLine(l) == (Widths(l) + UnitBits - 1) \div UnitBits

Word(l, w) == [i \in 1 .. WordBytes |-> l[w * WordBytes + i]]

compress_Wider(l) ==
    LET first == Reverse(Word(l, 0))
        Packed(w) == IF Widths(sub(Word(l, w), first)) > Widths(Word(l, w)) THEN sub(Word(l, w), first) ELSE Word(l, w)
    IN  FlattenSeq([w \in 1 .. Bytes \div WordBytes |-> IF w = 1 THEN first ELSE Packed(w - 1)])

\* Base and delta: each word, or its difference from the first, whichever is
\* narrower.  The first word is kept with its bytes reversed.
compress(l) ==
    LET first == Reverse(Word(l, 0))
        Packed(w) == IF Widths(sub(Word(l, w), first)) > Widths(Word(l, w)) THEN Word(l, w) ELSE sub(Word(l, w), first)
    IN  FlattenSeq([w \in 1 .. Bytes \div WordBytes |-> IF w = 1 THEN first ELSE Packed(w - 1)])

\* The stored line, which is read with its bytes reversed.
cTol_orig(o, t) == Reverse(o[t])

----------------------------------------------------------------------------
(* Pairing. *)

\* The lines that a new line may be paired with: initialized, not paired, and
\* narrower together than the line alone.
Partners(line, tag) ==
    {t \in initialized \ (occupied \cup {tag}) : countLine(xxor(cTol_orig(orig, t), line)) < countLine(line)}

compare_Unmarked(line, tag) ==
    \E ret \in {IF Partners(line, tag) = {} THEN tag ELSE Min(Partners(line, tag))} :
      \E min \in {IF ret = tag THEN line ELSE xxor(cTol_orig(orig, ret), line)} :
        /\ ref' = IF ret \in initialized THEN [ref EXCEPT ![ret] = tag, ![tag] = ret] ELSE ref
        /\ occupied' = IF ret \in initialized THEN occupied \cup {tag} ELSE occupied
        /\ initialized' = IF ret \in initialized THEN initialized ELSE initialized \cup {tag}
        /\ orig' = [orig EXCEPT ![tag] = line]
        /\ data' = [data EXCEPT ![ret] = min, ![tag] = min]

\* compare takes the first partner.  Without one, a line that is initialized
\* becomes its own partner.
compare(line, tag) ==
    \E ret \in {IF Partners(line, tag) = {} THEN tag ELSE Min(Partners(line, tag))} :
      \E min \in {IF ret = tag THEN line ELSE xxor(cTol_orig(orig, ret), line)} :
        /\ ref' = IF ret \in initialized THEN [ref EXCEPT ![ret] = tag, ![tag] = ret] ELSE ref
        /\ occupied' = IF ret \in initialized THEN occupied \cup {ret, tag} ELSE occupied
        /\ initialized' = IF ret \in initialized THEN initialized ELSE initialized \cup {tag}
        /\ orig' = [orig EXCEPT ![tag] = line]
        /\ data' = [data EXCEPT ![ret] = min, ![tag] = min]

\* A line keeps its partner: both entries get the new exclusive or.
Repair(line, tag, both) ==
    /\ orig' = [orig EXCEPT ![tag] = line]
    /\ data' = [data EXCEPT ![tag] = both, ![ref[tag]] = both]
    /\ UNCHANGED <<ref, occupied, initialized>>

\* The line that leaves had a partner: it is kept when the exclusive or is
\* wider than the new line; else the pair is given up, in column 1 of occupied,
\* which nothing reads.
Replace(line, tag) ==
    \E both \in {xxor(cTol_orig(orig, ref[tag]), line)} :
      IF countLine(both) > countLine(line) THEN Repair(line, tag, both) ELSE compare(line, tag)

\* The partner of compare_perfect is the best one, the first among equals.
BestPartner(o, i, oc, line, tag) ==
    LET ts == {t \in i \ (oc \cup {tag}) : countLine(xxor(cTol_orig(o, t), line)) < countLine(line)}
        size(t) == countLine(xxor(cTol_orig(o, t), line))
    IN  IF ts = {} THEN tag ELSE Min({t \in ts : \A x \in ts : size(t) <= size(x)})

\* The array of the perfect pairs, once the new line o[tag] is stored: a pair
\* that the tag had is undone first, the line of its partner recovered as the
\* exclusive or with the new line.
Perfect(o, line, tag) ==
    \E undo \in {(tag \in initPerf \cap occPerf)} :
    \E old \in {refPerf[tag]} :
    \E rec \in {IF undo THEN [perf EXCEPT ![old] = xxor(cTol_orig(o, tag), cTol_orig(o, old))] ELSE perf} :
    \E oc \in {IF undo THEN occPerf \ {tag, old} ELSE occPerf} :
    \E in \in {IF undo THEN initPerf \ {tag} ELSE initPerf} :
    \E ret \in {BestPartner(o, in, oc, line, tag)} :
      /\ perf' = [rec EXCEPT ![ret] = IF ret = tag THEN line ELSE xxor(cTol_orig(o, ret), line)]
      /\ refPerf' = IF ret \in in THEN [refPerf EXCEPT ![ret] = tag, ![tag] = ret] ELSE refPerf
      /\ occPerf' = IF ret \in in THEN oc \cup {ret, tag} ELSE oc
      /\ initPerf' = IF ret \in in THEN in ELSE in \cup {tag}

----------------------------------------------------------------------------
(* Insertions. *)

\* The bank l2-0 inserts a line that it reads from the application's memory.
postinsertL2(tag, line) ==
    /\ inserts < MaxInserts /\ inserts' = inserts + 1
    /\ IF ref[tag] # 0 THEN Replace(line, tag) ELSE compare(line, tag)
    /\ Perfect([orig EXCEPT ![tag] = line], line, tag)

\* Another cache inserts a line at the same line number, after a writeback: the
\* number is taken for one of l2-0, whose line becomes zero.
postinsert(tag) ==
    /\ inserts < MaxInserts /\ inserts' = inserts + 1
    /\ ref[tag] # 0
    /\ Replace(Zero, tag)
    /\ UNCHANGED <<perf, refPerf, occPerf, initPerf>>

Next ==
    \/ \E tag \in Tags, line \in LineSet : postinsertL2(tag, line)
    \/ \E tag \in Tags : postinsert(tag)

Spec == Init /\ [][Next]_vars

----------------------------------------------------------------------------
(* Properties. *)

\* A line that is in no pair is stored as it is: pairing a line marks both
\* lines, so that no other insertion overwrites the data of one of them.
UnpairedPlain == \A t \in initialized \ occupied : data[t] = orig[t]

\* The partner recorded for a line of a pair is in a pair too, if not always the
\* same one, and never a line that a later insertion may pair again.
PartnersOccupied == \A t \in occupied : ref[t] \in occupied

\* Base and delta never makes a stored line larger: a word is replaced by its
\* difference only when that is no wider.
CompressNeverLarger == \A t \in Tags : Widths(compress(data[t])) <= Widths(data[t])

\* The two lines of a pair refer to each other ("reference to each other for
\* XOR pair").
PairsMutual == \A t \in occupied : ref[ref[t]] = t
=============================================================================
