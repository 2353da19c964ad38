---------------------------- MODULE MCSequential -----------------------------
(***************************************************************************)
(* The parts of the simulator that run one operation at a time, for model  *)
(* checking: the sum of CacheArrays, Partitioning, Compressor, Prefetcher, *)
(* Tracing, OOOCore, OOORecorder, SlabAlloc, BranchPredictor, Decoder,     *)
(* SystemInit and ProcStats.  Their long sequences of operations, and the  *)
(* configurations of SystemInit, are what tests hardly reach.  The initial *)
(* state chooses the module; behaviours of different modules do not mix.   *)
(***************************************************************************)
EXTENDS Integers, FiniteSets, Sequences

CONSTANTS
    Addrs,          \* the lines that are cached
    Updates,        \* updates of a replacement policy
    Accesses,       \* accesses to a partitioned cache
    Inserts,        \* insertions into a compressed cache
    Demands,        \* accesses to a prefetcher
    Records,        \* records of a trace
    Blocks,         \* basic blocks of a core
    RecorderOps     \* operations of a recorder

VARIABLES
    kind,
    lookupArray, lineMap, repl, valid, sharers, parentHas, pend, lastUse,
    st, mon, log,
    orig, data, perf, ref, refPerf, occupied, occPerf, initialized, initPerf, inserts,
    tag, timestamp, cycle,
    held, dir, cyc, file, reader, trace, accs, play,
    c, thread, count,
    core, rec, ev, clock, done,
    weave, slabs, curSlab, freeList, liveSlabs, elems, made, todo, giving, called, failed,
    bhsr, pht,
    bbl, uops, pre, dec,
    at, sys,
    grouped, running, instrs, process, stats, numPhases, answer, own, missed,
    conf, array, fail, stage, seen

(***************************************************************************)
(* Set-associative, z- and ideal arrays; the hash functions of H2 differ   *)
(* in two of five lines, so that a zcache has somewhere to move them.      *)
(***************************************************************************)
H2 == << [x \in Addrs |-> IF x \in {2, 3} THEN 1 ELSE 0], [x \in Addrs |-> IF x \in {3, 4} THEN 1 ELSE 0] >>
OneSet == [w \in 1 .. 4 |-> [x \in Addrs |-> 0]]
SetAssoc ==
    [array |-> "SetAssoc", repl |-> "LRU", lines |-> 2, ways |-> 2, cands |-> 2, hash |-> OneSet, children |-> TRUE,
     l2 |-> FALSE]
ZCache == [SetAssoc EXCEPT !.array = "Z", !.cands = 9, !.lines = 4, !.hash = H2, !.children = FALSE, !.repl = "LRUNoSh"]

CA == INSTANCE CacheArrays WITH ScoreBits <- 4, MaxUpdates <- Updates,
        Confs <- {SetAssoc, [SetAssoc EXCEPT !.repl = "LFU"], [SetAssoc EXCEPT !.repl = "LRUNoSh", !.children = FALSE],
                  ZCache, [ZCache EXCEPT !.repl = "Rand"], [ZCache EXCEPT !.l2 = TRUE],
                  [SetAssoc EXCEPT !.array = "Ideal", !.lines = 3, !.ways = 3, !.children = FALSE],
                  [SetAssoc EXCEPT !.lines = 4, !.hash = H2, !.repl = "NRU", !.children = FALSE]}

(***************************************************************************)
(* Way, Vantage and ideal LRU partitioning with two partitions; one with   *)
(* a single partition for the monitors, one with more partitions than ways.*)
(***************************************************************************)
WayPart ==
    [repl |-> "WayPart", lines |-> 3, parts |-> 2, buckets |-> 3, portion |-> 100, smooth |-> FALSE, test |-> FALSE,
     umonWays |-> 3, sampled |-> {1, 2}, accesses |-> Accesses]
Vantage == [WayPart EXCEPT !.repl = "Vantage", !.lines = 4, !.buckets = 4, !.umonWays = 2, !.portion = 85]

PA == INSTANCE Partitioning WITH
        Addrs <- {1, 2, 3, 4}, Word <- 64, Interval <- 2, BtsRange <- 4, BtsShare <- 2, MaxIntervals <- 2,
        Confs <- {[WayPart EXCEPT !.test = TRUE], [WayPart EXCEPT !.parts = 1, !.sampled = {1, 2, 3, 4}, !.accesses = @ + 1],
                  [WayPart EXCEPT !.lines = 2, !.parts = 3], [Vantage EXCEPT !.smooth = TRUE],
                  [WayPart EXCEPT !.repl = "IdealLRUPart", !.buckets = 6, !.lines = 4]}

CO == INSTANCE Compressor WITH
        numLines <- 3, Bytes <- 2, WordBytes <- 1, ByteBits <- 1, UnitBits <- 1, MaxInserts <- Inserts

PF == INSTANCE Prefetcher WITH
        Pages <- {1, 2}, Lines <- 6, Entries <- 1, Warm <- 3, Lats <- {1, 7}, Gaps <- {2}, Word <- 64,
        MaxAccesses <- Demands

(***************************************************************************)
(* Traces of one or two children, replayed with and without skews, puts    *)
(* and repeated gets.                                                      *)
(***************************************************************************)
Replay(cs, ls, lats, n, skews, puts, all) ==
    [children |-> cs, lines |-> ls, lats |-> lats, records |-> n, useSkews |-> skews, playPuts |-> puts,
     playAllGets |-> all]

TR == INSTANCE Tracing WITH
        Children <- {0, 1}, Lines <- {1, 2}, Gaps <- {1, 3}, Garbage <- {0, 2}, ChunkSize <- 2, ReadAhead <- 2,
        PhaseLength <- 4,
        Confs <- {Replay({0, 1}, {1}, {2}, Records, FALSE, TRUE, FALSE),
                  Replay({0, 1}, {1}, {2}, Records, FALSE, FALSE, TRUE),
                  Replay({0}, {1, 2}, {1, 3}, Records - 1, TRUE, TRUE, TRUE),
                  Replay({0}, {1}, {1, 3}, Records, TRUE, TRUE, FALSE)}

(***************************************************************************)
(* Blocks with a load and its use, an address, a predicated store and a    *)
(* fence, and uops that wait for registers and hold their unit.            *)
(***************************************************************************)
U(type, rs, rd, lat, ports, extra, slot, pred) ==
    [type |-> type, rs |-> rs, rd |-> rd, lat |-> lat, ports |-> ports, extra |-> extra, dec |-> slot, pred |-> pred]
bbls ==
    << << U("LOAD", <<0, 0>>, <<1, 0>>, 0, {1}, 0, 0, FALSE), U("GENERAL", <<1, 0>>, <<2, 0>>, 2, {0, 1}, 1, 0, FALSE) >>,
       << U("STORE_ADDR", <<0, 0>>, <<0, 0>>, 1, {0}, 0, 0, FALSE), U("STORE", <<2, 1>>, <<0, 0>>, 0, {1}, 0, 0, TRUE),
          U("FENCE", <<0, 0>>, <<0, 0>>, 1, {0}, 0, 1, FALSE) >>,
       << U("GENERAL", <<1, 2>>, <<1, 0>>, 1, {0}, 0, 0, FALSE), U("GENERAL", <<1, 2>>, <<0, 0>>, 1, {0}, 2, 0, FALSE),
          U("LOAD", <<0, 0>>, <<2, 0>>, 1, {0}, 0, 1, TRUE) >> >>

OC == INSTANCE OOOCore WITH
        Bbls <- bbls, Addrs <- {1}, H <- 4, WSZ <- 3, QueueSize <- 3, Width <- 2, RFReads <- 1, FrontEnd <- 2,
        Lats <- {1, 9}, FetchLats <- {5}, Jumps <- {9}, MaxSteps <- Blocks

RE == INSTANCE OOORecorder WITH
        PhaseLength <- 4, Steps <- {0, 3}, Waits <- {1}, Lats <- {1, 6}, Contention <- {0, 3}, MaxPhase <- 3,
        MaxOps <- RecorderOps

\* Two events to a slab, or one and a block of children.
SL == INSTANCE SlabAlloc WITH
        Threads <- {1, 2}, BufSize <- 5, EventSizes <- {2}, BlockSize <- 3, MaxElems <- 4

BP == INSTANCE BranchPredictor WITH PCs <- {2, 4}, NB <- 1, HB <- 2, LB <- 2

(***************************************************************************)
(* Instructions: category, opcode, memory operands read and written,       *)
(* registers read and written.                                             *)
(***************************************************************************)
Form(cat, op, loads, stores, ins, outs) ==
    [cat |-> cat, op |-> op, loads |-> loads, stores |-> stores, ins |-> ins, outs |-> outs, atomic |-> FALSE,
     lock |-> FALSE, imm |-> FALSE]
Locked(i, lock) == [i EXCEPT !.atomic = TRUE, !.lock = lock]
ReadModifyWrite(op, ins) ==
    {Form("BINARY", op, 0, 0, <<"r1">> \o ins, <<"r1", "flags">>), Form("BINARY", op, 1, 0, <<"r1">> \o ins, <<"r1", "flags">>),
     Form("BINARY", op, 1, 1, <<"r2">> \o ins, <<"flags">>)}
forms ==
    ReadModifyWrite("ADD", <<>>) \cup ReadModifyWrite("ADC", <<"flags">>) \cup
    {Form("NOP", "NOP", 0, 0, <<>>, <<>>),
     Form("DATAXFER", "MOV", 0, 0, <<"r1">>, <<"r2">>), Form("DATAXFER", "MOV", 1, 0, <<>>, <<"r2">>),
     Form("DATAXFER", "MOV", 0, 1, <<"r1">>, <<>>), Form("DATAXFER", "MOV", 0, 1, <<>>, <<>>),
     Form("DATAXFER", "MOVH", 1, 0, <<"r1">>, <<"r1">>), Form("DATAXFER", "MOVH", 0, 1, <<"r1">>, <<>>),
     Locked(Form("DATAXFER", "XCHG", 1, 1, <<"r1">>, <<"r1">>), FALSE),
     Locked(Form("DATAXFER", "XCHG", 1, 1, <<"r1">>, <<"r1">>), TRUE),
     Form("DATAXFER", "XCHG", 0, 0, <<"r1", "r2">>, <<"r1", "r2">>),
     Form("CMOV", "CMOV", 0, 0, <<"r1", "flags">>, <<"r2">>), Form("CMOV", "CMOV", 1, 0, <<"flags">>, <<"r2">>),
     Form("BINARY", "MUL", 0, 0, <<"r1", "r2">>, <<"rax", "rdx", "flags">>),
     Form("BINARY", "MUL", 1, 0, <<"rax">>, <<"rax", "rdx", "flags">>),
     Form("BINARY", "MUL", 0, 0, <<"r1", "r2">>, <<"r1", "flags">>),
     Form("BINARY", "DIV", 0, 0, <<"r1", "rax", "rdx">>, <<"rax", "rdx", "flags">>),
     Form("BINARY", "DIV", 1, 0, <<"rax", "rdx">>, <<"rax", "rdx", "flags">>),
     Form("BINARY", "DIV", 0, 0, <<"r1", "rax">>, <<"rax", "flags">>),
     Form("BINARY", "DIV", 1, 0, <<"r1", "rax">>, <<"rax", "flags">>),
     Form("FLAGOP", "LAHF", 0, 0, <<"flags">>, <<"rax">>), Form("FLAGOP", "CLD", 0, 0, <<>>, <<"flags">>),
     Form("FLAGOP", "CLI", 0, 0, <<>>, <<"flags">>),
     Form("SEMAPHORE", "CMPXCHG", 0, 0, <<"r1", "r2", "rax">>, <<"r1", "rax", "flags">>),
     Locked(Form("SEMAPHORE", "CMPXCHG", 1, 1, <<"r2", "rax">>, <<"rax", "flags">>), TRUE),
     Locked(Form("SEMAPHORE", "XADD", 1, 1, <<"r1">>, <<"r1", "flags">>), TRUE),
     Locked(Form("SEMAPHORE", "CMPXCHG16B", 1, 1, <<"r2", "rax">>, <<"rax", "flags">>), TRUE),
     Form("SSE", "ADDPD", 1, 0, <<"r1">>, <<"r1">>), Form("CONVERT", "CVTPD2PS", 1, 0, <<>>, <<"r1">>),
     Form("CONVERT", "CVTPD2PS", 1, 0, <<"r1">>, <<"r1">>), Form("CONVERT", "CVTSS2SI", 0, 0, <<"r1">>, <<"r2">>),
     Form("CONVERT", "VCVT", 1, 0, <<>>, <<"r2">>),
     Form("BRANCH", "JCC", 0, 0, <<"rip", "flags">>, <<"rip">>), Form("BRANCH", "JS", 0, 0, <<"rip", "flags">>, <<"rip">>),
     Form("BRANCH", "LOOP", 0, 0, <<"rip", "rcx">>, <<"rip", "rcx">>), Form("BRANCH", "CALL", 0, 1, <<"rip">>, <<"rip">>),
     Form("BRANCH", "RET", 1, 0, <<>>, <<"rip">>),
     Form("STACK", "PUSH", 0, 1, <<"r1">>, <<>>), Form("STACK", "PUSH", 1, 1, <<>>, <<>>),
     Form("STACK", "PUSH", 1, 0, <<>>, <<"r1">>), Form("STACK", "POPF", 1, 0, <<>>, <<"flags">>),
     Form("STACK", "PUSHF", 0, 1, <<"flags">>, <<>>), Form("STACK", "PUSHA", 0, 1, <<"r1">>, <<>>),
     Form("PREFETCH", "PREFETCH", 1, 0, <<>>, <<>>), Form("STRINGOP", "STOS", 0, 1, <<"rax", "rdi">>, <<"rdi">>),
     Form("STRINGOP", "LODS", 1, 0, <<"rsi">>, <<"rax", "rsi">>),
     Form("STRINGOP", "MOVS", 1, 1, <<"rsi", "rdi">>, <<"rsi", "rdi">>),
     Form("STRINGOP", "CMPS", 2, 0, <<"rsi", "rdi">>, <<"rsi", "rdi", "flags">>),
     Form("STRINGOP", "SCAS", 1, 0, <<"rax", "rdi">>, <<"rdi", "flags">>),
     Form("MISC", "LEA", 0, 0, <<"r1">>, <<"r2">>), Form("MISC", "PAUSE", 0, 0, <<>>, <<>>),
     Form("MISC", "XLAT", 1, 0, <<"rax">>, <<"rax">>), Form("AVX", "VADD", 1, 0, <<"r1">>, <<"r1">>),
     Form("BINARY", "CMP", 1, 0, <<"r1">>, <<"flags">>), Form("BINARY", "TEST", 0, 0, <<"r1", "r2">>, <<"flags">>),
     [Form("BINARY", "CMP", 1, 0, <<>>, <<"flags">>) EXCEPT !.imm = TRUE]}
few ==
    {Form("BINARY", "ADD", 0, 0, <<"r1">>, <<"r1", "flags">>), Form("BINARY", "ADD", 1, 0, <<"r1">>, <<"r1", "flags">>),
     Form("BINARY", "CMP", 0, 0, <<"r1", "r2">>, <<"flags">>), Form("BRANCH", "JCC", 0, 0, <<"rip", "flags">>, <<"rip">>)}

\* Pairs of all forms; short blocks of a few, whose instructions cross a line
\* or fill the decoders.
DE == INSTANCE Decoder WITH
        Blocks <- << [forms |-> forms, bytes |-> {3}, length |-> 2, offset |-> 0],
                     [forms |-> few, bytes |-> {2, 9}, length |-> 3, offset |-> 14],
                     [forms |-> {f \in few : f.cat # "BRANCH"}, bytes |-> {3}, length |-> 5, offset |-> 0] >>

(***************************************************************************)
(* Configurations of two and three levels: every shape of a tree from the  *)
(* lists of children below, loops and missing groups included; cores that  *)
(* share groups of caches; combinations of arrays and policies; networks,  *)
(* banks and controllers; trace-driven systems; names used twice.          *)
(***************************************************************************)
Group(kids, caches, banks) ==
    [children |-> kids, caches |-> caches, banks |-> banks, size |-> 8, ways |-> 2, cands |-> 4, array |-> "SetAssoc",
     hash |-> "None", repl |-> "LRU", mapper |-> "Core", type |-> "Simple", hack |-> FALSE]
Both == << <<"i", "d">> >>
Apart == << <<"i">>, <<"d">> >>
CoreGroup(k, type, ic, dc) == [name |-> "c", n |-> k, type |-> type, icache |-> ic, dcache |-> dc]

TwoLevels ==
    [names |-> <<"i", "d", "l2">>, grp |-> [i |-> Group(<<>>, 2, 1), d |-> Group(<<>>, 2, 1), l2 |-> Group(Both, 1, 2)],
     cores |-> <<CoreGroup(2, "Timing", "i", "d")>>, controllers |-> 2, memType |-> "Simple", split |-> TRUE,
     domains |-> 2, lineSize |-> 2, procs |-> 2, grouped |-> {1}, traceDriven |-> FALSE, network |-> <<>>,
     newline |-> TRUE]
ThreeLevels ==
    [TwoLevels EXCEPT !.names = <<"i", "d", "l2", "l3">>,
                      !.grp = [i |-> Group(<<>>, 2, 1), d |-> Group(<<>>, 2, 1), l2 |-> Group(Both, 2, 1),
                               l3 |-> Group(<< <<"l2">> >>, 1, 2)]]

Lists ==
    {<<>>, Both, Apart, << <<"l2">> >>, << <<"l3">> >>, << <<"d">>, <<"l3">> >>, << <<"l2", "d">> >>, << <<"i", "x">> >>}
Trees ==
    {[ThreeLevels EXCEPT !.grp.l2.children = x, !.grp.l3.children = y, !.grp.i.caches = i, !.grp.d.caches = k,
                         !.grp.l2.caches = n] : x \in Lists, y \in Lists, i \in 0 .. 2, k \in 1 .. 2, n \in 0 .. 2}
SharedCaches ==
    {[ThreeLevels EXCEPT !.cores = <<CoreGroup(i, type, "i", dc), CoreGroup(k, other, "d", "d")>>, !.domains = n,
                         !.grp.d.caches = x, !.grp.l2.children = Apart, !.grp.l2.caches = 1] :
        i \in 1 .. 2, k \in 0 .. 1, type \in {"Timing", "Simple"}, other \in {"OOO", "Null"}, dc \in {"d", "i", "l2"},
        x \in 1 .. 4, n \in {1, 3}}
Arrays ==
    {[TwoLevels EXCEPT !.grp.l2 = [@ EXCEPT !.array = x, !.hash = h, !.repl = r, !.mapper = m, !.size = n, !.ways = w]] :
        x \in {"SetAssoc", "Z", "IdealLRU", "IdealLRUPart", "none"}, h \in {"None", "H3"}, n \in {8, 20, 24}, w \in {1, 2, 8},
        r \in {"LRU", "NRU", "WayPart", "Vantage", "IdealLRUPart"},
        m \in {"Core", "InstrData", "InstrDataCore", "Process", "InstrDataProcess", "ProcessGroup"}}
Link(src, dst, delay) == [src |-> src, dst |-> dst, delay |-> delay]
OneLink == << Link(<<"i", 0, 0>>, <<"l2", 0, 0>>, 3) >>
Networks ==
    {[TwoLevels EXCEPT !.network = f, !.newline = x, !.grp.l2.banks = n, !.controllers = k, !.split = y, !.domains = w] :
        f \in {<<>>, OneLink, Append(OneLink, Link(<<"l2", 0, 1>>, <<"d", 1, 0>>, 5)),
               Append(OneLink, Link(<<"l2", 0, 0>>, <<"i", 0, 0>>, 5))},
        x \in BOOLEAN, y \in BOOLEAN, n \in {1, 2, 4}, k \in 0 .. 2, w \in 1 .. 3}
TraceDriven ==
    {[TwoLevels EXCEPT !.traceDriven = x, !.grp.i.type = i, !.grp.d.type = k, !.grp.l2.type = type, !.grp.l2.banks = n] :
        x \in BOOLEAN, i \in {"TraceDriven", "Simple"}, k \in {"TraceDriven", "Timing"}, n \in 1 .. 2,
        type \in {"Simple", "Timing", "Tracing", "TraceDriven"}}
ProcessGroups ==
    {[TwoLevels EXCEPT !.grp.l2.repl = "Vantage", !.grp.l2.mapper = "ProcessGroup", !.procs = 3, !.grouped = x] :
        x \in SUBSET {1, 2}}
NamedLike == {[TwoLevels EXCEPT !.cores[1].name = x] : x \in {"i", "l2"}}

SI == INSTANCE SystemInit WITH
        Confs <- Trees \cup SharedCaches \cup Arrays \cup Networks \cup TraceDriven \cup ProcessGroups \cup NamedLike,
        MAX_CACHE_CHILDREN <- 5

\* Two cores and two processes, of one group or of two.
PS == INSTANCE ProcStats WITH
        Cores <- {1, 2}, NumProcs <- 2, Groupings <- {{}, {1}}, MaxRuns <- 3, MaxPhases <- 3

(***************************************************************************)
(* The sum.  Variables a module does not have stay 0.                      *)
(***************************************************************************)
onlyCA == <<lookupArray, lineMap, repl, valid, sharers, parentHas, pend, lastUse>>
onlyPA == <<st, mon, log>>
onlyCO == <<orig, data, perf, ref, refPerf, occupied, occPerf, initialized, initPerf, inserts>>
onlyPF == <<tag, timestamp, cycle>>
onlyTR == <<held, dir, cyc, file, reader, trace, accs, play>>
onlyOC == <<c, thread, count>>
onlyRE == <<core, rec, ev, clock, done>>
onlySL == <<weave, slabs, curSlab, freeList, liveSlabs, elems, made, todo, giving, called, failed>>
onlyBP == <<bhsr, pht>>
onlyDE == <<bbl, uops, pre, dec>>
onlySI == <<at, sys>>
onlyPS == <<grouped, running, instrs, process, stats, numPhases, answer, own, missed>>

NoCA ==
    /\ lookupArray = 0 /\ lineMap = 0 /\ repl = 0 /\ valid = 0 /\ sharers = 0 /\ parentHas = 0 /\ pend = 0
    /\ lastUse = 0
NoPA == st = 0 /\ mon = 0 /\ log = 0
NoCO ==
    /\ orig = 0 /\ data = 0 /\ perf = 0 /\ ref = 0 /\ refPerf = 0 /\ occupied = 0 /\ occPerf = 0
    /\ initialized = 0 /\ initPerf = 0 /\ inserts = 0
NoPF == tag = 0 /\ timestamp = 0 /\ cycle = 0
NoTR == held = 0 /\ dir = 0 /\ cyc = 0 /\ file = 0 /\ reader = 0 /\ trace = 0 /\ accs = 0 /\ play = 0
NoOC == c = 0 /\ thread = 0 /\ count = 0
NoRE == core = 0 /\ rec = 0 /\ ev = 0 /\ clock = 0 /\ done = 0
NoSL ==
    /\ weave = 0 /\ slabs = 0 /\ curSlab = 0 /\ freeList = 0 /\ liveSlabs = 0 /\ elems = 0 /\ made = 0
    /\ todo = 0 /\ giving = 0 /\ called = 0 /\ failed = 0
NoBP == bhsr = 0 /\ pht = 0
NoDE == bbl = 0 /\ uops = 0 /\ pre = 0 /\ dec = 0
NoSI == at = 0 /\ sys = 0
NoPS ==
    /\ grouped = 0 /\ running = 0 /\ instrs = 0 /\ process = 0 /\ stats = 0 /\ numPhases = 0 /\ answer = 0
    /\ own = 0 /\ missed = 0

Init ==
    \/ /\ kind = "array" /\ NoSI /\ NoPS /\ NoSL /\ CA!Init /\ NoPA /\ NoCO /\ NoPF /\ NoTR /\ NoOC /\ NoRE /\ NoBP /\ NoDE
       /\ stage = 0 /\ seen = 0
    \/ /\ kind = "partition" /\ NoSI /\ NoPS /\ NoSL /\ PA!Init /\ NoCA /\ NoCO /\ NoPF /\ NoTR /\ NoOC /\ NoRE /\ NoBP /\ NoDE
       /\ array = 0 /\ stage = 0 /\ seen = 0
    \/ /\ kind = "compressor" /\ NoSI /\ NoPS /\ NoSL /\ CO!Init /\ NoCA /\ NoPA /\ NoPF /\ NoTR /\ NoOC /\ NoRE /\ NoBP /\ NoDE
       /\ conf = 0 /\ array = 0 /\ fail = 0 /\ stage = 0 /\ seen = 0
    \/ /\ kind = "prefetcher" /\ NoSI /\ NoPS /\ NoSL /\ PF!Init /\ NoCA /\ NoPA /\ NoCO /\ NoTR /\ NoOC /\ NoRE /\ NoBP /\ NoDE
       /\ conf = 0 /\ fail = 0 /\ stage = 0
    \/ /\ kind = "trace" /\ NoSI /\ NoPS /\ NoSL /\ TR!Init /\ NoCA /\ NoPA /\ NoCO /\ NoPF /\ NoOC /\ NoRE /\ NoBP /\ NoDE
       /\ array = 0 /\ fail = 0
    \/ /\ kind = "core" /\ NoSI /\ NoPS /\ NoSL /\ OC!Init /\ NoCA /\ NoPA /\ NoCO /\ NoPF /\ NoTR /\ NoRE /\ NoBP /\ NoDE /\ conf = 0
       /\ array = 0 /\ fail = 0 /\ stage = 0 /\ seen = 0
    \/ /\ kind = "recorder" /\ NoSI /\ NoPS /\ NoSL /\ RE!Init /\ NoCA /\ NoPA /\ NoCO /\ NoPF /\ NoTR /\ NoOC /\ NoBP /\ NoDE
       /\ conf = 0 /\ array = 0 /\ fail = 0 /\ stage = 0 /\ seen = 0
    \/ /\ kind = "slabs" /\ NoSI /\ NoPS /\ SL!Init /\ NoCA /\ NoPA /\ NoCO /\ NoPF /\ NoTR /\ NoOC /\ NoRE /\ NoBP /\ NoDE
       /\ conf = 0 /\ array = 0 /\ fail = 0 /\ stage = 0 /\ seen = 0
    \/ /\ kind = "predictor" /\ NoSI /\ NoPS /\ NoSL /\ BP!Init /\ NoCA /\ NoPA /\ NoCO /\ NoPF /\ NoTR /\ NoOC /\ NoRE /\ NoDE
       /\ conf = 0 /\ array = 0 /\ fail = 0 /\ stage = 0
    \/ /\ kind = "decoder" /\ NoSI /\ NoPS /\ NoSL /\ DE!Init /\ NoCA /\ NoPA /\ NoCO /\ NoPF /\ NoTR /\ NoOC /\ NoRE /\ NoBP
       /\ array = 0 /\ fail = 0 /\ seen = 0
    \/ /\ kind = "init" /\ SI!Init /\ NoPS /\ NoSL /\ NoCA /\ NoPA /\ NoCO /\ NoPF /\ NoTR /\ NoOC /\ NoRE /\ NoBP /\ NoDE
       /\ array = 0 /\ seen = 0
    \/ /\ kind = "stats" /\ PS!Init /\ NoSI /\ NoSL /\ NoCA /\ NoPA /\ NoCO /\ NoPF /\ NoTR /\ NoOC /\ NoRE /\ NoBP
       /\ NoDE /\ conf = 0 /\ array = 0 /\ fail = 0 /\ stage = 0 /\ seen = 0

notCA == <<kind, onlySI, onlyPS, onlyPA, onlyCO, onlyPF, onlyTR, onlyOC, onlyRE, onlySL, onlyBP, onlyDE, stage, seen>>
notPA == <<kind, onlySI, onlyPS, onlyCA, onlyCO, onlyPF, onlyTR, onlyOC, onlyRE, onlySL, onlyBP, onlyDE, array, stage, seen>>
notCO == <<kind, onlySI, onlyPS, onlyCA, onlyPA, onlyPF, onlyTR, onlyOC, onlyRE, onlySL, onlyBP, onlyDE, conf, array, fail, stage, seen>>
notPF == <<kind, onlySI, onlyPS, onlyCA, onlyPA, onlyCO, onlyTR, onlyOC, onlyRE, onlySL, onlyBP, onlyDE, conf, fail, stage>>
notTR == <<kind, onlySI, onlyPS, onlyCA, onlyPA, onlyCO, onlyPF, onlyOC, onlyRE, onlySL, onlyBP, onlyDE, array, fail>>
notOC == <<kind, onlySI, onlyPS, onlyCA, onlyPA, onlyCO, onlyPF, onlyTR, onlyRE, onlySL, onlyBP, onlyDE, conf, array, fail, stage, seen>>
notRE == <<kind, onlySI, onlyPS, onlyCA, onlyPA, onlyCO, onlyPF, onlyTR, onlyOC, onlySL, onlyBP, onlyDE, conf, array, fail, stage, seen>>
notSL == <<kind, onlySI, onlyPS, onlyCA, onlyPA, onlyCO, onlyPF, onlyTR, onlyOC, onlyRE, onlyBP, onlyDE, conf, array, fail, stage, seen>>
notBP == <<kind, onlySI, onlyPS, onlyCA, onlyPA, onlyCO, onlyPF, onlyTR, onlyOC, onlyRE, onlySL, onlyDE, conf, array, fail, stage>>
notDE == <<kind, onlySI, onlyPS, onlyCA, onlyPA, onlyCO, onlyPF, onlyTR, onlyOC, onlyRE, onlySL, onlyBP, array, fail, seen>>
notSI == <<kind, onlyPS, onlyCA, onlyPA, onlyCO, onlyPF, onlyTR, onlyOC, onlyRE, onlySL, onlyBP, onlyDE, array, seen>>
notPS ==
    <<kind, onlySI, onlyCA, onlyPA, onlyCO, onlyPF, onlyTR, onlyOC, onlyRE, onlySL, onlyBP, onlyDE, conf, array, fail, stage,
      seen>>

NextCA == kind = "array" /\ CA!Next /\ UNCHANGED notCA
NextPA == kind = "partition" /\ PA!Next /\ UNCHANGED notPA
NextCO == kind = "compressor" /\ CO!Next /\ UNCHANGED notCO
NextPF == kind = "prefetcher" /\ PF!Next /\ UNCHANGED notPF
NextTR == kind = "trace" /\ TR!Next /\ UNCHANGED notTR
NextOC == kind = "core" /\ OC!Next /\ UNCHANGED notOC
NextRE == kind = "recorder" /\ RE!Next /\ UNCHANGED notRE
NextSL == kind = "slabs" /\ SL!Next /\ UNCHANGED notSL
NextBP == kind = "predictor" /\ BP!Next /\ UNCHANGED notBP
NextDE == kind = "decoder" /\ DE!Next /\ UNCHANGED notDE
NextSI == kind = "init" /\ SI!Next /\ UNCHANGED notSI
NextPS == kind = "stats" /\ PS!Next /\ UNCHANGED notPS

Next ==
    \/ NextCA \/ NextPA \/ NextCO \/ NextPF \/ NextTR \/ NextOC \/ NextRE \/ NextSL \/ NextBP \/ NextDE \/ NextSI
    \/ NextPS

vars == <<kind, onlySI, onlyPS, onlyCA, onlyPA, onlyCO, onlyPF, onlyTR, onlyOC, onlyRE, onlySL, onlyBP, onlyDE, conf, array, fail, stage, seen>>

Spec == Init /\ [][Next]_vars

-----------------------------------------------------------------------------
(* Properties *)

\* After any sequence of lookups, insertions and replacement walks, a cached
\* line is found where it is, the victim is the one the policy promises, and
\* only combinations the code does not support fail; a line that the
\* compressor left unpaired holds its own data, the partner of a paired line
\* is occupied, and the compressed size never exceeds the line.  The caches
\* that InitSystem builds are wired as their directories and cores rely on,
\* placed in their domains and partitions, and it builds what is a tree of
\* caches with a core for each terminal, and nothing else.
CachesSound ==
    /\ kind = "array" => CA!Findable /\ CA!VictimOldest /\ CA!FailsOnlyUnsupported
    /\ kind = "compressor" => CO!UnpairedPlain /\ CO!PartnersOccupied /\ CO!CompressNeverLarger
    /\ kind = "init" => /\ SI!Wired /\ SI!InterleavedTogether /\ SI!CoresOwnCaches /\ SI!BanksPlaced
                        /\ SI!PartitionsInRange /\ SI!AcceptsTrees

\* The sizes that a partitioned policy keeps are those of its lines, through
\* promotions, demotions and repartitionings; the monitors' miss curves are
\* those of an LRU cache of each size; the victim comes from the partition
\* that exceeds its target most; lookahead only fails where it hands out more
\* than there is.
PartitionsSound ==
    kind = "partition" => PA!SizesExact /\ PA!MissCurveExact /\ PA!VictimOverTarget /\ PA!FailsOnlyBySurplus

\* No functional unit runs two uops in a cycle, however the clock jumps; the
\* accesses a block makes match its uops through context switches; the
\* decoder gives every memory operand its uops, fresh temporaries and decoders
\* in order; the predictor learns a constant branch.
PipelineSound ==
    /\ kind = "core" => OC!UnitsExclusive /\ OC!MemOpsMatch
    /\ kind = "decoder" => DE!MemUopsMatch /\ DE!TempsFresh /\ DE!DecodersInOrder
    /\ kind = "predictor" => BP!Learns

\* The recorder links every access into one event graph: its assertions hold
\* and no response is simulated before what it waits for, through phases,
\* leaves and joins; the slabs that events and their blocks are allocated in are
\* used again once all their events are done, and no earlier, whatever thread
\* frees the last one; the prefetcher merges the records of an access and tracks
\* strides as the pages change; the instructions of a core are credited to
\* the process that ran them, whoever is on the core when they are counted.
RecordsSound ==
    /\ kind = "recorder" => RE!AssertionsHold /\ RE!ResponsesFirst
    /\ kind = "slabs" => SL!SlabsSound
    /\ kind = "prefetcher" => PF!StridesAndRecords
    /\ kind = "stats" => PS!ProcessesExact /\ PS!AnswersExact /\ PS!StatsExact

\* A sorted trace is the written one, in order, whole; a replay visits its
\* records as configured, in their phases, and its coherence agrees with what
\* was recorded.
TracesSound ==
    kind = "trace" => TR!SortedWhole /\ TR!ReplayFaithful /\ TR!ReplayAgrees
=============================================================================
