------------------------------ MODULE MCMemory -------------------------------
(***************************************************************************)
(* The timing models below the coherence protocol, for model checking: the *)
(* sum of DetailedMem, DDRMem, MemModels and TimingCache.  The initial     *)
(* state chooses the module; behaviours of different modules do not mix.   *)
(***************************************************************************)
EXTENDS Integers, FiniteSets, Sequences

CONSTANTS
    Reads,          \* accesses to a DetailedMem,
    Requests,       \* to a DDRMem,
    Counted,        \* to a queueing model,
    Misses,         \* to a timing cache
    Threads         \* the threads that use the queueing model

VARIABLES
    kind,
    mParam, chnls, sches, nextTick, accesses, bursts, overflowed,
    mc, schedAt, annulled, refreshAt, acts, quiet,
    pc, lock, numPhases, lastPhase, curPhaseAccesses, smoothed, curLatency, made, used, inflight, transactions, finished,
    acc, queue, port, activeMisses, taken,
    conf, now, held, failed

(***************************************************************************)
(* A DetailedMem with one or three channels, every interleaving, open and  *)
(* closed pages, with and without a scheduler.  Times are small, in the    *)
(* order that real ones have, so that refreshes and power-down happen.     *)
(***************************************************************************)
Base ==
    [open |-> FALSE, mergeContinuous |-> FALSE, interleaveType |-> 0, schedulerQueueCount |-> 0, channelCount |-> 1,
     rankCount |-> 2, bankCount |-> 4, colLowWidth |-> 0, colAddrWidth |-> 1, controllerLatency |-> 1,
     powerDownCycle |-> 8, accessLogDepth |-> 2, sysFreq |-> 1, memFreq |-> 1, tRC |-> 5, tRAS |-> 3, tRCD |-> 2,
     tRP |-> 2, tRPab |-> 2, tRTRS |-> 1, tRRD |-> 2, tWR |-> 2, tWTR |-> 1, tCAS |-> 4, tCWD |-> 2, tCCD |-> 2,
     tTrans |-> 4, tXP |-> 2, tREFI |-> 40, tRFC |-> 6, tFAW |-> 7, tRTP |-> 2]
Wide == [Base EXCEPT !.open = TRUE, !.channelCount = 3, !.sysFreq = 2, !.colLowWidth = 1, !.colAddrWidth = 2]

DM == INSTANCE DetailedMem WITH
        Params <- {[Base EXCEPT !.open = TRUE], [Base EXCEPT !.mergeContinuous = TRUE],
                   [Base EXCEPT !.open = TRUE, !.mergeContinuous = TRUE, !.interleaveType = 1],
                   [Base EXCEPT !.open = TRUE, !.schedulerQueueCount = 4, !.powerDownCycle = 0, !.interleaveType = 5]}
                  \cup {[Wide EXCEPT !.interleaveType = t] : t \in 0 .. 8},
        Lines <- {0, 1, 16}, AllLines <- 0 .. 99, Gaps <- {0, 3, 38}, MaxAccesses <- Reads, MaxTick <- 150, MaxIdle <- 2

(***************************************************************************)
(* A DDRMem whose queues hold one request or two, so that they overflow,   *)
(* and one whose bus is slow, so that activations are recorded out of      *)
(* order; both refresh while requests wait.                                *)
(***************************************************************************)
Req(row, bank, write) == [row |-> row, bank |-> bank, rank |-> 0, write |-> write]
Small ==
    [deferredWrites |-> TRUE, closedPage |-> FALSE, queueDepth |-> 2, maxRequests |-> Requests,
     timing |-> [tBL |-> 2, tCL |-> 2, tRCD |-> 2, tRTP |-> 1, tRP |-> 2, tRRD |-> 1, tRAS |-> 4, tFAW |-> 8,
                 tWTR |-> 1, tWR |-> 2, tRFC |-> 4, tREFI |-> 9],
     requests |-> {Req(r, b, w) : r \in {0, 1}, b \in {0, 1}, w \in BOOLEAN}]

DDR == INSTANCE DDRMem WITH
        Confs <- {Small,
                  [Small EXCEPT !.queueDepth = 1, !.deferredWrites = FALSE, !.closedPage = TRUE],
                  [Small EXCEPT !.queueDepth = 4, !.maxRequests = Requests + 1, !.timing.tBL = 6, !.timing.tFAW = 5,
                                !.requests = {Req(0, 0, FALSE), Req(1, 0, FALSE), Req(0, 1, FALSE), Req(0, 2, FALSE)}]},
        sysFreq <- 5, memFreq <- 2, rowHitLimit <- 1, ActWindowSize <- 2, RankSet <- {0}, BankSet <- {0, 1, 2},
        Gaps <- {1}, MaxRefreshes <- 2

MM == INSTANCE MemModels WITH
        zeroLoadLatency <- 10, boundLatency <- 8, phaseLength <- 2, MinPhaseCycles <- 3, Capacity <- 2,
        MaxPhases <- 4, MaxAccesses <- Counted, Events <- {1, 2}, Addrs <- {1, 2}

\* A zcache of three ways and nine candidates, and misses that need the port again.
TC == INSTANCE TimingCache WITH
        NumAccesses <- Misses, Starts <- {2, 4}, numMSHRs <- 2, accLat <- 1, tagLat <- 2, ways <- 3, cands <- 9,
        Kinds <- {[type |-> "hit", get |-> 0, evict |-> 0], [type |-> "miss", get |-> 3, evict |-> 1],
                  [type |-> "miss", get |-> 1, evict |-> 4]}

ASSUME Assumptions == DM!ParamsAssumption /\ DDR!TimingAssumption /\ MM!LatencyAssumption

(***************************************************************************)
(* The sum.  Variables a module does not have stay 0.                      *)
(***************************************************************************)
onlyDM == <<mParam, chnls, sches, nextTick, accesses, bursts, overflowed>>
onlyDDR == <<mc, schedAt, annulled, refreshAt, acts, quiet>>
onlyMM == <<pc, lock, numPhases, lastPhase, curPhaseAccesses, smoothed, curLatency, made, used, inflight,
            transactions, finished>>
onlyTC == <<acc, queue, port, activeMisses, taken>>

NoDM ==
    mParam = 0 /\ chnls = 0 /\ sches = 0 /\ nextTick = 0 /\ accesses = 0 /\ bursts = 0 /\ overflowed = 0
NoDDR ==
    /\ mc = 0 /\ schedAt = 0 /\ annulled = 0 /\ refreshAt = 0 /\ acts = 0
    /\ quiet = 0
NoMM ==
    /\ pc = 0 /\ lock = 0 /\ numPhases = 0 /\ lastPhase = 0 /\ curPhaseAccesses = 0 /\ smoothed = 0 /\ curLatency = 0
    /\ made = 0 /\ used = 0 /\ inflight = 0 /\ transactions = 0 /\ finished = 0
NoTC == acc = 0 /\ queue = 0 /\ port = 0 /\ activeMisses = 0 /\ taken = 0

Init ==
    \/ kind = "detailed" /\ DM!Init /\ NoDDR /\ NoMM /\ NoTC /\ conf = 0
    \/ kind = "ddr" /\ DDR!Init /\ NoDM /\ NoMM /\ NoTC
    \/ kind = "md1" /\ MM!Init /\ NoDM /\ NoDDR /\ NoTC /\ conf = 0 /\ now = 0 /\ held = {}
    \/ kind = "timing" /\ TC!Init /\ NoDM /\ NoDDR /\ NoMM /\ conf = 0 /\ now = 0 /\ failed = {}

notDM == <<kind, conf, onlyDDR, onlyMM, onlyTC>>
notDDR == <<kind, onlyDM, onlyMM, onlyTC>>
notMM == <<kind, onlyDM, onlyDDR, onlyTC, conf, now, held>>
notTC == <<kind, onlyDM, onlyDDR, onlyMM, conf, now, failed>>

NextDM == kind = "detailed" /\ DM!Next /\ UNCHANGED notDM
NextDDR == kind = "ddr" /\ DDR!Next /\ UNCHANGED notDDR
NextMM == kind = "md1" /\ MM!Next /\ UNCHANGED notMM
NextTC == kind = "timing" /\ TC!Next /\ UNCHANGED notTC

Next == NextDM \/ NextDDR \/ NextMM \/ NextTC

vars == <<kind, onlyDM, onlyDDR, onlyMM, onlyTC, conf, now, held, failed>>

\* The fairness of the modules: the tick event requeues itself, and the
\* contention simulator runs every queued event.
Spec ==
    /\ Init /\ [][Next]_vars
    /\ WF_nextTick(kind = "detailed" /\ DM!TickDue)
    /\ []<>~(kind = "ddr" /\ DDR!EventDue) \/ []<><<kind = "ddr" /\ DDR!EventRuns>>_vars
    /\ WF_vars(NextTC)

-----------------------------------------------------------------------------
(* Properties *)

\* No two users of a resource meet: the bursts on a data bus of a DetailedMem,
\* but for those of a rank that was just woken; the activations of a rank of a
\* DDRMem in one tFAW window, and those of a bank and a refresh; the accesses
\* to the port of a timing cache.
TimingRespected ==
    /\ kind = "detailed" => DM!BusExclusive
    /\ kind = "ddr" => DDR!ActivationsSpaced /\ DDR!RowsRespectRefresh
    /\ kind = "timing" => TC!PortExclusive

\* No request is lost, made twice or counted twice on its way: both maps of a
\* DetailedMem send a line to one channel and its scheduler queues a write
\* once; DRAMSim2's callbacks find their events; each access is used by one
\* update of the MD1 latency; an access waits for an MSHR only while all are
\* taken.  The assertions of the controllers hold, but for the one that
\* DM!AssertionsHold explains.
RequestsKept ==
    /\ kind = "detailed" => DM!MapAgrees /\ DM!WritesQueuedOnce /\ DM!AssertionsHold
    /\ kind = "ddr" => DDR!AssertionsHold
    /\ kind = "md1" => MM!CallbacksMatch /\ MM!AccessesUsedOnce
    /\ kind = "timing" => TC!WaitsOnlyWhenFull

\* Every request is answered: reads that a scheduler holds although writes
\* take over between the watermarks; requests that overflow the queues of a
\* DDRMem, whatever is annulled or refreshed; accesses that wait for an MSHR,
\* for the port or for their own replacement walk.
RequestsAnswered ==
    /\ (kind = "detailed") ~> (held = {})
    /\ <>[](kind = "ddr" => held = {})
    /\ <>(kind = "timing" => \A a \in DOMAIN acc : acc[a].done)
=============================================================================
