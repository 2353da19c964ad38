------------------------------ MODULE MCDriver ------------------------------
(***************************************************************************)
(* The Pin tool's driver and its surroundings, for model checking: the     *)
(* sum of FastForward, ThreadDriver, FutexMatch, Harness, Virt, Clocks and *)
(* RWMutex.  The initial state chooses the module; behaviours of different *)
(* modules do not mix.                                                     *)
(***************************************************************************)
EXTENDS Integers, FiniteSets, Sequences

CONSTANTS
    Procs,      \* the processes of a simulation, {0, 1}
    Threads,    \* the threads that call futexes, and that lock
    a, b        \* the threads of a process

VARIABLES
    kind,
    numProcs, numPhases, activeProcs, ffProcs, sffProcs, extTerm, pauseFlag, app, ctl, toggled, ffLock, evMap,
    eop, eopBy, firing, endp, instrs, quota, ffi, total, beats, dumps, ops,
    th, phase, ended, signals,
    join, allowed, unmatched, calls, outside, leaked, strangers,
    main, next, child, os, code, started, restartsLeft, procExited, active, phases, ready, attached, woken,
    stalled, lastPhases, termStatus, todo, lost, seen, silent,
    virtToReal, realToVirt, pvLock, sock, rewrites, raced, right, mask, answer,
    glob, real, offset, loc, cur, end, call, reads, moved, ahead, back,
    wq, rb, readers,
    conf, inFF, term, fail, failed, switches, cid, pc

(***************************************************************************)
(* Fast-forwarding and termination.                                        *)
(***************************************************************************)
Per(x, y) == [p \in Procs |-> IF p = 0 THEN x ELSE y]
Quiet == [begin |-> 0, end |-> 0, beat |-> 0, fork |-> 0, toggle |-> 0, pause |-> 0, term |-> 0]
Plain ==
    [mode |-> Per("always", "multi"), ffiPoints |-> Per(<<>>, <<>>), startFF |-> {}, started |-> {0, 1}, exits |-> {},
     ops |-> Per(Quiet, Quiet), maxPhases |-> 1, dumpHeartbeats |-> 2, dumpsReset |-> FALSE, maxDumps |-> 1]
Ctrl == [Plain EXCEPT !.startFF = {0}, !.mode = Per("always", "never"),
                      !.ops = Per([Quiet EXCEPT !.toggle = 1, !.term = 1], [Quiet EXCEPT !.end = 1, !.toggle = 1])]
Region == [Plain EXCEPT !.exits = {0}, !.mode = Per("always", "never"),
                        !.ops = Per([Quiet EXCEPT !.pause = 1, !.begin = 1], [Quiet EXCEPT !.end = 1, !.begin = 1])]
Intervals == [Plain EXCEPT !.ffiPoints = Per(<<2, 3, 2>>, <<>>), !.startFF = {0}, !.exits = {1}, !.maxPhases = 4]
Alternate == [Plain EXCEPT !.ffiPoints = Per(<<3, 1, 3, 8>>, <<>>), !.started = {0}, !.maxPhases = 5]
Mixed == [Plain EXCEPT !.ffiPoints = Per(<<1, 1, 2>>, <<>>), !.ops[0].toggle = 1, !.maxPhases = 2]
Forks == [Plain EXCEPT !.started = {0}, !.exits = {0, 1}, !.startFF = {0}, !.mode = Per("multi", "multi"),
                       !.ops[0].fork = 1, !.ops[0].toggle = 1, !.ops[0].begin = 1]
Beats == [Plain EXCEPT !.ops = Per([Quiet EXCEPT !.beat = 2], [Quiet EXCEPT !.beat = 1]), !.dumpHeartbeats = 1,
                       !.dumpsReset = TRUE, !.maxDumps = 2, !.maxPhases = 2]

FF == INSTANCE FastForward WITH MaxRate <- 2,
        Confs <- {Ctrl, Region, Intervals, Alternate, Mixed, Forks, Beats}

(***************************************************************************)
(* The threads of a process and their system calls.                        *)
(***************************************************************************)
Two ==
    [threads |-> {a, b}, ops |-> 1, calls |-> {"plain", "nanosleep", "timeout", "exit"}, registerThreads |-> FALSE,
     blockingSyscalls |-> FALSE, backToBack |-> FALSE, startFF |-> FALSE, switches |-> 1, signals |-> 0, vdso |-> 0]
One == [Two EXCEPT !.threads = {a}, !.ops = 2]
Configurations ==
    {[Two EXCEPT !.calls = {"nanosleep", "timeout"}], [One EXCEPT !.startFF = TRUE, !.switches = 2],
     [One EXCEPT !.signals = 1, !.calls = {"plain", "nanosleep", "timeout"}],
     [Two EXCEPT !.calls = {"plain", "exit"}], [Two EXCEPT !.signals = 1, !.calls = {"nanosleep"}, !.switches = 0],
     [One EXCEPT !.calls = {"plain", "setaffinity"}],
     [One EXCEPT !.calls = {"plain", "setaffinity"}, !.startFF = TRUE],
     [One EXCEPT !.calls = {"plain", "badsleep"}],
     [One EXCEPT !.calls = {"plain", "nanosleep", "timeout"}, !.backToBack = TRUE],
     [One EXCEPT !.calls = {"plain", "timeout"}, !.blockingSyscalls = TRUE, !.switches = 0],
     [One EXCEPT !.calls = {"plain", "setaffinity"}, !.blockingSyscalls = TRUE],
     [One EXCEPT !.calls = {"plain"}, !.registerThreads = TRUE],
     [One EXCEPT !.calls = {}, !.vdso = 3, !.switches = 0, !.signals = 1]}

TD == INSTANCE ThreadDriver WITH Threads <- {a, b}, MaxPhases <- 2, MaxWait <- 2, Confs <- Configurations

FM == INSTANCE FutexMatch WITH MaxWakes <- 2, Outsiders <- 1, MaxCalls <- 1

(***************************************************************************)
(* The harness.                                                            *)
(***************************************************************************)
Calm == [restarts |-> Per(0, 0), todo |-> [crash |-> 0, ff |-> 0, term |-> 0, int |-> 0], deadlockDetection |-> TRUE]

HA == INSTANCE Harness WITH StallLimit <- 1, MaxPhases <- 2,
        Confs <- {[Calm EXCEPT !.restarts = Per(0, 2)], [Calm EXCEPT !.restarts = Per(1, 0)],
                  [Calm EXCEPT !.todo.crash = 1], [Calm EXCEPT !.todo.ff = 2],
                  [Calm EXCEPT !.restarts = Per(0, 1), !.todo.term = 1], [Calm EXCEPT !.todo.int = 2],
                  [Calm EXCEPT !.restarts = Per(0, 1), !.deadlockDetection = FALSE]}

(***************************************************************************)
(* What programs see: ports and CPUs, and clocks read on either kind of    *)
(* core while the processes fast-forward.                                  *)
(***************************************************************************)
Ports == [part |-> "ports", rewrites |-> 1, perProcess |-> FALSE, mask |-> {0, 1, 2}]
Cpus(per, cores) == [Ports EXCEPT !.part = "cpus", !.perProcess = per, !.mask = cores]

VI == INSTANCE Virt WITH
        Socks <- {1, 2, 3}, VPorts <- {7, 8}, RPorts <- {31, 32, 33}, NumCores <- 3,
        Confs <- {[Ports EXCEPT !.rewrites = 0], Ports, Cpus(FALSE, {0, 1, 2}), Cpus(FALSE, {0, 2}), Cpus(TRUE, {0, 2})}

Clocked(core, idle, clock, ff, n, max) ==
    [core |-> core, startFF |-> ff, idle |-> idle, switches |-> n, reader |-> 0, clock |-> clock, maxCycle |-> max]

CL == INSTANCE Clocks WITH
        Cores <- {"x", "y"}, PhaseLength <- 2, Steps <- {1, 3},
        Confs <- {Clocked("simple", TRUE, "clock", {0}, 1, 2), Clocked("simple", FALSE, "clock", {1}, 1, 4),
                  Clocked("simple", FALSE, "tsc", {0}, 1, 3), Clocked("null", FALSE, "tsc", {0}, 1, 2),
                  Clocked("simple", FALSE, "tsc", {}, 0, 6)}

RW == INSTANCE RWMutex

ASSUME Assumptions == FF!FastForwardAssumption /\ VI!VirtAssumption /\ CL!ClocksAssumption

(***************************************************************************)
(* The sum.  Variables a module does not have stay 0.                      *)
(***************************************************************************)
onlyFF == <<numProcs, numPhases, activeProcs, ffProcs, sffProcs, extTerm, pauseFlag, app, ctl, toggled, ffLock,
           evMap, eop, eopBy, firing, endp, instrs, quota, ffi, total, beats, dumps, ops>>
onlyTD == <<th, phase, ended, signals>>
onlyFM == <<join, allowed, unmatched, calls, outside, leaked, strangers>>
onlyHA == <<main, next, child, os, code, started, restartsLeft, procExited, active, phases, ready, attached,
           woken, stalled, lastPhases, termStatus, todo, lost, seen, silent>>
onlyVI == <<virtToReal, realToVirt, pvLock, sock, rewrites, raced, right, mask, answer>>
onlyCL == <<glob, real, offset, loc, cur, end, call, reads, moved, ahead, back>>
onlyRW == <<wq, rb, readers>>

NoFF ==
    /\ numProcs = 0 /\ numPhases = 0 /\ activeProcs = 0 /\ ffProcs = 0 /\ sffProcs = 0 /\ extTerm = 0
    /\ pauseFlag = 0 /\ app = 0 /\ ctl = 0 /\ toggled = 0 /\ ffLock = 0 /\ evMap = 0 /\ eop = 0 /\ eopBy = 0
    /\ firing = 0 /\ endp = 0 /\ instrs = 0 /\ quota = 0 /\ ffi = 0 /\ total = 0 /\ beats = 0 /\ dumps = 0
    /\ ops = 0
NoTD == th = 0 /\ phase = 0 /\ ended = 0 /\ signals = 0
NoFM ==
    /\ join = 0 /\ allowed = 0 /\ unmatched = 0 /\ calls = 0 /\ outside = 0 /\ leaked = 0 /\ strangers = 0
NoHA ==
    /\ main = 0 /\ next = 0 /\ child = 0 /\ os = 0 /\ code = 0 /\ started = 0 /\ restartsLeft = 0
    /\ procExited = 0 /\ active = 0 /\ phases = 0 /\ ready = 0 /\ attached = 0 /\ woken = 0 /\ stalled = 0
    /\ lastPhases = 0 /\ termStatus = 0 /\ todo = 0 /\ lost = 0 /\ seen = 0 /\ silent = 0
NoVI ==
    /\ virtToReal = 0 /\ realToVirt = 0 /\ pvLock = 0 /\ sock = 0 /\ rewrites = 0 /\ raced = 0 /\ right = 0
    /\ mask = 0 /\ answer = 0
NoCL ==
    /\ glob = 0 /\ real = 0 /\ offset = 0 /\ loc = 0 /\ cur = 0 /\ end = 0 /\ call = 0 /\ reads = 0 /\ moved = 0
    /\ ahead = 0 /\ back = 0
NoRW == wq = 0 /\ rb = 0 /\ readers = 0

Init ==
    \/ /\ kind = "ff" /\ FF!Init /\ NoTD /\ NoFM /\ NoHA /\ NoVI /\ NoCL /\ NoRW /\ failed = 0 /\ switches = 0
       /\ cid = 0 /\ pc = 0
    \/ /\ kind = "threads" /\ TD!Init /\ NoFF /\ NoFM /\ NoHA /\ NoVI /\ NoCL /\ NoRW /\ failed = 0 /\ cid = 0
       /\ pc = 0
    \/ /\ kind = "futex" /\ FM!Init /\ NoFF /\ NoTD /\ NoHA /\ NoVI /\ NoCL /\ NoRW /\ conf = 0 /\ inFF = 0
       /\ term = 0 /\ fail = 0 /\ switches = 0 /\ cid = 0
    \/ /\ kind = "harness" /\ HA!Init /\ NoFF /\ NoTD /\ NoFM /\ NoVI /\ NoCL /\ NoRW /\ fail = 0
       /\ failed = 0 /\ switches = 0 /\ cid = 0 /\ pc = 0
    \/ /\ kind = "virt" /\ VI!Init /\ NoFF /\ NoTD /\ NoFM /\ NoHA /\ NoCL /\ NoRW /\ inFF = 0 /\ term = 0
       /\ fail = 0 /\ switches = 0 /\ pc = 0
    \/ /\ kind = "clocks" /\ CL!Init /\ NoFF /\ NoTD /\ NoFM /\ NoHA /\ NoVI /\ NoRW /\ term = 0 /\ fail = 0
       /\ failed = 0 /\ pc = 0
    \/ /\ kind = "rwmutex" /\ RW!Init /\ NoFF /\ NoTD /\ NoFM /\ NoHA /\ NoVI /\ NoCL /\ conf = 0 /\ inFF = 0
       /\ term = 0 /\ fail = 0 /\ failed = 0 /\ switches = 0 /\ cid = 0

notFF == <<kind, onlyTD, onlyFM, onlyHA, onlyVI, onlyCL, onlyRW, failed, switches, cid, pc>>
notTD == <<kind, onlyFF, onlyFM, onlyHA, onlyVI, onlyCL, onlyRW, failed, cid, pc>>
notFM == <<kind, onlyFF, onlyTD, onlyHA, onlyVI, onlyCL, onlyRW, conf, inFF, term, fail, switches, cid>>
notHA == <<kind, onlyFF, onlyTD, onlyFM, onlyVI, onlyCL, onlyRW, fail, failed, switches, cid, pc>>
notVI == <<kind, onlyFF, onlyTD, onlyFM, onlyHA, onlyCL, onlyRW, inFF, term, fail, switches, pc>>
notCL == <<kind, onlyFF, onlyTD, onlyFM, onlyHA, onlyVI, onlyRW, term, fail, failed, pc>>
notRW == <<kind, onlyFF, onlyTD, onlyFM, onlyHA, onlyVI, onlyCL, conf, inFF, term, fail, failed, switches, cid>>

NextFF == kind = "ff" /\ FF!Next /\ UNCHANGED notFF
NextTD == kind = "threads" /\ TD!Next /\ UNCHANGED notTD
NextFM == kind = "futex" /\ FM!Next /\ UNCHANGED notFM
NextHA == kind = "harness" /\ HA!Next /\ UNCHANGED notHA
NextVI == kind = "virt" /\ VI!Next /\ UNCHANGED notVI
NextCL == kind = "clocks" /\ CL!Next /\ UNCHANGED notCL
NextRW == kind = "rwmutex" /\ RW!Next /\ UNCHANGED notRW

Next == NextFF \/ NextTD \/ NextFM \/ NextHA \/ NextVI \/ NextCL \/ NextRW

vars == <<kind, onlyFF, onlyTD, onlyFM, onlyHA, onlyVI, onlyCL, onlyRW, conf, inFF, term, fail, failed, switches, cid, pc>>

\* The fairness of the modules: threads that run, the control threads, the
\* watchdog and the harness go on; what programs and users do is up to them.
IsFF == kind = "ff" /\ FF!Goes
IsTD == kind = "threads" /\ TD!Going

Spec ==
    /\ Init /\ [][Next]_vars
    /\ \A p \in Procs :
           /\ []<>~(IsFF /\ FF!ApplicationReady(p)) \/ []<><<IsFF /\ app'[p] # app[p]>>_app
           /\ []<>~(IsFF /\ FF!ControlReady(p)) \/ []<><<IsFF /\ FF!ControlMoves(p)>>_<<ctl, toggled>>
           /\ []<>~(IsFF /\ FF!EndingReady(p)) \/ []<><<IsFF /\ endp'[p] # endp[p]>>_endp
    /\ []<>~(IsFF /\ FF!EndOfPhaseReady) \/ []<><<IsFF>>_<<eop, evMap>>
    /\ []<>~(IsFF /\ FF!WatchdogReady) \/ []<><<IsFF /\ endp'[0] # endp[0]>>_endp
    /\ \A t \in {a, b} :
           /\ []<>~(IsTD /\ TD!SimulatorReady(t)) \/ []<><<IsTD /\ th'[t] # th[t]>>_th
           /\ []<>~(IsTD /\ th[t].fake) \/ []<><<IsTD /\ ~th'[t].fake>>_th
    /\ []<>~(IsTD /\ TD!EndPhaseReady) \/ []<><<IsTD>>_phase
    /\ []<>~(IsTD /\ term) \/ []<><<IsTD>>_ended
    /\ \A t \in Threads :
           /\ WF_(FM!vars)(kind = "futex" /\ ~failed /\ FM!WakerJoins(t))
           /\ WF_(FM!vars)(kind = "futex" /\ ~failed /\ FM!Reports(t))
    /\ WF_(HA!vars)(kind = "harness" /\ ~HA!Gone /\ HA!MainProgram)
    /\ \A i \in Procs :
           /\ WF_(HA!vars)(kind = "harness" /\ ~HA!Gone /\ HA!Process(i))
           /\ WF_(HA!vars)(kind = "harness" /\ ~HA!Gone /\ HA!chldSigHandler(i))

-----------------------------------------------------------------------------
(* Properties *)


\* What the driver, the scheduler and the kernel know of a thread agrees: its
\* analysis functions and its core, sleeps and their phases, nested vDSO
\* calls; woken threads join before their waker, within the allowance; a
\* writer that holds the reader-writer lock is alone.
ThreadsSound ==
    /\ kind = "threads" => TD!PointersAgree /\ TD!SleepersWait /\ TD!VdsoBalanced
    /\ kind = "futex" => FM!AllowanceExact /\ FM!WokenJoinFirst
    /\ kind = "rwmutex" => RW!WritersAlone

\* Assertions and panics of the driver, the event queue and the harness, and
\* the harness's verdict of a deadlock, have one of the causes that the
\* modules list.
DriverAssertions ==
    /\ kind = "ff" => FF!AssertionsHold
    /\ kind = "threads" => TD!AssertionsHold
    /\ kind = "harness" => HA!PanicsExplained /\ HA!StallsReal


\* Everything that waits goes on: a met termination condition ends every
\* process; sleeps end and timeouts are not retried for ever; a waker does not
\* wait for ever for those it woke; and the harness comes to an end - each but
\* for the cases the modules name.
DriverProgress ==
    /\ (kind = "ff" /\ term) ~> (kind = "ff" => \/ \A p \in Procs : endp[p] = "done" \/ app[p] = "none"
                                                \/ FF!LockCycle \/ FF!Orphaned \/ fail # "none")
    /\ \A t \in {a, b} : (kind = "threads" /\ TD!Waits(t)) ~> (kind = "threads" => TD!WaitOver(t))
    /\ \A t \in Threads : (kind = "futex" /\ pc[t] \in {"woke", "matching"})
                          ~> (kind = "futex" => pc[t] = "run" \/ failed)
    /\ <>(kind = "harness" => HA!Over)
=============================================================================
