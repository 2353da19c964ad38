---------------------------- MODULE FastForward ----------------------------
(***************************************************************************)
(* Fast-forwarding, phase ends and termination across the processes of a   *)
(* simulation (zsim.cpp, process_tree.{h,cpp}, event_queue.h,              *)
(* fftoggle.cpp).  Every process has one application thread, one control   *)
(* thread (FFThread) and a node of the process tree in shared memory.  The *)
(* thread that completes a phase runs EndOfPhaseActions with the scheduler *)
(* lock held; the other steps of the barrier are those of Barrier.tla and  *)
(* Scheduler.tla, and appear here as the set of running threads.           *)
(*                                                                         *)
(* A critical section that cannot block is one step.  ffLock is a variable *)
(* because FFThread inserts an event, which takes the queue's lock, while  *)
(* it holds it; qLock because tick() keeps it over callbacks that block.   *)
(***************************************************************************)
EXTENDS Integers, FiniteSets, Sequences
LOCAL INSTANCE SequencesExt

CONSTANTS
    Procs,      \* 0 .. n-1, the process indices
    Confs,      \* configurations, see Init
    MaxRate     \* instructions one process can execute in one phase

FastForwardAssumption ==
    /\ Procs = 0 .. Cardinality(Procs) - 1
    /\ MaxRate \in Nat \ {0}

VARIABLES
    conf,       \* the configuration, fixed at Init
    numProcs, numPhases, activeProcs, ffProcs, sffProcs,   \* GlobSimInfo
    term, extTerm, pauseFlag,                              \* GlobSimInfo
    inFF,       \* ProcessTreeNode::inFastForward
    app,        \* where the application thread is
    ctl,        \* where FFThread is
    toggled,    \* ffToggleLocks[p] was unlocked by fftoggle
    ffLock,     \* the process whose FFThread holds ffLock, or Free
    evMap,      \* the event queue, ordered by phase
    eop,        \* where EndOfPhaseActions is
    eopBy,      \* the process of the thread that runs it
    firing,     \* the event whose callback tick() runs, or Nothing
    endp,       \* where SimEnd is
    instrs,     \* instructions simulated (processStats)
    quota,      \* how many more it can execute in this phase
    ffi,        \* the FFI state of a process
    total,      \* history: all instructions of the process
    beats, dumps,
    ops,        \* commands and magic operations still to come
    fail        \* the assertion or panic that stopped the simulation

world   == <<conf, numProcs, numPhases, activeProcs, term, extTerm, pauseFlag>>
node    == <<inFF, ffProcs, sffProcs>>
threads == <<app, ctl, toggled, ffLock>>
phases  == <<evMap, eop, eopBy, firing>>
counts  == <<instrs, quota, ffi, total, beats, dumps>>
work    == <<endp, counts, ops, fail>>
vars    == <<world, node, threads, phases, work>>

Free == -1
Nothing == [kind |-> "none"]

(***************************************************************************)
(* The process tree node.                                                  *)
(***************************************************************************)
getSyncedFastForward(p) ==
    \/ conf.mode[p] = "always"
    \/ conf.mode[p] = "multi" /\ numProcs > 1

Synced(p) == IF getSyncedFastForward(p) THEN 1 ELSE 0

enterFastForward(p) ==
    /\ inFF' = [inFF EXCEPT ![p] = TRUE]
    /\ ffProcs' = ffProcs + 1
    /\ sffProcs' = sffProcs + Synced(p)

exitFastForward(p) ==
    /\ inFF' = [inFF EXCEPT ![p] = FALSE]
    /\ ffProcs' = ffProcs - 1
    /\ sffProcs' = sffProcs - Synced(p)

(***************************************************************************)
(* The event queue: a multimap from phases to events.                      *)
(***************************************************************************)
Insert(ev, delay) ==
    LET ph == numPhases + delay
        Before(e) == e.phase <= ph
        After(e) == e.phase > ph
    IN  evMap' = SelectSeq(evMap, Before) \o <<[ev EXCEPT !.phase = ph]>> \o SelectSeq(evMap, After)

SyncEvent(p) == [kind |-> "sync", p |-> p, start |-> 0, target |-> 0, phase |-> 0]
DumpEvent(p) == [kind |-> "dump", p |-> p, start |-> 0, target |-> 0, phase |-> 0]
AdaptiveEvent(p, start, target) ==
    [kind |-> "ffi", p |-> p, start |-> start, target |-> target, phase |-> 0]

AdaptivePeriod(left) == IF left \div MaxRate = 0 THEN 1 ELSE left \div MaxRate

qLockFree == eop # "tick"

(***************************************************************************)
(* FFI: intervals of instructions, alternately fast-forwarded and          *)
(* simulated.  start and prev are ffiFFStartInstrs, ffiPrevFFStartInstrs.  *)
(***************************************************************************)
Points(p) == conf.ffiPoints[p]
ffiEnabled(p) == Points(p) # <<>>

\* Only the instructions of FFI processes are told apart.
Quota(p) == IF ffiEnabled(p) THEN MaxRate ELSE 0

FFITrackNFFInterval(p, f) ==
    /\ Insert(AdaptiveEvent(p, f.start, f.limit - f.done), AdaptivePeriod(f.limit - f.done))
    /\ ffi' = [ffi EXCEPT ![p] = [f EXCEPT !.nff = TRUE]]

FFIInit(p) ==
    [point |-> 1, done |-> 0, limit |-> IF ffiEnabled(p) THEN Points(p)[1] ELSE 0,
     start |-> 0, prev |-> 0, nff |-> ffiEnabled(p) /\ p \notin conf.startFF]

FFIEvents(S) ==
    SetToSortSeq({[AdaptiveEvent(p, 0, Points(p)[1]) EXCEPT !.phase = AdaptivePeriod(Points(p)[1])] : p \in S},
                 LAMBDA e, f : e.phase < f.phase)

Init ==
    /\ conf \in Confs
    /\ numProcs = Cardinality(conf.started) /\ activeProcs = Cardinality(conf.started)
    /\ numPhases = 0 /\ term = FALSE /\ extTerm = FALSE /\ pauseFlag = FALSE
    /\ inFF = [p \in Procs |-> p \in conf.startFF]
    /\ ffProcs = Cardinality(conf.startFF)
    /\ sffProcs = Cardinality({p \in conf.startFF : getSyncedFastForward(p)})
    /\ app = [p \in Procs |-> IF p \notin conf.started THEN "none"
                              ELSE IF p \in conf.startFF THEN "ff" ELSE "join"]
    /\ ctl = [p \in Procs |-> IF p \in conf.started THEN "wait" ELSE "none"]
    /\ toggled = [p \in Procs |-> FALSE]
    /\ ffLock = Free
    /\ ffi = [p \in Procs |-> FFIInit(p)]
    /\ evMap = FFIEvents({p \in conf.started : ffi[p].nff})
    /\ eop = "idle" /\ eopBy = 0 /\ firing = Nothing
    /\ endp = [p \in Procs |-> "no"]
    /\ quota = [p \in Procs |-> Quota(p)]
    /\ instrs = [p \in Procs |-> 0] /\ total = [p \in Procs |-> 0]
    /\ beats = [p \in Procs |-> 0] /\ dumps = 0
    /\ ops = conf.ops
    /\ fail = "none"

(***************************************************************************)
(* The barrier as the application threads see it.  schedLock is held while *)
(* a phase ends.                                                           *)
(***************************************************************************)
schedLockFree == eop = "idle"

Running(a) == {p \in Procs : a[p] \in {"sim", "woken"}}
Waiting(a) == {p \in Procs : a[p] = "barrier"}

\* Thread p, which is in the barrier, goes to `to'; the last running thread of a phase ends it.
Move(p, to) ==
    /\ app' = [app EXCEPT ![p] = to]
    /\ IF Running(app') = {} /\ Waiting(app') # {}
       THEN eop' = "pause" /\ eopBy' = p
       ELSE UNCHANGED <<eop, eopBy>>

\* SimEnd: the first caller of a process ends it, a later one sleeps for ever.
SimEnd(p) == endp' = IF endp[p] = "no" THEN [endp EXCEPT ![p] = "called"] ELSE endp

SimThreadStart(p) ==
    /\ schedLockFree
    /\ app' = [app EXCEPT ![p] = "join"]

Alive(p) == app[p] # "none" /\ endp[p] # "done"

(***************************************************************************)
(* The application thread.                                                 *)
(***************************************************************************)
Execute(p) ==
    /\ app[p] = "sim"
    /\ quota[p] > 0
    /\ quota' = [quota EXCEPT ![p] = @ - 1]
    /\ instrs' = [instrs EXCEPT ![p] = @ + 1]
    /\ total' = [total EXCEPT ![p] = @ + 1]
    /\ UNCHANGED <<world, node, threads, phases, endp, ffi, beats, dumps, ops, fail>>

Sync(p) ==
    /\ app[p] = "sim" /\ schedLockFree
    /\ Move(p, "barrier")
    /\ UNCHANGED <<world, node, ctl, toggled, ffLock, evMap, firing, work>>

\* The rest of TakeBarrier.
Woken(p) ==
    /\ app[p] = "woken" /\ schedLockFree
    /\ IF inFF[p] THEN Move(p, "ff")
       ELSE IF term THEN Move(p, "left")
       ELSE Move(p, "sim")
    /\ UNCHANGED <<world, node, ctl, toggled, ffLock, evMap, firing, work>>

\* The faulty form simulates on although the simulation has ended.
Join_NoTerm(p) ==
    /\ app[p] = "join" /\ schedLockFree
    /\ Move(p, "sim")
    /\ UNCHANGED <<world, node, ctl, toggled, ffLock, evMap, firing, work>>

Join(p) ==
    /\ app[p] = "join" /\ schedLockFree
    /\ IF term THEN Move(p, "left") ELSE Move(p, "sim")
    /\ UNCHANGED <<world, node, ctl, toggled, ffLock, evMap, firing, work>>

\* The program ends: the exit system call leaves the scheduler.
Exit(p) ==
    /\ p \in conf.exits /\ app[p] \in {"sim", "ff"}
    /\ IF app[p] = "sim" THEN schedLockFree /\ Move(p, "left")
       ELSE app' = [app EXCEPT ![p] = "left"] /\ UNCHANGED <<eop, eopBy>>
    /\ UNCHANGED <<world, node, ctl, toggled, ffLock, evMap, firing, work>>

\* leave() returned, or there was nothing to leave: SimEnd.
Left(p) ==
    /\ app[p] = "left"
    /\ app' = [app EXCEPT ![p] = "ending"] /\ SimEnd(p)
    /\ UNCHANGED <<world, node, phases, counts, ctl, toggled, ffLock, ops, fail>>

FFBasicBlock(p) ==
    /\ app[p] = "ff" /\ ~ffiEnabled(p)
    /\ ~inFF[p]
    /\ SimThreadStart(p)
    /\ UNCHANGED <<world, node, phases, ctl, toggled, ffLock, work>>

(***************************************************************************)
(* FFIBasicBlock on one instruction, with FFI state f of which the caller  *)
(* may have changed parts: count it; at the limit leave fast-forward and   *)
(* track the interval that follows.                                        *)
(***************************************************************************)
FFIAdvance(p, f) == [f EXCEPT !.point = @ + 1, !.limit = @ + Points(p)[f.point + 1]]
LastPoint(p, f) == f.point = Len(Points(p))

FFIBlock(p, f) ==
    \/ /\ f.done < f.limit
       /\ ffi' = [ffi EXCEPT ![p] = f]
       /\ UNCHANGED <<world, node, threads, phases, endp, fail>>
    \/ /\ f.done >= f.limit /\ LastPoint(p, f)
       /\ app' = [app EXCEPT ![p] = "left"]
       /\ ffi' = [ffi EXCEPT ![p] = f]
       /\ UNCHANGED <<world, node, phases, ctl, toggled, ffLock, endp, fail>>
    \/ /\ f.done >= f.limit /\ ~LastPoint(p, f)
       /\ \/ ~inFF[p] /\ fail' = "ffi-not-in-ff"
          \/ inFF[p] /\ f.done >= FFIAdvance(p, f).limit /\ fail' = "ffi-limit"
       /\ UNCHANGED <<world, node, threads, phases, endp, ffi>>
    \/ /\ f.done >= f.limit /\ ~LastPoint(p, f) /\ inFF[p] /\ f.done < FFIAdvance(p, f).limit
       /\ ffLock = Free /\ qLockFree
       /\ exitFastForward(p)
       /\ FFITrackNFFInterval(p, FFIAdvance(p, f))
       /\ SimThreadStart(p)
       /\ UNCHANGED <<world, ctl, toggled, ffLock, eop, eopBy, firing, endp, fail>>

FFIBasicBlock(p) ==
    /\ app[p] = "ff" /\ ffiEnabled(p) /\ ~ffi[p].nff
    /\ total' = [total EXCEPT ![p] = @ + 1]
    /\ FFIBlock(p, [ffi[p] EXCEPT !.done = @ + 1])
    /\ UNCHANGED <<instrs, quota, beats, dumps, ops>>

\* The first block after the simulator put the process back into fast-forward.
\* The faulty form adds all simulated instructions instead of those of the interval.
EntryState_All(p) == [ffi[p] EXCEPT !.done = @ + ffi[p].start]

EntryState(p) == [ffi[p] EXCEPT !.done = @ + (ffi[p].start - ffi[p].prev)]

FFIEntryBasicBlock(p) ==
    /\ app[p] = "ff" /\ ffiEnabled(p) /\ ffi[p].nff
    /\ IF LastPoint(p, ffi[p])
       THEN /\ app' = [app EXCEPT ![p] = "left"]
            /\ ffi' = [ffi EXCEPT ![p] = EntryState(p)]
            /\ UNCHANGED <<world, node, phases, ctl, toggled, ffLock, endp, total, fail>>
       ELSE /\ total' = [total EXCEPT ![p] = @ + 1]
            /\ FFIBlock(p, [FFIAdvance(p, EntryState(p)) EXCEPT !.nff = FALSE, !.done = @ + 1])
    /\ UNCHANGED <<instrs, quota, beats, dumps, ops>>

(***************************************************************************)
(* Magic operations.  The thread is simulated, or fast-forwarded.          *)
(***************************************************************************)
CanIssue(p, op) == ops[p][op] > 0 /\ app[p] \in {"sim", "ff"}
Issued(p, op) == ops' = [ops EXCEPT ![p][op] = @ - 1]

ROIBegin(p) ==
    /\ CanIssue(p, "begin") /\ Issued(p, "begin") /\ ffLock = Free
    /\ IF inFF[p] THEN exitFastForward(p) ELSE UNCHANGED node
    /\ UNCHANGED <<world, threads, phases, counts, endp, fail>>

ROIEnd(p) ==
    /\ CanIssue(p, "end") /\ Issued(p, "end") /\ ffLock = Free
    /\ IF ~getSyncedFastForward(p) /\ ~inFF[p] THEN enterFastForward(p) ELSE UNCHANGED node
    /\ UNCHANGED <<world, threads, phases, counts, endp, fail>>

heartbeat(p) ==
    /\ CanIssue(p, "beat") /\ Issued(p, "beat")
    /\ beats' = [beats EXCEPT ![p] = IF @ + 1 = conf.dumpHeartbeats /\ conf.dumpsReset THEN 0 ELSE @ + 1]
    /\ IF beats[p] + 1 = conf.dumpHeartbeats
       THEN qLockFree /\ Insert(DumpEvent(p), 0)
       ELSE UNCHANGED evMap
    /\ UNCHANGED <<world, node, threads, eop, eopBy, firing, endp, instrs, quota, ffi, total, dumps, fail>>

(***************************************************************************)
(* fork(): the child's node is a copy of the parent's, taken before the    *)
(* fork; the child then starts like a process of its own.                  *)
(***************************************************************************)
BeforeFork(p) ==
    /\ CanIssue(p, "fork") /\ Issued(p, "fork") /\ numProcs \in Procs
    /\ inFF' = [inFF EXCEPT ![numProcs] = inFF[p]]
    /\ app' = [app EXCEPT ![numProcs] = "forked"]
    /\ numProcs' = numProcs + 1
    /\ UNCHANGED <<phases, counts, conf, numPhases, activeProcs, ffProcs, sffProcs, term, extTerm, pauseFlag, ctl, toggled, ffLock, endp, fail>>

\* notifyStart, then ThreadStart.
AfterForkInChild(c) ==
    /\ app[c] = "forked"
    /\ IF activeProcs = 0
       THEN fail' = "started-after-end" /\ UNCHANGED <<activeProcs, ffProcs, sffProcs, app, ctl>>
       ELSE /\ activeProcs' = activeProcs + 1
            /\ ffProcs' = ffProcs + (IF inFF[c] THEN 1 ELSE 0)
            /\ sffProcs' = sffProcs + (IF inFF[c] THEN Synced(c) ELSE 0)
            /\ app' = [app EXCEPT ![c] = IF inFF[c] THEN "ff" ELSE "start"]
            /\ ctl' = [ctl EXCEPT ![c] = "wait"]
            /\ UNCHANGED fail
    /\ UNCHANGED <<phases, counts, conf, numProcs, numPhases, term, extTerm, pauseFlag, inFF, toggled, ffLock, endp, ops>>

ThreadStart(c) ==
    /\ app[c] = "start"
    /\ SimThreadStart(c)
    /\ UNCHANGED <<world, node, phases, ctl, toggled, ffLock, work>>

(***************************************************************************)
(* fftoggle, an outside program.                                           *)
(***************************************************************************)
Toggle(p) ==
    /\ ops[p].toggle > 0 /\ Issued(p, "toggle") /\ app[p] # "none"
    /\ toggled' = [toggled EXCEPT ![p] = TRUE]
    /\ UNCHANGED <<world, node, phases, counts, app, ctl, ffLock, endp, fail>>

GlobPause ==
    /\ ops[0].pause > 0 /\ Issued(0, "pause")
    /\ pauseFlag' = ~pauseFlag
    /\ UNCHANGED <<node, threads, phases, counts, conf, numProcs, numPhases, activeProcs, term, extTerm, endp, fail>>

Terminate ==
    /\ ops[0].term > 0 /\ Issued(0, "term")
    /\ extTerm' = TRUE
    /\ UNCHANGED <<node, threads, phases, counts, conf, numProcs, numPhases, activeProcs, term, pauseFlag, endp, fail>>

(***************************************************************************)
(* FFThread.                                                               *)
(***************************************************************************)
\* The faulty form leaves the end to the application thread.
CtlTimeout_Sim(p) ==
    /\ ctl[p] = "wait" /\ ~toggled[p] /\ term /\ inFF[p]
    /\ ctl' = [ctl EXCEPT ![p] = "ending"] /\ UNCHANGED endp
    /\ UNCHANGED <<world, node, phases, counts, app, toggled, ffLock, ops, fail>>

CtlTimeout(p) ==
    /\ ctl[p] = "wait" /\ ~toggled[p] /\ term
    /\ ctl' = [ctl EXCEPT ![p] = "ending"] /\ SimEnd(p)
    /\ UNCHANGED <<world, node, phases, counts, app, toggled, ffLock, ops, fail>>

\* Toggled: leave fast-forward at once, or keep ffLock and go on to insert.
CtlToggled(p) ==
    /\ ctl[p] = "wait" /\ toggled[p] /\ ffLock = Free
    /\ toggled' = [toggled EXCEPT ![p] = FALSE]
    /\ IF inFF[p]
       THEN exitFastForward(p) /\ UNCHANGED <<ctl, ffLock>>
       ELSE ffLock' = p /\ ctl' = [ctl EXCEPT ![p] = "insert"] /\ UNCHANGED node
    /\ UNCHANGED <<world, phases, app, work>>

CtlInsert(p) ==
    /\ ctl[p] = "insert" /\ qLockFree
    /\ Insert(SyncEvent(p), 0)
    /\ ffLock' = Free
    /\ ctl' = [ctl EXCEPT ![p] = "pending"]
    /\ UNCHANGED <<world, node, app, toggled, eop, eopBy, firing, work>>


CtlEnter(p) ==
    /\ ctl[p] = "arrived" /\ ffLock = Free
    /\ IF ~inFF[p] THEN enterFastForward(p) ELSE UNCHANGED node
    /\ ctl' = [ctl EXCEPT ![p] = "wait"]
    /\ firing' = Nothing                                   \* syncEv->signal()
    /\ UNCHANGED <<world, app, toggled, ffLock, evMap, eop, eopBy, work>>

(***************************************************************************)
(* EndOfPhaseActions and the scheduler's callback, run by the thread that  *)
(* completed the phase, as long as its process lives.                      *)
(***************************************************************************)
InEOP(s) == eop = s /\ endp[eopBy] # "done"

EOPPaused ==
    /\ InEOP("pause") /\ ~pauseFlag
    /\ eop' = "synced"
    /\ UNCHANGED <<world, node, threads, evMap, eopBy, firing, work>>

\* Waits until no process is in synchronized fast-forward, then CheckForTermination;
\* maxPhases stands for its limits on phases, instructions and simulated time.
EOPCheck ==
    /\ InEOP("synced") /\ sffProcs = 0
    /\ IF term THEN fail' = "phase-after-term" /\ UNCHANGED <<term, eop>>
       ELSE /\ term' = (numPhases >= conf.maxPhases \/ extTerm)
            /\ eop' = "tick"
            /\ UNCHANGED fail
    /\ UNCHANGED <<node, threads, counts, conf, numProcs, numPhases, activeProcs, extTerm, pauseFlag, evMap, eopBy, firing, endp, ops>>

Due == evMap # <<>> /\ Head(evMap).phase <= numPhases

TickDone ==
    /\ InEOP("tick") /\ firing = Nothing /\ ~Due
    /\ eop' = "advance"
    /\ UNCHANGED <<world, node, threads, evMap, eopBy, firing, work>>

TickLate ==
    /\ InEOP("tick") /\ firing = Nothing /\ Due /\ Head(evMap).phase # numPhases
    /\ fail' = "late-event"
    /\ UNCHANGED <<world, node, threads, phases, counts, endp, ops>>

OnTime(k) == InEOP("tick") /\ firing = Nothing /\ Due /\ Head(evMap).phase = numPhases /\ Head(evMap).kind = k

\* SyncEvent::callback: release the control thread and wait for its signal.
FireSync ==
    /\ OnTime("sync")
    /\ LET p == Head(evMap).p IN
       /\ firing' = Head(evMap)
       /\ evMap' = Tail(evMap)
       /\ ctl' = IF ctl[p] = "pending" THEN [ctl EXCEPT ![p] = "arrived"] ELSE ctl
    /\ UNCHANGED <<world, node, app, toggled, ffLock, eop, eopBy, work>>

\* DumpEventualStats.
FireDump ==
    /\ OnTime("dump")
    /\ dumps' = dumps + 1
    /\ term' = (term \/ dumps + 1 = conf.maxDumps)
    /\ evMap' = Tail(evMap)
    /\ UNCHANGED <<node, threads, conf, numProcs, numPhases, activeProcs, extTerm, pauseFlag, eop, eopBy, firing, endp, instrs, quota, ffi, total, beats, ops, fail>>

\* AdaptiveEvent::callback: rearm, or fire: put the process into fast-forward.
FireFFI ==
    /\ OnTime("ffi")
    /\ LET ev == Head(evMap)
           cur == instrs[ev.p] - ev.start
           left == ev.target - cur
           After(e) == e.phase > numPhases + AdaptivePeriod(left)
           Before(e) == ~After(e)
       IN \/ /\ left > 0
             /\ evMap' = SelectSeq(Tail(evMap), Before)
                         \o <<[ev EXCEPT !.phase = numPhases + AdaptivePeriod(left)]>>
                         \o SelectSeq(Tail(evMap), After)
             /\ UNCHANGED <<node, ffi, fail>>
          \/ /\ left <= 0 /\ ffLock = Free
             /\ IF inFF[ev.p] \/ cur - ev.target > MaxRate
                THEN fail' = "ffi-fire" /\ UNCHANGED <<node, ffi, evMap>>
                ELSE /\ enterFastForward(ev.p)
                     /\ evMap' = Tail(evMap)
                     /\ ffi' = [ffi EXCEPT ![ev.p].prev = ffi[ev.p].start, ![ev.p].start = instrs[ev.p]]
                     /\ UNCHANGED fail
    /\ UNCHANGED <<world, threads, eop, eopBy, firing, endp, instrs, quota, total, beats, dumps, ops>>

\* The rest of Scheduler::callback and Barrier::checkRunList.
EOPAdvance ==
    /\ InEOP("advance")
    /\ numPhases' = numPhases + 1
    /\ quota' = [p \in Procs |-> Quota(p)]
    /\ eop' = "idle"
    /\ app' = [p \in Procs |-> IF app[p] = "barrier" THEN "woken" ELSE app[p]]
    /\ UNCHANGED <<node, conf, numProcs, activeProcs, term, extTerm, pauseFlag, ctl, toggled, ffLock, evMap, eopBy, firing, endp, instrs, ffi, total, beats, dumps, ops, fail>>

(***************************************************************************)
(* SimEnd and notifyEnd, by whichever thread came first.  Process 0, which *)
(* holds the simulator's internal threads, waits for all the others.       *)
(***************************************************************************)
EndStart(p) ==
    /\ endp[p] = "called"
    /\ endp' = [endp EXCEPT ![p] = IF inFF[p] THEN "exitFF" ELSE "count"]
    /\ UNCHANGED <<world, node, threads, phases, counts, ops, fail>>

EndExitFF(p) ==
    /\ endp[p] = "exitFF"
    /\ IF inFF[p] THEN exitFastForward(p) /\ endp' = [endp EXCEPT ![p] = "count"] /\ UNCHANGED fail
       ELSE fail' = "end-not-in-ff" /\ UNCHANGED <<node, endp>>
    /\ UNCHANGED <<world, threads, phases, counts, ops>>

\* The faulty form lets process 0 go while others run.
EndCount_Zero(p) ==
    /\ endp[p] = "count"
    /\ activeProcs' = activeProcs - 1
    /\ endp' = [endp EXCEPT ![p] = "done"]
    /\ app' = [app EXCEPT ![p] = "dead"] /\ ctl' = [ctl EXCEPT ![p] = "dead"]
    /\ UNCHANGED <<node, phases, counts, conf, numProcs, numPhases, term, extTerm, pauseFlag, toggled, ffLock, ops, fail>>

EndCount(p) ==
    /\ endp[p] = "count"
    /\ activeProcs' = activeProcs - 1
    /\ IF p = 0 THEN endp' = [endp EXCEPT ![p] = "drain"] /\ UNCHANGED <<app, ctl>>
       ELSE /\ endp' = [endp EXCEPT ![p] = "done"]
            /\ app' = [app EXCEPT ![p] = "dead"] /\ ctl' = [ctl EXCEPT ![p] = "dead"]
    /\ UNCHANGED <<node, phases, counts, conf, numProcs, numPhases, term, extTerm, pauseFlag, toggled, ffLock, ops, fail>>

EndDrain(p) ==
    /\ endp[p] = "drain" /\ activeProcs = 0
    /\ endp' = [endp EXCEPT ![p] = "done"]
    /\ app' = [app EXCEPT ![p] = "dead"] /\ ctl' = [ctl EXCEPT ![p] = "dead"]
    /\ UNCHANGED <<world, node, phases, counts, toggled, ffLock, ops, fail>>

\* The scheduler's watchdog, a thread of process 0.
Watchdog ==
    /\ term /\ schedLockFree /\ endp[0] = "no"
    /\ SimEnd(0)
    /\ UNCHANGED <<world, node, threads, phases, counts, ops, fail>>

\* The application thread does nothing else while it runs EndOfPhaseActions.
Application(p) ==
    /\ ~(eop # "idle" /\ eopBy = p)
    /\ \/ Sync(p) \/ Woken(p) \/ Join(p) \/ Left(p) \/ AfterForkInChild(p) \/ ThreadStart(p)
       \/ FFBasicBlock(p) \/ FFIBasicBlock(p) \/ FFIEntryBasicBlock(p)

Program(p) ==
    /\ ~(eop # "idle" /\ eopBy = p)
    /\ \/ Execute(p) \/ Exit(p)
       \/ ROIBegin(p) \/ ROIEnd(p) \/ heartbeat(p) \/ BeforeFork(p)

Control(p) == CtlTimeout(p) \/ CtlToggled(p) \/ CtlInsert(p) \/ CtlEnter(p)

Ending(p) == EndStart(p) \/ EndExitFF(p) \/ EndCount(p) \/ EndDrain(p)

EndOfPhase ==
    EOPPaused \/ EOPCheck \/ TickDone \/ TickLate \/ FireSync \/ FireDump \/ FireFFI \/ EOPAdvance

External == GlobPause \/ Terminate \/ \E p \in Procs : Toggle(p)

Next ==
    /\ fail = "none"
    /\ \/ \E p \in Procs : Program(p) \/ Application(p) \/ Control(p) \/ Ending(p)
       \/ EndOfPhase \/ Watchdog \/ External

Spec == Init /\ [][Next]_vars

\* Who can go on.  A program under FFI need not: FFThread ends it.
ApplicationReady(p) ==
    /\ ~(eop # "idle" /\ eopBy = p)
    /\ \/ app[p] \in {"left", "forked"}
       \/ schedLockFree /\ app[p] \in {"sim", "woken", "join", "start"}
       \/ schedLockFree /\ app[p] = "ff" /\ ~ffiEnabled(p) /\ ~inFF[p]

ControlReady(p) ==
    \/ ctl[p] = "wait" /\ (IF toggled[p] THEN ffLock = Free ELSE term)
    \/ ctl[p] = "insert" /\ qLockFree
    \/ ctl[p] = "arrived" /\ ffLock = Free

EndingReady(p) == endp[p] \in {"called", "exitFF", "count"} \/ (endp[p] = "drain" /\ activeProcs = 0)

EndOfPhaseReady ==
    \/ InEOP("pause") /\ ~pauseFlag
    \/ InEOP("synced") /\ sffProcs = 0
    \/ InEOP("tick") /\ firing = Nothing /\ (Due /\ Head(evMap).kind = "ffi" => ffLock = Free)
    \/ InEOP("advance")

WatchdogReady == term /\ schedLockFree /\ endp[0] = "no"

Goes == fail = "none"

\* A thread that can go on for ever does so at last.  The steps named are
\* what the thread changes, so that these are the weak fairness conditions
\* of Application, Control, Ending, EndOfPhase and Watchdog.
ControlMoves(p) == ctl'[p] # ctl[p] \/ toggled'[p] # toggled[p]

FairSpec ==
    /\ Spec
    /\ \A p \in Procs :
           /\ []<>~(Goes /\ ApplicationReady(p)) \/ []<><<app'[p] # app[p]>>_app
           /\ []<>~(Goes /\ ControlReady(p)) \/ []<><<ControlMoves(p)>>_<<ctl, toggled>>
           /\ []<>~(Goes /\ EndingReady(p)) \/ []<><<endp'[p] # endp[p]>>_endp
    /\ []<>~(Goes /\ EndOfPhaseReady) \/ []<><<TRUE>>_<<eop, evMap>>
    /\ []<>~(Goes /\ WatchdogReady) \/ []<><<endp'[0] # endp[0]>>_endp

(***************************************************************************)
(* Properties.                                                             *)
(***************************************************************************)
Counted == {p \in Procs : app[p] \notin {"none", "forked"}}

\* globalFFProcs and globalSyncedFFProcs, which the phase end waits for and
\* the harness's deadlock detection trusts, count the processes whose node
\* is in fast-forward - except that a process in mode Multiprocess enters
\* as the only process and leaves as one of several, or the reverse.
CountsExact ==
    fail = "none" =>
        /\ ffProcs = Cardinality({p \in Counted : inFF[p]})
        /\ \/ numProcs > 1 /\ Cardinality(conf.started) = 1 /\ \E p \in Counted : conf.mode[p] = "multi"
           \/ sffProcs = Cardinality({p \in Counted : inFF[p] /\ getSyncedFastForward(p)})

\* Commands or magic operations for p changed its mode behind FFI's back.
Mixed(p) == \E o \in {"begin", "end", "toggle"} : ops[p][o] # conf.ops[p][o]

\* The assertions on phases, fast-forward and process counts hold, and
\* tick() finds no event whose phase has passed, except where two controls
\* meet: FFI with commands or magic operations; FFI intervals no longer than
\* one phase, which end up to two phases late; SimEnd with a thread that
\* leaves fast-forward meanwhile; an event for the current phase that is
\* queued after tick() and before numPhases++.
AssertionsHold ==
    \/ fail = "none"
    \/ fail \in {"ffi-not-in-ff", "ffi-fire"} /\ \E p \in Procs : ffiEnabled(p) /\ (Mixed(p) \/ endp[p] # "no")
    \/ fail = "ffi-fire" /\ Head(evMap).target < MaxRate
    \/ fail = "ffi-limit" /\ \E p \in Procs : \E i \in DOMAIN Points(p) : Points(p)[i] <= MaxRate
    \/ fail = "late-event" /\ Head(evMap).kind \in {"sync", "dump"} /\ Head(evMap).phase = numPhases - 1
    \/ fail = "end-not-in-ff" /\ \E p \in Procs : endp[p] = "exitFF" /\ (Mixed(p) \/ ffiEnabled(p))
    \/ fail = "started-after-end" /\ endp[0] \in {"drain", "done"}

\* Process 0 ends last: its scheduler and contention threads serve the others.
RootEndsLast == endp[0] = "done" => \A p \in Procs : app[p] \in {"none", "forked", "dead"}

\* An FFI process that nobody else switches has its instructions counted
\* exactly once, over all its fast-forwarded and simulated intervals.
FFIExact ==
    \A p \in Procs : fail = "none" /\ ffiEnabled(p) /\ ~Mixed(p) /\ app[p] = "ff" =>
        total[p] = ffi[p].done + (IF ffi[p].nff THEN ffi[p].start - ffi[p].prev ELSE 0)

\* tick() waits for a control thread that waits for ffLock, whose holder
\* waits for the queue's lock that tick() holds; or tick() waits for ffLock itself.
LockCycle ==
    /\ eop = "tick" /\ ffLock # Free /\ ctl[ffLock] = "insert"
    /\ \/ firing # Nothing
       \/ Due /\ Head(evMap).kind = "ffi"

\* A shared lock or an event of a process that has exited holds up the rest.
Orphaned ==
    \/ ffLock # Free /\ endp[ffLock] = "done"
    \/ firing # Nothing /\ endp[firing.p] = "done"
    \/ eop # "idle" /\ endp[eopBy] = "done"

\* The locks are taken in an order that cannot block the end of a phase for ever.
TickReturns == ~LockCycle

\* Once a termination condition is met every process ends, its fast-forward
\* mode and the thread that noticed notwithstanding, unless the simulation
\* is stopped by a failed assertion or by a lock nobody will release.
TerminationCompletes ==
    term ~> \/ \A p \in Procs : endp[p] = "done" \/ app[p] = "none"
            \/ LockCycle \/ Orphaned \/ fail # "none"
=============================================================================
