------------------------------ MODULE Scheduler ------------------------------
(***************************************************************************)
(* The thread scheduler of src/src/scheduler.h and scheduler.cpp on top of *)
(* the phase barrier (module Barrier): simulated threads share the         *)
(* contexts (cores), pass contexts on when they block, sleep, leave only   *)
(* "in name" during system calls, and are repaired by a watchdog thread.   *)
(*                                                                         *)
(* Everything between two operations on schedLock is one action.  The      *)
(* record sched holds the scheduler's data; pc[g] says where the host      *)
(* thread of g is:                                                         *)
(*   off       not started, or finished                                    *)
(*   out       its next step is a join: just started, or in a system call  *)
(*   run       executing on core cid                                       *)
(*   entering  in a system call's pre-patch, about to call syscallLeave    *)
(*   leaving   syscallLeave has released the lock and calls leave          *)
(*   matching  in futexWakeJoin, waiting for the threads it woke           *)
(*   polled    timeout post-patch: isSleeping returned true                *)
(*   joining, syncing   inside Barrier::join, Barrier::sync                *)
(*   waiting   in waitForContext                                           *)
(*   finLeave, finEnd   inside finish, before and after its leave          *)
(*   dead, reaped   its process was killed; the watchdog finishes it       *)
(*                                                                         *)
(* Phases are relative: quantum is curPhase % schedQuantum, untilWakeup    *)
(* wakeupPhase - curPhase, and moved says curPhase # lastPhase to the      *)
(* watchdog.  All callers of wakeup pass needsJoin = false, so the join of *)
(* waitForContext is never executed; waitUntilQueued only delays.  A       *)
(* failed assertion or panic stops the simulation: sched.failed names it.  *)
(***************************************************************************)
EXTENDS Integers, Sequences, FiniteSets

CONSTANTS
    Gids,               \* simulated threads
    NoThread,           \* the null thread pointer
    Pid,                \* Pid[g]: the process of thread g
    numCores, parallelThreads, CleanupPeriod, schedQuantum,
    Masks,              \* affinity masks that threads may have
    SyscallPcs,         \* addresses of system call instructions
    Blacklistable,      \* those whose call matches syscallBlacklistRegex
    NoPc,               \* no system call
    MaxSleep,           \* longest sleep, in phases
    StallThreshold,     \* WATCHDOG_STALL_THRESHOLD, 100 in the code
    BatchFloor          \* the 8 of the watchdog's loop over fake leaves

Cores == 0 .. numCores - 1

ASSUME GidsAssumption == IsFiniteSet(Gids) /\ NoThread \notin Gids
ASSUME BoundsAssumption ==
    /\ {numCores, parallelThreads, schedQuantum, MaxSleep, StallThreshold} \subseteq Nat \ {0}
    /\ BatchFloor \in Nat
    /\ CleanupPeriod \in Nat \ {0, 1}
ASSUME MasksAssumption == Masks \subseteq (SUBSET Cores) \ {{}} /\ Cores \in Masks
ASSUME PcAssumption == NoPc \notin SyscallPcs /\ Blacklistable \subseteq SyscallPcs

S == INSTANCE SequencesExt

VARIABLES
    bar, synced,    \* the phase barrier, see module Barrier
    sched,          \* the scheduler's data, see SchedulerType
    pc,             \* where each thread is
    wd,             \* the watchdog thread, see WatchdogType
    raced           \* history: see Goto

vars == <<bar, synced, sched, pc, wd, raced>>

B == INSTANCE Barrier WITH Threads <- Cores

ThreadState == {"STARTED", "RUNNING", "OUT", "BLOCKED", "SLEEPING", "QUEUED"}

\* The assertions and panics, by place, and "" for none.
Places == {"", "schedule", "deschedule", "wakeup", "schedTick", "callback",
           "Barrier::join", "Barrier::leave", "Barrier::sync", "finishFakeLeave",
           "join", "leave", "wait", "sync", "syncReturns", "markForSleep",
           "syscallLeave", "notifySleepEnd", "finish"}

SchedulerType ==
    [state            : [Gids -> ThreadState],
     cid              : [Gids -> Cores],
     handoffThread    : [Gids -> Gids \cup {NoThread}],
     futexWord        : [Gids -> {0, 1}],
     markedForSleep   : [Gids -> BOOLEAN],
     untilWakeup      : [Gids -> 0 .. MaxSleep],
     mask             : [Gids -> Masks],
     fakeLeave        : [Gids -> SyscallPcs \cup {NoPc}],
     curThread        : [Cores -> Gids \cup {NoThread}],
     freeList         : Seq(Cores),
     runQueue         : Seq(Gids),
     outQueue         : Seq(Gids),
     sleepQueue       : Seq(Gids),
     fakeLeaves       : Seq(Gids),
     blockingSyscalls : SUBSET ({Pid[g] : g \in Gids} \X SyscallPcs),
     quantum          : 0 .. schedQuantum - 1,
     failed           : Places]

PcValues == {"off", "out", "run", "entering", "leaving", "matching", "polled",
             "joining", "syncing", "waiting", "finLeave", "finEnd", "dead", "reaped"}

WatchdogType ==
    [at : {"idle", "leave", "relock", "recheck", "driving", "cleanup"},
     moved : BOOLEAN, stalls : 0 .. StallThreshold,
     th : Gids \cup {NoThread}, pid : {Pid[g] : g \in Gids} \cup {NoThread},
     cid : Cores, pc : SyscallPcs \cup {NoPc}]

Members(q) == S!ToSet(q)
InState(s, st) == {g \in Gids : s.state[g] = st}

\* An assertion of the code at the named place.
Check(s, place, holds) ==
    IF holds \/ s.failed # "" THEN s ELSE [s EXCEPT !.failed = place]

-----------------------------------------------------------------------------
(* schedule, deschedule, wakeup and the scheduling policy                   *)

schedule(s, g, c) ==
    [Check(s, "schedule", s.state[g] \in {"STARTED", "BLOCKED", "QUEUED"}
                          /\ s.curThread[c] = NoThread)
        EXCEPT !.state[g] = "RUNNING", !.cid[g] = c, !.curThread[c] = g]

deschedule(s, g, c, target) ==
    [Check(s, "deschedule", s.state[g] \in {"RUNNING", "OUT"}
                            /\ s.cid[g] = c /\ s.curThread[c] = g)
        EXCEPT !.state[g] = target, !.curThread[c] = NoThread]

wakeup(s, g) ==
    [Check(s, "wakeup", s.futexWord[g] = 1) EXCEPT !.futexWord[g] = 0]

\* The first element of q that satisfies P, if any does.
First(q, P(_)) == q[CHOOSE i \in DOMAIN q : P(q[i]) /\ \A j \in 1 .. i - 1 : ~ P(q[j])]

NoCore == -1

\* Faulty form: the last core is taken whatever the mask says.
FreeCore_LastCore(s, g) ==
    LET allowed(c) == c \in s.mask[g]
    IN  IF s.curThread[s.cid[g]] = NoThread THEN s.cid[g]
        ELSE IF Members(s.freeList) \cap s.mask[g] # {} THEN First(s.freeList, allowed)
        ELSE NoCore

\* A free core for g: the one it ran on last, or the first of the free list.
FreeCore(s, g) ==
    LET allowed(c) == c \in s.mask[g]
    IN  IF s.curThread[s.cid[g]] = NoThread /\ allowed(s.cid[g]) THEN s.cid[g]
        ELSE IF Members(s.freeList) \cap s.mask[g] # {} THEN First(s.freeList, allowed)
        ELSE NoCore

\* Faulty form: no context is taken from a thread that is OUT.
schedThread_NoSteal(s, g) ==
    [core |-> FreeCore(s, g), s |-> [s EXCEPT !.freeList = S!RemoveFirst(@, FreeCore(s, g))]]

\* The context for a thread that became available, and the data once it is
\* taken: its last core, the first free one, or that of a thread that is OUT.
schedThread(s, g) ==
    LET free == FreeCore(s, g)
        stealable(o) == s.cid[o] \in s.mask[g]
        out == First(s.outQueue, stealable)
    IN  IF free # NoCore
        THEN [core |-> free, s |-> [s EXCEPT !.freeList = S!RemoveFirst(@, free)]]
        ELSE IF \E o \in Members(s.outQueue) : stealable(o)
        THEN [core |-> s.cid[out],
              s |-> deschedule([s EXCEPT !.outQueue = S!RemoveFirst(@, out)],
                               out, s.cid[out], "BLOCKED")]
        ELSE [core |-> NoCore, s |-> s]

\* The queued thread to run on a context that became available.
schedContext(s, c) ==
    LET fits(g) == c \in s.mask[g]
    IN  IF \E g \in Members(s.runQueue) : fits(g) THEN First(s.runQueue, fits)
        ELSE NoThread

\* Context c passes to g, which waits in waitForContext; the core and the
\* barrier see no change.
PassContext(s, g, c) ==
    wakeup(schedule([s EXCEPT !.runQueue = S!RemoveFirst(@, g)], g, c), g)

\* The end of a quantum: what core each position of the run queue is promised,
\* if any.  In the order of the queue, each thread gets the first core it may
\* use of those left, in a random order of the cores.
Promises(s) ==
    LET Left(to, i) == s.mask[s.runQueue[i]] \ {to[j] : j \in 1 .. i - 1}
    IN  {to \in [DOMAIN s.runQueue -> Cores \cup {NoCore}] :
            \A i \in DOMAIN to :
                IF Left(to, i) = {} THEN to[i] = NoCore ELSE to[i] \in Left(to, i)}

\* Queue q without the positions of a set.
Without(q, gone) ==
    LET left == DOMAIN q \ gone
    IN  [k \in 1 .. Cardinality(left) |->
            q[CHOOSE i \in left : Cardinality({j \in left : j <= i}) = k]]

\* Faulty form: the thread handed a context also stays in the run queue.
HandOff_KeepQueued(s, to) ==
    LET given == {i \in DOMAIN to : to[i] # NoCore}
        from(v) == {i \in given : s.curThread[to[i]] = v}
    IN  [Check(s, "schedTick", from(NoThread) = {}) EXCEPT
            !.handoffThread = [v \in Gids |->
                IF from(v) = {} THEN @[v] ELSE s.runQueue[CHOOSE i \in from(v) : TRUE]]]

\* The thread on a promised core is to hand it off when it returns from sync.
HandOff(s, to) ==
    LET given == {i \in DOMAIN to : to[i] # NoCore}
        from(v) == {i \in given : s.curThread[to[i]] = v}
    IN  [Check(s, "schedTick", from(NoThread) = {}) EXCEPT
            !.handoffThread = [v \in Gids |->
                IF from(v) = {} THEN @[v] ELSE s.runQueue[CHOOSE i \in from(v) : TRUE]],
            !.runQueue = Without(@, given)]

schedTick(s) == {HandOff(s, to) : to \in Promises(s)}

-----------------------------------------------------------------------------
(* The end of a phase                                                       *)

\* The length of the longest prefix of the sleep queue that is due in u phases.
DueBy(s, u) ==
    CHOOSE k \in 0 .. Len(s.sleepQueue) :
        /\ \A i \in 1 .. k : s.untilWakeup[s.sleepQueue[i]] <= u
        /\ k < Len(s.sleepQueue) => s.untilWakeup[s.sleepQueue[k + 1]] > u

\* Faulty form: the queue is not kept in the order of the deadlines.
sleepInsert_Back(s, g) == Append(s.sleepQueue, g)

sleepInsert(s, g) == S!InsertAt(s.sleepQueue, DueBy(s, s.untilWakeup[g]) + 1, g)

\* Wake the sleepers whose phase has come; they are BLOCKED until they join.
wakeSleepers(s) ==
    LET due == Members(SubSeq(s.sleepQueue, 1, DueBy(s, 1)))
        onTime == \A g \in due : s.untilWakeup[g] = 1 /\ s.futexWord[g] = 1
    IN  [Check(s, "callback", onTime) EXCEPT
            !.state = [g \in Gids |-> IF g \in due THEN "BLOCKED" ELSE @[g]],
            !.futexWord = [g \in Gids |-> IF g \in due THEN 0 ELSE @[g]],
            !.sleepQueue = SubSeq(@, DueBy(s, 1) + 1, Len(@)),
            !.untilWakeup = [g \in Gids |-> IF @[g] = 0 THEN 0 ELSE @[g] - 1]]

\* Faulty form: no thread is preempted at the end of a quantum.
callback_NoTick(s) == {[wakeSleepers(s) EXCEPT !.quantum = (@ + 1) % schedQuantum]}

\* callback: what the barrier calls at the end of a phase.
callback(s) ==
    LET awake == [wakeSleepers(s) EXCEPT !.quantum = (@ + 1) % schedQuantum]
    IN  IF awake.runQueue # << >> /\ awake.quantum = 0 THEN schedTick(awake)
        ELSE {awake}

PhaseEnds == bar'.phaseCount # bar.phaseCount

\* After a call of the barrier, made with the data s; w is the watchdog's record.
AfterBarrier(s, w) ==
    /\ sched' \in IF PhaseEnds THEN callback(s) ELSE {s}
    /\ wd' = [w EXCEPT !.moved = @ \/ PhaseEnds]

NoBarrier(s, w) == sched' = s /\ wd' = w /\ UNCHANGED <<bar, synced>>

BarrierJoin(s, c) ==
    IF bar.state[c] \in {"OFFLINE", "LEFT"}
    THEN B!join(c) /\ AfterBarrier(s, wd)
    ELSE NoBarrier(Check(s, "Barrier::join", FALSE), wd)

\* Faulty form: nobody else is woken, and the phase does not end.
BarrierLeave_Quiet(s, c, w) ==
    /\ bar' = [bar EXCEPT !.state[c] = "LEFT", !.leftThreads = @ + 1,
                          !.runningThreads = @ - 1]
    /\ UNCHANGED synced
    /\ AfterBarrier(s, w)

BarrierLeave(s, c, w) ==
    IF bar.state[c] = "RUNNING" THEN B!leave(c) /\ AfterBarrier(s, w)
    ELSE IF bar.state[c] = "WAITING" THEN B!leaveWaiting(c) /\ AfterBarrier(s, w)
    ELSE NoBarrier(Check(s, "Barrier::leave", FALSE), w)

BarrierSync(s, c) ==
    IF bar.state[c] = "RUNNING" THEN B!sync(c) /\ AfterBarrier(s, wd)
    ELSE NoBarrier(Check(s, "Barrier::sync", FALSE), wd)

Working == sched.failed = "" /\ ~ raced
At(g, places) == Working /\ wd.at # "driving" /\ pc[g] \in places

\* g goes to another place.  raced: it did so between the watchdog's undoing its
\* fake leave and the leave the watchdog then makes on its behalf.  The model
\* stops there, as it does at a failed assertion: two threads now act for g.
Goto(g, place) ==
    /\ pc' = [pc EXCEPT ![g] = place]
    /\ raced' = (raced \/ (wd.at = "leave" /\ wd.th = g /\ place # "matching"))

-----------------------------------------------------------------------------
(* Threads: start, join, leave, sync                                        *)

\* A new ThreadInfo.
Fresh(s, g) ==
    [s EXCEPT !.state[g] = "STARTED", !.cid[g] = 0, !.handoffThread[g] = NoThread,
              !.futexWord[g] = 0, !.markedForSleep[g] = FALSE,
              !.untilWakeup[g] = 0, !.mask[g] = Cores, !.fakeLeave[g] = NoPc]

start(g) ==
    /\ At(g, {"off"})
    /\ \E m \in Masks : NoBarrier([Fresh(sched, g) EXCEPT !.mask[g] = m], wd)
    /\ Goto(g, "out")

finishFakeLeave(s, g) ==
    [Check(s, "finishFakeLeave", s.state[g] = "RUNNING")
        EXCEPT !.fakeLeave[g] = NoPc, !.fakeLeaves = S!RemoveFirst(@, g)]

\* waitForContext: g is in the run queue and waits on its futex word.
Queue(s, g) ==
    [s EXCEPT !.state[g] = "QUEUED", !.runQueue = Append(@, g), !.futexWord[g] = 1]

\* Faulty form: the context is taken without joining the barrier.
JoinOrQueue_NoJoin(s, g) ==
    LET found == schedThread(s, g)
    IN  IF found.core # NoCore
        THEN NoBarrier(schedule(found.s, g, found.core), wd) /\ Goto(g, "run")
        ELSE NoBarrier(Queue(s, g), wd) /\ Goto(g, "waiting")

\* Take a context for g and join the barrier, or queue.
JoinOrQueue(s, g) ==
    LET found == schedThread(s, g)
    IN  IF found.core # NoCore
        THEN BarrierJoin(schedule(found.s, g, found.core), found.core) /\ Goto(g, "joining")
        ELSE NoBarrier(Queue(s, g), wd) /\ Goto(g, "waiting")

\* A thread that joins while it SLEEPs ends its sleep early.
EndSleep(s, g) ==
    IF s.state[g] # "SLEEPING" THEN s
    ELSE [s EXCEPT !.state[g] = "BLOCKED", !.untilWakeup[g] = 0,
                   !.sleepQueue = S!RemoveFirst(@, g)]

\* Faulty form: a thread that is OUT looks for a context like any other.
join_NoRejoin(g) ==
    /\ At(g, {"out", "matching"})
    /\ IF sched.fakeLeave[g] # NoPc
       THEN NoBarrier(finishFakeLeave(sched, g), wd) /\ Goto(g, "run")
       ELSE JoinOrQueue(EndSleep(sched, g), g)

\* join, after futexWakeJoin or futexWaitJoin (module FutexMatch): a fake
\* leave is just undone, a thread that is OUT still has its context.
join(g) ==
    LET s == EndSleep(sched, g)
        rejoin == [s EXCEPT !.state[g] = "RUNNING", !.outQueue = S!RemoveFirst(@, g)]
    IN  /\ At(g, {"out", "matching"})
        /\ IF sched.fakeLeave[g] # NoPc
           THEN NoBarrier(finishFakeLeave(sched, g), wd) /\ Goto(g, "run")
           ELSE IF sched.markedForSleep[g] \/ s.state[g] \notin {"OUT", "BLOCKED", "STARTED"}
           THEN NoBarrier(Check(sched, "join", FALSE), wd) /\ Goto(g, "out")
           ELSE IF s.state[g] = "OUT"
           THEN BarrierJoin(rejoin, s.cid[g]) /\ Goto(g, "joining")
           ELSE JoinOrQueue(s, g)

\* Barrier::join returns: the thread runs.
joinReturns(g) ==
    /\ At(g, {"joining"})
    /\ bar.state[sched.cid[g]] = "RUNNING"
    /\ NoBarrier(sched, wd)
    /\ Goto(g, "run")

\* waitForContext returns: whoever passed the context has cleared the word.
waitReturns(g) ==
    /\ At(g, {"waiting"})
    /\ sched.futexWord[g] # 1
    /\ NoBarrier(Check(sched, "wait", sched.state[g] = "RUNNING"), wd)
    /\ Goto(g, "run")

\* leave by g on core c, with the watchdog's record w: pass the context on to a
\* queued thread; otherwise free it, or keep it while OUT.
leave(g, c, w) ==
    LET sleeps == sched.markedForSleep[g]
        blocked == deschedule(sched, g, c, "BLOCKED")
        asleep == deschedule([sched EXCEPT !.markedForSleep[g] = FALSE,
                                           !.sleepQueue = sleepInsert(sched, g)],
                             g, c, "SLEEPING")
        in == schedContext(sched, c)
        Free(s) == [s EXCEPT !.freeList = Append(@, c)]
    IN  IF sched.curThread[c] # g \/ sched.state[g] # "RUNNING"
        THEN NoBarrier(Check(sched, "leave", FALSE), wd)
        ELSE IF in # NoThread
        THEN NoBarrier(PassContext(IF sleeps THEN asleep ELSE blocked, in, c), w)
        ELSE IF sleeps THEN BarrierLeave(Free(asleep), c, w)
        ELSE IF c \notin sched.mask[g] THEN BarrierLeave(Free(blocked), c, w)
        ELSE BarrierLeave([sched EXCEPT !.state[g] = "OUT",
                                        !.outQueue = Append(@, g)], c, w)

threadLeave(g) ==
    /\ At(g, {"leaving"})
    /\ leave(g, sched.cid[g], wd)
    /\ Goto(g, "out")

sync(g) ==
    /\ At(g, {"run"})
    /\ BarrierSync(Check(sched, "sync", ~ sched.markedForSleep[g]), sched.cid[g])
    /\ Goto(g, "syncing")

\* Barrier::sync returns and no context is to be handed off.
syncReturns(g) ==
    /\ At(g, {"syncing"})
    /\ bar.state[sched.cid[g]] = "RUNNING"
    /\ sched.handoffThread[g] = NoThread
    /\ NoBarrier(Check(sched, "syncReturns", sched.state[g] = "RUNNING"), wd)
    /\ Goto(g, "run")

\* Barrier::sync returns and g hands its context to another thread, then looks
\* for one itself.
syncHandsOff(g) ==
    LET c == sched.cid[g]
        dst == sched.handoffThread[g]
        s == [deschedule(sched, g, c, "QUEUED") EXCEPT !.handoffThread[g] = NoThread]
    IN  /\ At(g, {"syncing"})
        /\ bar.state[c] = "RUNNING"
        /\ dst # NoThread
        /\ JoinOrQueue(PassContext(s, dst, c), g)

-----------------------------------------------------------------------------
(* System calls and sleeping                                                *)

\* Faulty form: the wake-up phase is counted from the next phase.
markForSleep_Late(g) ==
    /\ At(g, {"run"})
    /\ \E phases \in 1 .. MaxSleep :
          NoBarrier([sched EXCEPT !.markedForSleep[g] = TRUE,
                                  !.untilWakeup[g] = phases + 1,
                                  !.futexWord[g] = 1], wd)
    /\ Goto(g, "entering")

\* markForSleep, from the pre-patch of a sleep or of a call with a timeout.
markForSleep(g) ==
    /\ At(g, {"run"})
    /\ \E phases \in 1 .. MaxSleep :
          NoBarrier([Check(sched, "markForSleep", ~ sched.markedForSleep[g])
                        EXCEPT !.markedForSleep[g] = TRUE,
                               !.untilWakeup[g] = phases,
                               !.futexWord[g] = 1], wd)
    /\ Goto(g, "entering")

\* updateMask, from the pre-patch of sched_setaffinity, by g on thread u.
updateMask(g, u, m) ==
    /\ At(g, {"run"})
    /\ pc[u] # "off"
    /\ NoBarrier([sched EXCEPT !.mask[u] = m], wd)
    /\ Goto(g, "entering")

\* syscallLeave at address at: a true leave for a call known to block, for a
\* sleep and after a change of affinity; otherwise a fake one.
syscallLeave(g, at) ==
    LET c == sched.cid[g]
    IN  /\ At(g, {"run", "entering"})
        /\ IF \/ <<Pid[g], at>> \in sched.blockingSyscalls
              \/ sched.markedForSleep[g]
              \/ c \notin sched.mask[g]
           THEN NoBarrier(sched, wd) /\ Goto(g, "leaving")
           ELSE /\ NoBarrier([Check(sched, "syscallLeave",
                                    sched.curThread[c] = g /\ sched.state[g] = "RUNNING")
                                EXCEPT !.fakeLeave[g] = at,
                                       !.fakeLeaves = Append(@, g)], wd)
                /\ Goto(g, "out")

\* A futex wake returns: its join will wait for the threads it woke.
notifyFutexWakeEnd(g) ==
    /\ At(g, {"out"})
    /\ sched.state[g] \in {"RUNNING", "OUT", "BLOCKED"}
    /\ NoBarrier(sched, wd)
    /\ Goto(g, "matching")

\* The post-patch of a call with a timeout asks isSleeping ...
isSleeping(g) ==
    /\ At(g, {"out"})
    /\ sched.state[g] = "SLEEPING"
    /\ NoBarrier(sched, wd)
    /\ Goto(g, "polled")

\* ... and, if the call did not time out, ends the sleep.
notifySleepEnd(g) ==
    /\ At(g, {"polled"})
    /\ NoBarrier(EndSleep(Check(sched, "notifySleepEnd",
                                /\ ~ sched.markedForSleep[g]
                                /\ sched.state[g] \in {"SLEEPING", "BLOCKED"}), g), wd)
    /\ Goto(g, "out")

-----------------------------------------------------------------------------
(* finish                                                                   *)

\* The last part of finish: take g out of the queues and delete it.
Delete(s, g) ==
    LET c == s.cid[g]
        out == [s EXCEPT !.outQueue = S!RemoveFirst(@, g)]
    IN  CASE s.state[g] = "QUEUED" ->
               Fresh([Check(s, "finish", g \in Members(s.runQueue))
                         EXCEPT !.runQueue = S!RemoveFirst(@, g)], g)
          [] s.state[g] = "OUT" ->
               Fresh([deschedule(out, g, c, "BLOCKED")
                         EXCEPT !.freeList = Append(@, c)], g)
          [] OTHER -> Fresh(Check(s, "finish", s.state[g] \in {"STARTED", "BLOCKED"}), g)

\* finish, after the exit system call: a leave that was only in name comes first.
finish(g) ==
    /\ At(g, {"out", "reaped"})
    /\ sched.state[g] # "SLEEPING"
    /\ IF sched.fakeLeave[g] # NoPc
       THEN NoBarrier(finishFakeLeave(sched, g), wd) /\ Goto(g, "finLeave")
       ELSE IF sched.state[g] = "RUNNING"
       THEN NoBarrier(sched, wd) /\ Goto(g, "finLeave")
       ELSE NoBarrier(Delete(sched, g), wd) /\ Goto(g, "off")

finishLeave(g) ==
    /\ At(g, {"finLeave"})
    /\ leave(g, sched.cid[g], wd)
    /\ Goto(g, "finEnd")

finishEnd(g) ==
    /\ At(g, {"finEnd"})
    /\ NoBarrier(Delete(sched, g), wd)
    /\ Goto(g, "off")

-----------------------------------------------------------------------------
(* The watchdog thread                                                      *)

WatchdogAt(places) == Working /\ wd.at \in places

\* Faulty form: threads that are OUT count as running.
AllAsleep_OutRuns ==
    /\ \A c \in Cores : sched.curThread[c] = NoThread
    /\ sched.sleepQueue # << >>

\* Nobody runs on a context, and somebody sleeps.
AllAsleep ==
    /\ Cardinality({c \in Cores : sched.curThread[c] # NoThread}) = Len(sched.outQueue)
    /\ sched.sleepQueue # << >>

\* The rest of the watchdog's round: if time must be driven forward it first
\* sleeps without the lock.
RestOfRound(w) ==
    IF ~ w.moved /\ AllAsleep THEN [w EXCEPT !.at = "recheck"]
    ELSE [w EXCEPT !.at = "idle", !.moved = FALSE]

\* The phase moved since the last round: nothing to do.
watchdogFastpath ==
    /\ WatchdogAt({"idle"})
    /\ wd.moved
    /\ wd' = [wd EXCEPT !.moved = FALSE, !.stalls = 0]
    /\ UNCHANGED <<bar, synced, sched, pc, raced>>

FakeLeaveStall ==
    /\ ~ wd.moved
    /\ sched.fakeLeaves # << >>
    /\ pc[Head(sched.fakeLeaves)] # "matching"

\* A round without a stall, or with one that is not old enough.
watchdogRound ==
    /\ WatchdogAt({"idle"})
    /\ ~ wd.moved
    /\ FakeLeaveStall => wd.stalls + 1 < StallThreshold
    /\ wd' = RestOfRound([wd EXCEPT !.stalls = IF FakeLeaveStall THEN @ + 1 ELSE 0])
    /\ UNCHANGED <<bar, synced, sched, pc, raced>>

\* A round that finds a stall whose call the process's regex does not list.
watchdogSkip ==
    /\ WatchdogAt({"idle"})
    /\ FakeLeaveStall
    /\ wd.stalls + 1 >= StallThreshold
    /\ sched.fakeLeave[Head(sched.fakeLeaves)] \notin Blacklistable
    /\ wd' = RestOfRound([wd EXCEPT !.stalls = 0])
    /\ UNCHANGED <<bar, synced, sched, pc, raced>>

\* The watchdog undoes the fake leave of g and releases the lock.
ForceOut(s, g) ==
    /\ sched' = finishFakeLeave(s, g)
    /\ wd' = [wd EXCEPT !.at = "leave", !.th = g, !.cid = s.cid[g],
                        !.pid = IF @ = NoThread THEN Pid[g] ELSE @,
                        !.pc = s.fakeLeave[g]]
    /\ UNCHANGED <<bar, synced, pc, raced>>

\* A round that finds a stall: the first fake leave becomes a true one, and the
\* call is remembered as blocking when no other could be the culprit.
watchdogStall ==
    LET g == Head(sched.fakeLeaves)
        culprit == IF Len(sched.fakeLeaves) = 1 THEN {<<Pid[g], sched.fakeLeave[g]>>} ELSE {}
    IN  /\ WatchdogAt({"idle"})
        /\ FakeLeaveStall
        /\ wd.stalls + 1 >= StallThreshold
        /\ sched.fakeLeave[g] \in Blacklistable
        /\ ForceOut([sched EXCEPT !.blockingSyscalls = @ \cup culprit], g)

\* Now the leave on behalf of the thread.  Its pid is that of the first thread.
watchdogLeave ==
    /\ WatchdogAt({"leave"})
    /\ IF Pid[wd.th] # wd.pid
       THEN NoBarrier(Check(sched, "leave", FALSE), wd)
       ELSE leave(wd.th, wd.cid, [wd EXCEPT !.at = "relock"])
    /\ UNCHANGED <<pc, raced>>

\* The lock is taken again: go on with the next fake leave at the same address
\* while there are more than BatchFloor of them.
MoreStalled ==
    /\ Len(sched.fakeLeaves) > BatchFloor
    /\ sched.fakeLeave[Head(sched.fakeLeaves)] = wd.pc

watchdogNext ==
    /\ WatchdogAt({"relock"})
    /\ MoreStalled
    /\ ForceOut(sched, Head(sched.fakeLeaves))

watchdogStalled ==
    /\ WatchdogAt({"relock"})
    /\ ~ MoreStalled
    /\ wd' = RestOfRound([wd EXCEPT !.stalls = 0, !.th = NoThread, !.cid = 0,
                                    !.pid = NoThread, !.pc = NoPc])
    /\ UNCHANGED <<bar, synced, sched, pc, raced>>

\* After its sleep the watchdog drives time forward, if still nobody runs.
watchdogDrive ==
    /\ WatchdogAt({"recheck"})
    /\ wd' = IF ~ wd.moved /\ AllAsleep
             THEN [wd EXCEPT !.at = "driving", !.th = Head(sched.sleepQueue)]
             ELSE [wd EXCEPT !.at = "idle", !.moved = FALSE]
    /\ UNCHANGED <<bar, synced, sched, pc, raced>>

\* It ends phase after phase until the first sleeper is woken, or before when
\* it sees somebody waiting for the lock, which it holds all the time.
watchdogPhase ==
    /\ WatchdogAt({"driving"})
    /\ sched' \in callback(sched)
    /\ \/ /\ sched'.state[wd.th] = "SLEEPING"
          /\ UNCHANGED wd
       \/ wd' = [wd EXCEPT !.at = "idle", !.moved = FALSE, !.th = NoThread]
    /\ UNCHANGED <<bar, synced, pc, raced>>

-----------------------------------------------------------------------------
Init ==
    /\ B!Init
    /\ sched = [state |-> [g \in Gids |-> "STARTED"],
                cid |-> [g \in Gids |-> 0],
                handoffThread |-> [g \in Gids |-> NoThread],
                futexWord |-> [g \in Gids |-> 0],
                markedForSleep |-> [g \in Gids |-> FALSE],
                untilWakeup |-> [g \in Gids |-> 0],
                mask |-> [g \in Gids |-> Cores],
                fakeLeave |-> [g \in Gids |-> NoPc],
                curThread |-> [c \in Cores |-> NoThread],
                freeList |-> [i \in 1 .. numCores |-> i - 1],
                runQueue |-> << >>, outQueue |-> << >>, sleepQueue |-> << >>,
                fakeLeaves |-> << >>, blockingSyscalls |-> {},
                quantum |-> 0, failed |-> ""]
    /\ pc = [g \in Gids |-> "off"]
    /\ raced = FALSE
    /\ wd = [at |-> "idle", moved |-> FALSE, stalls |-> 0, th |-> NoThread,
             pid |-> NoThread, cid |-> 0, pc |-> NoPc]

\* What the host thread of g does.
ThreadNext(g) ==
    \/ start(g) \/ join(g) \/ joinReturns(g) \/ waitReturns(g) \/ threadLeave(g)
    \/ sync(g) \/ syncReturns(g) \/ syncHandsOff(g)
    \/ markForSleep(g) \/ isSleeping(g) \/ notifySleepEnd(g) \/ notifyFutexWakeEnd(g)
    \/ finish(g) \/ finishLeave(g) \/ finishEnd(g)
    \/ \E m \in Masks : updateMask(g, g, m)
    \/ \E at \in SyscallPcs : syscallLeave(g, at)

WatchdogNext ==
    \/ watchdogFastpath \/ watchdogRound \/ watchdogSkip \/ watchdogStall
    \/ watchdogLeave \/ watchdogNext \/ watchdogStalled \/ watchdogDrive
    \/ watchdogPhase

Next == (\E g \in Gids : ThreadNext(g)) \/ WatchdogNext

Spec == Init /\ [][Next]_vars

\* What a thread does without waiting for the outside world.  A thread in a
\* system call is not among these: it may block for ever.  futexWakeJoin gives
\* up waiting after two seconds.
Progress(g) ==
    \/ joinReturns(g) \/ waitReturns(g) \/ threadLeave(g) \/ sync(g)
    \/ syncReturns(g) \/ syncHandsOff(g) \/ notifySleepEnd(g)
    \/ finishLeave(g) \/ finishEnd(g) \/ (pc[g] = "matching" /\ join(g))
    \/ \E at \in SyscallPcs : syscallLeave(g, at)

\* The watchdog keeps making rounds, threads go on, and one that runs again and
\* again reaches the end of its phase: its core's clock only grows.
FairSpec ==
    /\ Spec
    /\ WF_vars(WatchdogNext)
    /\ \A g \in Gids : WF_vars(Progress(g)) /\ SF_vars(sync(g))

\* With threads that change the affinity of others.
NextAffinity == Next \/ \E g, u \in Gids, m \in Masks : updateMask(g, u, m)
SpecAffinity == Init /\ [][NextAffinity]_vars

\* A process is killed, outside finish: its threads stop where they are
\* (queueProcessCleanup).
kill(p) ==
    /\ \A g \in Gids : Pid[g] = p => At(g, PcValues \ {"finLeave", "finEnd"})
    /\ pc' = [g \in Gids |-> IF Pid[g] = p /\ pc[g] # "off" THEN "dead" ELSE pc[g]]
    /\ UNCHANGED <<bar, synced, sched, wd, raced>>

\* processCleanup by the watchdog, thread by thread: the sleep of g is ended,
\* then it is finished on its behalf.
processCleanup(g) ==
    /\ At(g, {"dead"})
    /\ WatchdogAt({"idle"})
    /\ wd' = [wd EXCEPT !.at = "cleanup", !.th = g]
    /\ sched' = EndSleep(sched, g)
    /\ Goto(g, "reaped")
    /\ UNCHANGED <<bar, synced>>

cleanedUp ==
    /\ WatchdogAt({"cleanup"})
    /\ pc[wd.th] = "off"
    /\ wd' = [wd EXCEPT !.at = "idle", !.th = NoThread]
    /\ UNCHANGED <<bar, synced, sched, pc, raced>>

NextKill ==
    \/ Next \/ cleanedUp
    \/ \E g \in Gids : kill(Pid[g]) \/ processCleanup(g)
SpecKill == Init /\ [][NextKill]_vars

-----------------------------------------------------------------------------
TypeOK ==
    /\ sched \in SchedulerType
    /\ pc \in [Gids -> PcValues]
    /\ raced \in BOOLEAN
    /\ wd \in WatchdogType

Live == {g \in Gids : pc[g] # "off"}
Once(q, x) == \E i \in DOMAIN q : q[i] = x /\ \A j \in DOMAIN q : q[j] = x => j = i

\* The threads that g is promised a context by.
Promisers(g) == {v \in Gids : sched.handoffThread[v] = g}

\* Every live thread is in exactly one place, and the place knows it: a RUNNING
\* or OUT thread owns the context that names it, a QUEUED one is either once in
\* the run queue or promised one context by one thread about to hand it off, a
\* SLEEPING one is once in the sleep queue; the other contexts are free.  A
\* thread that has finished is nowhere: "noone holds pointer to th, it's out from
\* all queues, and [...] it's not pending a handoff" (finish).
EveryThreadPlaced ==
    Working =>
        /\ \A g \in Live :
            CASE sched.state[g] = "RUNNING" -> sched.curThread[sched.cid[g]] = g
              [] sched.state[g] = "OUT" ->
                    sched.curThread[sched.cid[g]] = g /\ Once(sched.outQueue, g)
              [] sched.state[g] = "QUEUED" ->
                    IF Promisers(g) = {} THEN Once(sched.runQueue, g)
                    ELSE /\ g \notin Members(sched.runQueue)
                         /\ \E v \in Gids : Promisers(g) = {v} /\ pc[v] = "syncing"
              [] sched.state[g] = "SLEEPING" -> Once(sched.sleepQueue, g)
              [] OTHER -> Promisers(g) = {}
        /\ \A g \in Gids \ Live : Promisers(g) = {}
        /\ \A c \in Cores :
            IF sched.curThread[c] = NoThread THEN Once(sched.freeList, c)
            ELSE /\ c \notin Members(sched.freeList)
                 /\ sched.cid[sched.curThread[c]] = c
                 /\ sched.state[sched.curThread[c]] \in {"RUNNING", "OUT"}
        /\ Members(sched.runQueue) \subseteq InState(sched, "QUEUED")
        /\ Members(sched.outQueue) \subseteq InState(sched, "OUT")
        /\ Members(sched.sleepQueue) \subseteq InState(sched, "SLEEPING")

\* The barrier knows a core as taking part in the phase exactly while a RUNNING
\* thread owns it, and a thread executes only on a core that the barrier lets
\* run, whoever passed it the context.
BarrierAgrees ==
    Working =>
        /\ \A c \in Cores :
            (bar.state[c] \in {"RUNNING", "WAITING"}) <=>
                (sched.curThread[c] \in InState(sched, "RUNNING"))
        /\ \A g \in Gids :
            pc[g] = "run" => /\ sched.curThread[sched.cid[g]] = g
                             /\ bar.state[sched.cid[g]] = "RUNNING"

\* schedTick's note: the cores offered to a queued thread are never free (nor
\* held by a thread that is OUT, which would not hand them off), because
\* schedContext and schedThread would have matched them before.
QueuedOnlyWhenBusy ==
    Working =>
        \A g \in Members(sched.runQueue) : \A c \in sched.mask[g] :
            sched.curThread[c] \in InState(sched, "RUNNING")

\* No sleeper is overdue: the assertion wakeupPhase == curPhase of callback
\* cannot fail, whatever the order in which sleeps of different length began.
SleepersOnTime ==
    Working => \A g \in InState(sched, "SLEEPING") \cap Live : sched.untilWakeup[g] >= 1

\* A thread runs only on the cores of its affinity mask, also after the mask
\* changed, a context was passed on, or a fake leave was undone.
AffinityKept ==
    Working =>
        \A g \in Live : sched.state[g] = "RUNNING" /\ pc[g] \notin {"entering", "leaving"} =>
            sched.cid[g] \in sched.mask[g]

\* No assertion or panic of the scheduler or of the barrier fails, unless a
\* thread returned from a system call in the gap in which the watchdog, having
\* undone its fake leave, has released the lock: see AssertionsHold.
FailsOnlyByRace == sched.failed # "" => raced

\* The assertions and panics of scheduler.h, scheduler.cpp and barrier.h hold.
AssertionsHold == sched.failed = ""

\* The scheduler drives the barrier only as the barrier expects: its steps are
\* steps of the Barrier module, so all that holds there holds here.
UsesBarrier == B!Spec

\* Barrier::join's assertion tid == runList[lastIdx], as in module Barrier.
RejoinPlace == B!RejoinPlace

\* A queued thread gets a context: round-robin scheduling does not starve it,
\* though others sleep, leave, return and block in system calls for ever.
QueuedRun ==
    \A g \in Gids : (pc[g] = "waiting") ~> (pc[g] = "run" \/ ~ Working)

\* Every sleeper is woken, also when nobody is left to drive time forward.
SleepersWake ==
    \A g \in Gids : (sched.state[g] = "SLEEPING") ~>
                        (sched.state[g] # "SLEEPING" \/ ~ Working)

\* No thread is lost or in two places, with the state in the types it has.
ThreadsPlaced == TypeOK /\ EveryThreadPlaced

\* Contexts go to those who may have them and are not left to those who do
\* not run while others wait.
ContextsWellUsed == AffinityKept /\ QueuedOnlyWhenBusy

\* Nobody waits for ever for a context or in a sleep.
NobodyStarves == QueuedRun /\ SleepersWake
=============================================================================
