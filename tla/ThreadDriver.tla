---------------------------- MODULE ThreadDriver ----------------------------
(***************************************************************************)
(* The threads of one simulated process (zsim.cpp) and the system calls    *)
(* that the simulator rewrites (virt/virt.cpp, time.cpp, timeout.cpp,      *)
(* cpu.cpp).  What a thread executes is instrumented through a table of    *)
(* analysis functions, fPtrs, that the handlers replace: join the          *)
(* scheduler, simulate on a core, do nothing, or do nothing until a system *)
(* call has been retried.  The handlers keep fPtrs, the core id, the       *)
(* active flag and the scheduler's view of the thread in agreement while   *)
(* fast-forwarding is switched on and off, signals interrupt system calls  *)
(* and the phases that sleeping threads wait for go by.                    *)
(*                                                                         *)
(* There is a core for every thread, and the barrier is the set of threads *)
(* that are at the end of their phase: Scheduler.tla and Barrier.tla are   *)
(* about the rest.                                                         *)
(***************************************************************************)
EXTENDS Integers, FiniteSets

CONSTANTS
    Threads,    \* the threads of the process
    Confs,      \* configurations: see Init
    MaxPhases,  \* sim.maxPhases
    MaxWait     \* the longest sleep or timeout, in phases

VARIABLES
    conf,       \* the configuration
    th,         \* the state of every thread, driver and scheduler
    phase,      \* numPhases
    inFF,       \* ProcessTreeNode::isInFastForward
    term,       \* terminationConditionMet
    ended,      \* SimEnd was called
    switches,   \* changes of fast-forward mode to come
    signals,    \* signals to come
    fail        \* the assertion that failed, or "none"

vars == <<conf, th, phase, inFF, term, ended, switches, signals, fail>>

(***************************************************************************)
(* A thread x.  ptr, cid, active, inSys, post (postPatchFunctions) and     *)
(* fakeTimeout are the driver's; st, marked, fake (a fake leave), wake and *)
(* word (futexWord) the scheduler's ThreadInfo, st = "none" without one;   *)
(* loc, op and res are the program's: where it is, the system call it      *)
(* made and what that returned.  asleep is what isSleeping answered.       *)
(***************************************************************************)
Unborn ==
    [ptr |-> "join", cid |-> "uninit", active |-> FALSE, inSys |-> FALSE, post |-> "null", fakeTimeout |-> FALSE,
     st |-> "none", marked |-> FALSE, fake |-> FALSE, wake |-> 0, word |-> 0,
     loc |-> "unborn", op |-> "none", res |-> "none", asleep |-> FALSE, ops |-> conf.ops,
     vframes |-> 0, level |-> 0, bad |-> "none"]

Nop(x) == x.ptr \in {"nop", "ff"}

Check(x, name, ok) == IF ok \/ x.bad # "none" THEN x ELSE [x EXCEPT !.bad = name]

clearCid(x) == [Check(x, "clearCid", x.cid # "invalid") EXCEPT !.cid = "invalid"]

setCid(x) == [Check(x, "setCid", x.cid = "invalid") EXCEPT !.cid = "core"]

(***************************************************************************)
(* The scheduler's entry points, as far as they concern one thread.        *)
(***************************************************************************)
schedStart(x) ==
    [Check(x, "start", x.st = "none") EXCEPT !.st = "STARTED", !.marked = FALSE, !.fake = FALSE]

\* A thread marked for sleep sleeps; another one keeps its context, if it may.
leave(x) ==
    IF x.marked THEN [x EXCEPT !.st = "SLEEPING", !.marked = FALSE] ELSE [x EXCEPT !.st = "OUT"]

LeaveIfRunning(x) == IF x.fake \/ x.st = "RUNNING" THEN [leave(x) EXCEPT !.fake = FALSE] ELSE x

Finished(x) ==
    [Check(x, "finish", x.st \in {"STARTED", "OUT", "BLOCKED"}) EXCEPT !.st = "none", !.marked = FALSE]

schedFinish(x) == Finished(LeaveIfRunning(x))

schedJoin(x) ==
    IF x.st = "none" THEN Check(x, "join-unknown", FALSE)
    ELSE IF x.fake THEN [x EXCEPT !.fake = FALSE]
    ELSE [Check(x, "join-marked", ~x.marked) EXCEPT !.st = "RUNNING"]

markForSleep(x, wait) ==
    [Check(x, "mark", ~x.marked) EXCEPT !.marked = TRUE, !.wake = phase + wait, !.word = 1]

\* A real leave for a sleeper or a call that is known to block, a fake one for others.
syscallLeave(x, blocks) ==
    IF x.marked \/ blocks THEN leave(x) ELSE [x EXCEPT !.fake = TRUE]

notifySleepEnd(x) ==
    [Check(x, "sleepEnd", ~x.marked /\ x.st \in {"SLEEPING", "BLOCKED"}) EXCEPT !.st = "BLOCKED"]

(***************************************************************************)
(* Threads start and end.                                                  *)
(***************************************************************************)
SimThreadStart(x) == clearCid([schedStart(x) EXCEPT !.active = TRUE, !.ptr = "join"])

\* The faulty form keeps the core id, which "might get reused".
SimThreadFini_KeepCid(x) == [schedFinish(x) EXCEPT !.active = FALSE]

SimThreadFini(x) == [schedFinish(x) EXCEPT !.active = FALSE, !.cid = "uninit"]

ThreadStart(x) ==
    IF inFF THEN [x EXCEPT !.ptr = "ff", !.loc = "user"]
    ELSE IF conf.registerThreads THEN [x EXCEPT !.ptr = "nop", !.loc = "user"]
    ELSE [SimThreadStart(x) EXCEPT !.loc = "user"]

\* The faulty form forgets that a fast-forwarded thread has left the scheduler.
ThreadFini_Always(x) == [SimThreadFini(x) EXCEPT !.loc = "dead", !.inSys = FALSE]

ThreadFini(x) == [(IF Nop(x) THEN x ELSE SimThreadFini(x)) EXCEPT !.loc = "dead", !.inSys = FALSE]

(***************************************************************************)
(* Steps of thread t, which becomes x.                                     *)
(***************************************************************************)
Becomes(t, x) ==
    /\ th' = [th EXCEPT ![t] = [x EXCEPT !.bad = "none"]]
    /\ fail' = x.bad

Quiet == UNCHANGED <<conf, phase, inFF, term, ended, switches, signals>>

Start(t) == t \in conf.threads /\ th[t].loc = "unborn" /\ Becomes(t, ThreadStart(th[t])) /\ Quiet

\* An instrumentation point: the first instruction of a basic block, mostly.
Join(t) ==
    /\ th[t].loc = "user" /\ th[t].ptr = "join"
    /\ \E y \in {setCid(schedJoin(th[t]))} :
        IF term THEN Becomes(t, leave(y)) /\ ended' = TRUE
        ELSE Becomes(t, [y EXCEPT !.ptr = "core"]) /\ UNCHANGED ended
    /\ UNCHANGED <<conf, phase, inFF, term, switches, signals>>

FFBasicBlock(t) ==
    /\ th[t].loc = "user" /\ th[t].ptr = "ff" /\ ~inFF
    /\ Becomes(t, SimThreadStart(th[t])) /\ Quiet

\* HandleMagicOp, REGISTER_THREAD.
RegisterThread(t) ==
    /\ th[t].loc = "user" /\ conf.registerThreads /\ Nop(th[t])
    /\ Becomes(t, SimThreadStart(th[t])) /\ Quiet

\* The thread reaches the end of its phase: TakeBarrier up to Scheduler::sync.
TakeBarrier(t) ==
    /\ th[t].loc = "user" /\ th[t].ptr = "core"
    /\ Becomes(t, [Check(th[t], "sync-marked", ~th[t].marked) EXCEPT !.loc = "barrier"])
    /\ Quiet

EnterFF(x) == [SimThreadFini(leave(clearCid(x))) EXCEPT !.ptr = "ff", !.loc = "user"]

AfterBarrier(t) ==
    /\ th[t].loc = "woken"
    /\ \E x \in {setCid(clearCid(th[t]))} :
        IF inFF THEN Becomes(t, EnterFF(x)) /\ UNCHANGED ended
        ELSE IF term THEN Becomes(t, [leave(x) EXCEPT !.loc = "user"]) /\ ended' = TRUE
        ELSE Becomes(t, [x EXCEPT !.ptr = "core", !.loc = "user"]) /\ UNCHANGED ended
    /\ UNCHANGED <<conf, phase, inFF, term, switches, signals>>

(***************************************************************************)
(* System calls.  Pre(x, op, wait) is VirtSyscallEnter: it may rewrite the *)
(* call, mark the thread for sleep, and chooses the function that runs at  *)
(* the exit.                                                               *)
(***************************************************************************)
Calls == {"plain", "nanosleep", "badsleep", "timeout", "setaffinity", "exit"}

Virtualized(x) == ~Nop(x) /\ ~inFF

\* A timespec the kernel will refuse leaves the thread without a post-patch function.
PatchNanosleep(x, valid, wait) ==
    IF valid THEN [markForSleep(x, wait) EXCEPT !.post = "nanosleep"] ELSE [x EXCEPT !.post = "empty"]

PrePatchTimeoutSyscall(x, wait) ==
    [markForSleep(Check(x, "canary", ~x.fakeTimeout), IF wait < 2 THEN 2 ELSE wait)
     EXCEPT !.fakeTimeout = TRUE, !.post = "timeout"]

Pre(x, op, wait) ==
    CASE op = "nanosleep" /\ Virtualized(x) -> PatchNanosleep(x, TRUE, wait)
      [] op = "badsleep" /\ Virtualized(x)  -> PatchNanosleep(x, FALSE, wait)
      [] op = "timeout" /\ Virtualized(x)   -> PrePatchTimeoutSyscall(x, wait)
      [] op = "setaffinity"                 -> [x EXCEPT !.post = "setaffinity"]
      [] OTHER                              -> [x EXCEPT !.post = "null"]

\* The faulty form runs the patch function of a retried call again.
Entered_Again(x, op, wait, blocks) ==
    LET y == [Check(Pre(x, op, wait), "inSyscall", ~x.inSys) EXCEPT !.inSys = TRUE, !.loc = "kernel", !.op = op]
    IN  IF Nop(x) \/ x.ptr \in {"join", "retry"} \/ conf.blockingSyscalls THEN y
        ELSE [syscallLeave(clearCid(y), blocks) EXCEPT !.ptr = "join"]

Entered(x, op, wait, blocks) ==
    LET retry == x.ptr = "retry"
        y == [Check(IF retry THEN x ELSE Pre(x, op, wait), "inSyscall", ~x.inSys)
              EXCEPT !.inSys = TRUE, !.loc = "kernel", !.op = op]
    IN  IF Nop(x) \/ x.ptr \in {"join", "retry"} \/ conf.blockingSyscalls THEN y
        ELSE [syscallLeave(clearCid(y), blocks) EXCEPT !.ptr = "join"]

\* With conf.backToBack two calls follow each other with no instrumentation
\* point between them.
SyscallEnter(t) ==
    /\ th[t].loc = "user" /\ th[t].ops > 0
    /\ th[t].ptr # "retry" /\ (th[t].ptr = "join" => conf.backToBack)
    /\ \E op \in conf.calls, blocks \in BOOLEAN :
       \E wait \in IF op \in {"nanosleep", "timeout"} /\ Virtualized(th[t]) THEN 1 .. MaxWait ELSE {1} :
        Becomes(t, [Entered(th[t], op, wait, blocks) EXCEPT !.ops = @ - 1])
    /\ Quiet

\* A thread in a retry makes its call again; the handler of a signal that
\* came before it, at least the one that ends the handler.
RetryEnter(t) ==
    /\ th[t].loc = "user" /\ th[t].ptr = "retry"
    /\ Becomes(t, Entered(th[t], IF th[t].res = "handler" THEN "plain" ELSE th[t].op, 1, FALSE))
    /\ Quiet

(***************************************************************************)
(* The kernel (external).  A rewritten sleep ends when its futex word is   *)
(* cleared; a rewritten timeout ends by itself.                            *)
(***************************************************************************)
Returned(x, res) == [x EXCEPT !.res = res, !.loc = "exit"]

KernelReturns(t) ==
    /\ th[t].loc = "kernel" /\ th[t].op # "exit"
    /\ CASE th[t].post = "nanosleep" -> th[t].word = 0 /\ Becomes(t, Returned(th[t], "ok"))
         [] th[t].post = "timeout"   -> \E r \in {"ok", "timedOut"} : Becomes(t, Returned(th[t], r))
         [] OTHER                    -> Becomes(t, Returned(th[t], "ok"))
    /\ Quiet

Interrupted(t) ==
    /\ th[t].loc = "kernel" /\ signals > 0 /\ th[t].op # "exit"
    /\ signals' = signals - 1
    /\ Becomes(t, Returned(th[t], "EINTR"))
    /\ UNCHANGED <<conf, phase, inFF, term, ended, switches>>

\* A signal between two calls: its handler runs.
Signal(t) ==
    /\ th[t].loc = "user" /\ th[t].ptr = "retry" /\ signals > 0
    /\ signals' = signals - 1
    /\ Becomes(t, [th[t] EXCEPT !.res = "handler"])
    /\ UNCHANGED <<conf, phase, inFF, term, ended, switches>>

(***************************************************************************)
(* SyscallExit, also called by ContextChange.  isSleeping is asked before  *)
(* the rest: the scheduler may end the sleep in between.                   *)
(***************************************************************************)
AskSleeping(t) ==
    /\ th[t].loc = "exit" /\ th[t].post = "timeout"
    /\ Becomes(t, [th[t] EXCEPT !.asleep = (th[t].st = "SLEEPING"), !.loc = "post"])
    /\ Quiet

Retry(x) == x.res = "timedOut" /\ x.asleep /\ ~inFF

PostTimeout(x) ==
    IF Retry(x) THEN [x EXCEPT !.ptr = "retry"]
    ELSE [(IF x.asleep THEN notifySleepEnd(x) ELSE x) EXCEPT !.fakeTimeout = FALSE, !.ptr = "usejoin"]

\* An interrupted sleep has time left.
PostNanosleep(x) == Check(x, "remaining", x.res = "EINTR" => x.wake >= phase)

\* VirtSyscallExit.
Post(x) ==
    CASE x.post = "timeout"     -> PostTimeout(Check(x, "mode", x.fakeTimeout))
      [] x.post = "setaffinity" -> [x EXCEPT !.ptr = "usejoin"]
      [] x.post = "nanosleep"   -> PostNanosleep(x)
      [] x.post = "empty"       -> Check(x, "empty-function", FALSE)
      [] OTHER                  -> x

\* PPA_USE_JOIN_PTRS.
JoinPtrs(x) ==
    IF x.ptr # "usejoin" THEN x
    ELSE IF conf.blockingSyscalls THEN [Check(x, "null-core", x.cid = "core") EXCEPT !.ptr = "core"]
    ELSE [x EXCEPT !.ptr = "join"]

SkipJoin(x) ==
    IF x.ptr = "join" /\ inFF
    THEN [SimThreadFini(Check(x, "active", x.active)) EXCEPT !.ptr = "ff"]
    ELSE x

SyscallExit(t) ==
    /\ th[t].loc = IF th[t].post = "timeout" THEN "post" ELSE "exit"
    /\ Becomes(t, SkipJoin(JoinPtrs(Post([th[t] EXCEPT !.inSys = FALSE, !.loc = "user"]))))
    /\ ended' = term
    /\ UNCHANGED <<conf, phase, inFF, term, switches, signals>>

Exits(t) ==
    /\ th[t].loc = "kernel" /\ th[t].op = "exit"
    /\ Becomes(t, ThreadFini(th[t])) /\ Quiet

(***************************************************************************)
(* The vDSO: functions of the kernel that are no system calls.  vframes    *)
(* are the calls under way, of which the outermost is the application's or *)
(* a signal handler's; level is the simulator's count.                     *)
(***************************************************************************)
InVdso(t) == conf.vdso > 0 /\ th[t].loc = "user"

\* The application calls a function, or code inside calls another (VdsoCallPoint).
VdsoEntryPoint(t) ==
    /\ InVdso(t) /\ th[t].vframes < conf.vdso
    /\ Becomes(t, [th[t] EXCEPT !.vframes = @ + 1, !.level = @ + 1]) /\ Quiet

\* A signal handler calls a function while the application is inside one.
VdsoInHandler(t) ==
    /\ InVdso(t) /\ th[t].vframes \in 1 .. conf.vdso - 1 /\ signals > 0
    /\ signals' = signals - 1
    /\ Becomes(t, [th[t] EXCEPT !.vframes = @ + 1])
    /\ UNCHANGED <<conf, phase, inFF, term, ended, switches>>

VdsoRetPoint(t) ==
    /\ InVdso(t) /\ th[t].vframes > 0
    /\ Becomes(t, [th[t] EXCEPT !.vframes = @ - 1, !.level = IF @ = 0 THEN 0 ELSE @ - 1]) /\ Quiet

(***************************************************************************)
(* The end of a phase, by the last thread or by the scheduler's watchdog,  *)
(* which also turns a fake leave that holds up the phase into a real one.  *)
(***************************************************************************)
Running(t) == th[t].st = "RUNNING"

Wakes(x) == x.st = "SLEEPING" /\ x.wake <= phase + 1

EndPhase ==
    /\ ~term
    /\ \A t \in Threads : Running(t) => th[t].loc = "barrier"
    /\ \E t \in Threads : Running(t) \/ th[t].st = "SLEEPING"
    /\ phase' = phase + 1
    /\ term' = (phase >= MaxPhases)
    /\ th' = [t \in Threads |->
                [th[t] EXCEPT !.st = IF Wakes(th[t]) THEN "BLOCKED" ELSE @,
                              !.word = IF Wakes(th[t]) THEN 0 ELSE @,
                              !.loc = IF @ = "barrier" THEN "woken" ELSE @]]
    /\ fail' = IF \E t \in Threads : th[t].st = "SLEEPING" /\ th[t].wake < phase + 1 THEN "late-sleeper" ELSE "none"
    /\ UNCHANGED <<conf, inFF, ended, switches, signals>>

FakeLeaveStall(t) ==
    /\ th[t].fake
    /\ Becomes(t, [leave(th[t]) EXCEPT !.fake = FALSE]) /\ Quiet

\* Fast-forward is switched by FFThread, a magic operation or a phase end (FastForward.tla).
Switch ==
    /\ switches > 0
    /\ switches' = switches - 1
    /\ inFF' = ~inFF
    /\ UNCHANGED <<conf, th, phase, term, ended, signals, fail>>

\* The watchdog thread of process 0, and FFThread.
EndTerminated ==
    /\ term /\ ended' = TRUE
    /\ UNCHANGED <<conf, th, phase, inFF, term, switches, signals, fail>>

Init ==
    /\ conf \in Confs
    /\ th = [t \in Threads |-> Unborn]
    /\ phase = 0 /\ term = FALSE /\ ended = FALSE
    /\ inFF = conf.startFF
    /\ switches = conf.switches
    /\ signals = conf.signals
    /\ fail = "none"

Simulator(t) ==
    \/ Start(t) \/ FFBasicBlock(t) \/ Join(t) \/ TakeBarrier(t) \/ AfterBarrier(t) \/ RetryEnter(t)
    \/ KernelReturns(t) \/ AskSleeping(t) \/ SyscallExit(t) \/ Exits(t)

Program(t) ==
    \/ SyscallEnter(t) \/ RegisterThread(t) \/ Interrupted(t) \/ Signal(t)
    \/ VdsoEntryPoint(t) \/ VdsoInHandler(t) \/ VdsoRetPoint(t)

Global == EndPhase \/ EndTerminated \/ \E t \in Threads : FakeLeaveStall(t)

Next ==
    /\ fail = "none" /\ ~ended
    /\ \/ \E t \in Threads : Simulator(t) \/ Program(t)
       \/ Global \/ Switch

Spec == Init /\ [][Next]_vars

Going == fail = "none" /\ ~ended

\* Whether thread t can go on without the program's doing.
SimulatorReady(t) ==
    \/ th[t].loc = "unborn" /\ t \in conf.threads
    \/ th[t].loc = "user" /\ th[t].ptr \in {"join", "core", "retry"}
    \/ th[t].loc = "user" /\ th[t].ptr = "ff" /\ ~inFF
    \/ th[t].loc \in {"woken", "exit", "post"}
    \/ th[t].loc = "kernel" /\ (th[t].op # "exit" /\ th[t].post = "nanosleep" => th[t].word = 0)

EndPhaseReady ==
    /\ ~term
    /\ \A t \in Threads : Running(t) => th[t].loc = "barrier"
    /\ \E t \in Threads : Running(t) \/ th[t].st = "SLEEPING"

\* Threads, phases and the watchdog go on: the weak fairness of Simulator,
\* EndPhase, FakeLeaveStall and EndTerminated, told by what each of them
\* changes.
FairSpec ==
    /\ Spec
    /\ \A t \in Threads :
           /\ []<>~(Going /\ SimulatorReady(t)) \/ []<><<th'[t] # th[t]>>_th
           /\ []<>~(Going /\ th[t].fake) \/ []<><<~th'[t].fake>>_th
    /\ []<>~(Going /\ EndPhaseReady) \/ []<><<Going>>_phase
    /\ []<>~(Going /\ term) \/ []<><<Going>>_ended

(***************************************************************************)
(* Properties.                                                             *)
(***************************************************************************)
\* sched_setaffinity was rewritten for a thread that is not simulated.
Unsimulated(x) == x.op = "setaffinity" /\ x.st = "none"

\* What the next instrumentation point does with a thread is what the
\* scheduler expects of it: simulated threads run on a core of theirs, those
\* that will join are known to the scheduler and have given up their core
\* id, a retry is still asleep or just woken, and a thread that does nothing
\* is unknown - except after sched_setaffinity by such a thread.
PointersAgree ==
    fail = "none" => \A t \in Threads :
        \E x \in {th[t]} :
        \/ x.loc \in {"unborn", "dead", "woken"} \/ Unsimulated(x) \/ ended
        \/ x.ptr = "core" /\ x.active /\ x.cid = "core" /\ x.st = "RUNNING" /\ ~x.fake
        \/ x.ptr = "join" /\ x.active /\ x.cid = "invalid" /\ x.st # "none" /\ (x.fake <=> x.st = "RUNNING")
        \/ x.ptr = "retry" /\ x.active /\ x.cid = "invalid" /\ x.st \in {"SLEEPING", "BLOCKED"} /\ x.fakeTimeout
        \/ Nop(x) /\ ~x.active /\ x.cid = "uninit" /\ x.st = "none" /\ ~x.fakeTimeout

\* The driver's and the scheduler's assertions hold, except: a thread that
\* is not simulated calls sched_setaffinity; a sleep whose timespec is
\* invalid; a sleep interrupted by a signal once its process is
\* fast-forwarded, or so late that its phase has passed; a handler that
\* makes a call during a retry; system calls back to back or with
\* sim.blockingSyscalls, after which the mark for a sleep stays.
AssertionsHold ==
    \/ fail = "none"
    \/ fail \in {"active", "join-unknown", "null-core"} /\ "setaffinity" \in conf.calls
    \/ fail = "empty-function"
    \/ fail \in {"finish", "remaining"} /\ signals < conf.signals
    \/ fail \in {"mark", "join-marked", "sync-marked", "finish"} /\ (conf.backToBack \/ conf.blockingSyscalls)

\* A thread that the scheduler holds asleep is in a system call or about to
\* repeat one, and its phase is still to come, unless a signal took it out
\* of the call or the call followed another one back to back.
SleepersWait ==
    fail = "none" => \A t \in Threads :
        /\ th[t].st = "SLEEPING" => th[t].wake > phase
        /\ th[t].st = "SLEEPING" /\ th[t].res \notin {"EINTR", "handler"} /\ ~conf.backToBack => th[t].inSys \/ th[t].ptr = "retry"

\* The count of vDSO calls returns to 0 with the outermost call, so that the
\* result the application sees is patched, unless a signal handler came in.
VdsoBalanced == \A t \in Threads : signals = conf.signals => th[t].level = th[t].vframes

Waits(t) == (th[t].loc = "kernel" /\ th[t].op \in {"nanosleep", "timeout"}) \/ th[t].ptr = "retry"
WaitOver(t) ==
    \/ th[t].loc \in {"user", "dead"} /\ th[t].ptr # "retry"
    \/ ~Going \/ conf.backToBack \/ conf.blockingSyscalls

\* A sleep ends and a timeout is not retried for ever, whether or not
\* fast-forwarding starts meanwhile - except back to back or with
\* sim.blockingSyscalls, where nobody clears the futex word.
CallsReturn == \A t \in Threads : Waits(t) ~> WaitOver(t)
=============================================================================
