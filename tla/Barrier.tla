------------------------------- MODULE Barrier -------------------------------
(***************************************************************************)
(* The phase barrier of src/src/barrier.h: threads join and leave at any   *)
(* time, at most parallelThreads of them run at once, and a phase ends     *)
(* when every thread of the barrier has run in it.                         *)
(*                                                                         *)
(* join, leave and sync execute under the scheduler's lock, so each is one *)
(* action: its own assignments, then tryWakeNext.  Afterwards a thread     *)
(* whose state is WAITING blocks on its futex word until it is made        *)
(* RUNNING; that wait is the disabledness of its next sync or leave.       *)
(*                                                                         *)
(* runList holds the used part of the code's array; its index i is         *)
(* position i + 1 here, and lastIdx holds positions.  curThreadIdx is the  *)
(* number of positions already examined in this phase, as in the code.     *)
(* The constructor leaves lastIdx alone; the fresh shared memory holds 0,  *)
(* the first position.                                                     *)
(***************************************************************************)
EXTENDS Integers, Sequences, FiniteSets

CONSTANTS
    Threads,            \* the tids of threadList (the scheduler's core ids)
    parallelThreads,    \* how many may run at the same time
    CleanupPeriod       \* phases between two clean-up passes (32 in the code)

ASSUME ThreadsAssumption == IsFiniteSet(Threads)
ASSUME ParallelAssumption == parallelThreads \in Nat \ {0}
ASSUME PeriodAssumption == CleanupPeriod \in Nat \ {0, 1}

VARIABLES
    bar,        \* the barrier object, see BarrierType
    synced      \* history: the threads that called sync in this phase

vars == <<bar, synced>>

States == {"OFFLINE", "WAITING", "RUNNING", "LEFT"}

BarrierType ==
    [state          : [Threads -> States],
     futexWord      : [Threads -> {0, 1}],
     lastIdx        : [Threads -> 1 .. Cardinality(Threads)],
     runList        : Seq(Threads),
     curThreadIdx   : Nat,
     runningThreads : Int,
     leftThreads    : Int,
     phaseCount     : 0 .. CleanupPeriod - 1]

InState(b, s) == {t \in Threads : b.state[t] = s}
Listed(b) == {b.runList[p] : p \in 1 .. Len(b.runList)}
PosOf(list, t) == CHOOSE p \in 1 .. Len(list) : list[p] = t

-----------------------------------------------------------------------------
(* checkRunList: wake the WAITING threads from curThreadIdx on, until       *)
(* parallelThreads run or the list is exhausted.                            *)

WaitingUpTo(b, c) ==
    {p \in b.curThreadIdx + 1 .. c : b.state[b.runList[p]] = "WAITING"}

\* Faulty form of the loop condition: one thread too many.
LoopEnds_OffByOne(b, c) ==
    \/ c = Len(b.runList)
    \/ b.runningThreads + Cardinality(WaitingUpTo(b, c)) > parallelThreads

\* The loop of checkRunList ends at position c.
LoopEnds(b, c) ==
    \/ c = Len(b.runList)
    \/ b.runningThreads + Cardinality(WaitingUpTo(b, c)) >= parallelThreads

StopIdx(b) ==
    CHOOSE c \in b.curThreadIdx .. Len(b.runList) :
        /\ LoopEnds(b, c)
        /\ \A d \in b.curThreadIdx .. c - 1 : ~ LoopEnds(b, d)

\* Faulty form: the position noted is that of the next thread.
WokenIdx_Next(b, t) == PosOf(b.runList, t) + 1

WokenIdx(b, t) == PosOf(b.runList, t)

checkRunList(b) ==
    LET stop == StopIdx(b)
        woken == {b.runList[p] : p \in WaitingUpTo(b, stop)}
    IN  [b EXCEPT
            !.state = [t \in Threads |-> IF t \in woken THEN "RUNNING" ELSE @[t]],
            !.futexWord = [t \in Threads |-> IF t \in woken THEN 0 ELSE @[t]],
            !.lastIdx = [t \in Threads |->
                            IF t \in woken THEN WokenIdx(b, t) ELSE @[t]],
            !.curThreadIdx = stop,
            !.runningThreads = @ + Cardinality(WaitingUpTo(b, stop))]

-----------------------------------------------------------------------------
(* checkEndPhase: at the end of a phase, rewind the list; every             *)
(* CleanupPeriod phases drop the threads that LEFT; shuffle the list when   *)
(* not all of its threads may run at once.                                  *)

\* Faulty form: the threads still running are not waited for.
PhaseOver_Early(b) ==
    /\ b.curThreadIdx = Len(b.runList)
    /\ b.leftThreads # Len(b.runList)

PhaseOver(b) ==
    /\ b.curThreadIdx = Len(b.runList)
    /\ b.runningThreads = 0
    /\ b.leftThreads # Len(b.runList)   \* all left: the phase stays open

\* Every order of the threads of S.
Orderings(S) ==
    {list \in [1 .. Cardinality(S) -> S] :
        \A p, q \in DOMAIN list : list[p] = list[q] => p = q}

\* The clean-up, once in CleanupPeriod phases: LEFT threads go OFFLINE.
Dropped(b) ==
    IF b.phaseCount = 0 THEN {t \in Listed(b) : b.state[t] = "LEFT"} ELSE {}

\* Faulty form: the threads dropped from the list are not marked OFFLINE.
Offline_KeepLeft(b) ==
    [b EXCEPT !.leftThreads = IF b.phaseCount = 0 THEN 0 ELSE @]

Offline(b) ==
    LET gone == Dropped(b)
    IN  [b EXCEPT
            !.state = [t \in Threads |-> IF t \in gone THEN "OFFLINE" ELSE @[t]],
            !.leftThreads = IF b.phaseCount = 0 THEN 0 ELSE @]

\* The list without the dropped threads.  The clean-up fills a gap with a
\* thread from the end of the list and the Fisher-Yates shuffle, done when not
\* all threads may run at once, can leave any order: both are any order here.
NewLists(b) ==
    LET kept == Listed(b) \ Dropped(b)
    IN  IF Dropped(b) # {} \/ parallelThreads < Cardinality(kept)
        THEN Orderings(kept)
        ELSE {b.runList}

\* Faulty form: the shuffle does not tell the threads their new places.
Place_Stale(b, list) == b.lastIdx

\* A thread that changes place has its lastIdx set to the new place.
Place(b, list) ==
    [t \in Threads |->
        IF \E p \in 1 .. Len(list) : list[p] = t /\ b.runList[p] # t
        THEN PosOf(list, t)
        ELSE b.lastIdx[t]]

Rewind(b) ==
    [b EXCEPT !.curThreadIdx = 0, !.phaseCount = (@ + 1) % CleanupPeriod]

\* The records checkEndPhase may leave.
checkEndPhase(b) ==
    IF PhaseOver(b)
    THEN {[Rewind(Offline(b)) EXCEPT !.runList = list, !.lastIdx = Place(b, list)]
             : list \in NewLists(b)}
    ELSE {b}

\* Faulty form: nobody is woken after the end of a phase.
tryWakeNext_Once(b) == checkEndPhase(checkRunList(b))

tryWakeNext(b) ==
    UNION {{checkRunList(e) : e \in checkEndPhase(c)} : c \in {checkRunList(b)}}

\* The phase counter moves exactly when a phase ends, and sync's history
\* starts anew with it.
Step(b, sy) ==
    \E x \in {b} : \E n \in tryWakeNext(x) :
        /\ bar' = n
        /\ synced' = IF n.phaseCount # b.phaseCount THEN {} ELSE sy

-----------------------------------------------------------------------------
Init ==
    /\ bar = [state |-> [t \in Threads |-> "OFFLINE"],
              futexWord |-> [t \in Threads |-> 0],
              lastIdx |-> [t \in Threads |-> 1],
              runList |-> << >>,
              curThreadIdx |-> 0,
              runningThreads |-> 0,
              leftThreads |-> 0,
              phaseCount |-> 0]
    /\ synced = {}

ToWaiting(b, t) ==
    [b EXCEPT !.state[t] = "WAITING", !.futexWord[t] = 1]

\* Faulty form: the list is stepped back without the exchange of places.
Reschedule_NoSwap(b, t) ==
    IF b.curThreadIdx >= b.lastIdx[t]
    THEN [b EXCEPT !.curThreadIdx = @ - 1] ELSE b

\* A thread that LEFT after running in this phase trades places with the last
\* thread examined and is examined again.
Reschedule(b, t) ==
    LET last == b.lastIdx[t]
        cur == b.curThreadIdx
        other == b.runList[cur]
    IN  IF cur >= last
        THEN [b EXCEPT !.curThreadIdx = cur - 1,
                       !.runList[last] = other,
                       !.runList[cur] = t,
                       !.lastIdx[other] = last,
                       !.lastIdx[t] = cur]
        ELSE b

join(t) ==
    \/ /\ bar.state[t] = "OFFLINE"
       /\ Step(ToWaiting([bar EXCEPT !.runList = Append(@, t)], t), synced \ {t})
    \/ /\ bar.state[t] = "LEFT"
       /\ Step(ToWaiting(Reschedule([bar EXCEPT !.leftThreads = @ - 1], t), t),
               synced \ {t})

leave(t) ==
    /\ bar.state[t] = "RUNNING"
    /\ Step([bar EXCEPT !.state[t] = "LEFT",
                        !.leftThreads = @ + 1,
                        !.runningThreads = @ - 1], synced)

\* leave for a thread that is blocked in the barrier: the watchdog does this
\* for the threads of a process that was killed.
leaveWaiting(t) ==
    /\ bar.state[t] = "WAITING"
    /\ bar' = [bar EXCEPT !.state[t] = "LEFT", !.leftThreads = @ + 1]
    /\ UNCHANGED synced

\* Faulty form: the futex word is not armed.
sync_NoArm(t) ==
    /\ bar.state[t] = "RUNNING"
    /\ Step([bar EXCEPT !.state[t] = "WAITING", !.runningThreads = @ - 1],
            synced \cup {t})

sync(t) ==
    /\ bar.state[t] = "RUNNING"
    /\ Step([ToWaiting(bar, t) EXCEPT !.runningThreads = @ - 1],
            synced \cup {t})

Next == \E t \in Threads : join(t) \/ leave(t) \/ sync(t)

Spec == Init /\ [][Next]_vars

\* A running thread reaches its next sync or leave: the simulated program
\* keeps executing, and a thread that blocks in the host leaves first.  One
\* that leaves and rejoins for ever still syncs, because a join does not set
\* its core's clock back and the clock reaches the end of the phase.
\* Syncs(t) tells the steps of sync(t) from the others: a phase that ends
\* while t runs is ended by t, and only a sync keeps t in the barrier.
Syncs(t) ==
    /\ bar.state[t] = "RUNNING"
    /\ \/ t \in synced'
       \/ bar'.phaseCount # bar.phaseCount /\ bar'.state[t] \in {"WAITING", "RUNNING"}

\* Strong fairness of sync(t), which is enabled whenever t runs.
FairSpec ==
    /\ Spec
    /\ \A t \in Threads : <>[](bar.state[t] # "RUNNING") \/ []<><<Syncs(t)>>_vars

-----------------------------------------------------------------------------
TypeOK ==
    /\ bar \in BarrierType
    /\ synced \subseteq Threads

\* The barrier's redundant bookkeeping agrees with the threads' states: each
\* thread that is not OFFLINE is listed exactly once, and runningThreads and
\* leftThreads count what their comments say.  An error here ends a phase early
\* or never (checkEndPhase compares these counters).
CountersExact ==
    /\ \A p, q \in 1 .. Len(bar.runList) :
          bar.runList[p] = bar.runList[q] => p = q
    /\ Listed(bar) = Threads \ InState(bar, "OFFLINE")
    /\ bar.curThreadIdx <= Len(bar.runList)
    /\ bar.runningThreads = Cardinality(InState(bar, "RUNNING"))
    /\ bar.leftThreads = Cardinality(InState(bar, "LEFT"))

\* join's assertion tid == runList[lastIdx], for every LEFT thread that a join
\* would reschedule: the remembered place is still the thread's own, across
\* shuffles, clean-up passes and other threads' rescheduling.
RejoinPlace ==
    \A t \in InState(bar, "LEFT") :
        bar.curThreadIdx >= bar.lastIdx[t] =>
            /\ bar.lastIdx[t] <= Len(bar.runList)
            /\ bar.runList[bar.lastIdx[t]] = t

\* A thread that has synced does not run again before the phase ends.
NoPhaseSkew == \A t \in synced : bar.state[t] # "RUNNING"

\* Parallelism control: never more than parallelThreads threads run, and
\* checkRunList is work-conserving, so that a thread still to run in this phase
\* waits only while parallelThreads others run; checkEndPhase leaves no finished
\* phase open, so that a blocked thread is never waiting for nobody.
SlotsFilled ==
    /\ Cardinality(InState(bar, "RUNNING")) <= parallelThreads
    /\ \A p \in 1 .. Len(bar.runList) :
          bar.state[bar.runList[p]] = "WAITING" =>
              IF p > bar.curThreadIdx
              THEN bar.runningThreads = parallelThreads
              ELSE bar.runningThreads > 0

\* A blocked thread's futex word is armed, so the compare-and-swap that wakes
\* it succeeds (checkRunList panics with "Wakeup race in barrier?" otherwise).
WakeWordArmed ==
    \A t \in Threads : (bar.state[t] = "WAITING") <=> (bar.futexWord[t] = 1)

\* The bookkeeping that joins, leaves, syncs, shuffles and clean-up passes
\* share is consistent: counters, places and futex words.  A thread that is
\* counted, placed or armed wrongly ends a phase early or never, fails join's
\* assertion, or sleeps through its wake-up.
BookkeepingExact == TypeOK /\ CountersExact /\ RejoinPlace /\ WakeWordArmed

\* A phase ends only when every thread of the barrier has synced in it (the
\* last one by this very step) or has left, and never because of a join: the
\* note in join says "You can't cause a phase to end here".
PhaseComplete ==
    [][bar'.phaseCount # bar.phaseCount =>
          /\ InState(bar, "WAITING") \subseteq synced
          /\ Cardinality(InState(bar, "RUNNING")) = 1]_vars

\* Every thread blocked in the barrier eventually runs.
WaitersRun ==
    \A t \in Threads : (bar.state[t] = "WAITING") ~> (bar.state[t] = "RUNNING")
=============================================================================
