----------------------------- MODULE FutexMatch -----------------------------
(***************************************************************************)
(* The matching of futex wakes and waits (scheduler.cpp, virt/timeout.cpp). *)
(* A simulated thread that wakes others joins the simulation only after    *)
(* the threads it woke have joined, so that they do not lose their turn.   *)
(* The scheduler counts the wakes that are allowed and those that woken    *)
(* threads have reported and no waker has claimed.  Threads outside the    *)
(* simulation (in fast-forward, or of other programs) wait and wake too.   *)
(***************************************************************************)
EXTENDS Integers, FiniteSets
LOCAL INSTANCE FiniteSetsExt

CONSTANTS
    Threads,    \* the simulated threads
    MaxWakes,   \* the largest number of threads one call asks to wake
    Outsiders,  \* wakes by, and waiters among, threads that are not simulated
    MaxCalls    \* futex calls of one thread

VARIABLES
    pc,         \* where a thread is in its call
    join,       \* ThreadInfo::futexJoin
    allowed,    \* maxAllowedFutexWakeups
    unmatched,  \* unmatchedFutexWakeups
    calls,      \* calls left to each thread
    outside,    \* outside wakes and waits left
    leaked,     \* history: allowance of wakes whose system call failed
    strangers,  \* history: waits reported that no simulated waker accounts for
    failed      \* an assertion failed

vars == <<pc, join, allowed, unmatched, calls, outside, leaked, strangers, failed>>

NoJoin == [action |-> "none", maxWakes |-> 0, wokenUp |-> 0]

Init ==
    /\ pc = [t \in Threads |-> "run"]
    /\ join = [t \in Threads |-> NoJoin]
    /\ allowed = 0 /\ unmatched = 0
    /\ calls = [t \in Threads |-> MaxCalls]
    /\ outside = Outsiders
    /\ leaked = 0 /\ strangers = 0 /\ failed = FALSE

At(t, from, to) == pc[t] = from /\ pc' = [pc EXCEPT ![t] = to]

Call(t) == calls[t] > 0 /\ calls' = [calls EXCEPT ![t] = @ - 1]

(***************************************************************************)
(* The kernel (external): a wake wakes at most as many waiters as it may;  *)
(* in WAKE and REQUEUE alike the caller hears of no more than it asked for. *)
(***************************************************************************)
FutexWait(t) ==
    /\ At(t, "run", "waiting") /\ Call(t)
    /\ UNCHANGED <<join, allowed, unmatched, outside, leaked, strangers, failed>>

\* PrePatchFutex.
notifyFutexWakeStart(t) ==
    /\ At(t, "run", "waking") /\ Call(t)
    /\ \E m \in 1 .. MaxWakes :
        /\ allowed' = allowed + m
        /\ join' = [join EXCEPT ![t].maxWakes = m]
    /\ failed' = (join[t].action # "none")
    /\ UNCHANGED <<unmatched, outside, leaked, strangers>>

\* The system call wakes W and n waiters outside; PostPatchFutex reports their number.
FutexWake(t) ==
    /\ pc[t] = "waking"
    /\ \E W \in SUBSET {u \in Threads : pc[u] = "waiting"}, n \in 0 .. outside :
        /\ Cardinality(W) + n <= join[t].maxWakes
        /\ pc' = [u \in Threads |-> IF u = t THEN "woke" ELSE IF u \in W THEN "woken" ELSE pc[u]]
        /\ join' = [join EXCEPT ![t].action = "wake", ![t].wokenUp = Cardinality(W) + n]
        /\ outside' = outside - n
    /\ UNCHANGED <<allowed, unmatched, calls, leaked, strangers, failed>>

\* The system call fails: PostPatchFutex reports nothing.
FutexWakeFails(t) ==
    /\ At(t, "waking", "run")
    /\ leaked' = leaked + join[t].maxWakes
    /\ UNCHANGED <<join, allowed, unmatched, calls, outside, strangers, failed>>

OutsideWake(t) ==
    /\ outside > 0 /\ outside' = outside - 1
    /\ At(t, "waiting", "woken")
    /\ strangers' = strangers + 1
    /\ UNCHANGED <<join, allowed, unmatched, calls, leaked, failed>>

notifyFutexWaitWoken(t) ==
    /\ At(t, "woken", "reported")
    /\ join' = [join EXCEPT ![t] = [NoJoin EXCEPT !.action = "wait"]]
    /\ UNCHANGED <<allowed, unmatched, calls, outside, leaked, strangers, failed>>

(***************************************************************************)
(* Joins, with schedLock held except while a waker waits.                  *)
(***************************************************************************)
\* The faulty form reports a wait beyond what is allowed.
futexWaitJoin_Always(t) ==
    /\ At(t, "reported", "run")
    /\ unmatched' = unmatched + 1
    /\ join' = [join EXCEPT ![t] = NoJoin]
    /\ UNCHANGED <<allowed, calls, outside, leaked, strangers, failed>>

futexWaitJoin(t) ==
    /\ At(t, "reported", "run")
    /\ unmatched' = IF unmatched >= allowed THEN unmatched ELSE unmatched + 1
    /\ join' = [join EXCEPT ![t] = NoJoin]
    /\ UNCHANGED <<allowed, calls, outside, leaked, strangers, failed>>

\* The faulty form keeps the allowance of the wakes that woke nobody.
futexWakeJoin_KeepAllowance(t) ==
    /\ At(t, "woke", "matching")
    /\ failed' = (unmatched > allowed)
    /\ UNCHANGED <<allowed, join, unmatched, calls, outside, leaked, strangers>>

futexWakeJoin(t) ==
    /\ At(t, "woke", "matching")
    /\ allowed' = allowed - (join[t].maxWakes - join[t].wokenUp)
    /\ failed' = (join[t].maxWakes > allowed \/ unmatched > allowed')
    /\ UNCHANGED <<join, unmatched, calls, outside, leaked, strangers>>

Claimed(t) ==
    /\ At(t, "matching", "run")
    /\ allowed' = allowed - join[t].wokenUp
    /\ join' = [join EXCEPT ![t].action = "none"]

\* The faulty form claims as soon as any woken thread has joined.
Match_Any(t) ==
    /\ Claimed(t)
    /\ join[t].wokenUp > 0 => unmatched > 0
    /\ unmatched' = IF unmatched < join[t].wokenUp THEN 0 ELSE unmatched - join[t].wokenUp
    /\ UNCHANGED <<calls, outside, leaked, strangers, failed>>

Match(t) ==
    /\ Claimed(t)
    /\ join[t].wokenUp <= unmatched
    /\ unmatched' = unmatched - join[t].wokenUp
    /\ UNCHANGED <<calls, outside, leaked, strangers, failed>>

\* The faulty form gives up only if nobody reported.
MatchTimeout_None(t) ==
    /\ Claimed(t)
    /\ join[t].wokenUp > unmatched /\ unmatched = 0
    /\ strangers' = strangers + join[t].wokenUp
    /\ UNCHANGED <<unmatched, calls, outside, leaked, failed>>

\* After two seconds.  The threads it still waits for report to nobody.
MatchTimeout(t) ==
    /\ Claimed(t)
    /\ join[t].wokenUp > unmatched
    /\ unmatched' = 0
    /\ strangers' = strangers + join[t].wokenUp
    /\ UNCHANGED <<calls, outside, leaked, failed>>

Reports(t) == notifyFutexWaitWoken(t) \/ futexWaitJoin(t)
WakerJoins(t) == futexWakeJoin(t) \/ Match(t) \/ MatchTimeout(t)

Next ==
    /\ ~failed
    /\ \E t \in Threads :
        \/ FutexWait(t) \/ notifyFutexWakeStart(t) \/ FutexWake(t) \/ FutexWakeFails(t) \/ OutsideWake(t)
        \/ Reports(t) \/ WakerJoins(t)

Spec ==
    /\ Init /\ [][Next]_vars
    /\ \A t \in Threads : WF_vars(~failed /\ WakerJoins(t)) /\ WF_vars(~failed /\ Reports(t))

(***************************************************************************)
(* Properties.                                                             *)
(***************************************************************************)
Outstanding(t) ==
    CASE pc[t] \in {"waking", "woke"} -> join[t].maxWakes
      [] pc[t] = "matching" -> join[t].wokenUp
      [] OTHER -> 0

\* maxAllowedFutexWakeups is what the wakers under way may still claim, plus
\* what the wakes whose system call failed left behind for ever, and no more
\* reports are kept than that; and until a match times out or somebody
\* outside wakes a thread, no report is counted for a waker that woke nobody
\* (the assertions of futexWakeJoin hold).
AllowanceExact ==
    /\ ~failed => allowed = leaked + MapThenSumSet(Outstanding, Threads) /\ unmatched <= allowed
    /\ strangers = 0 => ~failed
    /\ strangers = 0 => unmatched <= MapThenSumSet(LAMBDA t : IF pc[t] \in {"woke", "matching"} THEN join[t].wokenUp ELSE 0, Threads)

\* A waker that is done has been passed by all the threads it woke: their
\* number is never more than the reports still to come and those not claimed.
WokenJoinFirst ==
    strangers = 0 /\ outside = Outsiders =>
        MapThenSumSet(LAMBDA t : IF pc[t] \in {"woke", "matching"} THEN join[t].wokenUp ELSE 0, Threads)
            = unmatched + Cardinality({t \in Threads : pc[t] \in {"woken", "reported"}})

\* A waker is not held up for ever by threads that do not report.
WakersJoin == \A t \in Threads : pc[t] \in {"woke", "matching"} ~> pc[t] = "run" \/ failed
=============================================================================
