------------------------------ MODULE FutexLock ------------------------------
(***************************************************************************)
(* The futex-based lock of src/src/locks.h, on which the simulator's       *)
(* coherence controllers, filter caches, scheduler and event queues all    *)
(* synchronise.  The lock word is 0 (free), 1 (held, nobody known to wait) *)
(* or 2 (held, somebody may sleep in the kernel).  One action is one       *)
(* atomic access to the word or one futex system call.                     *)
(*                                                                         *)
(* The two spinning loops differ only in how often they test the word      *)
(* before giving up (five times in futex_lock, once in futex_lock_nospin), *)
(* a count that is abstracted: a thread may test any number of times.      *)
(***************************************************************************)
EXTENDS Naturals

CONSTANT Threads    \* the threads that contend for one lock

VARIABLES
    lock,           \* the 32-bit lock word; only 0, 1 and 2 occur
    pc,             \* where each thread is inside the lock's functions
    timed           \* TRUE: the thread called futex_trylock_nospin_timeout

vars == <<lock, pc, timed>>

\* "idle"   outside, not holding the lock        "spin"   testing the word
\* "xchg1"  about to exchange before sleeping    "wait"   about to FUTEX_WAIT
\* "asleep" in the kernel's wait queue           "xchg2"  back from FUTEX_WAIT
\* "held"   holding the lock                     "store0" fetch-and-add done
\* "wake"   about to FUTEX_WAKE one sleeper
PCs == {"idle", "spin", "xchg1", "wait", "asleep", "xchg2",
        "held", "store0", "wake"}

Goto(t, label) == pc' = [pc EXCEPT ![t] = label]

-----------------------------------------------------------------------------
futex_init ==
    /\ lock = 0
    /\ pc = [t \in Threads |-> "idle"]
    /\ timed = [t \in Threads |-> FALSE]

\* A thread calls futex_lock or futex_lock_nospin.
futex_lock(t) ==
    /\ pc[t] = "idle"
    /\ Goto(t, "spin")
    /\ timed' = [timed EXCEPT ![t] = FALSE]
    /\ UNCHANGED lock

\* A thread calls futex_trylock_nospin_timeout.
futex_trylock_nospin_timeout(t) ==
    /\ pc[t] = "idle"
    /\ Goto(t, "spin")
    /\ timed' = [timed EXCEPT ![t] = TRUE]
    /\ UNCHANGED lock

\* The test-and-compare-and-swap finds the word free.
SpinAcquire(t) ==
    /\ pc[t] = "spin"
    /\ lock = 0
    /\ lock' = 1
    /\ Goto(t, "held")
    /\ UNCHANGED timed

\* The last test fails too (the word is taken): the thread prepares to sleep.
SpinGiveUp(t) ==
    /\ pc[t] = "spin"
    /\ lock # 0
    /\ Goto(t, "xchg1")
    /\ UNCHANGED <<lock, timed>>

\* Faulty form: any value but 2 is taken for a free lock.
ExchangeBeforeWait_Not2(t) ==
    /\ pc[t] = "xchg1"
    /\ lock' = 2
    /\ Goto(t, IF lock # 2 THEN "held" ELSE "wait")
    /\ UNCHANGED timed

\* The atomic exchange with 2 ahead of the system call.
ExchangeBeforeWait(t) ==
    /\ pc[t] = "xchg1"
    /\ lock' = 2
    /\ Goto(t, IF lock = 0 THEN "held" ELSE "wait")
    /\ UNCHANGED timed

\* FUTEX_WAIT on the value 2: the kernel compares and queues atomically.
FutexWait(t) ==
    /\ pc[t] = "wait"
    /\ Goto(t, IF lock = 2 THEN "asleep" ELSE "xchg2")
    /\ UNCHANGED <<lock, timed>>

\* FUTEX_WAIT ends without a FUTEX_WAKE: a signal (the result is never
\* looked at) or, in the timed variant, the timeout.
FutexWaitInterrupted(t) ==
    /\ pc[t] = "asleep"
    /\ Goto(t, "xchg2")
    /\ UNCHANGED <<lock, timed>>

\* When the exchange after the system call fails, the untimed lock loops to
\* the spin phase and the timed one returns false.
AfterFailedWait(t) == IF timed[t] THEN "idle" ELSE "spin"

\* Faulty forms of the step below: the exchange written as a compare-and-swap
\* that forgets the other sleepers, and as an increment.
ExchangeAfterWait_Cas(t) ==
    /\ pc[t] = "xchg2"
    /\ lock' = IF lock = 0 THEN 1 ELSE lock
    /\ Goto(t, IF lock = 0 THEN "held" ELSE AfterFailedWait(t))
    /\ UNCHANGED timed

ExchangeAfterWait_Add(t) ==
    /\ pc[t] = "xchg2"
    /\ lock' = lock + 1
    /\ Goto(t, IF lock = 0 THEN "held" ELSE AfterFailedWait(t))
    /\ UNCHANGED timed

\* The exchange after the system call.
ExchangeAfterWait(t) ==
    /\ pc[t] = "xchg2"
    /\ lock' = 2
    /\ Goto(t, IF lock = 0 THEN "held" ELSE AfterFailedWait(t))
    /\ UNCHANGED timed

\* futex_unlock: fetch-and-add of -1; the old value 1 means nobody to wake.
futex_unlock(t) ==
    /\ pc[t] = "held"
    /\ lock' = lock - 1
    /\ Goto(t, IF lock = 1 THEN "idle" ELSE "store0")
    /\ UNCHANGED timed

\* Faulty form: the wake-up call is forgotten.
UnlockStore_NoWake(t) ==
    /\ pc[t] = "store0"
    /\ lock' = 0
    /\ Goto(t, "idle")
    /\ UNCHANGED timed

\* futex_unlock, contended: the plain store that frees the word.
UnlockStore(t) ==
    /\ pc[t] = "store0"
    /\ lock' = 0
    /\ Goto(t, "wake")
    /\ UNCHANGED timed

\* futex_unlock, contended: FUTEX_WAKE finds the wait queue empty ...
FutexWakeNobody(t) ==
    /\ pc[t] = "wake"
    /\ \A s \in Threads : pc[s] # "asleep"
    /\ Goto(t, "idle")
    /\ UNCHANGED <<lock, timed>>

\* ... or wakes one sleeper.
FutexWake(t, s) ==
    /\ pc[t] = "wake"
    /\ pc[s] = "asleep"
    /\ pc' = [pc EXCEPT ![t] = "idle", ![s] = "xchg2"]
    /\ UNCHANGED <<lock, timed>>

\* The steps a thread takes by itself once it has called a lock function.
\* Unlocking is among them: no critical section of the simulator is endless.
Progress(t) ==
    \/ SpinAcquire(t)
    \/ SpinGiveUp(t)
    \/ ExchangeBeforeWait(t)
    \/ FutexWait(t)
    \/ ExchangeAfterWait(t)
    \/ futex_unlock(t)
    \/ UnlockStore(t)
    \/ FutexWakeNobody(t)
    \/ \E s \in Threads : FutexWake(t, s)

Next ==
    \E t \in Threads :
        \/ futex_lock(t)
        \/ futex_trylock_nospin_timeout(t)
        \/ FutexWaitInterrupted(t)
        \/ Progress(t)

Spec == futex_init /\ [][Next]_vars

\* Threads keep running (weak fairness of each thread's own steps), and the
\* kernel serves its wait queue first come first served, so no sleeper is
\* passed over for ever (strong fairness of being the one that is woken).
FairSpec ==
    /\ Spec
    /\ \A t \in Threads : WF_vars(Progress(t))
    /\ \A s \in Threads : SF_vars(\E t \in Threads : FutexWake(t, s))

-----------------------------------------------------------------------------
TypeOK ==
    /\ lock \in {0, 1, 2}
    /\ pc \in [Threads -> PCs]
    /\ timed \in [Threads -> BOOLEAN]

\* Between the fetch-and-add and the store of a contended futex_unlock the
\* word is still nonzero, so the thread still excludes the others.
Owns(t) == pc[t] \in {"held", "store0"}

\* No two threads are inside the lock at once, and the word is 0 exactly when
\* nobody is: the acquiring paths of futex_lock (compare-and-swap from the
\* spin loop, either exchange) never let two threads in, whatever a contended
\* futex_unlock is in the middle of.
MutualExclusion ==
    /\ \A t, s \in Threads : Owns(t) /\ Owns(s) => t = s
    /\ (lock = 0) <=> (\A t \in Threads : ~ Owns(t))

\* futex_unlock never leaves a sleeper behind: while somebody sleeps in
\* FUTEX_WAIT, either the word is 2 (so the coming unlock will wake) or a wake
\* is on its way: an unlocker has still to call FUTEX_WAKE, or a woken thread
\* has still to put the 2 back.
NoLostWakeup ==
    (\E s \in Threads : pc[s] = "asleep") =>
        \/ lock = 2
        \/ \E t \in Threads : pc[t] \in {"store0", "wake", "xchg2"}

\* Every thread that goes to sleep in FUTEX_WAIT is eventually woken, even
\* when spinning threads keep barging in with the compare-and-swap.
SleepersWake ==
    \A s \in Threads : (pc[s] = "asleep") ~> (pc[s] # "asleep")
=============================================================================
