------------------------------- MODULE RWMutex -------------------------------
(***************************************************************************)
(* The read-write mutex (mutex.h, rwmutex): two mutexes and a counter of   *)
(* readers.  The first reader takes wq, the last one gives it back; rb is  *)
(* held while a thread waits for wq, so that at most one waits.            *)
(*                                                                         *)
(* A mutex is a futex lock, which module FutexLock shows to exclude: here  *)
(* it is free or not, and a step that takes it waits until it is free.     *)
(***************************************************************************)
EXTENDS Integers, FiniteSets

CONSTANTS Threads

VARIABLES
    wq, rb,     \* whether each mutex is locked
    readers,    \* the counter that xadd changes
    pc          \* thread -> what it does

vars == <<wq, rb, readers, pc>>

Init ==
    /\ wq = FALSE
    /\ rb = FALSE
    /\ readers = 0
    /\ pc = [t \in Threads |-> "idle"]

Go(t, from, to) == pc[t] = from /\ pc' = [pc EXCEPT ![t] = to]

\* rdLock and wrLock first take rb, for as long as they last.
LockRb(t, from, to) == Go(t, from, to) /\ ~rb /\ rb' = TRUE /\ UNCHANGED <<wq, readers>>

\* Faulty form: a reader adds itself and enters, without waiting for writers.
CountReader_Enter(t) ==
    /\ Go(t, "rdCount", "rdDone")
    /\ readers' = readers + 1
    /\ UNCHANGED <<wq, rb>>

\* rdLock counts the reader: the first one has to disable writers.
CountReader(t) ==
    /\ Go(t, "rdCount", IF readers = 0 THEN "rdWait" ELSE "rdDone")
    /\ readers' = readers + 1
    /\ UNCHANGED <<wq, rb>>

LockWq(t, from, to) == Go(t, from, to) /\ ~wq /\ wq' = TRUE /\ UNCHANGED <<rb, readers>>

\* The destructor of scoped_mutex releases rb.
UnlockRb(t, from, to) == Go(t, from, to) /\ rb' = FALSE /\ UNCHANGED <<wq, readers>>

\* rdUnlock, for itself or at the head of upgrade: the last reader enables writers.
UncountReader(t, last, to) ==
    /\ Go(t, "reading", IF readers = 1 THEN last ELSE to)
    /\ readers' = readers - 1
    /\ UNCHANGED <<wq, rb>>

UnlockWq(t, from, to) == Go(t, from, to) /\ wq' = FALSE /\ UNCHANGED <<rb, readers>>

\* Faulty form: the writer gives wq away even if no reader waits for it.
downgrade_Always(t) == Go(t, "writing", "handOver") /\ readers' = readers + 1 /\ UNCHANGED <<wq, rb>>

\* downgrade: the writer counts itself, and gives wq to a reader that waits for it.
downgrade(t) ==
    /\ Go(t, "writing", IF readers = 0 THEN "reading" ELSE "handOver")
    /\ readers' = readers + 1
    /\ UNCHANGED <<wq, rb>>

rdLock(t) ==
    \/ LockRb(t, "rdStart", "rdCount")
    \/ CountReader(t)
    \/ LockWq(t, "rdWait", "rdDone")
    \/ UnlockRb(t, "rdDone", "reading")

wrLock(t) ==
    \/ LockRb(t, "wrStart", "wrWait")
    \/ LockWq(t, "wrWait", "wrDone")
    \/ UnlockRb(t, "wrDone", "writing")

rdUnlock(t) == UncountReader(t, "rdLast", "idle") \/ UnlockWq(t, "rdLast", "idle")
wrUnlock(t) == UnlockWq(t, "writing", "idle")
upgrade(t) == UncountReader(t, "upLast", "wrStart") \/ UnlockWq(t, "upLast", "wrStart")
HandOver(t) == UnlockWq(t, "handOver", "reading")

\* The caller asks for the lock, in one way or the other.
Call(t) == (Go(t, "idle", "rdStart") \/ Go(t, "idle", "wrStart")) /\ UNCHANGED <<wq, rb, readers>>

Next == \E t \in Threads :
    Call(t) \/ rdLock(t) \/ wrLock(t) \/ rdUnlock(t) \/ wrUnlock(t) \/ upgrade(t) \/ downgrade(t) \/ HandOver(t)

Spec == Init /\ [][Next]_vars

-----------------------------------------------------------------------------
(* Properties *)

TypeOK ==
    /\ wq \in BOOLEAN /\ rb \in BOOLEAN
    /\ readers \in Nat
    /\ pc \in [Threads -> {"idle", "rdStart", "rdCount", "rdWait", "rdDone", "reading", "rdLast", "upLast",
                           "wrStart", "wrWait", "wrDone", "writing", "handOver"}]

At(S) == {t \in Threads : pc[t] \in S}

\* A writer is alone: no other thread reads or writes, whatever readers and
\* writers come, upgrade and downgrade in the meantime.  Drops are atomic, "allow
\* other readers to progress with us, but never allow an intervening writer": as
\* long as a thread reads, wq is locked, or given to a reader that waits for it and
\* keeps writers off rb; and the assertion of downgrade holds.
WritersAlone ==
    /\ \A t \in At({"wrDone", "writing"}) :
          /\ At({"rdDone", "reading", "handOver", "wrDone", "writing"}) = {t}
          /\ readers <= 1
    /\ At({"rdDone", "reading", "handOver"}) # {} => wq \/ At({"rdWait"}) # {}
=============================================================================
