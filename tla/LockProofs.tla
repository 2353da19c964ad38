----------------------------- MODULE LockProofs -----------------------------
(***************************************************************************)
(* Proofs about locks, for any set of threads: the futex lock excludes and *)
(* loses no wake-up, and a writer of the read-write mutex is alone.        *)
(***************************************************************************)
EXTENDS FutexLock, SetLemmas

-----------------------------------------------------------------------------
(* The futex lock *)

\* Exclusion is inductive only together with the type: the word must be known
\* to be 1 or 2 when futex_unlock subtracts 1 from it.
FutexInv == TypeOK /\ MutualExclusion

\* For any set of threads, the lock word keeps to 0, 1 and 2 and no two threads
\* are inside the lock, on every path of futex_lock,
\* futex_trylock_nospin_timeout and futex_unlock.  The word's type needs
\* exclusion as much as the reverse: a second unlock would drive it below 0.
THEOREM Exclusion == Spec => [](TypeOK /\ MutualExclusion)
<1>1. futex_init => FutexInv
  BY DEF futex_init, FutexInv, TypeOK, MutualExclusion, Owns, PCs
<1>2. FutexInv /\ [Next]_vars => FutexInv'
  <2> SUFFICES ASSUME FutexInv, [Next]_vars PROVE FutexInv'
    OBVIOUS
  <2> USE DEF FutexInv, TypeOK, MutualExclusion, Owns, PCs, Goto
  <2>1. ASSUME NEW t \in Threads, futex_lock(t) PROVE FutexInv'
    BY <2>1 DEF futex_lock
  <2>2. ASSUME NEW t \in Threads, futex_trylock_nospin_timeout(t) PROVE FutexInv'
    BY <2>2 DEF futex_trylock_nospin_timeout
  <2>3. ASSUME NEW t \in Threads, FutexWaitInterrupted(t) PROVE FutexInv'
    BY <2>3 DEF FutexWaitInterrupted
  <2>4. ASSUME NEW t \in Threads, SpinAcquire(t) PROVE FutexInv'
    BY <2>4 DEF SpinAcquire
  <2>5. ASSUME NEW t \in Threads, SpinGiveUp(t) PROVE FutexInv'
    BY <2>5 DEF SpinGiveUp
  <2>6. ASSUME NEW t \in Threads, ExchangeBeforeWait(t) PROVE FutexInv'
    BY <2>6 DEF ExchangeBeforeWait
  <2>7. ASSUME NEW t \in Threads, FutexWait(t) PROVE FutexInv'
    BY <2>7 DEF FutexWait
  <2>8. ASSUME NEW t \in Threads, ExchangeAfterWait(t) PROVE FutexInv'
    BY <2>8 DEF ExchangeAfterWait, AfterFailedWait
  <2>9. ASSUME NEW t \in Threads, futex_unlock(t) PROVE FutexInv'
    BY <2>9 DEF futex_unlock
  <2>10. ASSUME NEW t \in Threads, UnlockStore(t) PROVE FutexInv'
    BY <2>10 DEF UnlockStore
  <2>11. ASSUME NEW t \in Threads, FutexWakeNobody(t) PROVE FutexInv'
    BY <2>11 DEF FutexWakeNobody
  <2>12. ASSUME NEW t \in Threads, NEW s \in Threads, FutexWake(t, s)
         PROVE  FutexInv'
    BY <2>12 DEF FutexWake
  <2>13. CASE UNCHANGED vars
    BY <2>13 DEF vars
  <2> QED
    BY <2>1, <2>2, <2>3, <2>4, <2>5, <2>6, <2>7, <2>8, <2>9, <2>10, <2>11,
       <2>12, <2>13 DEF Next, Progress
<1> QED
  BY <1>1, <1>2, PTL DEF Spec, FutexInv

\* futex_unlock loses no wake-up, for any number of threads: whoever sleeps in
\* FUTEX_WAIT is covered by the word 2 or by a wake that is still to come.
THEOREM WakeupsKept == Spec => []NoLostWakeup
<1>1. futex_init => NoLostWakeup
  BY DEF futex_init, NoLostWakeup
<1>2. FutexInv /\ NoLostWakeup /\ [Next]_vars => NoLostWakeup'
  <2> SUFFICES ASSUME FutexInv, NoLostWakeup, [Next]_vars PROVE NoLostWakeup'
    OBVIOUS
  <2> USE DEF FutexInv, TypeOK, MutualExclusion, Owns, PCs, Goto, NoLostWakeup
  <2>1. ASSUME NEW t \in Threads, futex_lock(t) PROVE NoLostWakeup'
    BY <2>1 DEF futex_lock
  <2>2. ASSUME NEW t \in Threads, futex_trylock_nospin_timeout(t)
        PROVE  NoLostWakeup'
    BY <2>2 DEF futex_trylock_nospin_timeout
  <2>3. ASSUME NEW t \in Threads, FutexWaitInterrupted(t) PROVE NoLostWakeup'
    BY <2>3 DEF FutexWaitInterrupted
  <2>4. ASSUME NEW t \in Threads, SpinAcquire(t) PROVE NoLostWakeup'
    BY <2>4 DEF SpinAcquire
  <2>5. ASSUME NEW t \in Threads, SpinGiveUp(t) PROVE NoLostWakeup'
    BY <2>5 DEF SpinGiveUp
  <2>6. ASSUME NEW t \in Threads, ExchangeBeforeWait(t) PROVE NoLostWakeup'
    BY <2>6 DEF ExchangeBeforeWait
  <2>7. ASSUME NEW t \in Threads, FutexWait(t) PROVE NoLostWakeup'
    BY <2>7 DEF FutexWait
  <2>8. ASSUME NEW t \in Threads, ExchangeAfterWait(t) PROVE NoLostWakeup'
    BY <2>8 DEF ExchangeAfterWait, AfterFailedWait
  <2>9. ASSUME NEW t \in Threads, futex_unlock(t) PROVE NoLostWakeup'
    BY <2>9 DEF futex_unlock
  <2>10. ASSUME NEW t \in Threads, UnlockStore(t) PROVE NoLostWakeup'
    BY <2>10 DEF UnlockStore
  <2>11. ASSUME NEW t \in Threads, FutexWakeNobody(t) PROVE NoLostWakeup'
    BY <2>11 DEF FutexWakeNobody
  <2>12. ASSUME NEW t \in Threads, NEW s \in Threads, FutexWake(t, s)
         PROVE  NoLostWakeup'
    BY <2>12 DEF FutexWake
  <2>13. CASE UNCHANGED vars
    BY <2>13 DEF vars
  <2> QED
    BY <2>1, <2>2, <2>3, <2>4, <2>5, <2>6, <2>7, <2>8, <2>9, <2>10, <2>11,
       <2>12, <2>13 DEF Next, Progress
<1> QED
  BY <1>1, <1>2, Exclusion, PTL DEF Spec, FutexInv

-----------------------------------------------------------------------------
(* The read-write mutex *)

\* The state of a read-write mutex: its own, beside that of the futex lock.
VARIABLES wq, rb, readers, held

RW == INSTANCE RWMutex WITH pc <- held

\* Readers that are in, and the threads that readers counts.
Inside == RW!At({"rdDone", "reading"})
Counted == RW!At({"rdDone", "reading", "rdWait", "handOver"})

\* The threads that have wq to themselves, and those that hold rb.
Keepers == RW!At({"rdLast", "upLast", "handOver", "wrDone", "writing"})
RbHolders == RW!At({"rdCount", "rdWait", "rdDone", "wrWait", "wrDone"})

\* wq is locked for one thread, or for the readers that are in together, unless
\* one more waits to take it for them.
WqShared ==
    /\ rb <=> RbHolders # {}
    /\ \A t, u \in RbHolders : t = u
    /\ \A t, u \in Keepers : t = u
    /\ Keepers = {} \/ Inside = {}
    /\ RW!At({"handOver"}) # {} => RW!At({"rdWait"}) # {}
    /\ wq <=> Keepers # {} \/ (Inside # {} /\ RW!At({"rdWait"}) = {})

\* The inductive invariant of the read-write mutex.
RWInv ==
    /\ RW!TypeOK /\ WqShared
    /\ IsFiniteSet(Counted) /\ readers = Cardinality(Counted)

\* What the counter tells: nobody counted, or t alone.
LEMMA CounterTells ==
    ASSUME RWInv
    PROVE  /\ readers \in Nat
           /\ readers = 0 <=> Counted = {}
           /\ \A t \in Counted : readers = 1 <=> Counted = {t}
<1>1. IsFiniteSet(Counted) /\ readers = Cardinality(Counted)
  BY DEF RWInv
<1> HIDE DEF Counted
<1>2. readers \in Nat /\ (readers = 0 <=> Counted = {})
  BY <1>1, FS_CardinalityType, FS_EmptySet
<1>3. readers = 1 <=> \E x : Counted = {x}
  BY <1>1, FS_Singleton, Zenon
<1> QED
  BY <1>2, <1>3

\* A thread that moves from one place to another, and nobody else, is counted
\* from then on, or no longer, or as before.
LEMMA CountsOn ==
    ASSUME RWInv, NEW t \in Threads, NEW from, NEW to, RW!Go(t, from, to),
           readers' = readers + (IF to \in {"rdDone", "reading", "rdWait", "handOver"} THEN 1 ELSE 0)
                              - (IF from \in {"rdDone", "reading", "rdWait", "handOver"} THEN 1 ELSE 0)
    PROVE  IsFiniteSet(Counted') /\ readers' = Cardinality(Counted')
<1> DEFINE places == {"rdDone", "reading", "rdWait", "handOver"}
<1>1. IsFiniteSet(Counted) /\ readers = Cardinality(Counted) /\ readers \in Nat
  BY CounterTells DEF RWInv
<1>2. /\ held[t] = from /\ held' = [held EXCEPT ![t] = to]
      /\ held \in [Threads -> {"idle", "rdStart", "rdCount", "rdWait", "rdDone", "reading", "rdLast",
                               "upLast", "wrStart", "wrWait", "wrDone", "writing", "handOver"}]
  BY DEF RW!Go, RWInv, RW!TypeOK
<1>3. \A u \in Threads : held'[u] = IF u = t THEN to ELSE held[u]
  BY <1>2
<1>4. Counted = {u \in Threads : held[u] \in places} /\ Counted' = {u \in Threads : held'[u] \in places}
  BY DEF Counted, RW!At
<1> HIDE DEF Counted, places
<1>5. CASE (to \in places) <=> (from \in places)
  <2>1. Counted' = Counted
    BY <1>2, <1>3, <1>4, <1>5
  <2>2. readers' = readers
    BY <1>1, <1>5 DEF places
  <2> QED
    BY <1>1, <2>1, <2>2
<1>6. CASE to \in places /\ from \notin places
  <2>1. Counted' = Counted \cup {t} /\ t \notin Counted
    BY <1>2, <1>3, <1>4, <1>6
  <2>2. readers' = readers + 1
    BY <1>1, <1>6 DEF places
  <2> QED
    BY <1>1, <2>1, <2>2, FS_AddElement
<1>7. CASE to \notin places /\ from \in places
  <2>1. Counted' = Counted \ {t} /\ t \in Counted
    BY <1>2, <1>3, <1>4, <1>7
  <2>2. readers' = readers - 1
    BY <1>1, <1>7 DEF places
  <2> QED
    BY <1>1, <2>1, <2>2, FS_RemoveElement
<1> QED
  BY <1>5, <1>6, <1>7

\* A step keeps WqShared, given what the counter tells before and after it.
LEMMA RWStep == RWInv /\ [RW!Next]_(RW!vars) => RWInv'
<1> SUFFICES ASSUME RWInv, [RW!Next]_(RW!vars) PROVE RWInv'
  OBVIOUS
<1>1. /\ RW!TypeOK /\ WqShared
      /\ readers \in Nat /\ (readers = 0 <=> Counted = {})
      /\ \A t \in Counted : readers = 1 <=> Counted = {t}
  BY CounterTells DEF RWInv
<1>2. ASSUME RW!TypeOK', WqShared', IsFiniteSet(Counted'), readers' = Cardinality(Counted')
      PROVE  RWInv'
  BY <1>2 DEF RWInv
<1>3. ASSUME NEW t \in Threads, RW!LockRb(t, "rdStart", "rdCount")
      PROVE  RWInv'
  <2>1. RW!TypeOK'
    BY <1>1, <1>3 DEF RW!TypeOK, RW!Go, RW!LockRb
  <2>2. WqShared'
    BY <1>1, <1>3 DEF RW!TypeOK, RW!Go, RW!LockRb, WqShared, RW!At, RbHolders, Keepers, Inside, Counted
  <2>3. IsFiniteSet(Counted') /\ readers' = Cardinality(Counted')
    BY <1>1, <1>3, CountsOn DEF RW!LockRb
  <2> QED
    BY <1>2, <2>1, <2>2, <2>3
<1>4. ASSUME NEW t \in Threads, RW!CountReader(t)
      PROVE  RWInv'
  <2>1. RW!TypeOK'
    BY <1>1, <1>4 DEF RW!TypeOK, RW!Go, RW!CountReader
  <2>2. WqShared'
    BY <1>1, <1>4 DEF RW!TypeOK, RW!Go, RW!CountReader, WqShared, RW!At, RbHolders, Keepers, Inside, Counted
  <2>3. IsFiniteSet(Counted') /\ readers' = Cardinality(Counted')
    BY <1>1, <1>4, CountsOn DEF RW!CountReader
  <2> QED
    BY <1>2, <2>1, <2>2, <2>3
<1>5. ASSUME NEW t \in Threads, RW!LockWq(t, "rdWait", "rdDone")
      PROVE  RWInv'
  <2>1. RW!TypeOK'
    BY <1>1, <1>5 DEF RW!TypeOK, RW!Go, RW!LockWq
  <2>2. WqShared'
    BY <1>1, <1>5 DEF RW!TypeOK, RW!Go, RW!LockWq, WqShared, RW!At, RbHolders, Keepers, Inside, Counted
  <2>3. IsFiniteSet(Counted') /\ readers' = Cardinality(Counted')
    BY <1>1, <1>5, CountsOn DEF RW!LockWq
  <2> QED
    BY <1>2, <2>1, <2>2, <2>3
<1>6. ASSUME NEW t \in Threads, RW!UnlockRb(t, "rdDone", "reading")
      PROVE  RWInv'
  <2>1. RW!TypeOK'
    BY <1>1, <1>6 DEF RW!TypeOK, RW!Go, RW!UnlockRb
  <2>2. WqShared'
    BY <1>1, <1>6 DEF RW!TypeOK, RW!Go, RW!UnlockRb, WqShared, RW!At, RbHolders, Keepers, Inside, Counted
  <2>3. IsFiniteSet(Counted') /\ readers' = Cardinality(Counted')
    BY <1>1, <1>6, CountsOn DEF RW!UnlockRb
  <2> QED
    BY <1>2, <2>1, <2>2, <2>3
<1>7. ASSUME NEW t \in Threads, RW!LockRb(t, "wrStart", "wrWait")
      PROVE  RWInv'
  <2>1. RW!TypeOK'
    BY <1>1, <1>7 DEF RW!TypeOK, RW!Go, RW!LockRb
  <2>2. WqShared'
    BY <1>1, <1>7 DEF RW!TypeOK, RW!Go, RW!LockRb, WqShared, RW!At, RbHolders, Keepers, Inside, Counted
  <2>3. IsFiniteSet(Counted') /\ readers' = Cardinality(Counted')
    BY <1>1, <1>7, CountsOn DEF RW!LockRb
  <2> QED
    BY <1>2, <2>1, <2>2, <2>3
<1>8. ASSUME NEW t \in Threads, RW!LockWq(t, "wrWait", "wrDone")
      PROVE  RWInv'
  <2>1. RW!TypeOK'
    BY <1>1, <1>8 DEF RW!TypeOK, RW!Go, RW!LockWq
  <2>2. WqShared'
    BY <1>1, <1>8 DEF RW!TypeOK, RW!Go, RW!LockWq, WqShared, RW!At, RbHolders, Keepers, Inside, Counted
  <2>3. IsFiniteSet(Counted') /\ readers' = Cardinality(Counted')
    BY <1>1, <1>8, CountsOn DEF RW!LockWq
  <2> QED
    BY <1>2, <2>1, <2>2, <2>3
<1>9. ASSUME NEW t \in Threads, RW!UnlockRb(t, "wrDone", "writing")
      PROVE  RWInv'
  <2>1. RW!TypeOK'
    BY <1>1, <1>9 DEF RW!TypeOK, RW!Go, RW!UnlockRb
  <2>2. WqShared'
    BY <1>1, <1>9 DEF RW!TypeOK, RW!Go, RW!UnlockRb, WqShared, RW!At, RbHolders, Keepers, Inside, Counted
  <2>3. IsFiniteSet(Counted') /\ readers' = Cardinality(Counted')
    BY <1>1, <1>9, CountsOn DEF RW!UnlockRb
  <2> QED
    BY <1>2, <2>1, <2>2, <2>3
<1>10. ASSUME NEW t \in Threads, RW!UncountReader(t, "rdLast", "idle")
      PROVE  RWInv'
  <2>1. RW!TypeOK'
    BY <1>1, <1>10 DEF RW!TypeOK, RW!Go, RW!UncountReader, Counted, RW!At
  <2>2. WqShared'
    BY <1>1, <1>10 DEF RW!TypeOK, RW!Go, RW!UncountReader, WqShared, RW!At, RbHolders, Keepers, Inside, Counted
  <2>3. IsFiniteSet(Counted') /\ readers' = Cardinality(Counted')
    BY <1>1, <1>10, CountsOn DEF RW!UncountReader
  <2> QED
    BY <1>2, <2>1, <2>2, <2>3
<1>11. ASSUME NEW t \in Threads, RW!UncountReader(t, "upLast", "wrStart")
      PROVE  RWInv'
  <2>1. RW!TypeOK'
    BY <1>1, <1>11 DEF RW!TypeOK, RW!Go, RW!UncountReader, Counted, RW!At
  <2>2. WqShared'
    BY <1>1, <1>11 DEF RW!TypeOK, RW!Go, RW!UncountReader, WqShared, RW!At, RbHolders, Keepers, Inside, Counted
  <2>3. IsFiniteSet(Counted') /\ readers' = Cardinality(Counted')
    BY <1>1, <1>11, CountsOn DEF RW!UncountReader
  <2> QED
    BY <1>2, <2>1, <2>2, <2>3
<1>12. ASSUME NEW t \in Threads, RW!UnlockWq(t, "rdLast", "idle")
      PROVE  RWInv'
  <2>1. RW!TypeOK'
    BY <1>1, <1>12 DEF RW!TypeOK, RW!Go, RW!UnlockWq
  <2>2. WqShared'
    BY <1>1, <1>12 DEF RW!TypeOK, RW!Go, RW!UnlockWq, WqShared, RW!At, RbHolders, Keepers, Inside, Counted
  <2>3. IsFiniteSet(Counted') /\ readers' = Cardinality(Counted')
    BY <1>1, <1>12, CountsOn DEF RW!UnlockWq
  <2> QED
    BY <1>2, <2>1, <2>2, <2>3
<1>13. ASSUME NEW t \in Threads, RW!UnlockWq(t, "writing", "idle")
      PROVE  RWInv'
  <2>1. RW!TypeOK'
    BY <1>1, <1>13 DEF RW!TypeOK, RW!Go, RW!UnlockWq
  <2>2. WqShared'
    BY <1>1, <1>13 DEF RW!TypeOK, RW!Go, RW!UnlockWq, WqShared, RW!At, RbHolders, Keepers, Inside, Counted
  <2>3. IsFiniteSet(Counted') /\ readers' = Cardinality(Counted')
    BY <1>1, <1>13, CountsOn DEF RW!UnlockWq
  <2> QED
    BY <1>2, <2>1, <2>2, <2>3
<1>14. ASSUME NEW t \in Threads, RW!UnlockWq(t, "upLast", "wrStart")
      PROVE  RWInv'
  <2>1. RW!TypeOK'
    BY <1>1, <1>14 DEF RW!TypeOK, RW!Go, RW!UnlockWq
  <2>2. WqShared'
    BY <1>1, <1>14 DEF RW!TypeOK, RW!Go, RW!UnlockWq, WqShared, RW!At, RbHolders, Keepers, Inside, Counted
  <2>3. IsFiniteSet(Counted') /\ readers' = Cardinality(Counted')
    BY <1>1, <1>14, CountsOn DEF RW!UnlockWq
  <2> QED
    BY <1>2, <2>1, <2>2, <2>3
<1>15. ASSUME NEW t \in Threads, RW!UnlockWq(t, "handOver", "reading")
      PROVE  RWInv'
  <2>1. RW!TypeOK'
    BY <1>1, <1>15 DEF RW!TypeOK, RW!Go, RW!UnlockWq
  <2>2. WqShared'
    BY <1>1, <1>15 DEF RW!TypeOK, RW!Go, RW!UnlockWq, WqShared, RW!At, RbHolders, Keepers, Inside, Counted
  <2>3. IsFiniteSet(Counted') /\ readers' = Cardinality(Counted')
    BY <1>1, <1>15, CountsOn DEF RW!UnlockWq
  <2> QED
    BY <1>2, <2>1, <2>2, <2>3
<1>16. ASSUME NEW t \in Threads, RW!downgrade(t)
      PROVE  RWInv'
  <2>1. RW!TypeOK'
    BY <1>1, <1>16 DEF RW!TypeOK, RW!Go, RW!downgrade
  <2>2. WqShared'
    BY <1>1, <1>16 DEF RW!TypeOK, RW!Go, RW!downgrade, WqShared, RW!At, RbHolders, Keepers, Inside, Counted
  <2>3. IsFiniteSet(Counted') /\ readers' = Cardinality(Counted')
    BY <1>1, <1>16, CountsOn DEF RW!downgrade
  <2> QED
    BY <1>2, <2>1, <2>2, <2>3
<1>17. ASSUME NEW t \in Threads, RW!Call(t)
      PROVE  RWInv'
  <2>1. RW!TypeOK'
    BY <1>1, <1>17 DEF RW!TypeOK, RW!Go, RW!Call
  <2>2. WqShared'
    BY <1>1, <1>17 DEF RW!TypeOK, RW!Go, RW!Call, WqShared, RW!At, RbHolders, Keepers, Inside, Counted
  <2>3. IsFiniteSet(Counted') /\ readers' = Cardinality(Counted')
    BY <1>1, <1>17, CountsOn DEF RW!Call
  <2> QED
    BY <1>2, <2>1, <2>2, <2>3
<1>18. CASE UNCHANGED RW!vars
  BY <1>1, <1>18 DEF RW!vars, RWInv, RW!TypeOK, WqShared, RW!At, RbHolders, Keepers, Inside, Counted
<1> QED
  BY <1>3, <1>4, <1>5, <1>6, <1>7, <1>8, <1>9, <1>10, <1>11, <1>12, <1>13, <1>14, <1>15, <1>16, <1>17, <1>18
     DEF RW!Next, RW!rdLock, RW!wrLock, RW!rdUnlock, RW!wrUnlock, RW!upgrade, RW!HandOver

\* For any set of threads, a writer of the read-write mutex is alone, whatever
\* readers and writers come, upgrade and downgrade in the meantime, and the
\* assertion of downgrade holds.
THEOREM WriterAlone == RW!Spec => []RW!WritersAlone
<1>1. RW!Init => RWInv
  <2> SUFFICES ASSUME RW!Init PROVE RWInv
    OBVIOUS
  <2>1. Counted = {} /\ Inside = {} /\ Keepers = {} /\ RbHolders = {} /\ RW!At({"handOver"}) = {}
    BY DEF RW!Init, Counted, Inside, Keepers, RbHolders, RW!At
  <2>2. RW!TypeOK
    BY DEF RW!Init, RW!TypeOK
  <2> QED
    BY <2>1, <2>2, FS_EmptySet DEF RWInv, WqShared, RW!Init
<1>2. RWInv /\ [RW!Next]_(RW!vars) => RWInv'
  BY RWStep
<1>3. RWInv => RW!WritersAlone
  <2> SUFFICES ASSUME RWInv PROVE RW!WritersAlone
    OBVIOUS
  <2>1. WqShared /\ \A t \in Counted : readers = 1 <=> Counted = {t}
    BY CounterTells DEF RWInv
  <2>2. readers \in Nat /\ (readers = 0 <=> Counted = {})
    BY CounterTells
  <2>3. ASSUME NEW t \in RW!At({"wrDone", "writing"})
        PROVE  /\ RW!At({"rdDone", "reading", "handOver", "wrDone", "writing"}) = {t}
               /\ readers <= 1
    <3>1. t \in Keepers /\ Inside = {} /\ \A u \in Keepers : u = t
      BY <2>1, <2>3 DEF WqShared, Keepers, RW!At
    <3>2. RW!At({"rdDone", "reading", "handOver", "wrDone", "writing"}) = {t}
      BY <2>3, <3>1 DEF Keepers, Inside, RW!At
    <3>3. \A u \in Counted : u \in RbHolders /\ u \in RW!At({"rdWait"})
      BY <3>1, <3>2, <2>3 DEF Counted, Keepers, Inside, RbHolders, RW!At
    <3>4. Counted = {} \/ \E u \in Counted : Counted = {u}
      BY <2>1, <3>3 DEF WqShared
    <3> QED
      BY <2>1, <2>2, <3>2, <3>4
  <2>4. RW!At({"rdDone", "reading", "handOver"}) # {} => wq \/ RW!At({"rdWait"}) # {}
    BY <2>1 DEF WqShared, Inside, Keepers, RW!At
  <2> QED
    BY <2>3, <2>4 DEF RW!WritersAlone
<1> QED
  BY <1>1, <1>2, <1>3, PTL DEF RW!Spec
=============================================================================
