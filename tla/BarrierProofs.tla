---------------------------- MODULE BarrierProofs ----------------------------
(***************************************************************************)
(* Proofs about the phase barrier, for any finite set of threads, any      *)
(* limit on the threads that run and any clean-up period.                  *)
(*                                                                         *)
(* join, leave and sync each change the record and then call tryWakeNext,  *)
(* which runs checkRunList, checkEndPhase and checkRunList again.  Sound   *)
(* is what holds between any two of these calls; that each of them keeps   *)
(* it is a lemma of its own, and the theorems at the end put them together.*)
(***************************************************************************)
EXTENDS Barrier, SetLemmas

\* Nobody is listed twice.
Distinct(b) ==
    \A p, q \in 1 .. Len(b.runList) : b.runList[p] = b.runList[q] => p = q

\* The counters count, and the limit is kept.
Counted(b) ==
    /\ b.runningThreads = Cardinality(InState(b, "RUNNING"))
    /\ b.leftThreads = Cardinality(InState(b, "LEFT"))
    /\ b.runningThreads <= parallelThreads

\* The futex word is set for those who wait and for nobody else.
Armed(b) == \A t \in Threads : (b.state[t] = "WAITING") <=> (b.futexWord[t] = 1)

\* A thread that runs or left knows its place.  RejoinPlace alone is not
\* inductive: it says nothing of the thread while it runs.
Placed(b) ==
    \A t \in Threads : b.state[t] \in {"RUNNING", "LEFT"} =>
        /\ b.lastIdx[t] <= Len(b.runList)
        /\ b.runList[b.lastIdx[t]] = t

\* Nobody runs who has not been examined in this phase.
RunnersExamined(b) ==
    \A p \in 1 .. Len(b.runList) :
        b.state[b.runList[p]] = "RUNNING" => p <= b.curThreadIdx

\* The state of a barrier between two calls of its methods' helpers.
Sound(b) ==
    /\ b \in BarrierType
    /\ Distinct(b)
    /\ Listed(b) = Threads \ InState(b, "OFFLINE")
    /\ b.curThreadIdx <= Len(b.runList)
    /\ Counted(b)
    /\ Armed(b)
    /\ Placed(b)
    /\ RunnersExamined(b)

\* The threads that wait though they were examined are those that synced.
SyncedWait(b, sy) ==
    /\ sy \subseteq InState(b, "WAITING")
    /\ \A p \in 1 .. Len(b.runList) :
          b.state[b.runList[p]] = "WAITING" =>
              (p <= b.curThreadIdx <=> b.runList[p] \in sy)

\* checkRunList has nothing left to do.
Drained(b) ==
    \/ b.curThreadIdx = Len(b.runList)
    \/ b.runningThreads >= parallelThreads

-----------------------------------------------------------------------------
(* checkRunList *)

\* The loop of checkRunList stops, at the first position where its condition
\* fails.
LEMMA StopFirst ==
    ASSUME NEW b \in BarrierType, b.curThreadIdx <= Len(b.runList)
    PROVE  /\ StopIdx(b) \in b.curThreadIdx .. Len(b.runList)
           /\ LoopEnds(b, StopIdx(b))
           /\ \A d \in b.curThreadIdx .. StopIdx(b) - 1 : ~ LoopEnds(b, d)
<1> DEFINE S == {c \in b.curThreadIdx .. Len(b.runList) : LoopEnds(b, c)}
<1>1. b.curThreadIdx \in Nat /\ Len(b.runList) \in Nat
  BY DEF BarrierType
<1>2. S \in SUBSET Nat /\ Len(b.runList) \in S
  BY <1>1 DEF LoopEnds
<1>3. PICK c \in S : \A d \in S : c <= d
  BY <1>2, LeastNat
<1>4. \A d \in b.curThreadIdx .. c - 1 : ~ LoopEnds(b, d)
  BY <1>1, <1>3
<1> QED
  BY <1>3, <1>4 DEF StopIdx

\* The waiting positions up to c are finitely many, and one more position adds
\* at most one of them.
LEMMA WaitingFinite ==
    ASSUME NEW b \in BarrierType, NEW c \in Nat
    PROVE  /\ IsFiniteSet(WaitingUpTo(b, c))
           /\ Cardinality(WaitingUpTo(b, c)) \in Nat
           /\ Cardinality(WaitingUpTo(b, c + 1)) <= Cardinality(WaitingUpTo(b, c)) + 1
<1>1. b.curThreadIdx \in Nat
  BY DEF BarrierType
<1>2. ASSUME NEW d \in Nat
      PROVE  IsFiniteSet(WaitingUpTo(b, d)) /\ Cardinality(WaitingUpTo(b, d)) \in Nat
  <2>1. IsFiniteSet(b.curThreadIdx + 1 .. d)
    BY <1>1, FS_Interval
  <2>2. WaitingUpTo(b, d) \in SUBSET (b.curThreadIdx + 1 .. d)
    BY DEF WaitingUpTo
  <2> QED
    BY <2>1, <2>2, FS_Subset, FS_CardinalityType
<1> DEFINE X == WaitingUpTo(b, c)
<1>3. WaitingUpTo(b, c + 1) \in SUBSET (X \cup {c + 1})
  BY <1>1 DEF WaitingUpTo
<1>4. IsFiniteSet(X) /\ Cardinality(X) \in Nat /\ Cardinality(WaitingUpTo(b, c + 1)) \in Nat
  BY <1>2
<1> HIDE DEF X
<1>5. /\ IsFiniteSet(X \cup {c + 1})
      /\ Cardinality(X \cup {c + 1}) = IF c + 1 \in X THEN Cardinality(X) ELSE Cardinality(X) + 1
  BY <1>4, FS_AddElement
<1>6. Cardinality(WaitingUpTo(b, c + 1)) <= Cardinality(X \cup {c + 1})
  BY <1>3, <1>5, FS_Subset
<1>7. Cardinality(WaitingUpTo(b, c + 1)) <= Cardinality(X) + 1
  BY <1>4, <1>5, <1>6
<1> QED
  BY <1>4, <1>7 DEF X

\* The threads that checkRunList wakes.
Woken(b) == {b.runList[p] : p \in WaitingUpTo(b, StopIdx(b))}

\* Each waiting position that checkRunList passes wakes a thread of its own.
LEMMA WokenCounted ==
    ASSUME NEW b \in BarrierType, Distinct(b), b.curThreadIdx <= Len(b.runList)
    PROVE  /\ Woken(b) \subseteq InState(b, "WAITING")
           /\ IsFiniteSet(Woken(b))
           /\ Cardinality(Woken(b)) = Cardinality(WaitingUpTo(b, StopIdx(b)))
<1> DEFINE W == WaitingUpTo(b, StopIdx(b))
           f == [p \in W |-> b.runList[p]]
<1>1. b.curThreadIdx \in Nat /\ b.runList \in Seq(Threads)
  BY DEF BarrierType
<1>2. StopIdx(b) \in Nat /\ StopIdx(b) <= Len(b.runList)
  BY <1>1, StopFirst
<1>3. W \subseteq 1 .. Len(b.runList)
  BY <1>1, <1>2 DEF WaitingUpTo
<1>4. f \in Bijection(W, Woken(b))
  BY <1>3, Fun_IsBij DEF Woken, Distinct
<1>5. IsFiniteSet(W)
  BY <1>2, WaitingFinite
<1>6. Woken(b) \subseteq InState(b, "WAITING")
  BY <1>1, <1>3 DEF Woken, InState, WaitingUpTo
<1> QED
  BY <1>4, <1>5, <1>6, Fun_ExistsBij, FS_Bijection

\* A thread that is listed once is found at its position.
LEMMA PosFound ==
    ASSUME NEW list \in Seq(Threads), NEW p \in 1 .. Len(list),
           \A q, r \in 1 .. Len(list) : list[q] = list[r] => q = r
    PROVE  PosOf(list, list[p]) = p
BY DEF PosOf

\* The list is no longer than there are threads.
LEMMA ListFits ==
    ASSUME NEW b \in BarrierType, Distinct(b)
    PROVE  /\ Len(b.runList) = Cardinality(Listed(b))
           /\ Len(b.runList) <= Cardinality(Threads)
           /\ Cardinality(Threads) \in Nat
<1>1. b.runList \in Seq(Threads)
  BY DEF BarrierType
<1>2. IsFiniteSet(Listed(b)) /\ Cardinality(Listed(b)) = Len(b.runList)
  BY <1>1, DistinctLength DEF Listed, Distinct
<1>3. Listed(b) \in SUBSET Threads
  BY <1>1 DEF Listed
<1> QED
  BY <1>2, <1>3, ThreadsAssumption, FS_Subset, FS_CardinalityType

\* What checkRunList does to each field of the barrier.
LEMMA RunListFields ==
    ASSUME NEW b \in BarrierType, Distinct(b), b.curThreadIdx <= Len(b.runList)
    PROVE  LET n == checkRunList(b)
           IN  /\ n \in BarrierType
               /\ n.runList = b.runList
               /\ n.leftThreads = b.leftThreads
               /\ n.phaseCount = b.phaseCount
               /\ n.curThreadIdx = StopIdx(b)
               /\ n.runningThreads = b.runningThreads + Cardinality(Woken(b))
               /\ \A t \in Threads :
                     /\ n.state[t] = IF t \in Woken(b) THEN "RUNNING" ELSE b.state[t]
                     /\ n.futexWord[t] = IF t \in Woken(b) THEN 0 ELSE b.futexWord[t]
                     /\ t \notin Woken(b) => n.lastIdx[t] = b.lastIdx[t]
               /\ \A p \in WaitingUpTo(b, StopIdx(b)) : n.lastIdx[b.runList[p]] = p
<1> DEFINE n == checkRunList(b)
           W == WaitingUpTo(b, StopIdx(b))
<1>1. /\ b.runList \in Seq(Threads) /\ b.curThreadIdx \in Nat
      /\ StopIdx(b) \in Nat /\ StopIdx(b) <= Len(b.runList)
  BY StopFirst DEF BarrierType
<1>2. W \subseteq 1 .. Len(b.runList)
  BY <1>1 DEF WaitingUpTo
<1>3. Cardinality(W) \in Nat /\ Cardinality(W) = Cardinality(Woken(b))
  BY <1>1, WaitingFinite, WokenCounted
<1>4. \A p \in W : WokenIdx(b, b.runList[p]) = p
  BY <1>1, <1>2, PosFound DEF WokenIdx, Distinct
<1>5. \A t \in Woken(b) : WokenIdx(b, t) \in 1 .. Cardinality(Threads)
  <2>1. Len(b.runList) <= Cardinality(Threads) /\ Cardinality(Threads) \in Nat
    BY ListFits
  <2> QED
    BY <2>1, <1>1, <1>2, <1>4 DEF Woken
<1>6. n = [b EXCEPT
            !.state = [t \in Threads |-> IF t \in Woken(b) THEN "RUNNING" ELSE b.state[t]],
            !.futexWord = [t \in Threads |-> IF t \in Woken(b) THEN 0 ELSE b.futexWord[t]],
            !.lastIdx = [t \in Threads |->
                            IF t \in Woken(b) THEN WokenIdx(b, t) ELSE b.lastIdx[t]],
            !.curThreadIdx = StopIdx(b),
            !.runningThreads = b.runningThreads + Cardinality(W)]
  BY DEF checkRunList, Woken
<1> HIDE DEF n, W
<1>7. n \in BarrierType
  <2>1. /\ [t \in Threads |-> IF t \in Woken(b) THEN "RUNNING" ELSE b.state[t]]
             \in [Threads -> States]
        /\ [t \in Threads |-> IF t \in Woken(b) THEN 0 ELSE b.futexWord[t]]
             \in [Threads -> {0, 1}]
    BY DEF BarrierType, States
  <2>2. [t \in Threads |-> IF t \in Woken(b) THEN WokenIdx(b, t) ELSE b.lastIdx[t]]
          \in [Threads -> 1 .. Cardinality(Threads)]
    BY <1>5 DEF BarrierType
  <2>3. b.runningThreads + Cardinality(W) \in Int
    BY <1>3 DEF BarrierType
  <2> QED
    BY <1>1, <1>6, <2>1, <2>2, <2>3 DEF BarrierType
<1>8. /\ n.runList = b.runList
      /\ n.leftThreads = b.leftThreads
      /\ n.phaseCount = b.phaseCount
      /\ n.curThreadIdx = StopIdx(b)
      /\ n.runningThreads = b.runningThreads + Cardinality(Woken(b))
  BY <1>3, <1>6 DEF BarrierType
<1>9. \A t \in Threads :
          /\ n.state[t] = IF t \in Woken(b) THEN "RUNNING" ELSE b.state[t]
          /\ n.futexWord[t] = IF t \in Woken(b) THEN 0 ELSE b.futexWord[t]
          /\ n.lastIdx[t] = IF t \in Woken(b) THEN WokenIdx(b, t) ELSE b.lastIdx[t]
  BY <1>6 DEF BarrierType
<1>10. \A p \in W : n.lastIdx[b.runList[p]] = p
  BY <1>1, <1>2, <1>4, <1>9 DEF Woken, W
<1> QED
  BY <1>7, <1>8, <1>9, <1>10 DEF n, W

\* checkRunList keeps the barrier sound: each thread it wakes is counted and
\* placed, and it never exceeds parallelThreads, because it stops at the first
\* position where the limit is reached.  It leaves nobody waiting among those
\* it passed, and it stops only at the limit or at the end of the list.
LEMMA RunListSound ==
    ASSUME NEW b, Sound(b)
    PROVE  LET n == checkRunList(b)
           IN  /\ Sound(n)
               /\ Drained(n)
               /\ \A p \in 1 .. Len(b.runList) :
                     b.state[b.runList[p]] = "WAITING" =>
                         n.state[b.runList[p]] =
                             IF p > b.curThreadIdx /\ p <= n.curThreadIdx
                             THEN "RUNNING" ELSE "WAITING"
               /\ \A t \in Threads : b.state[t] # "WAITING" => n.state[t] = b.state[t]
<1> DEFINE n == checkRunList(b)
           W == WaitingUpTo(b, StopIdx(b))
<1>1. /\ b \in BarrierType /\ Distinct(b) /\ b.curThreadIdx <= Len(b.runList)
      /\ b.runList \in Seq(Threads) /\ b.curThreadIdx \in Nat
      /\ b.runningThreads \in Int /\ Len(b.runList) \in Nat
  BY DEF Sound, BarrierType
<1>2. /\ StopIdx(b) \in b.curThreadIdx .. Len(b.runList)
      /\ LoopEnds(b, StopIdx(b))
      /\ \A d \in b.curThreadIdx .. StopIdx(b) - 1 : ~ LoopEnds(b, d)
  BY <1>1, StopFirst
<1>3. /\ n \in BarrierType
      /\ n.runList = b.runList
      /\ n.leftThreads = b.leftThreads
      /\ n.curThreadIdx = StopIdx(b)
      /\ n.runningThreads = b.runningThreads + Cardinality(Woken(b))
      /\ \A t \in Threads :
            /\ n.state[t] = IF t \in Woken(b) THEN "RUNNING" ELSE b.state[t]
            /\ n.futexWord[t] = IF t \in Woken(b) THEN 0 ELSE b.futexWord[t]
            /\ t \notin Woken(b) => n.lastIdx[t] = b.lastIdx[t]
      /\ \A p \in W : n.lastIdx[b.runList[p]] = p
  BY <1>1, RunListFields
<1>4. /\ Woken(b) \subseteq InState(b, "WAITING")
      /\ IsFiniteSet(Woken(b))
      /\ Cardinality(Woken(b)) = Cardinality(W)
      /\ Cardinality(W) \in Nat
  <2>1. StopIdx(b) \in Nat
    BY <1>1, <1>2
  <2>2. Cardinality(W) \in Nat
    BY <1>1, <2>1, WaitingFinite
  <2> QED
    BY <1>1, <2>2, WokenCounted
<1>5. W = {p \in b.curThreadIdx + 1 .. StopIdx(b) : b.state[b.runList[p]] = "WAITING"}
  BY DEF WaitingUpTo
<1>6. \A p \in 1 .. Len(b.runList) : b.runList[p] \in Woken(b) <=> p \in W
  BY SMTT(30), <1>1, <1>2, <1>5 DEF Woken, Distinct
<1> HIDE DEF n, W
<1>7. /\ Distinct(n) /\ n.curThreadIdx <= Len(n.runList)
      /\ Listed(n) = Threads \ InState(n, "OFFLINE")
  <2>1. Distinct(n) /\ n.curThreadIdx <= Len(n.runList) /\ Listed(n) = Listed(b)
    BY <1>1, <1>2, <1>3 DEF Distinct, Listed
  <2>2. InState(n, "OFFLINE") = InState(b, "OFFLINE")
    BY <1>3, <1>4 DEF InState
  <2> QED
    BY <2>1, <2>2 DEF Sound
<1>8. Counted(n)
  <2>1. InState(n, "RUNNING") = InState(b, "RUNNING") \cup Woken(b)
    BY <1>3, <1>4 DEF InState
  <2>2. InState(b, "RUNNING") \cap Woken(b) = {}
    BY <1>4 DEF InState
  <2>3. IsFiniteSet(InState(b, "RUNNING"))
    BY ThreadsAssumption, FS_Subset DEF InState
  <2>4. Cardinality(InState(n, "RUNNING")) =
            Cardinality(InState(b, "RUNNING")) + Cardinality(Woken(b))
    BY <1>4, <2>1, <2>2, <2>3, DisjointUnion
  <2>5. InState(n, "LEFT") = InState(b, "LEFT")
    BY <1>3, <1>4 DEF InState
  <2>6. n.runningThreads <= parallelThreads
    <3>1. CASE StopIdx(b) = b.curThreadIdx
      <4>1. W = {}
        BY <1>1, <1>5, <3>1
      <4> QED
        BY <1>1, <1>3, <1>4, <4>1, FS_EmptySet DEF Sound, Counted
    <3>2. CASE StopIdx(b) # b.curThreadIdx
      <4>1. StopIdx(b) - 1 \in b.curThreadIdx .. StopIdx(b) - 1 /\ StopIdx(b) - 1 \in Nat
        BY <1>1, <1>2, <3>2
      <4>2. b.runningThreads + Cardinality(WaitingUpTo(b, StopIdx(b) - 1)) < parallelThreads
        <5>1. ~ LoopEnds(b, StopIdx(b) - 1)
          BY <1>2, <4>1
        <5>2. Cardinality(WaitingUpTo(b, StopIdx(b) - 1)) \in Nat
          BY <1>1, <4>1, WaitingFinite
        <5> QED
          BY <1>1, <5>1, <5>2, ParallelAssumption DEF LoopEnds
      <4>3. /\ Cardinality(W) <= Cardinality(WaitingUpTo(b, StopIdx(b) - 1)) + 1
            /\ Cardinality(WaitingUpTo(b, StopIdx(b) - 1)) \in Nat
        <5>1. (StopIdx(b) - 1) + 1 = StopIdx(b)
          BY <1>1, <1>2
        <5> QED
          BY <1>1, <4>1, <5>1, WaitingFinite DEF W
      <4> QED
        BY <1>1, <1>3, <1>4, <4>2, <4>3, ParallelAssumption
    <3> QED
      BY <3>1, <3>2
  <2> QED
    BY <1>3, <2>4, <2>5, <2>6 DEF Sound, Counted
<1>9. Armed(n)
  BY <1>3, <1>4 DEF Sound, Armed, InState
<1>10. Placed(n)
  <2> SUFFICES ASSUME NEW t \in Threads, n.state[t] \in {"RUNNING", "LEFT"}
               PROVE  n.lastIdx[t] <= Len(b.runList) /\ b.runList[n.lastIdx[t]] = t
    BY <1>3 DEF Placed
  <2>1. CASE t \in Woken(b)
    <3>1. PICK p \in W : t = b.runList[p]
      BY <2>1 DEF Woken, W
    <3> QED
      BY <1>1, <1>2, <1>3, <1>5, <3>1
  <2>2. CASE t \notin Woken(b)
    BY <1>3, <2>2 DEF Sound, Placed
  <2> QED
    BY <2>1, <2>2
<1>11. RunnersExamined(n)
  <2> SUFFICES ASSUME NEW p \in 1 .. Len(b.runList), n.state[b.runList[p]] = "RUNNING"
               PROVE  p <= StopIdx(b)
    BY <1>3 DEF RunnersExamined
  <2>1. CASE b.runList[p] \in Woken(b)
    BY <1>1, <1>2, <1>5, <1>6, <2>1
  <2>2. CASE b.runList[p] \notin Woken(b)
    BY <1>1, <1>2, <1>3, <2>2 DEF Sound, RunnersExamined
  <2> QED
    BY <2>1, <2>2
<1>12. Drained(n)
  BY <1>1, <1>2, <1>3, <1>4 DEF Drained, LoopEnds, W
<1>13. ASSUME NEW p \in 1 .. Len(b.runList), b.state[b.runList[p]] = "WAITING"
       PROVE  n.state[b.runList[p]] =
                  IF p > b.curThreadIdx /\ p <= n.curThreadIdx THEN "RUNNING" ELSE "WAITING"
  BY <1>1, <1>2, <1>3, <1>5, <1>6, <1>13
<1>14. \A t \in Threads : b.state[t] # "WAITING" => n.state[t] = b.state[t]
  BY <1>3, <1>4 DEF InState
<1> QED
  BY <1>3, <1>7, <1>8, <1>9, <1>10, <1>11, <1>12, <1>13, <1>14 DEF Sound, n

-----------------------------------------------------------------------------
(* checkEndPhase *)

\* The list of the next phase is a permutation of the threads that are kept:
\* neither the clean-up's gap filling nor the shuffle loses or repeats one.
LEMMA NewListKeeps ==
    ASSUME NEW b, Sound(b), NEW list \in NewLists(b)
    PROVE  /\ list \in Seq(Threads)
           /\ \A p, q \in 1 .. Len(list) : list[p] = list[q] => p = q
           /\ {list[p] : p \in 1 .. Len(list)} = Listed(b) \ Dropped(b)
           /\ Len(list) <= Len(b.runList)
<1> DEFINE K == Listed(b) \ Dropped(b)
<1>1. b \in BarrierType /\ b.runList \in Seq(Threads) /\ Distinct(b)
  BY DEF Sound, BarrierType
<1>2. Listed(b) \subseteq Threads
  BY <1>1 DEF Listed
<1>3. IsFiniteSet(Listed(b)) /\ Cardinality(Listed(b)) = Len(b.runList)
  BY <1>1, DistinctLength DEF Listed, Distinct
<1>4. IsFiniteSet(K) /\ Cardinality(K) \in Nat /\ Cardinality(K) <= Len(b.runList)
  BY <1>3, FS_Subset, FS_CardinalityType
<1>5. CASE list \in Orderings(K)
  <2> HIDE DEF K
  <2>1. /\ list \in [1 .. Cardinality(K) -> K]
        /\ \A p, q \in 1 .. Cardinality(K) : list[p] = list[q] => p = q
    BY <1>5 DEF Orderings
  <2>2. list \in Injection(1 .. Cardinality(K), K)
    BY <2>1, Fun_IsInj
  <2>3. Cardinality(1 .. Cardinality(K)) = Cardinality(K)
    BY <1>4, UpTo
  <2>4. list \in Surjection(1 .. Cardinality(K), K)
    BY <1>4, <2>2, <2>3, FS_Injection
  <2>5. \A t \in K : \E p \in 1 .. Cardinality(K) : list[p] = t
    BY <2>4 DEF Surjection
  <2>6. list \in Seq(K) /\ Len(list) = Cardinality(K)
    BY <1>4, <2>1, FunctionIsSeq
  <2>7. {list[p] : p \in 1 .. Len(list)} = K
    BY <2>1, <2>5, <2>6
  <2>8. list \in Seq(Threads)
    BY <1>2, <2>6, SeqMonotonic DEF K
  <2> QED
    BY <1>4, <2>1, <2>6, <2>7, <2>8 DEF K
<1>6. CASE list = b.runList /\ Dropped(b) = {}
  BY <1>1, <1>6 DEF Distinct, Listed
<1> QED
  BY <1>5, <1>6 DEF NewLists

\* The end of a phase keeps the barrier sound: the threads dropped from the
\* list are the ones that go OFFLINE, leftThreads is reset when all LEFT
\* threads are dropped and only then, and whoever changes place is told.
LEMMA PhaseEndSound ==
    ASSUME NEW b, Sound(b), PhaseOver(b), NEW e \in checkEndPhase(b)
    PROVE  /\ Sound(e)
           /\ e.curThreadIdx = 0
           /\ e.phaseCount # b.phaseCount
           /\ \A t \in Threads : e.state[t] = "WAITING" <=> b.state[t] = "WAITING"
<1>1. PICK list \in NewLists(b) :
          e = [Rewind(Offline(b)) EXCEPT !.runList = list, !.lastIdx = Place(b, list)]
  BY DEF checkEndPhase
<1>2. /\ list \in Seq(Threads)
      /\ \A p, q \in 1 .. Len(list) : list[p] = list[q] => p = q
      /\ {list[p] : p \in 1 .. Len(list)} = Listed(b) \ Dropped(b)
      /\ Len(list) <= Len(b.runList)
  BY NewListKeeps
<1>3. /\ b \in BarrierType /\ b.runList \in Seq(Threads) /\ Distinct(b)
      /\ Len(b.runList) \in Nat /\ Len(list) \in Nat
      /\ b.runningThreads = 0
  BY <1>2 DEF Sound, BarrierType, PhaseOver
<1>4. Len(b.runList) <= Cardinality(Threads) /\ Cardinality(Threads) \in Nat
  BY <1>3, ListFits
<1> DEFINE newState == [t \in Threads |-> IF t \in Dropped(b) THEN "OFFLINE" ELSE b.state[t]]
           newLeft == IF b.phaseCount = 0 THEN 0 ELSE b.leftThreads
           newCount == (b.phaseCount + 1) % CleanupPeriod
<1>5. e = [b EXCEPT !.state = newState, !.leftThreads = newLeft, !.curThreadIdx = 0,
                    !.phaseCount = newCount, !.runList = list, !.lastIdx = Place(b, list)]
  BY <1>1, <1>3 DEF Rewind, Offline, BarrierType
<1>6. newCount \in 0 .. CleanupPeriod - 1 /\ newCount # b.phaseCount
  <2>1. CleanupPeriod \in Nat /\ CleanupPeriod > 1
    BY PeriodAssumption
  <2>2. b.phaseCount \in 0 .. CleanupPeriod - 1
    BY <1>3 DEF BarrierType
  <2> QED
    BY <2>1, <2>2, ModStep
<1>7. \A p \in 1 .. Len(list) : PosOf(list, list[p]) = p
  BY <1>2, PosFound
<1>8. /\ Place(b, list) \in [Threads -> 1 .. Cardinality(Threads)]
      /\ \A p \in 1 .. Len(list) :
            Place(b, list)[list[p]] = IF b.runList[p] # list[p] THEN p ELSE b.lastIdx[list[p]]
  <2>1. b.lastIdx \in [Threads -> 1 .. Cardinality(Threads)]
    BY <1>3 DEF BarrierType
  <2>2. ASSUME NEW p \in 1 .. Len(list)
        PROVE  Place(b, list)[list[p]] = IF b.runList[p] # list[p] THEN p ELSE b.lastIdx[list[p]]
    <3>1. list[p] \in Threads
      BY <1>2
    <3>2. (\E q \in 1 .. Len(list) : list[q] = list[p] /\ b.runList[q] # list[p])
              <=> b.runList[p] # list[p]
      BY <1>2
    <3> QED
      BY <1>7, <3>1, <3>2 DEF Place
  <2>3. ASSUME NEW t \in Threads
        PROVE  Place(b, list)[t] \in 1 .. Cardinality(Threads)
    <3>1. CASE \E p \in 1 .. Len(list) : list[p] = t /\ b.runList[p] # t
      BY <1>2, <1>3, <1>4, <2>2, <3>1
    <3>2. CASE ~ \E p \in 1 .. Len(list) : list[p] = t /\ b.runList[p] # t
      BY <2>1, <3>2 DEF Place
    <3> QED
      BY <3>1, <3>2
  <2>4. Place(b, list) = [t \in Threads |-> Place(b, list)[t]]
    BY DEF Place
  <2> QED
    BY <2>2, <2>3, <2>4
<1>9. newState \in [Threads -> States]
  BY <1>3 DEF BarrierType, States
<1>10. newLeft \in Int
  BY <1>3 DEF BarrierType
<1> HIDE DEF newState, newLeft, newCount
<1>11. e \in BarrierType
  BY <1>2, <1>3, <1>5, <1>6, <1>8, <1>9, <1>10 DEF BarrierType
<1>12. /\ e.state = newState /\ e.leftThreads = newLeft /\ e.curThreadIdx = 0
       /\ e.phaseCount = newCount /\ e.runList = list /\ e.lastIdx = Place(b, list)
       /\ e.futexWord = b.futexWord /\ e.runningThreads = 0
  BY <1>3, <1>5 DEF BarrierType
<1>13. \A t \in Threads : e.state[t] = IF t \in Dropped(b) THEN "OFFLINE" ELSE b.state[t]
  BY <1>12 DEF newState
<1>14. /\ \A t \in Dropped(b) : t \in Listed(b) /\ b.state[t] = "LEFT"
       /\ b.phaseCount = 0 => \A t \in Listed(b) : b.state[t] = "LEFT" => t \in Dropped(b)
       /\ b.phaseCount # 0 => Dropped(b) = {}
  BY DEF Dropped
<1>15. Listed(b) = Threads \ InState(b, "OFFLINE")
  BY DEF Sound
<1>16. Listed(e) = Threads \ InState(e, "OFFLINE")
  <2>1. Listed(e) = Listed(b) \ Dropped(b)
    BY <1>2, <1>12 DEF Listed
  <2>2. InState(e, "OFFLINE") = InState(b, "OFFLINE") \cup Dropped(b)
    BY <1>13, <1>14, <1>15 DEF InState
  <2> QED
    BY <1>15, <2>1, <2>2
<1>17. Counted(e)
  <2>1. InState(e, "RUNNING") = InState(b, "RUNNING")
    BY <1>13, <1>14 DEF InState
  <2>2. CASE b.phaseCount = 0
    <3>1. InState(e, "LEFT") = {}
      BY <1>13, <1>14, <1>15, <2>2 DEF InState
    <3> QED
      BY <1>3, <1>12, <2>1, <2>2, <3>1, FS_EmptySet DEF Sound, Counted, newLeft
  <2>3. CASE b.phaseCount # 0
    <3>1. InState(e, "LEFT") = InState(b, "LEFT")
      BY <1>13, <1>14, <2>3 DEF InState
    <3> QED
      BY <1>3, <1>12, <2>1, <2>3, <3>1 DEF Sound, Counted, newLeft
  <2> QED
    BY <2>2, <2>3
<1>18. Armed(e)
  BY <1>12, <1>13, <1>14 DEF Sound, Armed
<1>19. Placed(e)
  <2> SUFFICES ASSUME NEW t \in Threads, e.state[t] \in {"RUNNING", "LEFT"}
               PROVE  e.lastIdx[t] <= Len(list) /\ list[e.lastIdx[t]] = t
    BY <1>12 DEF Placed
  <2>1. t \notin Dropped(b) /\ b.state[t] \in {"RUNNING", "LEFT"}
    BY <1>13
  <2>2. PICK p \in 1 .. Len(list) : list[p] = t
    <3>1. t \in Listed(b) \ Dropped(b)
      BY <1>15, <2>1 DEF InState
    <3> QED
      BY <1>2, <3>1
  <2>3. b.lastIdx[t] \in 1 .. Len(b.runList) /\ b.runList[b.lastIdx[t]] = t
    BY <1>3, <1>4, <2>1 DEF Sound, Placed, BarrierType
  <2>4. e.lastIdx[t] = p
    <3>1. CASE b.runList[p] = t
      <4>1. p \in 1 .. Len(b.runList)
        BY <1>2, <1>3
      <4>2. b.lastIdx[t] = p
        BY <1>3, <2>3, <3>1, <4>1 DEF Distinct
      <4> QED
        BY <1>8, <1>12, <2>2, <3>1, <4>2
    <3>2. CASE b.runList[p] # t
      BY <1>8, <1>12, <2>2, <3>2
    <3> QED
      BY <3>1, <3>2
  <2> QED
    BY <1>3, <2>2, <2>4
<1>20. RunnersExamined(e)
  <2>1. IsFiniteSet(InState(b, "RUNNING"))
    BY ThreadsAssumption, FS_Subset DEF InState
  <2>2. InState(b, "RUNNING") = {}
    BY <1>3, <2>1, FS_EmptySet DEF Sound, Counted
  <2> QED
    BY <1>2, <1>12, <1>13, <2>2 DEF RunnersExamined, InState
<1>21. Distinct(e) /\ e.curThreadIdx <= Len(e.runList)
  BY <1>2, <1>3, <1>12 DEF Distinct
<1>22. \A t \in Threads : e.state[t] = "WAITING" <=> b.state[t] = "WAITING"
  BY <1>13, <1>14
<1> QED
  BY <1>6, <1>11, <1>12, <1>16, <1>17, <1>18, <1>19, <1>20, <1>21, <1>22 DEF Sound

-----------------------------------------------------------------------------
(* tryWakeNext *)

\* Between phases, checkRunList finds nothing more to do when it is called a
\* second time.
LEMMA RunListAgain ==
    ASSUME NEW b, Sound(b), Drained(b)
    PROVE  /\ checkRunList(b).curThreadIdx = b.curThreadIdx
           /\ \A t \in Threads : checkRunList(b).state[t] = b.state[t]
           /\ checkRunList(b).runList = b.runList
           /\ checkRunList(b).phaseCount = b.phaseCount
<1>1. /\ b \in BarrierType /\ Distinct(b) /\ b.curThreadIdx <= Len(b.runList)
      /\ b.curThreadIdx \in Nat /\ b.runningThreads \in Int /\ Len(b.runList) \in Nat
  BY DEF Sound, BarrierType
<1>2. WaitingUpTo(b, b.curThreadIdx) = {}
  BY <1>1 DEF WaitingUpTo
<1>3. LoopEnds(b, b.curThreadIdx)
  BY <1>1, <1>2, FS_EmptySet DEF LoopEnds, Drained
<1>4. StopIdx(b) = b.curThreadIdx
  BY <1>1, <1>3, StopFirst
<1>5. Woken(b) = {}
  BY <1>2, <1>4 DEF Woken
<1> QED
  BY <1>1, <1>4, <1>5, RunListFields

\* After tryWakeNext no slot is wasted and no finished phase is left open.
SlotsUsed(b) ==
    \A p \in 1 .. Len(b.runList) :
        b.state[b.runList[p]] = "WAITING" =>
            IF p > b.curThreadIdx
            THEN b.runningThreads = parallelThreads
            ELSE b.runningThreads > 0

\* What tryWakeNext establishes, whether or not it ends a phase.
LEMMA WakeNextSound ==
    ASSUME NEW b, NEW sy, Sound(b), SyncedWait(b, sy), NEW n \in tryWakeNext(b)
    PROVE  /\ Sound(n)
           /\ SlotsUsed(n)
           /\ SyncedWait(n, IF n.phaseCount # b.phaseCount THEN {} ELSE sy)
           /\ n.phaseCount # b.phaseCount => PhaseOver(checkRunList(b))
<1> DEFINE c == checkRunList(b)
<1>1. PICK e \in checkEndPhase(c) : n = checkRunList(e)
  BY DEF tryWakeNext
<1>2. /\ b \in BarrierType /\ Distinct(b) /\ b.curThreadIdx <= Len(b.runList)
      /\ b.runList \in Seq(Threads) /\ b.curThreadIdx \in Nat /\ Len(b.runList) \in Nat
  BY DEF Sound, BarrierType
<1>3. c.runList = b.runList /\ c.phaseCount = b.phaseCount
  BY <1>2, RunListFields
<1>4. /\ Sound(c)
      /\ Drained(c)
      /\ \A p \in 1 .. Len(b.runList) :
            b.state[b.runList[p]] = "WAITING" =>
                c.state[b.runList[p]] =
                    IF p > b.curThreadIdx /\ p <= c.curThreadIdx THEN "RUNNING" ELSE "WAITING"
      /\ \A t \in Threads : b.state[t] # "WAITING" => c.state[t] = b.state[t]
  BY RunListSound
<1>5. c.curThreadIdx \in Nat /\ c.curThreadIdx >= b.curThreadIdx
  <2>1. c.curThreadIdx = StopIdx(b)
    BY <1>2, RunListFields
  <2> QED
    BY <1>2, <2>1, StopFirst
<1> HIDE DEF c
<1>6. CASE PhaseOver(c)
  <2>1. /\ Sound(e)
        /\ e.curThreadIdx = 0
        /\ e.phaseCount # c.phaseCount
    BY <1>1, <1>4, <1>6, PhaseEndSound
  <2>2. /\ e \in BarrierType /\ Distinct(e) /\ e.curThreadIdx <= Len(e.runList)
        /\ e.runList \in Seq(Threads)
    BY <2>1 DEF Sound, BarrierType
  <2>3. n.runList = e.runList /\ n.phaseCount = e.phaseCount
    BY <1>1, <2>2, RunListFields
  <2>4. /\ Sound(n)
        /\ Drained(n)
        /\ \A p \in 1 .. Len(e.runList) :
              e.state[e.runList[p]] = "WAITING" =>
                  n.state[e.runList[p]] =
                      IF p > e.curThreadIdx /\ p <= n.curThreadIdx THEN "RUNNING" ELSE "WAITING"
        /\ \A t \in Threads : e.state[t] # "WAITING" => n.state[t] = e.state[t]
    BY <1>1, <2>1, RunListSound
  <2>5. ASSUME NEW p \in 1 .. Len(n.runList), n.state[n.runList[p]] = "WAITING"
        PROVE  p > n.curThreadIdx
    <3>1. n.runList[p] \in Threads
      BY <2>2, <2>3
    <3>2. n.curThreadIdx \in Nat
      BY <2>4 DEF Sound, BarrierType
    <3> QED
      BY <2>1, <2>3, <2>4, <2>5, <3>1, <3>2
  <2>6. SlotsUsed(n)
    <3>1. /\ n.curThreadIdx \in Nat /\ n.runningThreads \in Int
          /\ n.runningThreads <= parallelThreads /\ Len(n.runList) \in Nat
      BY <2>4 DEF Sound, BarrierType, Counted
    <3> QED
      BY <2>4, <2>5, <3>1, ParallelAssumption DEF SlotsUsed, Drained
  <2>7. SyncedWait(n, {})
    <3>1. n.curThreadIdx \in Nat
      BY <2>4 DEF Sound, BarrierType
    <3> QED
      BY <2>5, <3>1 DEF SyncedWait
  <2> QED
    BY <1>3, <1>6, <2>1, <2>3, <2>4, <2>6, <2>7 DEF c
<1>7. CASE ~ PhaseOver(c)
  <2>1. n = checkRunList(c)
    BY <1>1, <1>7 DEF checkEndPhase
  <2>2. /\ n.curThreadIdx = c.curThreadIdx
        /\ \A t \in Threads : n.state[t] = c.state[t]
        /\ n.runList = b.runList
        /\ n.phaseCount = b.phaseCount
    BY <1>3, <1>4, <2>1, RunListAgain
  <2>3. Sound(n) /\ Drained(n)
    BY <1>4, <2>1, RunListSound
  <2>4. SyncedWait(n, sy)
    <3>1. ASSUME NEW p \in 1 .. Len(b.runList), n.state[b.runList[p]] = "WAITING"
          PROVE  p <= n.curThreadIdx <=> b.runList[p] \in sy
      <4>1. b.runList[p] \in Threads
        BY <1>2
      <4>2. b.state[b.runList[p]] = "WAITING" /\ (p <= b.curThreadIdx \/ p > c.curThreadIdx)
        BY <1>2, <1>4, <1>5, <2>2, <3>1, <4>1
      <4> QED
        BY <1>2, <1>5, <2>2, <4>2 DEF SyncedWait
    <3>2. sy \subseteq InState(n, "WAITING")
      <4> SUFFICES ASSUME NEW t \in sy PROVE t \in Threads /\ n.state[t] = "WAITING"
        BY DEF InState
      <4>1. t \in Threads /\ b.state[t] = "WAITING"
        BY DEF SyncedWait, InState
      <4>2. PICK p \in 1 .. Len(b.runList) : b.runList[p] = t
        BY <4>1 DEF Sound, Listed, InState
      <4>3. p <= b.curThreadIdx
        BY <4>1, <4>2 DEF SyncedWait
      <4> QED
        BY <1>2, <1>4, <2>2, <4>1, <4>2, <4>3
    <3> QED
      BY <2>2, <3>1, <3>2 DEF SyncedWait
  <2>5. SlotsUsed(n)
    <3>1. /\ n.curThreadIdx \in Nat /\ n.runningThreads \in Int /\ Len(n.runList) \in Nat
          /\ n.runningThreads <= parallelThreads
          /\ n.runningThreads = Cardinality(InState(n, "RUNNING"))
          /\ n.leftThreads = Cardinality(InState(n, "LEFT"))
          /\ n.runList \in Seq(Threads) /\ Distinct(n)
          /\ n \in BarrierType
      BY <2>3 DEF Sound, BarrierType, Counted
    <3>2. n.runningThreads \in Nat
      <4>1. IsFiniteSet(InState(n, "RUNNING"))
        BY ThreadsAssumption, FS_Subset DEF InState
      <4> QED
        BY <3>1, <4>1, FS_CardinalityType
    <3> SUFFICES ASSUME NEW p \in 1 .. Len(n.runList), n.state[n.runList[p]] = "WAITING",
                        p <= n.curThreadIdx
                 PROVE  n.runningThreads > 0
      BY <2>3, <3>1, <3>2, ParallelAssumption DEF SlotsUsed, Drained
    <3>3. CASE n.curThreadIdx # Len(n.runList)
      BY <2>3, <3>1, <3>3, ParallelAssumption DEF Drained
    <3>4. CASE n.curThreadIdx = Len(n.runList) /\ n.runningThreads = 0
      <4>1. c.runningThreads = n.runningThreads /\ c.leftThreads = n.leftThreads
        <5>1. InState(c, "RUNNING") = InState(n, "RUNNING") /\ InState(c, "LEFT") = InState(n, "LEFT")
          BY <2>2 DEF InState
        <5> QED
          BY <1>4, <3>1, <5>1 DEF Sound, Counted
      <4>2. n.leftThreads = Len(n.runList)
        BY <1>3, <1>7, <2>2, <3>4, <4>1 DEF PhaseOver
      <4>3. Cardinality(InState(n, "LEFT")) = Cardinality(Listed(n))
        BY <3>1, <4>2, ListFits
      <4>4. IsFiniteSet(Listed(n))
        BY <3>1, DistinctLength DEF Listed, Distinct
      <4>5. InState(n, "LEFT") \subseteq Listed(n)
        BY <2>3 DEF Sound, InState
      <4>6. InState(n, "LEFT") = Listed(n)
        BY <4>3, <4>4, <4>5, FS_Subset
      <4> QED
        BY <3>1, <4>6 DEF Listed, InState
    <3> QED
      BY <3>2, <3>3, <3>4
  <2> QED
    BY <2>2, <2>3, <2>4, <2>5
<1> QED
  BY <1>6, <1>7

\* When checkRunList finds the phase over, nobody runs and everybody who
\* waits was examined before.
LEMMA PhaseOverMeans ==
    ASSUME NEW b, Sound(b), PhaseOver(checkRunList(b))
    PROVE  /\ InState(b, "RUNNING") = {}
           /\ \A p \in 1 .. Len(b.runList) :
                 b.state[b.runList[p]] = "WAITING" => p <= b.curThreadIdx
<1> DEFINE c == checkRunList(b)
<1>1. /\ b \in BarrierType /\ Distinct(b) /\ b.curThreadIdx <= Len(b.runList)
      /\ b.runList \in Seq(Threads) /\ b.curThreadIdx \in Nat /\ Len(b.runList) \in Nat
  BY DEF Sound, BarrierType
<1>2. c.runList = b.runList
  BY <1>1, RunListFields
<1>3. /\ Sound(c)
      /\ \A p \in 1 .. Len(b.runList) :
            b.state[b.runList[p]] = "WAITING" =>
                c.state[b.runList[p]] =
                    IF p > b.curThreadIdx /\ p <= c.curThreadIdx THEN "RUNNING" ELSE "WAITING"
      /\ \A t \in Threads : b.state[t] # "WAITING" => c.state[t] = b.state[t]
  BY RunListSound
<1>4. InState(c, "RUNNING") = {}
  <2>1. IsFiniteSet(InState(c, "RUNNING"))
    BY ThreadsAssumption, FS_Subset DEF InState
  <2>2. Cardinality(InState(c, "RUNNING")) = 0
    BY <1>3 DEF Sound, Counted, PhaseOver
  <2> QED
    BY <2>1, <2>2, FS_EmptySet
<1>5. c.curThreadIdx = Len(b.runList)
  BY <1>2 DEF PhaseOver
<1> HIDE DEF c
<1>6. InState(b, "RUNNING") = {}
  BY <1>3, <1>4 DEF InState
<1>7. ASSUME NEW p \in 1 .. Len(b.runList), b.state[b.runList[p]] = "WAITING"
      PROVE  p <= b.curThreadIdx
  <2>1. b.runList[p] \in Threads
    BY <1>1
  <2>2. c.state[b.runList[p]] # "RUNNING"
    BY <1>4, <2>1 DEF InState
  <2> QED
    BY <1>1, <1>3, <1>5, <1>7, <2>2
<1> QED
  BY <1>6, <1>7

-----------------------------------------------------------------------------
(* join, leave and sync *)

\* join of a thread that is OFFLINE.
NewJoin(b, t) == ToWaiting([b EXCEPT !.runList = Append(@, t)], t)

\* join of an OFFLINE thread, before tryWakeNext, keeps the record sound.
LEMMA NewJoinSound ==
    ASSUME NEW b, NEW sy, Sound(b), SyncedWait(b, sy),
           NEW t \in Threads, b.state[t] = "OFFLINE"
    PROVE  LET n == NewJoin(b, t)
           IN  /\ Sound(n)
               /\ SyncedWait(n, sy \ {t})
               /\ n.phaseCount = b.phaseCount
               /\ \E p \in 1 .. Len(n.runList) : n.runList[p] = t /\ p > n.curThreadIdx
               /\ n.state[t] = "WAITING"
<1> DEFINE n == NewJoin(b, t)
<1>1. /\ b \in BarrierType /\ Distinct(b) /\ b.curThreadIdx <= Len(b.runList)
      /\ b.runList \in Seq(Threads) /\ b.curThreadIdx \in Nat /\ Len(b.runList) \in Nat
  BY DEF Sound, BarrierType
<1>2. n = [b EXCEPT !.runList = Append(b.runList, t), !.state = [b.state EXCEPT ![t] = "WAITING"],
                    !.futexWord = [b.futexWord EXCEPT ![t] = 1]]
  BY DEF NewJoin, ToWaiting, BarrierType
<1> HIDE DEF n
<1>3. n \in BarrierType
  <2>1. /\ Append(b.runList, t) \in Seq(Threads)
        /\ [b.state EXCEPT ![t] = "WAITING"] \in [Threads -> States]
        /\ [b.futexWord EXCEPT ![t] = 1] \in [Threads -> {0, 1}]
    BY <1>1 DEF BarrierType, States
  <2> QED
    BY <1>1, <1>2, <2>1 DEF BarrierType
<1>4. /\ n.runList = Append(b.runList, t)
      /\ \A u \in Threads : /\ n.state[u] = IF u = t THEN "WAITING" ELSE b.state[u]
                            /\ n.futexWord[u] = IF u = t THEN 1 ELSE b.futexWord[u]
                            /\ n.lastIdx[u] = b.lastIdx[u]
      /\ n.curThreadIdx = b.curThreadIdx
      /\ n.runningThreads = b.runningThreads
      /\ n.leftThreads = b.leftThreads
      /\ n.phaseCount = b.phaseCount
  BY <1>1, <1>2 DEF BarrierType
<1>5. /\ Len(n.runList) = Len(b.runList) + 1
      /\ n.runList[Len(b.runList) + 1] = t
      /\ \A p \in 1 .. Len(b.runList) : n.runList[p] = b.runList[p]
      /\ \A p \in 1 .. Len(n.runList) : p \in 1 .. Len(b.runList) \/ p = Len(b.runList) + 1
      /\ \A p \in 1 .. Len(b.runList) : p \in 1 .. Len(n.runList)
      /\ Len(b.runList) + 1 \in 1 .. Len(n.runList)
  BY <1>1, <1>4
<1>6. \A p \in 1 .. Len(b.runList) : b.runList[p] # t
  BY DEF Sound, Listed, InState
<1>7. Distinct(n)
  <2> SUFFICES ASSUME NEW p \in 1 .. Len(n.runList), NEW q \in 1 .. Len(n.runList),
                      n.runList[p] = n.runList[q]
               PROVE  p = q
    BY DEF Distinct
  <2>1. CASE p \in 1 .. Len(b.runList) /\ q \in 1 .. Len(b.runList)
    BY <1>1, <1>5, <2>1 DEF Distinct
  <2>2. CASE p = Len(b.runList) + 1 \/ q = Len(b.runList) + 1
    BY <1>5, <1>6, <2>2
  <2> QED
    BY <1>5, <2>1, <2>2
<1>8. Listed(n) = Threads \ InState(n, "OFFLINE")
  <2>1. Listed(n) = Listed(b) \cup {t}
    <3>1. \A u : u \in Listed(n) => u \in Listed(b) \cup {t}
      BY <1>5 DEF Listed
    <3>2. \A u : u \in Listed(b) \cup {t} => u \in Listed(n)
      BY <1>5 DEF Listed
    <3> QED
      BY <3>1, <3>2
  <2>2. InState(n, "OFFLINE") = InState(b, "OFFLINE") \ {t}
    BY <1>4 DEF InState
  <2> QED
    BY <2>1, <2>2 DEF Sound
<1>9. Counted(n)
  <2>1. InState(n, "RUNNING") = InState(b, "RUNNING") /\ InState(n, "LEFT") = InState(b, "LEFT")
    BY <1>4 DEF InState
  <2> QED
    BY <1>4, <2>1 DEF Sound, Counted
<1>10. Armed(n)
  BY <1>4 DEF Sound, Armed
<1>11. Placed(n)
  <2> SUFFICES ASSUME NEW u \in Threads, n.state[u] \in {"RUNNING", "LEFT"}
               PROVE  n.lastIdx[u] <= Len(n.runList) /\ n.runList[n.lastIdx[u]] = u
    BY DEF Placed
  <2>1. /\ n.lastIdx[u] = b.lastIdx[u] /\ b.lastIdx[u] \in Nat /\ b.lastIdx[u] >= 1
        /\ b.lastIdx[u] <= Len(b.runList) /\ b.runList[b.lastIdx[u]] = u
    BY <1>1, <1>4, ListFits DEF Sound, Placed, BarrierType
  <2> QED
    BY <1>1, <1>5, <2>1
<1>12. RunnersExamined(n)
  BY <1>1, <1>4, <1>5 DEF Sound, RunnersExamined
<1>13. SyncedWait(n, sy \ {t})
  <2>1. sy \ {t} \subseteq InState(n, "WAITING")
    BY <1>4 DEF SyncedWait, InState
  <2> QED
    BY <1>1, <1>4, <1>5, <1>6, <2>1 DEF SyncedWait
<1> QED
  BY <1>1, <1>3, <1>4, <1>5, <1>7, <1>8, <1>9, <1>10, <1>11, <1>12, <1>13 DEF Sound, n

\* leave, before tryWakeNext.
Left(b, t) ==
    [b EXCEPT !.state[t] = "LEFT", !.leftThreads = @ + 1, !.runningThreads = @ - 1]

\* leave, before tryWakeNext, keeps it sound.
LEMMA LeftSound ==
    ASSUME NEW b, NEW sy, Sound(b), SyncedWait(b, sy),
           NEW t \in Threads, b.state[t] = "RUNNING"
    PROVE  LET n == Left(b, t)
           IN  /\ Sound(n)
               /\ SyncedWait(n, sy)
               /\ n.phaseCount = b.phaseCount /\ n.runList = b.runList
               /\ n.curThreadIdx = b.curThreadIdx
               /\ \A u \in Threads : n.state[u] = IF u = t THEN "LEFT" ELSE b.state[u]
<1> DEFINE n == Left(b, t)
<1>1. /\ b \in BarrierType /\ Distinct(b) /\ b.curThreadIdx <= Len(b.runList)
      /\ b.runList \in Seq(Threads) /\ b.curThreadIdx \in Nat /\ Len(b.runList) \in Nat
      /\ b.runningThreads \in Int /\ b.leftThreads \in Int
  BY DEF Sound, BarrierType
<1>2. n = [b EXCEPT !.state = [b.state EXCEPT ![t] = "LEFT"],
                    !.leftThreads = b.leftThreads + 1, !.runningThreads = b.runningThreads - 1]
  BY DEF Left, BarrierType
<1> HIDE DEF n
<1>3. n \in BarrierType
  <2>1. /\ [b.state EXCEPT ![t] = "LEFT"] \in [Threads -> States]
        /\ b.leftThreads + 1 \in Int /\ b.runningThreads - 1 \in Int
    BY <1>1 DEF BarrierType, States
  <2> QED
    BY <1>1, <1>2, <2>1 DEF BarrierType
<1>4. /\ n.runList = b.runList
      /\ \A u \in Threads : n.state[u] = IF u = t THEN "LEFT" ELSE b.state[u]
      /\ n.futexWord = b.futexWord
      /\ n.lastIdx = b.lastIdx
      /\ n.curThreadIdx = b.curThreadIdx
      /\ n.runningThreads = b.runningThreads - 1
      /\ n.leftThreads = b.leftThreads + 1
      /\ n.phaseCount = b.phaseCount
  BY <1>1, <1>2 DEF BarrierType
<1>5. Listed(n) = Threads \ InState(n, "OFFLINE")
  <2>1. InState(n, "OFFLINE") = InState(b, "OFFLINE") /\ Listed(n) = Listed(b)
    BY <1>4 DEF InState, Listed
  <2> QED
    BY <2>1 DEF Sound
<1>6. Counted(n)
  <2>1. InState(n, "RUNNING") = InState(b, "RUNNING") \ {t} /\ t \in InState(b, "RUNNING")
    BY <1>4 DEF InState
  <2>2. InState(n, "LEFT") = InState(b, "LEFT") \cup {t} /\ t \notin InState(b, "LEFT")
    BY <1>4 DEF InState
  <2>3. IsFiniteSet(InState(b, "RUNNING")) /\ IsFiniteSet(InState(b, "LEFT"))
    BY ThreadsAssumption, FS_Subset DEF InState
  <2>4. Cardinality(InState(n, "RUNNING")) = Cardinality(InState(b, "RUNNING")) - 1
    BY <2>1, <2>3, FS_RemoveElement
  <2>5. Cardinality(InState(n, "LEFT")) = Cardinality(InState(b, "LEFT")) + 1
    BY <2>2, <2>3, FS_AddElement
  <2> QED
    BY <1>1, <1>4, <2>4, <2>5, ParallelAssumption DEF Sound, Counted
<1>7. Armed(n) /\ Placed(n) /\ Distinct(n) /\ RunnersExamined(n)
  BY SMTT(30), <1>1, <1>4 DEF Sound, Armed, Placed, Distinct, RunnersExamined
<1>8. SyncedWait(n, sy)
  BY <1>1, <1>4 DEF SyncedWait, InState
<1> QED
  BY <1>1, <1>3, <1>4, <1>5, <1>6, <1>7, <1>8 DEF Sound, n

\* sync, before tryWakeNext.
Synced(b, t) == [ToWaiting(b, t) EXCEPT !.runningThreads = @ - 1]

\* sync, before tryWakeNext, keeps it sound.
LEMMA SyncedSound ==
    ASSUME NEW b, NEW sy, Sound(b), SyncedWait(b, sy),
           NEW t \in Threads, b.state[t] = "RUNNING"
    PROVE  LET n == Synced(b, t)
           IN  /\ Sound(n)
               /\ SyncedWait(n, sy \cup {t})
               /\ n.phaseCount = b.phaseCount /\ n.runList = b.runList
               /\ n.curThreadIdx = b.curThreadIdx
               /\ \A u \in Threads : n.state[u] = IF u = t THEN "WAITING" ELSE b.state[u]
<1> DEFINE n == Synced(b, t)
<1>1. /\ b \in BarrierType /\ Distinct(b) /\ b.curThreadIdx <= Len(b.runList)
      /\ b.runList \in Seq(Threads) /\ b.curThreadIdx \in Nat /\ Len(b.runList) \in Nat
      /\ b.runningThreads \in Int
  BY DEF Sound, BarrierType
<1>2. n = [b EXCEPT !.state = [b.state EXCEPT ![t] = "WAITING"],
                    !.futexWord = [b.futexWord EXCEPT ![t] = 1],
                    !.runningThreads = b.runningThreads - 1]
  BY DEF Synced, ToWaiting, BarrierType
<1> HIDE DEF n
<1>3. n \in BarrierType
  <2>1. /\ [b.state EXCEPT ![t] = "WAITING"] \in [Threads -> States]
        /\ [b.futexWord EXCEPT ![t] = 1] \in [Threads -> {0, 1}]
        /\ b.runningThreads - 1 \in Int
    BY <1>1 DEF BarrierType, States
  <2> QED
    BY <1>1, <1>2, <2>1 DEF BarrierType
<1>4. /\ n.runList = b.runList
      /\ \A u \in Threads : /\ n.state[u] = IF u = t THEN "WAITING" ELSE b.state[u]
                            /\ n.futexWord[u] = IF u = t THEN 1 ELSE b.futexWord[u]
      /\ n.lastIdx = b.lastIdx
      /\ n.curThreadIdx = b.curThreadIdx
      /\ n.runningThreads = b.runningThreads - 1
      /\ n.leftThreads = b.leftThreads
      /\ n.phaseCount = b.phaseCount
  BY <1>1, <1>2 DEF BarrierType
<1>5. Listed(n) = Threads \ InState(n, "OFFLINE")
  <2>1. InState(n, "OFFLINE") = InState(b, "OFFLINE") /\ Listed(n) = Listed(b)
    BY <1>4 DEF InState, Listed
  <2> QED
    BY <2>1 DEF Sound
<1>6. Counted(n)
  <2>1. InState(n, "RUNNING") = InState(b, "RUNNING") \ {t} /\ t \in InState(b, "RUNNING")
    BY <1>4 DEF InState
  <2>2. InState(n, "LEFT") = InState(b, "LEFT")
    BY <1>4 DEF InState
  <2>3. IsFiniteSet(InState(b, "RUNNING"))
    BY ThreadsAssumption, FS_Subset DEF InState
  <2>4. Cardinality(InState(n, "RUNNING")) = Cardinality(InState(b, "RUNNING")) - 1
    BY <2>1, <2>3, FS_RemoveElement
  <2> QED
    BY <1>1, <1>4, <2>2, <2>4, ParallelAssumption DEF Sound, Counted
<1>7. Armed(n) /\ Placed(n) /\ Distinct(n) /\ RunnersExamined(n)
  BY <1>1, <1>4 DEF Sound, Armed, Placed, Distinct, RunnersExamined
<1>8. SyncedWait(n, sy \cup {t})
  <2>1. \A p \in 1 .. Len(b.runList) : b.runList[p] = t => p <= b.curThreadIdx
    BY DEF Sound, RunnersExamined
  <2> QED
    BY <1>1, <1>4, <2>1 DEF SyncedWait, InState
<1> QED
  BY <1>1, <1>3, <1>4, <1>5, <1>6, <1>7, <1>8 DEF Sound, n

\* join of a thread that LEFT.
Rejoin(b, t) == ToWaiting(Reschedule([b EXCEPT !.leftThreads = @ - 1], t), t)

\* What a rejoin does to each field: if t has been examined in this phase, t
\* and the last thread examined trade places, and t is ahead of it again.
LEMMA RejoinFields ==
    ASSUME NEW b, Sound(b), NEW t \in Threads, b.state[t] = "LEFT"
    PROVE  LET n == Rejoin(b, t)
               cur == b.curThreadIdx
               last == b.lastIdx[t]
               sw == [p \in 1 .. Len(b.runList) |->
                         IF cur >= last /\ p = cur THEN last
                         ELSE IF cur >= last /\ p = last THEN cur ELSE p]
           IN  /\ n \in BarrierType
               /\ last \in 1 .. Len(b.runList) /\ b.runList[last] = t
               /\ Len(n.runList) = Len(b.runList)
               /\ \A p \in 1 .. Len(b.runList) : n.runList[p] = b.runList[sw[p]]
               /\ n.curThreadIdx = IF cur >= last THEN cur - 1 ELSE cur
               /\ n.runningThreads = b.runningThreads
               /\ n.leftThreads = b.leftThreads - 1
               /\ n.phaseCount = b.phaseCount
               /\ \A u \in Threads :
                     /\ n.state[u] = IF u = t THEN "WAITING" ELSE b.state[u]
                     /\ n.futexWord[u] = IF u = t THEN 1 ELSE b.futexWord[u]
                     /\ u # t => n.lastIdx[u] = IF cur >= last /\ u = b.runList[cur]
                                                THEN last ELSE b.lastIdx[u]
<1> DEFINE n == Rejoin(b, t)
           cur == b.curThreadIdx
           last == b.lastIdx[t]
           other == b.runList[cur]
<1>1. /\ b \in BarrierType /\ Distinct(b) /\ cur <= Len(b.runList)
      /\ b.runList \in Seq(Threads) /\ cur \in Nat /\ Len(b.runList) \in Nat
      /\ b.leftThreads \in Int
  BY DEF Sound, BarrierType
<1>2. last \in 1 .. Len(b.runList) /\ b.runList[last] = t
  BY <1>1, ListFits DEF Sound, Placed, BarrierType
<1>3. /\ [b.state EXCEPT ![t] = "WAITING"] \in [Threads -> States]
      /\ [b.futexWord EXCEPT ![t] = 1] \in [Threads -> {0, 1}]
      /\ b.leftThreads - 1 \in Int
  BY <1>1 DEF BarrierType, States
<1>4. CASE cur >= last
  <2>1. cur \in 1 .. Len(b.runList) /\ other \in Threads
    BY <1>1, <1>2, <1>4
  <2> DEFINE list == [[b.runList EXCEPT ![last] = other] EXCEPT ![cur] = t]
             places == [[b.lastIdx EXCEPT ![other] = last] EXCEPT ![t] = cur]
  <2>2. n = [b EXCEPT !.state = [b.state EXCEPT ![t] = "WAITING"],
                      !.futexWord = [b.futexWord EXCEPT ![t] = 1],
                      !.leftThreads = b.leftThreads - 1,
                      !.curThreadIdx = cur - 1,
                      !.runList = list, !.lastIdx = places]
    <3> DEFINE d == [b EXCEPT !.leftThreads = b.leftThreads - 1]
               r == [b EXCEPT !.leftThreads = b.leftThreads - 1, !.curThreadIdx = cur - 1,
                              !.runList = list, !.lastIdx = places]
    <3>1. d.lastIdx = b.lastIdx /\ d.curThreadIdx = cur /\ d.runList = b.runList
      BY <1>1 DEF BarrierType
    <3>2. Reschedule(d, t) =
              [d EXCEPT !.curThreadIdx = cur - 1, !.runList[last] = other, !.runList[cur] = t,
                        !.lastIdx[other] = last, !.lastIdx[t] = cur]
      BY <1>4, <3>1 DEF Reschedule
    <3>3. [d EXCEPT !.curThreadIdx = cur - 1, !.runList[last] = other, !.runList[cur] = t,
                    !.lastIdx[other] = last, !.lastIdx[t] = cur] = r
      BY <1>1 DEF BarrierType
    <3>4. n = ToWaiting(r, t)
      BY <1>1, <3>2, <3>3 DEF Rejoin, BarrierType
    <3>5. r.state = b.state /\ r.futexWord = b.futexWord
      BY <1>1 DEF BarrierType
    <3>6. ToWaiting(r, t) = [r EXCEPT !.state = [b.state EXCEPT ![t] = "WAITING"],
                                      !.futexWord = [b.futexWord EXCEPT ![t] = 1]]
      BY <1>1, <3>5 DEF ToWaiting, BarrierType
    <3>7. [r EXCEPT !.state = [b.state EXCEPT ![t] = "WAITING"],
                    !.futexWord = [b.futexWord EXCEPT ![t] = 1]] =
          [b EXCEPT !.state = [b.state EXCEPT ![t] = "WAITING"],
                    !.futexWord = [b.futexWord EXCEPT ![t] = 1],
                    !.leftThreads = b.leftThreads - 1,
                    !.curThreadIdx = cur - 1,
                    !.runList = list, !.lastIdx = places]
      <4> HIDE DEF list, places
      <4> QED
        BY <1>1 DEF BarrierType
    <3> QED
      BY <3>4, <3>6, <3>7
  <2>3. /\ list \in Seq(Threads) /\ Len(list) = Len(b.runList)
        /\ \A p \in 1 .. Len(b.runList) :
              list[p] = IF p = cur THEN t ELSE IF p = last THEN other ELSE b.runList[p]
    BY <1>1, <1>2, <2>1
  <2>4. places \in [Threads -> 1 .. Cardinality(Threads)]
    <3>1. last \in 1 .. Cardinality(Threads) /\ cur \in 1 .. Cardinality(Threads)
      BY <1>1, <1>2, <2>1, ListFits
    <3> QED
      BY <1>1, <3>1 DEF BarrierType
  <2>5. \A u \in Threads : u # t => places[u] = IF u = other THEN last ELSE b.lastIdx[u]
    BY <1>1 DEF BarrierType
  <2>6. cur - 1 \in Nat
    BY <2>1
  <2> HIDE DEF list, places, n
  <2>7. n \in BarrierType
    BY <1>1, <1>3, <2>2, <2>3, <2>4, <2>6 DEF BarrierType
  <2>8. /\ n.runList = list /\ n.lastIdx = places /\ n.curThreadIdx = cur - 1
        /\ n.runningThreads = b.runningThreads
        /\ n.leftThreads = b.leftThreads - 1
        /\ n.phaseCount = b.phaseCount
        /\ \A u \in Threads :
              /\ n.state[u] = IF u = t THEN "WAITING" ELSE b.state[u]
              /\ n.futexWord[u] = IF u = t THEN 1 ELSE b.futexWord[u]
    BY <1>1, <2>2 DEF BarrierType
  <2> QED
    BY <1>2, <1>4, <2>1, <2>3, <2>5, <2>7, <2>8 DEF n
<1>5. CASE ~ (cur >= last)
  <2>1. n = [b EXCEPT !.state = [b.state EXCEPT ![t] = "WAITING"],
                      !.futexWord = [b.futexWord EXCEPT ![t] = 1],
                      !.leftThreads = b.leftThreads - 1]
    <3> DEFINE d == [b EXCEPT !.leftThreads = b.leftThreads - 1]
    <3>1. /\ d.lastIdx = b.lastIdx /\ d.curThreadIdx = cur
          /\ d.state = b.state /\ d.futexWord = b.futexWord
      BY <1>1 DEF BarrierType
    <3>2. Reschedule(d, t) = d
      BY <1>5, <3>1 DEF Reschedule
    <3>3. n = ToWaiting(d, t)
      BY <1>1, <3>2 DEF Rejoin, BarrierType
    <3>4. ToWaiting(d, t) = [d EXCEPT !.state = [b.state EXCEPT ![t] = "WAITING"],
                                      !.futexWord = [b.futexWord EXCEPT ![t] = 1]]
      BY <1>1, <3>1 DEF ToWaiting, BarrierType
    <3>5. [d EXCEPT !.state = [b.state EXCEPT ![t] = "WAITING"],
                    !.futexWord = [b.futexWord EXCEPT ![t] = 1]] =
          [b EXCEPT !.state = [b.state EXCEPT ![t] = "WAITING"],
                    !.futexWord = [b.futexWord EXCEPT ![t] = 1],
                    !.leftThreads = b.leftThreads - 1]
      BY <1>1 DEF BarrierType
    <3> QED
      BY <3>3, <3>4, <3>5
  <2> HIDE DEF n
  <2>2. n \in BarrierType
    BY <1>1, <1>3, <2>1 DEF BarrierType
  <2>3. /\ n.runList = b.runList /\ n.lastIdx = b.lastIdx /\ n.curThreadIdx = cur
        /\ n.runningThreads = b.runningThreads
        /\ n.leftThreads = b.leftThreads - 1
        /\ n.phaseCount = b.phaseCount
        /\ \A u \in Threads :
              /\ n.state[u] = IF u = t THEN "WAITING" ELSE b.state[u]
              /\ n.futexWord[u] = IF u = t THEN 1 ELSE b.futexWord[u]
    BY <1>1, <2>1 DEF BarrierType
  <2> QED
    BY <1>1, <1>2, <1>5, <2>2, <2>3 DEF n
<1> QED
  BY <1>4, <1>5

\* join of a thread that LEFT, before tryWakeNext: it waits, at a place after
\* those examined in this phase.
LEMMA RejoinSound ==
    ASSUME NEW b, NEW sy, Sound(b), SyncedWait(b, sy),
           NEW t \in Threads, b.state[t] = "LEFT"
    PROVE  LET n == Rejoin(b, t)
           IN  /\ Sound(n)
               /\ SyncedWait(n, sy \ {t})
               /\ n.phaseCount = b.phaseCount
               /\ \E p \in 1 .. Len(n.runList) : n.runList[p] = t /\ p > n.curThreadIdx
               /\ n.state[t] = "WAITING"
<1> DEFINE n == Rejoin(b, t)
           cur == b.curThreadIdx
           last == b.lastIdx[t]
           sw == [p \in 1 .. Len(b.runList) |->
                     IF cur >= last /\ p = cur THEN last
                     ELSE IF cur >= last /\ p = last THEN cur ELSE p]
<1>1. /\ b \in BarrierType /\ Distinct(b) /\ cur <= Len(b.runList)
      /\ b.runList \in Seq(Threads) /\ cur \in Nat /\ Len(b.runList) \in Nat
  BY DEF Sound, BarrierType
<1>2. /\ n \in BarrierType
      /\ last \in 1 .. Len(b.runList) /\ b.runList[last] = t
      /\ Len(n.runList) = Len(b.runList)
      /\ \A p \in 1 .. Len(b.runList) : n.runList[p] = b.runList[sw[p]]
      /\ n.curThreadIdx = IF cur >= last THEN cur - 1 ELSE cur
      /\ n.runningThreads = b.runningThreads
      /\ n.leftThreads = b.leftThreads - 1
      /\ n.phaseCount = b.phaseCount
      /\ \A u \in Threads :
            /\ n.state[u] = IF u = t THEN "WAITING" ELSE b.state[u]
            /\ n.futexWord[u] = IF u = t THEN 1 ELSE b.futexWord[u]
            /\ u # t => n.lastIdx[u] = IF cur >= last /\ u = b.runList[cur]
                                       THEN last ELSE b.lastIdx[u]
  BY RejoinFields, SMTT(30)
<1> HIDE DEF n
<1>3. \A p \in 1 .. Len(b.runList) :
          /\ sw[p] \in 1 .. Len(b.runList)
          /\ sw[sw[p]] = p
  BY <1>1, <1>2
<1>4. \A p \in 1 .. Len(b.runList) :
          sw[p] = IF cur >= last /\ p = cur THEN last
                  ELSE IF cur >= last /\ p = last THEN cur ELSE p
  OBVIOUS
<1> HIDE DEF sw
<1>5. Distinct(n)
  <2> SUFFICES ASSUME NEW p \in 1 .. Len(b.runList), NEW q \in 1 .. Len(b.runList),
                      n.runList[p] = n.runList[q]
               PROVE  p = q
    BY <1>2 DEF Distinct
  <2>1. b.runList[sw[p]] = b.runList[sw[q]]
    BY <1>2
  <2>2. sw[p] = sw[q]
    BY <1>1, <1>3, <2>1 DEF Distinct
  <2> QED
    BY <1>3, <2>2
<1>6. Listed(n) = Threads \ InState(n, "OFFLINE")
  <2>1. Listed(n) = Listed(b)
    BY SMTT(30), <1>2, <1>3 DEF Listed
  <2>2. InState(n, "OFFLINE") = InState(b, "OFFLINE")
    BY <1>2 DEF InState
  <2> QED
    BY <2>1, <2>2 DEF Sound
<1>7. Counted(n)
  <2>1. InState(n, "LEFT") = InState(b, "LEFT") \ {t} /\ t \in InState(b, "LEFT")
    BY <1>2 DEF InState
  <2>2. InState(n, "RUNNING") = InState(b, "RUNNING")
    BY <1>2 DEF InState
  <2>3. IsFiniteSet(InState(b, "LEFT"))
    BY ThreadsAssumption, FS_Subset DEF InState
  <2>4. Cardinality(InState(n, "LEFT")) = Cardinality(InState(b, "LEFT")) - 1
    BY <2>1, <2>3, FS_RemoveElement
  <2> QED
    BY <1>2, <2>2, <2>4 DEF Sound, Counted
<1>8. Armed(n)
  BY <1>2 DEF Sound, Armed
<1>9. n.curThreadIdx <= Len(n.runList) /\ n.curThreadIdx \in Nat
  BY <1>1, <1>2
<1>10. Placed(n)
  <2> SUFFICES ASSUME NEW u \in Threads, n.state[u] \in {"RUNNING", "LEFT"}
               PROVE  n.lastIdx[u] <= Len(n.runList) /\ n.runList[n.lastIdx[u]] = u
    BY DEF Placed
  <2>1. u # t /\ b.state[u] \in {"RUNNING", "LEFT"}
    BY <1>2
  <2>2. b.lastIdx[u] \in 1 .. Len(b.runList) /\ b.runList[b.lastIdx[u]] = u
    BY <1>1, <2>1, ListFits DEF Sound, Placed, BarrierType
  <2>3. CASE cur >= last /\ u = b.runList[cur]
    <3>1. n.lastIdx[u] = last /\ last # cur
      BY <1>2, <2>1, <2>3
    <3>2. sw[last] = cur
      BY <1>2, <1>4, <2>3, <3>1
    <3> QED
      BY <1>2, <2>3, <3>1, <3>2
  <2>4. CASE ~ (cur >= last /\ u = b.runList[cur])
    <3>1. n.lastIdx[u] = b.lastIdx[u]
      BY <1>2, <2>1, <2>4
    <3>2. b.lastIdx[u] # last
      BY <1>2, <2>1, <2>2
    <3>3. sw[b.lastIdx[u]] = b.lastIdx[u]
      BY <1>4, <2>2, <2>4, <3>2
    <3> QED
      BY <1>1, <1>2, <2>2, <3>1, <3>3
  <2> QED
    BY <2>3, <2>4
<1>11. RunnersExamined(n)
  <2> SUFFICES ASSUME NEW p \in 1 .. Len(b.runList), n.state[n.runList[p]] = "RUNNING"
               PROVE  p <= n.curThreadIdx
    BY <1>2 DEF RunnersExamined
  <2>1. n.runList[p] = b.runList[sw[p]] /\ b.runList[sw[p]] \in Threads
    BY <1>1, <1>2, <1>3
  <2>2. b.runList[sw[p]] # t /\ b.state[b.runList[sw[p]]] = "RUNNING"
    BY <1>2, <2>1
  <2>3. sw[p] <= cur /\ sw[p] # last
    BY <1>2, <1>3, <2>2 DEF Sound, RunnersExamined
  <2> QED
    BY <1>1, <1>2, <1>4, <2>3
<1>12. SyncedWait(n, sy \ {t})
  <2>1. sy \ {t} \subseteq InState(n, "WAITING")
    BY <1>2 DEF SyncedWait, InState
  <2>2. ASSUME NEW p \in 1 .. Len(b.runList), n.state[n.runList[p]] = "WAITING"
        PROVE  p <= n.curThreadIdx <=> n.runList[p] \in sy \ {t}
    <3>1. n.runList[p] = b.runList[sw[p]] /\ b.runList[sw[p]] \in Threads
      BY <1>1, <1>2, <1>3
    <3>2. CASE n.runList[p] = t
      <4>1. sw[p] = last
        BY <1>1, <1>2, <1>3, <3>1, <3>2 DEF Distinct
      <4> QED
        BY <1>1, <1>2, <1>4, <3>2, <4>1
    <3>3. CASE n.runList[p] # t
      <4>1. sw[p] # last /\ b.state[b.runList[sw[p]]] = "WAITING"
        BY <1>2, <2>2, <3>1, <3>3
      <4>2. sw[p] <= cur <=> b.runList[sw[p]] \in sy
        BY <1>3, <4>1 DEF SyncedWait
      <4>3. p <= n.curThreadIdx <=> sw[p] <= cur
        BY <1>1, <1>2, <1>4, <4>1
      <4> QED
        BY <3>1, <3>3, <4>2, <4>3
    <3> QED
      BY <3>2, <3>3
  <2> QED
    BY <1>2, <2>1, <2>2 DEF SyncedWait
<1>13. \E p \in 1 .. Len(n.runList) : n.runList[p] = t /\ p > n.curThreadIdx
  <2>1. CASE cur >= last
    <3>1. cur \in 1 .. Len(n.runList) /\ n.runList[cur] = t /\ cur > n.curThreadIdx
      BY <1>1, <1>2, <1>4, <2>1
    <3> QED
      BY <3>1
  <2>2. CASE ~ (cur >= last)
    <3>1. last \in 1 .. Len(n.runList) /\ n.runList[last] = t /\ last > n.curThreadIdx
      BY <1>1, <1>2, <1>4, <2>2
    <3> QED
      BY <3>1
  <2> QED
    BY <2>1, <2>2
<1> QED
  BY <1>2, <1>5, <1>6, <1>7, <1>8, <1>9, <1>10, <1>11, <1>12, <1>13 DEF Sound, n

-----------------------------------------------------------------------------
(* The theorems *)

\* The steps of the barrier, in the terms of the lemmas.
LEMMA Steps ==
    ASSUME Next, bar \in BarrierType
    PROVE  \E t \in Threads :
              \/ bar.state[t] = "OFFLINE" /\ Step(NewJoin(bar, t), synced \ {t})
              \/ bar.state[t] = "LEFT" /\ Step(Rejoin(bar, t), synced \ {t})
              \/ bar.state[t] = "RUNNING" /\ Step(Left(bar, t), synced)
              \/ bar.state[t] = "RUNNING" /\ Step(Synced(bar, t), synced \cup {t})
BY DEF Next, join, leave, sync, NewJoin, Rejoin, Left, Synced

\* A step is a call of tryWakeNext.
LEMMA StepSound ==
    ASSUME NEW b, NEW sy, Sound(b), SyncedWait(b, sy), Step(b, sy)
    PROVE  /\ Sound(bar') /\ SlotsUsed(bar') /\ SyncedWait(bar', synced')
           /\ bar'.phaseCount # b.phaseCount => PhaseOver(checkRunList(b))
BY WakeNextSound DEF Step

\* The inductive invariant.  BookkeepingExact, SlotsFilled and NoPhaseSkew are
\* not inductive by themselves: that a thread does not run twice in a phase
\* needs the position up to which the list was examined, and the place of a
\* thread that rejoins must be known while it still runs.
BarrierInv == Sound(bar) /\ SlotsUsed(bar) /\ SyncedWait(bar, synced)

\* The barrier is sound when it is constructed.
LEMMA InitSound == Init => BarrierInv
<1> SUFFICES ASSUME Init PROVE BarrierInv
  OBVIOUS
<1>1. bar.runList = << >> /\ Len(bar.runList) = 0 /\ bar.runList \in Seq(Threads)
  BY DEF Init
<1>2. /\ \A t \in Threads : bar.state[t] = "OFFLINE" /\ bar.futexWord[t] = 0
      /\ bar.curThreadIdx = 0 /\ bar.runningThreads = 0 /\ bar.leftThreads = 0
      /\ synced = {}
  BY DEF Init
<1>3. [t \in Threads |-> 1] \in [Threads -> 1 .. Cardinality(Threads)]
  <2> SUFFICES ASSUME NEW t \in Threads PROVE 1 \in 1 .. Cardinality(Threads)
    OBVIOUS
  <2>1. Cardinality(Threads) # 0 /\ Cardinality(Threads) \in Nat
    BY ThreadsAssumption, FS_EmptySet, FS_CardinalityType
  <2> QED
    BY <2>1
<1>4. bar \in BarrierType
  BY <1>1, <1>3, PeriodAssumption DEF Init, BarrierType, States
<1>5. Cardinality(InState(bar, "RUNNING")) = 0 /\ Cardinality(InState(bar, "LEFT")) = 0
  <2>1. InState(bar, "RUNNING") = {} /\ InState(bar, "LEFT") = {}
    BY <1>2 DEF InState
  <2> QED
    BY <2>1, FS_EmptySet
<1>6. Listed(bar) = {} /\ InState(bar, "OFFLINE") = Threads
  BY <1>1, <1>2 DEF Listed, InState
<1> QED
  BY <1>1, <1>2, <1>4, <1>5, <1>6, ParallelAssumption
     DEF BarrierInv, Sound, SlotsUsed, SyncedWait, Distinct, Counted, Armed, Placed,
         RunnersExamined

\* join, leave and sync, with the whole of tryWakeNext, keep the invariant.
LEMMA NextSound == BarrierInv /\ [Next]_vars => BarrierInv'
<1> SUFFICES ASSUME BarrierInv, [Next]_vars PROVE BarrierInv'
  OBVIOUS
<1>1. Sound(bar) /\ SyncedWait(bar, synced) /\ bar \in BarrierType
  BY DEF BarrierInv, Sound
<1>2. CASE Next
  <2>1. PICK t \in Threads :
            \/ bar.state[t] = "OFFLINE" /\ Step(NewJoin(bar, t), synced \ {t})
            \/ bar.state[t] = "LEFT" /\ Step(Rejoin(bar, t), synced \ {t})
            \/ bar.state[t] = "RUNNING" /\ Step(Left(bar, t), synced)
            \/ bar.state[t] = "RUNNING" /\ Step(Synced(bar, t), synced \cup {t})
    BY <1>1, <1>2, Steps
  <2>2. CASE bar.state[t] = "OFFLINE" /\ Step(NewJoin(bar, t), synced \ {t})
    BY <1>1, <2>2, NewJoinSound, StepSound DEF BarrierInv
  <2>3. CASE bar.state[t] = "LEFT" /\ Step(Rejoin(bar, t), synced \ {t})
    BY <1>1, <2>3, RejoinSound, StepSound DEF BarrierInv
  <2>4. CASE bar.state[t] = "RUNNING" /\ Step(Left(bar, t), synced)
    BY <1>1, <2>4, LeftSound, StepSound DEF BarrierInv
  <2>5. CASE bar.state[t] = "RUNNING" /\ Step(Synced(bar, t), synced \cup {t})
    BY <1>1, <2>5, SyncedSound, StepSound DEF BarrierInv
  <2> QED
    BY <2>1, <2>2, <2>3, <2>4, <2>5
<1>3. CASE UNCHANGED vars
  BY <1>3 DEF vars, BarrierInv, Sound, SlotsUsed, SyncedWait, Distinct, Listed, InState, Counted,
              Armed, Placed, RunnersExamined
<1> QED
  BY <1>2, <1>3

\* The invariant contains the properties that the runs check.
LEMMA InvMeans ==
    ASSUME BarrierInv
    PROVE  BookkeepingExact /\ SlotsFilled /\ NoPhaseSkew
<1>1. bar \in BarrierType /\ bar.runList \in Seq(Threads) /\ Distinct(bar)
  BY DEF BarrierInv, Sound, BarrierType
<1>2. TypeOK /\ NoPhaseSkew
  BY <1>1 DEF BarrierInv, SyncedWait, InState, TypeOK, NoPhaseSkew
<1>3. CountersExact /\ WakeWordArmed /\ SlotsFilled
  BY DEF BarrierInv, Sound, Distinct, Counted, Armed, SlotsUsed, CountersExact, WakeWordArmed,
         SlotsFilled
<1>4. RejoinPlace
  BY DEF BarrierInv, Sound, Placed, RejoinPlace, InState
<1> QED
  BY <1>2, <1>3, <1>4 DEF BookkeepingExact

\* For any finite set of threads and any limits, through every sequence of
\* joins, leaves and syncs: each thread that is in the barrier is listed once,
\* the two counters are exact, join's assertion on the remembered place holds,
\* and the futex word of every blocked thread is armed.
THEOREM Bookkeeping == Spec => []BookkeepingExact
BY InitSound, NextSound, InvMeans, PTL DEF Spec

\* Never more than parallelThreads threads run, and while a thread that has not
\* run in this phase waits, that many do; a thread is never blocked while
\* nobody runs who could end the phase.
THEOREM Slots == Spec => []SlotsFilled
BY InitSound, NextSound, InvMeans, PTL DEF Spec

\* A thread that has synced does not run again before the phase ends.
THEOREM NoSkew == Spec => []NoPhaseSkew
BY InitSound, NextSound, InvMeans, PTL DEF Spec

\* What the theorem PhasesComplete says of one step.
LEMMA PhaseEndComplete ==
    ASSUME BarrierInv, [Next]_vars, bar'.phaseCount # bar.phaseCount
    PROVE  /\ InState(bar, "WAITING") \subseteq synced
           /\ Cardinality(InState(bar, "RUNNING")) = 1
<1>1. /\ Sound(bar) /\ SyncedWait(bar, synced) /\ bar \in BarrierType
      /\ bar.runList \in Seq(Threads) /\ Listed(bar) = Threads \ InState(bar, "OFFLINE")
  BY DEF BarrierInv, Sound, BarrierType
<1>2. Next
  BY DEF vars
<1>3. PICK t \in Threads :
          \/ bar.state[t] = "OFFLINE" /\ Step(NewJoin(bar, t), synced \ {t})
          \/ bar.state[t] = "LEFT" /\ Step(Rejoin(bar, t), synced \ {t})
          \/ bar.state[t] = "RUNNING" /\ Step(Left(bar, t), synced)
          \/ bar.state[t] = "RUNNING" /\ Step(Synced(bar, t), synced \cup {t})
  BY <1>1, <1>2, Steps
<1>4. CASE bar.state[t] = "OFFLINE" /\ Step(NewJoin(bar, t), synced \ {t})
  <2> DEFINE n == NewJoin(bar, t)
  <2>1. /\ Sound(n) /\ SyncedWait(n, synced \ {t}) /\ n.phaseCount = bar.phaseCount
        /\ \E p \in 1 .. Len(n.runList) : n.runList[p] = t /\ p > n.curThreadIdx
        /\ n.state[t] = "WAITING" /\ n.curThreadIdx \in Nat
    BY <1>1, <1>4, NewJoinSound DEF Sound, BarrierType
  <2> HIDE DEF n
  <2>2. PhaseOver(checkRunList(n))
    BY <1>4, <2>1, StepSound DEF n
  <2> QED
    BY <2>1, <2>2, PhaseOverMeans
<1>5. CASE bar.state[t] = "LEFT" /\ Step(Rejoin(bar, t), synced \ {t})
  <2> DEFINE n == Rejoin(bar, t)
  <2>1. /\ Sound(n) /\ SyncedWait(n, synced \ {t}) /\ n.phaseCount = bar.phaseCount
        /\ \E p \in 1 .. Len(n.runList) : n.runList[p] = t /\ p > n.curThreadIdx
        /\ n.state[t] = "WAITING" /\ n.curThreadIdx \in Nat
    BY <1>1, <1>5, RejoinSound DEF Sound, BarrierType
  <2> HIDE DEF n
  <2>2. PhaseOver(checkRunList(n))
    BY <1>5, <2>1, StepSound DEF n
  <2> QED
    BY <2>1, <2>2, PhaseOverMeans
<1>6. ASSUME NEW n, NEW sy, Sound(n), SyncedWait(n, sy), Step(n, sy),
             n.phaseCount = bar.phaseCount, n.runList = bar.runList,
             n.curThreadIdx = bar.curThreadIdx, bar.state[t] = "RUNNING",
             NEW s \in {"LEFT", "WAITING"},
             \A u \in Threads : n.state[u] = IF u = t THEN s ELSE bar.state[u]
      PROVE  /\ InState(bar, "WAITING") \subseteq synced
             /\ Cardinality(InState(bar, "RUNNING")) = 1
  <2>1. PhaseOver(checkRunList(n))
    BY <1>6, StepSound
  <2>2. /\ InState(n, "RUNNING") = {}
        /\ \A p \in 1 .. Len(n.runList) :
              n.state[n.runList[p]] = "WAITING" => p <= n.curThreadIdx
    BY <1>6, <2>1, PhaseOverMeans
  <2>3. InState(bar, "RUNNING") = {t}
    BY <1>6, <2>2 DEF InState
  <2>4. ASSUME NEW u \in Threads, bar.state[u] = "WAITING"
        PROVE  u \in synced
    <3>1. PICK p \in 1 .. Len(bar.runList) : bar.runList[p] = u
      BY <1>1, <2>4 DEF Listed, InState
    <3>2. p <= bar.curThreadIdx
      BY <1>6, <2>2, <2>4, <3>1
    <3> QED
      BY <1>1, <2>4, <3>1, <3>2 DEF SyncedWait
  <2> QED
    BY <2>3, <2>4, FS_Singleton DEF InState
<1>7. CASE bar.state[t] = "RUNNING" /\ Step(Left(bar, t), synced)
  BY <1>1, <1>6, <1>7, LeftSound
<1>8. CASE bar.state[t] = "RUNNING" /\ Step(Synced(bar, t), synced \cup {t})
  <2> DEFINE n == Synced(bar, t)
  <2>1. /\ Sound(n) /\ SyncedWait(n, synced \cup {t}) /\ n.phaseCount = bar.phaseCount
        /\ n.runList = bar.runList /\ n.curThreadIdx = bar.curThreadIdx
        /\ \A u \in Threads : n.state[u] = IF u = t THEN "WAITING" ELSE bar.state[u]
    BY <1>1, <1>8, SyncedSound
  <2> HIDE DEF n
  <2>2. Step(n, synced \cup {t})
    BY <1>8 DEF n
  <2> QED
    BY <1>6, <1>8, <2>1, <2>2
<1> QED
  BY <1>3, <1>4, <1>5, <1>7, <1>8

\* A phase ends only when every thread of the barrier has synced in it or has
\* left, and never because of a join: "You can't cause a phase to end here".
THEOREM PhasesComplete == Spec => PhaseComplete
<1>1. BarrierInv /\ [Next]_vars =>
          [bar'.phaseCount # bar.phaseCount =>
              /\ InState(bar, "WAITING") \subseteq synced
              /\ Cardinality(InState(bar, "RUNNING")) = 1]_vars
  BY PhaseEndComplete
<1> QED
  BY <1>1, InitSound, NextSound, PTL DEF Spec, PhaseComplete

-----------------------------------------------------------------------------
(* What the caller of a method sees of the other threads *)

\* How the state of a thread may change while others call the barrier.
Moved(x, y) ==
    \/ y = x
    \/ x = "WAITING" /\ y = "RUNNING"
    \/ x = "LEFT" /\ y = "OFFLINE"

\* The end of a phase only drops threads that LEFT.
LEMMA PhaseEndMoves ==
    ASSUME NEW b \in BarrierType, NEW e \in checkEndPhase(b)
    PROVE  \A t \in Threads : \/ e.state[t] = b.state[t]
                              \/ b.state[t] = "LEFT" /\ e.state[t] = "OFFLINE"
<1>1. CASE PhaseOver(b)
  <2>1. PICK list \in NewLists(b) :
            e = [Rewind(Offline(b)) EXCEPT !.runList = list, !.lastIdx = Place(b, list)]
    BY <1>1 DEF checkEndPhase
  <2>2. e.state = [t \in Threads |-> IF t \in Dropped(b) THEN "OFFLINE" ELSE b.state[t]]
    BY <2>1 DEF Rewind, Offline, BarrierType
  <2>3. \A t \in Dropped(b) : b.state[t] = "LEFT"
    BY DEF Dropped
  <2> QED
    BY <2>2, <2>3
<1>2. CASE ~ PhaseOver(b)
  BY <1>2 DEF checkEndPhase
<1> QED
  BY <1>1, <1>2

\* So does tryWakeNext, which also wakes threads that wait.
LEMMA WakeNextMoves ==
    ASSUME NEW b, Sound(b), NEW n \in tryWakeNext(b)
    PROVE  \A t \in Threads : Moved(b.state[t], n.state[t])
<1> DEFINE c == checkRunList(b)
<1>1. PICK e \in checkEndPhase(c) : n = checkRunList(e)
  BY DEF tryWakeNext
<1>2. ASSUME NEW d, Sound(d)
      PROVE  \A t \in Threads : \/ checkRunList(d).state[t] = d.state[t]
                                \/ d.state[t] = "WAITING" /\ checkRunList(d).state[t] = "RUNNING"
  <2>1. d \in BarrierType /\ Distinct(d) /\ d.curThreadIdx <= Len(d.runList)
    BY <1>2 DEF Sound
  <2>2. Woken(d) \subseteq InState(d, "WAITING")
    BY <2>1, WokenCounted
  <2>3. \A t \in Threads :
            checkRunList(d).state[t] = IF t \in Woken(d) THEN "RUNNING" ELSE d.state[t]
    BY <2>1, RunListFields
  <2> QED
    BY <2>2, <2>3 DEF InState
<1>3. Sound(c)
  BY RunListSound
<1>4. Sound(e)
  <2>1. CASE PhaseOver(c)
    BY <1>1, <1>3, <2>1, PhaseEndSound
  <2>2. CASE ~ PhaseOver(c)
    BY <1>1, <1>3, <2>2 DEF checkEndPhase
  <2> QED
    BY <2>1, <2>2
<1>5. \A t \in Threads : c.state[t] = b.state[t]
                         \/ (b.state[t] = "WAITING" /\ c.state[t] = "RUNNING")
  BY <1>2
<1>6. \A t \in Threads : n.state[t] = e.state[t]
                         \/ (e.state[t] = "WAITING" /\ n.state[t] = "RUNNING")
  BY <1>1, <1>2, <1>4
<1> HIDE DEF c
<1>7. \A t \in Threads : e.state[t] = c.state[t]
                         \/ (c.state[t] = "LEFT" /\ e.state[t] = "OFFLINE")
  BY <1>1, <1>3, PhaseEndMoves DEF Sound
<1> QED
  BY <1>5, <1>6, <1>7 DEF Moved

\* A join never ends a phase; the thread waits, or runs at once.
LEMMA JoinStep ==
    ASSUME BarrierInv, NEW t \in Threads, join(t)
    PROVE  /\ bar'.phaseCount = bar.phaseCount
           /\ synced' = synced \ {t}
           /\ \A u \in Threads : Moved(IF u = t THEN "WAITING" ELSE bar.state[u], bar'.state[u])
<1>1. Sound(bar) /\ SyncedWait(bar, synced) /\ bar \in BarrierType
  BY DEF BarrierInv, Sound
<1>2. ASSUME NEW n, Sound(n), SyncedWait(n, synced \ {t}), n.phaseCount = bar.phaseCount,
             \E p \in 1 .. Len(n.runList) : n.runList[p] = t /\ p > n.curThreadIdx,
             n.state[t] = "WAITING", Step(n, synced \ {t}),
             \A u \in Threads \ {t} : n.state[u] = bar.state[u]
      PROVE  /\ bar'.phaseCount = bar.phaseCount
             /\ synced' = synced \ {t}
             /\ \A u \in Threads : Moved(IF u = t THEN "WAITING" ELSE bar.state[u], bar'.state[u])
  <2>1. n.curThreadIdx \in Nat
    BY <1>2 DEF Sound, BarrierType
  <2>2. ~ PhaseOver(checkRunList(n))
    BY <1>2, <2>1, PhaseOverMeans
  <2>3. bar'.phaseCount = bar.phaseCount
    BY <1>2, <2>2, StepSound
  <2>4. synced' = synced \ {t} /\ bar' \in tryWakeNext(n)
    BY <1>2, <2>3 DEF Step
  <2>5. \A u \in Threads : Moved(n.state[u], bar'.state[u])
    BY <1>2, <2>4, WakeNextMoves
  <2> QED
    BY <1>2, <2>3, <2>4, <2>5
<1>3. CASE bar.state[t] = "OFFLINE" /\ Step(NewJoin(bar, t), synced \ {t})
  <2> DEFINE n == NewJoin(bar, t)
  <2>1. /\ Sound(n) /\ SyncedWait(n, synced \ {t}) /\ n.phaseCount = bar.phaseCount
        /\ \E p \in 1 .. Len(n.runList) : n.runList[p] = t /\ p > n.curThreadIdx
        /\ n.state[t] = "WAITING"
    BY <1>1, <1>3, NewJoinSound
  <2>2. \A u \in Threads \ {t} : n.state[u] = bar.state[u]
    BY <1>1 DEF NewJoin, ToWaiting, BarrierType
  <2>3. Step(n, synced \ {t})
    BY <1>3
  <2> HIDE DEF n
  <2> QED
    BY <1>2, <2>1, <2>2, <2>3
<1>4. CASE bar.state[t] = "LEFT" /\ Step(Rejoin(bar, t), synced \ {t})
  <2> DEFINE n == Rejoin(bar, t)
  <2>1. /\ Sound(n) /\ SyncedWait(n, synced \ {t}) /\ n.phaseCount = bar.phaseCount
        /\ \E p \in 1 .. Len(n.runList) : n.runList[p] = t /\ p > n.curThreadIdx
        /\ n.state[t] = "WAITING"
    BY <1>1, <1>4, RejoinSound
  <2>2. \A u \in Threads \ {t} : n.state[u] = bar.state[u]
    BY <1>1, <1>4, RejoinFields, SMTT(30)
  <2>3. Step(n, synced \ {t})
    BY <1>4
  <2> HIDE DEF n
  <2> QED
    BY <1>2, <2>1, <2>2, <2>3
<1> QED
  BY <1>3, <1>4 DEF join, NewJoin, Rejoin

\* A leave or a sync ends the phase only when everybody else has synced in it,
\* and then nobody else runs.
LEMMA EndStep ==
    ASSUME BarrierInv, NEW t \in Threads, leave(t) \/ sync(t), bar'.phaseCount # bar.phaseCount
    PROVE  \A u \in Threads \ {t} : /\ bar.state[u] # "RUNNING"
                                    /\ bar.state[u] = "WAITING" => u \in synced
<1>1. bar.state[t] = "RUNNING"
  BY DEF leave, sync
<1>2. /\ InState(bar, "WAITING") \subseteq synced
      /\ Cardinality(InState(bar, "RUNNING")) = 1
  BY PhaseEndComplete DEF Next
<1>3. IsFiniteSet(InState(bar, "RUNNING")) /\ t \in InState(bar, "RUNNING")
  BY <1>1, ThreadsAssumption, FS_Subset DEF InState
<1>4. /\ IsFiniteSet(InState(bar, "RUNNING") \ {t})
      /\ Cardinality(InState(bar, "RUNNING") \ {t}) = 0
  BY <1>2, <1>3, FS_RemoveElement
<1>5. InState(bar, "RUNNING") \ {t} = {}
  BY <1>4, FS_EmptySet
<1> QED
  BY <1>2, <1>5 DEF InState

\* What a leave does.
LEMMA LeaveStep ==
    ASSUME BarrierInv, NEW t \in Threads, leave(t)
    PROVE  /\ \A u \in Threads : Moved(IF u = t THEN "LEFT" ELSE bar.state[u], bar'.state[u])
           /\ synced' = IF bar'.phaseCount # bar.phaseCount THEN {} ELSE synced
<1> DEFINE n == Left(bar, t)
<1>1. /\ Sound(n) /\ n.phaseCount = bar.phaseCount
      /\ \A u \in Threads : n.state[u] = IF u = t THEN "LEFT" ELSE bar.state[u]
  BY LeftSound DEF BarrierInv, leave
<1>2. Step(n, synced)
  BY DEF leave, Left
<1> HIDE DEF n
<1>3. \A u \in Threads : Moved(n.state[u], bar'.state[u])
  BY <1>1, <1>2, WakeNextMoves DEF Step
<1> QED
  BY <1>1, <1>2, <1>3 DEF Step

\* What a sync does.
LEMMA SyncStep ==
    ASSUME BarrierInv, NEW t \in Threads, sync(t)
    PROVE  /\ \A u \in Threads : Moved(IF u = t THEN "WAITING" ELSE bar.state[u], bar'.state[u])
           /\ synced' = IF bar'.phaseCount # bar.phaseCount THEN {} ELSE synced \cup {t}
<1> DEFINE n == Synced(bar, t)
<1>1. /\ Sound(n) /\ n.phaseCount = bar.phaseCount
      /\ \A u \in Threads : n.state[u] = IF u = t THEN "WAITING" ELSE bar.state[u]
  BY SyncedSound DEF BarrierInv, sync
<1>2. Step(n, synced \cup {t})
  BY DEF sync, Synced
<1> HIDE DEF n
<1>3. \A u \in Threads : Moved(n.state[u], bar'.state[u])
  BY <1>1, <1>2, WakeNextMoves DEF Step
<1> QED
  BY <1>1, <1>2, <1>3 DEF Step
=============================================================================
