--------------------------- MODULE SchedulerProofs ---------------------------
(***************************************************************************)
(* Proofs about the scheduler, for any threads, cores, processes and       *)
(* masks, and any lengths of quanta and sleeps.                            *)
(*                                                                         *)
(* The scheduler's lock makes each operation one step, but a thread goes   *)
(* through several of them to move from one place to another, and the      *)
(* barrier and the watchdog act in between.  Core relates what they share: *)
(* each queue holds the threads in the state of its name, a context and    *)
(* its thread name each other, the barrier runs the contexts of running    *)
(* threads, and the state of a thread fits the place its host thread is    *)
(* at.  It is stated of any data s, places p, states bs of the barrier's   *)
(* threads, synced cores sy and record w of the watchdog, so that lemmas   *)
(* can speak of the data between two calls of one operation.               *)
(*                                                                         *)
(* A thread that comes back from a system call between the watchdog's      *)
(* undoing its fake leave and the leave the watchdog then makes for it     *)
(* (raced) breaks Core, and the model stops there.  So the lemma of each   *)
(* step shows Kept, that Core holds again, or Broken, that the thread came *)
(* back too early.                                                         *)
(***************************************************************************)
EXTENDS Scheduler, SetLemmas

\* What module BarrierProofs proves, of the barrier the scheduler calls.
BP == INSTANCE BarrierProofs WITH Threads <- Cores

-----------------------------------------------------------------------------
(* The invariant *)

\* Queue q holds each element of D once, and nothing else.
Holds(q, D) ==
    /\ \A i, j \in 1 .. Len(q) : q[i] = q[j] => i = j
    /\ {q[i] : i \in 1 .. Len(q)} = D

\* A context and the thread that owns it name each other.
Owned(s) ==
    /\ \A c \in Cores : s.curThread[c] # NoThread =>
          /\ s.cid[s.curThread[c]] = c
          /\ s.state[s.curThread[c]] \in {"RUNNING", "OUT"}
    /\ \A g \in Gids : s.state[g] \in {"RUNNING", "OUT"} => s.curThread[s.cid[g]] = g

\* The threads a context is promised to; those that wait without a promise; the
\* contexts nobody has; the threads in the middle of a fake leave.
Promised(s) == {s.handoffThread[v] : v \in Gids}
Waiters(s) == InState(s, "QUEUED") \ Promised(s)
FreeCores(s) == {c \in Cores : s.curThread[c] = NoThread}
FakeLeavers(s) == {g \in Gids : s.fakeLeave[g] # NoPc}

\* The queues hold the threads that are in the state of their name.
QueuesHold(s) ==
    /\ Holds(s.freeList, FreeCores(s))
    /\ Holds(s.runQueue, Waiters(s))
    /\ Holds(s.outQueue, InState(s, "OUT"))
    /\ Holds(s.sleepQueue, InState(s, "SLEEPING"))
    /\ Holds(s.fakeLeaves, FakeLeavers(s))

\* Sleepers are in the order of their deadlines, and none is overdue.
SleepsOrdered(s) ==
    /\ \A g \in InState(s, "SLEEPING") : s.untilWakeup[g] >= 1 /\ s.futexWord[g] = 1
    /\ \A i, j \in 1 .. Len(s.sleepQueue) :
          i <= j => s.untilWakeup[s.sleepQueue[i]] <= s.untilWakeup[s.sleepQueue[j]]

\* A thread that is to hand its context off has not synced since it was told to,
\* and the other, promised by nobody else, may run there.
HandOffs(s, p, sy) ==
    \A v \in Gids : s.handoffThread[v] # NoThread =>
        /\ p[v] = "syncing" /\ s.cid[v] \notin sy
        /\ s.state[s.handoffThread[v]] = "QUEUED"
        /\ s.cid[v] \in s.mask[s.handoffThread[v]]
        /\ \A u \in Gids : s.handoffThread[u] = s.handoffThread[v] => u = v

\* A running thread has context c.
Runner(s, c) == s.curThread[c] # NoThread /\ s.state[s.curThread[c]] = "RUNNING"

\* The barrier, whose threads are in the states bs, agrees.
Agrees(s, p, bs) ==
    /\ \A c \in Cores : bs[c] \in {"RUNNING", "WAITING"} <=> Runner(s, c)
    /\ \A g \in Gids :
          s.state[g] = "RUNNING" /\ p[g] \notin {"joining", "syncing"} =>
              bs[s.cid[g]] = "RUNNING"

\* The watchdog is about to leave on behalf of g.
Forced(w, g) == w.at = "leave" /\ w.th = g

\* The state of a thread is one its host thread can be where it is with.
Fits(s, p, sy, w, g) ==
    /\ p[g] \notin {"dead", "reaped"}
    /\ p[g] = "off" => s.state[g] = "STARTED"
    /\ p[g] \in {"run", "entering", "leaving", "joining", "syncing", "finLeave"} =>
          s.state[g] = "RUNNING"
    /\ p[g] = "waiting" => s.state[g] = IF s.futexWord[g] = 1 THEN "QUEUED" ELSE "RUNNING"
    /\ p[g] = "finEnd" => s.state[g] \in {"OUT", "BLOCKED"}
    /\ p[g] = "polled" => s.state[g] \in {"SLEEPING", "BLOCKED"}
    /\ p[g] = "matching" => s.state[g] \in {"RUNNING", "OUT", "BLOCKED"}
    /\ p[g] \in {"out", "matching"} /\ s.state[g] = "RUNNING" =>
          s.fakeLeave[g] # NoPc \/ Forced(w, g)
    /\ s.fakeLeave[g] # NoPc => p[g] \in {"out", "matching"} /\ s.state[g] = "RUNNING"
    /\ s.state[g] = "QUEUED" => p[g] = "waiting" /\ s.futexWord[g] = 1
    /\ p[g] = "joining" => s.cid[g] \notin sy
    /\ s.markedForSleep[g] =>
          p[g] \in {"entering", "leaving"} /\ s.untilWakeup[g] >= 1 /\ s.futexWord[g] = 1

\* Contexts go to those who may have them, and nobody queues for one that is free
\* or of a thread that is OUT.
WellUsed(s, p) ==
    /\ \A g \in Gids :
          \/ s.state[g] = "RUNNING" /\ p[g] \notin {"entering", "leaving"}
          \/ s.state[g] = "OUT"
          => s.cid[g] \in s.mask[g]
    /\ \A g \in Waiters(s) : \A c \in s.mask[g] : Runner(s, c)

\* What the watchdog counts on when it has released the lock, or drives time.
Watched(s, p, w) ==
    /\ w.at # "cleanup"
    /\ w.at = "leave" =>
          /\ w.th \in Gids /\ p[w.th] \in {"out", "matching"}
          /\ s.state[w.th] = "RUNNING" /\ s.fakeLeave[w.th] = NoPc
          /\ s.cid[w.th] = w.cid /\ \E g \in Gids : w.pid = Pid[g]
    /\ w.at = "driving" => w.th \in Gids /\ \A g \in Gids : s.state[g] # "RUNNING"

\* What the scheduler's operations keep.
Core(s, p, bs, sy, w) ==
    /\ Owned(s) /\ QueuesHold(s) /\ SleepsOrdered(s)
    /\ HandOffs(s, p, sy) /\ Agrees(s, p, bs)
    /\ \A g \in Gids : Fits(s, p, sy, w, g)
    /\ WellUsed(s, p) /\ Watched(s, p, w)

\* The inductive invariant.
Inv ==
    /\ TypeOK /\ BP!BarrierInv
    /\ Working => Core(sched, pc, bar.state, synced, wd)

-----------------------------------------------------------------------------
(* Types *)

\* The fields of the scheduler's data.
LEMMA Fields ==
    ASSUME NEW s \in SchedulerType
    PROVE  /\ s.state \in [Gids -> ThreadState] /\ s.cid \in [Gids -> Cores]
           /\ s.handoffThread \in [Gids -> Gids \cup {NoThread}]
           /\ s.futexWord \in [Gids -> {0, 1}] /\ s.markedForSleep \in [Gids -> BOOLEAN]
           /\ s.untilWakeup \in [Gids -> 0 .. MaxSleep] /\ s.mask \in [Gids -> Masks]
           /\ s.fakeLeave \in [Gids -> SyscallPcs \cup {NoPc}]
           /\ s.curThread \in [Cores -> Gids \cup {NoThread}]
           /\ s.freeList \in Seq(Cores) /\ s.runQueue \in Seq(Gids)
           /\ s.outQueue \in Seq(Gids) /\ s.sleepQueue \in Seq(Gids)
           /\ s.fakeLeaves \in Seq(Gids)
BY DEF SchedulerType

\* The bounds are numbers.
LEMMA Bounds ==
    /\ numCores \in Nat \ {0} /\ parallelThreads \in Nat \ {0}
    /\ schedQuantum \in Nat \ {0} /\ MaxSleep \in Nat \ {0} /\ StallThreshold \in Nat \ {0}
    /\ BatchFloor \in Nat /\ CleanupPeriod \in Nat \ {0, 1}
BY BoundsAssumption

-----------------------------------------------------------------------------
(* Queues *)

\* Queue r is q without its i-th element.
Drops(q, i, r) ==
    /\ i \in 1 .. Len(q) /\ Len(r) = Len(q) - 1
    /\ \A k \in 1 .. Len(q) - 1 : r[k] = q[IF k < i THEN k ELSE k + 1]

\* RemoveFirst takes one element out, the first that is x.
LEMMA RemoveFirstDrops ==
    ASSUME NEW T, NEW q \in Seq(T), NEW x, \E i \in 1 .. Len(q) : q[i] = x
    PROVE  /\ S!RemoveFirst(q, x) \in Seq(T)
           /\ \E i \in 1 .. Len(q) : q[i] = x /\ Drops(q, i, S!RemoveFirst(q, x))
<1> DEFINE I == {i \in 1 .. Len(q) : q[i] = x}
<1>1. PICK n \in I : \A m \in I : n <= m
  <2>1. I \in SUBSET Nat /\ I # {}
    OBVIOUS
  <2> QED
    BY <2>1, LeastNat
<1>2. S!SelectInSeq(q, LAMBDA v : v = x) = S!Min(I)
  BY <1>1 DEF S!SelectInSeq
<1>3. S!Min(I) = n
  BY <1>1 DEF S!Min
<1>4. S!RemoveFirst(q, x) = SubSeq(q, 1, n - 1) \o SubSeq(q, n + 1, Len(q))
  BY <1>1, <1>2, <1>3 DEF S!RemoveFirst, S!RemoveAt
<1>5. n \in 1 .. Len(q) /\ q[n] = x /\ Len(q) \in Nat
  BY <1>1
<1> DEFINE a == SubSeq(q, 1, n - 1)
           b == SubSeq(q, n + 1, Len(q))
<1>6. /\ a \in Seq(T) /\ Len(a) = n - 1 /\ \A k \in 1 .. n - 1 : a[k] = q[k]
      /\ b \in Seq(T) /\ Len(b) = Len(q) - n /\ \A k \in 1 .. Len(q) - n : b[k] = q[n + k]
  BY <1>5
<1> HIDE DEF a, b
<1>7. /\ a \o b \in Seq(T) /\ Len(a \o b) = Len(q) - 1
      /\ \A k \in 1 .. Len(q) - 1 : (a \o b)[k] = IF k <= n - 1 THEN a[k] ELSE b[k - (n - 1)]
  <2>1. /\ a \o b \in Seq(T)
        /\ Len(a \o b) = Len(a) + Len(b)
        /\ \A k \in 1 .. Len(a) + Len(b) :
              (a \o b)[k] = IF k <= Len(a) THEN a[k] ELSE b[k - Len(a)]
    BY <1>6, ConcatProperties, Zenon
  <2> QED
    BY <1>5, <1>6, <2>1
<1>8. Drops(q, n, a \o b)
  <2>1. ASSUME NEW k \in 1 .. Len(q) - 1
        PROVE  (a \o b)[k] = q[IF k < n THEN k ELSE k + 1]
    <3>1. CASE k < n
      BY <1>5, <1>6, <1>7, <3>1
    <3>2. CASE ~ (k < n)
      <4>1. k - (n - 1) \in 1 .. Len(q) - n /\ n + (k - (n - 1)) = k + 1 /\ ~ (k <= n - 1)
        BY <1>5, <3>2
      <4> QED
        BY <1>6, <1>7, <3>2, <4>1
    <3> QED
      BY <3>1, <3>2
  <2> QED
    BY <1>5, <1>7, <2>1 DEF Drops
<1> QED
  BY <1>4, <1>5, <1>7, <1>8 DEF a, b

\* A queue that holds each element of D once holds, after x is taken out, those
\* of D without x.
LEMMA Removed ==
    ASSUME NEW T, NEW q \in Seq(T), NEW D, Holds(q, D), NEW x \in D
    PROVE  /\ S!RemoveFirst(q, x) \in Seq(T)
           /\ Holds(S!RemoveFirst(q, x), D \ {x})
<1> DEFINE r == S!RemoveFirst(q, x)
<1>1. \E i \in 1 .. Len(q) : q[i] = x
  BY DEF Holds
<1>2. r \in Seq(T) /\ \E i \in 1 .. Len(q) : q[i] = x /\ Drops(q, i, r)
  BY <1>1, RemoveFirstDrops
<1> HIDE DEF r
<1>3. PICK i \in 1 .. Len(q) : q[i] = x /\ Drops(q, i, r)
  BY <1>2
<1>4. Len(q) \in Nat /\ Len(r) = Len(q) - 1
  BY <1>3 DEF Drops
<1>5. \A k \in 1 .. Len(r) : \E m \in 1 .. Len(q) : m # i /\ r[k] = q[m]
                                                    /\ m = IF k < i THEN k ELSE k + 1
  BY <1>3, <1>4 DEF Drops
<1>6. \A m \in 1 .. Len(q) : m # i => \E k \in 1 .. Len(r) : r[k] = q[m]
  <2> TAKE m \in 1 .. Len(q)
  <2> HAVE m # i
  <2> DEFINE k == IF m < i THEN m ELSE m - 1
  <2>1. k \in 1 .. Len(q) - 1 /\ (IF k < i THEN k ELSE k + 1) = m
    BY <1>3, <1>4
  <2> QED
    BY <1>3, <1>4, <2>1 DEF Drops
<1>7. \A j, k \in 1 .. Len(q) : q[j] = q[k] => j = k
  BY DEF Holds
<1>8. {q[k] : k \in 1 .. Len(q)} = D
  BY DEF Holds
<1>9. \A j, k \in 1 .. Len(r) : r[j] = r[k] => j = k
  <2> TAKE j, k \in 1 .. Len(r)
  <2> HAVE r[j] = r[k]
  <2>1. PICK m \in 1 .. Len(q) : r[j] = q[m] /\ m = IF j < i THEN j ELSE j + 1
    BY <1>5
  <2>2. PICK n \in 1 .. Len(q) : r[k] = q[n] /\ n = IF k < i THEN k ELSE k + 1
    BY <1>5
  <2>3. m = n
    BY <1>7, <2>1, <2>2
  <2> QED
    BY <1>3, <1>4, <2>1, <2>2, <2>3
<1>10. {r[k] : k \in 1 .. Len(r)} \subseteq D \ {x}
  BY <1>3, <1>5, <1>7, <1>8
<1>11. ASSUME NEW y \in D \ {x}
       PROVE  y \in {r[k] : k \in 1 .. Len(r)}
  <2>1. PICK m \in 1 .. Len(q) : q[m] = y
    BY <1>8
  <2> QED
    BY <1>3, <1>6, <2>1
<1> QED
  BY <1>2, <1>9, <1>10, <1>11 DEF Holds, r

\* Nothing is taken out when x is not there.
LEMMA NotThere ==
    ASSUME NEW T, NEW q \in Seq(T), NEW D, Holds(q, D), NEW x, x \notin D
    PROVE  S!RemoveFirst(q, x) = q
<1>1. ~ \E i \in 1 .. Len(q) : q[i] = x
  BY DEF Holds
<1> QED
  BY <1>1 DEF S!RemoveFirst

\* A new element goes to the back.
LEMMA Appended ==
    ASSUME NEW T, NEW q \in Seq(T), NEW D, Holds(q, D), NEW x \in T, x \notin D
    PROVE  /\ Append(q, x) \in Seq(T)
           /\ Holds(Append(q, x), D \cup {x})
<1> DEFINE r == Append(q, x)
<1>1. /\ r \in Seq(T) /\ Len(r) = Len(q) + 1 /\ Len(q) \in Nat
      /\ \A i \in 1 .. Len(q) : r[i] = q[i]
      /\ r[Len(q) + 1] = x
  BY AppendProperties
<1> HIDE DEF r
<1>2. \A i \in 1 .. Len(q) : q[i] \in D
  BY DEF Holds
<1>3. \A i, j \in 1 .. Len(r) : r[i] = r[j] => i = j
  <2> TAKE i, j \in 1 .. Len(r)
  <2> HAVE r[i] = r[j]
  <2>1. i \in 1 .. Len(q) \/ i = Len(q) + 1
    BY <1>1
  <2>2. j \in 1 .. Len(q) \/ j = Len(q) + 1
    BY <1>1
  <2>3. \A k, m \in 1 .. Len(q) : q[k] = q[m] => k = m
    BY DEF Holds
  <2> QED
    BY <1>1, <1>2, <2>1, <2>2, <2>3
<1>4. {r[i] : i \in 1 .. Len(r)} = D \cup {x}
  <2>1. {q[i] : i \in 1 .. Len(q)} = D
    BY DEF Holds
  <2>2. 1 .. Len(r) = (1 .. Len(q)) \cup {Len(q) + 1}
    BY <1>1
  <2> QED
    BY <1>1, <2>1, <2>2
<1> QED
  BY <1>1, <1>3, <1>4 DEF Holds, r

\* Some position of a non-empty set of positions comes first.
LEMMA FirstPlace ==
    ASSUME NEW T, NEW q \in Seq(T), NEW I \in SUBSET (1 .. Len(q)), I # {}
    PROVE  \E n \in DOMAIN q : n \in I /\ \A j \in 1 .. n - 1 : j \notin I
<1>1. PICK n \in I : \A m \in I : n <= m
  BY LeastNat
<1>2. \A j \in 1 .. n - 1 : j \notin I
  BY <1>1
<1> QED
  BY <1>1, <1>2

\* Queue r is q with x put in after the first k elements.
Inserts(q, k, x, r) ==
    /\ Len(r) = Len(q) + 1
    /\ \A j \in 1 .. Len(q) + 1 :
          r[j] = IF j <= k THEN q[j] ELSE IF j = k + 1 THEN x ELSE q[j - 1]

\* An element put in after the first k.
LEMMA Inserted ==
    ASSUME NEW T, NEW q \in Seq(T), NEW D, Holds(q, D), NEW x \in T, x \notin D,
           NEW k \in 0 .. Len(q)
    PROVE  LET r == S!InsertAt(q, k + 1, x)
           IN  /\ r \in Seq(T)
               /\ Holds(r, D \cup {x})
               /\ Inserts(q, k, x, r)
<1> DEFINE r == S!InsertAt(q, k + 1, x)
           a == SubSeq(q, 1, k)
           b == SubSeq(q, k + 1, Len(q))
           d == a \o <<x>>
<1>1. r = d \o b
  <2>1. (k + 1) - 1 = k
    OBVIOUS
  <2> QED
    BY <2>1, Zenon DEF S!InsertAt
<1>2. /\ a \in Seq(T) /\ Len(a) = k /\ \A j \in 1 .. k : a[j] = q[j]
      /\ b \in Seq(T) /\ Len(b) = Len(q) - k /\ \A j \in 1 .. Len(q) - k : b[j] = q[k + j]
      /\ Len(q) \in Nat
  OBVIOUS
<1> HIDE DEF a, b
<1>3. /\ d \in Seq(T) /\ Len(d) = k + 1
      /\ \A j \in 1 .. k + 1 : d[j] = IF j <= k THEN q[j] ELSE x
  BY <1>2
<1> HIDE DEF r, d
<1>4. /\ d \o b \in Seq(T)
      /\ Len(d \o b) = Len(d) + Len(b)
      /\ \A j \in 1 .. Len(d) + Len(b) :
            (d \o b)[j] = IF j <= Len(d) THEN d[j] ELSE b[j - Len(d)]
  BY <1>2, <1>3, ConcatProperties, ZenonT(60)
<1>5. /\ r \in Seq(T) /\ Len(r) = Len(q) + 1
      /\ \A j \in 1 .. Len(q) + 1 : r[j] = IF j <= k + 1 THEN d[j] ELSE b[j - (k + 1)]
  <2>1. Len(d) + Len(b) = Len(q) + 1
    BY <1>2, <1>3
  <2> QED
    BY <1>1, <1>3, <1>4, <2>1
<1>6. \A j \in 1 .. Len(q) + 1 :
          r[j] = IF j <= k THEN q[j] ELSE IF j = k + 1 THEN x ELSE q[j - 1]
  <2> TAKE j \in 1 .. Len(q) + 1
  <2>1. CASE j <= k + 1
    BY <1>3, <1>5, <2>1
  <2>2. CASE ~ (j <= k + 1)
    <3>1. j - (k + 1) \in 1 .. Len(q) - k /\ k + (j - (k + 1)) = j - 1
      BY <1>2, <2>2
    <3>2. b[j - (k + 1)] = q[j - 1]
      BY <1>2, <3>1
    <3>3. r[j] = b[j - (k + 1)]
      BY <1>5, <2>2
    <3> QED
      BY <1>2, <2>2, <3>2, <3>3
  <2> QED
    BY <2>1, <2>2
<1>7. \A j \in 1 .. Len(q) : q[j] \in D
  BY DEF Holds
<1>8. \A i, j \in 1 .. Len(q) : q[i] = q[j] => i = j
  BY DEF Holds
<1>9. \A i, j \in 1 .. Len(r) : r[i] = r[j] => i = j
  <2>1. \A j \in 1 .. Len(r) : \/ j = k + 1 /\ r[j] = x
                               \/ j # k + 1 /\ \E m \in 1 .. Len(q) :
                                     r[j] = q[m] /\ m = IF j <= k THEN j ELSE j - 1
    BY <1>2, <1>5, <1>6
  <2>2. ASSUME NEW i \in 1 .. Len(r), NEW j \in 1 .. Len(r), r[i] = r[j]
        PROVE  i = j
    <3>1. CASE i = k + 1
      BY <1>7, <2>1, <2>2, <3>1
    <3>2. CASE j = k + 1
      BY <1>7, <2>1, <2>2, <3>2
    <3>3. CASE i # k + 1 /\ j # k + 1
      <4>1. PICK m \in 1 .. Len(q) : r[i] = q[m] /\ m = IF i <= k THEN i ELSE i - 1
        BY <2>1, <3>3
      <4>2. PICK n \in 1 .. Len(q) : r[j] = q[n] /\ n = IF j <= k THEN j ELSE j - 1
        BY <2>1, <3>3
      <4>3. m = n
        BY <1>8, <2>2, <4>1, <4>2
      <4> QED
        BY <1>2, <3>3, <4>1, <4>2, <4>3, SMTT(30)
    <3> QED
      BY <3>1, <3>2, <3>3
  <2> QED
    BY <2>2
<1>10. {r[j] : j \in 1 .. Len(r)} = D \cup {x}
  <2>1. {q[j] : j \in 1 .. Len(q)} = D
    BY DEF Holds
  <2>2. ASSUME NEW m \in 1 .. Len(q)
        PROVE  \E j \in 1 .. Len(r) : r[j] = q[m]
    <3>1. CASE m <= k
      <4>1. m \in 1 .. Len(r) /\ m \in 1 .. Len(q) + 1
        BY <1>2, <1>5
      <4> QED
        BY <1>6, <3>1, <4>1
    <3>2. CASE ~ (m <= k)
      <4>1. /\ m + 1 \in 1 .. Len(r) /\ m + 1 \in 1 .. Len(q) + 1 /\ (m + 1) - 1 = m
            /\ ~ (m + 1 <= k) /\ m + 1 # k + 1
        BY <1>2, <1>5, <3>2
      <4>2. r[m + 1] = q[(m + 1) - 1]
        BY <1>6, <4>1, Zenon
      <4> QED
        BY <4>1, <4>2
    <3> QED
      BY <3>1, <3>2
  <2>3. r[k + 1] = x /\ k + 1 \in 1 .. Len(r)
    BY <1>2, <1>5, <1>6
  <2>4. ASSUME NEW j \in 1 .. Len(r)
        PROVE  r[j] \in D \cup {x}
    <3>1. r[j] = IF j <= k THEN q[j] ELSE IF j = k + 1 THEN x ELSE q[j - 1]
      BY <1>5, <1>6
    <3>2. CASE j <= k
      BY <1>2, <1>7, <3>1, <3>2
    <3>3. CASE j = k + 1
      BY <3>1, <3>3
    <3>4. CASE ~ (j <= k) /\ j # k + 1
      <4>1. j - 1 \in 1 .. Len(q)
        BY <1>2, <1>5, <3>4
      <4> QED
        BY <1>7, <3>1, <3>4, <4>1, Zenon
    <3> QED
      BY <3>2, <3>3, <3>4
  <2> QED
    BY <2>1, <2>2, <2>3, <2>4, ZenonT(60)
<1> QED
  BY <1>5, <1>6, <1>9, <1>10 DEF Holds, Inserts, r

\* The queue without its first k elements.
LEMMA Shortened ==
    ASSUME NEW T, NEW q \in Seq(T), NEW D, Holds(q, D), NEW k \in 0 .. Len(q)
    PROVE  LET r == SubSeq(q, k + 1, Len(q))
           IN  /\ r \in Seq(T)
               /\ Holds(r, D \ {q[i] : i \in 1 .. k})
               /\ Len(r) = Len(q) - k
               /\ \A j \in 1 .. Len(q) - k : r[j] = q[k + j]
<1> DEFINE r == SubSeq(q, k + 1, Len(q))
<1>1. /\ r \in Seq(T) /\ Len(r) = Len(q) - k /\ \A j \in 1 .. Len(q) - k : r[j] = q[k + j]
      /\ Len(q) \in Nat
  OBVIOUS
<1> HIDE DEF r
<1>2. \A i, j \in 1 .. Len(q) : q[i] = q[j] => i = j
  BY DEF Holds
<1>3. {q[i] : i \in 1 .. Len(q)} = D
  BY DEF Holds
<1>4. \A i, j \in 1 .. Len(r) : r[i] = r[j] => i = j
  BY <1>1, <1>2
<1>5. ASSUME NEW j \in 1 .. Len(r)
      PROVE  r[j] \in D \ {q[i] : i \in 1 .. k}
  BY <1>1, <1>2, <1>3
<1>6. ASSUME NEW y \in D \ {q[i] : i \in 1 .. k}
      PROVE  \E j \in 1 .. Len(r) : r[j] = y
  <2>1. PICK m \in 1 .. Len(q) : q[m] = y
    BY <1>3
  <2>2. m - k \in 1 .. Len(r) /\ k + (m - k) = m
    BY <1>1, <2>1
  <2> QED
    BY <1>1, <2>1, <2>2
<1>7. {r[j] : j \in 1 .. Len(r)} = D \ {q[i] : i \in 1 .. k}
  BY <1>5, <1>6
<1> QED
  BY <1>1, <1>4, <1>7 DEF Holds, r

\* Without keeps the elements at the other positions, each once.
LEMMA WithoutHolds ==
    ASSUME NEW T, NEW q \in Seq(T), NEW D, Holds(q, D), NEW gone \in SUBSET (1 .. Len(q))
    PROVE  /\ Without(q, gone) \in Seq(T)
           /\ Holds(Without(q, gone), D \ {q[i] : i \in gone})
<1> DEFINE left == (1 .. Len(q)) \ gone
           below(i) == {j \in left : j <= i}
           rank == [i \in left |-> Cardinality(below(i))]
           n == Cardinality(left)
<1>1. Len(q) \in Nat /\ DOMAIN q = 1 .. Len(q)
  OBVIOUS
<1>2. IsFiniteSet(1 .. Len(q)) /\ IsFiniteSet(left) /\ \A i \in left : IsFiniteSet(below(i))
  <2>1. IsFiniteSet(1 .. Len(q))
    BY <1>1, UpTo
  <2>2. left \subseteq 1 .. Len(q) /\ \A i \in left : below(i) \subseteq 1 .. Len(q)
    OBVIOUS
  <2> QED
    BY <2>1, <2>2, FS_Subset, Zenon
<1>3. n \in Nat
  BY <1>2, FS_CardinalityType
<1> HIDE DEF left
<1>4. ASSUME NEW i \in left PROVE rank[i] \in 1 .. n
  <2>1. below(i) \subseteq left /\ i \in below(i)
    BY <1>1 DEF left
  <2>2. Cardinality(below(i)) \in Nat /\ Cardinality(below(i)) <= n
    BY <1>2, <2>1, FS_Subset, FS_CardinalityType
  <2>3. Cardinality(below(i)) # 0
    BY <1>2, <2>1, FS_EmptySet
  <2> QED
    BY <1>3, <2>2, <2>3
<1>5. ASSUME NEW i \in left, NEW j \in left, i < j PROVE rank[i] < rank[j]
  <2>1. below(i) \subseteq below(j) /\ j \in below(j) /\ j \notin below(i)
    BY <1>1, <1>5 DEF left
  <2>2. /\ Cardinality(below(i)) \in Nat /\ Cardinality(below(j)) \in Nat
        /\ Cardinality(below(i)) <= Cardinality(below(j))
        /\ Cardinality(below(i)) = Cardinality(below(j)) => below(j) = below(i)
    BY <1>2, <2>1, FS_Subset, FS_CardinalityType
  <2>3. below(i) # below(j)
    BY <2>1, Zenon
  <2> QED
    BY <2>2, <2>3
<1>6. /\ rank \in Surjection(left, 1 .. n)
      /\ \A i, j \in left : rank[i] = rank[j] => i = j
  <2>1. rank \in [left -> 1 .. n]
    BY <1>4
  <2>2. \A i, j \in left : rank[i] = rank[j] => i = j
    <3> TAKE i, j \in left
    <3>1. rank[i] \in Int /\ rank[j] \in Int /\ i \in Int /\ j \in Int
      BY <1>1, <1>3, <1>4 DEF left
    <3>2. (i < j => rank[i] < rank[j]) /\ (j < i => rank[j] < rank[i])
      BY <1>5, Zenon
    <3> HIDE DEF rank
    <3> QED
      BY <3>1, <3>2
  <2>3. rank \in Injection(left, 1 .. n)
    BY <2>1, <2>2, Fun_IsInj
  <2>4. IsFiniteSet(1 .. n) /\ Cardinality(1 .. n) = Cardinality(left)
    BY <1>3, UpTo
  <2>5. rank \in Surjection(left, 1 .. n)
    BY <2>3, <2>4, FS_Injection
  <2> QED
    BY <2>2, <2>5
<1>7. \A i, j \in left : rank[i] = rank[j] => i = j
  BY <1>6
<1>8. \A k \in 1 .. n : \E i \in left : rank[i] = k
  BY <1>6 DEF Surjection
<1> DEFINE r == Without(q, gone)
           at(k) == CHOOSE i \in left : Cardinality({j \in left : j <= i}) = k
<1>9. r = [k \in 1 .. n |-> q[at(k)]]
  BY <1>1 DEF Without, left
<1>10. \A k \in 1 .. n : at(k) \in left /\ rank[at(k)] = k
  BY <1>8
<1>11. \A i \in left : rank[i] \in 1 .. n
  BY <1>4
<1> HIDE DEF r, at, rank
<1>12. \A k \in 1 .. n : r[k] = q[at(k)]
  BY <1>9
<1>13. r \in [1 .. n -> T]
  <2>1. \A k \in 1 .. n : q[at(k)] \in T
    BY <1>10 DEF left
  <2> QED
    BY <1>9, <2>1
<1>14. r \in Seq(T) /\ Len(r) = n
  BY <1>3, <1>13, FunctionIsSeq
<1> HIDE DEF n
<1>15. \A i, j \in 1 .. Len(q) : q[i] = q[j] => i = j
  BY DEF Holds
<1>16. {q[i] : i \in 1 .. Len(q)} = D
  BY DEF Holds
<1>17. \A k, m \in 1 .. Len(r) : r[k] = r[m] => k = m
  BY <1>10, <1>12, <1>14, <1>15 DEF left
<1>18. ASSUME NEW k \in 1 .. Len(r) PROVE r[k] \in D \ {q[i] : i \in gone}
  BY <1>10, <1>12, <1>14, <1>15, <1>16 DEF left
<1>19. ASSUME NEW y \in D \ {q[i] : i \in gone} PROVE \E k \in 1 .. Len(r) : r[k] = y
  <2>1. PICK i \in left : q[i] = y
    BY <1>16 DEF left
  <2>2. rank[i] \in 1 .. n /\ at(rank[i]) = i
    BY <1>7, <1>10, <1>11
  <2> QED
    BY <1>12, <1>14, <2>1, <2>2
<1> QED
  BY <1>14, <1>17, <1>18, <1>19 DEF Holds, r

-----------------------------------------------------------------------------
(* A step that concerns one thread *)

\* Thread g, and core c, apart, n is s.
Others(s, n, g, c) ==
    /\ \A h \in Gids \ {g} :
          /\ n.state[h] = s.state[h] /\ n.cid[h] = s.cid[h]
          /\ n.handoffThread[h] = s.handoffThread[h] /\ n.futexWord[h] = s.futexWord[h]
          /\ n.markedForSleep[h] = s.markedForSleep[h] /\ n.untilWakeup[h] = s.untilWakeup[h]
          /\ n.mask[h] = s.mask[h] /\ n.fakeLeave[h] = s.fakeLeave[h]
    /\ \A d \in Cores \ {c} : n.curThread[d] = s.curThread[d]

\* Thread g has no part in a handoff.
NoHandOff(s, g) == s.state[g] # "QUEUED" /\ s.handoffThread[g] = NoThread

\* How a queue may follow a change of x that takes the set it holds from D to E.
Follows(q, D, r, E, x) ==
    /\ E \ {x} = D \ {x}
    /\ \/ r = q /\ (x \in D <=> x \in E)
       \/ r = Append(q, x) /\ x \notin D /\ x \in E
       \/ r = S!RemoveFirst(q, x) /\ x \notin E

\* Then it holds what it should.
LEMMA Followed ==
    ASSUME NEW T, NEW q \in Seq(T), NEW D, Holds(q, D), NEW x \in T, NEW r, NEW E,
           Follows(q, D, r, E, x)
    PROVE  Holds(r, E)
<1>1. CASE r = q /\ (x \in D <=> x \in E)
  <2>1. D = E
    BY <1>1 DEF Follows
  <2> QED
    BY <1>1, <2>1
<1>2. CASE r = Append(q, x) /\ x \notin D /\ x \in E
  <2>1. E = D \cup {x}
    BY <1>2 DEF Follows
  <2> QED
    BY <1>2, <2>1, Appended
<1>3. CASE r = S!RemoveFirst(q, x) /\ x \notin E /\ x \in D
  <2>1. E = D \ {x}
    BY <1>3 DEF Follows
  <2> QED
    BY <1>3, <2>1, Removed
<1>4. CASE r = S!RemoveFirst(q, x) /\ x \notin E /\ x \notin D
  <2>1. E \ {x} = D \ {x} /\ x \notin D /\ x \notin E
    BY <1>4 DEF Follows
  <2>2. E = D
    BY <2>1
  <2> QED
    BY <1>4, <2>2, NotThere
<1> QED
  BY <1>1, <1>2, <1>3, <1>4 DEF Follows

\* The queues follow a change of g and c, the sleep queue apart.
LEMMA QueuesFollow ==
    ASSUME NEW s \in SchedulerType, NEW n \in SchedulerType, QueuesHold(s),
           NEW g \in Gids, NEW c \in Cores, Others(s, n, g, c),
           n.handoffThread[g] = s.handoffThread[g], g \notin Promised(s),
           Holds(n.sleepQueue, InState(n, "SLEEPING")),
           \/ n.freeList = s.freeList /\ (s.curThread[c] = NoThread <=> n.curThread[c] = NoThread)
           \/ /\ n.freeList = Append(s.freeList, c)
              /\ s.curThread[c] # NoThread /\ n.curThread[c] = NoThread
           \/ n.freeList = S!RemoveFirst(s.freeList, c) /\ n.curThread[c] # NoThread,
           \/ n.runQueue = s.runQueue /\ (s.state[g] = "QUEUED" <=> n.state[g] = "QUEUED")
           \/ /\ n.runQueue = Append(s.runQueue, g)
              /\ s.state[g] # "QUEUED" /\ n.state[g] = "QUEUED",
           \/ n.outQueue = s.outQueue /\ (s.state[g] = "OUT" <=> n.state[g] = "OUT")
           \/ n.outQueue = Append(s.outQueue, g) /\ s.state[g] # "OUT" /\ n.state[g] = "OUT"
           \/ n.outQueue = S!RemoveFirst(s.outQueue, g) /\ n.state[g] # "OUT",
           \/ n.fakeLeaves = s.fakeLeaves /\ (s.fakeLeave[g] = NoPc <=> n.fakeLeave[g] = NoPc)
           \/ /\ n.fakeLeaves = Append(s.fakeLeaves, g)
              /\ s.fakeLeave[g] = NoPc /\ n.fakeLeave[g] # NoPc
           \/ n.fakeLeaves = S!RemoveFirst(s.fakeLeaves, g) /\ n.fakeLeave[g] = NoPc
    PROVE  QueuesHold(n)
<1>1. /\ s.freeList \in Seq(Cores) /\ s.runQueue \in Seq(Gids) /\ s.outQueue \in Seq(Gids)
      /\ s.fakeLeaves \in Seq(Gids)
  BY DEF SchedulerType
<1>2. /\ Holds(s.freeList, FreeCores(s)) /\ Holds(s.runQueue, Waiters(s))
      /\ Holds(s.outQueue, InState(s, "OUT")) /\ Holds(s.fakeLeaves, FakeLeavers(s))
  BY DEF QueuesHold
<1>3. Follows(s.freeList, FreeCores(s), n.freeList, FreeCores(n), c)
  BY DEF Others, FreeCores, Follows
<1>4. Follows(s.runQueue, Waiters(s), n.runQueue, Waiters(n), g)
  <2>1. Promised(n) = Promised(s)
    BY DEF Others, Promised
  <2> QED
    BY <2>1 DEF Others, Waiters, InState, Follows
<1>5. Follows(s.outQueue, InState(s, "OUT"), n.outQueue, InState(n, "OUT"), g)
  BY DEF Others, InState, Follows
<1>6. Follows(s.fakeLeaves, FakeLeavers(s), n.fakeLeaves, FakeLeavers(n), g)
  BY DEF Others, FakeLeavers, Follows
<1>7. /\ Holds(n.freeList, FreeCores(n)) /\ Holds(n.runQueue, Waiters(n))
      /\ Holds(n.outQueue, InState(n, "OUT")) /\ Holds(n.fakeLeaves, FakeLeavers(n))
  BY <1>1, <1>2, <1>3, <1>4, <1>5, <1>6, Followed
<1> QED
  BY <1>7 DEF QueuesHold

\* A step that changes thread g, its core c, and nothing else that matters.
Local(s, n, p, p1, bs, bs1, sy, sy1, w, w1, g, c) ==
    /\ Others(s, n, g, c)
    /\ NoHandOff(s, g) /\ n.handoffThread[g] = NoThread
    /\ \A h \in Gids \ {g} : p1[h] = p[h] /\ (Forced(w, h) => Forced(w1, h))
    /\ \A d \in Cores \ {c} : bs1[d] = bs[d]
    /\ sy1 \subseteq sy \cup {c} /\ (c \in sy1 \ sy => s.curThread[c] = g)
    /\ s.state[g] \in {"RUNNING", "OUT"} => s.cid[g] = c
    /\ \/ {s.curThread[c], n.curThread[c]} \subseteq {g, NoThread}
       \/ n.curThread[c] = s.curThread[c] /\ bs1[c] = bs[c]
    /\ n.curThread[c] = g <=> n.state[g] \in {"RUNNING", "OUT"}
    /\ n.state[g] \in {"RUNNING", "OUT"} => n.cid[g] = c
    /\ n.curThread[c] \in {g, NoThread} =>
          (bs1[c] \in {"RUNNING", "WAITING"} <=> n.state[g] = "RUNNING")
    /\ n.state[g] = "RUNNING" /\ p1[g] \notin {"joining", "syncing"} => bs1[c] = "RUNNING"
    /\ QueuesHold(n) /\ SleepsOrdered(n) /\ Fits(n, p1, sy1, w1, g) /\ Watched(n, p1, w1)
    /\ \/ n.state[g] = "RUNNING" /\ p1[g] \notin {"entering", "leaving"}
       \/ n.state[g] = "OUT"
       => c \in n.mask[g]
    /\ n.state[g] = "QUEUED" => \A d \in n.mask[g] : Runner(n, d)
    /\ Runner(s, c) => Runner(n, c) \/ \A h \in Waiters(s) : c \notin s.mask[h]

\* Such a step keeps the invariant.
LEMMA OneChange ==
    ASSUME NEW s \in SchedulerType, NEW n \in SchedulerType, NEW p, NEW p1, NEW bs, NEW bs1,
           NEW sy, NEW sy1, NEW w, NEW w1, NEW g \in Gids, NEW c \in Cores,
           Core(s, p, bs, sy, w), Local(s, n, p, p1, bs, bs1, sy, sy1, w, w1, g, c)
    PROVE  Core(n, p1, bs1, sy1, w1)
<1> DEFINE owners == {"RUNNING", "OUT"}
<1>1. /\ NoThread \notin Gids
      /\ s.cid \in [Gids -> Cores] /\ n.cid \in [Gids -> Cores]
      /\ s.curThread \in [Cores -> Gids \cup {NoThread}]
      /\ n.curThread \in [Cores -> Gids \cup {NoThread}]
      /\ s.mask \in [Gids -> Masks] /\ Masks \subseteq SUBSET Cores
      /\ s.handoffThread \in [Gids -> Gids \cup {NoThread}]
  BY GidsAssumption, MasksAssumption DEF SchedulerType
<1>2. Owned(s) /\ Others(s, n, g, c)
  BY DEF Core, Local
<1>3. \A h \in Gids \ {g} :
          /\ n.state[h] = s.state[h] /\ n.cid[h] = s.cid[h]
          /\ n.handoffThread[h] = s.handoffThread[h] /\ n.futexWord[h] = s.futexWord[h]
          /\ n.markedForSleep[h] = s.markedForSleep[h] /\ n.untilWakeup[h] = s.untilWakeup[h]
          /\ n.mask[h] = s.mask[h] /\ n.fakeLeave[h] = s.fakeLeave[h]
          /\ p1[h] = p[h] /\ (Forced(w, h) => Forced(w1, h))
  BY <1>2 DEF Others, Local
<1>4. \A d \in Cores \ {c} : /\ n.curThread[d] = s.curThread[d] /\ bs1[d] = bs[d]
                             /\ s.curThread[d] # g
  BY <1>1, <1>2 DEF Others, Local, Owned
<1>5. \A h \in Gids \ {g} : s.state[h] \in owners /\ s.cid[h] = c =>
          n.curThread[c] = h /\ s.curThread[c] = h /\ bs1[c] = bs[c]
  BY <1>1, <1>2 DEF Local, Owned
<1>6. Owned(n)
  <2>1. ASSUME NEW d \in Cores, n.curThread[d] # NoThread
        PROVE  n.cid[n.curThread[d]] = d /\ n.state[n.curThread[d]] \in owners
    BY <1>1, <1>2, <1>3, <1>4, <2>1 DEF Local, Owned
  <2>2. ASSUME NEW h \in Gids, n.state[h] \in owners
        PROVE  n.curThread[n.cid[h]] = h
    BY <1>1, <1>2, <1>3, <1>4, <1>5, <2>2 DEF Local, Owned
  <2> QED
    BY <2>1, <2>2 DEF Owned
<1>7. Promised(n) = Promised(s) /\ g \notin Promised(s)
  <2>1. n.handoffThread[g] = s.handoffThread[g]
    BY DEF Local, NoHandOff
  <2>2. \A v \in Gids : s.handoffThread[v] # g
    BY <1>1 DEF Local, NoHandOff, Core, HandOffs
  <2> QED
    BY <1>3, <2>1, <2>2 DEF Promised
<1>8. \A h \in Gids \ {g} : s.state[h] = "RUNNING" /\ s.cid[h] \notin sy => s.cid[h] \notin sy1
  BY <1>1, <1>2 DEF Local, Owned
<1>9. HandOffs(n, p1, sy1)
  <2> SUFFICES ASSUME NEW v \in Gids, n.handoffThread[v] # NoThread
               PROVE  /\ p1[v] = "syncing" /\ n.cid[v] \notin sy1
                      /\ n.state[n.handoffThread[v]] = "QUEUED"
                      /\ n.cid[v] \in n.mask[n.handoffThread[v]]
                      /\ \A u \in Gids : n.handoffThread[u] = n.handoffThread[v] => u = v
    BY DEF HandOffs
  <2>1. v # g /\ n.handoffThread[v] = s.handoffThread[v] /\ n.handoffThread[g] = NoThread
    BY <1>3 DEF Local
  <2>2. /\ p[v] = "syncing" /\ s.cid[v] \notin sy
        /\ s.state[s.handoffThread[v]] = "QUEUED"
        /\ s.cid[v] \in s.mask[s.handoffThread[v]]
        /\ \A u \in Gids : s.handoffThread[u] = s.handoffThread[v] => u = v
    BY <2>1 DEF Core, HandOffs
  <2>3. s.state[v] = "RUNNING"
    BY <2>2 DEF Core, Fits
  <2>4. s.handoffThread[v] \in Gids \ {g}
    BY <1>1, <1>7, <2>1 DEF Promised
  <2>5. \A u \in Gids : n.handoffThread[u] = n.handoffThread[v] => u = v
    BY <1>3, <2>1, <2>2, <2>4
  <2> QED
    BY <1>3, <1>8, <2>1, <2>2, <2>3, <2>4, <2>5
<1>10. Agrees(n, p1, bs1)
  <2>1. ASSUME NEW d \in Cores
        PROVE  bs1[d] \in {"RUNNING", "WAITING"} <=> Runner(n, d)
    <3>1. bs[d] \in {"RUNNING", "WAITING"} <=> Runner(s, d)
      BY DEF Core, Agrees
    <3>2. CASE d # c
      BY <1>1, <1>3, <1>4, <3>1, <3>2 DEF Runner
    <3>3. CASE d = c /\ n.curThread[c] \in {g, NoThread}
      BY <1>1, <3>3 DEF Runner, Local
    <3>4. CASE d = c /\ n.curThread[c] \notin {g, NoThread}
      <4>1. n.curThread[c] = s.curThread[c] /\ bs1[c] = bs[c] /\ n.curThread[c] \in Gids \ {g}
        BY <1>1, <3>4 DEF Local
      <4> QED
        BY <1>3, <3>1, <3>4, <4>1 DEF Runner
    <3> QED
      BY <3>2, <3>3, <3>4
  <2>2. ASSUME NEW h \in Gids, n.state[h] = "RUNNING", p1[h] \notin {"joining", "syncing"}
        PROVE  bs1[n.cid[h]] = "RUNNING"
    <3>1. CASE h = g
      BY <2>2, <3>1 DEF Local
    <3>2. CASE h # g
      <4>1. bs[s.cid[h]] = "RUNNING" /\ s.cid[h] \in Cores /\ n.cid[h] = s.cid[h]
        BY <1>1, <1>3, <2>2, <3>2 DEF Core, Agrees
      <4> QED
        BY <1>3, <1>4, <1>5, <2>2, <3>2, <4>1
    <3> QED
      BY <3>1, <3>2
  <2> QED
    BY <2>1, <2>2 DEF Agrees
<1>11. \A h \in Gids : Fits(n, p1, sy1, w1, h)
  <2> TAKE h \in Gids
  <2>1. CASE h = g
    BY <2>1 DEF Local
  <2>2. CASE h # g
    <3>1. Fits(s, p, sy, w, h)
      BY DEF Core
    <3>2. p[h] = "joining" => s.cid[h] \notin sy1
      BY <1>8, <2>2, <3>1 DEF Fits
    <3> QED
      BY <1>3, <2>2, <3>1, <3>2 DEF Fits
  <2> QED
    BY <2>1, <2>2
<1>12. WellUsed(n, p1)
  <2>1. ASSUME NEW h \in Gids,
               \/ n.state[h] = "RUNNING" /\ p1[h] \notin {"entering", "leaving"}
               \/ n.state[h] = "OUT"
        PROVE  n.cid[h] \in n.mask[h]
    <3>1. CASE h = g
      BY <2>1, <3>1 DEF Local
    <3>2. CASE h # g
      BY <1>3, <2>1, <3>2 DEF Core, WellUsed
    <3> QED
      BY <3>1, <3>2
  <2>2. ASSUME NEW h \in Waiters(n), NEW d \in n.mask[h]
        PROVE  Runner(n, d)
    <3>1. CASE h = g
      BY <2>2, <3>1 DEF Local, Waiters, InState
    <3>2. CASE h # g
      <4>1. h \in Waiters(s) /\ h \in Gids /\ d \in s.mask[h] /\ d \in Cores
        BY <1>1, <1>3, <1>7, <2>2, <3>2 DEF Waiters, InState
      <4>2. Runner(s, d)
        BY <4>1 DEF Core, WellUsed
      <4>3. CASE d = c
        BY <4>1, <4>2, <4>3 DEF Local
      <4>4. CASE d # c
        BY <1>1, <1>3, <1>4, <4>1, <4>2, <4>4 DEF Runner
      <4> QED
        BY <4>3, <4>4
    <3> QED
      BY <3>1, <3>2
  <2> QED
    BY <2>1, <2>2 DEF WellUsed
<1> QED
  BY <1>6, <1>9, <1>10, <1>11, <1>12 DEF Core, Local

-----------------------------------------------------------------------------
(* Steps of others: the barrier, the watchdog, the end of a phase *)

\* The barrier may wake cores that wait and drop those that LEFT.
LEMMA OthersMoved ==
    ASSUME NEW s \in SchedulerType, NEW p, NEW bs, NEW bs1, NEW sy, NEW sy1, NEW w,
           Core(s, p, bs, sy, w), \A c \in Cores : BP!Moved(bs[c], bs1[c]), sy1 \subseteq sy
    PROVE  Core(s, p, bs1, sy1, w)
<1>1. s.cid \in [Gids -> Cores]
  BY DEF SchedulerType
<1>2. Agrees(s, p, bs1)
  <2>1. Agrees(s, p, bs)
    BY DEF Core
  <2> QED
    BY <1>1, <2>1 DEF Agrees, BP!Moved
<1>3. HandOffs(s, p, sy1)
  BY DEF Core, HandOffs
<1>4. \A g \in Gids : Fits(s, p, sy1, w, g)
  BY DEF Core, Fits
<1> QED
  BY <1>2, <1>3, <1>4 DEF Core

\* The watchdog goes on.
LEMMA WatchdogOnly ==
    ASSUME NEW s, NEW p, NEW bs, NEW sy, NEW w, NEW w1,
           Core(s, p, bs, sy, w), \A h \in Gids : Forced(w, h) => Forced(w1, h),
           Watched(s, p, w1)
    PROVE  Core(s, p, bs, sy, w1)
<1>1. \A g \in Gids : Fits(s, p, sy, w1, g)
  BY DEF Core, Fits
<1> QED
  BY <1>1 DEF Core

\* Whether the phase moved since the watchdog's last round is only for its use.
LEMMA MovedOnly ==
    ASSUME NEW s, NEW p, NEW bs, NEW sy, NEW w \in WatchdogType, NEW x, Core(s, p, bs, sy, w)
    PROVE  Core(s, p, bs, sy, [w EXCEPT !.moved = x])
<1> DEFINE w1 == [w EXCEPT !.moved = x]
<1>1. w1.at = w.at /\ w1.th = w.th /\ w1.cid = w.cid /\ w1.pid = w.pid
  BY DEF WatchdogType
<1> HIDE DEF w1
<1>2. Watched(s, p, w1) /\ \A h \in Gids : Forced(w, h) => Forced(w1, h)
  BY <1>1 DEF Core, Watched, Forced
<1>3. Core(s, p, bs, sy, w1)
  BY <1>2, WatchdogOnly
<1> QED
  BY <1>3 DEF w1

\* DueBy is the length of the prefix of the sleep queue that is due.
LEMMA DueByIs ==
    ASSUME NEW s \in SchedulerType, NEW u \in Int
    PROVE  /\ DueBy(s, u) \in 0 .. Len(s.sleepQueue)
           /\ \A i \in 1 .. DueBy(s, u) : s.untilWakeup[s.sleepQueue[i]] <= u
           /\ DueBy(s, u) < Len(s.sleepQueue) =>
                 s.untilWakeup[s.sleepQueue[DueBy(s, u) + 1]] > u
<1> DEFINE q == s.sleepQueue
           f == s.untilWakeup
           I == {k \in 0 .. Len(q) : k < Len(q) => f[q[k + 1]] > u}
<1>1. q \in Seq(Gids) /\ Len(q) \in Nat /\ f \in [Gids -> 0 .. MaxSleep] /\ MaxSleep \in Nat
  BY Bounds, Fields
<1> HIDE DEF q, f
<1>2. Len(q) \in I /\ I \in SUBSET Nat
  BY <1>1
<1>3. PICK k \in I : \A m \in I : k <= m
  BY <1>2, LeastNat
<1>4. k \in 0 .. Len(q) /\ Len(q) \in Nat
  <2>1. I \subseteq 0 .. Len(q)
    OBVIOUS
  <2> HIDE DEF I
  <2> QED
    BY <1>1, <1>3, <2>1
<1>5. \A i \in 1 .. k : f[q[i]] <= u
  <2> TAKE i \in 1 .. k
  <2>1. i - 1 \in 0 .. Len(q) /\ i - 1 < Len(q) /\ i - 1 \notin I /\ (i - 1) + 1 = i
    <3>1. i - 1 \in Int /\ i - 1 < k /\ I \in SUBSET Nat /\ k \in Nat
      BY <1>2, <1>4
    <3>2. i - 1 \notin I
      <4> HIDE DEF I
      <4> QED
        BY <1>3, <3>1
    <3> QED
      BY <1>4, <3>2
  <2>2. q[i] \in Gids /\ f[q[i]] \in Int
    <3>1. i \in 1 .. Len(q)
      BY <1>4
    <3>2. q[i] \in Gids
      BY <1>1, <3>1
    <3> QED
      BY <1>1, <3>2
  <2>3. ~ (f[q[(i - 1) + 1]] > u)
    BY <2>1
  <2> QED
    BY <2>1, <2>2, <2>3
<1>6. \E m \in 0 .. Len(q) : /\ \A i \in 1 .. m : f[q[i]] <= u
                             /\ m < Len(q) => f[q[m + 1]] > u
  BY <1>3, <1>5
<1> HIDE DEF I
<1> QED
  BY <1>6 DEF DueBy, q, f

\* All threads that run are in a sync of this phase and none hands off.
Quiet(s, p, sy) ==
    \A v \in Gids : /\ s.handoffThread[v] = NoThread
                    /\ s.state[v] = "RUNNING" => p[v] = "syncing" /\ s.cid[v] \notin sy

\* The sleepers that are due are woken on time.
LEMMA Woken ==
    ASSUME NEW s \in SchedulerType, NEW p, NEW bs, NEW sy, NEW w,
           Core(s, p, bs, sy, w), Quiet(s, p, sy), NEW t \in 0 .. schedQuantum - 1
    PROVE  LET n == [wakeSleepers(s) EXCEPT !.quantum = t]
           IN  /\ n \in SchedulerType /\ n.failed = s.failed
               /\ Core(n, p, bs, sy, w) /\ Quiet(n, p, sy)
<1> DEFINE n == [wakeSleepers(s) EXCEPT !.quantum = t]
           k == DueBy(s, 1)
           q == s.sleepQueue
           due == {q[i] : i \in 1 .. k}
<1>1. /\ s.untilWakeup \in [Gids -> 0 .. MaxSleep] /\ MaxSleep \in Nat
      /\ s.state \in [Gids -> ThreadState] /\ s.futexWord \in [Gids -> {0, 1}]
      /\ q \in Seq(Gids) /\ Len(q) \in Nat
  <2>1. /\ s.untilWakeup \in [Gids -> 0 .. MaxSleep]
        /\ s.state \in [Gids -> ThreadState] /\ s.futexWord \in [Gids -> {0, 1}]
        /\ q \in Seq(Gids)
    BY Fields, Zenon
  <2> HIDE DEF q
  <2>2. Len(q) \in Nat
    BY <2>1
  <2> QED
    BY <2>1, <2>2, Bounds, Zenon
<1>2. /\ k \in 0 .. Len(q)
      /\ \A i \in 1 .. k : s.untilWakeup[q[i]] <= 1
      /\ k < Len(q) => s.untilWakeup[q[k + 1]] > 1
  <2>1. 1 \in Int
    OBVIOUS
  <2> QED
    BY <2>1, DueByIs, Zenon
<1> HIDE DEF k, q
<1>3. Members(SubSeq(q, 1, k)) = due
  <2>1. /\ SubSeq(q, 1, k) \in Seq(Gids) /\ Len(SubSeq(q, 1, k)) = k
        /\ \A i \in 1 .. k : SubSeq(q, 1, k)[i] = q[i]
        /\ DOMAIN SubSeq(q, 1, k) = 1 .. k
    BY <1>1, <1>2
  <2> QED
    BY <2>1 DEF Members, S!ToSet
<1>4. Holds(q, InState(s, "SLEEPING")) /\ SleepsOrdered(s)
  BY DEF Core, QueuesHold, q
<1>5. \A i \in 1 .. Len(q) : q[i] \in InState(s, "SLEEPING")
  BY <1>4 DEF Holds
<1>6. due \subseteq InState(s, "SLEEPING")
  BY <1>1, <1>2, <1>5
<1>7. \A g \in due : s.untilWakeup[g] = 1 /\ s.futexWord[g] = 1
  <2> TAKE g \in due
  <2>1. PICK i \in 1 .. k : g = q[i]
    OBVIOUS
  <2>2. g \in InState(s, "SLEEPING") /\ g \in Gids /\ s.untilWakeup[g] <= 1
    BY <1>2, <1>6, <2>1 DEF InState
  <2>3. s.untilWakeup[g] >= 1 /\ s.futexWord[g] = 1
    BY <1>4, <2>2 DEF SleepsOrdered
  <2> QED
    BY <1>1, <2>2, <2>3
<1> HIDE DEF due
<1>8. n = [s EXCEPT
            !.state = [g \in Gids |-> IF g \in due THEN "BLOCKED" ELSE @[g]],
            !.futexWord = [g \in Gids |-> IF g \in due THEN 0 ELSE @[g]],
            !.sleepQueue = SubSeq(q, k + 1, Len(q)),
            !.untilWakeup = [g \in Gids |-> IF @[g] = 0 THEN 0 ELSE @[g] - 1],
            !.quantum = t]
  <2>1. wakeSleepers(s) =
            [s EXCEPT
               !.state = [g \in Gids |-> IF g \in due THEN "BLOCKED" ELSE @[g]],
               !.futexWord = [g \in Gids |-> IF g \in due THEN 0 ELSE @[g]],
               !.sleepQueue = SubSeq(q, k + 1, Len(q)),
               !.untilWakeup = [g \in Gids |-> IF @[g] = 0 THEN 0 ELSE @[g] - 1]]
    BY <1>3, <1>7, Zenon DEF wakeSleepers, Check, k, q
  <2> QED
    BY <2>1 DEF SchedulerType
<1>9. /\ n.state = [g \in Gids |-> IF g \in due THEN "BLOCKED" ELSE s.state[g]]
      /\ n.futexWord = [g \in Gids |-> IF g \in due THEN 0 ELSE s.futexWord[g]]
      /\ n.sleepQueue = SubSeq(q, k + 1, Len(q))
      /\ n.untilWakeup = [g \in Gids |-> IF s.untilWakeup[g] = 0 THEN 0
                                         ELSE s.untilWakeup[g] - 1]
      /\ n.cid = s.cid /\ n.handoffThread = s.handoffThread
      /\ n.markedForSleep = s.markedForSleep /\ n.mask = s.mask
      /\ n.fakeLeave = s.fakeLeave /\ n.curThread = s.curThread
      /\ n.freeList = s.freeList /\ n.runQueue = s.runQueue /\ n.outQueue = s.outQueue
      /\ n.fakeLeaves = s.fakeLeaves /\ n.failed = s.failed
  BY <1>8, ZenonT(60) DEF SchedulerType
<1>10. /\ SubSeq(q, k + 1, Len(q)) \in Seq(Gids)
       /\ Holds(SubSeq(q, k + 1, Len(q)), InState(s, "SLEEPING") \ due)
       /\ Len(SubSeq(q, k + 1, Len(q))) = Len(q) - k
       /\ \A j \in 1 .. Len(q) - k : SubSeq(q, k + 1, Len(q))[j] = q[k + j]
  BY <1>1, <1>2, <1>4, Shortened DEF due
<1>11. n \in SchedulerType
  <2>1. n.untilWakeup \in [Gids -> 0 .. MaxSleep]
    BY <1>1, <1>9
  <2>2. n.state \in [Gids -> ThreadState] /\ n.futexWord \in [Gids -> {0, 1}]
    BY <1>1, <1>9 DEF ThreadState
  <2>3. n.sleepQueue \in Seq(Gids)
    BY <1>9, <1>10
  <2>4. n = [s EXCEPT !.state = n.state, !.futexWord = n.futexWord,
                      !.sleepQueue = n.sleepQueue, !.untilWakeup = n.untilWakeup,
                      !.quantum = t]
    BY <1>9, <1>8 DEF SchedulerType
  <2> HIDE DEF n
  <2> QED
    BY <2>1, <2>2, <2>3, <2>4, ZenonT(60) DEF SchedulerType
<1> HIDE DEF n
<1>12. \A g \in Gids : n.state[g] = IF g \in due THEN "BLOCKED" ELSE s.state[g]
  BY <1>9
<1>13. \A g \in Gids : g \in due => s.state[g] = "SLEEPING"
  BY <1>6 DEF InState
<1>14. Owned(n)
  BY <1>9, <1>12, <1>13 DEF Core, Owned, SchedulerType
<1>15. QueuesHold(n)
  <2>1. /\ InState(n, "SLEEPING") = InState(s, "SLEEPING") \ due
        /\ InState(n, "OUT") = InState(s, "OUT") /\ InState(n, "QUEUED") = InState(s, "QUEUED")
    BY <1>12, <1>13 DEF InState
  <2>2. /\ FreeCores(n) = FreeCores(s) /\ FakeLeavers(n) = FakeLeavers(s)
        /\ Waiters(n) = Waiters(s)
    BY <1>9, <2>1 DEF FreeCores, FakeLeavers, Waiters, Promised
  <2> QED
    BY <1>9, <1>10, <2>1, <2>2 DEF Core, QueuesHold
<1>16. \A j \in 1 .. Len(q) - k : /\ q[k + j] \in InState(s, "SLEEPING")
                                  /\ s.untilWakeup[q[k + j]] > 1
  <2> TAKE j \in 1 .. Len(q) - k
  <2>1. k + 1 \in 1 .. Len(q) /\ k + j \in 1 .. Len(q) /\ k + 1 <= k + j /\ k < Len(q)
    <3>1. k \in 0 .. Len(q) /\ Len(q) \in Nat /\ j \in 1 .. Len(q) - k
      BY <1>1, <1>2, Zenon
    <3> QED
      BY ONLY <3>1
  <2>2. s.untilWakeup[q[k + 1]] <= s.untilWakeup[q[k + j]] /\ s.untilWakeup[q[k + 1]] > 1
    BY <1>2, <1>4, <2>1 DEF SleepsOrdered, q
  <2>3. s.untilWakeup[q[k + 1]] \in Int /\ s.untilWakeup[q[k + j]] \in Int
    BY <1>1, <2>1
  <2> QED
    BY <1>5, <2>1, <2>2, <2>3
<1>17. SleepsOrdered(n)
  <2>1. ASSUME NEW g \in InState(n, "SLEEPING")
        PROVE  n.untilWakeup[g] >= 1 /\ n.futexWord[g] = 1
    <3>1. g \in Gids /\ g \in InState(s, "SLEEPING") \ due
      BY <1>12, <2>1 DEF InState
    <3>2. PICK j \in 1 .. Len(q) - k : q[k + j] = g
      BY <1>10, <3>1, ZenonT(60) DEF Holds
    <3>3. s.untilWakeup[g] > 1 /\ s.futexWord[g] = 1 /\ s.untilWakeup[g] \in Int
      BY <1>1, <1>4, <1>16, <3>1, <3>2 DEF SleepsOrdered
    <3> QED
      BY <1>9, <3>1, <3>3
  <2>2. ASSUME NEW i \in 1 .. Len(n.sleepQueue), NEW j \in 1 .. Len(n.sleepQueue), i <= j
        PROVE  n.untilWakeup[n.sleepQueue[i]] <= n.untilWakeup[n.sleepQueue[j]]
    <3>1. /\ i \in 1 .. Len(q) - k /\ j \in 1 .. Len(q) - k
          /\ n.sleepQueue[i] = q[k + i] /\ n.sleepQueue[j] = q[k + j]
          /\ k + i \in 1 .. Len(q) /\ k + j \in 1 .. Len(q) /\ k + i <= k + j
      BY <1>1, <1>2, <1>9, <1>10, <2>2, SMTT(30)
    <3>2. s.untilWakeup[q[k + i]] <= s.untilWakeup[q[k + j]]
      BY <1>4, <3>1 DEF SleepsOrdered, q
    <3>3. /\ s.untilWakeup[q[k + i]] \in Int /\ s.untilWakeup[q[k + j]] \in Int
          /\ q[k + i] \in Gids /\ q[k + j] \in Gids
      BY <1>1, <3>1
    <3>4. s.untilWakeup[q[k + i]] > 1 /\ s.untilWakeup[q[k + j]] > 1
      BY <1>16, <3>1
    <3>5. /\ n.untilWakeup[q[k + i]] = s.untilWakeup[q[k + i]] - 1
          /\ n.untilWakeup[q[k + j]] = s.untilWakeup[q[k + j]] - 1
      BY <1>9, <3>3, <3>4, SMTT(30)
    <3> QED
      BY <3>1, <3>2, <3>3, <3>5, SMTT(30)
  <2> QED
    BY <2>1, <2>2 DEF SleepsOrdered
<1>18. Quiet(n, p, sy) /\ HandOffs(n, p, sy)
  BY <1>9, <1>12 DEF Quiet, HandOffs
<1>19. \A c \in Cores : Runner(n, c) <=> Runner(s, c)
  <2> TAKE c \in Cores
  <2>1. s.curThread[c] \in Gids \cup {NoThread}
    BY DEF SchedulerType
  <2> QED
    BY <1>9, <1>12, <1>13, <2>1 DEF Runner
<1>20. Agrees(n, p, bs)
  <2>1. Agrees(s, p, bs)
    BY DEF Core
  <2>2. \A g \in Gids : n.state[g] = "RUNNING" => s.state[g] = "RUNNING"
    BY <1>12
  <2> QED
    BY <1>9, <1>19, <2>1, <2>2 DEF Agrees
<1>21. \A g \in Gids : Fits(n, p, sy, w, g)
  <2> TAKE g \in Gids
  <2>1. Fits(s, p, sy, w, g)
    BY DEF Core
  <2>2. ~ s.markedForSleep[g]
    BY <2>1 DEF Fits, Quiet
  <2>3. CASE g \in due
    <3>1. s.state[g] = "SLEEPING" /\ n.state[g] = "BLOCKED"
      BY <1>12, <1>13, <2>3
    <3> QED
      BY <1>9, <2>1, <2>2, <3>1 DEF Fits
  <2>4. CASE g \notin due
    <3>1. n.state[g] = s.state[g] /\ n.futexWord[g] = s.futexWord[g]
      BY <1>9, <2>4
    <3> QED
      BY <1>9, <2>1, <2>2, <3>1 DEF Fits
  <2> QED
    BY <2>3, <2>4
<1>22. WellUsed(n, p)
  <2>1. Waiters(n) = Waiters(s)
    BY <1>9, <1>12, <1>13 DEF Waiters, InState, Promised
  <2>2. \A g \in Gids : n.state[g] \in {"RUNNING", "OUT"} => s.state[g] = n.state[g]
    BY <1>12
  <2>3. \A g \in Gids : n.mask[g] \subseteq Cores
    BY <1>9, MasksAssumption DEF SchedulerType
  <2>4. Waiters(s) \subseteq Gids
    BY DEF Waiters, InState
  <2> QED
    BY <1>9, <1>19, <2>1, <2>2, <2>3, <2>4 DEF Core, WellUsed
<1>23. Watched(n, p, w)
  BY <1>9, <1>12, <1>13 DEF Core, Watched, Quiet
<1>24. Core(n, p, bs, sy, w)
  BY <1>14, <1>15, <1>17, <1>18, <1>20, <1>21, <1>22, <1>23 DEF Core
<1>25. n.failed = s.failed
  BY <1>9
<1> QED
  BY <1>11, <1>18, <1>24, <1>25 DEF n

\* The end of a quantum keeps the invariant: each handoff that it asks for is that
\* of one queued thread by the one thread that runs on a core of its mask.
LEMMA Ticked ==
    ASSUME NEW s \in SchedulerType, NEW p, NEW bs, NEW sy, NEW w,
           Core(s, p, bs, sy, w), Quiet(s, p, sy), NEW n \in schedTick(s)
    PROVE  n \in SchedulerType /\ n.failed = s.failed /\ Core(n, p, bs, sy, w)
<1>1. PICK to \in Promises(s) : n = HandOff(s, to)
  BY DEF schedTick
<1> DEFINE q == s.runQueue
           given == {i \in DOMAIN to : to[i] # NoCore}
           from(v) == {i \in given : s.curThread[to[i]] = v}
           H == [v \in Gids |-> IF from(v) = {} THEN s.handoffThread[v]
                                ELSE q[CHOOSE i \in from(v) : TRUE]]
<1>2. /\ q \in Seq(Gids) /\ s.curThread \in [Cores -> Gids \cup {NoThread}]
      /\ s.cid \in [Gids -> Cores] /\ s.mask \in [Gids -> Masks]
      /\ s.handoffThread \in [Gids -> Gids \cup {NoThread}] /\ NoThread \notin Gids
  BY Fields, GidsAssumption, Zenon
<1>3. /\ Len(q) \in Nat /\ DOMAIN q = 1 .. Len(q)
      /\ to \in [1 .. Len(q) -> Cores \cup {NoCore}]
      /\ \A i \in 1 .. Len(q) : to[i] # NoCore =>
            to[i] \in s.mask[q[i]] /\ \A j \in 1 .. i - 1 : to[j] # to[i]
  <2>1. /\ to \in [DOMAIN q -> Cores \cup {NoCore}]
        /\ \A i \in DOMAIN to :
              IF s.mask[q[i]] \ {to[j] : j \in 1 .. i - 1} = {} THEN to[i] = NoCore
              ELSE to[i] \in s.mask[q[i]] \ {to[j] : j \in 1 .. i - 1}
    BY <1>1 DEF Promises
  <2>2. Len(q) \in Nat /\ DOMAIN q = 1 .. Len(q)
    <3> HIDE DEF q
    <3> QED
      BY <1>2
  <2>3. \A i \in 1 .. Len(q) : to[i] # NoCore =>
            to[i] \in s.mask[q[i]] /\ \A j \in 1 .. i - 1 : to[j] # to[i]
    BY <2>1, <2>2
  <2> QED
    BY <2>1, <2>2, <2>3
<1> HIDE DEF q
<1>4. /\ given \subseteq 1 .. Len(q)
      /\ \A i \in given : to[i] \in Cores /\ to[i] \in s.mask[q[i]]
      /\ \A i, j \in given : to[i] = to[j] => i = j
  <2>1. given \subseteq 1 .. Len(q) /\ \A i \in given : to[i] \in Cores /\ to[i] \in s.mask[q[i]]
    BY <1>3
  <2>2. ASSUME NEW i \in given, NEW j \in given, to[i] = to[j]
        PROVE  i = j
    <3>1. i \in 1 .. Len(q) /\ j \in 1 .. Len(q) /\ to[i] # NoCore /\ to[j] # NoCore
      BY <1>3
    <3>2. i \notin 1 .. j - 1 /\ j \notin 1 .. i - 1
      BY <1>3, <2>2, <3>1
    <3> QED
      BY <1>3, <3>1, <3>2
  <2> QED
    BY <2>1, <2>2
<1> HIDE DEF given
<1>5. /\ Holds(q, Waiters(s)) /\ Owned(s)
      /\ \A i \in 1 .. Len(q) : q[i] \in Waiters(s)
      /\ \A i, j \in 1 .. Len(q) : q[i] = q[j] => i = j
  <2>1. Holds(q, Waiters(s)) /\ Owned(s)
    BY DEF Core, QueuesHold, q
  <2> QED
    BY <2>1 DEF Holds
<1>6. \A i \in given : /\ s.curThread[to[i]] \in Gids /\ s.cid[s.curThread[to[i]]] = to[i]
                       /\ s.state[s.curThread[to[i]]] = "RUNNING"
  <2> TAKE i \in given
  <2>1. q[i] \in Waiters(s) /\ to[i] \in s.mask[q[i]] /\ to[i] \in Cores
    BY <1>4, <1>5
  <2>2. Runner(s, to[i])
    BY <2>1 DEF Core, WellUsed
  <2> QED
    BY <1>2, <1>5, <2>1, <2>2 DEF Runner, Owned
<1>7. /\ from(NoThread) = {}
      /\ \A v : \A i, j \in from(v) : i = j
  <2>1. \A v : \A i, j \in from(v) : i \in given /\ j \in given /\ to[i] = to[j]
    BY <1>6
  <2>2. \A v : \A i, j \in from(v) : i = j
    <3> TAKE v
    <3> TAKE i, j \in from(v)
    <3>1. i \in given /\ j \in given /\ to[i] = to[j]
      BY <2>1, Zenon
    <3> QED
      BY <1>4, <3>1
  <2>3. from(NoThread) = {}
    BY <1>2, <1>6
  <2> QED
    BY <2>2, <2>3, Zenon
<1>8. n = [s EXCEPT !.handoffThread = H, !.runQueue = Without(q, given)]
  <2> DEFINE d == Check(s, "schedTick", from(NoThread) = {})
  <2>1. d = s
    BY <1>7, Zenon DEF Check
  <2>2. n = [d EXCEPT
               !.handoffThread = [v \in Gids |-> IF from(v) = {} THEN @[v]
                                                 ELSE s.runQueue[CHOOSE i \in from(v) : TRUE]],
               !.runQueue = Without(@, given)]
    BY <1>1, Zenon DEF HandOff, given
  <2> HIDE DEF d
  <2> QED
    BY <2>1, <2>2 DEF q
<1>9. \A v \in Gids : \/ H[v] = NoThread
                      \/ \E i \in given : s.curThread[to[i]] = v /\ H[v] = q[i]
  <2> TAKE v \in Gids
  <2>1. CASE from(v) = {}
    BY <2>1 DEF Quiet
  <2>2. CASE from(v) # {}
    <3>1. (CHOOSE i \in from(v) : TRUE) \in from(v)
      BY <2>2
    <3>2. H[v] = q[CHOOSE i \in from(v) : TRUE]
      BY <2>2
    <3> QED
      BY <3>1, <3>2
  <2> QED
    BY <2>1, <2>2
<1>10. \A i \in given : H[s.curThread[to[i]]] = q[i]
  <2> TAKE i \in given
  <2> DEFINE v == s.curThread[to[i]]
  <2>1. v \in Gids /\ i \in from(v)
    BY <1>6
  <2>2. (CHOOSE j \in from(v) : TRUE) = i
    <3>1. (CHOOSE j \in from(v) : TRUE) \in from(v)
      BY <2>1
    <3> QED
      BY <1>7, <2>1, <3>1
  <2> HIDE DEF v
  <2>3. H[v] = q[i]
    BY <2>1, <2>2
  <2> QED
    BY <2>3 DEF v
<1>11. /\ Without(q, given) \in Seq(Gids)
       /\ Holds(Without(q, given), Waiters(s) \ {q[i] : i \in given})
  BY <1>2, <1>4, <1>5, WithoutHolds
<1>12. H \in [Gids -> Gids \cup {NoThread}]
  <2>1. \A v \in Gids : H[v] \in Gids \cup {NoThread}
    <3>1. \A i \in given : q[i] \in Gids
      BY <1>2, <1>4
    <3> HIDE DEF H
    <3> QED
      BY <1>9, <3>1
  <2>2. H = [v \in Gids |-> H[v]]
    OBVIOUS
  <2> HIDE DEF H
  <2> QED
    BY <2>1, <2>2
<1> HIDE DEF H
<1>13. n \in SchedulerType
  BY <1>8, <1>11, <1>12 DEF SchedulerType
<1>14. /\ n.handoffThread = H /\ n.runQueue = Without(q, given) /\ n.failed = s.failed
       /\ n.state = s.state /\ n.cid = s.cid /\ n.futexWord = s.futexWord
       /\ n.markedForSleep = s.markedForSleep /\ n.untilWakeup = s.untilWakeup
       /\ n.mask = s.mask /\ n.fakeLeave = s.fakeLeave /\ n.curThread = s.curThread
       /\ n.freeList = s.freeList /\ n.outQueue = s.outQueue
       /\ n.sleepQueue = s.sleepQueue /\ n.fakeLeaves = s.fakeLeaves
  BY <1>8 DEF SchedulerType
<1>15. Waiters(n) = Waiters(s) \ {q[i] : i \in given} /\ Waiters(s) \subseteq Gids
  <2>1. InState(n, "QUEUED") = InState(s, "QUEUED") /\ InState(s, "QUEUED") \subseteq Gids
    BY <1>14 DEF InState
  <2>2. \A g \in Gids : g \notin Promised(s)
    BY <1>2 DEF Quiet, Promised
  <2>3. \A g \in Gids : g \in Promised(n) <=> g \in {q[i] : i \in given}
    <3> TAKE g \in Gids
    <3>1. ASSUME g \in Promised(n) PROVE g \in {q[i] : i \in given}
      BY <1>2, <1>9, <1>14, <3>1 DEF Promised
    <3>2. ASSUME NEW i \in given, g = q[i] PROVE g \in Promised(n)
      BY <1>6, <1>10, <1>14, <3>2 DEF Promised
    <3> QED
      BY <3>1, <3>2
  <2> QED
    BY <2>1, <2>2, <2>3 DEF Waiters
<1>16. QueuesHold(n)
  <2>1. /\ FreeCores(n) = FreeCores(s) /\ FakeLeavers(n) = FakeLeavers(s)
        /\ InState(n, "OUT") = InState(s, "OUT") /\ InState(n, "SLEEPING") = InState(s, "SLEEPING")
    BY <1>14 DEF FreeCores, FakeLeavers, InState
  <2> QED
    BY <1>11, <1>14, <1>15, <2>1 DEF Core, QueuesHold
<1>17. HandOffs(n, p, sy)
  <2> SUFFICES ASSUME NEW v \in Gids, H[v] # NoThread
               PROVE  /\ p[v] = "syncing" /\ s.cid[v] \notin sy
                      /\ s.state[H[v]] = "QUEUED"
                      /\ s.cid[v] \in s.mask[H[v]]
                      /\ \A u \in Gids : H[u] = H[v] => u = v
    BY <1>14 DEF HandOffs
  <2>1. PICK i \in given : s.curThread[to[i]] = v /\ H[v] = q[i]
    BY <1>9
  <2>2. q[i] \in Waiters(s) /\ i \in 1 .. Len(q) /\ to[i] \in s.mask[q[i]]
    BY <1>4, <1>5
  <2>3. s.state[v] = "RUNNING" /\ s.cid[v] = to[i]
    BY <1>6, <2>1
  <2>4. \A u \in Gids : H[u] = H[v] => u = v
    <3> TAKE u \in Gids
    <3> HAVE H[u] = H[v]
    <3>1. PICK j \in given : s.curThread[to[j]] = u /\ H[u] = q[j]
      BY <1>9
    <3>2. j = i
      BY <1>4, <1>5, <2>1, <2>2, <3>1
    <3> QED
      BY <2>1, <3>1, <3>2
  <2> QED
    BY <2>1, <2>2, <2>3, <2>4 DEF Quiet, Waiters, InState
<1>18. Owned(n) /\ SleepsOrdered(n) /\ Agrees(n, p, bs) /\ Watched(n, p, w)
  <2>1. Owned(n)
    BY <1>5, <1>14 DEF Owned
  <2>2. SleepsOrdered(n)
    BY <1>14 DEF Core, SleepsOrdered, InState
  <2>3. Agrees(n, p, bs)
    BY <1>14 DEF Core, Agrees, Runner
  <2>4. Watched(n, p, w)
    BY <1>14 DEF Core, Watched
  <2> QED
    BY <2>1, <2>2, <2>3, <2>4
<1>19. \A g \in Gids : Fits(n, p, sy, w, g)
  BY <1>14 DEF Core, Fits
<1>20. WellUsed(n, p)
  BY <1>14, <1>15 DEF Core, WellUsed, Runner
<1> QED
  BY <1>13, <1>14, <1>16, <1>17, <1>18, <1>19, <1>20 DEF Core

\* The end of a phase keeps the invariant, when all who run are in a sync.
LEMMA PhaseEnded ==
    ASSUME NEW s \in SchedulerType, NEW p, NEW bs, NEW sy, NEW w,
           Core(s, p, bs, sy, w), Quiet(s, p, sy), NEW n \in callback(s)
    PROVE  n \in SchedulerType /\ n.failed = s.failed /\ Core(n, p, bs, sy, w)
<1> DEFINE awake == [wakeSleepers(s) EXCEPT !.quantum = (s.quantum + 1) % schedQuantum]
<1>1. (s.quantum + 1) % schedQuantum \in 0 .. schedQuantum - 1
  <2>1. s.quantum \in 0 .. schedQuantum - 1 /\ schedQuantum \in Nat \ {0}
    BY Bounds DEF SchedulerType
  <2> QED
    BY <2>1
<1>2. /\ awake \in SchedulerType /\ awake.failed = s.failed
      /\ Core(awake, p, bs, sy, w) /\ Quiet(awake, p, sy)
  BY <1>1, Woken
<1>3. n = awake \/ n \in schedTick(awake)
  <2>1. wakeSleepers(s).quantum = s.quantum
    BY Zenon DEF wakeSleepers, Check, SchedulerType
  <2> QED
    BY <2>1, Zenon DEF callback
<1> HIDE DEF awake
<1> QED
  BY <1>2, <1>3, Ticked

-----------------------------------------------------------------------------
(* Calls of the barrier *)

\* The barrier of the model is the one that module BarrierProofs is about.
LEMMA SameBarrier ==
    ASSUME NEW c \in Cores
    PROVE  /\ B!join(c) => BP!join(c)
           /\ B!leave(c) => BP!leave(c)
           /\ B!sync(c) => BP!sync(c)
BY Zenon DEF B!join, B!leave, B!sync, BP!join, BP!leave, BP!sync, B!Step, BP!Step,
             B!tryWakeNext, BP!tryWakeNext, B!checkRunList, BP!checkRunList,
             B!checkEndPhase, BP!checkEndPhase, B!PhaseOver, BP!PhaseOver,
             B!Rewind, BP!Rewind, B!Offline, BP!Offline, B!Place, BP!Place,
             B!NewLists, BP!NewLists, B!Orderings, BP!Orderings, B!Dropped, BP!Dropped,
             B!Listed, BP!Listed, B!StopIdx, BP!StopIdx, B!LoopEnds, BP!LoopEnds,
             B!WaitingUpTo, BP!WaitingUpTo, B!WokenIdx, BP!WokenIdx, B!PosOf, BP!PosOf,
             B!ToWaiting, BP!ToWaiting, B!Reschedule, BP!Reschedule,
             B!Cardinality, BP!Cardinality, B!IsFiniteSet, BP!IsFiniteSet

\* What the barrier assumes of its threads and bounds.
LEMMA BarrierAssumes ==
    /\ BP!IsFiniteSet(Cores) /\ parallelThreads \in Nat \ {0}
    /\ CleanupPeriod \in Nat \ {0, 1}
<1>1. IsFiniteSet(Cores)
  BY Bounds, FS_Interval DEF Cores
<1>2. BP!IsFiniteSet(Cores)
  BY <1>1, Zenon DEF IsFiniteSet, BP!IsFiniteSet
<1> QED
  BY <1>2, Bounds

\* A join of the barrier.
LEMMA BarrierJoined ==
    ASSUME BP!BarrierInv, NEW c \in Cores, B!join(c)
    PROVE  /\ bar'.phaseCount = bar.phaseCount /\ synced' = synced \ {c}
           /\ \A d \in Cores : BP!Moved(IF d = c THEN "WAITING" ELSE bar.state[d], bar'.state[d])
           /\ BP!BarrierInv'
<1>1. BP!join(c)
  BY SameBarrier
<1>2. /\ bar'.phaseCount = bar.phaseCount /\ synced' = synced \ {c}
      /\ \A d \in Cores : BP!Moved(IF d = c THEN "WAITING" ELSE bar.state[d], bar'.state[d])
  BY <1>1, BarrierAssumes, BP!JoinStep
<1>3. BP!BarrierInv'
  BY <1>1, BarrierAssumes, BP!NextSound DEF BP!Next
<1> QED
  BY <1>2, <1>3

\* A leave of the barrier.
LEMMA BarrierLeft ==
    ASSUME BP!BarrierInv, NEW c \in Cores, B!leave(c)
    PROVE  /\ synced' = IF PhaseEnds THEN {} ELSE synced
           /\ \A d \in Cores : BP!Moved(IF d = c THEN "LEFT" ELSE bar.state[d], bar'.state[d])
           /\ PhaseEnds => \A d \in Cores \ {c} :
                 bar.state[d] # "RUNNING" /\ (bar.state[d] = "WAITING" => d \in synced)
           /\ BP!BarrierInv'
<1>1. BP!leave(c)
  BY SameBarrier
<1>2. /\ synced' = IF bar'.phaseCount # bar.phaseCount THEN {} ELSE synced
      /\ \A d \in Cores : BP!Moved(IF d = c THEN "LEFT" ELSE bar.state[d], bar'.state[d])
  BY <1>1, BarrierAssumes, BP!LeaveStep
<1>3. bar'.phaseCount # bar.phaseCount => \A d \in Cores \ {c} :
          bar.state[d] # "RUNNING" /\ (bar.state[d] = "WAITING" => d \in synced)
  BY <1>1, BarrierAssumes, BP!EndStep
<1>4. BP!BarrierInv'
  BY <1>1, BarrierAssumes, BP!NextSound DEF BP!Next
<1> QED
  BY <1>2, <1>3, <1>4 DEF PhaseEnds

\* A sync of the barrier.
LEMMA BarrierSynced ==
    ASSUME BP!BarrierInv, NEW c \in Cores, B!sync(c)
    PROVE  /\ synced' = IF PhaseEnds THEN {} ELSE synced \cup {c}
           /\ \A d \in Cores : BP!Moved(IF d = c THEN "WAITING" ELSE bar.state[d], bar'.state[d])
           /\ PhaseEnds => \A d \in Cores \ {c} :
                 bar.state[d] # "RUNNING" /\ (bar.state[d] = "WAITING" => d \in synced)
           /\ BP!BarrierInv'
<1>1. BP!sync(c)
  BY SameBarrier
<1>2. /\ synced' = IF bar'.phaseCount # bar.phaseCount THEN {} ELSE synced \cup {c}
      /\ \A d \in Cores : BP!Moved(IF d = c THEN "WAITING" ELSE bar.state[d], bar'.state[d])
  BY <1>1, BarrierAssumes, BP!SyncStep
<1>3. bar'.phaseCount # bar.phaseCount => \A d \in Cores \ {c} :
          bar.state[d] # "RUNNING" /\ (bar.state[d] = "WAITING" => d \in synced)
  BY <1>1, BarrierAssumes, BP!EndStep
<1>4. BP!BarrierInv'
  BY <1>1, BarrierAssumes, BP!NextSound DEF BP!Next
<1> QED
  BY <1>2, <1>3, <1>4 DEF PhaseEnds

\* When all cores that take part in the phase have synced, all who run are in a
\* sync and none of them is to hand its context off.
LEMMA AllSynced ==
    ASSUME NEW s \in SchedulerType, NEW p, NEW bs, NEW sy, NEW w, Core(s, p, bs, sy, w),
           \A c \in Cores : bs[c] # "RUNNING" /\ (bs[c] = "WAITING" => c \in sy)
    PROVE  Quiet(s, p, {})
<1>1. s.cid \in [Gids -> Cores] /\ NoThread \notin Gids
  BY Fields, GidsAssumption
<1>2. ASSUME NEW v \in Gids, s.state[v] = "RUNNING"
      PROVE  p[v] = "syncing" /\ s.cid[v] \in sy
  <2>1. Runner(s, s.cid[v])
    BY <1>1, <1>2 DEF Core, Owned, Runner
  <2>2. s.cid[v] \in Cores /\ bs[s.cid[v]] \in {"RUNNING", "WAITING"}
    BY <1>1, <2>1 DEF Core, Agrees
  <2>3. s.cid[v] \in sy /\ bs[s.cid[v]] # "RUNNING"
    BY <2>2
  <2>4. p[v] # "joining"
    BY <2>3 DEF Core, Fits
  <2> QED
    BY <1>2, <2>3, <2>4 DEF Core, Agrees
<1>3. ASSUME NEW v \in Gids
      PROVE  s.handoffThread[v] = NoThread
  <2>1. p[v] = "syncing" => s.state[v] = "RUNNING"
    BY DEF Core, Fits
  <2> QED
    BY <1>2, <2>1 DEF Core, HandOffs
<1> QED
  BY <1>2, <1>3 DEF Quiet

\* The watchdog's record after a call of the barrier.
LEMMA StillWatched ==
    ASSUME NEW w \in WatchdogType, NEW x \in BOOLEAN
    PROVE  [w EXCEPT !.moved = @ \/ x] \in WatchdogType
<1>1. w.moved \in BOOLEAN /\ (w.moved \/ x) \in BOOLEAN
  BY DEF WatchdogType
<1> QED
  BY <1>1 DEF WatchdogType

\* The data s with the places p, that the call of the barrier ends with, are sound.
Sound(s, p) ==
    /\ sched' \in SchedulerType /\ sched'.failed = s.failed /\ wd' \in WatchdogType
    /\ Core(sched', p, bar'.state, synced', wd')
    /\ BP!BarrierInv' /\ [B!Next]_<<bar, synced>>

\* No call of the barrier: the data are already as they should be.
LEMMA AfterNothing ==
    ASSUME BP!BarrierInv, NEW s \in SchedulerType, NEW p, NEW w \in WatchdogType,
           NoBarrier(s, w), Core(s, p, bar.state, synced, w)
    PROVE  Sound(s, p)
<1>1. sched' = s /\ wd' = w /\ bar' = bar /\ synced' = synced
  BY DEF NoBarrier
<1>2. BP!BarrierInv'
  <2>1. UNCHANGED BP!vars
    BY <1>1 DEF BP!vars
  <2> QED
    BY <2>1, BarrierAssumes, BP!NextSound
<1> QED
  BY <1>1, <1>2 DEF Sound

\* The data after a call of the barrier that ended the phase, or did not.
LEMMA AfterCall ==
    ASSUME NEW s \in SchedulerType, NEW p, NEW w \in WatchdogType, AfterBarrier(s, w),
           Core(s, p, bar'.state, synced', w), PhaseEnds => Quiet(s, p, synced'),
           BP!BarrierInv', [B!Next]_<<bar, synced>>
    PROVE  Sound(s, p)
<1>1. wd' = [w EXCEPT !.moved = @ \/ PhaseEnds]
  BY DEF AfterBarrier
<1>2. wd' \in WatchdogType
  <2>1. PhaseEnds \in BOOLEAN
    BY DEF PhaseEnds
  <2> QED
    BY <1>1, <2>1, StillWatched
<1>3. sched' \in SchedulerType /\ sched'.failed = s.failed /\ Core(sched', p, bar'.state, synced', w)
  <2>1. CASE PhaseEnds
    BY <2>1, PhaseEnded DEF AfterBarrier
  <2>2. CASE ~ PhaseEnds
    BY <2>2 DEF AfterBarrier
  <2> QED
    BY <2>1, <2>2
<1>4. Core(sched', p, bar'.state, synced', wd')
  BY <1>1, <1>3, MovedOnly
<1> QED
  BY <1>2, <1>3, <1>4 DEF Sound

\* What a join of the barrier by the data s leaves.
LEMMA AfterJoin ==
    ASSUME BP!BarrierInv, NEW s \in SchedulerType, NEW p, wd \in WatchdogType,
           NEW c \in Cores, BarrierJoin(s, c), bar.state[c] \in {"OFFLINE", "LEFT"},
           NEW bs, \A d \in Cores : bs[d] = IF d = c THEN "WAITING" ELSE bar.state[d],
           Core(s, p, bs, synced \ {c}, wd)
    PROVE  Sound(s, p)
<1>1. B!join(c) /\ AfterBarrier(s, wd)
  BY DEF BarrierJoin
<1>2. /\ ~ PhaseEnds /\ synced' = synced \ {c} /\ BP!BarrierInv'
      /\ \A d \in Cores : BP!Moved(IF d = c THEN "WAITING" ELSE bar.state[d], bar'.state[d])
  BY <1>1, BarrierJoined DEF PhaseEnds
<1>3. \A d \in Cores : BP!Moved(bs[d], bar'.state[d])
  BY <1>2
<1>4. Core(s, p, bar'.state, synced', wd)
  BY <1>2, <1>3, OthersMoved
<1>5. [B!Next]_<<bar, synced>>
  BY <1>1, Zenon DEF B!Next
<1> QED
  BY <1>1, <1>2, <1>4, <1>5, AfterCall

\* What a leave of the barrier leaves.
LEMMA AfterLeave ==
    ASSUME BP!BarrierInv, NEW s \in SchedulerType, NEW p, NEW w \in WatchdogType,
           NEW c \in Cores, BarrierLeave(s, c, w), bar.state[c] = "RUNNING",
           NEW bs, \A d \in Cores : bs[d] = IF d = c THEN "LEFT" ELSE bar.state[d],
           Core(s, p, bs, synced, w)
    PROVE  Sound(s, p)
<1>1. B!leave(c) /\ AfterBarrier(s, w)
  BY DEF BarrierLeave
<1>2. /\ synced' = (IF PhaseEnds THEN {} ELSE synced) /\ BP!BarrierInv'
      /\ \A d \in Cores : BP!Moved(IF d = c THEN "LEFT" ELSE bar.state[d], bar'.state[d])
      /\ PhaseEnds => \A d \in Cores \ {c} :
                 bar.state[d] # "RUNNING" /\ (bar.state[d] = "WAITING" => d \in synced)
  BY <1>1, BarrierLeft
<1>3. \A d \in Cores : BP!Moved(bs[d], bar'.state[d])
  BY <1>2
<1>4. synced' \subseteq synced
  BY <1>2
<1>5. Core(s, p, bar'.state, synced', w)
  BY <1>3, <1>4, OthersMoved
<1>6. PhaseEnds => Quiet(s, p, synced')
  <2> HAVE PhaseEnds
  <2>1. \A d \in Cores : bs[d] # "RUNNING" /\ (bs[d] = "WAITING" => d \in synced)
    BY <1>2
  <2>2. Quiet(s, p, {})
    BY <2>1, AllSynced
  <2> QED
    BY <1>2, <2>2
<1>7. [B!Next]_<<bar, synced>>
  BY <1>1, Zenon DEF B!Next
<1> QED
  BY <1>1, <1>2, <1>5, <1>6, <1>7, AfterCall

\* What a sync leaves.
LEMMA AfterSync ==
    ASSUME BP!BarrierInv, NEW s \in SchedulerType, NEW p, wd \in WatchdogType,
           NEW c \in Cores, BarrierSync(s, c), bar.state[c] = "RUNNING",
           NEW bs, \A d \in Cores : bs[d] = IF d = c THEN "WAITING" ELSE bar.state[d],
           Core(s, p, bs, synced \cup {c}, wd)
    PROVE  Sound(s, p)
<1>1. B!sync(c) /\ AfterBarrier(s, wd)
  BY DEF BarrierSync
<1>2. /\ synced' = (IF PhaseEnds THEN {} ELSE synced \cup {c}) /\ BP!BarrierInv'
      /\ \A d \in Cores : BP!Moved(IF d = c THEN "WAITING" ELSE bar.state[d], bar'.state[d])
      /\ PhaseEnds => \A d \in Cores \ {c} :
                 bar.state[d] # "RUNNING" /\ (bar.state[d] = "WAITING" => d \in synced)
  BY <1>1, BarrierSynced
<1>3. \A d \in Cores : BP!Moved(bs[d], bar'.state[d])
  BY <1>2
<1>4. synced' \subseteq synced \cup {c}
  BY <1>2
<1>5. Core(s, p, bar'.state, synced', wd)
  BY <1>3, <1>4, OthersMoved
<1>6. PhaseEnds => Quiet(s, p, synced')
  <2> HAVE PhaseEnds
  <2>1. \A d \in Cores : bs[d] # "RUNNING" /\ (bs[d] = "WAITING" => d \in synced \cup {c})
    BY <1>2
  <2>2. Quiet(s, p, {})
    BY <2>1, AllSynced
  <2> QED
    BY <1>2, <2>2
<1>7. [B!Next]_<<bar, synced>>
  BY <1>1, Zenon DEF B!Next
<1> QED
  BY <1>1, <1>2, <1>5, <1>6, <1>7, AfterCall

-----------------------------------------------------------------------------
(* What a thread does to its own data *)

\* An assertion that holds changes nothing.
LEMMA CheckHolds ==
    ASSUME NEW s, NEW place, NEW holds, holds
    PROVE  Check(s, place, holds) = s
BY Zenon DEF Check

\* Only g moves.
Elsewhere(p, p1, g) == \A h \in Gids \ {g} : p1[h] = p[h]

\* The watchdog does not act for g, or it has just done so.
Minds(w, w1, g) ==
    \/ w1 = w /\ ~ Forced(w, g) /\ w.at # "driving"
    \/ Forced(w, g) /\ w1.at = "relock"

\* What the watchdog counts on is not about g.
LEMMA Minded ==
    ASSUME NEW s, NEW n, NEW p, NEW p1, NEW w, NEW w1, NEW g \in Gids, NEW c,
           Watched(s, p, w), Others(s, n, g, c), Elsewhere(p, p1, g), Minds(w, w1, g)
    PROVE  Watched(n, p1, w1) /\ \A h \in Gids \ {g} : Forced(w, h) => Forced(w1, h)
<1>1. CASE w1 = w /\ ~ Forced(w, g) /\ w.at # "driving"
  BY <1>1 DEF Watched, Others, Elsewhere, Forced
<1>2. CASE Forced(w, g) /\ w1.at = "relock"
  BY <1>2 DEF Watched, Forced
<1> QED
  BY <1>1, <1>2 DEF Minds

\* A thread that stays in its state, where it has no part in a handoff.
LEMMA Stays ==
    ASSUME NEW s \in SchedulerType, NEW n \in SchedulerType, NEW p, NEW p1, NEW bs, NEW sy,
           NEW w, NEW w1, NEW g \in Gids, Core(s, p, bs, sy, w),
           Others(s, n, g, s.cid[g]), Elsewhere(p, p1, g), Watched(n, p1, w1),
           \A h \in Gids \ {g} : Forced(w, h) => Forced(w1, h),
           n.curThread = s.curThread, n.freeList = s.freeList, n.runQueue = s.runQueue,
           n.outQueue = s.outQueue, n.sleepQueue = s.sleepQueue, n.state[g] = s.state[g],
           NoHandOff(s, g), n.handoffThread[g] = NoThread,
           s.state[g] \in {"RUNNING", "OUT"} => n.cid[g] = s.cid[g],
           s.state[g] = "SLEEPING" => /\ n.untilWakeup[g] = s.untilWakeup[g]
                                      /\ n.futexWord[g] = s.futexWord[g],
           \/ n.fakeLeaves = s.fakeLeaves /\ (s.fakeLeave[g] = NoPc <=> n.fakeLeave[g] = NoPc)
           \/ /\ n.fakeLeaves = Append(s.fakeLeaves, g)
              /\ s.fakeLeave[g] = NoPc /\ n.fakeLeave[g] # NoPc
           \/ n.fakeLeaves = S!RemoveFirst(s.fakeLeaves, g) /\ n.fakeLeave[g] = NoPc,
           Fits(n, p1, sy, w1, g),
           s.state[g] = "RUNNING" /\ p1[g] \notin {"joining", "syncing"} =>
               bs[s.cid[g]] = "RUNNING",
           \/ s.state[g] = "RUNNING" /\ p1[g] \notin {"entering", "leaving"}
           \/ s.state[g] = "OUT"
           => s.cid[g] \in n.mask[g]
    PROVE  Core(n, p1, bs, sy, w1)
<1> DEFINE c == s.cid[g]
<1>1. /\ c \in Cores /\ NoThread \notin Gids /\ s.sleepQueue \in Seq(Gids)
      /\ s.curThread \in [Cores -> Gids \cup {NoThread}]
      /\ s.handoffThread \in [Gids -> Gids \cup {NoThread}]
  BY Fields, GidsAssumption
<1> HIDE DEF c
<1>2. \A h \in Gids : n.state[h] = s.state[h]
  BY DEF Others
<1>3. \A st : InState(n, st) = InState(s, st)
  BY <1>2 DEF InState
<1>4. g \notin Promised(s)
  BY <1>1 DEF NoHandOff, Core, HandOffs, Promised
<1>5. QueuesHold(n)
  <2>1. Holds(n.sleepQueue, InState(n, "SLEEPING"))
    BY <1>3 DEF Core, QueuesHold
  <2>2. QueuesHold(s) /\ n.handoffThread[g] = s.handoffThread[g]
    BY DEF Core, NoHandOff
  <2>3. Others(s, n, g, c)
    BY DEF c
  <2>4. /\ s.curThread[c] = NoThread <=> n.curThread[c] = NoThread
        /\ s.state[g] = "QUEUED" <=> n.state[g] = "QUEUED"
        /\ s.state[g] = "OUT" <=> n.state[g] = "OUT"
    OBVIOUS
  <2> QED
    BY <1>1, <1>4, <2>1, <2>2, <2>3, <2>4, QueuesFollow
<1>6. SleepsOrdered(n)
  <2>1. \A h \in InState(s, "SLEEPING") :
            n.untilWakeup[h] = s.untilWakeup[h] /\ n.futexWord[h] = s.futexWord[h]
    BY DEF Others, InState
  <2>2. \A i \in 1 .. Len(s.sleepQueue) : s.sleepQueue[i] \in InState(s, "SLEEPING")
    BY DEF Core, QueuesHold, Holds
  <2> QED
    BY <1>3, <2>1, <2>2 DEF Core, SleepsOrdered
<1>7. /\ s.curThread[c] = g <=> s.state[g] \in {"RUNNING", "OUT"}
      /\ s.curThread[c] \in {g, NoThread} => (bs[c] \in {"RUNNING", "WAITING"} <=>
                                                  s.state[g] = "RUNNING")
  BY <1>1 DEF Core, Owned, Agrees, Runner, c
<1>8. \A d \in Cores : Runner(s, d) => Runner(n, d)
  BY <1>1, <1>2 DEF Runner
<1>9. Local(s, n, p, p1, bs, bs, sy, sy, w, w1, g, c)
  BY <1>1, <1>5, <1>6, <1>7, <1>8 DEF Local, Elsewhere, NoHandOff, c
<1> QED
  BY <1>1, <1>9, OneChange

\* A thread that owns no context, before and after.
LEMMA NoSeat ==
    ASSUME NEW s \in SchedulerType, NEW n \in SchedulerType, NEW p, NEW p1, NEW bs, NEW sy,
           NEW w, NEW w1, NEW g \in Gids, Core(s, p, bs, sy, w),
           Others(s, n, g, s.cid[g]), Elsewhere(p, p1, g), Watched(n, p1, w1),
           \A h \in Gids \ {g} : Forced(w, h) => Forced(w1, h),
           n.curThread = s.curThread, n.freeList = s.freeList, n.outQueue = s.outQueue,
           NoHandOff(s, g), n.handoffThread[g] = NoThread,
           s.state[g] \notin {"RUNNING", "OUT"}, n.state[g] \notin {"RUNNING", "OUT"},
           \/ n.runQueue = s.runQueue /\ n.state[g] # "QUEUED"
           \/ n.runQueue = Append(s.runQueue, g) /\ n.state[g] = "QUEUED",
           Holds(n.sleepQueue, InState(n, "SLEEPING")), SleepsOrdered(n),
           n.fakeLeaves = s.fakeLeaves, n.fakeLeave[g] = NoPc,
           Fits(n, p1, sy, w1, g),
           n.state[g] = "QUEUED" => \A d \in n.mask[g] : Runner(s, d)
    PROVE  Core(n, p1, bs, sy, w1)
<1> DEFINE c == s.cid[g]
<1>1. /\ c \in Cores /\ NoThread \notin Gids /\ n.mask[g] \subseteq Cores
      /\ s.curThread \in [Cores -> Gids \cup {NoThread}]
      /\ s.handoffThread \in [Gids -> Gids \cup {NoThread}]
  BY Fields, GidsAssumption, MasksAssumption
<1> HIDE DEF c
<1>2. g \notin Promised(s)
  BY <1>1 DEF NoHandOff, Core, HandOffs, Promised
<1>3. s.fakeLeave[g] = NoPc
  BY DEF Core, Fits
<1>4. QueuesHold(n)
  <2>1. QueuesHold(s) /\ n.handoffThread[g] = s.handoffThread[g]
    BY DEF Core, NoHandOff
  <2>2. Others(s, n, g, c)
    BY DEF c
  <2>3. /\ s.curThread[c] = NoThread <=> n.curThread[c] = NoThread
        /\ n.runQueue = s.runQueue => n.state[g] # "QUEUED" \/ n.runQueue = Append(s.runQueue, g)
        /\ s.state[g] # "QUEUED"
        /\ s.state[g] = "OUT" <=> n.state[g] = "OUT"
        /\ s.fakeLeave[g] = NoPc <=> n.fakeLeave[g] = NoPc
    BY <1>3 DEF NoHandOff
  <2> QED
    BY <1>1, <1>2, <2>1, <2>2, <2>3, QueuesFollow
<1>5. /\ s.curThread[c] # g
      /\ s.curThread[c] = NoThread => bs[c] \notin {"RUNNING", "WAITING"}
  BY <1>1 DEF Core, Owned, Agrees, Runner, c
<1>6. \A d \in Cores : Runner(s, d) => Runner(n, d)
  BY <1>1 DEF Runner, Core, Owned, Others
<1>7. Local(s, n, p, p1, bs, bs, sy, sy, w, w1, g, c)
  BY <1>1, <1>4, <1>5, <1>6 DEF Local, Elsewhere, NoHandOff, c
<1> QED
  BY <1>1, <1>7, OneChange

-----------------------------------------------------------------------------
(* What happens to a context *)

\* What is put at the back of a queue can be taken out again.
LEMMA BackAgain ==
    ASSUME NEW T, NEW q \in Seq(T), NEW D, Holds(q, D), NEW x \in T, x \notin D
    PROVE  S!RemoveFirst(Append(q, x), x) = q
<1> DEFINE a == Append(q, x)
           r == S!RemoveFirst(a, x)
<1>1. /\ a \in Seq(T) /\ Len(a) = Len(q) + 1 /\ Len(q) \in Nat
      /\ \A i \in 1 .. Len(q) : a[i] = q[i]
      /\ a[Len(q) + 1] = x
  BY AppendProperties
<1> HIDE DEF a
<1>2. \A i \in 1 .. Len(q) : q[i] # x
  BY DEF Holds
<1>3. Len(q) + 1 \in 1 .. Len(a)
  BY <1>1
<1>4. r \in Seq(T) /\ \E i \in 1 .. Len(a) : a[i] = x /\ Drops(a, i, r)
  BY <1>1, <1>3, RemoveFirstDrops
<1> HIDE DEF r
<1>5. PICK i \in 1 .. Len(a) : a[i] = x /\ Drops(a, i, r)
  BY <1>4
<1>6. i = Len(q) + 1
  BY <1>1, <1>2, <1>5
<1>7. Len(r) = Len(q) /\ \A k \in 1 .. Len(q) : r[k] = q[k]
  BY <1>1, <1>5, <1>6 DEF Drops
<1>8. r = q
  BY <1>4, <1>7, SeqEqual
<1> QED
  BY <1>8 DEF r, a

\* The data once the sleep of g has ended.
Roused(s, g) ==
    [s EXCEPT !.state[g] = "BLOCKED", !.untilWakeup[g] = 0,
              !.sleepQueue = S!RemoveFirst(@, g)]

\* A sleep ends before its time.
LEMMA SleepEnded ==
    ASSUME NEW s \in SchedulerType, NEW p, NEW bs, NEW sy, NEW w, NEW g \in Gids,
           Core(s, p, bs, sy, w), s.state[g] = "SLEEPING"
    PROVE  LET n == Roused(s, g)
           IN  n \in SchedulerType /\ n.failed = s.failed /\ Core(n, p, bs, sy, w)
<1> DEFINE n == Roused(s, g)
           q == s.sleepQueue
           r == S!RemoveFirst(q, g)
<1>1. /\ q \in Seq(Gids) /\ NoThread \notin Gids
      /\ s.state \in [Gids -> ThreadState] /\ s.untilWakeup \in [Gids -> 0 .. MaxSleep]
      /\ s.handoffThread \in [Gids -> Gids \cup {NoThread}]
  BY Fields, GidsAssumption
<1>2. Holds(q, InState(s, "SLEEPING")) /\ SleepsOrdered(s)
  BY DEF Core, QueuesHold
<1>3. r \in Seq(Gids) /\ Holds(r, InState(s, "SLEEPING") \ {g})
  <2>1. g \in InState(s, "SLEEPING")
    BY DEF InState
  <2> HIDE DEF q
  <2> QED
    BY <1>1, <1>2, <2>1, Removed
<1>4. \E i \in 1 .. Len(q) : Drops(q, i, r)
  <2>1. \E i \in 1 .. Len(q) : q[i] = g
    BY <1>2 DEF Holds, InState
  <2> HIDE DEF q
  <2> QED
    BY <1>1, <2>1, RemoveFirstDrops
<1> HIDE DEF r
<1>5. /\ n.state = [s.state EXCEPT ![g] = "BLOCKED"]
      /\ n.untilWakeup = [s.untilWakeup EXCEPT ![g] = 0]
      /\ n.sleepQueue = r
      /\ n.cid = s.cid /\ n.handoffThread = s.handoffThread /\ n.futexWord = s.futexWord
      /\ n.markedForSleep = s.markedForSleep /\ n.mask = s.mask
      /\ n.fakeLeave = s.fakeLeave /\ n.curThread = s.curThread
      /\ n.freeList = s.freeList /\ n.runQueue = s.runQueue /\ n.outQueue = s.outQueue
      /\ n.fakeLeaves = s.fakeLeaves /\ n.failed = s.failed
  BY DEF Roused, SchedulerType, r, q
<1>6. n \in SchedulerType
  <2>1. n.state \in [Gids -> ThreadState] /\ n.untilWakeup \in [Gids -> 0 .. MaxSleep]
    BY <1>1, <1>5, Bounds DEF ThreadState
  <2>2. n = [s EXCEPT !.state = n.state, !.untilWakeup = n.untilWakeup, !.sleepQueue = r]
    BY <1>5 DEF Roused, SchedulerType
  <2> HIDE DEF n
  <2> QED
    BY <1>3, <2>1, <2>2, ZenonT(60) DEF SchedulerType
<1> HIDE DEF n
<1>7. /\ \A h \in Gids \ {g} : n.state[h] = s.state[h] /\ n.untilWakeup[h] = s.untilWakeup[h]
      /\ n.state[g] = "BLOCKED" /\ n.untilWakeup[g] = 0
  BY <1>1, <1>5
<1>8. Others(s, n, g, s.cid[g])
  BY <1>5, <1>7 DEF Others
<1>9. InState(n, "SLEEPING") = InState(s, "SLEEPING") \ {g}
  BY <1>7 DEF InState
<1>10. SleepsOrdered(n)
  <2>1. PICK i \in 1 .. Len(q) : Drops(q, i, r)
    BY <1>4
  <2>2. Len(q) \in Nat /\ Len(r) = Len(q) - 1
    <3> HIDE DEF q
    <3> QED
      BY <1>1, <2>1 DEF Drops
  <2>3. ASSUME NEW j \in 1 .. Len(r), NEW k \in 1 .. Len(r), j <= k
        PROVE  s.untilWakeup[r[j]] <= s.untilWakeup[r[k]]
    <3> DEFINE j1 == IF j < i THEN j ELSE j + 1
               k1 == IF k < i THEN k ELSE k + 1
    <3>1. j1 \in 1 .. Len(q) /\ k1 \in 1 .. Len(q) /\ j1 <= k1
      BY <2>2, <2>3
    <3>2. r[j] = q[j1] /\ r[k] = q[k1]
      BY <2>1, <2>2 DEF Drops
    <3> HIDE DEF j1, k1
    <3> QED
      BY <1>2, <3>1, <3>2 DEF SleepsOrdered
  <2>4. \A j \in 1 .. Len(r) : r[j] \in Gids \ {g}
    BY <1>3 DEF Holds, InState
  <2>5. \A j \in 1 .. Len(r) : n.untilWakeup[r[j]] = s.untilWakeup[r[j]]
    BY <1>7, <2>4
  <2>6. \A j, k \in 1 .. Len(n.sleepQueue) :
            j <= k => n.untilWakeup[n.sleepQueue[j]] <= n.untilWakeup[n.sleepQueue[k]]
    BY <1>5, <2>3, <2>5
  <2>7. \A h \in InState(n, "SLEEPING") : n.untilWakeup[h] >= 1 /\ n.futexWord[h] = 1
    BY <1>2, <1>5, <1>7, <1>9 DEF SleepsOrdered, InState
  <2> QED
    BY <2>6, <2>7 DEF SleepsOrdered
<1>11. Fits(s, p, sy, w, g) /\ NoHandOff(s, g)
  BY DEF Core, Fits, HandOffs, NoHandOff
<1>12. /\ Fits(n, p, sy, w, g)
       /\ n.handoffThread[g] = NoThread
       /\ n.fakeLeave[g] = NoPc
  BY <1>5, <1>7, <1>11 DEF Fits, NoHandOff
<1>13. Watched(n, p, w)
  BY <1>5, <1>7 DEF Core, Watched
<1>14. Holds(n.sleepQueue, InState(n, "SLEEPING"))
  BY <1>3, <1>5, <1>9
<1>15. Core(n, p, bs, sy, w)
  BY <1>5, <1>6, <1>7, <1>8, <1>10, <1>11, <1>12, <1>13, <1>14, NoSeat DEF Elsewhere
<1> QED
  BY <1>5, <1>6, <1>15 DEF n
\* The data once g has taken the free context c.
Taken(s, g, c) ==
    [s EXCEPT !.freeList = S!RemoveFirst(@, c), !.state[g] = "RUNNING",
              !.cid[g] = c, !.curThread[c] = g]

\* Thread g takes the free context c and joins with it.
LEMMA Takes ==
    ASSUME NEW s \in SchedulerType, NEW p, NEW p1, NEW bs, NEW bs1, NEW sy, NEW w,
           NEW g \in Gids, NEW c \in Cores, Core(s, p, bs, sy, w), w.at # "driving",
           s.state[g] \in {"STARTED", "BLOCKED"}, s.curThread[c] = NoThread, c \in s.mask[g],
           Elsewhere(p, p1, g), p1[g] = "joining",
           \A d \in Cores : bs1[d] = IF d = c THEN "WAITING" ELSE bs[d]
    PROVE  LET n == Taken(s, g, c)
           IN  n \in SchedulerType /\ n.failed = s.failed /\ Core(n, p1, bs1, sy \ {c}, w)
<1> DEFINE n == Taken(s, g, c)
           r == S!RemoveFirst(s.freeList, c)
<1>1. /\ s.freeList \in Seq(Cores) /\ NoThread \notin Gids
      /\ s.state \in [Gids -> ThreadState] /\ s.cid \in [Gids -> Cores]
      /\ s.curThread \in [Cores -> Gids \cup {NoThread}]
      /\ s.handoffThread \in [Gids -> Gids \cup {NoThread}]
  BY Fields, GidsAssumption
<1>2. r \in Seq(Cores)
  <2>1. Holds(s.freeList, FreeCores(s)) /\ c \in FreeCores(s)
    BY DEF Core, QueuesHold, FreeCores
  <2> QED
    BY <1>1, <2>1, Removed
<1> HIDE DEF r
<1>3. /\ n.state = [s.state EXCEPT ![g] = "RUNNING"]
      /\ n.cid = [s.cid EXCEPT ![g] = c]
      /\ n.curThread = [s.curThread EXCEPT ![c] = g]
      /\ n.freeList = r
      /\ n.handoffThread = s.handoffThread /\ n.futexWord = s.futexWord
      /\ n.markedForSleep = s.markedForSleep /\ n.untilWakeup = s.untilWakeup
      /\ n.mask = s.mask /\ n.fakeLeave = s.fakeLeave
      /\ n.runQueue = s.runQueue /\ n.outQueue = s.outQueue
      /\ n.sleepQueue = s.sleepQueue /\ n.fakeLeaves = s.fakeLeaves /\ n.failed = s.failed
  BY DEF Taken, SchedulerType, r
<1>4. n \in SchedulerType
  <2>1. /\ n.state \in [Gids -> ThreadState] /\ n.cid \in [Gids -> Cores]
        /\ n.curThread \in [Cores -> Gids \cup {NoThread}]
    BY <1>1, <1>3 DEF ThreadState
  <2>2. n = [s EXCEPT !.freeList = r, !.state = n.state, !.cid = n.cid,
                      !.curThread = n.curThread]
    BY <1>3 DEF Taken, SchedulerType
  <2> HIDE DEF n
  <2> QED
    BY <1>2, <2>1, <2>2, ZenonT(60) DEF SchedulerType
<1> HIDE DEF n
<1>5. /\ \A h \in Gids \ {g} : n.state[h] = s.state[h] /\ n.cid[h] = s.cid[h]
      /\ n.state[g] = "RUNNING" /\ n.cid[g] = c
      /\ \A d \in Cores \ {c} : n.curThread[d] = s.curThread[d]
      /\ n.curThread[c] = g
  BY <1>1, <1>3
<1>6. Others(s, n, g, c)
  BY <1>3, <1>5 DEF Others
<1>7. Fits(s, p, sy, w, g) /\ NoHandOff(s, g) /\ Watched(s, p, w)
  BY DEF Core, Fits, HandOffs, NoHandOff
<1>8. n.handoffThread[g] = NoThread /\ n.handoffThread[g] = s.handoffThread[g]
  BY <1>3, <1>7 DEF NoHandOff
<1>9. Watched(n, p1, w) /\ \A h \in Gids \ {g} : Forced(w, h) => Forced(w, h)
  BY <1>6, <1>7, Minded, ZenonT(60) DEF Minds, Watched, Forced
<1>10. g \notin Promised(s)
  BY <1>1, <1>7 DEF NoHandOff, Core, HandOffs, Promised
<1>11. InState(n, "SLEEPING") = InState(s, "SLEEPING")
  BY <1>5 DEF InState
<1>12. QueuesHold(n)
  <2>1. Holds(n.sleepQueue, InState(n, "SLEEPING")) /\ QueuesHold(s)
    BY <1>3, <1>11 DEF Core, QueuesHold
  <2>2. /\ n.freeList = S!RemoveFirst(s.freeList, c) /\ n.curThread[c] # NoThread
        /\ n.runQueue = s.runQueue /\ (s.state[g] = "QUEUED" <=> n.state[g] = "QUEUED")
        /\ n.outQueue = s.outQueue /\ (s.state[g] = "OUT" <=> n.state[g] = "OUT")
        /\ n.fakeLeaves = s.fakeLeaves
        /\ (s.fakeLeave[g] = NoPc <=> n.fakeLeave[g] = NoPc)
    BY <1>1, <1>3, <1>5 DEF r
  <2> QED
    BY <1>4, <1>6, <1>8, <1>10, <2>1, <2>2, QueuesFollow
<1>13. SleepsOrdered(n)
  BY <1>3, <1>11 DEF Core, SleepsOrdered
<1>14. Fits(n, p1, sy \ {c}, w, g)
  BY <1>3, <1>5, <1>7 DEF Fits
<1>15. n.curThread[c] = g /\ ~ Runner(s, c)
  BY <1>5 DEF Runner
<1>16. Local(s, n, p, p1, bs, bs1, sy, sy \ {c}, w, w, g, c)
  BY <1>1, <1>3, <1>5, <1>6, <1>7, <1>8, <1>9, <1>12, <1>13, <1>14, <1>15
     DEF Local, Elsewhere
<1>17. Core(n, p1, bs1, sy \ {c}, w)
  BY <1>4, <1>16, OneChange
<1> QED
  BY <1>3, <1>4, <1>17 DEF n

\* The data once g, which was OUT, has joined again.
Rejoined(s, g) ==
    [s EXCEPT !.state[g] = "RUNNING", !.outQueue = S!RemoveFirst(@, g)]

\* Thread g, which is OUT, joins with the context it kept.
LEMMA Rejoins ==
    ASSUME NEW s \in SchedulerType, NEW p, NEW p1, NEW bs, NEW bs1, NEW sy, NEW w,
           NEW g \in Gids, Core(s, p, bs, sy, w), w.at # "driving",
           s.state[g] = "OUT", Elsewhere(p, p1, g), p1[g] = "joining",
           \A d \in Cores : bs1[d] = IF d = s.cid[g] THEN "WAITING" ELSE bs[d]
    PROVE  LET n == Rejoined(s, g)
           IN  /\ n \in SchedulerType /\ n.failed = s.failed
               /\ Core(n, p1, bs1, sy \ {s.cid[g]}, w)
<1> DEFINE n == Rejoined(s, g)
           r == S!RemoveFirst(s.outQueue, g)
           c == s.cid[g]
<1>1. /\ s.outQueue \in Seq(Gids) /\ NoThread \notin Gids
      /\ s.state \in [Gids -> ThreadState] /\ s.cid \in [Gids -> Cores]
      /\ s.curThread \in [Cores -> Gids \cup {NoThread}]
      /\ s.handoffThread \in [Gids -> Gids \cup {NoThread}]
  BY Fields, GidsAssumption
<1>2. r \in Seq(Gids)
  <2>1. Holds(s.outQueue, InState(s, "OUT")) /\ g \in InState(s, "OUT")
    BY DEF Core, QueuesHold, InState
  <2> QED
    BY <1>1, <2>1, Removed
<1> HIDE DEF r
<1>3. /\ n.state = [s.state EXCEPT ![g] = "RUNNING"]
      /\ n.outQueue = r
      /\ n.cid = s.cid /\ n.curThread = s.curThread /\ n.freeList = s.freeList
      /\ n.handoffThread = s.handoffThread /\ n.futexWord = s.futexWord
      /\ n.markedForSleep = s.markedForSleep /\ n.untilWakeup = s.untilWakeup
      /\ n.mask = s.mask /\ n.fakeLeave = s.fakeLeave
      /\ n.runQueue = s.runQueue
      /\ n.sleepQueue = s.sleepQueue /\ n.fakeLeaves = s.fakeLeaves /\ n.failed = s.failed
  BY DEF Rejoined, SchedulerType, r
<1>4. n \in SchedulerType
  <2>1. n.state \in [Gids -> ThreadState]
    BY <1>1, <1>3 DEF ThreadState
  <2>2. n = [s EXCEPT !.state = n.state, !.outQueue = r]
    BY <1>3 DEF Rejoined, SchedulerType
  <2> HIDE DEF n
  <2> QED
    BY <1>2, <2>1, <2>2, ZenonT(60) DEF SchedulerType
<1> HIDE DEF n
<1>5. /\ \A h \in Gids \ {g} : n.state[h] = s.state[h]
      /\ n.state[g] = "RUNNING" /\ n.cid[g] = c /\ c \in Cores /\ s.curThread[c] = g
      /\ c \in s.mask[g]
  BY <1>1, <1>3 DEF Core, Owned, WellUsed
<1> HIDE DEF c
<1>6. Others(s, n, g, c)
  BY <1>3, <1>5 DEF Others
<1>7. Fits(s, p, sy, w, g) /\ NoHandOff(s, g) /\ Watched(s, p, w)
  BY DEF Core, Fits, HandOffs, NoHandOff
<1>8. n.handoffThread[g] = NoThread /\ n.handoffThread[g] = s.handoffThread[g]
  BY <1>3, <1>7 DEF NoHandOff
<1>9. Watched(n, p1, w) /\ \A h \in Gids \ {g} : Forced(w, h) => Forced(w, h)
  BY <1>6, <1>7, Minded, ZenonT(60) DEF Minds, Watched, Forced
<1>10. g \notin Promised(s)
  BY <1>1, <1>7 DEF NoHandOff, Core, HandOffs, Promised
<1>11. InState(n, "SLEEPING") = InState(s, "SLEEPING")
  BY <1>5 DEF InState
<1>12. QueuesHold(n)
  <2>1. Holds(n.sleepQueue, InState(n, "SLEEPING")) /\ QueuesHold(s)
    BY <1>3, <1>11 DEF Core, QueuesHold
  <2>2. /\ n.freeList = s.freeList /\ (s.curThread[c] = NoThread <=> n.curThread[c] = NoThread)
        /\ n.runQueue = s.runQueue /\ (s.state[g] = "QUEUED" <=> n.state[g] = "QUEUED")
        /\ n.outQueue = S!RemoveFirst(s.outQueue, g) /\ n.state[g] # "OUT"
        /\ n.fakeLeaves = s.fakeLeaves
        /\ (s.fakeLeave[g] = NoPc <=> n.fakeLeave[g] = NoPc)
    BY <1>1, <1>3, <1>5 DEF r
  <2> QED
    BY <1>4, <1>5, <1>6, <1>8, <1>10, <2>1, <2>2, QueuesFollow
<1>13. SleepsOrdered(n)
  BY <1>3, <1>11 DEF Core, SleepsOrdered
<1>14. Fits(n, p1, sy \ {c}, w, g)
  BY <1>3, <1>5, <1>7 DEF Fits
<1>15. n.curThread[c] = g /\ ~ Runner(s, c)
  BY <1>3, <1>5 DEF Runner
<1>16. \A d \in Cores : bs1[d] = IF d = c THEN "WAITING" ELSE bs[d]
  BY DEF c
<1>17. Local(s, n, p, p1, bs, bs1, sy, sy \ {c}, w, w, g, c)
  BY <1>1, <1>3, <1>5, <1>6, <1>7, <1>8, <1>9, <1>12, <1>13, <1>14, <1>15, <1>16
     DEF Local, Elsewhere, c
<1>18. Core(n, p1, bs1, sy \ {c}, w)
  BY <1>4, <1>5, <1>17, OneChange
<1> QED
  BY <1>3, <1>4, <1>18 DEF n, c

\* The data once g has left and kept its context.
GoneOut(s, g) ==
    [s EXCEPT !.state[g] = "OUT", !.outQueue = Append(@, g)]

\* Thread g leaves and keeps its context while it is OUT.
LEMMA GoesOut ==
    ASSUME NEW s \in SchedulerType, NEW p, NEW p1, NEW bs, NEW bs1, NEW sy, NEW w, NEW w1,
           NEW g \in Gids, Core(s, p, bs, sy, w), Minds(w, w1, g),
           s.state[g] = "RUNNING", s.cid[g] \in s.mask[g], s.fakeLeave[g] = NoPc,
           s.handoffThread[g] = NoThread, ~ s.markedForSleep[g],
           \A h \in Waiters(s) : s.cid[g] \notin s.mask[h],
           Elsewhere(p, p1, g), p1[g] \in {"out", "matching", "finEnd"},
           \A d \in Cores : bs1[d] = IF d = s.cid[g] THEN "LEFT" ELSE bs[d]
    PROVE  LET n == GoneOut(s, g)
           IN  n \in SchedulerType /\ n.failed = s.failed /\ Core(n, p1, bs1, sy, w1)
<1> DEFINE n == GoneOut(s, g)
           r == Append(s.outQueue, g)
           c == s.cid[g]
<1>1. /\ s.outQueue \in Seq(Gids) /\ NoThread \notin Gids
      /\ s.state \in [Gids -> ThreadState] /\ s.cid \in [Gids -> Cores]
      /\ s.curThread \in [Cores -> Gids \cup {NoThread}]
      /\ s.handoffThread \in [Gids -> Gids \cup {NoThread}]
  BY Fields, GidsAssumption
<1>2. r \in Seq(Gids)
  BY <1>1
<1> HIDE DEF r
<1>3. /\ n.state = [s.state EXCEPT ![g] = "OUT"]
      /\ n.outQueue = r
      /\ n.cid = s.cid /\ n.curThread = s.curThread /\ n.freeList = s.freeList
      /\ n.handoffThread = s.handoffThread /\ n.futexWord = s.futexWord
      /\ n.markedForSleep = s.markedForSleep /\ n.untilWakeup = s.untilWakeup
      /\ n.mask = s.mask /\ n.fakeLeave = s.fakeLeave
      /\ n.runQueue = s.runQueue
      /\ n.sleepQueue = s.sleepQueue /\ n.fakeLeaves = s.fakeLeaves /\ n.failed = s.failed
  BY DEF GoneOut, SchedulerType, r
<1>4. n \in SchedulerType
  <2>1. n.state \in [Gids -> ThreadState]
    BY <1>1, <1>3 DEF ThreadState
  <2>2. n = [s EXCEPT !.state = n.state, !.outQueue = r]
    BY <1>3 DEF GoneOut, SchedulerType
  <2> HIDE DEF n
  <2> QED
    BY <1>2, <2>1, <2>2, ZenonT(60) DEF SchedulerType
<1> HIDE DEF n
<1>5. /\ \A h \in Gids \ {g} : n.state[h] = s.state[h]
      /\ n.state[g] = "OUT" /\ n.cid[g] = c /\ c \in Cores /\ s.curThread[c] = g
  BY <1>1, <1>3 DEF Core, Owned
<1> HIDE DEF c
<1>6. Others(s, n, g, c)
  BY <1>3, <1>5 DEF Others
<1>7. Fits(s, p, sy, w, g) /\ NoHandOff(s, g) /\ Watched(s, p, w)
  BY DEF Core, NoHandOff
<1>8. n.handoffThread[g] = NoThread /\ n.handoffThread[g] = s.handoffThread[g]
  BY <1>3, <1>7 DEF NoHandOff
<1>9. Watched(n, p1, w1) /\ \A h \in Gids \ {g} : Forced(w, h) => Forced(w1, h)
  BY <1>6, <1>7, Minded
<1>10. g \notin Promised(s)
  BY <1>1, <1>7 DEF NoHandOff, Core, HandOffs, Promised
<1>11. InState(n, "SLEEPING") = InState(s, "SLEEPING")
  BY <1>5 DEF InState
<1>12. QueuesHold(n)
  <2>1. Holds(n.sleepQueue, InState(n, "SLEEPING")) /\ QueuesHold(s)
    BY <1>3, <1>11 DEF Core, QueuesHold
  <2>2. /\ n.freeList = s.freeList /\ (s.curThread[c] = NoThread <=> n.curThread[c] = NoThread)
        /\ n.runQueue = s.runQueue /\ (s.state[g] = "QUEUED" <=> n.state[g] = "QUEUED")
        /\ n.outQueue = Append(s.outQueue, g) /\ s.state[g] # "OUT" /\ n.state[g] = "OUT"
        /\ n.fakeLeaves = s.fakeLeaves
        /\ (s.fakeLeave[g] = NoPc <=> n.fakeLeave[g] = NoPc)
    BY <1>1, <1>3, <1>5 DEF r
  <2> QED
    BY <1>4, <1>5, <1>6, <1>8, <1>10, <2>1, <2>2, QueuesFollow
<1>13. SleepsOrdered(n)
  BY <1>3, <1>11 DEF Core, SleepsOrdered
<1>14. Fits(n, p1, sy, w1, g)
  BY <1>3, <1>5, <1>7 DEF Fits
<1>15. n.curThread[c] = g /\ \A h \in Waiters(s) : c \notin s.mask[h]
  BY <1>3, <1>5 DEF c
<1>16. \A d \in Cores : bs1[d] = IF d = c THEN "LEFT" ELSE bs[d]
  BY DEF c
<1>17. c \in n.mask[g]
  BY <1>3 DEF c
<1>18. Local(s, n, p, p1, bs, bs1, sy, sy, w, w1, g, c)
  BY <1>1, <1>3, <1>5, <1>6, <1>7, <1>8, <1>9, <1>12, <1>13, <1>14, <1>15, <1>16, <1>17
     DEF Local, Elsewhere, c
<1>19. Core(n, p1, bs1, sy, w1)
  BY <1>4, <1>5, <1>18, OneChange
<1> QED
  BY <1>3, <1>4, <1>19 DEF n

\* Thread g gives up the context c, which becomes free, and runs no more.
LEMMA Frees ==
    ASSUME NEW s \in SchedulerType, NEW n \in SchedulerType, NEW p, NEW p1, NEW bs, NEW bs1,
           NEW sy, NEW w, NEW w1, NEW g \in Gids, NEW c \in Cores, Core(s, p, bs, sy, w),
           c = s.cid[g], Others(s, n, g, c), Elsewhere(p, p1, g), Watched(n, p1, w1),
           \A h \in Gids \ {g} : Forced(w, h) => Forced(w1, h),
           s.handoffThread[g] = NoThread, n.handoffThread[g] = NoThread,
           n.state[g] \in {"BLOCKED", "SLEEPING", "STARTED"}, n.curThread[c] = NoThread,
           n.freeList = Append(s.freeList, c), n.runQueue = s.runQueue,
           \/ s.state[g] = "OUT" /\ n.outQueue = S!RemoveFirst(s.outQueue, g)
           \/ /\ s.state[g] = "RUNNING" /\ n.outQueue = s.outQueue
              /\ \A h \in Waiters(s) : c \notin s.mask[h],
           Holds(n.sleepQueue, InState(n, "SLEEPING")), SleepsOrdered(n),
           n.fakeLeaves = s.fakeLeaves, s.fakeLeave[g] = NoPc, n.fakeLeave[g] = NoPc,
           Fits(n, p1, sy, w1, g),
           \A d \in Cores : bs1[d] \in {"RUNNING", "WAITING"} <=>
                                d # c /\ bs[d] \in {"RUNNING", "WAITING"},
           \A d \in Cores \ {c} : bs1[d] = bs[d]
    PROVE  Core(n, p1, bs1, sy, w1)
<1>1. /\ NoThread \notin Gids
      /\ s.curThread \in [Cores -> Gids \cup {NoThread}]
      /\ s.handoffThread \in [Gids -> Gids \cup {NoThread}]
  BY Fields, GidsAssumption
<1>2. NoHandOff(s, g) /\ s.curThread[c] = g
  BY DEF NoHandOff, Core, Owned
<1>3. g \notin Promised(s)
  BY <1>1, <1>2 DEF NoHandOff, Core, HandOffs, Promised
<1>4. QueuesHold(n)
  <2>1. QueuesHold(s) /\ n.handoffThread[g] = s.handoffThread[g]
    BY DEF Core
  <2>2. /\ n.freeList = Append(s.freeList, c) /\ s.curThread[c] # NoThread
        /\ n.curThread[c] = NoThread
        /\ n.runQueue = s.runQueue /\ (s.state[g] = "QUEUED" <=> n.state[g] = "QUEUED")
        /\ n.fakeLeaves = s.fakeLeaves
        /\ (s.fakeLeave[g] = NoPc <=> n.fakeLeave[g] = NoPc)
    BY <1>1, <1>2
  <2>3. \/ n.outQueue = s.outQueue /\ (s.state[g] = "OUT" <=> n.state[g] = "OUT")
        \/ n.outQueue = S!RemoveFirst(s.outQueue, g) /\ n.state[g] # "OUT"
    OBVIOUS
  <2> QED
    BY <1>3, <2>1, <2>2, <2>3, QueuesFollow
<1>5. Runner(s, c) => \A h \in Waiters(s) : c \notin s.mask[h]
  BY <1>2 DEF Runner
<1>6. Local(s, n, p, p1, bs, bs1, sy, sy, w, w1, g, c)
  BY <1>1, <1>2, <1>4, <1>5 DEF Local, Elsewhere
<1> QED
  BY <1>6, OneChange

\* Thread g comes to the end of a phase.
LEMMA Syncs ==
    ASSUME NEW s \in SchedulerType, NEW p, NEW p1, NEW bs, NEW bs1, NEW sy, NEW w,
           NEW g \in Gids, Core(s, p, bs, sy, w), w.at # "driving",
           p[g] = "run", p1[g] = "syncing", Elsewhere(p, p1, g),
           \A d \in Cores : bs1[d] = IF d = s.cid[g] THEN "WAITING" ELSE bs[d]
    PROVE  Core(s, p1, bs1, sy \cup {s.cid[g]}, w)
<1> DEFINE c == s.cid[g]
<1>1. /\ NoThread \notin Gids /\ c \in Cores
      /\ s.curThread \in [Cores -> Gids \cup {NoThread}]
  BY Fields, GidsAssumption
<1> HIDE DEF c
<1>2. Fits(s, p, sy, w, g) /\ NoHandOff(s, g) /\ Watched(s, p, w)
  BY DEF Core, Fits, HandOffs, NoHandOff
<1>3. s.state[g] = "RUNNING" /\ s.curThread[c] = g /\ c \in s.mask[g]
  BY <1>2 DEF Core, Owned, Fits, WellUsed, c
<1>4. Others(s, s, g, c)
  BY DEF Others
<1>5. Watched(s, p1, w) /\ \A h \in Gids \ {g} : Forced(w, h) => Forced(w, h)
  <2>1. ~ Forced(w, g)
    BY <1>2 DEF Watched, Forced
  <2> QED
    BY <1>2, <1>4, <2>1, Minded DEF Minds
<1>6. Fits(s, p1, sy \cup {c}, w, g)
  BY <1>2, <1>3 DEF Fits
<1>7. QueuesHold(s) /\ SleepsOrdered(s)
  BY DEF Core
<1>8. Runner(s, c)
  BY <1>1, <1>3 DEF Runner
<1>9. \A d \in Cores : bs1[d] = IF d = c THEN "WAITING" ELSE bs[d]
  BY DEF c
<1>10. Local(s, s, p, p1, bs, bs1, sy, sy \cup {c}, w, w, g, c)
  BY <1>1, <1>2, <1>3, <1>4, <1>5, <1>6, <1>7, <1>8, <1>9
     DEF Local, Elsewhere, NoHandOff, c
<1>11. Core(s, p1, bs1, sy \cup {c}, w)
  BY <1>1, <1>10, OneChange
<1> QED
  BY <1>11 DEF c

\* A sleep begins: the sleep queue stays in the order of the deadlines.
LEMMA SleepInserted ==
    ASSUME NEW s \in SchedulerType, QueuesHold(s), SleepsOrdered(s), NEW g \in Gids,
           s.state[g] # "SLEEPING", s.untilWakeup[g] >= 1, s.futexWord[g] = 1,
           NEW n, n.sleepQueue = sleepInsert(s, g), n.untilWakeup = s.untilWakeup,
           InState(n, "SLEEPING") = InState(s, "SLEEPING") \cup {g},
           \A h \in InState(n, "SLEEPING") : n.futexWord[h] = s.futexWord[h]
    PROVE  /\ n.sleepQueue \in Seq(Gids)
           /\ Holds(n.sleepQueue, InState(n, "SLEEPING"))
           /\ SleepsOrdered(n)
<1> DEFINE q == s.sleepQueue
           f == s.untilWakeup
           k == DueBy(s, f[g])
           r == S!InsertAt(q, k + 1, g)
<1>1. /\ q \in Seq(Gids) /\ f \in [Gids -> 0 .. MaxSleep] /\ MaxSleep \in Nat
      /\ Holds(q, InState(s, "SLEEPING")) /\ g \notin InState(s, "SLEEPING")
  BY Fields, Bounds DEF QueuesHold, InState
<1>2. f[g] \in Int
  BY <1>1
<1>3. /\ k \in 0 .. Len(q)
      /\ \A i \in 1 .. k : f[q[i]] <= f[g]
      /\ k < Len(q) => f[q[k + 1]] > f[g]
  BY <1>2, DueByIs, Zenon
<1>4. n.sleepQueue = r
  BY DEF sleepInsert
<1>5. \A i, j \in 1 .. Len(q) : i <= j => f[q[i]] <= f[q[j]]
  BY DEF SleepsOrdered
<1> HIDE DEF q, f, k
<1>6. /\ r \in Seq(Gids) /\ Holds(r, InState(s, "SLEEPING") \cup {g})
      /\ Inserts(q, k, g, r)
  <2>1. /\ q \in Seq(Gids) /\ Holds(q, InState(s, "SLEEPING")) /\ g \in Gids
        /\ g \notin InState(s, "SLEEPING") /\ k \in 0 .. Len(q)
    BY <1>1, <1>3
  <2> QED
    BY <2>1, Inserted, Zenon
<1> HIDE DEF r
<1>7. /\ r \in Seq(Gids) /\ Holds(r, InState(s, "SLEEPING") \cup {g})
      /\ Len(r) = Len(q) + 1
      /\ \A j \in 1 .. Len(q) + 1 :
            r[j] = IF j <= k THEN q[j] ELSE IF j = k + 1 THEN g ELSE q[j - 1]
  BY <1>6 DEF Inserts
<1>8. Len(q) \in Nat /\ k \in Nat /\ k <= Len(q) /\ \A i \in 1 .. Len(q) : f[q[i]] \in Int
  <2>1. Len(q) \in Nat /\ \A i \in 1 .. Len(q) : q[i] \in Gids
    BY <1>1
  <2>2. \A i \in 1 .. Len(q) : f[q[i]] \in Int
    BY <1>1, <2>1
  <2> QED
    BY <1>3, <2>1, <2>2
<1>9. \A i \in 1 .. Len(q) : k < i => f[q[i]] > f[g]
  <2> TAKE i \in 1 .. Len(q)
  <2> HAVE k < i
  <2>1. k + 1 \in 1 .. Len(q) /\ k + 1 <= i /\ k < Len(q)
    BY <1>8
  <2>2. f[q[k + 1]] > f[g] /\ f[q[k + 1]] <= f[q[i]]
    BY <1>3, <1>5, <2>1
  <2> QED
    BY <1>2, <1>8, <2>1, <2>2
<1>10. ASSUME NEW i \in 1 .. Len(r), NEW j \in 1 .. Len(r), i <= j
       PROVE  f[r[i]] <= f[r[j]]
  <2>1. i \in 1 .. Len(q) + 1 /\ j \in 1 .. Len(q) + 1
    BY <1>7
  <2>2. CASE j <= k
    <3>1. r[i] = q[i] /\ r[j] = q[j] /\ i \in 1 .. Len(q) /\ j \in 1 .. Len(q)
      BY <1>7, <1>8, <1>10, <2>1, <2>2
    <3> QED
      BY <1>5, <1>10, <3>1
  <2>3. CASE j = k + 1
    <3>1. r[j] = g
      BY <1>7, <1>8, <2>1, <2>3
    <3>2. CASE i = j
      BY <1>2, <3>1, <3>2
    <3>3. CASE i # j
      <4>1. i \in 1 .. k /\ r[i] = q[i]
        BY <1>7, <1>8, <1>10, <2>1, <2>3, <3>3
      <4> QED
        BY <1>3, <3>1, <4>1
    <3> QED
      BY <3>2, <3>3
  <2>4. CASE j > k + 1
    <3>1. j - 1 \in 1 .. Len(q) /\ k < j - 1 /\ ~ (j <= k) /\ j # k + 1
      BY <1>8, <2>1, <2>4
    <3>2. r[j] = q[j - 1]
      BY <1>7, <2>1, <3>1
    <3>3. CASE i <= k
      <4>1. r[i] = q[i] /\ i \in 1 .. Len(q) /\ i <= j - 1
        BY <1>7, <1>8, <2>1, <3>1, <3>3
      <4> QED
        BY <1>5, <3>1, <3>2, <4>1
    <3>4. CASE i = k + 1
      <4>1. r[i] = g /\ f[q[j - 1]] > f[g]
        BY <1>7, <1>8, <1>9, <2>1, <3>1, <3>4
      <4> QED
        BY <1>2, <1>8, <3>1, <3>2, <4>1
    <3>5. CASE ~ (i <= k) /\ i # k + 1
      <4>1. i - 1 \in 1 .. Len(q) /\ i - 1 <= j - 1
        BY <1>8, <1>10, <2>1, <3>1, <3>5
      <4>2. r[i] = q[i - 1]
        BY <1>7, <2>1, <3>5
      <4> QED
        BY <1>5, <3>1, <3>2, <4>1, <4>2
    <3> QED
      BY <3>3, <3>4, <3>5
  <2> QED
    BY <1>8, <2>1, <2>2, <2>3, <2>4
<1>11. \A h \in InState(n, "SLEEPING") : n.untilWakeup[h] >= 1 /\ n.futexWord[h] = 1
  BY DEF SleepsOrdered
<1>12. SleepsOrdered(n)
  <2>1. n.untilWakeup = f
    BY DEF f
  <2> QED
    BY <1>4, <1>10, <1>11, <2>1 DEF SleepsOrdered
<1> QED
  BY <1>4, <1>7, <1>12

-----------------------------------------------------------------------------
(* A context that passes from one thread to another *)

\* Threads g and i, and core c, apart, n is s.
OtherTwo(s, n, g, i, c) ==
    /\ \A h \in Gids \ {g, i} :
          /\ n.state[h] = s.state[h] /\ n.cid[h] = s.cid[h] /\ n.futexWord[h] = s.futexWord[h]
          /\ n.markedForSleep[h] = s.markedForSleep[h]
    /\ \A h \in Gids \ {g} : n.handoffThread[h] = s.handoffThread[h]
    /\ n.mask = s.mask /\ n.fakeLeave = s.fakeLeave
    /\ \A h \in Gids \ {g} : n.untilWakeup[h] = s.untilWakeup[h]
    /\ \A d \in Cores \ {c} : n.curThread[d] = s.curThread[d]
    /\ n.freeList = s.freeList /\ n.outQueue = s.outQueue /\ n.fakeLeaves = s.fakeLeaves

\* Thread g, which runs on c, gives c to i, which waits for a context.
LEMMA Passes ==
    ASSUME NEW s \in SchedulerType, NEW n \in SchedulerType, NEW p, NEW p1, NEW bs, NEW sy,
           NEW w, NEW w1, NEW g \in Gids, NEW i \in Gids, NEW c \in Cores,
           Core(s, p, bs, sy, w), Elsewhere(p, p1, g), Watched(n, p1, w1),
           \A h \in Gids \ {g} : Forced(w, h) => Forced(w1, h),
           c = s.cid[g], s.state[g] = "RUNNING", bs[c] = "RUNNING", s.fakeLeave[g] = NoPc,
           s.state[i] = "QUEUED", c \in s.mask[i],
           \A v \in Gids \ {g} : s.handoffThread[v] # i,
           s.handoffThread[g] \in {i, NoThread}, n.handoffThread[g] = NoThread,
           OtherTwo(s, n, g, i, c), n.state[g] \in {"BLOCKED", "SLEEPING"},
           n.state[i] = "RUNNING", n.cid[i] = c, n.curThread[c] = i,
           n.futexWord[i] = 0, n.markedForSleep[i] = s.markedForSleep[i],
           Holds(n.runQueue, Waiters(s) \ {i}),
           Holds(n.sleepQueue, InState(n, "SLEEPING")), SleepsOrdered(n),
           Fits(n, p1, sy, w1, g)
    PROVE  Core(n, p1, bs, sy, w1)
<1>1. /\ NoThread \notin Gids /\ g # i
      /\ s.cid \in [Gids -> Cores] /\ n.cid \in [Gids -> Cores]
      /\ s.curThread \in [Cores -> Gids \cup {NoThread}]
      /\ n.curThread \in [Cores -> Gids \cup {NoThread}]
      /\ s.mask \in [Gids -> Masks] /\ Masks \subseteq SUBSET Cores
      /\ s.handoffThread \in [Gids -> Gids \cup {NoThread}]
  <2>1. s.cid \in [Gids -> Cores] /\ n.cid \in [Gids -> Cores]
        /\ s.curThread \in [Cores -> Gids \cup {NoThread}]
        /\ n.curThread \in [Cores -> Gids \cup {NoThread}]
        /\ s.mask \in [Gids -> Masks] 
        /\ s.handoffThread \in [Gids -> Gids \cup {NoThread}]
    BY Fields, Zenon
  <2> QED
    BY <2>1, GidsAssumption, MasksAssumption
<1>2. \A h \in Gids \ {g, i} :
          /\ n.state[h] = s.state[h] /\ n.cid[h] = s.cid[h]
          /\ n.handoffThread[h] = s.handoffThread[h] /\ n.futexWord[h] = s.futexWord[h]
          /\ n.markedForSleep[h] = s.markedForSleep[h] /\ n.untilWakeup[h] = s.untilWakeup[h]
          /\ n.mask[h] = s.mask[h] /\ n.fakeLeave[h] = s.fakeLeave[h]
          /\ p1[h] = p[h] /\ (Forced(w, h) => Forced(w1, h))
  BY DEF OtherTwo, Elsewhere
<1>3. /\ n.handoffThread[i] = s.handoffThread[i] /\ n.mask[i] = s.mask[i]
      /\ n.fakeLeave[i] = s.fakeLeave[i] /\ p1[i] = p[i]
      /\ n.untilWakeup[i] = s.untilWakeup[i] /\ n.mask[g] = s.mask[g]
      /\ n.fakeLeave[g] = s.fakeLeave[g] /\ (Forced(w, i) => Forced(w1, i))
  BY <1>1 DEF OtherTwo, Elsewhere
<1>4. \A d \in Cores \ {c} : n.curThread[d] = s.curThread[d]
  BY DEF OtherTwo
<1>5. /\ Owned(s) /\ s.curThread[c] = g
      /\ Fits(s, p, sy, w, i) /\ p[i] = "waiting" /\ s.fakeLeave[i] = NoPc
      /\ ~ s.markedForSleep[i] /\ s.handoffThread[i] = NoThread
  BY DEF Core, Owned, Fits, HandOffs
<1>6. \A d \in Cores \ {c} : s.curThread[d] # g /\ s.curThread[d] # i
  BY <1>1, <1>5 DEF Owned
<1>7. \A h \in Gids \ {g, i} : s.state[h] \in {"RUNNING", "OUT"} => s.cid[h] # c
  BY <1>1, <1>5 DEF Owned
<1>8. Owned(n)
  <2>1. ASSUME NEW d \in Cores, n.curThread[d] # NoThread
        PROVE  n.cid[n.curThread[d]] = d /\ n.state[n.curThread[d]] \in {"RUNNING", "OUT"}
    <3>1. CASE d = c
      BY <3>1
    <3>2. CASE d # c
      BY <1>1, <1>2, <1>4, <1>5, <1>6, <2>1, <3>2 DEF Owned
    <3> QED
      BY <3>1, <3>2
  <2>2. ASSUME NEW h \in Gids, n.state[h] \in {"RUNNING", "OUT"}
        PROVE  n.curThread[n.cid[h]] = h
    <3>1. CASE h = i
      BY <3>1
    <3>2. CASE h # i
      <4>1. h \in Gids \ {g, i}
        BY <2>2, <3>2
      <4> QED
        BY <1>1, <1>2, <1>4, <1>5, <1>7, <2>2, <4>1 DEF Owned
    <3> QED
      BY <3>1, <3>2
  <2> QED
    BY <2>1, <2>2 DEF Owned
<1>9. \A d \in Cores : Runner(n, d) <=> Runner(s, d)
  <2> TAKE d \in Cores
  <2>1. CASE d = c
    BY <1>1, <1>5, <2>1 DEF Runner
  <2>2. CASE d # c
    BY <1>1, <1>2, <1>4, <1>6, <2>2 DEF Runner
  <2> QED
    BY <2>1, <2>2
<1>10. \A h \in Gids \ {g, i} : h \in Promised(n) <=> h \in Promised(s)
  BY <1>1, <1>2, <1>3, <1>5, SMTT(30) DEF Promised
<1>11. Waiters(n) = Waiters(s) \ {i} /\ Waiters(n) \subseteq Gids \ {g, i}
  <2>1. /\ InState(n, "QUEUED") = InState(s, "QUEUED") \ {i}
        /\ InState(n, "QUEUED") \subseteq Gids \ {g, i}
    BY <1>1, <1>2 DEF InState
  <2> QED
    BY <1>10, <2>1 DEF Waiters
<1>12. QueuesHold(n)
  <2>1. InState(n, "OUT") = InState(s, "OUT")
    BY <1>1, <1>2 DEF InState
  <2>2. FreeCores(n) = FreeCores(s) /\ FakeLeavers(n) = FakeLeavers(s)
    BY <1>1, <1>4, <1>5 DEF FreeCores, FakeLeavers, OtherTwo
  <2> QED
    BY <1>11, <2>1, <2>2 DEF Core, QueuesHold, OtherTwo
<1>13. HandOffs(n, p1, sy)
  <2> SUFFICES ASSUME NEW v \in Gids, n.handoffThread[v] # NoThread
               PROVE  /\ p1[v] = "syncing" /\ n.cid[v] \notin sy
                      /\ n.state[n.handoffThread[v]] = "QUEUED"
                      /\ n.cid[v] \in n.mask[n.handoffThread[v]]
                      /\ \A u \in Gids : n.handoffThread[u] = n.handoffThread[v] => u = v
    BY DEF HandOffs
  <2>1. v \in Gids \ {g, i} /\ n.handoffThread[v] = s.handoffThread[v]
    BY <1>2, <1>3, <1>5
  <2>2. /\ p[v] = "syncing" /\ s.cid[v] \notin sy
        /\ s.state[s.handoffThread[v]] = "QUEUED"
        /\ s.cid[v] \in s.mask[s.handoffThread[v]]
        /\ \A u \in Gids : s.handoffThread[u] = s.handoffThread[v] => u = v
    BY <2>1 DEF Core, HandOffs
  <2>3. s.handoffThread[v] \in Gids \ {g, i}
    BY <1>1, <2>1, <2>2
  <2>4. \A u \in Gids : n.handoffThread[u] = n.handoffThread[v] => u = v
    BY <1>2, <1>3, <2>1, <2>2
  <2> QED
    BY <1>2, <2>1, <2>2, <2>3, <2>4
<1>14. Agrees(n, p1, bs)
  <2>1. ASSUME NEW h \in Gids, n.state[h] = "RUNNING", p1[h] \notin {"joining", "syncing"}
        PROVE  bs[n.cid[h]] = "RUNNING"
    <3>1. CASE h = i
      BY <3>1
    <3>2. CASE h # i
      <4>1. h \in Gids \ {g, i}
        BY <2>1, <3>2
      <4> QED
        BY <1>2, <2>1, <4>1 DEF Core, Agrees
    <3> QED
      BY <3>1, <3>2
  <2> QED
    BY <1>9, <2>1 DEF Core, Agrees
<1>15. \A h \in Gids : Fits(n, p1, sy, w1, h)
  <2> TAKE h \in Gids
  <2>1. CASE h = g
    BY <2>1
  <2>2. CASE h = i
    BY <1>3, <1>5, <2>2 DEF Fits
  <2>3. CASE h \notin {g, i}
    <3>1. Fits(s, p, sy, w, h)
      BY DEF Core
    <3> QED
      BY <1>2, <2>3, <3>1 DEF Fits
  <2> QED
    BY <2>1, <2>2, <2>3
<1>16. WellUsed(n, p1)
  <2>1. ASSUME NEW h \in Gids,
               \/ n.state[h] = "RUNNING" /\ p1[h] \notin {"entering", "leaving"}
               \/ n.state[h] = "OUT"
        PROVE  n.cid[h] \in n.mask[h]
    <3>1. CASE h = i
      BY <1>3, <3>1
    <3>2. CASE h # i
      <4>1. h \in Gids \ {g, i}
        BY <2>1, <3>2
      <4> QED
        BY <1>2, <2>1, <4>1 DEF Core, WellUsed
    <3> QED
      BY <3>1, <3>2
  <2>2. ASSUME NEW h \in Waiters(n), NEW d \in n.mask[h]
        PROVE  Runner(n, d)
    <3>1. h \in Gids \ {g, i} /\ h \in Waiters(s)
      BY <1>11
    <3>2. d \in s.mask[h] /\ d \in Cores
      BY <1>1, <1>2, <2>2, <3>1
    <3> QED
      BY <1>9, <3>1, <3>2 DEF Core, WellUsed
  <2> QED
    BY <2>1, <2>2 DEF WellUsed
<1> QED
  BY <1>8, <1>12, <1>13, <1>14, <1>15, <1>16 DEF Core

-----------------------------------------------------------------------------
(* The search for a context *)

\* A free core that is found is free and allowed; otherwise there is none.
LEMMA FreeCoreFound ==
    ASSUME NEW s \in SchedulerType, QueuesHold(s), NEW g \in Gids
    PROVE  LET c == FreeCore(s, g)
           IN  /\ c # NoCore => c \in Cores /\ s.curThread[c] = NoThread /\ c \in s.mask[g]
               /\ c = NoCore => \A d \in s.mask[g] : s.curThread[d] # NoThread
<1> DEFINE q == s.freeList
           I == {i \in 1 .. Len(q) : q[i] \in s.mask[g]}
           first == q[CHOOSE i \in DOMAIN q : /\ q[i] \in s.mask[g]
                                              /\ \A j \in 1 .. i - 1 : q[j] \notin s.mask[g]]
<1>1. q \in Seq(Cores) /\ s.mask[g] \subseteq Cores /\ s.cid[g] \in Cores /\ NoCore \notin Cores
  <2>1. s.mask \in [Gids -> Masks] /\ q \in Seq(Cores) /\ s.cid \in [Gids -> Cores]
    BY Fields, Zenon
  <2>2. NoCore \notin Cores
    BY Bounds DEF NoCore, Cores
  <2> QED
    BY <2>1, <2>2, MasksAssumption
<1>2. Holds(q, FreeCores(s))
  BY DEF QueuesHold
<1>3. FreeCore(s, g) = IF s.curThread[s.cid[g]] = NoThread /\ s.cid[g] \in s.mask[g] THEN s.cid[g]
                       ELSE IF Members(q) \cap s.mask[g] # {} THEN first
                       ELSE NoCore
  BY Zenon DEF FreeCore, First
<1> HIDE DEF q
<1>4. Members(q) = FreeCores(s) /\ DOMAIN q = 1 .. Len(q) /\ Len(q) \in Nat
  BY <1>1, <1>2 DEF Members, S!ToSet, Holds
<1>5. CASE Members(q) \cap s.mask[g] # {}
  <2>1. I \in SUBSET (1 .. Len(q)) /\ I # {}
    BY <1>2, <1>4, <1>5 DEF Holds
  <2> HIDE DEF I
  <2>2. PICK n \in DOMAIN q : n \in I /\ \A j \in 1 .. n - 1 : j \notin I
    BY <1>1, <2>1, FirstPlace
  <2>3. \A j \in 1 .. n - 1 : q[j] \notin s.mask[g]
    <3> TAKE j \in 1 .. n - 1
    <3>1. j \in 1 .. Len(q) /\ j \notin I
      BY <1>4, <2>2
    <3> QED
      BY <3>1 DEF I
  <2>4. q[n] \in s.mask[g]
    BY <2>2 DEF I
  <2>5. first \in Members(q) /\ first \in s.mask[g]
    <3>1. \E i \in DOMAIN q : q[i] \in s.mask[g] /\ \A j \in 1 .. i - 1 : q[j] \notin s.mask[g]
      BY <2>2, <2>3, <2>4
    <3> QED
      BY <3>1 DEF Members, S!ToSet
  <2> HIDE DEF first
  <2>6. first \in Cores /\ s.curThread[first] = NoThread
    BY <1>1, <1>4, <2>5 DEF FreeCores
  <2> QED
    BY <1>1, <1>3, <1>5, <2>5, <2>6
<1>6. CASE Members(q) \cap s.mask[g] = {}
  BY <1>1, <1>3, <1>4, <1>6 DEF FreeCores
<1> QED
  BY <1>5, <1>6

\* A thread that is OUT and whose core g may use, when there is one.
LEMMA OutFound ==
    ASSUME NEW s \in SchedulerType, QueuesHold(s), NEW g \in Gids
    PROVE  LET stealable(o) == s.cid[o] \in s.mask[g]
               out == First(s.outQueue, stealable)
           IN  IF \E o \in Members(s.outQueue) : stealable(o)
               THEN out \in Gids /\ s.state[out] = "OUT" /\ s.cid[out] \in s.mask[g]
               ELSE \A o \in InState(s, "OUT") : s.cid[o] \notin s.mask[g]
<1> DEFINE q == s.outQueue
           I == {i \in 1 .. Len(q) : s.cid[q[i]] \in s.mask[g]}
           first == q[CHOOSE i \in DOMAIN q : /\ s.cid[q[i]] \in s.mask[g]
                                              /\ \A j \in 1 .. i - 1 : s.cid[q[j]] \notin s.mask[g]]
           stealable(o) == s.cid[o] \in s.mask[g]
<1>1. q \in Seq(Gids)
  BY Fields
<1>2. Holds(q, InState(s, "OUT"))
  BY DEF QueuesHold
<1>3. First(q, stealable) = first
  BY Zenon DEF First
<1> HIDE DEF q
<1>4. Members(q) = InState(s, "OUT") /\ DOMAIN q = 1 .. Len(q) /\ Len(q) \in Nat
  BY <1>1, <1>2 DEF Members, S!ToSet, Holds
<1>5. CASE \E o \in Members(q) : stealable(o)
  <2>1. I \in SUBSET (1 .. Len(q)) /\ I # {}
    BY <1>2, <1>4, <1>5 DEF Holds
  <2> HIDE DEF I
  <2>2. PICK n \in DOMAIN q : n \in I /\ \A j \in 1 .. n - 1 : j \notin I
    BY <1>1, <2>1, FirstPlace
  <2>3. \A j \in 1 .. n - 1 : s.cid[q[j]] \notin s.mask[g]
    <3> TAKE j \in 1 .. n - 1
    <3>1. j \in 1 .. Len(q) /\ j \notin I
      BY <1>4, <2>2
    <3> QED
      BY <3>1 DEF I
  <2>4. s.cid[q[n]] \in s.mask[g]
    BY <2>2 DEF I
  <2>5. first \in Members(q) /\ s.cid[first] \in s.mask[g]
    <3>1. \E i \in DOMAIN q : /\ s.cid[q[i]] \in s.mask[g]
                              /\ \A j \in 1 .. i - 1 : s.cid[q[j]] \notin s.mask[g]
      BY <2>2, <2>3, <2>4
    <3> QED
      BY <3>1 DEF Members, S!ToSet
  <2> HIDE DEF first
  <2>6. first \in Gids /\ s.state[first] = "OUT"
    BY <1>4, <2>5 DEF InState
  <2> QED
    BY <1>3, <1>5, <2>5, <2>6, Zenon DEF q
<1>6. CASE ~ \E o \in Members(q) : stealable(o)
  BY <1>4, <1>6, Zenon DEF q
<1> QED
  BY <1>5, <1>6

\* A queued thread that may run on c, when there is one.
LEMMA QueuedFound ==
    ASSUME NEW s \in SchedulerType, QueuesHold(s), NEW c \in Cores
    PROVE  IF schedContext(s, c) # NoThread
           THEN schedContext(s, c) \in Waiters(s) /\ c \in s.mask[schedContext(s, c)]
           ELSE \A h \in Waiters(s) : c \notin s.mask[h]
<1> DEFINE q == s.runQueue
           I == {i \in 1 .. Len(q) : c \in s.mask[q[i]]}
           first == q[CHOOSE i \in DOMAIN q : /\ c \in s.mask[q[i]]
                                              /\ \A j \in 1 .. i - 1 : c \notin s.mask[q[j]]]
<1>1. q \in Seq(Gids) /\ NoThread \notin Gids
  BY Fields, GidsAssumption
<1>2. Holds(q, Waiters(s)) /\ Waiters(s) \subseteq Gids
  BY DEF QueuesHold, Waiters, InState
<1>3. schedContext(s, c) = IF \E g \in Members(q) : c \in s.mask[g] THEN first ELSE NoThread
  BY Zenon DEF schedContext, First
<1> HIDE DEF q
<1>4. Members(q) = Waiters(s) /\ DOMAIN q = 1 .. Len(q) /\ Len(q) \in Nat
  BY <1>1, <1>2 DEF Members, S!ToSet, Holds
<1>5. CASE \E g \in Members(q) : c \in s.mask[g]
  <2>1. I \in SUBSET (1 .. Len(q)) /\ I # {}
    BY <1>2, <1>4, <1>5 DEF Holds
  <2> HIDE DEF I
  <2>2. PICK n \in DOMAIN q : n \in I /\ \A j \in 1 .. n - 1 : j \notin I
    BY <1>1, <2>1, FirstPlace
  <2>3. \A j \in 1 .. n - 1 : c \notin s.mask[q[j]]
    <3> TAKE j \in 1 .. n - 1
    <3>1. j \in 1 .. Len(q) /\ j \notin I
      BY <1>4, <2>2
    <3> QED
      BY <3>1 DEF I
  <2>4. c \in s.mask[q[n]]
    BY <2>2 DEF I
  <2>5. first \in Members(q) /\ c \in s.mask[first]
    <3>1. \E i \in DOMAIN q : /\ c \in s.mask[q[i]]
                              /\ \A j \in 1 .. i - 1 : c \notin s.mask[q[j]]
      BY <2>2, <2>3, <2>4
    <3> QED
      BY <3>1 DEF Members, S!ToSet
  <2> HIDE DEF first
  <2> QED
    BY <1>1, <1>2, <1>3, <1>4, <1>5, <2>5
<1>6. CASE ~ \E g \in Members(q) : c \in s.mask[g]
  BY <1>3, <1>4, <1>6
<1> QED
  BY <1>5, <1>6
\* The data once o, which was OUT, has lost its context.
Dispossessed(s, o) ==
    [s EXCEPT !.outQueue = S!RemoveFirst(@, o), !.state[o] = "BLOCKED",
              !.curThread[s.cid[o]] = NoThread,
              !.freeList = Append(@, s.cid[o])]

\* A thread that is OUT loses its context, which is free in between.
LEMMA Stolen ==
    ASSUME NEW s \in SchedulerType, NEW p, NEW bs, NEW sy, NEW w, NEW o \in Gids,
           Core(s, p, bs, sy, w), w.at # "driving", s.state[o] = "OUT"
    PROVE  LET n == Dispossessed(s, o)
           IN  n \in SchedulerType /\ n.failed = s.failed /\ Core(n, p, bs, sy, w)
<1> DEFINE n == Dispossessed(s, o)
           r == S!RemoveFirst(s.outQueue, o)
           c == s.cid[o]
<1>1. /\ s.outQueue \in Seq(Gids) /\ s.freeList \in Seq(Cores) /\ NoThread \notin Gids
      /\ s.state \in [Gids -> ThreadState] /\ s.cid \in [Gids -> Cores]
      /\ s.curThread \in [Cores -> Gids \cup {NoThread}] /\ c \in Cores
      /\ s.handoffThread \in [Gids -> Gids \cup {NoThread}]
  BY Fields, GidsAssumption
<1>2. r \in Seq(Gids) /\ Append(s.freeList, c) \in Seq(Cores)
  <2>1. Holds(s.outQueue, InState(s, "OUT")) /\ o \in InState(s, "OUT")
    BY DEF Core, QueuesHold, InState
  <2>2. r \in Seq(Gids)
    BY <1>1, <2>1, Removed
  <2>3. Append(s.freeList, c) \in Seq(Cores)
    BY <1>1
  <2> QED
    BY <2>2, <2>3
<1> HIDE DEF r, c
<1>3. /\ n.state = [s.state EXCEPT ![o] = "BLOCKED"]
      /\ n.outQueue = r /\ n.freeList = Append(s.freeList, c)
      /\ n.curThread = [s.curThread EXCEPT ![c] = NoThread]
      /\ n.cid = s.cid
      /\ n.handoffThread = s.handoffThread /\ n.futexWord = s.futexWord
      /\ n.markedForSleep = s.markedForSleep /\ n.untilWakeup = s.untilWakeup
      /\ n.mask = s.mask /\ n.fakeLeave = s.fakeLeave
      /\ n.runQueue = s.runQueue
      /\ n.sleepQueue = s.sleepQueue /\ n.fakeLeaves = s.fakeLeaves /\ n.failed = s.failed
  BY DEF Dispossessed, SchedulerType, r, c
<1>4. n \in SchedulerType
  <2>1. n.state \in [Gids -> ThreadState] /\ n.curThread \in [Cores -> Gids \cup {NoThread}]
    BY <1>1, <1>3 DEF ThreadState
  <2>2. n = [s EXCEPT !.state = n.state, !.outQueue = r, !.freeList = Append(@, c),
                      !.curThread = n.curThread]
    BY <1>3, ZenonT(60) DEF Dispossessed, SchedulerType, c
  <2> HIDE DEF n
  <2> QED
    BY <1>2, <2>1, <2>2, ZenonT(60) DEF SchedulerType
<1> HIDE DEF n
<1>5. /\ \A h \in Gids \ {o} : n.state[h] = s.state[h]
      /\ n.state[o] = "BLOCKED" /\ n.curThread[c] = NoThread
      /\ \A d \in Cores \ {c} : n.curThread[d] = s.curThread[d]
  BY <1>1, <1>3
<1>6. Others(s, n, o, c)
  BY <1>3, <1>5 DEF Others
<1>7. Fits(s, p, sy, w, o) /\ NoHandOff(s, o) /\ Watched(s, p, w) /\ ~ Forced(w, o)
  BY DEF Core, Fits, HandOffs, NoHandOff, Watched, Forced
<1>8. n.handoffThread[o] = NoThread /\ s.handoffThread[o] = NoThread
  BY <1>3, <1>7 DEF NoHandOff
<1>9. Elsewhere(p, p, o)
  BY DEF Elsewhere
<1>10. Watched(n, p, w) /\ \A h \in Gids \ {o} : Forced(w, h) => Forced(w, h)
  BY <1>6, <1>7, <1>9, Minded DEF Minds
<1>11. InState(n, "SLEEPING") = InState(s, "SLEEPING")
  BY <1>5 DEF InState
<1>12. Holds(n.sleepQueue, InState(n, "SLEEPING")) /\ SleepsOrdered(n)
  BY <1>3, <1>11, SMTT(30) DEF Core, QueuesHold, SleepsOrdered
<1>13. Fits(n, p, sy, w, o) /\ s.fakeLeave[o] = NoPc /\ n.fakeLeave[o] = NoPc
  BY <1>3, <1>5, <1>7 DEF Fits
<1>14. bs[c] \notin {"RUNNING", "WAITING"}
  <2>1. s.curThread[c] = o
    BY DEF Core, Owned, c
  <2> QED
    BY <1>1, <2>1 DEF Core, Agrees, Runner
<1>15. n.outQueue = S!RemoveFirst(s.outQueue, o) /\ c = s.cid[o]
  BY <1>3 DEF r, c
<1>16. Core(n, p, bs, sy, w)
  BY <1>1, <1>3, <1>4, <1>5, <1>6, <1>8, <1>9, <1>10, <1>12, <1>13, <1>14, <1>15, Frees
<1> QED
  BY <1>3, <1>4, <1>16 DEF n

\* The data once g has queued.
Queued(s, g) ==
    [s EXCEPT !.state[g] = "QUEUED", !.runQueue = Append(@, g),
              !.futexWord[g] = 1]

\* Thread g queues for a context.
LEMMA Queues ==
    ASSUME NEW s \in SchedulerType, NEW p, NEW p1, NEW bs, NEW sy, NEW w, NEW g \in Gids,
           Core(s, p, bs, sy, w), w.at # "driving", s.state[g] \in {"STARTED", "BLOCKED"},
           Elsewhere(p, p1, g), p1[g] = "waiting",
           \A d \in s.mask[g] : Runner(s, d)
    PROVE  LET n == Queued(s, g)
           IN  n \in SchedulerType /\ n.failed = s.failed /\ Core(n, p1, bs, sy, w)
<1> DEFINE n == Queued(s, g)
<1>1. /\ s.runQueue \in Seq(Gids) /\ NoThread \notin Gids
      /\ s.state \in [Gids -> ThreadState] /\ s.futexWord \in [Gids -> {0, 1}]
  BY Fields, GidsAssumption
<1>2. Append(s.runQueue, g) \in Seq(Gids)
  BY <1>1
<1>3. /\ n.state = [s.state EXCEPT ![g] = "QUEUED"]
      /\ n.runQueue = Append(s.runQueue, g)
      /\ n.futexWord = [s.futexWord EXCEPT ![g] = 1]
      /\ n.cid = s.cid /\ n.curThread = s.curThread /\ n.freeList = s.freeList
      /\ n.handoffThread = s.handoffThread
      /\ n.markedForSleep = s.markedForSleep /\ n.untilWakeup = s.untilWakeup
      /\ n.mask = s.mask /\ n.fakeLeave = s.fakeLeave /\ n.outQueue = s.outQueue
      /\ n.sleepQueue = s.sleepQueue /\ n.fakeLeaves = s.fakeLeaves /\ n.failed = s.failed
  BY DEF Queued, SchedulerType
<1>4. n \in SchedulerType
  <2>1. n.state \in [Gids -> ThreadState] /\ n.futexWord \in [Gids -> {0, 1}]
    BY <1>1, <1>3 DEF ThreadState
  <2>2. n = [s EXCEPT !.state = n.state, !.runQueue = Append(@, g), !.futexWord = n.futexWord]
    BY <1>3 DEF Queued, SchedulerType
  <2> HIDE DEF n
  <2> QED
    BY <1>2, <2>1, <2>2, ZenonT(60) DEF SchedulerType
<1> HIDE DEF n
<1>5. /\ \A h \in Gids \ {g} : n.state[h] = s.state[h] /\ n.futexWord[h] = s.futexWord[h]
      /\ n.state[g] = "QUEUED" /\ n.futexWord[g] = 1
  BY <1>1, <1>3
<1>6. Others(s, n, g, s.cid[g])
  BY <1>3, <1>5 DEF Others
<1>7. Fits(s, p, sy, w, g) /\ NoHandOff(s, g) /\ Watched(s, p, w) /\ ~ Forced(w, g)
  BY DEF Core, Fits, HandOffs, NoHandOff, Watched, Forced
<1>8. Watched(n, p1, w) /\ \A h \in Gids \ {g} : Forced(w, h) => Forced(w, h)
  BY <1>6, <1>7, Minded DEF Minds
<1>9. InState(n, "SLEEPING") = InState(s, "SLEEPING")
  BY <1>5 DEF InState
<1>10. Holds(n.sleepQueue, InState(n, "SLEEPING")) /\ SleepsOrdered(n)
  <2>1. \A h \in InState(s, "SLEEPING") : n.futexWord[h] = s.futexWord[h]
    BY <1>5 DEF InState
  <2> QED
    BY <1>3, <1>9, <2>1 DEF Core, QueuesHold, SleepsOrdered
<1>11. /\ Fits(n, p1, sy, w, g) /\ n.fakeLeave[g] = NoPc /\ n.handoffThread[g] = NoThread
  BY <1>3, <1>5, <1>7 DEF Fits, NoHandOff
<1>12. Core(n, p1, bs, sy, w)
  BY <1>3, <1>4, <1>5, <1>6, <1>7, <1>8, <1>10, <1>11, NoSeat
<1> QED
  BY <1>3, <1>4, <1>12 DEF n

-----------------------------------------------------------------------------
(* Operations *)

\* The states of the barrier's threads.
LEMMA BarrierStates ==
    ASSUME BP!BarrierInv
    PROVE  bar.state \in [Cores -> {"OFFLINE", "WAITING", "RUNNING", "LEFT"}]
BY DEF BP!BarrierInv, BP!Sound, BP!BarrierType, BP!States

\* Where a thread goes.
LEMMA Goes ==
    ASSUME pc \in [Gids -> PcValues], NEW g \in Gids, NEW place \in PcValues, Goto(g, place)
    PROVE  pc' \in [Gids -> PcValues] /\ pc'[g] = place /\ Elsewhere(pc, pc', g)
BY DEF Goto, Elsewhere

\* The last value given to an argument of a function is the one it has.
LEMMA SetTwice ==
    ASSUME NEW A, NEW f, DOMAIN f = A, f = [a \in A |-> f[a]], NEW g \in A, NEW x, NEW y
    PROVE  [[f EXCEPT ![g] = x] EXCEPT ![g] = y] = [f EXCEPT ![g] = y]
OBVIOUS

\* So it has when another one's is given in between.
LEMMA SetAround ==
    ASSUME NEW A, NEW f, DOMAIN f = A, f = [a \in A |-> f[a]], NEW g \in A, NEW h \in A, g # h,
           NEW x, NEW y, NEW z
    PROVE  [[[f EXCEPT ![g] = x] EXCEPT ![h] = z] EXCEPT ![g] = y]
               = [[f EXCEPT ![h] = z] EXCEPT ![g] = y]
OBVIOUS

\* Thread g takes the free context c of the data s.
LEMMA JoinsOn ==
    ASSUME BP!BarrierInv, wd \in WatchdogType, wd.at # "driving",
           NEW g \in Gids, NEW c \in Cores, NEW s \in SchedulerType, NEW p, NEW p1,
           Core(s, p, bar.state, synced, wd), s.state[g] \in {"STARTED", "BLOCKED"},
           s.curThread[c] = NoThread, c \in s.mask[g], Elsewhere(p, p1, g), p1[g] = "joining",
           BarrierJoin(Taken(s, g, c), c)
    PROVE  Sound(Taken(s, g, c), p1) /\ Taken(s, g, c).failed = s.failed
<1> DEFINE bs == [bar.state EXCEPT ![c] = "WAITING"]
<1>1. \A d \in Cores : bs[d] = IF d = c THEN "WAITING" ELSE bar.state[d]
  BY BarrierStates
<1> HIDE DEF bs
<1>2. /\ Taken(s, g, c) \in SchedulerType /\ Taken(s, g, c).failed = s.failed
      /\ Core(Taken(s, g, c), p1, bs, synced \ {c}, wd)
  BY <1>1, Takes
<1>3. bar.state[c] \in {"OFFLINE", "LEFT"}
  <2>1. bar.state[c] \notin {"RUNNING", "WAITING"}
    BY DEF Core, Agrees, Runner
  <2> QED
    BY <2>1, BarrierStates
<1>4. Sound(Taken(s, g, c), p1)
  BY <1>1, <1>2, <1>3, AfterJoin
<1> QED
  BY <1>2, <1>4

\* Thread g looks for a context and joins the barrier with it, or queues: whether
\* it is STARTED, BLOCKED or has just handed its context off makes no difference.
LEMMA JoinsOrQueues ==
    ASSUME BP!BarrierInv, wd \in WatchdogType, wd.at # "driving", pc \in [Gids -> PcValues],
           NEW g \in Gids, NEW s \in SchedulerType, NEW p, NEW x,
           x \in {"STARTED", "BLOCKED", "QUEUED"},
           Core(s, p, bar.state, synced, wd), s.state[g] \in {"STARTED", "BLOCKED"},
           Elsewhere(p, pc, g), JoinOrQueue([s EXCEPT !.state[g] = x], g)
    PROVE  /\ pc' \in [Gids -> PcValues] /\ sched'.failed = s.failed
           /\ \E n : Sound(n, pc')
<1> DEFINE t == [s EXCEPT !.state[g] = x]
           free == FreeCore(t, g)
           stealable(o) == t.cid[o] \in t.mask[g]
           out == First(t.outQueue, stealable)
           found == schedThread(t, g)
<1>1. /\ s.state \in [Gids -> ThreadState] /\ s.cid \in [Gids -> Cores] /\ NoThread \notin Gids
      /\ s.curThread \in [Cores -> Gids \cup {NoThread}] /\ s.mask \in [Gids -> Masks]
      /\ s.freeList \in Seq(Cores) /\ QueuesHold(s) /\ s.mask[g] \subseteq Cores
      /\ NoCore \notin Cores
  <2>1. NoCore \notin Cores
    BY Bounds DEF NoCore, Cores
  <2>2. /\ s.state \in [Gids -> ThreadState] /\ s.cid \in [Gids -> Cores]
        /\ s.curThread \in [Cores -> Gids \cup {NoThread}] /\ s.mask \in [Gids -> Masks]
        /\ s.freeList \in Seq(Cores)
    BY Fields, Zenon
  <2> QED
    BY <2>1, <2>2, GidsAssumption, MasksAssumption DEF Core
<1>2. /\ t.state = [s.state EXCEPT ![g] = x]
      /\ t.freeList = s.freeList /\ t.outQueue = s.outQueue /\ t.cid = s.cid
      /\ t.mask = s.mask /\ t.curThread = s.curThread /\ t.runQueue = s.runQueue
      /\ t.futexWord = s.futexWord
  BY DEF SchedulerType
<1>3. t.state[g] = x /\ \A h \in Gids \ {g} : t.state[h] = s.state[h]
  BY <1>1, <1>2
<1>4. free = FreeCore(s, g)
  <2> DEFINE q == s.freeList
             m == s.mask[g]
             first == q[CHOOSE i \in DOMAIN q : /\ q[i] \in m
                                                /\ \A j \in 1 .. i - 1 : q[j] \notin m]
             e == IF s.curThread[s.cid[g]] = NoThread /\ s.cid[g] \in m THEN s.cid[g]
                  ELSE IF Members(q) \cap m # {} THEN first ELSE NoCore
  <2>1. FreeCore(s, g) = e
    BY Zenon DEF FreeCore, First
  <2>2. FreeCore(t, g) = e
    <3> HIDE DEF t
    <3>1. FreeCore(t, g) =
            IF t.curThread[t.cid[g]] = NoThread /\ t.cid[g] \in t.mask[g] THEN t.cid[g]
            ELSE IF Members(t.freeList) \cap t.mask[g] # {}
            THEN t.freeList[CHOOSE i \in DOMAIN t.freeList :
                     /\ t.freeList[i] \in t.mask[g]
                     /\ \A j \in 1 .. i - 1 : t.freeList[j] \notin t.mask[g]]
            ELSE NoCore
      BY Zenon DEF FreeCore, First
    <3> QED
      BY <1>2, <3>1
  <2> QED
    BY <2>1, <2>2
<1>5. /\ free # NoCore => free \in Cores /\ s.curThread[free] = NoThread /\ free \in s.mask[g]
      /\ free = NoCore => \A d \in s.mask[g] : s.curThread[d] # NoThread
  BY <1>1, <1>4, FreeCoreFound, Zenon
<1>6. /\ (\E o \in Members(t.outQueue) : stealable(o)) =>
             out \in Gids /\ s.state[out] = "OUT" /\ s.cid[out] \in s.mask[g]
      /\ ~ (\E o \in Members(t.outQueue) : stealable(o)) =>
             \A o \in InState(s, "OUT") : s.cid[o] \notin s.mask[g]
  <2> DEFINE may(o) == s.cid[o] \in s.mask[g]
  <2>1. out = First(s.outQueue, may)
    BY <1>2, Zenon DEF First
  <2>2. IF \E o \in Members(s.outQueue) : may(o)
        THEN /\ First(s.outQueue, may) \in Gids /\ s.state[First(s.outQueue, may)] = "OUT"
             /\ s.cid[First(s.outQueue, may)] \in s.mask[g]
        ELSE \A o \in InState(s, "OUT") : s.cid[o] \notin s.mask[g]
    BY <1>1, OutFound, Zenon
  <2> QED
    BY <1>2, <2>1, <2>2, Zenon
<1>7. /\ found.core # NoCore =>
            /\ BarrierJoin(schedule(found.s, g, found.core), found.core)
            /\ Goto(g, "joining")
      /\ found.core = NoCore => NoBarrier(Queue(t, g), wd) /\ Goto(g, "waiting")
  BY Zenon DEF JoinOrQueue
<1>8. found = IF free # NoCore
              THEN [core |-> free, s |-> [t EXCEPT !.freeList = S!RemoveFirst(@, free)]]
              ELSE IF \E o \in Members(t.outQueue) : stealable(o)
              THEN [core |-> t.cid[out],
                    s |-> deschedule([t EXCEPT !.outQueue = S!RemoveFirst(@, out)],
                                     out, t.cid[out], "BLOCKED")]
              ELSE [core |-> NoCore, s |-> t]
  BY Zenon DEF schedThread
<1> HIDE DEF free, out, found
<1>9. CASE free # NoCore
  <2> DEFINE n == Taken(s, g, free)
             u == [t EXCEPT !.freeList = S!RemoveFirst(@, free)]
  <2>1. found.core = free /\ found.s = u
    BY <1>8, <1>9
  <2>2. u.state = t.state /\ u.curThread = s.curThread
    BY <1>2 DEF SchedulerType
  <2>3. schedule(u, g, free) = n
    <3>1. u.state[g] \in {"STARTED", "BLOCKED", "QUEUED"} /\ u.curThread[free] = NoThread
      BY <1>3, <1>5, <1>9, <2>2
    <3>2. Check(u, "schedule", u.state[g] \in {"STARTED", "BLOCKED", "QUEUED"}
                               /\ u.curThread[free] = NoThread) = u
      BY <3>1, CheckHolds, Zenon
    <3>3. schedule(u, g, free) = [u EXCEPT !.state[g] = "RUNNING", !.cid[g] = free,
                                           !.curThread[free] = g]
      BY <3>2, Zenon DEF schedule
    <3>4. [u EXCEPT !.state[g] = "RUNNING", !.cid[g] = free, !.curThread[free] = g] = n
      <4>1. [u EXCEPT !.state[g] = "RUNNING", !.cid[g] = free, !.curThread[free] = g]
                = [s EXCEPT !.freeList = S!RemoveFirst(@, free),
                            !.state = [[@ EXCEPT ![g] = x] EXCEPT ![g] = "RUNNING"],
                            !.cid[g] = free, !.curThread[free] = g]
        BY ZenonT(60) DEF SchedulerType
      <4>2. [[s.state EXCEPT ![g] = x] EXCEPT ![g] = "RUNNING"]
                = [s.state EXCEPT ![g] = "RUNNING"]
        BY <1>1, SetTwice
      <4> HIDE DEF u
      <4> QED
        BY <4>1, <4>2, ZenonT(60) DEF Taken
    <3> QED
      BY <3>3, <3>4
  <2>4. BarrierJoin(n, free) /\ Goto(g, "joining")
    BY <1>7, <1>9, <2>1, <2>3
  <2>5. pc' \in [Gids -> PcValues] /\ pc'[g] = "joining" /\ Elsewhere(p, pc', g)
    BY <2>4, Goes DEF PcValues, Elsewhere
  <2> HIDE DEF u, t
  <2>6. Sound(n, pc') /\ n.failed = s.failed
    <3>1. free \in Cores /\ s.curThread[free] = NoThread /\ free \in s.mask[g]
      BY <1>5, <1>9
    <3> QED
      BY <2>4, <2>5, <3>1, JoinsOn, Zenon
  <2>7. sched'.failed = n.failed
    BY <2>6 DEF Sound
  <2> HIDE DEF n
  <2> QED
    BY <2>5, <2>6, <2>7
<1>10. CASE free = NoCore /\ \E o \in Members(t.outQueue) : stealable(o)
  <2> DEFINE d == s.cid[out]
             v == Dispossessed(s, out)
             n == Taken(v, g, d)
             u == [t EXCEPT !.outQueue = S!RemoveFirst(@, out)]
             f == [u EXCEPT !.state[out] = "BLOCKED", !.curThread[d] = NoThread]
  <2>1. out \in Gids /\ s.state[out] = "OUT" /\ d \in s.mask[g] /\ d \in Cores /\ out # g
    BY <1>1, <1>6, <1>10
  <2>2. s.curThread[d] = out
    BY <2>1 DEF Core, Owned
  <2>3. v \in SchedulerType /\ v.failed = s.failed /\ Core(v, p, bar.state, synced, wd)
    BY <2>1, Stolen
  <2>4. u.state = t.state /\ u.curThread = s.curThread /\ u.cid = s.cid
    BY <1>2 DEF SchedulerType
  <2>5. deschedule(u, out, d, "BLOCKED") = f
    <3>1. u.state[out] \in {"RUNNING", "OUT"} /\ u.cid[out] = d /\ u.curThread[d] = out
      BY <1>3, <2>1, <2>2, <2>4
    <3>2. Check(u, "deschedule", u.state[out] \in {"RUNNING", "OUT"}
                                 /\ u.cid[out] = d /\ u.curThread[d] = out) = u
      BY <3>1, CheckHolds, Zenon
    <3> QED
      BY <3>2, Zenon DEF deschedule
  <2>6. found.core = d /\ found.s = f
    <3>1. t.cid[out] = d
      BY <1>2
    <3>2. found = [core |-> t.cid[out],
                   s |-> deschedule(u, out, t.cid[out], "BLOCKED")]
      BY <1>8, <1>10
    <3> HIDE DEF t, u, f, d
    <3> QED
      BY <2>5, <3>1, <3>2
  <2>7. f.state[g] = x /\ f.curThread[d] = NoThread
    BY <1>1, <1>3, <2>1, <2>4 DEF SchedulerType
  <2>8. S!RemoveFirst(Append(s.freeList, d), d) = s.freeList
    <3>1. Holds(s.freeList, FreeCores(s)) /\ d \notin FreeCores(s)
      BY <1>1, <2>1, <2>2 DEF QueuesHold, FreeCores
    <3> QED
      BY <1>1, <2>1, <3>1, BackAgain
  <2>9. schedule(f, g, d) = n
    <3>1. f.state[g] \in {"STARTED", "BLOCKED", "QUEUED"} /\ f.curThread[d] = NoThread
      BY <2>7
    <3>2. Check(f, "schedule", f.state[g] \in {"STARTED", "BLOCKED", "QUEUED"}
                               /\ f.curThread[d] = NoThread) = f
      BY <3>1, CheckHolds, Zenon
    <3>3. schedule(f, g, d) = [f EXCEPT !.state[g] = "RUNNING", !.cid[g] = d,
                                        !.curThread[d] = g]
      BY <3>2, Zenon DEF schedule
    <3>4. [f EXCEPT !.state[g] = "RUNNING", !.cid[g] = d, !.curThread[d] = g] = n
      <4> DEFINE state == [[s.state EXCEPT ![out] = "BLOCKED"] EXCEPT ![g] = "RUNNING"]
                 cid == [s.cid EXCEPT ![g] = d]
                 cur == [[s.curThread EXCEPT ![d] = NoThread] EXCEPT ![d] = g]
      <4>1. n = [s EXCEPT !.outQueue = S!RemoveFirst(@, out),
                          !.freeList = S!RemoveFirst(Append(@, d), d),
                          !.state = state, !.cid = cid, !.curThread = cur]
        BY ZenonT(60) DEF Taken, Dispossessed, SchedulerType
      <4>2. [f EXCEPT !.state[g] = "RUNNING", !.cid[g] = d, !.curThread[d] = g]
                = [s EXCEPT !.outQueue = S!RemoveFirst(@, out),
                            !.state = [[[@ EXCEPT ![g] = x] EXCEPT ![out] = "BLOCKED"]
                                          EXCEPT ![g] = "RUNNING"],
                            !.cid = cid, !.curThread = cur]
        BY ZenonT(60) DEF SchedulerType
      <4>3. [[[s.state EXCEPT ![g] = x] EXCEPT ![out] = "BLOCKED"] EXCEPT ![g] = "RUNNING"]
                = state
        BY <1>1, <2>1, SetAround
      <4>4. s.freeList = S!RemoveFirst(Append(s.freeList, d), d)
        BY <2>8
      <4>5. [s EXCEPT !.outQueue = S!RemoveFirst(@, out),
                      !.freeList = S!RemoveFirst(Append(@, d), d),
                      !.state = state, !.cid = cid, !.curThread = cur]
                = [s EXCEPT !.outQueue = S!RemoveFirst(@, out),
                            !.state = state, !.cid = cid, !.curThread = cur]
        <5> HIDE DEF state, cid, cur
        <5> QED
          BY <4>4 DEF SchedulerType
      <4> HIDE DEF state, cid, cur, n, f
      <4> QED
        BY <4>1, <4>2, <4>3, <4>5
    <3> QED
      BY <3>3, <3>4
  <2>10. v.state[g] \in {"STARTED", "BLOCKED"} /\ v.curThread[d] = NoThread /\ d \in v.mask[g]
    BY <1>1, <2>1 DEF Dispossessed, SchedulerType
  <2> HIDE DEF v, u, f, d, t
  <2>11. BarrierJoin(n, d) /\ Goto(g, "joining")
    <3>1. d # NoCore
      BY <1>1, <2>1
    <3> QED
      BY <1>7, <2>6, <2>9, <3>1
  <2>12. pc' \in [Gids -> PcValues] /\ pc'[g] = "joining" /\ Elsewhere(p, pc', g)
    BY <2>11, Goes DEF PcValues, Elsewhere
  <2>13. Sound(n, pc') /\ n.failed = v.failed
    BY <2>1, <2>3, <2>10, <2>11, <2>12, JoinsOn, Zenon
  <2>14. sched'.failed = n.failed
    BY <2>13 DEF Sound
  <2> HIDE DEF n
  <2> QED
    BY <2>3, <2>12, <2>13, <2>14
<1>11. CASE free = NoCore /\ ~ \E o \in Members(t.outQueue) : stealable(o)
  <2> DEFINE n == Queued(s, g)
  <2>1. found.core = NoCore
    BY <1>8, <1>11
  <2>2. NoBarrier(Queue(t, g), wd) /\ Goto(g, "waiting")
    BY <1>7, <2>1
  <2>3. Queue(t, g) = n
    <3>1. Queue(t, g) = [t EXCEPT !.state[g] = "QUEUED", !.runQueue = Append(@, g),
                                  !.futexWord[g] = 1]
      BY Zenon DEF Queue
    <3>2. [t EXCEPT !.state[g] = "QUEUED", !.runQueue = Append(@, g), !.futexWord[g] = 1] = n
      <4>1. [t EXCEPT !.state[g] = "QUEUED", !.runQueue = Append(@, g), !.futexWord[g] = 1]
                = [s EXCEPT !.state = [[@ EXCEPT ![g] = x] EXCEPT ![g] = "QUEUED"],
                            !.runQueue = Append(@, g), !.futexWord[g] = 1]
        BY DEF SchedulerType
      <4>2. [[s.state EXCEPT ![g] = x] EXCEPT ![g] = "QUEUED"]
                = [s.state EXCEPT ![g] = "QUEUED"]
        BY <1>1, SetTwice
      <4> HIDE DEF t
      <4> QED
        BY <4>1, <4>2 DEF Queued
    <3> QED
      BY <3>1, <3>2
  <2>4. \A d \in s.mask[g] : Runner(s, d)
    <3> TAKE d \in s.mask[g]
    <3>1. d \in Cores /\ s.curThread[d] \in Gids /\ s.curThread[d] # NoThread
      BY <1>1, <1>5, <1>11
    <3>2. /\ s.cid[s.curThread[d]] = d
          /\ s.state[s.curThread[d]] \in {"RUNNING", "OUT"}
      BY <3>1 DEF Core, Owned
    <3>3. s.curThread[d] \notin InState(s, "OUT")
      BY <1>6, <1>11, <3>2
    <3> QED
      BY <3>1, <3>2, <3>3 DEF Runner, InState
  <2>5. pc' \in [Gids -> PcValues] /\ pc'[g] = "waiting" /\ Elsewhere(p, pc', g)
    BY <2>2, Goes DEF PcValues, Elsewhere
  <2>6. n \in SchedulerType /\ n.failed = s.failed /\ Core(n, pc', bar.state, synced, wd)
    BY <2>4, <2>5, Queues
  <2>7. Sound(n, pc')
    <3>1. NoBarrier(n, wd)
      BY <2>2, <2>3
    <3> HIDE DEF n
    <3> QED
      BY <2>6, <3>1, AfterNothing
  <2>8. sched'.failed = n.failed
    BY <2>7 DEF Sound
  <2> HIDE DEF n
  <2> QED
    BY <2>5, <2>6, <2>7, <2>8
<1> QED
  BY <1>9, <1>10, <1>11

-----------------------------------------------------------------------------
(* Steps of a thread without the barrier *)

\* What holds before a step ...
Ready == TypeOK /\ BP!BarrierInv /\ Core(sched, pc, bar.state, synced, wd)

\* ... still does after it, which is one that the barrier expects.
Kept ==
    /\ TypeOK' /\ BP!BarrierInv' /\ [B!Next]_<<bar, synced>>
    /\ sched'.failed = sched.failed
    /\ Core(sched', pc', bar'.state, synced', wd')

\* The data s become sound with the places the threads go to.
LEMMA FromSound ==
    ASSUME Ready, NEW s, s.failed = sched.failed, Sound(s, pc'),
           pc' \in [Gids -> PcValues], raced' \in BOOLEAN
    PROVE  Kept
BY DEF Ready, Sound, Kept, TypeOK

\* Where a thread goes, and that raced stays what it is.
LEMMA GoesTo ==
    ASSUME Ready, NEW g \in Gids, NEW place \in PcValues, Goto(g, place)
    PROVE  /\ pc' \in [Gids -> PcValues] /\ pc'[g] = place /\ Elsewhere(pc, pc', g)
           /\ raced' \in BOOLEAN
<1>1. pc \in [Gids -> PcValues] /\ raced \in BOOLEAN
  BY DEF Ready, TypeOK
<1>2. raced' \in BOOLEAN
  BY <1>1, Zenon DEF Goto
<1> QED
  BY <1>1, <1>2, Goes

\* The watchdog acts for no thread but one in a system call that is RUNNING without
\* a fake leave.
LEMMA NotForced ==
    ASSUME Ready, NEW g \in Gids,
           \/ pc[g] \notin {"out", "matching"} \/ sched.fakeLeave[g] # NoPc
           \/ sched.state[g] # "RUNNING"
    PROVE  ~ Forced(wd, g)
BY DEF Ready, Core, Watched, Forced

\* What the state says of a thread.
LEMMA Placed ==
    ASSUME Ready, NEW g \in Gids
    PROVE  /\ sched \in SchedulerType /\ wd \in WatchdogType
           /\ Fits(sched, pc, synced, wd, g) /\ Watched(sched, pc, wd)
           /\ pc[g] # "syncing" => sched.handoffThread[g] = NoThread
           /\ sched.state[g] \in {"RUNNING", "OUT"} =>
                 sched.curThread[sched.cid[g]] = g /\ sched.cid[g] \in Cores
           /\ sched.state[g] = "RUNNING" /\ pc[g] \notin {"joining", "syncing"} =>
                 bar.state[sched.cid[g]] = "RUNNING"
           /\ \/ sched.state[g] = "RUNNING" /\ pc[g] \notin {"entering", "leaving"}
              \/ sched.state[g] = "OUT"
              => sched.cid[g] \in sched.mask[g]
<1>1. sched \in SchedulerType /\ wd \in WatchdogType
  BY DEF Ready, TypeOK
<1>2. sched.cid \in [Gids -> Cores]
  BY <1>1, Fields
<1>3. Core(sched, pc, bar.state, synced, wd)
  BY DEF Ready
<1> QED
  BY <1>1, <1>2, <1>3 DEF Core, HandOffs, Owned, Agrees, WellUsed

\* A thread changes its own data, but not its state, on its way to another place.
LEMMA OwnData ==
    ASSUME Ready, wd.at # "driving", NEW g \in Gids, NEW place \in PcValues, Goto(g, place),
           NEW n \in SchedulerType, n.failed = sched.failed, NoBarrier(n, wd),
           ~ Forced(wd, g), Others(sched, n, g, sched.cid[g]),
           n.curThread = sched.curThread, n.freeList = sched.freeList,
           n.runQueue = sched.runQueue, n.outQueue = sched.outQueue,
           n.sleepQueue = sched.sleepQueue, n.state[g] = sched.state[g],
           NoHandOff(sched, g), n.handoffThread[g] = NoThread,
           sched.state[g] \in {"RUNNING", "OUT"} => n.cid[g] = sched.cid[g],
           sched.state[g] = "SLEEPING" => /\ n.untilWakeup[g] = sched.untilWakeup[g]
                                          /\ n.futexWord[g] = sched.futexWord[g],
           \/ /\ n.fakeLeaves = sched.fakeLeaves
              /\ sched.fakeLeave[g] = NoPc <=> n.fakeLeave[g] = NoPc
           \/ /\ n.fakeLeaves = Append(sched.fakeLeaves, g)
              /\ sched.fakeLeave[g] = NoPc /\ n.fakeLeave[g] # NoPc
           \/ /\ n.fakeLeaves = S!RemoveFirst(sched.fakeLeaves, g)
              /\ n.fakeLeave[g] = NoPc,
           Fits(n, pc', synced, wd, g),
           sched.state[g] = "RUNNING" /\ place \notin {"joining", "syncing"} =>
               bar.state[sched.cid[g]] = "RUNNING",
           \/ sched.state[g] = "RUNNING" /\ place \notin {"entering", "leaving"}
           \/ sched.state[g] = "OUT"
           => sched.cid[g] \in n.mask[g]
    PROVE  Kept
<1>1. /\ pc' \in [Gids -> PcValues] /\ pc'[g] = place /\ Elsewhere(pc, pc', g)
      /\ raced' \in BOOLEAN
  BY GoesTo
<1>2. sched \in SchedulerType /\ wd \in WatchdogType /\ Watched(sched, pc, wd)
  BY Placed
<1>3. Core(sched, pc, bar.state, synced, wd) /\ BP!BarrierInv
  BY DEF Ready
<1>4. Watched(n, pc', wd) /\ \A h \in Gids \ {g} : Forced(wd, h) => Forced(wd, h)
  BY <1>1, <1>2, Minded DEF Minds
<1>5. Core(n, pc', bar.state, synced, wd)
  BY <1>1, <1>2, <1>3, <1>4, Stays
<1>6. Sound(n, pc')
  BY <1>2, <1>3, <1>5, AfterNothing
<1> QED
  BY <1>1, <1>6, FromSound

\* A thread only goes to another place.
LEMMA PlaceOnly ==
    ASSUME Ready, wd.at # "driving", NEW g \in Gids, NEW place \in PcValues, Goto(g, place),
           NoBarrier(sched, wd), ~ Forced(wd, g), NoHandOff(sched, g),
           Fits(sched, pc', synced, wd, g),
           sched.state[g] = "RUNNING" /\ place \notin {"joining", "syncing"} =>
               bar.state[sched.cid[g]] = "RUNNING",
           \/ sched.state[g] = "RUNNING" /\ place \notin {"entering", "leaving"}
           \/ sched.state[g] = "OUT"
           => sched.cid[g] \in sched.mask[g]
    PROVE  Kept
<1>1. sched \in SchedulerType
  BY Placed
<1>2. Others(sched, sched, g, sched.cid[g]) /\ sched.handoffThread[g] = NoThread
  BY DEF Others, NoHandOff
<1> QED
  BY <1>1, <1>2, OwnData

\* The record of a thread is as new, all other data stay.
LEMMA FreshIs ==
    ASSUME NEW s \in SchedulerType, NEW g \in Gids
    PROVE  LET n == Fresh(s, g)
           IN  /\ n \in SchedulerType
               /\ \A c : Others(s, n, g, c)
               /\ n.state[g] = "STARTED" /\ n.handoffThread[g] = NoThread
               /\ ~ n.markedForSleep[g] /\ n.fakeLeave[g] = NoPc
               /\ n.curThread = s.curThread /\ n.freeList = s.freeList
               /\ n.runQueue = s.runQueue /\ n.outQueue = s.outQueue
               /\ n.sleepQueue = s.sleepQueue /\ n.fakeLeaves = s.fakeLeaves
               /\ n.failed = s.failed
<1> DEFINE n == Fresh(s, g)
<1>1. /\ s.state \in [Gids -> ThreadState] /\ s.cid \in [Gids -> Cores]
      /\ s.handoffThread \in [Gids -> Gids \cup {NoThread}]
      /\ s.futexWord \in [Gids -> {0, 1}] /\ s.markedForSleep \in [Gids -> BOOLEAN]
      /\ s.untilWakeup \in [Gids -> 0 .. MaxSleep] /\ s.mask \in [Gids -> Masks]
      /\ s.fakeLeave \in [Gids -> SyscallPcs \cup {NoPc}]
  BY Fields, ZenonT(60)
<1>2. /\ n.state = [s.state EXCEPT ![g] = "STARTED"]
      /\ n.cid = [s.cid EXCEPT ![g] = 0]
      /\ n.handoffThread = [s.handoffThread EXCEPT ![g] = NoThread]
      /\ n.futexWord = [s.futexWord EXCEPT ![g] = 0]
      /\ n.markedForSleep = [s.markedForSleep EXCEPT ![g] = FALSE]
      /\ n.untilWakeup = [s.untilWakeup EXCEPT ![g] = 0]
      /\ n.mask = [s.mask EXCEPT ![g] = Cores]
      /\ n.fakeLeave = [s.fakeLeave EXCEPT ![g] = NoPc]
      /\ n.curThread = s.curThread /\ n.freeList = s.freeList
      /\ n.runQueue = s.runQueue /\ n.outQueue = s.outQueue
      /\ n.sleepQueue = s.sleepQueue /\ n.fakeLeaves = s.fakeLeaves
      /\ n.failed = s.failed
  BY DEF Fresh, SchedulerType
<1>3. n \in SchedulerType
  <2>1. n = [s EXCEPT !.state = n.state, !.cid = n.cid, !.handoffThread = n.handoffThread,
                      !.futexWord = n.futexWord, !.markedForSleep = n.markedForSleep,
                      !.untilWakeup = n.untilWakeup, !.mask = n.mask,
                      !.fakeLeave = n.fakeLeave]
    BY DEF Fresh, SchedulerType
  <2> HIDE DEF n
  <2>2. 0 \in Cores /\ Cores \in Masks /\ 0 \in 0 .. MaxSleep /\ "STARTED" \in ThreadState
    BY Bounds, MasksAssumption DEF Cores, ThreadState
  <2>3. n.state \in [Gids -> ThreadState] /\ n.cid \in [Gids -> Cores]
    BY <1>1, <1>2, <2>2
  <2>4. /\ n.handoffThread \in [Gids -> Gids \cup {NoThread}]
        /\ n.futexWord \in [Gids -> {0, 1}] /\ n.markedForSleep \in [Gids -> BOOLEAN]
    BY <1>1, <1>2
  <2>5. n.untilWakeup \in [Gids -> 0 .. MaxSleep] /\ n.mask \in [Gids -> Masks]
    BY <1>1, <1>2, <2>2
  <2>6. n.fakeLeave \in [Gids -> SyscallPcs \cup {NoPc}]
    BY <1>1, <1>2
  <2> QED
    BY <2>1, <2>3, <2>4, <2>5, <2>6, ZenonT(60) DEF SchedulerType
<1> HIDE DEF n
<1>4. \A c : Others(s, n, g, c)
  BY <1>1, <1>2 DEF Others
<1>5. /\ n.state[g] = "STARTED" /\ n.handoffThread[g] = NoThread
      /\ ~ n.markedForSleep[g] /\ n.fakeLeave[g] = NoPc
  BY <1>1, <1>2, SMTT(30)
<1> QED
  BY <1>2, <1>3, <1>4, <1>5 DEF n

\* A thread starts.
LEMMA Starts ==
    ASSUME Ready, NEW g \in Gids, start(g)
    PROVE  Kept
<1>1. wd.at # "driving" /\ pc[g] = "off" /\ Goto(g, "out")
  BY Zenon DEF start, At
<1>2. PICK m \in Masks : NoBarrier([Fresh(sched, g) EXCEPT !.mask[g] = m], wd)
  BY Zenon DEF start
<1>3. /\ sched \in SchedulerType /\ Fits(sched, pc, synced, wd, g)
      /\ sched.handoffThread[g] = NoThread
  BY <1>1, Placed
<1> DEFINE f == Fresh(sched, g)
           n == [f EXCEPT !.mask[g] = m]
<1>4. /\ f \in SchedulerType
      /\ \A c : Others(sched, f, g, c)
      /\ f.state[g] = "STARTED" /\ f.handoffThread[g] = NoThread
      /\ ~ f.markedForSleep[g] /\ f.fakeLeave[g] = NoPc
      /\ f.curThread = sched.curThread /\ f.freeList = sched.freeList
      /\ f.runQueue = sched.runQueue /\ f.outQueue = sched.outQueue
      /\ f.sleepQueue = sched.sleepQueue /\ f.fakeLeaves = sched.fakeLeaves
      /\ f.failed = sched.failed
  BY <1>3, FreshIs
<1>5. NoBarrier(n, wd)
  BY <1>2
<1> HIDE DEF f
<1>6. /\ n \in SchedulerType
      /\ n.state = f.state /\ n.cid = f.cid /\ n.handoffThread = f.handoffThread
      /\ n.futexWord = f.futexWord /\ n.markedForSleep = f.markedForSleep
      /\ n.untilWakeup = f.untilWakeup /\ n.fakeLeave = f.fakeLeave
      /\ \A h \in Gids \ {g} : n.mask[h] = f.mask[h]
      /\ n.curThread = f.curThread /\ n.freeList = f.freeList
      /\ n.runQueue = f.runQueue /\ n.outQueue = f.outQueue
      /\ n.sleepQueue = f.sleepQueue /\ n.fakeLeaves = f.fakeLeaves
      /\ n.failed = f.failed
  BY <1>4, ZenonT(60) DEF SchedulerType
<1> HIDE DEF n
<1>7. Others(sched, n, g, sched.cid[g])
  BY <1>4, <1>6 DEF Others
<1>8. sched.state[g] = "STARTED" /\ sched.fakeLeave[g] = NoPc /\ NoHandOff(sched, g)
  BY <1>1, <1>3 DEF Fits, NoHandOff
<1>9. ~ Forced(wd, g) /\ pc'[g] = "out"
  BY <1>1, NotForced, GoesTo DEF PcValues
<1>10. Fits(n, pc', synced, wd, g)
  BY <1>4, <1>6, <1>9 DEF Fits
<1> QED
  BY <1>1, <1>4, <1>5, <1>6, <1>7, <1>8, <1>9, <1>10, OwnData DEF PcValues

\* Barrier::join returns.
LEMMA JoinReturns ==
    ASSUME Ready, NEW g \in Gids, joinReturns(g)
    PROVE  Kept
<1>1. /\ wd.at # "driving" /\ pc[g] = "joining" /\ Goto(g, "run") /\ NoBarrier(sched, wd)
      /\ bar.state[sched.cid[g]] = "RUNNING"
  BY Zenon DEF joinReturns, At
<1>2. ~ Forced(wd, g) /\ pc'[g] = "run"
  BY <1>1, NotForced, GoesTo DEF PcValues
<1>3. NoHandOff(sched, g) /\ Fits(sched, pc', synced, wd, g) /\ sched.cid[g] \in sched.mask[g]
  BY <1>1, <1>2, Placed DEF NoHandOff, Fits
<1> QED
  BY <1>1, <1>2, <1>3, PlaceOnly DEF PcValues

\* waitForContext returns, to a thread that is RUNNING.
LEMMA WaitReturns ==
    ASSUME Ready, NEW g \in Gids, waitReturns(g)
    PROVE  Kept
<1>1. /\ wd.at # "driving" /\ pc[g] = "waiting" /\ Goto(g, "run")
      /\ sched.futexWord[g] # 1
      /\ NoBarrier(Check(sched, "wait", sched.state[g] = "RUNNING"), wd)
  BY Zenon DEF waitReturns, At
<1>2. ~ Forced(wd, g) /\ pc'[g] = "run"
  BY <1>1, NotForced, GoesTo DEF PcValues
<1>3. /\ sched.state[g] = "RUNNING" /\ NoHandOff(sched, g) /\ Fits(sched, pc', synced, wd, g)
      /\ sched.cid[g] \in sched.mask[g] /\ bar.state[sched.cid[g]] = "RUNNING"
  BY <1>1, <1>2, Placed DEF NoHandOff, Fits
<1>4. NoBarrier(sched, wd)
  BY <1>1, <1>3, CheckHolds, Zenon
<1> QED
  BY <1>1, <1>2, <1>3, <1>4, PlaceOnly DEF PcValues

\* Barrier::sync returns and the thread goes on.
LEMMA SyncReturns ==
    ASSUME Ready, NEW g \in Gids, syncReturns(g)
    PROVE  Kept
<1>1. /\ wd.at # "driving" /\ pc[g] = "syncing" /\ Goto(g, "run")
      /\ bar.state[sched.cid[g]] = "RUNNING" /\ sched.handoffThread[g] = NoThread
      /\ NoBarrier(Check(sched, "syncReturns", sched.state[g] = "RUNNING"), wd)
  BY Zenon DEF syncReturns, At
<1>2. ~ Forced(wd, g) /\ pc'[g] = "run"
  BY <1>1, NotForced, GoesTo DEF PcValues
<1>3. /\ sched.state[g] = "RUNNING" /\ NoHandOff(sched, g) /\ Fits(sched, pc', synced, wd, g)
      /\ sched.cid[g] \in sched.mask[g]
  BY <1>1, <1>2, Placed DEF NoHandOff, Fits
<1>4. NoBarrier(sched, wd)
  BY <1>1, <1>3, CheckHolds, Zenon
<1> QED
  BY <1>1, <1>2, <1>3, <1>4, PlaceOnly DEF PcValues

\* isSleeping finds the thread SLEEPING.
LEMMA IsSleeping ==
    ASSUME Ready, NEW g \in Gids, isSleeping(g)
    PROVE  Kept
<1>1. /\ wd.at # "driving" /\ pc[g] = "out" /\ Goto(g, "polled") /\ NoBarrier(sched, wd)
      /\ sched.state[g] = "SLEEPING"
  BY Zenon DEF isSleeping, At
<1>2. ~ Forced(wd, g) /\ pc'[g] = "polled"
  BY <1>1, NotForced, GoesTo DEF PcValues
<1>3. NoHandOff(sched, g) /\ Fits(sched, pc', synced, wd, g)
  BY <1>1, <1>2, Placed DEF NoHandOff, Fits
<1> QED
  BY <1>1, <1>2, <1>3, PlaceOnly DEF PcValues

\* A futex wake returns: also when the watchdog is about to leave for the thread.
LEMMA NotifyFutexWakeEnd ==
    ASSUME Ready, NEW g \in Gids, notifyFutexWakeEnd(g)
    PROVE  Kept
<1>1. /\ wd.at # "driving" /\ pc[g] = "out" /\ Goto(g, "matching") /\ NoBarrier(sched, wd)
      /\ sched.state[g] \in {"RUNNING", "OUT", "BLOCKED"}
  BY Zenon DEF notifyFutexWakeEnd, At
<1>2. /\ pc' \in [Gids -> PcValues] /\ pc'[g] = "matching" /\ Elsewhere(pc, pc', g)
      /\ raced' \in BOOLEAN
  BY <1>1, GoesTo DEF PcValues
<1>3. /\ sched \in SchedulerType /\ wd \in WatchdogType /\ Watched(sched, pc, wd)
      /\ Core(sched, pc, bar.state, synced, wd) /\ BP!BarrierInv
  BY Placed DEF Ready
<1>4. NoHandOff(sched, g) /\ Fits(sched, pc', synced, wd, g)
  BY <1>1, <1>2, Placed DEF NoHandOff, Fits
<1>5. Watched(sched, pc', wd)
  BY <1>1, <1>2, <1>3 DEF Watched, Elsewhere
<1>6. Others(sched, sched, g, sched.cid[g]) /\ sched.handoffThread[g] = NoThread
  BY <1>4 DEF Others, NoHandOff
<1>7. /\ \/ sched.state[g] = "RUNNING" /\ pc'[g] \notin {"entering", "leaving"}
         \/ sched.state[g] = "OUT"
         => sched.cid[g] \in sched.mask[g]
      /\ sched.state[g] = "RUNNING" /\ pc'[g] \notin {"joining", "syncing"} =>
            bar.state[sched.cid[g]] = "RUNNING"
  BY <1>1, Placed
<1>8. Core(sched, pc', bar.state, synced, wd)
  BY <1>2, <1>3, <1>4, <1>5, <1>6, <1>7, Stays
<1>9. Sound(sched, pc')
  BY <1>1, <1>3, <1>8, AfterNothing, SMTT(30)
<1> QED
  BY <1>2, <1>9, FromSound

\* A sleep, or a call with a timeout, begins.
LEMMA MarkForSleep ==
    ASSUME Ready, NEW g \in Gids, markForSleep(g)
    PROVE  Kept
<1>1. wd.at # "driving" /\ pc[g] = "run" /\ Goto(g, "entering")
  BY Zenon DEF markForSleep, At
<1>2. /\ sched \in SchedulerType /\ Fits(sched, pc, synced, wd, g)
      /\ sched.handoffThread[g] = NoThread
  BY <1>1, Placed
<1>3. sched.state[g] = "RUNNING" /\ ~ sched.markedForSleep[g] /\ sched.fakeLeave[g] = NoPc
  BY <1>1, <1>2 DEF Fits
<1>4. PICK phases \in 1 .. MaxSleep :
          NoBarrier([Check(sched, "markForSleep", ~ sched.markedForSleep[g])
                        EXCEPT !.markedForSleep[g] = TRUE, !.untilWakeup[g] = phases,
                               !.futexWord[g] = 1], wd)
  BY Zenon DEF markForSleep
<1> DEFINE n == [sched EXCEPT !.markedForSleep[g] = TRUE, !.untilWakeup[g] = phases,
                              !.futexWord[g] = 1]
<1>5. NoBarrier(n, wd)
  <2>1. Check(sched, "markForSleep", ~ sched.markedForSleep[g]) = sched
    BY <1>3, CheckHolds, Zenon
  <2> QED
    BY <1>4, <2>1, Zenon
<1>6. /\ sched.markedForSleep \in [Gids -> BOOLEAN]
      /\ sched.untilWakeup \in [Gids -> 0 .. MaxSleep] /\ sched.futexWord \in [Gids -> {0, 1}]
      /\ phases \in Nat /\ phases >= 1 /\ phases \in 0 .. MaxSleep
  <2>1. phases \in Nat /\ phases >= 1 /\ phases \in 0 .. MaxSleep
    BY Bounds
  <2> QED
    BY <1>2, <2>1, Fields
<1>7. /\ n.markedForSleep = [sched.markedForSleep EXCEPT ![g] = TRUE]
      /\ n.untilWakeup = [sched.untilWakeup EXCEPT ![g] = phases]
      /\ n.futexWord = [sched.futexWord EXCEPT ![g] = 1]
      /\ n.state = sched.state /\ n.cid = sched.cid /\ n.mask = sched.mask
      /\ n.handoffThread = sched.handoffThread /\ n.fakeLeave = sched.fakeLeave
      /\ n.curThread = sched.curThread /\ n.freeList = sched.freeList
      /\ n.runQueue = sched.runQueue /\ n.outQueue = sched.outQueue
      /\ n.sleepQueue = sched.sleepQueue /\ n.fakeLeaves = sched.fakeLeaves
      /\ n.failed = sched.failed
  BY <1>2 DEF SchedulerType
<1>8. n \in SchedulerType
  <2>1. /\ n.markedForSleep \in [Gids -> BOOLEAN]
        /\ n.untilWakeup \in [Gids -> 0 .. MaxSleep] /\ n.futexWord \in [Gids -> {0, 1}]
    BY <1>6, <1>7
  <2>2. n = [sched EXCEPT !.markedForSleep = n.markedForSleep, !.untilWakeup = n.untilWakeup,
                          !.futexWord = n.futexWord]
    BY <1>2 DEF SchedulerType
  <2> HIDE DEF n
  <2> QED
    BY <1>2, <2>1, <2>2, ZenonT(60) DEF SchedulerType
<1> HIDE DEF n
<1>9. /\ Others(sched, n, g, sched.cid[g])
      /\ n.markedForSleep[g] /\ n.untilWakeup[g] >= 1 /\ n.futexWord[g] = 1
  BY <1>6, <1>7 DEF Others
<1>10. ~ Forced(wd, g) /\ pc'[g] = "entering"
  BY <1>1, NotForced, GoesTo DEF PcValues
<1>11. NoHandOff(sched, g) /\ Fits(n, pc', synced, wd, g) /\ bar.state[sched.cid[g]] = "RUNNING"
  BY <1>1, <1>2, <1>3, <1>7, <1>9, <1>10, Placed, SMTT(30) DEF NoHandOff, Fits
<1> QED
  BY <1>1, <1>2, <1>3, <1>5, <1>7, <1>8, <1>9, <1>10, <1>11, OwnData DEF PcValues

\* A thread changes its own affinity.
LEMMA UpdateMask ==
    ASSUME Ready, NEW g \in Gids, NEW m \in Masks, updateMask(g, g, m)
    PROVE  Kept
<1> DEFINE n == [sched EXCEPT !.mask[g] = m]
<1>1. /\ wd.at # "driving" /\ pc[g] = "run" /\ Goto(g, "entering") /\ NoBarrier(n, wd)
  BY Zenon DEF updateMask, At
<1>2. /\ sched \in SchedulerType /\ Fits(sched, pc, synced, wd, g)
      /\ sched.handoffThread[g] = NoThread
  BY <1>1, Placed
<1>3. /\ n \in SchedulerType
      /\ n.state = sched.state /\ n.cid = sched.cid /\ n.handoffThread = sched.handoffThread
      /\ n.futexWord = sched.futexWord /\ n.markedForSleep = sched.markedForSleep
      /\ n.untilWakeup = sched.untilWakeup /\ n.fakeLeave = sched.fakeLeave
      /\ \A h \in Gids \ {g} : n.mask[h] = sched.mask[h]
      /\ n.curThread = sched.curThread /\ n.freeList = sched.freeList
      /\ n.runQueue = sched.runQueue /\ n.outQueue = sched.outQueue
      /\ n.sleepQueue = sched.sleepQueue /\ n.fakeLeaves = sched.fakeLeaves
      /\ n.failed = sched.failed
  BY <1>2, ZenonT(60) DEF SchedulerType
<1> HIDE DEF n
<1>4. Others(sched, n, g, sched.cid[g])
  BY <1>3 DEF Others
<1>5. ~ Forced(wd, g) /\ pc'[g] = "entering"
  BY <1>1, NotForced, GoesTo DEF PcValues
<1>6. /\ NoHandOff(sched, g) /\ Fits(n, pc', synced, wd, g) /\ sched.state[g] = "RUNNING"
      /\ bar.state[sched.cid[g]] = "RUNNING"
  BY <1>1, <1>2, <1>3, <1>5, Placed DEF NoHandOff, Fits
<1> QED
  BY <1>1, <1>2, <1>3, <1>4, <1>5, <1>6, OwnData DEF PcValues

\* A system call begins with a leave, or with one in name only.
LEMMA SyscallLeave ==
    ASSUME Ready, NEW g \in Gids, NEW at \in SyscallPcs, syscallLeave(g, at)
    PROVE  Kept
<1> DEFINE c == sched.cid[g]
           true == \/ <<Pid[g], at>> \in sched.blockingSyscalls
                   \/ sched.markedForSleep[g]
                   \/ c \notin sched.mask[g]
           holds == sched.curThread[c] = g /\ sched.state[g] = "RUNNING"
           n == [sched EXCEPT !.fakeLeave[g] = at, !.fakeLeaves = Append(@, g)]
<1>1. wd.at # "driving" /\ pc[g] \in {"run", "entering"}
  BY Zenon DEF syscallLeave, At
<1>2. \/ NoBarrier(sched, wd) /\ Goto(g, "leaving")
      \/ /\ ~ true
         /\ NoBarrier([Check(sched, "syscallLeave", holds)
                          EXCEPT !.fakeLeave[g] = at, !.fakeLeaves = Append(@, g)], wd)
         /\ Goto(g, "out")
  BY Zenon DEF syscallLeave
<1>3. /\ sched \in SchedulerType /\ Fits(sched, pc, synced, wd, g)
      /\ sched.handoffThread[g] = NoThread
  BY <1>1, Placed
<1>4. sched.state[g] = "RUNNING" /\ sched.fakeLeave[g] = NoPc /\ ~ Forced(wd, g)
  BY <1>1, <1>3, NotForced DEF Fits
<1>5. holds /\ bar.state[c] = "RUNNING"
  BY <1>1, <1>4, Placed
<1>6. NoHandOff(sched, g)
  BY <1>3, <1>4 DEF NoHandOff
<1>7. CASE NoBarrier(sched, wd) /\ Goto(g, "leaving")
  <2>1. pc'[g] = "leaving"
    BY <1>7, GoesTo DEF PcValues
  <2>2. Fits(sched, pc', synced, wd, g)
    BY <1>1, <1>3, <1>4, <2>1, SMTT(30) DEF Fits
  <2> QED
    BY <1>1, <1>4, <1>5, <1>6, <1>7, <2>2, PlaceOnly DEF PcValues
<1>8. CASE /\ ~ true
           /\ NoBarrier([Check(sched, "syscallLeave", holds)
                            EXCEPT !.fakeLeave[g] = at, !.fakeLeaves = Append(@, g)], wd)
           /\ Goto(g, "out")
  <2>1. Check(sched, "syscallLeave", holds) = sched
    <3> HIDE DEF holds
    <3> QED
      BY <1>5, CheckHolds, Zenon
  <2>2. NoBarrier(n, wd)
    BY <1>8, <2>1, Zenon
  <2>3. ~ sched.markedForSleep[g] /\ c \in sched.mask[g]
    BY <1>8
  <2>4. /\ sched.fakeLeave \in [Gids -> SyscallPcs \cup {NoPc}] /\ sched.fakeLeaves \in Seq(Gids)
        /\ at # NoPc
    BY <1>3, Fields, PcAssumption
  <2>5. /\ n.fakeLeave = [sched.fakeLeave EXCEPT ![g] = at]
        /\ n.fakeLeaves = Append(sched.fakeLeaves, g)
        /\ n.state = sched.state /\ n.cid = sched.cid /\ n.handoffThread = sched.handoffThread
        /\ n.futexWord = sched.futexWord /\ n.markedForSleep = sched.markedForSleep
        /\ n.untilWakeup = sched.untilWakeup /\ n.mask = sched.mask
        /\ n.curThread = sched.curThread /\ n.freeList = sched.freeList
        /\ n.runQueue = sched.runQueue /\ n.outQueue = sched.outQueue
        /\ n.sleepQueue = sched.sleepQueue /\ n.failed = sched.failed
    BY <1>3 DEF SchedulerType
  <2>6. n \in SchedulerType
    <3>1. /\ n.fakeLeave \in [Gids -> SyscallPcs \cup {NoPc}]
          /\ n.fakeLeaves \in Seq(Gids)
      BY <2>4, <2>5
    <3>2. n = [sched EXCEPT !.fakeLeave = n.fakeLeave, !.fakeLeaves = n.fakeLeaves]
      BY <1>3 DEF SchedulerType
    <3> HIDE DEF n
    <3> QED
      BY <1>3, <3>1, <3>2, ZenonT(60) DEF SchedulerType
  <2> HIDE DEF n
  <2>7. Others(sched, n, g, c) /\ n.fakeLeave[g] # NoPc
    BY <2>4, <2>5 DEF Others
  <2>8. pc'[g] = "out"
    BY <1>8, GoesTo DEF PcValues
  <2>9. Fits(n, pc', synced, wd, g)
    BY <1>3, <1>4, <2>3, <2>5, <2>7, <2>8 DEF Fits
  <2> QED
    BY <1>1, <1>3, <1>4, <1>5, <1>6, <1>8, <2>2, <2>3, <2>5, <2>6, <2>7, <2>9, OwnData
       DEF PcValues
<1> QED
  BY <1>2, <1>7, <1>8, Zenon

-----------------------------------------------------------------------------
(* Sleeps that end, and leaves *)

\* A thread that keeps its data is at another place.
LEMMA Relocated ==
    ASSUME NEW s \in SchedulerType, NEW p, NEW p1, NEW bs, NEW sy, NEW w, NEW g \in Gids,
           Core(s, p, bs, sy, w), Elsewhere(p, p1, g), w.at # "driving", ~ Forced(w, g),
           NoHandOff(s, g), Fits(s, p1, sy, w, g),
           s.state[g] = "RUNNING" /\ p1[g] \notin {"joining", "syncing"} =>
               bs[s.cid[g]] = "RUNNING",
           \/ s.state[g] = "RUNNING" /\ p1[g] \notin {"entering", "leaving"}
           \/ s.state[g] = "OUT"
           => s.cid[g] \in s.mask[g]
    PROVE  Core(s, p1, bs, sy, w)
<1>1. Others(s, s, g, s.cid[g]) /\ s.handoffThread[g] = NoThread /\ Watched(s, p, w)
  BY DEF Others, NoHandOff, Core
<1>2. Watched(s, p1, w) /\ \A h \in Gids \ {g} : Forced(w, h) => Forced(w, h)
  BY <1>1, Minded DEF Minds
<1> QED
  BY <1>1, <1>2, Stays

\* EndSleep leaves a thread that does not sleep.
LEMMA EndsSleep ==
    ASSUME NEW s \in SchedulerType, NEW p, NEW bs, NEW sy, NEW w, NEW g \in Gids,
           Core(s, p, bs, sy, w)
    PROVE  LET e == EndSleep(s, g)
           IN  /\ e \in SchedulerType /\ e.failed = s.failed /\ Core(e, p, bs, sy, w)
               /\ s.state[g] # "SLEEPING" => e = s
               /\ s.state[g] = "SLEEPING" => e.state[g] = "BLOCKED"
               /\ e.markedForSleep[g] = s.markedForSleep[g]
               /\ e.handoffThread[g] = s.handoffThread[g] /\ e.fakeLeave[g] = s.fakeLeave[g]
<1>1. CASE s.state[g] # "SLEEPING"
  <2>1. EndSleep(s, g) = s
    BY <1>1, Zenon DEF EndSleep
  <2> QED
    BY <1>1, <2>1
<1>2. CASE s.state[g] = "SLEEPING"
  <2>1. EndSleep(s, g) = Roused(s, g)
    BY <1>2, Zenon DEF EndSleep, Roused
  <2>2. /\ Roused(s, g) \in SchedulerType /\ Roused(s, g).failed = s.failed
        /\ Core(Roused(s, g), p, bs, sy, w)
    BY <1>2, SleepEnded
  <2>3. /\ Roused(s, g).state = [s.state EXCEPT ![g] = "BLOCKED"]
        /\ Roused(s, g).markedForSleep = s.markedForSleep
        /\ Roused(s, g).handoffThread = s.handoffThread
        /\ Roused(s, g).fakeLeave = s.fakeLeave
    BY DEF Roused, SchedulerType
  <2>4. s.state \in [Gids -> ThreadState]
    BY Fields
  <2>5. Roused(s, g).state[g] = "BLOCKED"
    BY <2>3, <2>4
  <2> QED
    BY <1>2, <2>1, <2>2, <2>3, <2>5
<1> QED
  BY <1>1, <1>2

\* A call with a timeout ended before it: so does the sleep.
LEMMA NotifySleepEnd ==
    ASSUME Ready, NEW g \in Gids, notifySleepEnd(g)
    PROVE  Kept
<1> DEFINE holds == ~ sched.markedForSleep[g] /\ sched.state[g] \in {"SLEEPING", "BLOCKED"}
           e == EndSleep(sched, g)
<1>1. /\ wd.at # "driving" /\ pc[g] = "polled" /\ Goto(g, "out")
      /\ NoBarrier(EndSleep(Check(sched, "notifySleepEnd", holds), g), wd)
  BY Zenon DEF notifySleepEnd, At
<1>2. /\ sched \in SchedulerType /\ wd \in WatchdogType /\ Fits(sched, pc, synced, wd, g)
      /\ sched.handoffThread[g] = NoThread
      /\ Core(sched, pc, bar.state, synced, wd) /\ BP!BarrierInv
  BY <1>1, Placed DEF Ready
<1>3. sched.state[g] \in {"SLEEPING", "BLOCKED"} /\ sched.fakeLeave[g] = NoPc /\ holds
  BY <1>1, <1>2 DEF Fits
<1>4. NoBarrier(e, wd)
  <2> HIDE DEF holds
  <2>1. Check(sched, "notifySleepEnd", holds) = sched
    BY <1>3, CheckHolds, Zenon
  <2> QED
    BY <1>1, <2>1, Zenon
<1>5. /\ e \in SchedulerType /\ e.failed = sched.failed
      /\ Core(e, pc, bar.state, synced, wd)
      /\ sched.state[g] # "SLEEPING" => e = sched
      /\ sched.state[g] = "SLEEPING" => e.state[g] = "BLOCKED"
      /\ e.markedForSleep[g] = sched.markedForSleep[g]
      /\ e.handoffThread[g] = sched.handoffThread[g] /\ e.fakeLeave[g] = sched.fakeLeave[g]
  BY <1>2, EndsSleep
<1> HIDE DEF e
<1>6. e.state[g] = "BLOCKED"
  BY <1>3, <1>5
<1>7. /\ pc' \in [Gids -> PcValues] /\ pc'[g] = "out" /\ Elsewhere(pc, pc', g)
      /\ raced' \in BOOLEAN
  BY <1>1, GoesTo DEF PcValues
<1>8. ~ Forced(wd, g)
  BY <1>1, NotForced
<1>9. NoHandOff(e, g) /\ Fits(e, pc', synced, wd, g)
  BY <1>2, <1>3, <1>5, <1>6, <1>7 DEF NoHandOff, Fits
<1>10. Core(e, pc', bar.state, synced, wd)
  BY <1>1, <1>5, <1>6, <1>7, <1>8, <1>9, Relocated
<1>11. Sound(e, pc')
  BY <1>2, <1>4, <1>5, <1>10, AfterNothing
<1> QED
  BY <1>5, <1>7, <1>11, FromSound

\* Thread g no longer has context c: it is in state st of the data l.
Retired(s, g, c, l, st) ==
    /\ l \in SchedulerType /\ l.failed = s.failed
    /\ \A h \in Gids \ {g} : l.state[h] = s.state[h] /\ l.markedForSleep[h] = s.markedForSleep[h]
    /\ \A d \in Cores \ {c} : l.curThread[d] = s.curThread[d]
    /\ l.state[g] = st /\ ~ l.markedForSleep[g] /\ l.curThread[c] = NoThread
    /\ l.cid = s.cid /\ l.handoffThread = s.handoffThread /\ l.futexWord = s.futexWord
    /\ l.untilWakeup = s.untilWakeup /\ l.mask = s.mask /\ l.fakeLeave = s.fakeLeave
    /\ l.freeList = s.freeList /\ l.runQueue = s.runQueue /\ l.outQueue = s.outQueue
    /\ l.fakeLeaves = s.fakeLeaves
    /\ Holds(l.sleepQueue, InState(l, "SLEEPING")) /\ SleepsOrdered(l)
    /\ st = "SLEEPING" => l.untilWakeup[g] >= 1 /\ l.futexWord[g] = 1

\* It blocks ...
LEMMA Blocks ==
    ASSUME NEW s \in SchedulerType, QueuesHold(s), SleepsOrdered(s),
           NEW g \in Gids, NEW c \in Cores, s.state[g] = "RUNNING", s.cid[g] = c,
           s.curThread[c] = g, ~ s.markedForSleep[g]
    PROVE  Retired(s, g, c, deschedule(s, g, c, "BLOCKED"), "BLOCKED")
<1> DEFINE n == [s EXCEPT !.state[g] = "BLOCKED", !.curThread[c] = NoThread]
<1>1. deschedule(s, g, c, "BLOCKED") = n
  <2>1. s.state[g] \in {"RUNNING", "OUT"} /\ s.cid[g] = c /\ s.curThread[c] = g
    OBVIOUS
  <2>2. Check(s, "deschedule", s.state[g] \in {"RUNNING", "OUT"}
                               /\ s.cid[g] = c /\ s.curThread[c] = g) = s
    BY <2>1, CheckHolds, Zenon
  <2> QED
    BY <2>2, Zenon DEF deschedule
<1>2. s.state \in [Gids -> ThreadState] /\ s.curThread \in [Cores -> Gids \cup {NoThread}]
  BY Fields
<1>3. /\ n.state = [s.state EXCEPT ![g] = "BLOCKED"]
      /\ n.curThread = [s.curThread EXCEPT ![c] = NoThread]
      /\ n.cid = s.cid /\ n.handoffThread = s.handoffThread /\ n.futexWord = s.futexWord
      /\ n.markedForSleep = s.markedForSleep
      /\ n.untilWakeup = s.untilWakeup /\ n.mask = s.mask /\ n.fakeLeave = s.fakeLeave
      /\ n.freeList = s.freeList /\ n.runQueue = s.runQueue /\ n.outQueue = s.outQueue
      /\ n.sleepQueue = s.sleepQueue /\ n.fakeLeaves = s.fakeLeaves /\ n.failed = s.failed
  BY DEF SchedulerType
<1>4. n \in SchedulerType
  <2>1. n.state \in [Gids -> ThreadState] /\ n.curThread \in [Cores -> Gids \cup {NoThread}]
    BY <1>2, <1>3 DEF ThreadState
  <2>2. n = [s EXCEPT !.state = n.state, !.curThread = n.curThread]
    BY DEF SchedulerType
  <2> HIDE DEF n
  <2> QED
    BY <2>1, <2>2 DEF SchedulerType
<1> HIDE DEF n
<1>5. /\ \A h \in Gids \ {g} : n.state[h] = s.state[h]
      /\ \A d \in Cores \ {c} : n.curThread[d] = s.curThread[d]
      /\ n.state[g] = "BLOCKED" /\ n.curThread[c] = NoThread
  BY <1>2, <1>3
<1>6. InState(n, "SLEEPING") = InState(s, "SLEEPING")
  BY <1>5 DEF InState
<1>7. Holds(n.sleepQueue, InState(n, "SLEEPING")) /\ SleepsOrdered(n)
  BY <1>3, <1>6 DEF QueuesHold, SleepsOrdered
<1>8. Retired(s, g, c, n, "BLOCKED")
  BY <1>3, <1>4, <1>5, <1>7 DEF Retired
<1> QED
  BY <1>1, <1>8

\* ... or goes to sleep.
LEMMA FallsAsleep ==
    ASSUME NEW s \in SchedulerType, QueuesHold(s), SleepsOrdered(s),
           NEW g \in Gids, NEW c \in Cores, s.state[g] = "RUNNING", s.cid[g] = c,
           s.curThread[c] = g, s.untilWakeup[g] >= 1, s.futexWord[g] = 1
    PROVE  Retired(s, g, c,
                   deschedule([s EXCEPT !.markedForSleep[g] = FALSE,
                                        !.sleepQueue = sleepInsert(s, g)], g, c, "SLEEPING"),
                   "SLEEPING")
<1> DEFINE q == sleepInsert(s, g)
           m == [s EXCEPT !.markedForSleep[g] = FALSE, !.sleepQueue = q]
           n == [m EXCEPT !.state[g] = "SLEEPING", !.curThread[c] = NoThread]
<1> HIDE DEF q
<1>1. deschedule(m, g, c, "SLEEPING") = n
  <2>1. m.state[g] \in {"RUNNING", "OUT"} /\ m.cid[g] = c /\ m.curThread[c] = g
    BY DEF SchedulerType
  <2> HIDE DEF m
  <2>2. Check(m, "deschedule", m.state[g] \in {"RUNNING", "OUT"}
                               /\ m.cid[g] = c /\ m.curThread[c] = g) = m
    BY <2>1, CheckHolds, Zenon
  <2> QED
    BY <2>2, Zenon DEF deschedule
<1>2. /\ s.state \in [Gids -> ThreadState] /\ s.curThread \in [Cores -> Gids \cup {NoThread}]
      /\ s.markedForSleep \in [Gids -> BOOLEAN]
  BY Fields
<1>3. /\ n.state = [s.state EXCEPT ![g] = "SLEEPING"]
      /\ n.curThread = [s.curThread EXCEPT ![c] = NoThread]
      /\ n.markedForSleep = [s.markedForSleep EXCEPT ![g] = FALSE]
      /\ n.sleepQueue = q
      /\ n.cid = s.cid /\ n.handoffThread = s.handoffThread /\ n.futexWord = s.futexWord
      /\ n.untilWakeup = s.untilWakeup /\ n.mask = s.mask /\ n.fakeLeave = s.fakeLeave
      /\ n.freeList = s.freeList /\ n.runQueue = s.runQueue /\ n.outQueue = s.outQueue
      /\ n.fakeLeaves = s.fakeLeaves /\ n.failed = s.failed
  BY DEF SchedulerType
<1>4. n = [s EXCEPT !.state = n.state, !.curThread = n.curThread,
                    !.markedForSleep = n.markedForSleep, !.sleepQueue = q]
  BY ZenonT(60) DEF SchedulerType
<1> HIDE DEF n
<1>5. /\ \A h \in Gids \ {g} : n.state[h] = s.state[h] /\ n.markedForSleep[h] = s.markedForSleep[h]
      /\ \A d \in Cores \ {c} : n.curThread[d] = s.curThread[d]
      /\ n.state[g] = "SLEEPING" /\ ~ n.markedForSleep[g] /\ n.curThread[c] = NoThread
  BY <1>2, <1>3
<1>6. InState(n, "SLEEPING") = InState(s, "SLEEPING") \cup {g}
  BY <1>5 DEF InState
<1>7. /\ q \in Seq(Gids) /\ Holds(n.sleepQueue, InState(n, "SLEEPING"))
      /\ SleepsOrdered(n)
  BY <1>3, <1>6, SleepInserted DEF q
<1>8. n \in SchedulerType
  <2>1. /\ n.state \in [Gids -> ThreadState] /\ n.curThread \in [Cores -> Gids \cup {NoThread}]
        /\ n.markedForSleep \in [Gids -> BOOLEAN]
    BY <1>2, <1>3 DEF ThreadState
  <2> QED
    BY <1>4, <1>7, <2>1, ZenonT(60) DEF SchedulerType
<1>9. Retired(s, g, c, n, "SLEEPING")
  BY <1>3, <1>5, <1>7, <1>8 DEF Retired
<1> QED
  BY <1>1, <1>9 DEF q

\* The data t with context c given to i, which waits for it.
Passed(t, i, c) ==
    [t EXCEPT !.runQueue = S!RemoveFirst(@, i), !.state[i] = "RUNNING", !.cid[i] = c,
              !.curThread[c] = i, !.futexWord[i] = 0]

\* PassContext meets no failing assertion.
LEMMA PassesContext ==
    ASSUME NEW t \in SchedulerType, NEW i \in Gids, NEW c \in Cores,
           t.state[i] = "QUEUED", t.curThread[c] = NoThread, t.futexWord[i] = 1,
           S!RemoveFirst(t.runQueue, i) \in Seq(Gids)
    PROVE  LET n == PassContext(t, i, c)
           IN  /\ n = Passed(t, i, c)
               /\ n \in SchedulerType /\ n.failed = t.failed
               /\ \A h \in Gids \ {i} : /\ n.state[h] = t.state[h] /\ n.cid[h] = t.cid[h]
                                        /\ n.futexWord[h] = t.futexWord[h]
               /\ \A d \in Cores \ {c} : n.curThread[d] = t.curThread[d]
               /\ n.state[i] = "RUNNING" /\ n.cid[i] = c /\ n.curThread[c] = i
               /\ n.futexWord[i] = 0 /\ n.runQueue = S!RemoveFirst(t.runQueue, i)
               /\ n.handoffThread = t.handoffThread /\ n.markedForSleep = t.markedForSleep
               /\ n.untilWakeup = t.untilWakeup /\ n.mask = t.mask
               /\ n.fakeLeave = t.fakeLeave /\ n.freeList = t.freeList
               /\ n.outQueue = t.outQueue /\ n.sleepQueue = t.sleepQueue
               /\ n.fakeLeaves = t.fakeLeaves
<1> DEFINE r == S!RemoveFirst(t.runQueue, i)
           u == [t EXCEPT !.runQueue = r]
           v == [u EXCEPT !.state[i] = "RUNNING", !.cid[i] = c, !.curThread[c] = i]
           n == [v EXCEPT !.futexWord[i] = 0]
<1> HIDE DEF r
<1>1. schedule(u, i, c) = v
  <2>1. u.state[i] \in {"STARTED", "BLOCKED", "QUEUED"} /\ u.curThread[c] = NoThread
    BY DEF SchedulerType
  <2> HIDE DEF u
  <2>2. Check(u, "schedule", u.state[i] \in {"STARTED", "BLOCKED", "QUEUED"}
                             /\ u.curThread[c] = NoThread) = u
    BY <2>1, CheckHolds, Zenon
  <2> QED
    BY <2>2, Zenon DEF schedule
<1>2. wakeup(v, i) = n
  <2> DEFINE holds == v.futexWord[i] = 1
  <2>1. holds
    BY DEF SchedulerType
  <2> HIDE DEF v, holds
  <2>2. Check(v, "wakeup", holds) = v
    BY <2>1, CheckHolds, Zenon
  <2> QED
    BY <2>2, Zenon DEF wakeup, holds
<1>3. PassContext(t, i, c) = n
  <2>1. PassContext(t, i, c) = wakeup(schedule(u, i, c), i)
    BY Zenon DEF PassContext, r
  <2> HIDE DEF u, v, n
  <2> QED
    BY <1>1, <1>2, <2>1
<1>4. /\ t.state \in [Gids -> ThreadState] /\ t.cid \in [Gids -> Cores]
      /\ t.curThread \in [Cores -> Gids \cup {NoThread}] /\ t.futexWord \in [Gids -> {0, 1}]
  BY Fields
<1>5. /\ n.state = [t.state EXCEPT ![i] = "RUNNING"] /\ n.cid = [t.cid EXCEPT ![i] = c]
      /\ n.curThread = [t.curThread EXCEPT ![c] = i]
      /\ n.futexWord = [t.futexWord EXCEPT ![i] = 0]
      /\ n.runQueue = r
      /\ n.handoffThread = t.handoffThread /\ n.markedForSleep = t.markedForSleep
      /\ n.untilWakeup = t.untilWakeup /\ n.mask = t.mask
      /\ n.fakeLeave = t.fakeLeave /\ n.freeList = t.freeList
      /\ n.outQueue = t.outQueue /\ n.sleepQueue = t.sleepQueue
      /\ n.fakeLeaves = t.fakeLeaves /\ n.failed = t.failed
  BY DEF SchedulerType
<1>6. /\ n = [t EXCEPT !.state = n.state, !.cid = n.cid, !.curThread = n.curThread,
                       !.futexWord = n.futexWord, !.runQueue = r]
      /\ n = Passed(t, i, c)
  <2>1. n = [t EXCEPT !.state = n.state, !.cid = n.cid, !.curThread = n.curThread,
                      !.futexWord = n.futexWord, !.runQueue = r]
    BY ZenonT(60) DEF SchedulerType
  <2>2. n = Passed(t, i, c)
    BY DEF SchedulerType, Passed, r
  <2> QED
    BY <2>1, <2>2
<1> HIDE DEF n
<1>7. n \in SchedulerType
  <2>1. /\ n.state \in [Gids -> ThreadState] /\ n.cid \in [Gids -> Cores]
        /\ n.curThread \in [Cores -> Gids \cup {NoThread}] /\ n.futexWord \in [Gids -> {0, 1}]
    BY <1>4, <1>5 DEF ThreadState
  <2>2. r \in Seq(Gids)
    BY DEF r
  <2> QED
    BY <1>6, <2>1, <2>2, ZenonT(60) DEF SchedulerType
<1>8. /\ \A h \in Gids \ {i} : /\ n.state[h] = t.state[h] /\ n.cid[h] = t.cid[h]
                               /\ n.futexWord[h] = t.futexWord[h]
      /\ \A d \in Cores \ {c} : n.curThread[d] = t.curThread[d]
      /\ n.state[i] = "RUNNING" /\ n.cid[i] = c /\ n.curThread[c] = i
      /\ n.futexWord[i] = 0
  BY <1>4, <1>5
<1> QED
  BY <1>3, <1>5, <1>6, <1>7, <1>8 DEF r

\* Thread g, retired in the data l, has left its context to i.
LEMMA GivesTo ==
    ASSUME NEW s \in SchedulerType, NEW p, NEW p1, NEW bs, NEW sy, NEW w, NEW w1,
           NEW g \in Gids, NEW i \in Gids, NEW c \in Cores, NEW l, NEW st,
           Core(s, p, bs, sy, w), Minds(w, w1, g), Elsewhere(p, p1, g),
           c = s.cid[g], s.state[g] = "RUNNING", bs[c] = "RUNNING", s.fakeLeave[g] = NoPc,
           s.handoffThread[g] = NoThread, i \in Waiters(s), c \in s.mask[i],
           st \in {"BLOCKED", "SLEEPING"}, Retired(s, g, c, l, st),
           p1[g] \in {"out", "matching", "finEnd"}, st = "SLEEPING" => p1[g] = "out"
    PROVE  LET n == PassContext(l, i, c)
           IN  n \in SchedulerType /\ n.failed = s.failed /\ Core(n, p1, bs, sy, w1)
<1> DEFINE n == PassContext(l, i, c)
           q == S!RemoveFirst(l.runQueue, i)
<1>1. /\ l \in SchedulerType /\ l.failed = s.failed
      /\ \A h \in Gids \ {g} : l.state[h] = s.state[h] /\ l.markedForSleep[h] = s.markedForSleep[h]
      /\ \A d \in Cores \ {c} : l.curThread[d] = s.curThread[d]
      /\ l.state[g] = st /\ ~ l.markedForSleep[g] /\ l.curThread[c] = NoThread
      /\ l.cid = s.cid /\ l.handoffThread = s.handoffThread /\ l.futexWord = s.futexWord
      /\ l.untilWakeup = s.untilWakeup /\ l.mask = s.mask /\ l.fakeLeave = s.fakeLeave
      /\ l.freeList = s.freeList /\ l.runQueue = s.runQueue /\ l.outQueue = s.outQueue
      /\ l.fakeLeaves = s.fakeLeaves
      /\ Holds(l.sleepQueue, InState(l, "SLEEPING")) /\ SleepsOrdered(l)
      /\ st = "SLEEPING" => l.untilWakeup[g] >= 1 /\ l.futexWord[g] = 1
  BY DEF Retired
<1>2. /\ s.state[i] = "QUEUED" /\ i # g /\ s.futexWord[i] = 1
      /\ \A v \in Gids : s.handoffThread[v] # i
      /\ Fits(s, p, sy, w, g) /\ Watched(s, p, w)
  BY DEF Core, Fits, Waiters, InState, Promised
<1>3. q \in Seq(Gids) /\ Holds(q, Waiters(s) \ {i})
  <2>1. s.runQueue \in Seq(Gids) /\ Holds(s.runQueue, Waiters(s))
    BY Fields DEF Core, QueuesHold
  <2>2. S!RemoveFirst(s.runQueue, i) \in Seq(Gids)
    BY <2>1, Removed
  <2>3. Holds(S!RemoveFirst(s.runQueue, i), Waiters(s) \ {i})
    BY <2>1, Removed
  <2>4. q = S!RemoveFirst(s.runQueue, i)
    BY <1>1
  <2> HIDE DEF q
  <2> QED
    BY <2>2, <2>3, <2>4
<1>4. l.state[i] = "QUEUED" /\ l.futexWord[i] = 1
  BY <1>1, <1>2
<1>5. /\ n \in SchedulerType /\ n.failed = l.failed
      /\ \A h \in Gids \ {i} : /\ n.state[h] = l.state[h] /\ n.cid[h] = l.cid[h]
                               /\ n.futexWord[h] = l.futexWord[h]
      /\ \A d \in Cores \ {c} : n.curThread[d] = l.curThread[d]
      /\ n.state[i] = "RUNNING" /\ n.cid[i] = c /\ n.curThread[c] = i
      /\ n.futexWord[i] = 0 /\ n.runQueue = q
      /\ n.handoffThread = l.handoffThread /\ n.markedForSleep = l.markedForSleep
      /\ n.untilWakeup = l.untilWakeup /\ n.mask = l.mask
      /\ n.fakeLeave = l.fakeLeave /\ n.freeList = l.freeList
      /\ n.outQueue = l.outQueue /\ n.sleepQueue = l.sleepQueue
      /\ n.fakeLeaves = l.fakeLeaves
  BY <1>1, <1>3, <1>4, PassesContext
<1> HIDE DEF n, q
<1>6. OtherTwo(s, n, g, i, c)
  BY <1>1, <1>5 DEF OtherTwo
<1>7. InState(n, "SLEEPING") = InState(l, "SLEEPING")
  BY <1>4, <1>5 DEF InState
<1>8. Holds(n.sleepQueue, InState(n, "SLEEPING")) /\ SleepsOrdered(n)
  <2>1. \A h \in InState(n, "SLEEPING") : n.futexWord[h] = l.futexWord[h]
    BY <1>5 DEF InState
  <2> QED
    BY <1>1, <1>5, <1>7, <2>1 DEF SleepsOrdered
<1>9. Watched(n, p1, w1) /\ \A h \in Gids \ {g} : Forced(w, h) => Forced(w1, h)
  <2>1. CASE w1 = w /\ ~ Forced(w, g) /\ w.at # "driving"
    <3>1. \A h \in Gids \ {g, i} : n.state[h] = s.state[h] /\ n.cid[h] = s.cid[h]
      BY <1>1, <1>5
    <3>2. n.fakeLeave = s.fakeLeave
      BY <1>1, <1>5
    <3> QED
      BY <1>2, <2>1, <3>1, <3>2 DEF Watched, Elsewhere, Forced
  <2>2. CASE Forced(w, g) /\ w1.at = "relock"
    BY <1>2, <2>2 DEF Watched, Forced
  <2> QED
    BY <2>1, <2>2 DEF Minds
<1>10. n.state[g] = st /\ n.handoffThread[g] = NoThread /\ n.markedForSleep[i] = s.markedForSleep[i]
  BY <1>1, <1>2, <1>5
<1>11. Fits(n, p1, sy, w1, g)
  <2>1. ~ n.markedForSleep[g] /\ n.fakeLeave[g] = NoPc
    BY <1>1, <1>5
  <2> QED
    BY <1>10, <2>1 DEF Fits
<1>12. Core(n, p1, bs, sy, w1)
  <2>1. /\ \A v \in Gids \ {g} : s.handoffThread[v] # i
        /\ s.handoffThread[g] \in {i, NoThread}
        /\ n.state[g] \in {"BLOCKED", "SLEEPING"}
        /\ Holds(n.runQueue, Waiters(s) \ {i})
    BY <1>2, <1>3, <1>5, <1>10
  <2> QED
    BY <1>2, <1>5, <1>6, <1>8, <1>9, <1>10, <1>11, <2>1, Passes, ZenonT(60)
<1> QED
  BY <1>1, <1>5, <1>12 DEF n

\* The data l with context c free.
Freed(l, c) == [l EXCEPT !.freeList = Append(@, c)]

\* Thread g, retired in the data l, has left its context to nobody.
LEMMA LeavesFree ==
    ASSUME NEW s \in SchedulerType, NEW p, NEW p1, NEW bs, NEW bs1, NEW sy, NEW w, NEW w1,
           NEW g \in Gids, NEW c \in Cores, NEW l, NEW st,
           Core(s, p, bs, sy, w), Minds(w, w1, g), Elsewhere(p, p1, g),
           c = s.cid[g], s.state[g] = "RUNNING", bs[c] = "RUNNING", s.fakeLeave[g] = NoPc,
           s.handoffThread[g] = NoThread, \A h \in Waiters(s) : c \notin s.mask[h],
           st \in {"BLOCKED", "SLEEPING"}, Retired(s, g, c, l, st),
           p1[g] \in {"out", "matching", "finEnd"}, st = "SLEEPING" => p1[g] = "out",
           \A d \in Cores : bs1[d] = IF d = c THEN "LEFT" ELSE bs[d]
    PROVE  LET n == Freed(l, c)
           IN  n \in SchedulerType /\ n.failed = s.failed /\ Core(n, p1, bs1, sy, w1)
<1> DEFINE n == Freed(l, c)
<1>1. /\ l \in SchedulerType /\ l.failed = s.failed
      /\ \A h \in Gids \ {g} : l.state[h] = s.state[h] /\ l.markedForSleep[h] = s.markedForSleep[h]
      /\ \A d \in Cores \ {c} : l.curThread[d] = s.curThread[d]
      /\ l.state[g] = st /\ ~ l.markedForSleep[g] /\ l.curThread[c] = NoThread
      /\ l.cid = s.cid /\ l.handoffThread = s.handoffThread /\ l.futexWord = s.futexWord
      /\ l.untilWakeup = s.untilWakeup /\ l.mask = s.mask /\ l.fakeLeave = s.fakeLeave
      /\ l.freeList = s.freeList /\ l.runQueue = s.runQueue /\ l.outQueue = s.outQueue
      /\ l.fakeLeaves = s.fakeLeaves
      /\ Holds(l.sleepQueue, InState(l, "SLEEPING")) /\ SleepsOrdered(l)
      /\ st = "SLEEPING" => l.untilWakeup[g] >= 1 /\ l.futexWord[g] = 1
  BY DEF Retired
<1>2. Append(s.freeList, c) \in Seq(Cores)
  BY Fields
<1>3. /\ n.freeList = Append(s.freeList, c)
      /\ n.state = l.state /\ n.cid = l.cid /\ n.curThread = l.curThread
      /\ n.handoffThread = l.handoffThread /\ n.futexWord = l.futexWord
      /\ n.markedForSleep = l.markedForSleep /\ n.untilWakeup = l.untilWakeup
      /\ n.mask = l.mask /\ n.fakeLeave = l.fakeLeave /\ n.runQueue = l.runQueue
      /\ n.outQueue = l.outQueue /\ n.sleepQueue = l.sleepQueue
      /\ n.fakeLeaves = l.fakeLeaves /\ n.failed = l.failed
  BY <1>1 DEF Freed, SchedulerType
<1>4. n \in SchedulerType
  BY <1>1, <1>2, ZenonT(60) DEF Freed, SchedulerType
<1> HIDE DEF n
<1>5. Others(s, n, g, c)
  BY <1>1, <1>3 DEF Others
<1>6. Watched(s, p, w)
  BY DEF Core
<1>7. Watched(n, p1, w1) /\ \A h \in Gids \ {g} : Forced(w, h) => Forced(w1, h)
  BY <1>5, <1>6, Minded
<1>8. InState(n, "SLEEPING") = InState(l, "SLEEPING")
  BY <1>3 DEF InState
<1>9. Holds(n.sleepQueue, InState(n, "SLEEPING")) /\ SleepsOrdered(n)
  BY <1>1, <1>3, <1>8 DEF SleepsOrdered
<1>10. n.state[g] = st /\ n.handoffThread[g] = NoThread /\ n.fakeLeave[g] = NoPc
  BY <1>1, <1>3
<1>11. Fits(n, p1, sy, w1, g)
  <2>1. ~ n.markedForSleep[g]
    BY <1>1, <1>3
  <2> QED
    BY <1>10, <2>1 DEF Fits
<1>12. /\ \A d \in Cores : bs1[d] \in {"RUNNING", "WAITING"} <=>
                               d # c /\ bs[d] \in {"RUNNING", "WAITING"}
       /\ \A d \in Cores \ {c} : bs1[d] = bs[d]
  OBVIOUS
<1>13. /\ n.curThread[c] = NoThread /\ n.runQueue = s.runQueue /\ n.outQueue = s.outQueue
       /\ n.fakeLeaves = s.fakeLeaves /\ n.state[g] \in {"BLOCKED", "SLEEPING", "STARTED"}
  BY <1>1, <1>3, <1>10
<1>14. Core(n, p1, bs1, sy, w1)
  BY <1>3, <1>4, <1>5, <1>7, <1>9, <1>10, <1>11, <1>12, <1>13, Frees
<1> QED
  BY <1>1, <1>3, <1>4, <1>14 DEF n

\* leave by g, or by the watchdog on behalf of g.
LEMMA Leaves ==
    ASSUME Ready, NEW g \in Gids, NEW w1 \in WatchdogType, Minds(wd, w1, g),
           pc' \in [Gids -> PcValues], raced' \in BOOLEAN, Elsewhere(pc, pc', g),
           leave(g, sched.cid[g], w1), sched.state[g] = "RUNNING", sched.fakeLeave[g] = NoPc,
           pc[g] \notin {"joining", "syncing"}, pc'[g] \in {"out", "matching", "finEnd"},
           sched.markedForSleep[g] => pc'[g] = "out"
    PROVE  Kept
<1> DEFINE c == sched.cid[g]
           blocked == deschedule(sched, g, c, "BLOCKED")
           asleep == deschedule([sched EXCEPT !.markedForSleep[g] = FALSE,
                                              !.sleepQueue = sleepInsert(sched, g)],
                                g, c, "SLEEPING")
           in == schedContext(sched, c)
           l == IF sched.markedForSleep[g] THEN asleep ELSE blocked
           st == IF sched.markedForSleep[g] THEN "SLEEPING" ELSE "BLOCKED"
           bs == [bar.state EXCEPT ![c] = "LEFT"]
<1>1. /\ sched \in SchedulerType /\ wd \in WatchdogType /\ c \in Cores
      /\ sched.curThread[c] = g /\ bar.state[c] = "RUNNING"
      /\ sched.handoffThread[g] = NoThread /\ Fits(sched, pc, synced, wd, g)
  BY Placed
<1>2. Core(sched, pc, bar.state, synced, wd) /\ BP!BarrierInv
  BY DEF Ready
<1>3. QueuesHold(sched) /\ SleepsOrdered(sched)
  BY <1>2 DEF Core
<1>4. IF in # NoThread THEN NoBarrier(PassContext(l, in, c), w1)
      ELSE IF sched.markedForSleep[g] \/ c \notin sched.mask[g]
      THEN BarrierLeave(Freed(l, c), c, w1)
      ELSE BarrierLeave(GoneOut(sched, g), c, w1)
  BY <1>1, Zenon DEF leave, GoneOut, Freed
<1>5. Retired(sched, g, c, l, st)
  <2>1. CASE sched.markedForSleep[g]
    <3>1. sched.untilWakeup[g] >= 1 /\ sched.futexWord[g] = 1
      BY <1>1, <2>1 DEF Fits
    <3>2. Retired(sched, g, c, asleep, "SLEEPING")
      BY <1>1, <1>3, <3>1, FallsAsleep, Zenon
    <3> HIDE DEF asleep, blocked
    <3> QED
      BY <2>1, <3>2
  <2>2. CASE ~ sched.markedForSleep[g]
    <3>1. Retired(sched, g, c, blocked, "BLOCKED")
      BY <1>1, <1>3, <2>2, Blocks, Zenon
    <3> HIDE DEF asleep, blocked
    <3> QED
      BY <2>2, <3>1
  <2> QED
    BY <2>1, <2>2
<1>6. st \in {"BLOCKED", "SLEEPING"} /\ (st = "SLEEPING" => pc'[g] = "out")
  OBVIOUS
<1>7. IF in # NoThread THEN in \in Waiters(sched) /\ c \in sched.mask[in]
      ELSE \A h \in Waiters(sched) : c \notin sched.mask[h]
  BY <1>1, <1>3, QueuedFound, Zenon
<1>8. \A d \in Cores : bs[d] = IF d = c THEN "LEFT" ELSE bar.state[d]
  BY <1>2, BarrierStates
<1> HIDE DEF l, st, in, bs, c
<1>9. c = sched.cid[g]
  BY DEF c
<1>10. CASE in # NoThread
  <2> DEFINE n == PassContext(l, in, c)
  <2>1. in \in Waiters(sched) /\ c \in sched.mask[in] /\ in \in Gids
    BY <1>7, <1>10 DEF Waiters, InState
  <2>2. n \in SchedulerType /\ n.failed = sched.failed /\ Core(n, pc', bar.state, synced, w1)
    BY <1>1, <1>2, <1>5, <1>6, <1>9, <2>1, GivesTo
  <2>3. NoBarrier(n, w1)
    BY <1>4, <1>10
  <2> HIDE DEF n
  <2>4. Sound(n, pc')
    BY <1>2, <2>2, <2>3, AfterNothing
  <2> QED
    BY <2>2, <2>4, FromSound
<1>11. CASE in = NoThread /\ (sched.markedForSleep[g] \/ c \notin sched.mask[g])
  <2> DEFINE n == Freed(l, c)
  <2>1. \A h \in Waiters(sched) : c \notin sched.mask[h]
    BY <1>7, <1>11
  <2>2. n \in SchedulerType /\ n.failed = sched.failed /\ Core(n, pc', bs, synced, w1)
    BY <1>1, <1>2, <1>5, <1>6, <1>8, <1>9, <2>1, LeavesFree
  <2>3. BarrierLeave(n, c, w1)
    BY <1>4, <1>11
  <2> HIDE DEF n
  <2>4. Sound(n, pc')
    BY <1>1, <1>2, <1>8, <2>2, <2>3, AfterLeave
  <2> QED
    BY <2>2, <2>4, FromSound
<1>12. CASE in = NoThread /\ ~ (sched.markedForSleep[g] \/ c \notin sched.mask[g])
  <2>1. /\ \A h \in Waiters(sched) : sched.cid[g] \notin sched.mask[h]
        /\ sched.cid[g] \in sched.mask[g] /\ ~ sched.markedForSleep[g]
        /\ \A d \in Cores : bs[d] = IF d = sched.cid[g] THEN "LEFT" ELSE bar.state[d]
    BY <1>7, <1>8, <1>9, <1>12
  <2>2. /\ GoneOut(sched, g) \in SchedulerType /\ GoneOut(sched, g).failed = sched.failed
        /\ Core(GoneOut(sched, g), pc', bs, synced, w1)
    BY <1>1, <1>2, <2>1, GoesOut
  <2>3. BarrierLeave(GoneOut(sched, g), c, w1)
    BY <1>4, <1>12
  <2>4. Sound(GoneOut(sched, g), pc')
    BY <1>1, <1>2, <1>8, <2>2, <2>3, AfterLeave
  <2> QED
    BY <2>2, <2>4, FromSound
<1> QED
  BY <1>10, <1>11, <1>12

\* A thread leaves at a system call.
LEMMA ThreadLeaves ==
    ASSUME Ready, NEW g \in Gids, threadLeave(g)
    PROVE  Kept
<1>1. /\ wd.at # "driving" /\ pc[g] = "leaving" /\ Goto(g, "out")
      /\ leave(g, sched.cid[g], wd)
  BY Zenon DEF threadLeave, At
<1>2. /\ pc' \in [Gids -> PcValues] /\ pc'[g] = "out" /\ Elsewhere(pc, pc', g)
      /\ raced' \in BOOLEAN
  BY <1>1, GoesTo DEF PcValues
<1>3. wd \in WatchdogType /\ sched.state[g] = "RUNNING" /\ sched.fakeLeave[g] = NoPc
  BY <1>1, Placed DEF Fits
<1>4. Minds(wd, wd, g)
  BY <1>1, NotForced DEF Minds
<1> QED
  BY <1>1, <1>2, <1>3, <1>4, Leaves

\* A thread leaves to finish.
LEMMA FinishLeaves ==
    ASSUME Ready, NEW g \in Gids, finishLeave(g)
    PROVE  Kept
<1>1. /\ wd.at # "driving" /\ pc[g] = "finLeave" /\ Goto(g, "finEnd")
      /\ leave(g, sched.cid[g], wd)
  BY Zenon DEF finishLeave, At
<1>2. /\ pc' \in [Gids -> PcValues] /\ pc'[g] = "finEnd" /\ Elsewhere(pc, pc', g)
      /\ raced' \in BOOLEAN
  BY <1>1, GoesTo DEF PcValues
<1>3. /\ wd \in WatchdogType /\ sched.state[g] = "RUNNING" /\ sched.fakeLeave[g] = NoPc
      /\ ~ sched.markedForSleep[g]
  BY <1>1, Placed DEF Fits
<1>4. Minds(wd, wd, g)
  BY <1>1, NotForced DEF Minds
<1> QED
  BY <1>1, <1>2, <1>3, <1>4, Leaves

\* The watchdog leaves on behalf of a thread, with the right process id.
LEMMA WatchdogLeaves ==
    ASSUME Ready, Pid[wd.th] = wd.pid, watchdogLeave
    PROVE  Kept
<1> DEFINE g == wd.th
           w1 == [wd EXCEPT !.at = "relock"]
<1>1. /\ wd.at = "leave" /\ UNCHANGED <<pc, raced>>
      /\ Pid[g] = wd.pid => leave(g, wd.cid, w1)
  BY Zenon DEF watchdogLeave, WatchdogAt
<1>2. /\ sched \in SchedulerType /\ wd \in WatchdogType /\ raced \in BOOLEAN
      /\ pc \in [Gids -> PcValues] /\ Watched(sched, pc, wd)
  BY DEF Ready, TypeOK, Core
<1>3. /\ g \in Gids /\ pc[g] \in {"out", "matching"}
      /\ sched.state[g] = "RUNNING" /\ sched.fakeLeave[g] = NoPc
      /\ sched.cid[g] = wd.cid /\ \E h \in Gids : wd.pid = Pid[h]
  BY <1>1, <1>2 DEF Watched
<1>4. leave(g, sched.cid[g], w1)
  <2>1. Pid[g] = wd.pid
    OBVIOUS
  <2> QED
    BY <1>1, <1>3, <2>1, Zenon
<1>5. w1 \in WatchdogType
  BY <1>2 DEF WatchdogType
<1>6. Minds(wd, w1, g)
  BY <1>1, <1>2 DEF Minds, Forced, WatchdogType
<1>7. ~ sched.markedForSleep[g]
  BY <1>3, Placed DEF Fits
<1>8. Elsewhere(pc, pc', g) /\ pc' = pc /\ raced' = raced
  BY <1>1 DEF Elsewhere
<1> HIDE DEF w1, g
<1> QED
  BY <1>2, <1>3, <1>4, <1>5, <1>6, <1>7, <1>8, Leaves

\* A thread reaches the end of its phase.
LEMMA SyncCalls ==
    ASSUME Ready, NEW g \in Gids, sync(g)
    PROVE  Kept
<1> DEFINE c == sched.cid[g]
           bs == [bar.state EXCEPT ![c] = "WAITING"]
           holds == ~ sched.markedForSleep[g]
<1>1. /\ wd.at # "driving" /\ pc[g] = "run" /\ Goto(g, "syncing")
      /\ BarrierSync(Check(sched, "sync", holds), c)
  BY Zenon DEF sync, At
<1>2. /\ pc' \in [Gids -> PcValues] /\ pc'[g] = "syncing" /\ Elsewhere(pc, pc', g)
      /\ raced' \in BOOLEAN
  BY <1>1, GoesTo DEF PcValues
<1>3. /\ sched \in SchedulerType /\ wd \in WatchdogType /\ sched.state[g] = "RUNNING"
      /\ ~ sched.markedForSleep[g] /\ c \in Cores /\ bar.state[c] = "RUNNING"
  BY <1>1, Placed DEF Fits
<1>4. BarrierSync(sched, c)
  <2>1. holds
    BY <1>3
  <2> HIDE DEF holds
  <2>2. Check(sched, "sync", holds) = sched
    BY <2>1, CheckHolds, Zenon
  <2> QED
    BY <1>1, <2>2, Zenon
<1>5. Core(sched, pc, bar.state, synced, wd) /\ BP!BarrierInv
  BY DEF Ready
<1>6. \A d \in Cores : bs[d] = IF d = c THEN "WAITING" ELSE bar.state[d]
  BY <1>5, BarrierStates
<1> HIDE DEF bs
<1>7. Core(sched, pc', bs, synced \cup {c}, wd)
  BY <1>1, <1>2, <1>3, <1>5, <1>6, Syncs
<1>8. Sound(sched, pc')
  BY <1>3, <1>4, <1>5, <1>6, <1>7, AfterSync
<1> QED
  BY <1>2, <1>8, FromSound

-----------------------------------------------------------------------------
(* Handoffs, joins, and the end of a thread *)

\* The arguments of a function may be set in either order.
LEMMA SetEither ==
    ASSUME NEW A, NEW f, DOMAIN f = A, f = [a \in A |-> f[a]], NEW g \in A, NEW h \in A, g # h,
           NEW x, NEW y
    PROVE  [[f EXCEPT ![g] = x] EXCEPT ![h] = y] = [[f EXCEPT ![h] = y] EXCEPT ![g] = x]
OBVIOUS

\* Whatever JoinOrQueue does, raced is still a Boolean.
LEMMA StillBoolean ==
    ASSUME Ready, NEW g \in Gids, NEW s, JoinOrQueue(s, g)
    PROVE  raced' \in BOOLEAN
<1>1. Goto(g, "joining") \/ Goto(g, "waiting")
  BY Zenon DEF JoinOrQueue
<1> QED
  BY <1>1, GoesTo DEF PcValues

\* Thread g looks for a context in the sound data s.
LEMMA JoinsFrom ==
    ASSUME Ready, wd.at # "driving", NEW g \in Gids, NEW s \in SchedulerType, NEW p, NEW x,
           x \in {"STARTED", "BLOCKED", "QUEUED"},
           Core(s, p, bar.state, synced, wd), s.state[g] \in {"STARTED", "BLOCKED"},
           s.failed = sched.failed,
           Elsewhere(p, pc, g), JoinOrQueue([s EXCEPT !.state[g] = x], g)
    PROVE  Kept
<1>1. BP!BarrierInv /\ wd \in WatchdogType /\ pc \in [Gids -> PcValues]
  BY DEF Ready, TypeOK
<1>2. /\ pc' \in [Gids -> PcValues] /\ sched'.failed = s.failed
      /\ \E n : Sound(n, pc')
  BY <1>1, JoinsOrQueues, Zenon
<1>3. PICK n : Sound(n, pc')
  BY <1>2
<1>4. n.failed = sched.failed
  BY <1>2, <1>3 DEF Sound
<1>5. raced' \in BOOLEAN
  BY StillBoolean, Zenon
<1> QED
  BY <1>2, <1>3, <1>4, <1>5, FromSound

\* A thread hands its context off when it returns from a sync, and looks for one.
LEMMA SyncHandsOff ==
    ASSUME Ready, NEW g \in Gids, syncHandsOff(g)
    PROVE  Kept
<1> DEFINE c == sched.cid[g]
           i == sched.handoffThread[g]
           l == [sched EXCEPT !.state[g] = "BLOCKED", !.curThread[c] = NoThread,
                              !.handoffThread[g] = NoThread]
           t == [deschedule(sched, g, c, "QUEUED") EXCEPT !.handoffThread[g] = NoThread]
           lq == [sched EXCEPT !.state[g] = "QUEUED", !.curThread[c] = NoThread,
                               !.handoffThread[g] = NoThread]
           n == PassContext(l, i, c)
           p == [pc EXCEPT ![g] = "out"]
<1>1. /\ wd.at # "driving" /\ pc[g] = "syncing" /\ bar.state[c] = "RUNNING" /\ i # NoThread
      /\ JoinOrQueue(PassContext(t, i, c), g)
  BY Zenon DEF syncHandsOff, At
<1>2. /\ sched \in SchedulerType /\ wd \in WatchdogType /\ Fits(sched, pc, synced, wd, g)
      /\ Watched(sched, pc, wd)
      /\ Core(sched, pc, bar.state, synced, wd) /\ pc \in [Gids -> PcValues]
  BY Placed DEF Ready, TypeOK
<1>3. sched.state[g] = "RUNNING" /\ ~ sched.markedForSleep[g] /\ sched.fakeLeave[g] = NoPc
  BY <1>1, <1>2 DEF Fits
<1>4. c \in Cores /\ sched.curThread[c] = g
  BY <1>3, Placed
<1>5. /\ sched.state \in [Gids -> ThreadState] /\ sched.cid \in [Gids -> Cores]
      /\ sched.curThread \in [Cores -> Gids \cup {NoThread}]
      /\ sched.handoffThread \in [Gids -> Gids \cup {NoThread}]
      /\ sched.futexWord \in [Gids -> {0, 1}] /\ sched.runQueue \in Seq(Gids)
  BY <1>2, Fields
<1>6. /\ i \in Gids /\ sched.state[i] = "QUEUED" /\ c \in sched.mask[i]
      /\ \A v \in Gids \ {g} : sched.handoffThread[v] # i
  BY <1>1, <1>2, <1>5 DEF Core, HandOffs
<1>7. i # g /\ pc[i] = "waiting" /\ sched.futexWord[i] = 1
  <2>1. Fits(sched, pc, synced, wd, i)
    BY <1>2, <1>6 DEF Core
  <2> QED
    BY <1>3, <1>6, <2>1 DEF Fits
<1>8. i \notin Waiters(sched)
  BY DEF Waiters, Promised
<1>9. /\ Holds(sched.runQueue, Waiters(sched)) /\ Holds(sched.sleepQueue, InState(sched, "SLEEPING"))
      /\ SleepsOrdered(sched)
  BY <1>2 DEF Core, QueuesHold
<1>10. S!RemoveFirst(sched.runQueue, i) = sched.runQueue
  BY <1>5, <1>8, <1>9, NotThere
<1> HIDE DEF c, i
<1>11. /\ l.state = [sched.state EXCEPT ![g] = "BLOCKED"]
       /\ l.curThread = [sched.curThread EXCEPT ![c] = NoThread]
       /\ l.handoffThread = [sched.handoffThread EXCEPT ![g] = NoThread]
       /\ l.cid = sched.cid /\ l.futexWord = sched.futexWord
       /\ l.markedForSleep = sched.markedForSleep
       /\ l.untilWakeup = sched.untilWakeup /\ l.mask = sched.mask
       /\ l.fakeLeave = sched.fakeLeave
       /\ l.freeList = sched.freeList /\ l.runQueue = sched.runQueue
       /\ l.outQueue = sched.outQueue /\ l.sleepQueue = sched.sleepQueue
       /\ l.fakeLeaves = sched.fakeLeaves /\ l.failed = sched.failed
  BY <1>2 DEF SchedulerType
<1>12. l \in SchedulerType
  <2>1. /\ l.state \in [Gids -> ThreadState] /\ l.curThread \in [Cores -> Gids \cup {NoThread}]
        /\ l.handoffThread \in [Gids -> Gids \cup {NoThread}]
    <3> HIDE DEF l
    <3>1. "BLOCKED" \in ThreadState
      BY DEF ThreadState
    <3>2. l.state \in [Gids -> ThreadState]
      BY <1>5, <1>11, <3>1
    <3>3. l.curThread \in [Cores -> Gids \cup {NoThread}]
      BY <1>5, <1>11
    <3>4. l.handoffThread \in [Gids -> Gids \cup {NoThread}]
      BY <1>5, <1>11
    <3> QED
      BY <3>2, <3>3, <3>4
  <2>2. l = [sched EXCEPT !.state = l.state, !.curThread = l.curThread,
                          !.handoffThread = l.handoffThread]
    BY <1>2 DEF SchedulerType
  <2> HIDE DEF l
  <2> QED
    BY <1>2, <2>1, <2>2 DEF SchedulerType
<1>13. t = lq
  <2>1. sched.state[g] \in {"RUNNING", "OUT"} /\ sched.cid[g] = c /\ sched.curThread[c] = g
    BY <1>3, <1>4 DEF c
  <2>2. Check(sched, "deschedule", sched.state[g] \in {"RUNNING", "OUT"}
                                   /\ sched.cid[g] = c /\ sched.curThread[c] = g) = sched
    BY <2>1, CheckHolds, Zenon
  <2>3. deschedule(sched, g, c, "QUEUED")
            = [sched EXCEPT !.state[g] = "QUEUED", !.curThread[c] = NoThread]
    BY <2>2, Zenon DEF deschedule
  <2>4. t = [[sched EXCEPT !.state[g] = "QUEUED", !.curThread[c] = NoThread]
                 EXCEPT !.handoffThread[g] = NoThread]
    BY <2>3
  <2>5. [[sched EXCEPT !.state[g] = "QUEUED", !.curThread[c] = NoThread]
             EXCEPT !.handoffThread[g] = NoThread] = lq
    BY <1>2 DEF SchedulerType
  <2> HIDE DEF t, lq
  <2> QED
    BY <2>4, <2>5
<1>14. lq = [l EXCEPT !.state[g] = "QUEUED"]
  <2>1. [[sched.state EXCEPT ![g] = "BLOCKED"] EXCEPT ![g] = "QUEUED"]
            = [sched.state EXCEPT ![g] = "QUEUED"]
    BY <1>5, SetTwice
  <2>2. [l EXCEPT !.state[g] = "QUEUED"]
            = [sched EXCEPT !.state = [[@ EXCEPT ![g] = "BLOCKED"] EXCEPT ![g] = "QUEUED"],
                            !.curThread[c] = NoThread, !.handoffThread[g] = NoThread]
    BY <1>2 DEF SchedulerType
  <2> HIDE DEF l
  <2> QED
    BY <2>1, <2>2
<1> HIDE DEF l, t, lq
<1>15. /\ l.state[i] = "QUEUED" /\ l.curThread[c] = NoThread /\ l.futexWord[i] = 1
       /\ l.state[g] = "BLOCKED" /\ l.handoffThread[g] = NoThread
       /\ \A h \in Gids \ {g} : /\ l.state[h] = sched.state[h]
                                /\ l.handoffThread[h] = sched.handoffThread[h]
       /\ \A d \in Cores \ {c} : l.curThread[d] = sched.curThread[d]
       /\ S!RemoveFirst(l.runQueue, i) = sched.runQueue
  BY <1>4, <1>5, <1>6, <1>7, <1>10, <1>11
<1>16. /\ n = Passed(l, i, c)
       /\ n \in SchedulerType /\ n.failed = l.failed
       /\ \A h \in Gids \ {i} : /\ n.state[h] = l.state[h] /\ n.cid[h] = l.cid[h]
                                /\ n.futexWord[h] = l.futexWord[h]
       /\ \A d \in Cores \ {c} : n.curThread[d] = l.curThread[d]
       /\ n.state[i] = "RUNNING" /\ n.cid[i] = c /\ n.curThread[c] = i
       /\ n.futexWord[i] = 0 /\ n.runQueue = sched.runQueue
       /\ n.handoffThread = l.handoffThread /\ n.markedForSleep = l.markedForSleep
       /\ n.untilWakeup = l.untilWakeup /\ n.mask = l.mask
       /\ n.fakeLeave = l.fakeLeave /\ n.freeList = l.freeList
       /\ n.outQueue = l.outQueue /\ n.sleepQueue = l.sleepQueue
       /\ n.fakeLeaves = l.fakeLeaves
  <2>1. S!RemoveFirst(l.runQueue, i) \in Seq(Gids)
    BY <1>5, <1>15
  <2> QED
    BY <1>4, <1>6, <1>12, <1>15, <2>1, PassesContext
<1>17. PassContext(t, i, c) = [n EXCEPT !.state[g] = "QUEUED"]
  <2>1. /\ lq \in SchedulerType /\ lq.state[i] = "QUEUED" /\ lq.curThread[c] = NoThread
        /\ lq.futexWord[i] = 1 /\ lq.runQueue = l.runQueue
    <3>1. /\ lq.state = [l.state EXCEPT ![g] = "QUEUED"] /\ lq.curThread = l.curThread
          /\ lq.futexWord = l.futexWord /\ lq.runQueue = l.runQueue
      BY <1>12, <1>14 DEF SchedulerType
    <3>2. lq.state \in [Gids -> ThreadState]
      BY <1>12, <3>1, Fields DEF ThreadState
    <3>3. lq = [l EXCEPT !.state = lq.state]
      BY <1>12, <1>14 DEF SchedulerType
    <3>4. lq \in SchedulerType
      BY <1>12, <3>2, <3>3 DEF SchedulerType
    <3> QED
      BY <1>6, <1>7, <1>15, <3>1, <3>2, <3>4
  <2>2. S!RemoveFirst(lq.runQueue, i) \in Seq(Gids)
    BY <1>5, <1>15, <2>1
  <2>3. PassContext(lq, i, c) = Passed(lq, i, c)
    BY <1>4, <1>6, <2>1, <2>2, PassesContext
  <2>4. [[l.state EXCEPT ![g] = "QUEUED"] EXCEPT ![i] = "RUNNING"]
            = [[l.state EXCEPT ![i] = "RUNNING"] EXCEPT ![g] = "QUEUED"]
    <3>1. l.state \in [Gids -> ThreadState]
      BY <1>12, Fields
    <3> QED
      BY <1>6, <1>7, <3>1, SetEither
  <2>5. Passed([l EXCEPT !.state[g] = "QUEUED"], i, c)
            = [l EXCEPT !.runQueue = S!RemoveFirst(@, i),
                        !.state = [[@ EXCEPT ![g] = "QUEUED"] EXCEPT ![i] = "RUNNING"],
                        !.cid[i] = c, !.curThread[c] = i, !.futexWord[i] = 0]
    BY <1>12, ZenonT(60) DEF Passed, SchedulerType
  <2>6. [Passed(l, i, c) EXCEPT !.state[g] = "QUEUED"]
            = [l EXCEPT !.runQueue = S!RemoveFirst(@, i),
                        !.state = [[@ EXCEPT ![i] = "RUNNING"] EXCEPT ![g] = "QUEUED"],
                        !.cid[i] = c, !.curThread[c] = i, !.futexWord[i] = 0]
    BY <1>12, ZenonT(60) DEF Passed, SchedulerType
  <2>7. Passed(lq, i, c) = [Passed(l, i, c) EXCEPT !.state[g] = "QUEUED"]
    BY <1>14, <2>4, <2>5, <2>6
  <2> HIDE DEF n
  <2> QED
    BY <1>13, <1>16, <2>3, <2>7
<1> HIDE DEF n
<1>18. OtherTwo(sched, n, g, i, c)
  BY <1>11, <1>15, <1>16 DEF OtherTwo
<1>19. /\ Elsewhere(pc, p, g) /\ Elsewhere(p, pc, g) /\ p[g] = "out"
  BY <1>2 DEF Elsewhere
<1> HIDE DEF p
<1>20. ~ Forced(wd, g) /\ ~ Forced(wd, i)
  BY <1>1, <1>6, <1>7, NotForced
<1>21. Watched(n, p, wd) /\ \A h \in Gids \ {g} : Forced(wd, h) => Forced(wd, h)
  <2>1. \A h \in Gids \ {g, i} : n.state[h] = sched.state[h] /\ n.cid[h] = sched.cid[h]
    BY <1>11, <1>15, <1>16
  <2>2. n.fakeLeave = sched.fakeLeave
    BY <1>11, <1>16
  <2> QED
    BY <1>1, <1>2, <1>19, <1>20, <2>1, <2>2 DEF Watched, Elsewhere, Forced
<1>22. InState(n, "SLEEPING") = InState(sched, "SLEEPING")
  BY <1>3, <1>6, <1>7, <1>15, <1>16 DEF InState
<1>23. Holds(n.sleepQueue, InState(n, "SLEEPING")) /\ SleepsOrdered(n)
  <2>1. \A h \in InState(n, "SLEEPING") : n.futexWord[h] = sched.futexWord[h]
    BY <1>11, <1>16 DEF InState
  <2>2. n.sleepQueue = sched.sleepQueue /\ n.untilWakeup = sched.untilWakeup
    BY <1>11, <1>16
  <2> QED
    BY <1>9, <1>22, <2>1, <2>2 DEF SleepsOrdered
<1>24. /\ n.state[g] \in {"BLOCKED", "SLEEPING"} /\ n.handoffThread[g] = NoThread
       /\ n.markedForSleep[i] = sched.markedForSleep[i]
       /\ ~ n.markedForSleep[g] /\ n.fakeLeave[g] = NoPc /\ n.state[g] = "BLOCKED"
  BY <1>3, <1>7, <1>11, <1>15, <1>16
<1>25. Fits(n, p, synced, wd, g)
  BY <1>19, <1>24 DEF Fits
<1>26. Holds(n.runQueue, Waiters(sched) \ {i})
  <2>1. Waiters(sched) \ {i} = Waiters(sched)
    BY <1>8
  <2> QED
    BY <1>9, <1>16, <2>1
<1>27. c = sched.cid[g] /\ sched.handoffThread[g] \in {i, NoThread} /\ bar.state[c] = "RUNNING"
  BY <1>1 DEF c, i
<1>28. Core(n, p, bar.state, synced, wd)
  BY <1>2, <1>3, <1>4, <1>6, <1>16, <1>18, <1>19, <1>21, <1>23, <1>24, <1>25, <1>26, <1>27,
     Passes, Zenon
<1>29. n.failed = sched.failed
  BY <1>11, <1>16
<1>30. JoinOrQueue([n EXCEPT !.state[g] = "QUEUED"], g)
  BY <1>1, <1>17
<1> QED
  BY <1>1, <1>16, <1>19, <1>24, <1>28, <1>29, <1>30, JoinsFrom, Zenon

\* An assertion fails, and it is the one that a thread returned too early.
Broken == TypeOK' /\ BP!BarrierInv' /\ [B!Next]_<<bar, synced>> /\ raced'

\* A failing assertion changes nothing else.
LEMMA CheckType ==
    ASSUME NEW s \in SchedulerType, NEW place \in Places, NEW holds
    PROVE  Check(s, place, holds) \in SchedulerType
<1>1. Check(s, place, holds) = s \/ Check(s, place, holds) = [s EXCEPT !.failed = place]
  BY Zenon DEF Check
<1>2. [s EXCEPT !.failed = place] \in SchedulerType
  BY DEF SchedulerType
<1> QED
  BY <1>1, <1>2

\* The thread that the watchdog acts for goes on by itself.
LEMMA Races ==
    ASSUME Ready, NEW g \in Gids, Forced(wd, g), NEW place \in PcValues, place # "matching",
           Goto(g, place), NEW s \in SchedulerType, NoBarrier(s, wd)
    PROVE  Broken
<1>1. raced'
  BY Zenon DEF Goto, Forced
<1>2. pc' \in [Gids -> PcValues] /\ raced' \in BOOLEAN
  BY GoesTo
<1>3. TypeOK'
  BY <1>2 DEF Ready, TypeOK, NoBarrier
<1>4. BP!BarrierInv'
  <2>1. UNCHANGED <<bar, synced>>
    BY DEF NoBarrier
  <2> QED
    BY <2>1 DEF Ready, BP!BarrierInv, BP!Sound, BP!BarrierType, BP!States
<1> QED
  BY <1>1, <1>3, <1>4 DEF Broken, NoBarrier

\* The data once a fake leave has ended.
Undone(s, g) == [s EXCEPT !.fakeLeave[g] = NoPc, !.fakeLeaves = S!RemoveFirst(@, g)]

\* finishFakeLeave meets a RUNNING thread.
LEMMA FakeLeaveEnds ==
    ASSUME NEW s \in SchedulerType, QueuesHold(s), NEW g \in Gids, s.fakeLeave[g] # NoPc,
           s.state[g] = "RUNNING"
    PROVE  LET n == finishFakeLeave(s, g)
           IN  /\ n \in SchedulerType /\ n.failed = s.failed /\ n.state = s.state
               /\ n.cid = s.cid /\ n.handoffThread = s.handoffThread
               /\ n.futexWord = s.futexWord /\ n.markedForSleep = s.markedForSleep
               /\ n.untilWakeup = s.untilWakeup /\ n.mask = s.mask
               /\ n.fakeLeave[g] = NoPc
               /\ \A h \in Gids \ {g} : n.fakeLeave[h] = s.fakeLeave[h]
               /\ n.curThread = s.curThread /\ n.freeList = s.freeList
               /\ n.runQueue = s.runQueue /\ n.outQueue = s.outQueue
               /\ n.sleepQueue = s.sleepQueue
               /\ n.fakeLeaves = S!RemoveFirst(s.fakeLeaves, g)
<1> DEFINE n == Undone(s, g)
           r == S!RemoveFirst(s.fakeLeaves, g)
           holds == s.state[g] = "RUNNING"
<1>1. finishFakeLeave(s, g) = n
  <2>1. holds
    OBVIOUS
  <2> HIDE DEF holds
  <2>2. Check(s, "finishFakeLeave", holds) = s
    BY <2>1, CheckHolds, Zenon
  <2> QED
    BY <2>2, Zenon DEF finishFakeLeave, Undone, holds
<1>2. s.fakeLeave \in [Gids -> SyscallPcs \cup {NoPc}] /\ s.fakeLeaves \in Seq(Gids)
  BY Fields
<1>3. r \in Seq(Gids)
  <2>1. Holds(s.fakeLeaves, FakeLeavers(s)) /\ g \in FakeLeavers(s)
    BY DEF QueuesHold, FakeLeavers
  <2> QED
    BY <1>2, <2>1, Removed
<1> HIDE DEF r
<1>4. /\ n.fakeLeave = [s.fakeLeave EXCEPT ![g] = NoPc]
      /\ n.fakeLeaves = r
      /\ n.failed = s.failed /\ n.state = s.state
      /\ n.cid = s.cid /\ n.handoffThread = s.handoffThread
      /\ n.futexWord = s.futexWord /\ n.markedForSleep = s.markedForSleep
      /\ n.untilWakeup = s.untilWakeup /\ n.mask = s.mask
      /\ n.curThread = s.curThread /\ n.freeList = s.freeList
      /\ n.runQueue = s.runQueue /\ n.outQueue = s.outQueue
      /\ n.sleepQueue = s.sleepQueue
  BY DEF Undone, SchedulerType, r
<1>5. n \in SchedulerType
  <2>1. n.fakeLeave \in [Gids -> SyscallPcs \cup {NoPc}]
    BY <1>2, <1>4
  <2>2. n = [s EXCEPT !.fakeLeave = n.fakeLeave, !.fakeLeaves = r]
    BY DEF Undone, SchedulerType, r
  <2> HIDE DEF n
  <2> QED
    BY <1>3, <2>1, <2>2, ZenonT(60) DEF SchedulerType
<1> HIDE DEF n
<1>6. n.fakeLeave[g] = NoPc /\ \A h \in Gids \ {g} : n.fakeLeave[h] = s.fakeLeave[h]
  BY <1>2, <1>4
<1> QED
  BY <1>1, <1>4, <1>5, <1>6 DEF r

\* A thread whose leave was in name only goes on.
LEMMA FakeLeaver ==
    ASSUME Ready, wd.at # "driving", NEW g \in Gids, sched.fakeLeave[g] # NoPc,
           NEW place \in {"run", "finLeave"}, Goto(g, place),
           NoBarrier(finishFakeLeave(sched, g), wd)
    PROVE  Kept
<1> DEFINE n == finishFakeLeave(sched, g)
<1>1. /\ sched \in SchedulerType /\ Fits(sched, pc, synced, wd, g) /\ QueuesHold(sched)
      /\ ~ Forced(wd, g)
  BY Placed, NotForced DEF Ready, Core
<1>2. /\ pc[g] \in {"out", "matching"} /\ sched.state[g] = "RUNNING"
      /\ ~ sched.markedForSleep[g] /\ sched.handoffThread[g] = NoThread
      /\ sched.cid[g] \in sched.mask[g] /\ bar.state[sched.cid[g]] = "RUNNING"
  BY <1>1, Placed DEF Fits
<1>3. /\ n \in SchedulerType /\ n.failed = sched.failed /\ n.state = sched.state
      /\ n.cid = sched.cid /\ n.handoffThread = sched.handoffThread
      /\ n.futexWord = sched.futexWord /\ n.markedForSleep = sched.markedForSleep
      /\ n.untilWakeup = sched.untilWakeup /\ n.mask = sched.mask
      /\ n.fakeLeave[g] = NoPc
      /\ \A h \in Gids \ {g} : n.fakeLeave[h] = sched.fakeLeave[h]
      /\ n.curThread = sched.curThread /\ n.freeList = sched.freeList
      /\ n.runQueue = sched.runQueue /\ n.outQueue = sched.outQueue
      /\ n.sleepQueue = sched.sleepQueue
      /\ n.fakeLeaves = S!RemoveFirst(sched.fakeLeaves, g)
  BY <1>1, <1>2, FakeLeaveEnds
<1>4. NoBarrier(n, wd)
  OBVIOUS
<1> HIDE DEF n
<1>5. Others(sched, n, g, sched.cid[g])
  BY <1>3 DEF Others
<1>6. pc'[g] = place /\ place \in PcValues
  BY GoesTo DEF PcValues
<1>7. Fits(n, pc', synced, wd, g) /\ NoHandOff(sched, g)
  BY <1>2, <1>3, <1>6 DEF Fits, NoHandOff
<1> QED
  BY <1>1, <1>2, <1>3, <1>4, <1>5, <1>6, <1>7, OwnData

\* A thread that is OUT joins again.
LEMMA RejoinsBarrier ==
    ASSUME Ready, wd.at # "driving", NEW g \in Gids, sched.state[g] = "OUT",
           Goto(g, "joining"), BarrierJoin(Rejoined(sched, g), sched.cid[g])
    PROVE  Kept
<1> DEFINE c == sched.cid[g]
           n == Rejoined(sched, g)
           bs == [bar.state EXCEPT ![c] = "WAITING"]
<1>1. /\ sched \in SchedulerType /\ wd \in WatchdogType /\ c \in Cores /\ sched.curThread[c] = g
      /\ Core(sched, pc, bar.state, synced, wd) /\ BP!BarrierInv
  BY Placed DEF Ready
<1>2. /\ pc' \in [Gids -> PcValues] /\ pc'[g] = "joining" /\ Elsewhere(pc, pc', g)
      /\ raced' \in BOOLEAN
  BY GoesTo DEF PcValues
<1>3. /\ \A d \in Cores : bs[d] = IF d = c THEN "WAITING" ELSE bar.state[d]
      /\ \A d \in Cores : bs[d] = IF d = sched.cid[g] THEN "WAITING" ELSE bar.state[d]
  BY <1>1, BarrierStates
<1>4. bar.state[c] \in {"OFFLINE", "LEFT"}
  <2>1. ~ Runner(sched, c)
    BY <1>1 DEF Runner
  <2>2. bar.state[c] \notin {"RUNNING", "WAITING"}
    BY <1>1, <2>1 DEF Core, Agrees
  <2> QED
    BY <1>1, <2>2, BarrierStates
<1> HIDE DEF bs
<1>5. n \in SchedulerType /\ n.failed = sched.failed /\ Core(n, pc', bs, synced \ {c}, wd)
  BY <1>1, <1>2, <1>3, Rejoins, SMTT(30)
<1>6. Sound(n, pc')
  BY <1>1, <1>3, <1>4, <1>5, AfterJoin
<1> QED
  BY <1>2, <1>5, <1>6, FromSound

\* A thread joins, or one that the watchdog acts for fails to.
LEMMA Joins ==
    ASSUME Ready, NEW g \in Gids, join(g)
    PROVE  Kept \/ Broken
<1> DEFINE e == EndSleep(sched, g)
<1>1. wd.at # "driving" /\ pc[g] \in {"out", "matching"}
  BY Zenon DEF join, At
<1>2. \/ sched.fakeLeave[g] # NoPc /\ NoBarrier(finishFakeLeave(sched, g), wd) /\ Goto(g, "run")
      \/ /\ sched.fakeLeave[g] = NoPc
         /\ sched.markedForSleep[g] \/ e.state[g] \notin {"OUT", "BLOCKED", "STARTED"}
         /\ NoBarrier(Check(sched, "join", FALSE), wd) /\ Goto(g, "out")
      \/ /\ e.state[g] = "OUT"
         /\ BarrierJoin(Rejoined(e, g), e.cid[g]) /\ Goto(g, "joining")
      \/ e.state[g] \in {"BLOCKED", "STARTED"} /\ JoinOrQueue(e, g)
  <2>1. \/ sched.fakeLeave[g] # NoPc /\ NoBarrier(finishFakeLeave(sched, g), wd)
           /\ Goto(g, "run")
        \/ /\ sched.fakeLeave[g] = NoPc
           /\ sched.markedForSleep[g] \/ e.state[g] \notin {"OUT", "BLOCKED", "STARTED"}
           /\ NoBarrier(Check(sched, "join", FALSE), wd) /\ Goto(g, "out")
        \/ /\ e.state[g] = "OUT"
           /\ BarrierJoin(Rejoined(e, g), e.cid[g]) /\ Goto(g, "joining")
        \/ /\ ~ (sched.markedForSleep[g] \/ e.state[g] \notin {"OUT", "BLOCKED", "STARTED"})
           /\ e.state[g] # "OUT" /\ JoinOrQueue(e, g)
    BY Zenon DEF join, Rejoined
  <2> HIDE DEF e
  <2> QED
    BY <2>1
<1>3. /\ sched \in SchedulerType /\ wd \in WatchdogType /\ Fits(sched, pc, synced, wd, g)
      /\ Core(sched, pc, bar.state, synced, wd)
  BY Placed DEF Ready
<1>4. /\ e \in SchedulerType /\ e.failed = sched.failed
      /\ Core(e, pc, bar.state, synced, wd)
      /\ sched.state[g] # "SLEEPING" => e = sched
      /\ sched.state[g] = "SLEEPING" => e.state[g] = "BLOCKED"
  BY <1>3, EndsSleep
<1> HIDE DEF e
<1>5. CASE sched.fakeLeave[g] # NoPc /\ NoBarrier(finishFakeLeave(sched, g), wd) /\ Goto(g, "run")
  BY <1>1, <1>5, FakeLeaver
<1>6. CASE /\ sched.fakeLeave[g] = NoPc
           /\ sched.markedForSleep[g] \/ e.state[g] \notin {"OUT", "BLOCKED", "STARTED"}
           /\ NoBarrier(Check(sched, "join", FALSE), wd) /\ Goto(g, "out")
  <2>1. ~ sched.markedForSleep[g] /\ sched.state[g] # "QUEUED"
    BY <1>1, <1>3 DEF Fits
  <2>2. sched.state \in [Gids -> ThreadState]
    BY <1>3, Fields
  <2>3. sched.state[g] = "RUNNING"
    BY <1>4, <1>6, <2>1, <2>2 DEF ThreadState
  <2>4. Forced(wd, g)
    BY <1>1, <1>3, <1>6, <2>3 DEF Fits
  <2>5. Check(sched, "join", FALSE) \in SchedulerType
    <3>1. "join" \in Places
      BY Zenon DEF Places
    <3> QED
      BY <1>3, <3>1, CheckType, Zenon
  <2>6. "out" \in PcValues /\ "out" # "matching"
    BY DEF PcValues
  <2> QED
    BY <1>6, <2>4, <2>5, <2>6, Races, Zenon
<1>7. CASE /\ e.state[g] = "OUT"
           /\ BarrierJoin(Rejoined(e, g), e.cid[g]) /\ Goto(g, "joining")
  <2>1. e = sched
    BY <1>4, <1>7
  <2> QED
    BY <1>1, <1>7, <2>1, RejoinsBarrier
<1>8. CASE e.state[g] \in {"BLOCKED", "STARTED"} /\ JoinOrQueue(e, g)
  <2> DEFINE x == e.state[g]
  <2>1. [e EXCEPT !.state[g] = x] = e
    <3>1. [e.state EXCEPT ![g] = x] = e.state
      BY <1>4, Fields
    <3> QED
      BY <1>4, <3>1 DEF SchedulerType
  <2>2. x \in {"STARTED", "BLOCKED", "QUEUED"} /\ e.state[g] \in {"STARTED", "BLOCKED"}
    BY <1>8
  <2>3. Elsewhere(pc, pc, g)
    BY DEF Elsewhere
  <2>4. JoinOrQueue([e EXCEPT !.state[g] = x], g)
    BY <1>8, <2>1
  <2> HIDE DEF x
  <2> QED
    BY <1>1, <1>4, <2>2, <2>3, <2>4, JoinsFrom, Zenon
<1> QED
  BY <1>2, <1>5, <1>6, <1>7, <1>8

\* A thread that is nowhere is deleted, and its record is as new.
LEMMA Renewed ==
    ASSUME NEW s \in SchedulerType, NEW p, NEW p1, NEW bs, NEW sy, NEW w, NEW g \in Gids,
           Core(s, p, bs, sy, w), w.at # "driving", ~ Forced(w, g),
           Elsewhere(p, p1, g), p1[g] = "off",
           NoHandOff(s, g), s.state[g] \in {"STARTED", "BLOCKED"}, s.fakeLeave[g] = NoPc
    PROVE  /\ Fresh(s, g) \in SchedulerType /\ Fresh(s, g).failed = s.failed
           /\ Core(Fresh(s, g), p1, bs, sy, w)
<1> DEFINE n == Fresh(s, g)
<1>1. /\ n \in SchedulerType
      /\ \A c : Others(s, n, g, c)
      /\ n.state[g] = "STARTED" /\ n.handoffThread[g] = NoThread
      /\ ~ n.markedForSleep[g] /\ n.fakeLeave[g] = NoPc
      /\ n.curThread = s.curThread /\ n.freeList = s.freeList
      /\ n.runQueue = s.runQueue /\ n.outQueue = s.outQueue
      /\ n.sleepQueue = s.sleepQueue /\ n.fakeLeaves = s.fakeLeaves
      /\ n.failed = s.failed
  BY FreshIs
<1> HIDE DEF n
<1>2. Others(s, n, g, s.cid[g])
  BY <1>1
<1>3. Watched(n, p1, w) /\ \A h \in Gids \ {g} : Forced(w, h) => Forced(w, h)
  <2>1. Watched(s, p, w)
    BY DEF Core
  <2> QED
    BY <1>2, <2>1, Minded DEF Minds
<1>4. InState(n, "SLEEPING") = InState(s, "SLEEPING")
  BY <1>1, <1>2 DEF InState, Others
<1>5. Holds(n.sleepQueue, InState(n, "SLEEPING")) /\ SleepsOrdered(n)
  <2>1. Holds(s.sleepQueue, InState(s, "SLEEPING")) /\ SleepsOrdered(s)
    BY DEF Core, QueuesHold
  <2>2. \A h \in InState(s, "SLEEPING") : /\ n.untilWakeup[h] = s.untilWakeup[h]
                                          /\ n.futexWord[h] = s.futexWord[h]
    BY <1>2 DEF InState, Others
  <2>3. \A i \in 1 .. Len(s.sleepQueue) : s.sleepQueue[i] \in InState(s, "SLEEPING")
    BY <2>1 DEF Holds
  <2> QED
    BY <1>1, <1>4, <2>1, <2>2, <2>3 DEF SleepsOrdered
<1>6. Fits(n, p1, sy, w, g)
  BY <1>1 DEF Fits
<1>7. s.state[g] \notin {"RUNNING", "OUT"} /\ n.state[g] \notin {"RUNNING", "OUT", "QUEUED"}
  BY <1>1
<1>8. Core(n, p1, bs, sy, w)
  BY <1>1, <1>2, <1>3, <1>5, <1>6, <1>7, NoSeat
<1> QED
  BY <1>1, <1>8 DEF n

\* The last part of finish.
LEMMA Deletes ==
    ASSUME Ready, wd.at # "driving", NEW g \in Gids, pc[g] # "syncing", ~ Forced(wd, g),
           sched.state[g] \in {"STARTED", "OUT", "BLOCKED"}, sched.fakeLeave[g] = NoPc,
           Goto(g, "off"), NoBarrier(Delete(sched, g), wd)
    PROVE  Kept
<1>1. /\ sched \in SchedulerType /\ wd \in WatchdogType /\ NoHandOff(sched, g)
      /\ Core(sched, pc, bar.state, synced, wd) /\ BP!BarrierInv
  BY Placed DEF Ready, NoHandOff
<1>2. /\ pc' \in [Gids -> PcValues] /\ pc'[g] = "off" /\ Elsewhere(pc, pc', g)
      /\ raced' \in BOOLEAN
  BY GoesTo DEF PcValues
<1>3. CASE sched.state[g] = "OUT"
  <2> DEFINE c == sched.cid[g]
             v == Dispossessed(sched, g)
             u == [sched EXCEPT !.outQueue = S!RemoveFirst(@, g)]
             f == [u EXCEPT !.state[g] = "BLOCKED", !.curThread[c] = NoThread]
  <2>1. v \in SchedulerType /\ v.failed = sched.failed /\ Core(v, pc, bar.state, synced, wd)
    BY <1>1, <1>3, Stolen
  <2>2. c \in Cores /\ sched.curThread[c] = g
    BY <1>3, Placed
  <2>3. u.state = sched.state /\ u.curThread = sched.curThread /\ u.cid = sched.cid
    BY <1>1 DEF SchedulerType
  <2>4. deschedule(u, g, c, "BLOCKED") = f
    <3>1. u.state[g] \in {"RUNNING", "OUT"} /\ u.cid[g] = c /\ u.curThread[c] = g
      BY <1>3, <2>2, <2>3
    <3> HIDE DEF u
    <3>2. Check(u, "deschedule", u.state[g] \in {"RUNNING", "OUT"}
                                 /\ u.cid[g] = c /\ u.curThread[c] = g) = u
      BY <3>1, CheckHolds, Zenon
    <3> QED
      BY <3>2, Zenon DEF deschedule
  <2>5. [f EXCEPT !.freeList = Append(@, c)] = v
    BY <1>1 DEF SchedulerType, Dispossessed
  <2>6. Delete(sched, g) = Fresh([deschedule(u, g, c, "BLOCKED")
                                     EXCEPT !.freeList = Append(@, c)], g)
    <3> HIDE DEF f
    <3> QED
      BY <1>3 DEF Delete
  <2>7. Delete(sched, g) = Fresh(v, g)
    <3> HIDE DEF u, f, v
    <3> QED
      BY <2>4, <2>5, <2>6, Zenon
  <2>8. /\ v.state[g] = "BLOCKED" /\ v.handoffThread[g] = NoThread /\ v.fakeLeave[g] = NoPc
    <3>1. /\ v.state = [sched.state EXCEPT ![g] = "BLOCKED"]
          /\ v.handoffThread = sched.handoffThread /\ v.fakeLeave = sched.fakeLeave
      BY <1>1 DEF SchedulerType, Dispossessed
    <3>2. sched.state \in [Gids -> ThreadState]
      BY <1>1, Fields
    <3> QED
      BY <1>1, <3>1, <3>2 DEF NoHandOff
  <2> HIDE DEF v
  <2>9. /\ Fresh(v, g) \in SchedulerType /\ Fresh(v, g).failed = v.failed
        /\ Core(Fresh(v, g), pc', bar.state, synced, wd)
    BY <1>2, <2>1, <2>8, Renewed DEF NoHandOff
  <2>10. Sound(Fresh(v, g), pc')
    BY <1>1, <2>7, <2>9, AfterNothing
  <2>11. Fresh(v, g).failed = sched.failed
    BY <2>1, <2>9
  <2> QED
    BY <1>2, <2>10, <2>11, FromSound
<1>4. CASE sched.state[g] \in {"STARTED", "BLOCKED"}
  <2>1. Delete(sched, g) = Fresh(Check(sched, "finish", sched.state[g] \in {"STARTED", "BLOCKED"}), g)
    BY <1>4 DEF Delete
  <2>2. Check(sched, "finish", sched.state[g] \in {"STARTED", "BLOCKED"}) = sched
    BY <1>4, CheckHolds, Zenon
  <2>3. Delete(sched, g) = Fresh(sched, g)
    BY <2>1, <2>2, Zenon
  <2>4. /\ Fresh(sched, g) \in SchedulerType /\ Fresh(sched, g).failed = sched.failed
        /\ Core(Fresh(sched, g), pc', bar.state, synced, wd)
    BY <1>1, <1>2, <1>4, Renewed
  <2>5. Sound(Fresh(sched, g), pc')
    BY <1>1, <2>3, <2>4, AfterNothing
  <2> QED
    BY <1>2, <2>4, <2>5, FromSound
<1> QED
  BY <1>3, <1>4

\* A thread exits, or one that the watchdog acts for does.
LEMMA Finishes ==
    ASSUME Ready, NEW g \in Gids, finish(g)
    PROVE  Kept \/ Broken
<1>1. /\ wd.at # "driving" /\ pc[g] \in {"out", "reaped"} /\ sched.state[g] # "SLEEPING"
  BY Zenon DEF finish, At
<1>2. \/ sched.fakeLeave[g] # NoPc /\ NoBarrier(finishFakeLeave(sched, g), wd)
         /\ Goto(g, "finLeave")
      \/ /\ sched.fakeLeave[g] = NoPc /\ sched.state[g] = "RUNNING"
         /\ NoBarrier(sched, wd) /\ Goto(g, "finLeave")
      \/ /\ sched.fakeLeave[g] = NoPc /\ sched.state[g] # "RUNNING"
         /\ NoBarrier(Delete(sched, g), wd) /\ Goto(g, "off")
  BY Zenon DEF finish
<1>3. /\ sched \in SchedulerType /\ Fits(sched, pc, synced, wd, g)
  BY Placed
<1>4. CASE sched.fakeLeave[g] # NoPc /\ NoBarrier(finishFakeLeave(sched, g), wd)
           /\ Goto(g, "finLeave")
  BY <1>1, <1>4, FakeLeaver
<1>5. CASE /\ sched.fakeLeave[g] = NoPc /\ sched.state[g] = "RUNNING"
           /\ NoBarrier(sched, wd) /\ Goto(g, "finLeave")
  <2>1. Forced(wd, g)
    BY <1>1, <1>3, <1>5 DEF Fits
  <2>2. "finLeave" \in PcValues /\ "finLeave" # "matching"
    BY DEF PcValues
  <2> QED
    BY <1>3, <1>5, <2>1, <2>2, Races, Zenon
<1>6. CASE /\ sched.fakeLeave[g] = NoPc /\ sched.state[g] # "RUNNING"
           /\ NoBarrier(Delete(sched, g), wd) /\ Goto(g, "off")
  <2>1. sched.state \in [Gids -> ThreadState]
    BY <1>3, Fields
  <2>2. sched.state[g] \in {"STARTED", "OUT", "BLOCKED"} /\ pc[g] # "syncing"
    BY <1>1, <1>3, <1>6, <2>1 DEF Fits, ThreadState
  <2>3. ~ Forced(wd, g)
    BY <1>6, NotForced
  <2> QED
    BY <1>1, <1>6, <2>2, <2>3, Deletes
<1> QED
  BY <1>2, <1>4, <1>5, <1>6

\* A thread is deleted after its last leave.
LEMMA FinishEnds ==
    ASSUME Ready, NEW g \in Gids, finishEnd(g)
    PROVE  Kept
<1>1. /\ wd.at # "driving" /\ pc[g] = "finEnd" /\ Goto(g, "off")
      /\ NoBarrier(Delete(sched, g), wd)
  BY Zenon DEF finishEnd, At
<1>2. Fits(sched, pc, synced, wd, g)
  BY Placed
<1>3. /\ sched.state[g] \in {"STARTED", "OUT", "BLOCKED"} /\ sched.fakeLeave[g] = NoPc
      /\ ~ Forced(wd, g)
  BY <1>1, <1>2, NotForced DEF Fits
<1> QED
  BY <1>1, <1>3, Deletes

-----------------------------------------------------------------------------
(* Steps of the watchdog *)

\* Only the watchdog's own record changes.
LEMMA WatchdogTurns ==
    ASSUME Ready, wd.at # "leave", NEW w1 \in WatchdogType, wd' = w1,
           UNCHANGED <<bar, synced, sched, pc, raced>>,
           \/ w1.at \in {"idle", "recheck"}
           \/ /\ w1.at = "driving" /\ w1.th \in Gids
              /\ \A g \in Gids : sched.state[g] # "RUNNING"
    PROVE  Kept
<1>1. /\ sched \in SchedulerType /\ Core(sched, pc, bar.state, synced, wd) /\ BP!BarrierInv
      /\ pc \in [Gids -> PcValues] /\ raced \in BOOLEAN
  BY DEF Ready, TypeOK
<1>2. \A h \in Gids : Forced(wd, h) => Forced(w1, h)
  BY DEF Forced
<1>3. Watched(sched, pc, w1)
  BY DEF Watched
<1>4. Core(sched, pc, bar.state, synced, w1)
  BY <1>1, <1>2, <1>3, WatchdogOnly
<1>5. NoBarrier(sched, w1)
  BY DEF NoBarrier
<1>6. Sound(sched, pc')
  BY <1>1, <1>4, <1>5, AfterNothing
<1>7. pc' \in [Gids -> PcValues] /\ raced' \in BOOLEAN
  BY <1>1
<1> QED
  BY <1>6, <1>7, FromSound

\* The round goes on or is over.
LEMMA RoundRests ==
    ASSUME NEW w \in WatchdogType
    PROVE  RestOfRound(w) \in WatchdogType /\ RestOfRound(w).at \in {"idle", "recheck"}
<1>1. \/ RestOfRound(w) = [w EXCEPT !.at = "recheck"]
      \/ RestOfRound(w) = [w EXCEPT !.at = "idle", !.moved = FALSE]
  BY Zenon DEF RestOfRound
<1>2. /\ [w EXCEPT !.at = "recheck"] \in WatchdogType
      /\ [w EXCEPT !.at = "recheck"].at = "recheck"
  BY DEF WatchdogType
<1>3. /\ [w EXCEPT !.at = "idle", !.moved = FALSE] \in WatchdogType
      /\ [w EXCEPT !.at = "idle", !.moved = FALSE].at = "idle"
  BY DEF WatchdogType
<1> QED
  BY <1>1, <1>2, <1>3

\* The phase moved.
LEMMA WatchdogFastpath ==
    ASSUME Ready, watchdogFastpath
    PROVE  Kept
<1> DEFINE w1 == [wd EXCEPT !.moved = FALSE, !.stalls = 0]
<1>1. wd.at = "idle" /\ wd' = w1 /\ UNCHANGED <<bar, synced, sched, pc, raced>>
  BY Zenon DEF watchdogFastpath, WatchdogAt
<1>2. wd \in WatchdogType
  BY DEF Ready, TypeOK
<1>3. w1 \in WatchdogType /\ w1.at = "idle"
  <2>1. wd.at = "idle" /\ 0 \in 0 .. StallThreshold
    BY <1>1, Bounds
  <2> QED
    BY <1>2, <2>1 DEF WatchdogType
<1> HIDE DEF w1
<1> QED
  BY <1>1, <1>3, WatchdogTurns

\* No stall, or a young one.
LEMMA WatchdogRound ==
    ASSUME Ready, watchdogRound
    PROVE  Kept
<1> DEFINE w == [wd EXCEPT !.stalls = IF FakeLeaveStall THEN @ + 1 ELSE 0]
<1>1. /\ wd.at = "idle" /\ wd' = RestOfRound(w) /\ UNCHANGED <<bar, synced, sched, pc, raced>>
      /\ FakeLeaveStall => wd.stalls + 1 < StallThreshold
  BY Zenon DEF watchdogRound, WatchdogAt
<1>2. wd \in WatchdogType
  BY DEF Ready, TypeOK
<1>3. w \in WatchdogType
  <2> DEFINE x == IF FakeLeaveStall THEN wd.stalls + 1 ELSE 0
  <2>1. wd.stalls \in 0 .. StallThreshold
    BY <1>2 DEF WatchdogType
  <2>2. x \in 0 .. StallThreshold
    BY <1>1, <2>1, Bounds
  <2>3. w = [wd EXCEPT !.stalls = x]
    BY Zenon
  <2> HIDE DEF w, x
  <2> QED
    BY <1>2, <2>2, <2>3 DEF WatchdogType
<1> HIDE DEF w
<1>4. RestOfRound(w) \in WatchdogType /\ RestOfRound(w).at \in {"idle", "recheck"}
  BY <1>3, RoundRests
<1>5. wd.at # "leave"
  BY <1>1
<1> QED
  BY <1>1, <1>4, <1>5, WatchdogTurns

\* An old stall in a call that is not listed.
LEMMA WatchdogSkip ==
    ASSUME Ready, watchdogSkip
    PROVE  Kept
<1> DEFINE w == [wd EXCEPT !.stalls = 0]
<1>1. /\ wd.at = "idle" /\ wd' = RestOfRound(w) /\ UNCHANGED <<bar, synced, sched, pc, raced>>
  BY Zenon DEF watchdogSkip, WatchdogAt
<1>2. wd \in WatchdogType
  BY DEF Ready, TypeOK
<1>3. w \in WatchdogType
  BY <1>2, Bounds DEF WatchdogType
<1> HIDE DEF w
<1>4. RestOfRound(w) \in WatchdogType /\ RestOfRound(w).at \in {"idle", "recheck"}
  BY <1>3, RoundRests
<1>5. wd.at # "leave"
  BY <1>1
<1> QED
  BY <1>1, <1>4, <1>5, WatchdogTurns

\* The record of a watchdog that acts for no thread.
LEMMA EmptyRecord ==
    ASSUME wd \in WatchdogType
    PROVE  [wd EXCEPT !.stalls = 0, !.th = NoThread, !.cid = 0,
                      !.pid = NoThread, !.pc = NoPc] \in WatchdogType
<1> DEFINE w == [wd EXCEPT !.stalls = 0, !.th = NoThread, !.cid = 0,
                           !.pid = NoThread, !.pc = NoPc]
<1>1. 0 \in Cores /\ 0 \in 0 .. StallThreshold
  BY Bounds DEF Cores
<1>2. [wd EXCEPT !.stalls = 0, !.th = NoThread, !.cid = 0] \in WatchdogType
  BY <1>1 DEF WatchdogType
<1>3. w = [[wd EXCEPT !.stalls = 0, !.th = NoThread, !.cid = 0]
               EXCEPT !.pid = NoThread, !.pc = NoPc]
  BY DEF WatchdogType
<1>4. w \in WatchdogType
  <2> HIDE DEF w
  <2> QED
    BY <1>2, <1>3 DEF WatchdogType
<1> QED
  BY <1>4

\* The stalled fake leaves have been dealt with.
LEMMA WatchdogStalled ==
    ASSUME Ready, watchdogStalled
    PROVE  Kept
<1> DEFINE w == [wd EXCEPT !.stalls = 0, !.th = NoThread, !.cid = 0,
                           !.pid = NoThread, !.pc = NoPc]
<1>1. /\ wd.at = "relock" /\ wd' = RestOfRound(w)
      /\ UNCHANGED <<bar, synced, sched, pc, raced>>
  BY Zenon DEF watchdogStalled, WatchdogAt
<1>2. wd \in WatchdogType
  BY DEF Ready, TypeOK
<1>3. w \in WatchdogType
  BY <1>2, EmptyRecord
<1> HIDE DEF w
<1>4. RestOfRound(w) \in WatchdogType /\ RestOfRound(w).at \in {"idle", "recheck"}
  BY <1>3, RoundRests
<1>5. wd.at # "leave"
  BY <1>1
<1> QED
  BY <1>1, <1>4, <1>5, WatchdogTurns

\* When as many contexts are taken as threads are OUT, nobody is RUNNING.
LEMMA NobodyRuns ==
    ASSUME NEW s \in SchedulerType, Owned(s), QueuesHold(s),
           Cardinality({c \in Cores : s.curThread[c] # NoThread}) = Len(s.outQueue)
    PROVE  \A g \in Gids : s.state[g] # "RUNNING"
<1> DEFINE C == {c \in Cores : s.curThread[c] # NoThread}
           O == InState(s, "OUT")
           f == [o \in O |-> s.cid[o]]
<1>1. /\ s.outQueue \in Seq(Gids) /\ s.cid \in [Gids -> Cores]
      /\ O \subseteq Gids /\ NoThread \notin Gids
  BY Fields, GidsAssumption DEF InState
<1>2. IsFiniteSet(O) /\ Cardinality(O) = Len(s.outQueue)
  <2>1. Holds(s.outQueue, O)
    BY DEF QueuesHold
  <2>2. /\ \A p, q \in 1 .. Len(s.outQueue) : s.outQueue[p] = s.outQueue[q] => p = q
        /\ {s.outQueue[p] : p \in 1 .. Len(s.outQueue)} = O
    BY <2>1 DEF Holds
  <2> HIDE DEF O
  <2> QED
    BY <1>1, <2>2, DistinctLength
<1>3. IsFiniteSet(C)
  <2>1. IsFiniteSet(Cores)
    <3>1. 0 \in Int /\ numCores - 1 \in Int
      BY Bounds
    <3> QED
      BY <3>1, FS_Interval DEF Cores
  <2> QED
    BY <2>1, FS_Subset
<1>4. \A o \in O : s.cid[o] \in C /\ s.curThread[s.cid[o]] = o
  BY <1>1 DEF Owned, InState
<1>5. f \in Injection(O, C)
  <2>1. f \in [O -> C]
    BY <1>4
  <2>2. \A a, b \in O : f[a] = f[b] => a = b
    BY <1>4
  <2> HIDE DEF f, O, C
  <2>3. DOMAIN f = O
    BY <2>1
  <2> QED
    BY <2>1, <2>2, <2>3, Zenon DEF Injection, IsInjective
<1>6. f \in Surjection(O, C)
  BY <1>2, <1>3, <1>5, FS_Injection
<1>7. ASSUME NEW g \in Gids, s.state[g] = "RUNNING" PROVE FALSE
  <2>1. s.cid[g] \in C /\ s.curThread[s.cid[g]] = g
    BY <1>1, <1>7 DEF Owned
  <2>2. PICK o \in O : f[o] = s.cid[g]
    BY <1>6, <2>1 DEF Surjection
  <2>3. o = g
    BY <1>4, <2>1, <2>2
  <2> QED
    BY <1>7, <2>3 DEF InState
<1> QED
  BY <1>7

\* The watchdog drives time forward only when nobody runs.
LEMMA WatchdogDrive ==
    ASSUME Ready, watchdogDrive
    PROVE  Kept
<1> DEFINE drive == [wd EXCEPT !.at = "driving", !.th = Head(sched.sleepQueue)]
           rest == [wd EXCEPT !.at = "idle", !.moved = FALSE]
<1>1. /\ wd.at = "recheck" /\ UNCHANGED <<bar, synced, sched, pc, raced>>
      /\ (AllAsleep /\ wd' = drive) \/ wd' = rest
  BY Zenon DEF watchdogDrive, WatchdogAt
<1>2. /\ wd \in WatchdogType /\ sched \in SchedulerType /\ Owned(sched) /\ QueuesHold(sched)
  BY DEF Ready, TypeOK, Core
<1>3. CASE wd' = rest
  <2>1. rest \in WatchdogType /\ rest.at = "idle"
    BY <1>2 DEF WatchdogType
  <2> HIDE DEF rest
  <2> QED
    BY <1>1, <1>3, <2>1, WatchdogTurns
<1>4. CASE AllAsleep /\ wd' = drive
  <2>1. Head(sched.sleepQueue) \in Gids
    <3>1. sched.sleepQueue \in Seq(Gids) /\ sched.sleepQueue # << >>
      BY <1>2, <1>4, Fields DEF AllAsleep
    <3> QED
      BY <3>1
  <2>2. drive \in WatchdogType /\ drive.at = "driving" /\ drive.th \in Gids
    BY <1>2, <2>1 DEF WatchdogType
  <2>3. \A g \in Gids : sched.state[g] # "RUNNING"
    BY <1>2, <1>4, NobodyRuns DEF AllAsleep
  <2> HIDE DEF drive
  <2> QED
    BY <1>1, <1>4, <2>2, <2>3, WatchdogTurns
<1> QED
  BY <1>1, <1>3, <1>4

\* The first fake leave becomes a true one; the leave itself is to come.
LEMMA ForcesOut ==
    ASSUME Ready, wd.at \in {"idle", "relock"}, sched.fakeLeaves # << >>,
           NEW b \in SUBSET ({Pid[g] : g \in Gids} \X SyscallPcs), NEW g \in Gids,
           g = Head(sched.fakeLeaves),
           ForceOut([sched EXCEPT !.blockingSyscalls = b], g)
    PROVE  Kept
<1> DEFINE s == [sched EXCEPT !.blockingSyscalls = b]
           n == finishFakeLeave(s, g)
           w1 == [wd EXCEPT !.at = "leave", !.th = g, !.cid = s.cid[g],
                            !.pid = IF @ = NoThread THEN Pid[g] ELSE @,
                            !.pc = s.fakeLeave[g]]
<1>1. sched' = n /\ wd' = w1 /\ UNCHANGED <<bar, synced, pc, raced>>
  BY Zenon DEF ForceOut
<1>2. /\ sched \in SchedulerType /\ wd \in WatchdogType /\ pc \in [Gids -> PcValues]
      /\ raced \in BOOLEAN /\ Core(sched, pc, bar.state, synced, wd) /\ BP!BarrierInv
  BY DEF Ready, TypeOK
<1>3. /\ s \in SchedulerType
      /\ s.state = sched.state /\ s.cid = sched.cid /\ s.handoffThread = sched.handoffThread
      /\ s.futexWord = sched.futexWord /\ s.markedForSleep = sched.markedForSleep
      /\ s.untilWakeup = sched.untilWakeup /\ s.mask = sched.mask
      /\ s.fakeLeave = sched.fakeLeave /\ s.curThread = sched.curThread
      /\ s.freeList = sched.freeList /\ s.runQueue = sched.runQueue
      /\ s.outQueue = sched.outQueue /\ s.sleepQueue = sched.sleepQueue
      /\ s.fakeLeaves = sched.fakeLeaves /\ s.failed = sched.failed
  BY <1>2 DEF SchedulerType
<1> HIDE DEF s
<1>4. QueuesHold(s)
  <2>1. QueuesHold(sched)
    BY <1>2 DEF Core
  <2> QED
    BY <1>3, <2>1 DEF QueuesHold, FreeCores, Waiters, Promised, InState, FakeLeavers
<1>5. sched.fakeLeave[g] # NoPc
  <2>1. Holds(sched.fakeLeaves, FakeLeavers(sched)) /\ sched.fakeLeaves \in Seq(Gids)
    BY <1>2, Fields DEF Core, QueuesHold
  <2>2. g = sched.fakeLeaves[1] /\ 1 \in 1 .. Len(sched.fakeLeaves)
    BY <2>1
  <2> QED
    BY <2>1, <2>2 DEF Holds, FakeLeavers
<1>6. /\ pc[g] \in {"out", "matching"} /\ sched.state[g] = "RUNNING"
      /\ ~ sched.markedForSleep[g] /\ sched.handoffThread[g] = NoThread
      /\ sched.cid[g] \in sched.mask[g] /\ bar.state[sched.cid[g]] = "RUNNING"
      /\ sched.fakeLeave[g] \in SyscallPcs /\ sched.cid[g] \in Cores
  <2>1. pc[g] \in {"out", "matching"} /\ sched.state[g] = "RUNNING"
    BY <1>2, <1>5 DEF Core, Fits
  <2>2. sched.fakeLeave[g] \in SyscallPcs /\ sched.cid[g] \in Cores
    BY <1>2, <1>5, Fields
  <2>3. ~ sched.markedForSleep[g]
    BY <1>2, <2>1 DEF Core, Fits
  <2> QED
    BY <2>1, <2>2, <2>3, Placed
<1>7. /\ n \in SchedulerType /\ n.failed = s.failed /\ n.state = s.state
      /\ n.cid = s.cid /\ n.handoffThread = s.handoffThread
      /\ n.futexWord = s.futexWord /\ n.markedForSleep = s.markedForSleep
      /\ n.untilWakeup = s.untilWakeup /\ n.mask = s.mask
      /\ n.fakeLeave[g] = NoPc
      /\ \A h \in Gids \ {g} : n.fakeLeave[h] = s.fakeLeave[h]
      /\ n.curThread = s.curThread /\ n.freeList = s.freeList
      /\ n.runQueue = s.runQueue /\ n.outQueue = s.outQueue
      /\ n.sleepQueue = s.sleepQueue
      /\ n.fakeLeaves = S!RemoveFirst(s.fakeLeaves, g)
  BY <1>3, <1>4, <1>5, <1>6, FakeLeaveEnds
<1> HIDE DEF n
<1>8. /\ w1 \in WatchdogType /\ w1.at = "leave" /\ w1.th = g /\ w1.cid = sched.cid[g]
      /\ \E h \in Gids : w1.pid = Pid[h]
  <2> DEFINE id == IF wd.pid = NoThread THEN Pid[g] ELSE wd.pid
  <2>1. id \in {Pid[h] : h \in Gids}
    BY <1>2 DEF WatchdogType
  <2>2. w1 = [wd EXCEPT !.at = "leave", !.th = g, !.cid = sched.cid[g], !.pid = id,
                        !.pc = sched.fakeLeave[g]]
    BY <1>3, Zenon
  <2> HIDE DEF id, w1
  <2>3. /\ w1.at = "leave" /\ w1.th = g /\ w1.cid = sched.cid[g] /\ w1.pid = id
    BY <1>2, <2>2, SMTT(30) DEF WatchdogType
  <2>4. w1 \in WatchdogType
    BY <1>2, <1>6, <2>1, <2>2, ZenonT(60) DEF WatchdogType
  <2> QED
    BY <2>1, <2>3, <2>4
<1> HIDE DEF w1
<1>9. Others(sched, n, g, sched.cid[g]) /\ Elsewhere(pc, pc, g) /\ NoHandOff(sched, g)
  BY <1>3, <1>6, <1>7 DEF Others, Elsewhere, NoHandOff
<1>10. Watched(n, pc, w1) /\ \A h \in Gids \ {g} : Forced(wd, h) => Forced(w1, h)
  BY <1>3, <1>6, <1>7, <1>8 DEF Watched, Forced
<1>11. Fits(n, pc, synced, w1, g)
  BY <1>3, <1>6, <1>7, <1>8, SMTT(30) DEF Fits, Forced
<1>12. Core(n, pc, bar.state, synced, w1)
  BY <1>2, <1>3, <1>6, <1>7, <1>9, <1>10, <1>11, Stays
<1>13. NoBarrier(n, w1)
  BY <1>1 DEF NoBarrier
<1>14. Sound(n, pc')
  BY <1>1, <1>2, <1>7, <1>8, <1>12, <1>13, AfterNothing
<1>15. pc' \in [Gids -> PcValues] /\ raced' \in BOOLEAN /\ n.failed = sched.failed
  BY <1>1, <1>2, <1>3, <1>7
<1> QED
  BY <1>14, <1>15, FromSound

\* An old stall.
LEMMA WatchdogStall ==
    ASSUME Ready, watchdogStall
    PROVE  Kept
<1> DEFINE g == Head(sched.fakeLeaves)
           culprit == IF Len(sched.fakeLeaves) = 1 THEN {<<Pid[g], sched.fakeLeave[g]>>} ELSE {}
           b == sched.blockingSyscalls \cup culprit
<1>1. /\ wd.at = "idle" /\ sched.fakeLeaves # << >> /\ sched.fakeLeave[g] \in Blacklistable
      /\ ForceOut([sched EXCEPT !.blockingSyscalls = b], g)
  BY Zenon DEF watchdogStall, WatchdogAt, FakeLeaveStall
<1>2. sched \in SchedulerType
  BY DEF Ready, TypeOK
<1>3. g \in Gids
  <2>1. sched.fakeLeaves \in Seq(Gids)
    BY <1>2, Fields
  <2> QED
    BY <1>1, <2>1
<1>4. b \in SUBSET ({Pid[h] : h \in Gids} \X SyscallPcs)
  <2>1. sched.blockingSyscalls \in SUBSET ({Pid[h] : h \in Gids} \X SyscallPcs)
    BY <1>2 DEF SchedulerType
  <2>2. sched.fakeLeave[g] \in SyscallPcs
    BY <1>1, PcAssumption
  <2> QED
    BY <1>3, <2>1, <2>2
<1> HIDE DEF b
<1>5. g = Head(sched.fakeLeaves)
  OBVIOUS
<1> HIDE DEF g
<1> QED
  BY <1>1, <1>3, <1>4, <1>5, ForcesOut

\* The next fake leave at the same address.
LEMMA WatchdogNextLeave ==
    ASSUME Ready, watchdogNext
    PROVE  Kept
<1> DEFINE g == Head(sched.fakeLeaves)
<1>1. /\ wd.at = "relock" /\ Len(sched.fakeLeaves) > BatchFloor /\ ForceOut(sched, g)
  BY Zenon DEF watchdogNext, WatchdogAt, MoreStalled
<1>2. sched \in SchedulerType
  BY DEF Ready, TypeOK
<1>3. g \in Gids /\ sched.fakeLeaves # << >>
  <2>1. sched.fakeLeaves \in Seq(Gids) /\ BatchFloor \in Nat
    BY <1>2, Fields, Bounds
  <2> QED
    BY <1>1, <2>1
<1>4. /\ sched.blockingSyscalls \in SUBSET ({Pid[h] : h \in Gids} \X SyscallPcs)
      /\ [sched EXCEPT !.blockingSyscalls = sched.blockingSyscalls] = sched
  BY <1>2 DEF SchedulerType
<1>5. ForceOut([sched EXCEPT !.blockingSyscalls = sched.blockingSyscalls], g)
  BY <1>1, <1>4
<1>6. g = Head(sched.fakeLeaves)
  OBVIOUS
<1> HIDE DEF g
<1> QED
  BY <1>1, <1>3, <1>4, <1>5, <1>6, ForcesOut

\* The watchdog ends a phase.
LEMMA WatchdogPhase ==
    ASSUME Ready, watchdogPhase
    PROVE  Kept
<1> DEFINE w1 == [wd EXCEPT !.at = "idle", !.moved = FALSE, !.th = NoThread]
<1>1. /\ wd.at = "driving" /\ sched' \in callback(sched) /\ UNCHANGED <<bar, synced, pc, raced>>
      /\ wd' = wd \/ wd' = w1
  BY Zenon DEF watchdogPhase, WatchdogAt
<1>2. /\ sched \in SchedulerType /\ wd \in WatchdogType /\ pc \in [Gids -> PcValues]
      /\ raced \in BOOLEAN /\ Core(sched, pc, bar.state, synced, wd) /\ BP!BarrierInv
  BY DEF Ready, TypeOK
<1>3. PICK n \in callback(sched) : sched' = n
  BY <1>1
<1>4. Quiet(sched, pc, synced)
  <2>1. \A v \in Gids : sched.state[v] # "RUNNING"
    BY <1>1, <1>2 DEF Core, Watched
  <2>2. \A v \in Gids : pc[v] = "syncing" => sched.state[v] = "RUNNING"
    BY <1>2 DEF Core, Fits
  <2>3. \A v \in Gids : sched.handoffThread[v] # NoThread => pc[v] = "syncing"
    BY <1>2 DEF Core, HandOffs
  <2> QED
    BY <2>1, <2>2, <2>3 DEF Quiet
<1>5. n \in SchedulerType /\ n.failed = sched.failed /\ Core(n, pc, bar.state, synced, wd)
  BY <1>2, <1>4, PhaseEnded
<1>6. w1 \in WatchdogType /\ w1.at = "idle"
  BY <1>2 DEF WatchdogType
<1> HIDE DEF w1
<1>7. Core(n, pc, bar.state, synced, w1)
  <2>1. Watched(n, pc, w1)
    BY <1>6 DEF Watched
  <2>2. \A h \in Gids : Forced(wd, h) => Forced(w1, h)
    BY <1>1 DEF Forced
  <2> QED
    BY <1>5, <2>1, <2>2, WatchdogOnly
<1>8. wd' \in WatchdogType /\ Core(n, pc, bar.state, synced, wd')
  BY <1>1, <1>2, <1>5, <1>6, <1>7
<1>9. TypeOK' /\ sched'.failed = sched.failed
  BY <1>1, <1>2, <1>3, <1>5, <1>8 DEF TypeOK
<1>10. Core(sched', pc', bar'.state, synced', wd')
  BY <1>1, <1>3, <1>8
<1>11. BP!BarrierInv' /\ [B!Next]_<<bar, synced>>
  <2>1. UNCHANGED <<bar, synced>>
    BY <1>1
  <2> QED
    BY <1>2, <2>1 DEF BP!BarrierInv, BP!Sound, BP!BarrierType, BP!States
<1> QED
  BY <1>9, <1>10, <1>11 DEF Kept

-----------------------------------------------------------------------------
(* The invariant holds *)

\* The program has stopped: an assertion failed, or a thread returned too early.
Stopped ==
    /\ TypeOK' /\ BP!BarrierInv' /\ [B!Next]_<<bar, synced>>
    /\ ~ Working'

\* A step is made only while the program works.
LEMMA StepsWhileWorking ==
    ASSUME Next
    PROVE  Working
<1>1. ASSUME NEW g \in Gids, ThreadNext(g)
      PROVE  Working
  <2>1. CASE \/ start(g) \/ join(g) \/ joinReturns(g) \/ waitReturns(g) \/ threadLeave(g)
             \/ sync(g) \/ syncReturns(g) \/ syncHandsOff(g)
    BY <2>1, Zenon DEF start, join, joinReturns, waitReturns, threadLeave, sync, syncReturns,
       syncHandsOff, At
  <2>2. CASE \/ markForSleep(g) \/ isSleeping(g) \/ notifySleepEnd(g) \/ notifyFutexWakeEnd(g)
             \/ finish(g) \/ finishLeave(g) \/ finishEnd(g)
    BY <2>2, Zenon DEF markForSleep, isSleeping, notifySleepEnd, notifyFutexWakeEnd, finish,
       finishLeave, finishEnd, At
  <2>3. CASE \/ \E m \in Masks : updateMask(g, g, m)
             \/ \E at \in SyscallPcs : syscallLeave(g, at)
    BY <2>3, Zenon DEF updateMask, syscallLeave, At
  <2> QED
    BY <1>1, <2>1, <2>2, <2>3, Zenon DEF ThreadNext
<1>2. ASSUME WatchdogNext
      PROVE  Working
  BY <1>2, Zenon DEF WatchdogNext, watchdogFastpath, watchdogRound, watchdogSkip, watchdogStall,
     watchdogLeave, watchdogNext, watchdogStalled, watchdogDrive, watchdogPhase, WatchdogAt
<1> QED
  BY <1>1, <1>2, Zenon DEF Next

\* A step of a thread keeps the invariant, unless the watchdog acts for the thread.
LEMMA ThreadSteps ==
    ASSUME Ready, NEW g \in Gids, ThreadNext(g)
    PROVE  Kept \/ Broken
<1>1. CASE \/ start(g) \/ joinReturns(g) \/ waitReturns(g) \/ threadLeave(g)
           \/ sync(g) \/ syncReturns(g) \/ syncHandsOff(g)
  BY <1>1, Starts, JoinReturns, WaitReturns, ThreadLeaves, SyncCalls, SyncReturns,
     SyncHandsOff, Zenon
<1>2. CASE \/ markForSleep(g) \/ isSleeping(g) \/ notifySleepEnd(g) \/ notifyFutexWakeEnd(g)
           \/ finishLeave(g) \/ finishEnd(g)
  BY <1>2, MarkForSleep, IsSleeping, NotifySleepEnd, NotifyFutexWakeEnd, FinishLeaves,
     FinishEnds, Zenon
<1>3. CASE join(g) \/ finish(g)
  BY <1>3, Joins, Finishes, Zenon
<1>4. CASE \/ \E m \in Masks : updateMask(g, g, m)
           \/ \E at \in SyscallPcs : syscallLeave(g, at)
  BY <1>4, UpdateMask, SyscallLeave, Zenon
<1> QED
  BY <1>1, <1>2, <1>3, <1>4, Zenon DEF ThreadNext

\* The watchdog's leave meets another thread's process id: an assertion fails.
LEMMA WatchdogFails ==
    ASSUME Ready, Working, watchdogLeave, Pid[wd.th] # wd.pid
    PROVE  Stopped
<1> DEFINE n == Check(sched, "leave", FALSE)
           none == ""
<1>1. NoBarrier(n, wd) /\ UNCHANGED <<pc, raced>>
  BY Zenon DEF watchdogLeave
<1>2. "leave" \in Places /\ "leave" # none
  BY Zenon DEF Places
<1>3. n = [sched EXCEPT !.failed = "leave"]
  BY Zenon DEF Check, Working
<1>4. sched \in SchedulerType
  BY DEF Ready, TypeOK
<1>5. n \in SchedulerType
  BY <1>2, <1>4, CheckType, Zenon
<1> HIDE DEF none
<1>6. n.failed # none
  <2>1. n.failed = "leave"
    <3> HIDE DEF n
    <3> QED
      BY <1>3, <1>4 DEF SchedulerType
  <2> QED
    BY <1>2, <2>1, Zenon
<1> HIDE DEF n
<1>7. sched'.failed # none
  BY <1>1, <1>6, Zenon DEF NoBarrier
<1>8. ~ Working'
  BY <1>7, Zenon DEF Working, none
<1>9. TypeOK'
  BY <1>1, <1>5 DEF Ready, TypeOK, NoBarrier
<1>10. BP!BarrierInv' /\ [B!Next]_<<bar, synced>>
  <2>1. UNCHANGED <<bar, synced>>
    BY <1>1 DEF NoBarrier
  <2> QED
    BY <2>1 DEF Ready, BP!BarrierInv, BP!Sound, BP!BarrierType, BP!States
<1> QED
  BY <1>8, <1>9, <1>10, Zenon DEF Stopped

\* A step of the watchdog keeps the invariant, or stops the program by its assertion.
LEMMA WatchdogSteps ==
    ASSUME Ready, Working, WatchdogNext
    PROVE  Kept \/ (Stopped /\ watchdogLeave /\ Pid[wd.th] # wd.pid)
<1>1. CASE watchdogLeave
  <2>1. CASE Pid[wd.th] = wd.pid
    BY <1>1, <2>1, WatchdogLeaves, Zenon
  <2>2. CASE Pid[wd.th] # wd.pid
    BY <1>1, <2>2, WatchdogFails, Zenon
  <2> QED
    BY <2>1, <2>2
<1>2. CASE \/ watchdogFastpath \/ watchdogRound \/ watchdogSkip \/ watchdogStall
           \/ watchdogNext \/ watchdogStalled \/ watchdogDrive \/ watchdogPhase
  BY <1>2, WatchdogFastpath, WatchdogRound, WatchdogSkip, WatchdogStall, WatchdogNextLeave,
     WatchdogStalled, WatchdogDrive, WatchdogPhase, Zenon
<1> QED
  BY <1>1, <1>2, Zenon DEF WatchdogNext

\* What a step does, while the program works.
LEMMA Steps ==
    ASSUME Inv, Next
    PROVE  /\ Ready /\ Working
           /\ \/ Kept
              \/ Broken
              \/ Stopped /\ watchdogLeave /\ Pid[wd.th] # wd.pid
<1>1. Working
  BY StepsWhileWorking
<1>2. Ready
  BY <1>1, Zenon DEF Inv, Ready
<1>3. ASSUME NEW g \in Gids, ThreadNext(g)
      PROVE  Kept \/ Broken
  BY <1>2, <1>3, ThreadSteps, Zenon
<1>4. ASSUME WatchdogNext
      PROVE  Kept \/ (Stopped /\ watchdogLeave /\ Pid[wd.th] # wd.pid)
  BY <1>1, <1>2, <1>4, WatchdogSteps, Zenon
<1> QED
  BY <1>1, <1>2, <1>3, <1>4, Zenon DEF Next

\* A thread that returned too early has stopped the program.
LEMMA BrokenStops ==
    ASSUME Broken
    PROVE  Stopped
BY Zenon DEF Broken, Stopped, Working

\* The invariant is inductive.
LEMMA StepSound ==
    ASSUME Inv, [Next]_vars
    PROVE  Inv' /\ [B!Next]_<<bar, synced>>
<1>1. CASE Next
  <2>1. Kept \/ Stopped
    BY <1>1, Steps, BrokenStops, Zenon
  <2>2. CASE Kept
    BY <2>2, Zenon DEF Kept, Inv
  <2>3. CASE Stopped
    BY <2>3, Zenon DEF Stopped, Inv
  <2> QED
    BY <2>1, <2>2, <2>3
<1>2. CASE UNCHANGED vars
  <2>1. sched' = sched /\ pc' = pc /\ wd' = wd /\ raced' = raced /\ bar' = bar /\ synced' = synced
    BY <1>2 DEF vars
  <2>2. Working' => Working
    BY <2>1, Zenon DEF Working
  <2>3. TypeOK' /\ BP!BarrierInv'
    BY <2>1 DEF Inv, TypeOK, BP!BarrierInv, BP!Sound, BP!BarrierType, BP!States
  <2>4. Working => Core(sched', pc', bar'.state, synced', wd')
    BY <2>1 DEF Inv
  <2>5. Inv'
    BY <2>2, <2>3, <2>4, Zenon DEF Inv
  <2> QED
    BY <2>1, <2>5
<1> QED
  BY <1>1, <1>2

\* At the start nobody is anywhere, and all contexts are free.
LEMMA InitSound == Init => Inv
<1> SUFFICES ASSUME Init PROVE Inv
  OBVIOUS
<1> DEFINE none == ""
           free == [i \in 1 .. numCores |-> i - 1]
<1>1. sched = [state |-> [g \in Gids |-> "STARTED"],
               cid |-> [g \in Gids |-> 0],
               handoffThread |-> [g \in Gids |-> NoThread],
               futexWord |-> [g \in Gids |-> 0],
               markedForSleep |-> [g \in Gids |-> FALSE],
               untilWakeup |-> [g \in Gids |-> 0],
               mask |-> [g \in Gids |-> Cores],
               fakeLeave |-> [g \in Gids |-> NoPc],
               curThread |-> [c \in Cores |-> NoThread],
               freeList |-> free,
               runQueue |-> << >>, outQueue |-> << >>, sleepQueue |-> << >>,
               fakeLeaves |-> << >>, blockingSyscalls |-> {},
               quantum |-> 0, failed |-> none]
  BY Zenon DEF Init
<1>2. none \in Places
  BY Zenon DEF Places
<1>3. /\ pc = [g \in Gids |-> "off"] /\ raced = FALSE /\ B!Init
      /\ wd = [at |-> "idle", moved |-> FALSE, stalls |-> 0, th |-> NoThread,
               pid |-> NoThread, cid |-> 0, pc |-> NoPc]
  BY Zenon DEF Init
<1> HIDE DEF none
<1>4. free \in Seq(Cores) /\ Len(free) = numCores /\ Holds(free, Cores)
  <2>1. free \in [1 .. numCores -> Cores]
    BY Bounds DEF Cores
  <2>2. free \in Seq(Cores) /\ Len(free) = numCores
    BY <2>1, Bounds, FunctionIsSeq
  <2>3. \A i \in 1 .. numCores : free[i] = i - 1
    OBVIOUS
  <2> HIDE DEF free
  <2>4. \A i, j \in 1 .. Len(free) : free[i] = free[j] => i = j
    BY <2>2, <2>3, Bounds
  <2>5. {free[i] : i \in 1 .. Len(free)} = Cores
    <3>1. \A c \in Cores : c + 1 \in 1 .. numCores /\ free[c + 1] = c
      BY <2>3, Bounds DEF Cores
    <3>2. \A i \in 1 .. numCores : free[i] \in Cores
      BY <2>1
    <3> QED
      BY <2>2, <3>1, <3>2
  <2> QED
    BY <2>2, <2>4, <2>5 DEF Holds
<1> HIDE DEF free
<1>5. 0 \in Cores /\ Cores \in Masks /\ 0 \in 0 .. MaxSleep /\ 0 \in 0 .. schedQuantum - 1
      /\ 0 \in 0 .. StallThreshold
  BY Bounds, MasksAssumption DEF Cores
<1>6. /\ sched.state = [g \in Gids |-> "STARTED"]
      /\ sched.cid = [g \in Gids |-> 0]
      /\ sched.handoffThread = [g \in Gids |-> NoThread]
      /\ sched.futexWord = [g \in Gids |-> 0]
      /\ sched.markedForSleep = [g \in Gids |-> FALSE]
      /\ sched.untilWakeup = [g \in Gids |-> 0]
      /\ sched.mask = [g \in Gids |-> Cores]
      /\ sched.fakeLeave = [g \in Gids |-> NoPc]
      /\ sched.curThread = [c \in Cores |-> NoThread]
      /\ sched.freeList = free
      /\ sched.runQueue = << >> /\ sched.outQueue = << >> /\ sched.sleepQueue = << >>
      /\ sched.fakeLeaves = << >> /\ sched.blockingSyscalls = {}
      /\ sched.quantum = 0 /\ sched.failed = none
  BY <1>1
<1>7. sched \in SchedulerType
  <2>1. /\ sched.state \in [Gids -> ThreadState] /\ sched.cid \in [Gids -> Cores]
        /\ sched.handoffThread \in [Gids -> Gids \cup {NoThread}]
        /\ sched.futexWord \in [Gids -> {0, 1}]
    BY <1>5, <1>6 DEF ThreadState
  <2>2. /\ sched.markedForSleep \in [Gids -> BOOLEAN]
        /\ sched.untilWakeup \in [Gids -> 0 .. MaxSleep] /\ sched.mask \in [Gids -> Masks]
        /\ sched.fakeLeave \in [Gids -> SyscallPcs \cup {NoPc}]
        /\ sched.curThread \in [Cores -> Gids \cup {NoThread}]
    BY <1>5, <1>6
  <2>3. /\ sched.freeList \in Seq(Cores) /\ sched.runQueue \in Seq(Gids)
        /\ sched.outQueue \in Seq(Gids) /\ sched.sleepQueue \in Seq(Gids)
        /\ sched.fakeLeaves \in Seq(Gids)
        /\ sched.blockingSyscalls \in SUBSET ({Pid[g] : g \in Gids} \X SyscallPcs)
        /\ sched.quantum \in 0 .. schedQuantum - 1 /\ sched.failed \in Places
    BY <1>2, <1>4, <1>5, <1>6
  <2>4. sched = [state |-> sched.state, cid |-> sched.cid,
                 handoffThread |-> sched.handoffThread, futexWord |-> sched.futexWord,
                 markedForSleep |-> sched.markedForSleep, untilWakeup |-> sched.untilWakeup,
                 mask |-> sched.mask, fakeLeave |-> sched.fakeLeave,
                 curThread |-> sched.curThread, freeList |-> sched.freeList,
                 runQueue |-> sched.runQueue, outQueue |-> sched.outQueue,
                 sleepQueue |-> sched.sleepQueue, fakeLeaves |-> sched.fakeLeaves,
                 blockingSyscalls |-> sched.blockingSyscalls, quantum |-> sched.quantum,
                 failed |-> sched.failed]
    BY <1>1
  <2> QED
    BY <2>1, <2>2, <2>3, <2>4 DEF SchedulerType
<1>8. wd \in WatchdogType /\ wd.at = "idle"
  BY <1>3, <1>5 DEF WatchdogType
<1>9. pc \in [Gids -> PcValues] /\ \A g \in Gids : pc[g] = "off"
  BY <1>3 DEF PcValues
<1>10. TypeOK
  BY <1>3, <1>7, <1>8, <1>9 DEF TypeOK
<1>11. BP!BarrierInv
  <2>1. BP!Init
    BY <1>3 DEF B!Init, BP!Init
  <2> QED
    BY <2>1, BarrierAssumes, BP!InitSound
<1>12. /\ \A g \in Gids : sched.state[g] = "STARTED" /\ sched.handoffThread[g] = NoThread
                          /\ sched.fakeLeave[g] = NoPc /\ ~ sched.markedForSleep[g]
       /\ \A c \in Cores : sched.curThread[c] = NoThread
  BY <1>6
<1>13. \A c \in Cores : bar.state[c] = "OFFLINE"
  BY <1>3 DEF B!Init
<1>14. QueuesHold(sched)
  <2>1. InState(sched, "QUEUED") = {} /\ InState(sched, "OUT") = {}
        /\ InState(sched, "SLEEPING") = {}
    BY <1>12 DEF InState
  <2>2. FreeCores(sched) = Cores /\ FakeLeavers(sched) = {} /\ Waiters(sched) = {}
    BY <1>12, <2>1 DEF FreeCores, FakeLeavers, Waiters
  <2>3. Holds(<< >>, {})
    BY DEF Holds
  <2> QED
    BY <1>4, <1>6, <2>1, <2>2, <2>3 DEF QueuesHold
<1>15. Core(sched, pc, bar.state, synced, wd)
  <2>1. Owned(sched) /\ HandOffs(sched, pc, synced)
    BY <1>12 DEF Owned, HandOffs
  <2>2. SleepsOrdered(sched)
    BY <1>6, <1>12 DEF SleepsOrdered, InState
  <2>3. Agrees(sched, pc, bar.state)
    BY <1>12, <1>13 DEF Agrees, Runner
  <2>4. \A g \in Gids : Fits(sched, pc, synced, wd, g)
    BY <1>9, <1>12 DEF Fits
  <2>5. WellUsed(sched, pc)
    BY <1>12 DEF WellUsed, Waiters, InState
  <2>6. Watched(sched, pc, wd)
    BY <1>8 DEF Watched
  <2> QED
    BY <1>14, <2>1, <2>2, <2>3, <2>4, <2>5, <2>6 DEF Core
<1> QED
  BY <1>10, <1>11, <1>15, Zenon DEF Inv

\* The invariant holds in every reachable state.
THEOREM Invariant == Spec => []Inv
<1>1. Init => Inv
  BY InitSound
<1>2. Inv /\ [Next]_vars => Inv'
  BY StepSound
<1> QED
  BY <1>1, <1>2, PTL DEF Spec

-----------------------------------------------------------------------------
(* What it means *)

\* A queue that holds a set has each of its elements once.
LEMMA HeldOnce ==
    ASSUME NEW T, NEW q \in Seq(T), NEW D, Holds(q, D)
    PROVE  Members(q) = D /\ \A x \in D : Once(q, x)
<1>1. DOMAIN q = 1 .. Len(q)
  OBVIOUS
<1>2. Members(q) = {q[i] : i \in 1 .. Len(q)}
  BY <1>1 DEF Members, S!ToSet
<1>3. Members(q) = D
  BY <1>2 DEF Holds
<1>4. ASSUME NEW x \in D
      PROVE  Once(q, x)
  <2>1. PICK i \in 1 .. Len(q) : q[i] = x
    BY DEF Holds
  <2>2. \A j \in DOMAIN q : q[j] = x => j = i
    BY <1>1, <2>1 DEF Holds
  <2> QED
    BY <1>1, <2>1, <2>2 DEF Once
<1> QED
  BY <1>3, <1>4

\* The queues of the state hold what they should.
LEMMA AllHeld ==
    ASSUME Ready
    PROVE  /\ Members(sched.freeList) = FreeCores(sched)
           /\ \A c \in FreeCores(sched) : Once(sched.freeList, c)
           /\ Members(sched.runQueue) = Waiters(sched)
           /\ \A g \in Waiters(sched) : Once(sched.runQueue, g)
           /\ Members(sched.outQueue) = InState(sched, "OUT")
           /\ \A g \in InState(sched, "OUT") : Once(sched.outQueue, g)
           /\ Members(sched.sleepQueue) = InState(sched, "SLEEPING")
           /\ \A g \in InState(sched, "SLEEPING") : Once(sched.sleepQueue, g)
<1>1. /\ sched.freeList \in Seq(Cores) /\ sched.runQueue \in Seq(Gids)
      /\ sched.outQueue \in Seq(Gids) /\ sched.sleepQueue \in Seq(Gids)
  BY Fields DEF Ready, TypeOK
<1>2. QueuesHold(sched)
  BY DEF Ready, Core
<1> QED
  BY <1>1, <1>2, HeldOnce DEF QueuesHold

\* The invariant places every thread.
LEMMA ThreadsArePlaced == Inv => ThreadsPlaced
<1>1. SUFFICES ASSUME Inv, Working PROVE EveryThreadPlaced
  BY Zenon DEF Inv, ThreadsPlaced, EveryThreadPlaced
<1>2. Ready
  BY <1>1, Zenon DEF Inv, Ready
<1>3. /\ sched \in SchedulerType /\ Owned(sched) /\ HandOffs(sched, pc, synced)
      /\ \A g \in Gids : Fits(sched, pc, synced, wd, g)
  BY <1>2 DEF Ready, TypeOK, Core
<1>4. /\ sched.state \in [Gids -> ThreadState] /\ sched.cid \in [Gids -> Cores]
      /\ sched.handoffThread \in [Gids -> Gids \cup {NoThread}]
      /\ sched.curThread \in [Cores -> Gids \cup {NoThread}]
  BY <1>3, Fields
<1>5. \A g \in Gids : sched.state[g] # "QUEUED" => Promisers(g) = {}
  BY <1>3, GidsAssumption DEF HandOffs, Promisers
<1>6. \A g \in Gids : Promisers(g) = {} <=> g \notin Promised(sched)
  BY DEF Promisers, Promised
<1>7. ASSUME NEW g \in Gids, sched.state[g] = "QUEUED", Promisers(g) # {}
      PROVE  /\ g \notin Members(sched.runQueue)
             /\ \E v \in Gids : Promisers(g) = {v} /\ pc[v] = "syncing"
  <2>1. PICK v \in Gids : sched.handoffThread[v] = g
    BY <1>7 DEF Promisers
  <2>2. pc[v] = "syncing" /\ \A u \in Gids : sched.handoffThread[u] = g => u = v
    BY <1>3, <2>1, GidsAssumption DEF HandOffs
  <2>3. Promisers(g) = {v}
    BY <2>1, <2>2 DEF Promisers
  <2>4. g \notin Members(sched.runQueue)
    BY <1>2, <1>6, <1>7, AllHeld DEF Waiters
  <2> QED
    BY <2>2, <2>3, <2>4
<1>8. ASSUME NEW g \in Live
      PROVE  CASE sched.state[g] = "RUNNING" -> sched.curThread[sched.cid[g]] = g
               [] sched.state[g] = "OUT" ->
                     sched.curThread[sched.cid[g]] = g /\ Once(sched.outQueue, g)
               [] sched.state[g] = "QUEUED" ->
                     IF Promisers(g) = {} THEN Once(sched.runQueue, g)
                     ELSE /\ g \notin Members(sched.runQueue)
                          /\ \E v \in Gids : Promisers(g) = {v} /\ pc[v] = "syncing"
               [] sched.state[g] = "SLEEPING" -> Once(sched.sleepQueue, g)
               [] OTHER -> Promisers(g) = {}
  <2>1. g \in Gids
    BY DEF Live
  <2>2. CASE sched.state[g] = "RUNNING"
    BY <1>3, <2>1, <2>2 DEF Owned
  <2>3. CASE sched.state[g] = "OUT"
    <3>1. sched.curThread[sched.cid[g]] = g
      BY <1>3, <2>1, <2>3 DEF Owned
    <3>2. Once(sched.outQueue, g)
      BY <1>2, <2>1, <2>3, AllHeld DEF InState
    <3> QED
      BY <2>3, <3>1, <3>2
  <2>4. CASE sched.state[g] = "QUEUED"
    <3>1. Promisers(g) = {} => Once(sched.runQueue, g)
      BY <1>2, <1>6, <2>1, <2>4, AllHeld DEF Waiters, InState
    <3> QED
      BY <1>7, <2>1, <2>4, <3>1
  <2>5. CASE sched.state[g] = "SLEEPING"
    <3>1. Once(sched.sleepQueue, g)
      BY <1>2, <2>1, <2>5, AllHeld DEF InState
    <3> QED
      BY <2>5, <3>1
  <2>6. CASE sched.state[g] \notin {"RUNNING", "OUT", "QUEUED", "SLEEPING"}
    <3>1. Promisers(g) = {}
      BY <1>5, <2>1, <2>6
    <3> QED
      BY <2>6, <3>1
  <2> QED
    BY <2>2, <2>3, <2>4, <2>5, <2>6
<1>9. \A g \in Gids \ Live : Promisers(g) = {}
  <2>1. ASSUME NEW g \in Gids \ Live PROVE sched.state[g] # "QUEUED"
    BY <1>3 DEF Live, Fits
  <2> QED
    BY <1>5, <2>1
<1>10. ASSUME NEW c \in Cores
       PROVE  IF sched.curThread[c] = NoThread THEN Once(sched.freeList, c)
              ELSE /\ c \notin Members(sched.freeList)
                   /\ sched.cid[sched.curThread[c]] = c
                   /\ sched.state[sched.curThread[c]] \in {"RUNNING", "OUT"}
  <2>1. sched.curThread[c] = NoThread => Once(sched.freeList, c)
    BY <1>2, AllHeld DEF FreeCores
  <2>2. sched.curThread[c] # NoThread => c \notin Members(sched.freeList)
    BY <1>2, AllHeld DEF FreeCores
  <2> QED
    BY <1>3, <2>1, <2>2 DEF Owned
<1>11. /\ Members(sched.runQueue) \subseteq InState(sched, "QUEUED")
       /\ Members(sched.outQueue) \subseteq InState(sched, "OUT")
       /\ Members(sched.sleepQueue) \subseteq InState(sched, "SLEEPING")
  BY <1>2, AllHeld DEF Waiters
<1> QED
  BY <1>8, <1>9, <1>10, <1>11, Zenon DEF EveryThreadPlaced

\* No thread is lost or in two places: each RUNNING or OUT thread owns the context
\* that names it, each QUEUED one is once in the run queue or promised one
\* context, each SLEEPING one is once in the sleep queue.
THEOREM NobodyLost == Spec => []ThreadsPlaced
<1>1. Inv => ThreadsPlaced
  BY ThreadsArePlaced
<1> QED
  BY <1>1, Invariant, PTL

\* The barrier has the state that the invariant says.
LEMMA BarrierDoesAgree == Inv => BarrierAgrees
<1>1. SUFFICES ASSUME Inv, Working PROVE BarrierAgrees
  BY Zenon DEF BarrierAgrees
<1>2. Ready
  BY <1>1, Zenon DEF Inv, Ready
<1>3. /\ sched \in SchedulerType /\ Owned(sched) /\ Agrees(sched, pc, bar.state)
      /\ \A g \in Gids : Fits(sched, pc, synced, wd, g)
  BY <1>2 DEF Ready, TypeOK, Core
<1>4. sched.curThread \in [Cores -> Gids \cup {NoThread}]
  BY <1>3, Fields
<1>5. \A c \in Cores : Runner(sched, c) <=> sched.curThread[c] \in InState(sched, "RUNNING")
  BY <1>4, GidsAssumption DEF Runner, InState
<1>6. \A c \in Cores :
          (bar.state[c] \in {"RUNNING", "WAITING"}) <=>
              (sched.curThread[c] \in InState(sched, "RUNNING"))
  BY <1>3, <1>5 DEF Agrees
<1>7. \A g \in Gids : pc[g] = "run" => /\ sched.curThread[sched.cid[g]] = g
                                       /\ bar.state[sched.cid[g]] = "RUNNING"
  BY <1>3 DEF Agrees, Fits, Owned
<1> QED
  BY <1>6, <1>7, Zenon DEF BarrierAgrees

\* The barrier counts a core as taking part in the phase exactly while a RUNNING
\* thread owns it, and a thread executes only on a core that the barrier lets run.
THEOREM BarrierKnows == Spec => []BarrierAgrees
<1>1. Inv => BarrierAgrees
  BY BarrierDoesAgree
<1> QED
  BY <1>1, Invariant, PTL

\* Contexts are used as the invariant says.
LEMMA ContextsAreWellUsed == Inv => ContextsWellUsed
<1>1. SUFFICES ASSUME Inv, Working PROVE ContextsWellUsed
  BY Zenon DEF ContextsWellUsed, AffinityKept, QueuedOnlyWhenBusy
<1>2. Ready
  BY <1>1, Zenon DEF Inv, Ready
<1>3. sched \in SchedulerType /\ WellUsed(sched, pc)
  BY <1>2 DEF Ready, TypeOK, Core
<1>4. \A g \in Live : sched.state[g] = "RUNNING" /\ pc[g] \notin {"entering", "leaving"} =>
          sched.cid[g] \in sched.mask[g]
  BY <1>3 DEF WellUsed, Live
<1>5. \A g \in Members(sched.runQueue) : \A c \in sched.mask[g] :
          sched.curThread[c] \in InState(sched, "RUNNING")
  <2>1. Members(sched.runQueue) = Waiters(sched)
    BY <1>2, AllHeld
  <2>2. \A g \in Waiters(sched) : sched.mask[g] \subseteq Cores
    BY <1>3, Fields, MasksAssumption DEF Waiters, InState
  <2>3. sched.curThread \in [Cores -> Gids \cup {NoThread}]
    BY <1>3, Fields
  <2> QED
    BY <1>3, <2>1, <2>2, <2>3 DEF WellUsed, Runner, InState
<1> QED
  BY <1>4, <1>5, Zenon DEF ContextsWellUsed, AffinityKept, QueuedOnlyWhenBusy

\* A thread runs only where its affinity lets it, and a thread queues only while
\* each context it may use is owned by one that runs.
THEOREM ContextsUsed == Spec => []ContextsWellUsed
<1>1. Inv => ContextsWellUsed
  BY ContextsAreWellUsed
<1> QED
  BY <1>1, Invariant, PTL

\* No sleeper is overdue, whatever the order in which the sleeps began and
\* whoever ends the phases.
THEOREM SleepersWakeOnTime == Spec => []SleepersOnTime
<1>1. Inv => SleepersOnTime
  <2>1. SUFFICES ASSUME Inv, Working PROVE SleepersOnTime
    BY Zenon DEF SleepersOnTime
  <2>2. SleepsOrdered(sched)
    BY <2>1, Zenon DEF Inv, Core
  <2>3. \A g \in InState(sched, "SLEEPING") \cap Live : sched.untilWakeup[g] >= 1
    BY <2>2 DEF SleepsOrdered
  <2> QED
    BY <2>3, Zenon DEF SleepersOnTime
<1> QED
  BY <1>1, Invariant, PTL

\* The scheduler drives the barrier as the barrier expects: every behaviour is one
\* of the Barrier module, whose theorems hold here.
THEOREM DrivesBarrier == Spec => UsesBarrier
<1>1. Init => B!Init
  BY Zenon DEF Init
<1>2. Inv /\ [Next]_vars => [B!Next]_(B!vars)
  BY StepSound DEF B!vars
<1> QED
  BY <1>1, <1>2, Invariant, PTL DEF Spec, UsesBarrier, B!Spec

-----------------------------------------------------------------------------
(* Assertions fail only by the race *)

\* All threads belong to one process, or they are too few for the watchdog to go
\* on with a second one: it would leave with the process id of the first.
PidsAgree ==
    \/ \A g, h \in Gids : Pid[g] = Pid[h]
    \/ Cardinality(Gids) <= BatchFloor

\* The watchdog keeps a process id only from one fake leave to the end of its round,
\* and it is that of the thread it leaves for.
RightPid ==
    /\ wd.at = "leave" => wd.pid = Pid[wd.th]
    /\ wd.at \notin {"leave", "relock"} => wd.pid = NoThread

\* What a thread does to the watchdog's record.
OnlyMoved == wd' = wd \/ wd' = [wd EXCEPT !.moved = @ \/ PhaseEnds]

\* A thread at most tells the watchdog that the phase moved.
LEMMA ThreadsOnlyMove ==
    ASSUME NEW g \in Gids, ThreadNext(g)
    PROVE  OnlyMoved
<1>1. ASSUME NEW s, NoBarrier(s, wd) \/ AfterBarrier(s, wd)
      PROVE  OnlyMoved
  BY <1>1, Zenon DEF NoBarrier, AfterBarrier, OnlyMoved
<1>2. ASSUME NEW s, NEW c, BarrierJoin(s, c) \/ BarrierLeave(s, c, wd) \/ BarrierSync(s, c)
      PROVE  OnlyMoved
  BY <1>1, <1>2, Zenon DEF BarrierJoin, BarrierLeave, BarrierSync
<1>3. ASSUME NEW s, JoinOrQueue(s, g)
      PROVE  OnlyMoved
  BY <1>1, <1>2, <1>3, Zenon DEF JoinOrQueue
<1>4. ASSUME NEW c, leave(g, c, wd)
      PROVE  OnlyMoved
  BY <1>1, <1>2, <1>4, Zenon DEF leave
<1>5. CASE \/ start(g) \/ joinReturns(g) \/ waitReturns(g) \/ syncReturns(g)
           \/ markForSleep(g) \/ isSleeping(g) \/ notifySleepEnd(g) \/ notifyFutexWakeEnd(g)
  BY <1>1, <1>5, Zenon DEF start, joinReturns, waitReturns, syncReturns, markForSleep,
     isSleeping, notifySleepEnd, notifyFutexWakeEnd
<1>6. CASE join(g)
  BY <1>1, <1>2, <1>3, <1>6, Zenon DEF join
<1>7. CASE threadLeave(g) \/ sync(g) \/ syncHandsOff(g)
  BY <1>2, <1>3, <1>4, <1>7, Zenon DEF threadLeave, sync, syncHandsOff
<1>8. CASE finish(g) \/ finishLeave(g) \/ finishEnd(g)
  BY <1>1, <1>4, <1>8, Zenon DEF finish, finishLeave, finishEnd
<1>9. CASE \/ \E m \in Masks : updateMask(g, g, m)
           \/ \E at \in SyscallPcs : syscallLeave(g, at)
  BY <1>1, <1>9, Zenon DEF updateMask, syscallLeave
<1> QED
  BY <1>5, <1>6, <1>7, <1>8, <1>9, Zenon DEF ThreadNext

\* Few threads have few fake leaves.
LEMMA FewFakeLeaves ==
    ASSUME Ready, Cardinality(Gids) <= BatchFloor
    PROVE  ~ MoreStalled
<1> DEFINE q == sched.fakeLeaves
<1>1. q \in Seq(Gids) /\ Holds(q, FakeLeavers(sched))
  BY Fields DEF Ready, TypeOK, Core, QueuesHold
<1>2. /\ \A i, j \in 1 .. Len(q) : q[i] = q[j] => i = j
      /\ {q[i] : i \in 1 .. Len(q)} \subseteq Gids
  BY <1>1 DEF Holds
<1> HIDE DEF q
<1>3. Cardinality({q[i] : i \in 1 .. Len(q)}) = Len(q)
  BY <1>1, <1>2, DistinctLength
<1>4. Len(q) <= Cardinality(Gids) /\ Cardinality(Gids) \in Nat
  <2> DEFINE held == {q[i] : i \in 1 .. Len(q)}
  <2>1. held \in SUBSET Gids /\ Cardinality(held) = Len(q)
    BY <1>2, <1>3
  <2> HIDE DEF held
  <2>2. Cardinality(held) <= Cardinality(Gids)
    BY <2>1, GidsAssumption, FS_Subset
  <2>3. Cardinality(Gids) \in Nat
    BY GidsAssumption, FS_CardinalityType
  <2> QED
    BY <2>1, <2>2, <2>3
<1>5. ~ (Len(q) > BatchFloor)
  BY <1>1, <1>4, Bounds
<1> QED
  BY <1>5, Zenon DEF MoreStalled, q

\* With few threads the watchdog has the right process id.
LEMMA RightPidKept ==
    ASSUME Inv, Next, Cardinality(Gids) <= BatchFloor, RightPid
    PROVE  RightPid'
<1>1. Ready /\ wd \in WatchdogType
  BY Steps DEF Ready, TypeOK
<1>2. ASSUME wd' = wd \/ wd' = [wd EXCEPT !.moved = @ \/ PhaseEnds]
      PROVE  RightPid'
  <2>1. wd'.at = wd.at /\ wd'.th = wd.th /\ wd'.pid = wd.pid
    BY <1>1, <1>2 DEF WatchdogType
  <2> QED
    BY <2>1 DEF RightPid
<1>3. ASSUME NEW g \in Gids, ThreadNext(g)
      PROVE  RightPid'
  BY <1>2, <1>3, ThreadsOnlyMove, Zenon DEF OnlyMoved
<1>4. ASSUME NEW w \in WatchdogType, w.pid = NoThread, wd' = RestOfRound(w)
      PROVE  RightPid'
  <2>1. \/ wd' = [w EXCEPT !.at = "recheck"]
        \/ wd' = [w EXCEPT !.at = "idle", !.moved = FALSE]
    BY <1>4, Zenon DEF RestOfRound
  <2>2. wd'.at \in {"idle", "recheck"} /\ wd'.pid = NoThread
    BY <1>4, <2>1 DEF WatchdogType
  <2> QED
    BY <2>2 DEF RightPid
<1>5. ASSUME wd.at = "idle", NEW s, NEW g, ForceOut(s, g)
      PROVE  RightPid'
  <2>1. wd.pid = NoThread
    BY <1>5 DEF RightPid
  <2>2. wd' = [wd EXCEPT !.at = "leave", !.th = g, !.cid = s.cid[g],
                         !.pid = IF @ = NoThread THEN Pid[g] ELSE @,
                         !.pc = s.fakeLeave[g]]
    BY <1>5, Zenon DEF ForceOut
  <2>3. wd'.at = "leave" /\ wd'.th = g /\ wd'.pid = Pid[g]
    BY <1>1, <2>1, <2>2 DEF WatchdogType
  <2> QED
    BY <2>3 DEF RightPid
<1>6. CASE watchdogFastpath
  <2>1. wd.at = "idle" /\ wd' = [wd EXCEPT !.moved = FALSE, !.stalls = 0]
    BY <1>6, Zenon DEF watchdogFastpath, WatchdogAt
  <2>2. wd'.at = "idle" /\ wd'.pid = NoThread
    BY <1>1, <2>1 DEF WatchdogType, RightPid
  <2> QED
    BY <2>2 DEF RightPid
<1>7. CASE watchdogRound \/ watchdogSkip
  <2>1. wd.at = "idle" /\ \E x \in 0 .. StallThreshold : wd' = RestOfRound([wd EXCEPT !.stalls = x])
    <3> DEFINE x == IF FakeLeaveStall THEN wd.stalls + 1 ELSE 0
    <3>1. wd.at = "idle"
      BY <1>7, Zenon DEF watchdogRound, watchdogSkip, WatchdogAt
    <3>2. \/ wd' = RestOfRound([wd EXCEPT !.stalls = x]) /\ (FakeLeaveStall => wd.stalls + 1 < StallThreshold)
          \/ wd' = RestOfRound([wd EXCEPT !.stalls = 0])
      BY <1>7, Zenon DEF watchdogRound, watchdogSkip
    <3>3. 0 \in 0 .. StallThreshold /\ wd.stalls \in Nat
      BY <1>1, Bounds DEF WatchdogType
    <3>4. (FakeLeaveStall => wd.stalls + 1 < StallThreshold) => x \in 0 .. StallThreshold
      BY <3>3, Bounds
    <3> HIDE DEF x
    <3> QED
      BY <3>1, <3>2, <3>3, <3>4, Zenon
  <2>2. PICK x \in 0 .. StallThreshold : wd' = RestOfRound([wd EXCEPT !.stalls = x])
    BY <2>1
  <2>3. [wd EXCEPT !.stalls = x] \in WatchdogType /\ [wd EXCEPT !.stalls = x].pid = NoThread
    BY <1>1, <2>1 DEF WatchdogType, RightPid
  <2> QED
    BY <1>4, <2>2, <2>3, Zenon
<1>8. CASE watchdogStall
  BY <1>5, <1>8, Zenon DEF watchdogStall, WatchdogAt
<1>9. CASE watchdogLeave
  <2> DEFINE w1 == [wd EXCEPT !.at = "relock"]
  <2>1. wd' = wd \/ wd' = w1 \/ wd' = [w1 EXCEPT !.moved = @ \/ PhaseEnds]
    <3>1. ASSUME NEW s, NEW c, BarrierLeave(s, c, w1)
          PROVE  wd' = w1 \/ wd' = [w1 EXCEPT !.moved = @ \/ PhaseEnds]
      BY <3>1, Zenon DEF BarrierLeave, NoBarrier, AfterBarrier
    <3> HIDE DEF w1
    <3>2. ASSUME leave(wd.th, wd.cid, w1)
          PROVE  wd' = wd \/ wd' = w1 \/ wd' = [w1 EXCEPT !.moved = @ \/ PhaseEnds]
      BY <3>1, <3>2, Zenon DEF leave, NoBarrier
    <3> QED
      BY <1>9, <3>2, Zenon DEF watchdogLeave, NoBarrier, w1
  <2>2. CASE wd' = wd
    BY <1>2, <2>2
  <2>3. CASE wd' = w1 \/ wd' = [w1 EXCEPT !.moved = @ \/ PhaseEnds]
    <3>1. wd'.at = "relock"
      BY <1>1, <2>3 DEF WatchdogType
    <3> QED
      BY <3>1 DEF RightPid
  <2> QED
    BY <2>1, <2>2, <2>3
<1>10. CASE watchdogNext
  BY <1>1, <1>10, FewFakeLeaves, Zenon DEF watchdogNext
<1>11. CASE watchdogStalled
  <2> DEFINE w == [wd EXCEPT !.stalls = 0, !.th = NoThread, !.cid = 0,
                             !.pid = NoThread, !.pc = NoPc]
  <2>1. wd' = RestOfRound(w)
    BY <1>11, Zenon DEF watchdogStalled
  <2>2. w \in WatchdogType
    BY <1>1, EmptyRecord
  <2>3. w.pid = NoThread
    BY <1>1 DEF WatchdogType
  <2> HIDE DEF w
  <2> QED
    BY <1>4, <2>1, <2>2, <2>3, Zenon
<1>12. CASE watchdogDrive \/ watchdogPhase
  <2>1. \/ wd.at = "recheck" /\ wd' = [wd EXCEPT !.at = "driving", !.th = Head(sched.sleepQueue)]
        \/ wd.at = "recheck" /\ wd' = [wd EXCEPT !.at = "idle", !.moved = FALSE]
        \/ wd' = wd
        \/ wd.at = "driving" /\ wd' = [wd EXCEPT !.at = "idle", !.moved = FALSE, !.th = NoThread]
    BY <1>12, Zenon DEF watchdogDrive, watchdogPhase, WatchdogAt
  <2>2. CASE wd' = wd
    BY <1>2, <2>2
  <2>3. CASE wd' # wd
    <3>1. wd'.at \in {"driving", "idle"} /\ wd'.pid = wd.pid /\ wd.pid = NoThread
      BY <1>1, <2>1, <2>3 DEF WatchdogType, RightPid
    <3> QED
      BY <3>1 DEF RightPid
  <2> QED
    BY <2>2, <2>3
<1> QED
  BY <1>3, <1>6, <1>7, <1>8, <1>9, <1>10, <1>11, <1>12, Zenon DEF Next, WatchdogNext

\* What holds while nothing but the race can stop the program.
SafeInv == Inv /\ FailsOnlyByRace /\ (Cardinality(Gids) <= BatchFloor => RightPid)

\* With one process the watchdog has the right process id, too.
LEMMA PidIsRight ==
    ASSUME Ready, PidsAgree, Cardinality(Gids) <= BatchFloor => RightPid, watchdogLeave
    PROVE  Pid[wd.th] = wd.pid
<1>1. wd.at = "leave"
  BY Zenon DEF watchdogLeave, WatchdogAt
<1>2. wd.th \in Gids /\ \E h \in Gids : wd.pid = Pid[h]
  BY <1>1 DEF Ready, Core, Watched
<1> QED
  BY <1>1, <1>2 DEF PidsAgree, RightPid

\* No assertion or panic of the scheduler or of the barrier fails, unless a thread
\* returned from a system call in the gap in which the watchdog, having undone its
\* fake leave, has released the lock.
THEOREM NoOtherFailure == PidsAgree => (Spec => []FailsOnlyByRace)
<1> SUFFICES ASSUME PidsAgree PROVE Spec => []FailsOnlyByRace
  OBVIOUS
<1>1. Init => SafeInv
  <2>1. Init => FailsOnlyByRace
    <3> SUFFICES ASSUME Init PROVE FailsOnlyByRace
      OBVIOUS
    <3> DEFINE none == ""
    <3>1. sched = [state |-> [g \in Gids |-> "STARTED"],
                   cid |-> [g \in Gids |-> 0],
                   handoffThread |-> [g \in Gids |-> NoThread],
                   futexWord |-> [g \in Gids |-> 0],
                   markedForSleep |-> [g \in Gids |-> FALSE],
                   untilWakeup |-> [g \in Gids |-> 0],
                   mask |-> [g \in Gids |-> Cores],
                   fakeLeave |-> [g \in Gids |-> NoPc],
                   curThread |-> [c \in Cores |-> NoThread],
                   freeList |-> [i \in 1 .. numCores |-> i - 1],
                   runQueue |-> << >>, outQueue |-> << >>, sleepQueue |-> << >>,
                   fakeLeaves |-> << >>, blockingSyscalls |-> {},
                   quantum |-> 0, failed |-> none]
      BY Zenon DEF Init
    <3> HIDE DEF none
    <3>2. sched.failed = none
      BY <3>1
    <3> QED
      BY <3>2, Zenon DEF FailsOnlyByRace, none
  <2>2. Init => RightPid
    <3> SUFFICES ASSUME Init PROVE RightPid
      OBVIOUS
    <3>1. wd = [at |-> "idle", moved |-> FALSE, stalls |-> 0, th |-> NoThread,
                pid |-> NoThread, cid |-> 0, pc |-> NoPc]
      BY Zenon DEF Init
    <3> QED
      BY <3>1 DEF RightPid
  <2> QED
    BY <2>1, <2>2, InitSound, Zenon DEF SafeInv
<1>2. SafeInv /\ [Next]_vars => SafeInv'
  <2> SUFFICES ASSUME SafeInv, [Next]_vars PROVE SafeInv'
    OBVIOUS
  <2>1. Inv'
    BY StepSound, Zenon DEF SafeInv
  <2>2. CASE Next
    <3>1. /\ Ready /\ Working
          /\ Kept \/ Broken \/ (watchdogLeave /\ Pid[wd.th] # wd.pid)
      BY <2>2, Steps, Zenon DEF SafeInv
    <3>2. Kept \/ Broken
      BY <3>1, PidIsRight, Zenon DEF SafeInv
    <3>3. FailsOnlyByRace'
      BY <3>1, <3>2, Zenon DEF Kept, Broken, FailsOnlyByRace, Working
    <3>4. Cardinality(Gids) <= BatchFloor => RightPid'
      BY <2>2, RightPidKept, Zenon DEF SafeInv
    <3> QED
      BY <2>1, <3>3, <3>4, Zenon DEF SafeInv
  <2>3. CASE UNCHANGED vars
    <3>1. sched' = sched /\ wd' = wd /\ raced' = raced
      BY <2>3 DEF vars
    <3>2. RightPid => RightPid'
      BY <3>1 DEF RightPid
    <3>3. FailsOnlyByRace'
      BY <3>1, Zenon DEF SafeInv, FailsOnlyByRace
    <3> QED
      BY <2>1, <3>2, <3>3, Zenon DEF SafeInv
  <2> QED
    BY <2>2, <2>3
<1>3. SafeInv => FailsOnlyByRace
  BY Zenon DEF SafeInv
<1> QED
  BY <1>1, <1>2, <1>3, PTL DEF Spec
=============================================================================
