----------------------------- MODULE TimingCache -----------------------------
(***************************************************************************)
(* The timing cache in the weave phase (timing_cache): hits and misses     *)
(* share one port to the tags and a number of MSHRs.  A miss starts, goes  *)
(* to memory, evicts a line and walks for replacement candidates at the    *)
(* same time, and ends with a writeback that frees its MSHR.               *)
(*                                                                         *)
(* Accesses are recorded beforehand (see EventSim) with chosen cycles and  *)
(* latencies, contention elsewhere included; events run in the order of    *)
(* their cycles.                                                           *)
(***************************************************************************)
EXTENDS Integers, FiniteSets, FiniteSetsExt, Sequences, SequencesExt

CONSTANTS
    NumAccesses,
    Kinds,          \* kinds of access: hit or miss, cycles of the get and of the eviction (0: none)
    Starts,         \* cycles at which accesses may start
    numMSHRs, accLat, tagLat, ways, cands

VARIABLES
    acc,            \* acc[a]: the kind of access a, and what its writeback waits for
    queue,          \* the events that are queued
    held,           \* pendingQueue: the accesses that wait for an MSHR
    port,           \* lastAccCycle and lastFreeCycle
    activeMisses,
    taken           \* history: the cycles at which the port was taken, by whom

vars == <<acc, queue, held, port, activeMisses, taken>>

Accesses == 1 .. NumAccesses
Max2(a, b) == IF a >= b THEN a ELSE b
Min2(a, b) == IF a <= b THEN a ELSE b

Event(a, kind, at, step, left) == [a |-> a, kind |-> kind, at |-> at, step |-> step, left |-> left]

\* The event with which the record of an access begins: that of a hit, or a
\* MissStart.
Recorded(a, cycle) == Event(a, acc[a].kind.type, cycle, 0, 0)

Init ==
    /\ acc \in [Accesses -> [kind : Kinds, parents : {0}, at : {0}, done : {FALSE}]]
    /\ \E s \in [Accesses -> Starts] :
         /\ \A a \in Accesses \ {1} : s[a - 1] <= s[a]
         /\ queue = {Recorded(a, s[a]) : a \in Accesses}
    /\ held = {}
    /\ port = [acc |-> 0, free |-> 0]
    /\ activeMisses = 0
    /\ taken = {}

-----------------------------------------------------------------------------
(* The replacement walk that access records for a miss: groups of lookups   *)
(* that widen, then a read and a write to swap lines.                       *)

RECURSIVE Lookups(_, _)
Lookups(left, fringe) ==
    IF left = 0 THEN <<>>
    ELSE <<[accs |-> Min2(fringe, left), post |-> tagLat - Min2(tagLat - 1, fringe)]>>
         \o Lookups(left - Min2(fringe, left), fringe * (ways - 1))

replLookups == ((cands + ways - 1) \div ways) - 1

Walk ==
    IF cands <= ways THEN <<>>
    ELSE Lookups(replLookups, ways - 1) \o <<[accs |-> 1, post |-> tagLat], [accs |-> 1, post |-> 0]>>

PreDelay(i) == IF i \in {1, Len(Walk) - 1} THEN tagLat ELSE 0

-----------------------------------------------------------------------------
(* The port *)

\* Faulty form: the cycle after the last access is not awaited.
highPrioAccess_Now(cycle) ==
    [at |-> cycle,
     port |-> [acc |-> cycle, free |-> IF port.acc < cycle - 1 THEN cycle - 1 ELSE port.free]]

\* The access is made in the first cycle after the last one; the cycle before
\* it, if free, is remembered.
highPrioAccess(cycle) ==
    LET at == Max2(cycle, port.acc + 1)
    IN  [at |-> at, port |-> [acc |-> at, free |-> IF port.acc < cycle - 1 THEN cycle - 1 ELSE port.free]]

\* Faulty form: the free cycle is taken and remains free.
LowPrio_KeepFree(cycle) == [acc |-> Max2(cycle - 1, port.acc), free |-> port.free]

\* tryLowPrioAccess: granted if the cycle before was free, which it takes.
LowPrioGranted(cycle) == port.acc < cycle - 1 \/ port.free = cycle - 1

LowPrio(cycle) == [acc |-> Max2(cycle - 1, port.acc), free |-> 0]

-----------------------------------------------------------------------------
(* Events *)

Due == {e \in queue : \A f \in queue : e.at <= f.at}

Ends(a) == [acc EXCEPT ![a].done = TRUE]

Full == activeMisses >= numMSHRs

Hold(e) ==
    /\ e \in Due /\ e.kind \in {"hit", "miss"} /\ Full
    /\ queue' = queue \ {e}
    /\ held' = held \cup {e}
    /\ UNCHANGED <<acc, port, activeMisses, taken>>

simulateHit(e) ==
    /\ e \in Due /\ e.kind = "hit" /\ ~Full
    /\ \E h \in {highPrioAccess(e.at)} :
         /\ port' = h.port
         /\ taken' = taken \cup {[at |-> h.at, by |-> <<e.a, "hit">>]}
    /\ queue' = queue \ {e}
    /\ acc' = Ends(e.a)
    /\ UNCHANGED <<held, activeMisses>>

\* The events that follow a MissStart that was done at `cycle`.  The writeback
\* waits for the response, the eviction and the walk.
Followers(a, cycle) ==
    {Event(a, "response", cycle + accLat + acc[a].kind.get, 0, 0)}
    \cup {Event(a, "evicted", cycle + accLat + acc[a].kind.evict, 0, 0) : x \in {y \in {1} : acc[a].kind.evict > 0}}
    \cup {Event(a, "repl", cycle + accLat + PreDelay(1), 1, Walk[1].accs) :
              x \in {y \in {1} : acc[a].kind.evict > 0 /\ Walk # <<>>}}

simulateMissStart(e) ==
    /\ e \in Due /\ e.kind = "miss" /\ ~Full
    /\ \E h \in {highPrioAccess(e.at)} :
         /\ port' = h.port
         /\ taken' = taken \cup {[at |-> h.at, by |-> <<e.a, "miss">>]}
         /\ queue' = (queue \ {e}) \cup Followers(e.a, h.at)
         /\ acc' = [acc EXCEPT ![e.a].parents = Cardinality(Followers(e.a, h.at))]
    /\ activeMisses' = activeMisses + 1
    /\ UNCHANGED held

\* A parent of the writeback is done: the last one queues it.
ParentDone(e) ==
    /\ acc' = [acc EXCEPT ![e.a].parents = @ - 1, ![e.a].at = Max2(@, e.at)]
    /\ queue' = IF acc[e.a].parents > 1 THEN queue \ {e}
                ELSE (queue \ {e}) \cup {Event(e.a, "writeback", Max2(acc[e.a].at, e.at), 0, 0)}

simulateMissResponse(e) ==
    /\ e \in Due /\ e.kind \in {"response", "evicted"}
    /\ ParentDone(e)
    /\ UNCHANGED <<held, port, activeMisses, taken>>

Retry(e) == (queue \ {e}) \cup {[e EXCEPT !.at = @ + 1]}

LowPrioFails(e) ==
    /\ e \in Due /\ e.kind \in {"writeback", "repl"} /\ ~LowPrioGranted(e.at)
    /\ queue' = Retry(e)
    /\ UNCHANGED <<acc, held, port, activeMisses, taken>>

LowPrioTaken(e) ==
    /\ LowPrioGranted(e.at)
    /\ port' = LowPrio(e.at)
    /\ taken' = taken \cup {[at |-> e.at - 1, by |-> <<e.a, e.kind, e.step, e.left>>]}

\* Faulty form: accesses that wait stay where they are.
Wake_None(q, cycle) == [queue |-> q, held |-> held]

Wake(q, cycle) == [queue |-> q \cup {[h EXCEPT !.at = cycle + 1] : h \in held}, held |-> {}]

\* The MSHR is free again, and every access that waits for one tries again.
simulateMissWriteback(e) ==
    /\ e \in Due /\ e.kind = "writeback"
    /\ LowPrioTaken(e)
    /\ activeMisses' = activeMisses - 1
    /\ \E w \in {Wake(queue \ {e}, e.at)} : queue' = w.queue /\ held' = w.held
    /\ acc' = Ends(e.a)

\* One lookup of a group; the last of the group queues the next one.
simulateReplAccess(e) ==
    /\ e \in Due /\ e.kind = "repl"
    /\ LowPrioTaken(e)
    /\ IF e.left > 1 THEN queue' = (queue \ {e}) \cup {[e EXCEPT !.at = @ + 1, !.left = @ - 1]} /\ UNCHANGED acc
       ELSE IF e.step = Len(Walk) THEN ParentDone(e)
       ELSE /\ queue' = (queue \ {e}) \cup {Event(e.a, "repl", e.at + Walk[e.step].post + PreDelay(e.step + 1), e.step + 1,
                                                  Walk[e.step + 1].accs)}
            /\ UNCHANGED acc
    /\ UNCHANGED <<held, activeMisses>>

Simulate(e) ==
    \/ Hold(e) \/ simulateHit(e) \/ simulateMissStart(e) \/ simulateMissResponse(e)
    \/ simulateMissWriteback(e) \/ simulateReplAccess(e) \/ LowPrioFails(e)

Next == \E e \in queue : Simulate(e)

Spec == Init /\ [][Next]_vars

\* The simulation threads run the events of every domain up to the end of the phase.
FairSpec == Spec /\ WF_vars(Next)

-----------------------------------------------------------------------------
(* Properties *)

\* Two accesses never take the port in the same cycle, though those of low
\* priority take a cycle that has passed (highPrioAccess, tryLowPrioAccess).
PortExclusive == \A x, y \in taken : x.at = y.at => x = y

\* An access waits for an MSHR only while all are taken, and the MSHRs taken
\* are those of the misses that have started and not ended.
WaitsOnlyWhenFull ==
    /\ held # {} => activeMisses = numMSHRs
    /\ activeMisses = Cardinality({a \in Accesses : acc[a].kind.type = "miss" /\ ~acc[a].done
                                       /\ ~\E e \in queue \cup held : e.a = a /\ e.kind = "miss"})

\* Every access ends, whatever it has to wait for: the MSHRs, the port and its
\* own replacement walk (simulateMissWriteback).
AccessesEnd == <>(\A a \in Accesses : acc[a].done)

=============================================================================
