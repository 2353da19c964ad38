------------------------------ MODULE MemModels ------------------------------
(***************************************************************************)
(* The queueing-model memory of src/src/mem_ctrls.cpp with its weave-phase *)
(* form (weave_md1_mem.h), and the adapter to the external DRAMSim2        *)
(* (dramsim_mem_ctrl.cpp).                                                 *)
(*                                                                         *)
(* Threads access an MD1Memory concurrently in the bound phase.  The first *)
(* access of a phase updates the latency from the accesses counted since   *)
(* the last update, under updateLock; the count itself is atomic.          *)
(* DRAMSim2 completes transactions in an order of its own.                 *)
(***************************************************************************)
EXTENDS Integers, FiniteSets, FiniteSetsExt

CONSTANTS
    Threads,
    zeroLoadLatency, boundLatency,
    phaseLength,        \* cycles per phase
    MinPhaseCycles,     \* cycles below which no update is made, 10000 in the code
    Capacity,           \* requests served per phaseLength cycles: maxRequestsPerCycle
    MaxPhases,          \* bound on numPhases
    MaxAccesses,        \* bound on the accesses
    Events, Addrs       \* DRAMSim access events and their addresses

\* The assertions of the constructor, and init.cpp's order of the latencies.
LatencyAssumption == 0 < boundLatency /\ boundLatency <= zeroLoadLatency /\ Capacity > 0

VARIABLES
    pc,             \* where each thread is in access
    lock,           \* holder of updateLock, or "free"
    numPhases,      \* zinfo->numPhases
    lastPhase,
    curPhaseAccesses,
    smoothed,       \* smoothedPhaseAccesses, in units of 1 / Unit
    curLatency,
    made,           \* history: accesses counted
    used,           \* history: accesses that an update has used
    failed,         \* an assertion of WeaveMD1Memory::access failed
    inflight,       \* DRAMSimMemory: events that wait, with address and kind
    transactions,   \* external: transactions that DRAMSim2 has yet to complete
    finished        \* events done

vars == <<pc, lock, numPhases, lastPhase, curPhaseAccesses, smoothed, curLatency, made, used,
          failed, inflight, transactions, finished>>
md1 == <<pc, lock, numPhases, lastPhase, curPhaseAccesses, smoothed, curLatency, made, used, failed>>
dram == <<inflight, transactions, finished>>

Unit == 2 ^ MaxPhases

Init ==
    /\ pc = [t \in Threads |-> "idle"]
    /\ lock = "free"
    /\ numPhases = 0
    /\ lastPhase = 0
    /\ curPhaseAccesses = 0
    /\ smoothed = 0
    /\ curLatency = zeroLoadLatency
    /\ made = 0
    /\ used = 0
    /\ failed = FALSE
    /\ inflight = {}
    /\ transactions = {}
    /\ finished = {}

----------------------------------------------------------------------------
(* MD1Memory. *)

Goto(t, l) == pc' = [pc EXCEPT ![t] = l]

\* A new access; without a new phase it is counted at once.
access(t) ==
    /\ pc[t] = "idle"
    /\ made + Cardinality({u \in Threads : pc[u] # "idle"}) < MaxAccesses
    /\ Goto(t, IF numPhases > lastPhase THEN "lock" ELSE "count")
    /\ UNCHANGED <<lock, numPhases, lastPhase, curPhaseAccesses, smoothed, curLatency, made, used, failed>>

\* The latency for a load of n / d: the load is clamped to 95%, and the
\* factor is 1 + load / (2 * (1 - load)).
Latency(n, d) ==
    LET clamped == 100 * n > 95 * d
        a == IF clamped THEN 95 ELSE n
        b == IF clamped THEN 100 ELSE d
    IN  (zeroLoadLatency * (2 * b - a)) \div (2 * (b - a))

PhaseCycles == (numPhases - lastPhase) * phaseLength

\* Faulty form: the count is not reset.
updateLatency_NoReset ==
    IF PhaseCycles < MinPhaseCycles
    THEN UNCHANGED <<lastPhase, curPhaseAccesses, smoothed, curLatency, used>>
    ELSE LET s == (curPhaseAccesses * Unit + smoothed) \div 2
         IN  /\ smoothed' = s
             /\ curLatency' = Latency(s * phaseLength, Unit * PhaseCycles * Capacity)
             /\ used' = used + curPhaseAccesses
             /\ curPhaseAccesses' = curPhaseAccesses
             /\ lastPhase' = numPhases

updateLatency ==
    IF PhaseCycles < MinPhaseCycles
    THEN UNCHANGED <<lastPhase, curPhaseAccesses, smoothed, curLatency, used>>
    ELSE LET s == (curPhaseAccesses * Unit + smoothed) \div 2
         IN  /\ smoothed' = s
             /\ curLatency' = Latency(s * phaseLength, Unit * PhaseCycles * Capacity)
             /\ used' = used + curPhaseAccesses
             /\ curPhaseAccesses' = 0
             /\ lastPhase' = numPhases

takeLock(t) ==
    /\ pc[t] = "lock"
    /\ lock = "free"
    /\ lock' = t
    /\ Goto(t, "update")
    /\ UNCHANGED <<numPhases, lastPhase, curPhaseAccesses, smoothed, curLatency, made, used, failed>>

updateLocked(t) ==
    /\ pc[t] = "update"
    /\ IF numPhases > lastPhase THEN updateLatency
       ELSE UNCHANGED <<lastPhase, curPhaseAccesses, smoothed, curLatency, used>>
    /\ lock' = "free"
    /\ Goto(t, "count")
    /\ UNCHANGED <<numPhases, made, failed>>

\* The assertions that WeaveMD1Memory makes of the latency of an access.
WeaveFails == curLatency < boundLatency \/ curLatency < zeroLoadLatency

\* A get or a dirty writeback is counted; a clean writeback (PUTS) is not an
\* access.  WeaveMD1Memory then compares the latency with its bounds.
count(t, clean) ==
    /\ pc[t] = "count"
    /\ IF clean THEN UNCHANGED <<curPhaseAccesses, made, failed>>
       ELSE /\ curPhaseAccesses' = curPhaseAccesses + 1
            /\ made' = made + 1
            /\ failed' = (failed \/ WeaveFails)
    /\ Goto(t, "idle")
    /\ UNCHANGED <<lock, numPhases, lastPhase, smoothed, curLatency, used>>

\* A phase ends when no thread is in an access.
EndPhase ==
    /\ numPhases < MaxPhases
    /\ \A t \in Threads : pc[t] = "idle"
    /\ numPhases' = numPhases + 1
    /\ UNCHANGED <<pc, lock, lastPhase, curPhaseAccesses, smoothed, curLatency, made, used, failed>>

----------------------------------------------------------------------------
(* DRAMSimMemory.  An event is held until a transaction of its address     *)
(* completes; which event of that address is taken is up to the multimap.  *)

enqueue(e, addr, write) ==
    /\ \A x \in inflight : x.ev # e
    /\ e \notin finished
    /\ inflight' = inflight \cup {[ev |-> e, addr |-> addr, write |-> write]}
    /\ transactions' = transactions \cup {[id |-> e, addr |-> addr]}
    /\ UNCHANGED finished

\* Faulty form: all events of the address are released.
Found_All(addr) == {{x \in inflight : x.addr = addr}}

Found(addr) == {{x} : x \in {y \in inflight : y.addr = addr}}

DRAM_read_return_cb(tr) ==
    \E S \in Found(tr.addr) :
        /\ inflight' = inflight \ S
        /\ finished' = finished \cup {x.ev : x \in S}
        /\ transactions' = transactions \ {tr}

----------------------------------------------------------------------------

Next ==
    \/ /\ \/ \E t \in Threads : access(t) \/ takeLock(t) \/ updateLocked(t)
          \/ \E t \in Threads, clean \in BOOLEAN : count(t, clean)
          \/ EndPhase
       /\ UNCHANGED dram
    \/ /\ \/ \E e \in Events, a \in Addrs, w \in BOOLEAN : enqueue(e, a, w)
          \/ \E tr \in transactions : DRAM_read_return_cb(tr)
       /\ UNCHANGED md1

Spec == Init /\ [][Next]_vars

\* Every access is used by exactly one update of the latency or waits for the
\* next one, however many threads find a new phase at once; and the latency
\* stays between the unloaded one and what a load of 95% gives, as
\* WeaveMD1Memory asserts.
AccessesUsedOnce ==
    /\ used + curPhaseAccesses = made
    /\ 2 * curLatency \in 2 * zeroLoadLatency .. 21 * zeroLoadLatency
    /\ ~failed

\* DRAMSimMemory finds an event for every transaction that completes, also
\* when several events of one address wait: as many events as transactions
\* of an address are open.
CallbacksMatch ==
    \A a \in Addrs : Cardinality({x \in inflight : x.addr = a})
                         = Cardinality({tr \in transactions : tr.addr = a})
=============================================================================
