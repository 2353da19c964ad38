------------------------------ MODULE ProcStats ------------------------------
(***************************************************************************)
(* Whose instructions were those?  Cores count instructions; two tables    *)
(* turn the counts of cores into counts of processes while the scheduler   *)
(* hands cores from one process to another: ProcessStats                   *)
(* (src/src/process_stats.cpp), which eventual dumps and instruction-based *)
(* fast-forwarding trust, and ProcStats (proc_stats.cpp), which keeps      *)
(* every filtered counter of the cores per process.                        *)
(*                                                                         *)
(* The scheduler's lock orders all of it: threads are scheduled and        *)
(* descheduled under it, and the tables are read at the end of a phase, by *)
(* the events of the queue and by dumps, before numPhases moves on.  One   *)
(* counter per core stands for all of a core's.                            *)
(***************************************************************************)
EXTENDS Integers, FiniteSets, FiniteSetsExt, Functions

CONSTANTS
    Cores,
    NumProcs,       \* processes, in the order in which the tree is read
    Groupings,      \* sets of processes configured groupWithPrevious
    MaxRuns,        \* bound on steps of the programs
    MaxPhases       \* bound on phases

VARIABLES
    grouped,        \* the processes that are grouped with the previous one
    running,        \* the process of each core's thread, or NoProc
    instrs,         \* the counter of each core
    process,        \* ProcessStats: processInstrs, lastCoreInstrs and lastUpdatePhase
    stats,          \* ProcStats: procStats, lastBuf and lastUpdatePhase
    numPhases,
    answer,         \* history: what the last end of phase read, and what it should have
    own,            \* history: the instructions of each process
    missed          \* history: counts left to whoever is on the core next

vars == <<grouped, running, instrs, process, stats, numPhases, answer, own, missed>>

Procs == 0 .. NumProcs - 1
NoProc == -1
Unclaimed == NumProcs       \* the last entry of the table, lineSize - 1

\* PopulateLevel steps the index of the group back for such a process.
getGroupIdx(p) == p - Cardinality({q \in grouped : q <= p})

getScheduledPid(c) == running[c]

Init ==
    /\ grouped \in Groupings
    /\ running = [c \in Cores |-> NoProc]
    /\ instrs = [c \in Cores |-> 0]
    /\ process = [count |-> [p \in Procs |-> 0], last |-> [c \in Cores |-> 0], phase |-> 0]
    /\ stats = [count |-> [p \in Procs \cup {Unclaimed} |-> 0], last |-> [c \in Cores |-> 0], phase |-> 0]
    /\ numPhases = 0 /\ answer = {}
    /\ own = [p \in Procs |-> 0]
    /\ missed = FALSE

----------------------------------------------------------------------------
(* ProcessStats. *)

updateCore_KeepLast(t, c, p) ==
    [t EXCEPT !.count[getGroupIdx(p)] = @ + instrs[c] - t.last[c]]

\* What core c has counted since last time is p's.
updateCore(t, c, p) ==
    [t EXCEPT !.count[getGroupIdx(p)] = @ + instrs[c] - t.last[c], !.last[c] = instrs[c]]

updateProcesses_NotAgain ==
    IF process.phase > 0 THEN process
    ELSE [FoldSet(LAMBDA c, t : updateCore(t, c, running[c]), process, {c \in Cores : getScheduledPid(c) # NoProc})
            EXCEPT !.phase = numPhases]

\* Every core that runs something, once a phase.
updateProcesses ==
    IF process.phase = numPhases THEN process
    ELSE [FoldSet(LAMBDA c, t : updateCore(t, c, running[c]), process, {c \in Cores : getScheduledPid(c) # NoProc})
            EXCEPT !.phase = numPhases]

----------------------------------------------------------------------------
(* ProcStats. *)

Claimant(c) == IF getScheduledPid(c) = NoProc THEN Unclaimed ELSE getGroupIdx(running[c])

Since(c) == instrs[c] - stats.last[c]

updateStats_Often ==
    [count |-> FoldSet(LAMBDA c, t : [t EXCEPT ![Claimant(c)] = @ + Since(c)], stats.count, Cores),
     last |-> stats.last, phase |-> numPhases]

\* All cores at once, and only once a phase: DumpWalk, then IncWalk with the
\* differences.
updateStats ==
    IF stats.phase = numPhases THEN stats
    ELSE [count |-> FoldSet(LAMBDA c, t : [t EXCEPT ![Claimant(c)] = @ + Since(c)], stats.count, Cores),
          last |-> instrs, phase |-> numPhases]

----------------------------------------------------------------------------
(* The scheduler and the programs. *)

Run(c) ==
    /\ running[c] # NoProc
    /\ SumFunction(own) < MaxRuns
    /\ instrs' = [instrs EXCEPT ![c] = @ + 1]
    /\ own' = [own EXCEPT ![running[c]] = @ + 1]
    /\ UNCHANGED <<grouped, running, process, stats, numPhases, answer, missed>>

schedule(c, p) ==
    /\ running[c] = NoProc
    /\ running' = [running EXCEPT ![c] = p]
    /\ UNCHANGED <<grouped, instrs, process, stats, numPhases, answer, own, missed>>

\* ProcStats is told while the thread is on the core, ProcessStats afterwards.
deschedule(c) ==
    /\ running[c] # NoProc
    /\ stats' = updateStats
    /\ missed' = (missed \/ instrs[c] # stats'.last[c])
    /\ running' = [running EXCEPT ![c] = NoProc]
    /\ process' = updateCore(process, c, running[c])
    /\ UNCHANGED <<grouped, instrs, numPhases, answer, own>>

\* The end of a phase, at which events may ask for the instructions of a
\* process and a dump for all counters.
EndOfPhase(asks, dumps) ==
    /\ numPhases < MaxPhases
    /\ process' = IF asks \/ dumps THEN updateProcesses ELSE process
    /\ stats' = IF dumps THEN updateStats ELSE stats
    /\ answer' = IF asks THEN {[read |-> process'.count, due |-> own, phase |-> numPhases]} ELSE {}
    /\ numPhases' = numPhases + 1
    /\ UNCHANGED <<grouped, running, instrs, own, missed>>

Next ==
    \/ \E c \in Cores : Run(c) \/ deschedule(c) \/ \E p \in Procs : schedule(c, p)
    \/ \E asks, dumps \in BOOLEAN : EndOfPhase(asks, dumps)

Spec == Init /\ [][Next]_vars

----------------------------------------------------------------------------
(* Properties *)

OfGroup(g) == SumFunctionOnSet(own, {p \in Procs : getGroupIdx(p) = g})
Pending(t, S) == MapThenSumSet(LAMBDA c : instrs[c] - t.last[c], S)
On(g) == {c \in Cores : running[c] # NoProc /\ getGroupIdx(running[c]) = g}

\* However cores change hands, what ProcessStats holds for a group and what
\* its cores have not reported yet are exactly its instructions, and no idle
\* core has anything left to report.
ProcessesExact ==
    /\ \A g \in Procs : process.count[g] + Pending(process, On(g)) = OfGroup(g)
    /\ \A c \in Cores : running[c] = NoProc => instrs[c] = process.last[c]

\* What an event reads at the end of a phase is the count of its process up
\* to then.  Not so at the end of phase 0, whose number the table starts
\* with, nor once a process is grouped: events ask by the process's index and
\* the table is by group.
AnswersExact == \A x \in answer : x.phase > 0 /\ grouped = {} => x.read = x.due

\* ProcStats loses no count; every count is its process's as long as no core
\* was given up with counts that update() did not look at, because an earlier
\* deschedule or dump of the phase had updated already.
StatsExact ==
    /\ SumFunction(stats.count) + Pending(stats, Cores) = SumFunction(own)
    /\ ~missed => \A g \in Procs : stats.count[g] + Pending(stats, On(g)) = OfGroup(g)
=============================================================================
