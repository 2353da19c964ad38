------------------------------- MODULE Clocks -------------------------------
(***************************************************************************)
(* The clocks that simulated programs read (virt/time.cpp, FakeRDTSCPost   *)
(* in zsim.cpp) on the cores without contention model (simple_core.cpp,    *)
(* null_core.cpp).  A clock shows an offset that its clock domain keeps    *)
(* plus the simulated time; a process that leaves fast-forward sets the    *)
(* offset so that the clocks go on from real time.  Two processes of one   *)
(* thread each share a domain.                                             *)
(*                                                                         *)
(* One unit of real time is one cycle: the conversions between cycles and  *)
(* nanoseconds, which only round, are left out.                            *)
(***************************************************************************)
EXTENDS Integers, FiniteSets, Sequences
LOCAL INSTANCE FiniteSetsExt

CONSTANTS
    Procs, Cores,
    Confs,       \* configurations: the core model, who reads which clock, ...; maxCycle bounds simulated time
    PhaseLength, \* cycles of a phase
    Steps        \* cycles a basic block can take

ClocksAssumption == PhaseLength \in Nat \ {0} /\ Steps \subseteq Nat \ {0} /\ Cardinality(Cores) >= Cardinality(Procs)

VARIABLES
    conf,
    glob,       \* globPhaseCycles
    real,       \* the host's clock
    offset,     \* realtimeOffsetNs and the like: they are set together
    inFF,
    loc,        \* the thread: "ff", "out" (of the scheduler), "sim", "barrier"
    cid,        \* the core of the thread
    cur, end,   \* curCycle, phaseEndCycle of a core
    call,       \* a system call that reads the clock: "none", "patch", "skip"
    switches,
    reads,      \* history: what the reader has read; nothing more happens after its second read
    moved,      \* history: the reader changed cores since then
    ahead,      \* history: simulated time was ahead of real time
    back        \* history: "no", or what explains that it saw time go back
vars == <<conf, glob, real, offset, inFF, loc, cid, cur, end, call, switches, reads, moved, ahead, back>>

NoCore == "none"

\* The host's clock has run before the simulation starts.
Start == 10

Init ==
    /\ conf \in Confs
    /\ glob = 0 /\ real = Start /\ offset = real - glob              \* VirtCaptureClocks(false)
    /\ inFF = [p \in Procs |-> p \in conf.startFF]
    /\ loc = [p \in Procs |-> IF p \in conf.startFF THEN "ff" ELSE "out"]
    /\ cid = [p \in Procs |-> NoCore]
    /\ cur = [c \in Cores |-> 0] /\ end = [c \in Cores |-> 0]
    /\ call = [p \in Procs |-> "none"]
    /\ switches = conf.switches
    /\ reads = <<>> /\ moved = FALSE /\ ahead = FALSE /\ back = "no"

hist == <<reads, moved, ahead, back>>

(***************************************************************************)
(* Cores.                                                                  *)
(***************************************************************************)
\* The faulty form lets a core go on where it left off.
JoinCycle_Keep(c) == cur[c]

JoinCycle(c) == Max({cur[c], glob})

\* The scheduler gives the thread an idle core.
join(p, c) ==
    /\ loc[p] = "out" /\ ~inFF[p] /\ call[p] = "none" /\ \A q \in Procs : cid[q] # c
    /\ loc' = [loc EXCEPT ![p] = "sim"] /\ cid' = [cid EXCEPT ![p] = c]
    /\ cur' = [cur EXCEPT ![c] = JoinCycle(c)]
    /\ end' = [end EXCEPT ![c] = glob + PhaseLength]
    /\ moved' = (moved \/ p = conf.reader)
    /\ UNCHANGED <<conf, glob, real, offset, inFF, call, switches, reads, ahead, back>>

leave(p) ==
    /\ loc[p] = "sim"
    /\ loc' = [loc EXCEPT ![p] = IF inFF[p] THEN "ff" ELSE "out"] /\ cid' = [cid EXCEPT ![p] = NoCore]
    /\ UNCHANGED <<conf, glob, real, offset, inFF, cur, end, call, switches, hist>>

\* BblFunc: a block and its memory accesses; past the end of the phase the
\* thread takes the barrier.  The host needs at least a cycle for a cycle.
BblFunc(p, n) ==
    /\ loc[p] = "sim" /\ cur[cid[p]] + n <= conf.maxCycle
    /\ cur' = [cur EXCEPT ![cid[p]] = @ + n]
    /\ real' = real + n
    /\ IF cur[cid[p]] + n > end[cid[p]]
       THEN loc' = [loc EXCEPT ![p] = "barrier"] /\ end' = [end EXCEPT ![cid[p]] = @ + PhaseLength]
       ELSE UNCHANGED <<loc, end>>
    /\ UNCHANGED <<conf, glob, offset, inFF, cid, call, switches, hist>>

getPhaseCycles(c) == IF conf.core = "null" THEN cur[c] - glob ELSE cur[c] % PhaseLength

(***************************************************************************)
(* The end of a phase.  The threads that wait go on, or wait once more, or *)
(* leave for fast-forward.  Phases without a thread (the program sleeps)   *)
(* can be shorter than the time they stand for, where conf.idle says so.   *)
(***************************************************************************)
Waiting == {p \in Procs : loc[p] = "barrier"}

EndOfPhase ==
    /\ \A p \in Procs : loc[p] # "sim"
    /\ glob + PhaseLength <= conf.maxCycle
    /\ Waiting = {} => conf.idle
    /\ glob' = glob + PhaseLength
    /\ loc' = [p \in Procs |-> IF p \notin Waiting THEN loc[p]
                               ELSE IF inFF[p] THEN "ff"
                               ELSE IF cur[cid[p]] > end[cid[p]] THEN "barrier" ELSE "sim"]
    /\ end' = [c \in Cores |-> IF \E p \in Waiting : cid[p] = c /\ loc'[p] = "barrier" THEN end[c] + PhaseLength ELSE end[c]]
    /\ cid' = [p \in Procs |-> IF loc'[p] = "ff" THEN NoCore ELSE cid[p]]
    /\ ahead' = (ahead \/ offset + glob' > real)
    /\ UNCHANGED <<conf, real, offset, inFF, cur, call, switches, reads, moved, back>>

(***************************************************************************)
(* Fast-forward.  A thread notices at the next block or barrier.           *)
(***************************************************************************)
EnterFastForward(p) ==
    /\ ~inFF[p] /\ switches > 0 /\ loc[p] # "ff"
    /\ switches' = switches - 1
    /\ inFF' = [inFF EXCEPT ![p] = TRUE]
    /\ loc' = [loc EXCEPT ![p] = IF @ = "out" THEN "ff" ELSE @]
    /\ UNCHANGED <<conf, glob, real, offset, cid, cur, end, call, hist>>


VirtCaptureClocks == offset' = real - glob

ExitFastForward(p) ==
    /\ inFF[p] /\ switches > 0 /\ loc[p] = "ff" /\ call[p] = "none"
    /\ switches' = switches - 1
    /\ VirtCaptureClocks
    /\ inFF' = [inFF EXCEPT ![p] = FALSE]
    /\ loc' = [loc EXCEPT ![p] = "out"]
    /\ UNCHANGED <<conf, glob, real, cid, cur, end, call, hist>>

\* The program runs natively.
RunFF(p) ==
    /\ loc[p] = "ff" /\ real <= offset + glob + 1
    /\ real' = real + 1
    /\ UNCHANGED <<conf, glob, offset, inFF, loc, cid, cur, end, call, switches, hist>>

(***************************************************************************)
(* Reading.  A call is patched or not as its entry decides; a thread that  *)
(* is simulated leaves its core for the time of the call.                  *)
(***************************************************************************)
Reads(p, clock) == p = conf.reader /\ clock = conf.clock

Saw(v, why) ==
    /\ reads' = Append(reads, v)
    /\ back' = IF reads # <<>> /\ v < reads[1] THEN why ELSE back

SkipTimeVirt(p) == loc[p] = "ff" \/ inFF[p]

ClockEnter(p) ==
    /\ Reads(p, "clock") /\ loc[p] \in {"sim", "ff"} /\ call[p] = "none"
    /\ call' = [call EXCEPT ![p] = IF SkipTimeVirt(p) THEN "skip" ELSE "patch"]
    /\ IF loc[p] = "sim" THEN loc' = [loc EXCEPT ![p] = IF inFF[p] THEN "ff" ELSE "out"] /\ cid' = [cid EXCEPT ![p] = NoCore]
       ELSE UNCHANGED <<loc, cid>>
    /\ UNCHANGED <<conf, glob, real, offset, inFF, cur, end, switches, hist>>

\* VirtGettimeofday, VirtTime, VirtClockGettime.
ClockExit(p) ==
    /\ call[p] # "none"
    /\ call' = [call EXCEPT ![p] = "none"]
    /\ Saw(IF call[p] = "patch" THEN offset + glob ELSE real, IF ahead THEN "ahead" ELSE "none")
    /\ UNCHANGED <<conf, glob, real, offset, inFF, loc, cid, cur, end, switches, moved, ahead>>

\* FakeRDTSCPost.
FakeRDTSCPost(p) ==
    /\ Reads(p, "tsc") /\ loc[p] \in {"sim", "ff", "out"} /\ call[p] = "none"
    /\ LET c == cid[p] IN
       Saw(IF loc[p] = "ff" THEN real ELSE offset + glob + (IF c = NoCore THEN 0 ELSE getPhaseCycles(c)),
           IF ahead THEN "ahead"
           ELSE IF moved \/ c = NoCore THEN "moved"
           ELSE IF conf.core = "simple" /\ cur[c] >= glob + PhaseLength THEN "wrapped"
           ELSE "none")
    /\ moved' = (cid[p] = NoCore /\ loc[p] # "ff")
    /\ UNCHANGED <<conf, glob, real, offset, inFF, loc, cid, cur, end, call, switches, ahead>>

Next ==
    /\ Len(reads) < 2
    /\ \/ EndOfPhase
       \/ \E p \in Procs :
           \/ leave(p) \/ EnterFastForward(p) \/ ExitFastForward(p) \/ RunFF(p)
           \/ ClockEnter(p) \/ ClockExit(p) \/ FakeRDTSCPost(p)
           \/ \E c \in Cores : join(p, c)
           \/ \E n \in Steps : BblFunc(p, n)

Spec == Init /\ [][Next]_vars

(***************************************************************************)
(* Properties.                                                             *)
(***************************************************************************)
\* A core that simulates stands in the current phase (the assertion on
\* phaseEndCycle in BblFunc), and one that waits is past it.
PhasesAligned ==
    \A p \in Procs :
        /\ loc[p] = "sim" => end[cid[p]] = glob + PhaseLength /\ cur[cid[p]] >= glob
        /\ loc[p] = "barrier" => end[cid[p]] = glob + 2 * PhaseLength /\ cur[cid[p]] > glob + PhaseLength

\* No program sees a clock go back, whoever fast-forwards, unless simulated
\* time had run ahead of real time.  The TSC goes
\* back in two more cases: the thread changed cores, whose cycles differ
\* within a phase; or a SimpleCore stands exactly at the end of its phase or
\* past it, where curCycle % phaseLength starts again from 0.
TimeGoesOn == back # "none"
=============================================================================
