------------------------------ MODULE OOOCore --------------------------------
(***************************************************************************)
(* The out-of-order core model (ooo_core): the issue window, the reorder   *)
(* buffer and the load, store and uop queues, and the simulation of a      *)
(* basic block, which runs when the next one starts, with the addresses    *)
(* that the block has left meanwhile.  Threads take the core from one      *)
(* another between blocks or within them.                                  *)
(*                                                                         *)
(* The record c is the core; a stage of the pipeline is a function on such *)
(* records.  Cache latencies, and whether a branch is predicted (see       *)
(* BranchPredictor), are chosen.  The recorder is module OOORecorder: here *)
(* it moves the clock.                                                     *)
(***************************************************************************)
EXTENDS Integers, FiniteSets, FiniteSetsExt, Sequences, SequencesExt

CONSTANTS
    Bbls,           \* Bbls[b]: the uops of block b: type, rs, rd, lat, ports, extra slots, decode cycle, predicated
    Addrs,
    H,              \* cycles in each half of the window
    WSZ,            \* uops in the window
    QueueSize,      \* entries in each other queue
    Width,          \* uops issued, and retired, in a cycle (ISSUES_PER_CYCLE)
    RFReads,        \* RF_READS_PER_CYCLE
    FrontEnd,       \* cycles from issue to dispatch, and from fetch to decode
    Lats,           \* latencies of accesses to data,
    FetchLats,      \* and to instructions
    Jumps,          \* cycles by which the recorder may move the clock
    MaxSteps        \* bound on the blocks, the switches and the moves of the clock

VARIABLES c, thread, count

vars == <<c, thread, count>>

NoBbl == 0
NoAddr == -1        \* a predicated access that is not made
Max2(a, b) == IF a >= b THEN a ELSE b

Free == [units |-> {}, count |-> 0]
Empty == [p \in 0 .. H - 1 |-> Free]
EmptyQueue == [buf |-> [i \in 0 .. QueueSize - 1 |-> 0], idx |-> 0, cycle |-> 0, n |-> 1]
Regs == UNION {{u.rs[1], u.rs[2], u.rd[1], u.rd[2]} : u \in UNION {Range(Bbls[b]) : b \in DOMAIN Bbls}} \cup {0}

\* `booked` is history: the units that uops were given, by cycle.  `disp`, `issue`
\* and `commit` are those of the uop in the pipeline.
Init ==
    /\ c = [cycle |-> 0, decode |-> FrontEnd, win |-> Empty, next |-> Empty, pos |-> 0, ub |-> <<>>, occ |-> 0, port |-> 0,
            issued |-> 0, reads |-> 0, reg |-> [r \in Regs |-> 0], rob |-> EmptyQueue, lq |-> EmptyQueue,
            sq |-> EmptyQueue, uq |-> EmptyQueue, stored |-> 0, storeAddr |-> 0,
            fwd |-> [addr |-> NoAddr, cycle |-> 0], prev |-> NoBbl, loads |-> <<>>, stores |-> <<>>,
            disp |-> 0, issue |-> 0, commit |-> 0, prevDec |-> 0, booked |-> {}, failed |-> FALSE, predStore |-> FALSE]
    /\ thread = [pc |-> "bbl", at |-> NoBbl]
    /\ count = 0

Check(d, ok) == [d EXCEPT !.failed = @ \/ ~ok]

-----------------------------------------------------------------------------
(* WindowStructure *)

\* Faulty form: the entries that move into the window stay in the map, and move
\* again.
Rebase_Keep(d) ==
    [d EXCEPT !.win = d.next, !.pos = 0,
              !.next = [p \in 0 .. H - 1 |-> IF d.cycle + H + p \in DOMAIN d.ub THEN d.ub[d.cycle + H + p] ELSE d.win[p]]]

\* The halves change places, and what the map holds for the new one moves into it.
Rebase(d) ==
    LET due == {k \in DOMAIN d.ub : k < d.cycle + 2 * H}
    IN  Check([d EXCEPT !.win = d.next, !.pos = 0,
                        !.next = [p \in 0 .. H - 1 |-> IF d.cycle + H + p \in due THEN d.ub[d.cycle + H + p] ELSE d.win[p]],
                        !.ub = [k \in DOMAIN d.ub \ due |-> d.ub[k]]],
              \A k \in due : k >= d.cycle + H)

\* Faulty form: the cycle left behind keeps its units.
advancePos_KeepUnits(d) ==
    LET e == [d EXCEPT !.occ = @ - d.win[d.pos].count, !.pos = @ + 1, !.cycle = @ + 1]
    IN  IF e.pos < H THEN e ELSE Rebase(e)

advancePos(d) ==
    LET e == [d EXCEPT !.occ = @ - d.win[d.pos].count, !.win[d.pos] = Free, !.pos = @ + 1, !.cycle = @ + 1]
    IN  IF e.pos < H THEN e ELSE Rebase(e)

RECURSIVE advanceTo(_, _)
advanceTo(d, cycle) == IF d.cycle >= cycle THEN d ELSE advanceTo(advancePos(d), cycle)

RECURSIVE MakeRoom(_)
MakeRoom(d) == IF d.occ = WSZ THEN MakeRoom(advancePos(d)) ELSE d

RECURSIVE Drain(_, _)
Drain(d, target) == IF d.occ > 0 /\ d.cycle < target THEN Drain(advancePos(d), target) ELSE d

\* With nothing in flight the clock jumps, and leaves the window where it is.
longAdvance(d, target) == [Drain(d, target) EXCEPT !.cycle = target]

Cell(d, cycle) ==
    LET p == d.pos + cycle - d.cycle
    IN  CASE p < H -> d.win[p]
          [] p \in H .. 2 * H - 1 -> d.next[p - H]
          [] OTHER -> IF cycle \in DOMAIN d.ub THEN d.ub[cycle] ELSE Free

SetCell(d, cycle, cell) ==
    LET p == d.pos + cycle - d.cycle
    IN  CASE p < H -> [d EXCEPT !.win[p] = cell]
          [] p \in H .. 2 * H - 1 -> [d EXCEPT !.next[p - H] = cell]
          [] OTHER -> [d EXCEPT !.ub = [k \in DOMAIN d.ub \cup {cycle} |-> IF k = cycle THEN cell ELSE d.ub[k]]]

\* The first cycle, from `from` on, at which one of the ports is free.
Slot(d, from, ports) ==
    Min({s \in from .. from + 2 * H + Cardinality(DOMAIN d.ub) : ~(ports \subseteq Cell(d, s).units)})

\* A uop takes the lowest free port; an extra slot takes the port of its uop, and
\* does not count.
Take(d, cycle, ports) ==
    LET cell == Cell(d, cycle)
        port == Min(ports \ cell.units)
    IN  [SetCell(d, cycle, [units |-> cell.units \cup {port}, count |-> cell.count + 1])
            EXCEPT !.port = port, !.occ = @ + 1, !.disp = cycle,
                   !.booked = @ \cup {[cycle |-> cycle, port |-> port, uop |-> Cardinality(@)]}]

TakeExtra(d, cycle) ==
    LET cell == Cell(d, cycle) IN SetCell(d, cycle, [cell EXCEPT !.units = @ \cup {d.port}])

RECURSIVE TakeExtras(_, _, _)
TakeExtras(d, from, n) ==
    IF n = 0 THEN d
    ELSE LET s == Slot(d, from, {d.port}) IN TakeExtras(TakeExtra(d, s), s + 1, n - 1)

ScheduleOne(d, ports) == Take(d, Slot(d, Max2(d.disp, d.cycle), ports), ports)

ScheduleExtras(d, extra) == Check(TakeExtras(d, d.disp + 1, extra), d.occ <= WSZ)

schedule(d, u) == ScheduleExtras(ScheduleOne(MakeRoom(d), u.ports), u.extra)

-----------------------------------------------------------------------------
(* ReorderBuffer and CycleQueue *)

minAllocCycle(q) == q.buf[q.idx]

markLeave(q, cycle) == [q EXCEPT !.buf[q.idx] = cycle, !.idx = (@ + 1) % QueueSize]

markRetire(q, min) ==
    LET r == CASE min > q.cycle -> [q EXCEPT !.cycle = min, !.n = 1]
               [] min <= q.cycle /\ q.n = Width -> [q EXCEPT !.cycle = @ + 1, !.n = 0]
               [] OTHER -> [q EXCEPT !.n = @ + 1]
    IN  markLeave(r, r.cycle)

-----------------------------------------------------------------------------
(* The stages of a uop *)

NewCycle(d) == [d EXCEPT !.issued = 0, !.reads = 0]

\* The cycle of decode, at which a slot of the uop queue must be free.
DecodeCycle(d, u) == [d EXCEPT !.decode = Max2(@ + u.dec - d.prevDec, minAllocCycle(d.uq)), !.prevDec = u.dec]

DecodeStall(d) == IF d.decode > d.cycle THEN advanceTo(NewCycle(d), d.decode) ELSE d

IssueWidth(d) == IF d.issued >= Width THEN advancePos(NewCycle(d)) ELSE d

Issue(d) == [d EXCEPT !.uq = markLeave(@, d.cycle)]

CountIssue(d) == [d EXCEPT !.issued = @ + 1, !.reg[0] = d.cycle]

\* Sources that were ready before this cycle are read from the register file.
Reads(d, u) == [d EXCEPT !.reads = @ + Cardinality({i \in {1, 2} : d.reg[u.rs[i]] < d.cycle}),
                         !.disp = Max2(d.reg[u.rs[1]], d.reg[u.rs[2]])]

ReadStall(d) ==
    IF d.reads > RFReads THEN advancePos([d EXCEPT !.reads = @ - RFReads, !.issued = 0]) ELSE d

Dispatch(d) ==
    [d EXCEPT !.disp = Max2(@, Max2(minAllocCycle(d.rob), d.cycle) + FrontEnd), !.issue = d.cycle]

Scheduled(d) == IF d.cycle > d.issue THEN NewCycle(d) ELSE d

Load(d, lat) ==
    LET disp == Max2(Max2(d.disp, minAllocCycle(d.lq)), d.storeAddr + 1)
        addr == IF d.loads = <<>> THEN NoAddr ELSE Head(d.loads)
        done == IF addr = NoAddr THEN disp ELSE disp + lat
        commit == IF d.fwd.addr = addr THEN Max2(done, d.fwd.cycle) ELSE done
    IN  Check([d EXCEPT !.commit = commit, !.lq = markRetire(@, commit), !.loads = IF @ = <<>> THEN @ ELSE Tail(@)],
              d.loads # <<>>)

Store(d, lat) ==
    LET commit == Max2(Max2(d.disp, minAllocCycle(d.sq)), d.storeAddr + 1) + lat
        addr == IF d.stores = <<>> THEN NoAddr ELSE Head(d.stores)
    IN  Check([d EXCEPT !.commit = commit, !.sq = markRetire(@, commit), !.stored = Max2(@, commit),
                        !.fwd = [addr |-> addr, cycle |-> commit], !.stores = IF @ = <<>> THEN @ ELSE Tail(@)],
              d.stores # <<>>)

Compute(d, u) == [d EXCEPT !.commit = d.disp + u.lat]

StoreAddress(d, u) == [d EXCEPT !.commit = d.disp + u.lat, !.storeAddr = Max2(@, d.disp + u.lat)]

\* Later loads wait for the stores before the fence.
Fence(d, u) ==
    [d EXCEPT !.commit = d.disp + u.lat, !.storeAddr = Max2(d.disp + u.lat, Max2(@, d.stored + u.lat))]

Execute(d, u, lat) ==
    CASE u.type = "LOAD" -> Load(d, lat)
      [] u.type = "STORE" -> Store(d, lat)
      [] u.type = "STORE_ADDR" -> StoreAddress(d, u)
      [] u.type = "FENCE" -> Fence(d, u)
      [] OTHER -> Compute(d, u)

Retire(d, u) == [d EXCEPT !.rob = markRetire(@, d.commit), !.reg[u.rd[1]] = d.commit, !.reg[u.rd[2]] = d.commit]

SimulateUop(d, u, lat) ==
    Retire(Execute(Scheduled(schedule(Dispatch(ReadStall(Reads(CountIssue(IssueWidth(Issue(
        DecodeStall(DecodeCycle(d, u))))), u))), u)), u, lat), u)

-----------------------------------------------------------------------------
(* bbl *)

\* The first block of a thread on this core: what was left by others is dropped.
FirstBbl(d, b) == [d EXCEPT !.prev = b, !.loads = <<>>, !.stores = <<>>]

BackEnd(d, lat) ==
    LET e == FoldLeft(LAMBDA f, u : SimulateUop(f, u, lat), [d EXCEPT !.prevDec = 0], Bbls[d.prev])
    IN  [Check(e, e.loads = <<>> /\ e.stores = <<>>) EXCEPT !.loads = <<>>, !.stores = <<>>]

\* Fetch of the next block: from the cycle at which a mispredicted branch
\* commits.  Wrong-path fetches cost nothing here but records.
FrontEndOf(d, b, mispredicted, fetchLat) ==
    LET fetch == (IF mispredicted THEN d.commit ELSE d.decode - FrontEnd) + fetchLat
    IN  [d EXCEPT !.decode = Max2(@ + 1, fetch + FrontEnd), !.prev = b]

bbl(d, b, lat, mispredicted, fetchLat) == FrontEndOf(BackEnd(d, lat), b, mispredicted, fetchLat)

\* Values that no later step reads.
Settled(d) ==
    [d EXCEPT !.disp = 0, !.issue = 0, !.commit = 0, !.prevDec = 0, !.port = 0]

-----------------------------------------------------------------------------
(* What threads and the scheduler do *)

Going == ~c.failed /\ ~c.predStore

\* BblFunc, where the block before has made its accesses.
BblFunc ==
    /\ Going /\ thread.pc = "bbl" /\ count < MaxSteps
    /\ \E b \in DOMAIN Bbls :
         /\ IF c.prev = NoBbl THEN c' = FirstBbl(c, b)
            ELSE \E lat \in Lats, mispredicted \in BOOLEAN, fetchLat \in FetchLats :
                    c' = Settled(bbl(c, b, lat, mispredicted, fetchLat))
         /\ thread' = [pc |-> "ops", at |-> b]
    /\ count' = count + 1

OpsOf(b, type) == SelectSeq(Bbls[b], LAMBDA u : u.type = type)
AddrsOf(ops) == {s \in [DOMAIN ops -> Addrs \cup {NoAddr}] : \A i \in DOMAIN ops : s[i] = NoAddr => ops[i].pred}

\* The accesses of a block: load, store and predFalseMemOp, which takes any
\* access that is not made for a load.
Ops ==
    /\ Going /\ thread.pc = "ops"
    /\ \E ld \in AddrsOf(OpsOf(thread.at, "LOAD")), st \in AddrsOf(OpsOf(thread.at, "STORE")) :
         c' = [c EXCEPT !.loads = @ \o ld \o SelectSeq(st, LAMBDA a : a = NoAddr),
                        !.stores = @ \o SelectSeq(st, LAMBDA a : a # NoAddr),
                        !.predStore = \E i \in DOMAIN st : st[i] = NoAddr]
    /\ thread' = [thread EXCEPT !.pc = "bbl"]
    /\ UNCHANGED count

\* Faulty form: the core remembers the block of the thread that left.
contextSwitch_Keep(d) == d

contextSwitch(d) == [d EXCEPT !.prev = NoBbl]

\* A thread that is in the middle of a block, or at its end, takes the core.
Switch ==
    /\ Going /\ count < MaxSteps
    /\ \E b \in DOMAIN Bbls, pc \in {"ops", "bbl"} : thread' = [pc |-> pc, at |-> b]
    /\ c' = contextSwitch(c)
    /\ count' = count + 1

\* advance: the recorder moves the clock of the core.
Advance ==
    /\ Going /\ count < MaxSteps
    /\ \E j \in Jumps :
         c' = [NewCycle(longAdvance(c, c.cycle + j)) EXCEPT !.decode = @ + j]
    /\ count' = count + 1
    /\ UNCHANGED thread

Next == BblFunc \/ Ops \/ Switch \/ Advance

Spec == Init /\ [][Next]_vars

-----------------------------------------------------------------------------
(* Properties *)

\* No functional unit starts two uops in one cycle, and the occupancy counts the
\* uops that are still to start: over rebases, jumps of the clock, and the map of
\* uops that start beyond the window.
UnitsExclusive ==
    /\ \A x, y \in c.booked : x.cycle = y.cycle /\ x.port = y.port => x = y
    /\ c.occ = Cardinality({x \in c.booked : x.cycle >= c.cycle})
    /\ \A k \in DOMAIN c.ub : k >= c.cycle + 2 * H - c.pos

\* The block that is simulated finds exactly the addresses of its own loads and
\* stores, whichever threads had the core before (the assertions at the end of
\* bbl), unless a predicated store was not made.
MemOpsMatch == ~c.failed

=============================================================================
