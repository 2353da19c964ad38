------------------------------- MODULE DDRMem --------------------------------
(***************************************************************************)
(* The single-channel DRAM controller of src/src/ddr_mem.cpp: bounded read *)
(* and write queues with an overflow queue behind them, per-bank lists in  *)
(* FR-FCFS order, row buffers, periodic refreshes, and a scheduling event  *)
(* that is annulled and replaced when an earlier wake-up is needed.        *)
(*                                                                         *)
(* Events run in the order of their system cycles, and the controller      *)
(* keeps memory cycles: both conversions are modelled, with their rounding.*)
(* Rows, banks and ranks are given with a request: mapLineAddr only splits *)
(* the address.                                                            *)
(***************************************************************************)
EXTENDS Integers, Sequences, SequencesExt, FiniteSets, FiniteSetsExt

CONSTANTS
    Confs,              \* configurations: conf, queueDepth, timing (tBL, tCL, tRCD ... of
                        \* initTech, in memory cycles); the requests made, and a bound on them
    sysFreq, memFreq,   \* frequencies
    rowHitLimit,        \* row hits served before others
    ActWindowSize,      \* entries of an ActWindow, 4 in the code
    RankSet, BankSet,
    Gaps,               \* system cycles from one request to the next
    MaxRefreshes        \* bound on the refreshes

\* The controller panics on other frequencies, and initTech and refresh assert
\* the rest.
TimingAssumption ==
    /\ memFreq > 0 /\ 2 * memFreq < sysFreq
    /\ \A c \in Confs :
           /\ \A t \in DOMAIN c.timing : c.timing[t] > 0
           /\ c.timing.tRFC >= c.timing.tRP
           /\ c.queueDepth > 0

VARIABLES
    conf,               \* the configuration
    mc,                 \* the controller
    schedAt,            \* system cycle of the scheduling event, None if idle
    annulled,           \* system cycles of the annulled events
    refreshAt,          \* system cycle of the next refresh
    now,                \* system cycle of the last event
    held,               \* requests whose event is held
    acts,               \* history: the activations
    quiet,              \* history: the refreshes
    failed              \* the assertions that failed

vars == <<conf, mc, schedAt, annulled, refreshAt, now, held, acts, quiet, failed>>

None == -1
Never == 10 ^ 6

T == conf.timing

sysToMemCycle(c) == (c * memFreq) \div sysFreq + 1
memToSysCycle(c) == ((c + 1) * sysFreq) \div memFreq
matchingMemToSysCycle(c) == (((2 * c - 1) * sysFreq) \div memFreq) \div 2

Bank0 == [openRow |-> 0, open |-> FALSE, minPre |-> 0, lastAct |-> 0, lastCmd |-> 0,
          curRowHits |-> 0, rdReqs |-> <<>>, wrReqs |-> <<>>]

\* RequestQueues and bank lists hold request numbers; reqs has the requests.
DDRMemory0 ==
    [minResp |-> T.tCL + T.tBL + 1, lastCmdWasWrite |-> FALSE, nextSched |-> Never,
     rdQueue |-> <<>>, wrQueue |-> <<>>, overflow |-> <<>>, reqs |-> <<>>,
     banks |-> [r \in RankSet |-> [b \in BankSet |-> Bank0]],
     actWindow |-> [r \in RankSet |-> [i \in 1 .. ActWindowSize |-> 0]]]

Init ==
    /\ conf \in Confs
    /\ mc = DDRMemory0
    /\ schedAt = None
    /\ annulled = {}
    /\ refreshAt = 0
    /\ now = 0
    /\ held = {}
    /\ acts = {}
    /\ quiet = {}
    /\ failed = {}

----------------------------------------------------------------------------
(* ActWindow: the last activations of a rank, from the oldest. *)

minActCycle(w) == w[1]

\* Faulty form: an activation that comes before others is not recorded.
addActivation_Latest(w, c) == IF c >= w[Len(w)] THEN Append(Tail(w), c) ELSE w

addActivation(w, c) ==
    LET earlier == SelectSeq(Tail(w), LAMBDA a : a <= c)
        later == SelectSeq(Tail(w), LAMBDA a : a > c)
    IN  earlier \o <<c>> \o later

----------------------------------------------------------------------------
(* The queues. *)

BankOf(m, r) == m.banks[m.reqs[r].rank][m.reqs[r].bank]
InWrList(m, r) == conf.deferredWrites /\ m.reqs[r].write
ListOf(m, r) == IF InWrList(m, r) THEN BankOf(m, r).wrReqs ELSE BankOf(m, r).rdReqs
SetList(m, r, q) ==
    LET rank == m.reqs[r].rank
        bank == m.reqs[r].bank
    IN  IF InWrList(m, r) THEN [m EXCEPT !.banks[rank][bank].wrReqs = q]
        ELSE [m EXCEPT !.banks[rank][bank].rdReqs = q]
FirstInBank(m, r) == Head(ListOf(m, r)) = r

full(m) == Len(m.rdQueue) = conf.queueDepth \/ Len(m.wrQueue) = conf.queueDepth

alloc(m, r) ==
    IF InWrList(m, r) THEN [m EXCEPT !.wrQueue = Append(@, r)]
    ELSE [m EXCEPT !.rdQueue = Append(@, r)]

\* Into the list of its bank in FR-FCFS order: behind the last request of the
\* same row unless that row has had its share; in front when its row is open
\* and nobody waits; else last.
queue(m, r, memCycle) ==
    LET req == m.reqs[r]
        bank == BankOf(m, r)
        q == ListOf(m, r)
        same == {i \in DOMAIN q : m.reqs[q[i]].row = req.row}
        last == m.reqs[q[Max(same)]]
        joins == same # {} /\ last.rowHitSeq < rowHitLimit
        bypass == /\ q = <<>> /\ bank.open /\ req.row = bank.openRow
                  /\ bank.curRowHits < rowHitLimit
        seq == CASE joins -> last.rowHitSeq + 1
                 [] bypass -> bank.curRowHits + 1
                 [] OTHER -> 0
        at == IF joins THEN Max(same) + 1 ELSE Len(q) + 1
    IN  SetList([m EXCEPT !.reqs[r].arrival = memCycle, !.reqs[r].rowHitSeq = seq],
                r, InsertAt(q, at, r))

\* For a request and its bank: does it hit the open row, when may the row be
\* opened (w is the rank's ActWindow), when may the command be issued?
RowHit(req, bank) == bank.open /\ req.row = bank.openRow
PreCycle(req, bank) == IF bank.open THEN Max({req.arrival, bank.minPre}) ELSE bank.minPre
ActCycle(req, bank, w) ==
    Max({req.arrival, PreCycle(req, bank) + T.tRP, bank.lastAct + T.tRRD, minActCycle(w) + T.tFAW})
MinCmdCycle(req, bank, w) ==
    IF RowHit(req, bank) THEN Max({req.arrival, bank.lastCmd + 1}) ELSE ActCycle(req, bank, w) + T.tRCD

findMinCmdCycle(m, r) == MinCmdCycle(m.reqs[r], BankOf(m, r), m.actWindow[m.reqs[r].rank])

----------------------------------------------------------------------------
(* trySchedule.  The first request of the queue looked at that heads its   *)
(* bank's list and is ready, None if there is none.                        *)

Idle(m) == m.rdQueue = <<>> /\ m.wrQueue = <<>>
TooEarly(m, cur) == cur + T.tCL < m.minResp

prioWrites(m) ==
    \/ Len(m.wrQueue) > (3 * conf.queueDepth) \div 4
    \/ m.lastCmdWasWrite /\ Len(m.wrQueue) > conf.queueDepth \div 4

Queue(m) == IF m.rdQueue = <<>> \/ prioWrites(m) THEN m.wrQueue ELSE m.rdQueue
Heads(m) == {r \in Range(Queue(m)) : FirstInBank(m, r)}

FirstOf(q, S) == IF S = {} THEN None ELSE q[Min({i \in DOMAIN q : q[i] \in S})]

Choice(m, cur) ==
    IF Idle(m) \/ TooEarly(m, cur) THEN None
    ELSE FirstOf(Queue(m), {r \in Heads(m) : findMinCmdCycle(m, r) <= cur})

\* The bank after its row is opened at cycle act.
Activated(req, bank, act) ==
    [bank EXCEPT !.open = TRUE, !.openRow = req.row, !.lastAct = act,
                 !.minPre = IF bank.open THEN PreCycle(req, bank) + T.tRAS ELSE @]

Activate(m, r, act) ==
    LET req == m.reqs[r]
    IN  IF act = None THEN m
        ELSE [m EXCEPT !.actWindow[req.rank] = addActivation(@, act),
                       !.banks[req.rank][req.bank] = Activated(req, @, act)]

\* The cycle of the read or write command.
CmdCycle(m, req, act, cur) ==
    Max({cur, m.minResp - T.tCL}
        \cup (IF m.lastCmdWasWrite /\ ~req.write THEN {m.minResp + T.tWTR} ELSE {})
        \cup (IF act = None THEN {} ELSE {act + T.tRCD}))

\* The bank after the command at cycle cmd; more hits of its row may follow.
Accessed(req, bank, cmd, hitNext) ==
    [bank EXCEPT !.open = @ /\ (conf.closedPage => hitNext), !.lastCmd = cmd,
                 !.curRowHits = req.rowHitSeq,
                 !.minPre = Max({@, bank.lastAct + T.tRAS,
                                 IF req.write THEN cmd + T.tCL + T.tBL + T.tWR ELSE cmd + T.tRTP})]

Column(m, r, cmd) ==
    LET req == m.reqs[r]
        q == ListOf(m, r)
        hitNext == Len(q) > 1 /\ m.reqs[q[2]].rowHitSeq # 0
    IN  [m EXCEPT !.minResp = cmd + T.tCL + T.tBL, !.lastCmdWasWrite = req.write,
                  !.banks[req.rank][req.bank] = Accessed(req, @, cmd, hitNext)]

Dequeue(m, r) ==
    SetList([m EXCEPT !.rdQueue = Remove(@, r), !.wrQueue = Remove(@, r)], r, Tail(ListOf(m, r)))

\* The activation that serving r needs, None for a row hit.
ActOf(m, r) ==
    IF r = None THEN None
    ELSE IF RowHit(m.reqs[r], BankOf(m, r)) THEN None
    ELSE ActCycle(m.reqs[r], BankOf(m, r), m.actWindow[m.reqs[r].rank])

\* The controller after r is served with activation act.
Scheduled(m, r, act, cur) ==
    IF r = None THEN m
    ELSE Dequeue(Column(Activate(m, r, act), r, CmdCycle(m, m.reqs[r], act, cur)), r)

\* When trySchedule asks to be called again; after is the controller then.
NextCycle(m, r, cur, after) ==
    CASE Idle(after) -> Never
      [] ~Idle(after) /\ r # None -> after.minResp - T.tCL
      [] ~Idle(after) /\ r = None /\ TooEarly(m, cur) -> m.minResp - T.tCL
      [] OTHER -> Min({findMinCmdCycle(m, h) : h \in Heads(m)} \cup {Never})

----------------------------------------------------------------------------
(* Events. *)

RefreshPending == Cardinality(quiet) < MaxRefreshes

\* Nothing else comes before cycle c.
Soonest(c) ==
    /\ failed = {}
    /\ c >= now
    /\ schedAt # None => c <= schedAt
    /\ \A a \in annulled : c <= a
    /\ RefreshPending => c <= refreshAt

WakeFrom(m, memCycle) == Max({memCycle, m.minResp - T.tCL - T.tBL})

\* When a request that heads its bank's list can first be scheduled.
Wake(m, r, memCycle) ==
    IF m.nextSched > WakeFrom(m, memCycle)
    THEN Max({WakeFrom(m, memCycle), findMinCmdCycle(m, r)}) ELSE WakeFrom(m, memCycle)

NewRequest(row, bank, rank, write, sysCycle) ==
    [row |-> row, bank |-> bank, rank |-> rank, write |-> write, rowHitSeq |-> 0,
     arrival |-> sysToMemCycle(sysCycle)]

\* A new request r, the last of m.reqs; a write is answered as it is queued.
enqueueQueued(m, r, sysCycle) ==
    /\ held' = IF m.reqs[r].write THEN held ELSE held \cup {r}
    /\ \E w \in {Wake(m, r, sysToMemCycle(sysCycle))} :
           IF FirstInBank(m, r) /\ m.nextSched > w
           THEN /\ annulled' = annulled \cup ({schedAt} \ {None})
                /\ schedAt' = Max({matchingMemToSysCycle(w), sysCycle})
                /\ mc' = [m EXCEPT !.nextSched = w]
           ELSE mc' = m /\ UNCHANGED <<annulled, schedAt>>

enqueueOverflow(m, r) ==
    /\ mc' = [m EXCEPT !.overflow = Append(@, r)]
    /\ held' = held \cup {r}
    /\ UNCHANGED <<annulled, schedAt>>

enqueue(req, sysCycle) ==
    LET r == Len(mc.reqs) + 1
        new == [mc EXCEPT !.reqs = Append(@, req)]
    IN  /\ Soonest(sysCycle)
        /\ r <= conf.maxRequests
        /\ IF full(mc) THEN enqueueOverflow(new, r)
           ELSE \E m \in {queue(alloc(new, r), r, sysToMemCycle(sysCycle))} :
                    enqueueQueued(m, r, sysCycle)
        /\ now' = sysCycle
        /\ UNCHANGED <<conf, refreshAt, acts, quiet, failed>>

Failures(memCycle, r, after, next) ==
    (IF memCycle = mc.nextSched THEN {} ELSE {"tick at another cycle than planned"})
    \cup (IF next >= memCycle THEN {} ELSE {"next tick in the past"})
    \cup (IF r # None => BankOf(mc, r).lastCmd < BankOf(after, r).lastCmd THEN {}
          ELSE {"command not after the last one of its bank"})

\* The oldest overflowed request moves to its queue, one per tick.
Refills(m) == ~full(m) /\ m.overflow # <<>>
Refilled(m, memCycle) ==
    IF Refills(m)
    THEN queue(alloc([m EXCEPT !.overflow = Tail(@)], Head(m.overflow)), Head(m.overflow), memCycle)
    ELSE m

\* Faulty form: a request that comes from the overflow queue wakes nobody.
TickAgain_NoRefill(m, after, memCycle, next) == next

\* A refilled request that heads its bank's list can only advance the tick.
TickAgain(m, after, memCycle, next) ==
    IF Refills(m) /\ FirstInBank(after, Head(m.overflow)) THEN Min({next, WakeFrom(after, memCycle)})
    ELSE next

Reschedule(m, next, sysCycle) ==
    /\ mc' = [m EXCEPT !.nextSched = next]
    /\ schedAt' = IF next = Never THEN None ELSE Max({matchingMemToSysCycle(next), sysCycle})

\* A write that leaves the overflow queue is answered.
RefillAnswers(m) == {r \in {Head(m.overflow)} : m.reqs[r].write}

tick ==
    /\ schedAt # None
    /\ Soonest(schedAt)
    /\ \E cur \in {sysToMemCycle(schedAt)} : \E r \in {Choice(mc, cur)} :
       \E act \in {ActOf(mc, r)} : \E m \in {Scheduled(mc, r, act, cur)} :
       \E next \in {NextCycle(mc, r, cur, m)} : \E after \in {Refilled(m, cur)} :
           /\ Reschedule(after, TickAgain(m, after, cur, next), schedAt)
           /\ held' = (held \ {r}) \ (IF Refills(m) THEN RefillAnswers(m) ELSE {})
           /\ acts' = IF act = None THEN acts
                      ELSE acts \cup {[id |-> r, rank |-> mc.reqs[r].rank, bank |-> mc.reqs[r].bank,
                                       at |-> act]}
           /\ failed' = Failures(cur, r, m, next)
    /\ now' = schedAt
    /\ UNCHANGED <<conf, annulled, refreshAt, quiet>>

\* An annulled event only goes back to the free list.
recycleEvent ==
    /\ annulled # {}
    /\ Soonest(Min(annulled))
    /\ annulled' = annulled \ {Min(annulled)}
    /\ now' = Min(annulled)
    /\ UNCHANGED <<conf, mc, schedAt, refreshAt, held, acts, quiet, failed>>

AllBanks == {mc.banks[r][b] : r \in RankSet, b \in BankSet}

\* Faulty form: the refresh does not wait for the commands already issued.
RefreshStart_Now(memCycle) == memCycle

RefreshStart(memCycle) == Max({memCycle} \cup {Max({b.minPre, b.lastCmd}) : b \in AllBanks})

\* A refresh closes all rows and keeps the banks from activating until it is
\* done.
refresh ==
    /\ RefreshPending
    /\ Soonest(refreshAt)
    /\ \E start \in {RefreshStart(sysToMemCycle(refreshAt))} :
           /\ mc' = [mc EXCEPT !.banks = [r \in RankSet |-> [b \in BankSet |->
                        [@[r][b] EXCEPT !.open = FALSE, !.minPre = start + T.tRFC - T.tRP]]]]
           /\ quiet' = quiet \cup {<<start, start + T.tRFC>>}
    /\ now' = refreshAt
    /\ refreshAt' = refreshAt + memToSysCycle(T.tREFI)
    /\ UNCHANGED <<conf, schedAt, annulled, held, acts, failed>>

OwnEvent == tick \/ recycleEvent \/ refresh

Next ==
    \/ \E q \in conf.requests, gap \in Gaps :
           enqueue(NewRequest(q.row, q.bank, q.rank, q.write, now + gap), now + gap)
    \/ OwnEvent

\* An event of the controller is due; and a step that makes no request runs one.
EventDue ==
    \/ schedAt # None /\ Soonest(schedAt)
    \/ annulled # {} /\ Soonest(Min(annulled))
    \/ RefreshPending /\ Soonest(refreshAt)
EventRuns == Len(mc'.reqs) = Len(mc.reqs)

\* The contention simulator runs every queued event: OwnEvent is weakly fair,
\* written without ENABLED.
Fairness == []<>~EventDue \/ []<><<EventRuns>>_vars

Spec == Init /\ [][Next]_vars /\ Fairness

----------------------------------------------------------------------------
(* Properties. *)

\* The assertions of tick and trySchedule hold: the scheduling event runs in
\* the very memory cycle it was planned for, although events run on system
\* cycles and earlier wake-ups replace it.
AssertionsHold == failed = {}

\* A rank never opens more than ActWindowSize rows in tFAW cycles, although
\* its banks' activations are not recorded in the order of their cycles.
ActivationsSpaced ==
    \A a \in acts :
        Cardinality({b \in acts : b.rank = a.rank /\ b.at \in a.at .. a.at + T.tFAW - 1})
            <= ActWindowSize

\* A refresh starts when every open row has been open for tRAS and no row is
\* opened before it ends; two activations of a bank are a row cycle apart.
RowsRespectRefresh ==
    /\ \A a \in acts, q \in quiet : a.at + T.tRAS <= q[1] \/ a.at >= q[2]
    /\ \A a, b \in acts : (a # b /\ a.rank = b.rank /\ a.bank = b.bank /\ a.at <= b.at)
                             => b.at - a.at >= T.tRAS + T.tRP

\* Every request whose event is held is answered, also when it overflowed the
\* queues, whatever is annulled, refreshed or served before it.
RequestsAnswered == <>[](held = {})
=============================================================================
