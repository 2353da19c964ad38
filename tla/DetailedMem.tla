---------------------------- MODULE DetailedMem ------------------------------
(***************************************************************************)
(* The DRAM controller of src/src/detailed_mem.cpp: channels of ranks of   *)
(* banks with their row buffers, refreshes and power-down, a log of the    *)
(* bursts on each data bus, and the optional scheduler that buffers writes *)
(* and holds reads.  Accesses reach the controller as events of the weave  *)
(* phase, in the order of their cycles.                                    *)
(*                                                                         *)
(* An access runs in one step, as the events of a domain do.  Counters     *)
(* that only feed statistics are left out.  updateStats and finish, and    *)
(* with them all of the power estimation, have no caller in the simulator, *)
(* so that lastPhaseCycle stays 0.                                         *)
(***************************************************************************)
EXTENDS Integers, Sequences, SequencesExt, FiniteSets, FiniteSetsExt

CONSTANTS
    Params,         \* the configurations (MemParam) to start from
    Lines,          \* line addresses accessed
    AllLines,       \* line addresses mapped
    Gaps,           \* cycles from one access to the next
    MaxAccesses,    \* bound on the accesses
    MaxTick,        \* bound on the cycles ticked: more than all accesses need,
    MaxIdle         \* and with nothing to do

READ == 0
WRITE == 1

\* tFAWCycle has bankCount entries and is indexed modulo 4; with a scheduler
\* queue of one entry both watermarks are 0 and reads are never chosen.
ParamsAssumption ==
    \A p \in Params : p.bankCount >= 4 /\ p.schedulerQueueCount # 1

VARIABLES
    mParam,         \* the configuration
    chnls,          \* per channel: its ranks and its accessLog
    sches,          \* per channel: the scheduler's queues
    now,            \* cycle of the last event
    nextTick,       \* cycle of the next tick
    accesses,       \* accesses so far, as event numbers
    held,           \* read events that wait in a scheduler
    bursts,         \* history: the bursts on the buses
    overflowed,     \* history: a scheduler has warned of an overflow
    failed          \* the assertions that failed

vars == <<mParam, chnls, sches, now, nextTick, accesses, held, bursts, overflowed, failed>>

----------------------------------------------------------------------------
(* Parameters and the address map. *)

GetDataLatency(type) == IF type = READ THEN mParam.tCAS ELSE mParam.tCWD
GetDataDelay(type) == GetDataLatency(type) + mParam.tTrans \div 4
GetPreDelay(type) ==
    IF type = READ THEN mParam.tRTP ELSE mParam.tCWD + mParam.tTrans + mParam.tWR
GetRefreshCycle == IF mParam.open THEN mParam.tRFC + mParam.tRPab ELSE mParam.tRFC
GetRdWrDelay(type, lastType) ==
    CASE type = lastType -> Max({mParam.tTrans, mParam.tCCD})
      [] type = WRITE /\ lastType = READ -> mParam.tCAS + mParam.tCCD \div 2 + 2 - mParam.tCWD
      [] OTHER -> mParam.tCWD + mParam.tTrans + mParam.tWTR

sysToMemCycle(c) == (c * mParam.memFreq) \div mParam.sysFreq
memToSysCycle(c) == (c * mParam.sysFreq) \div mParam.memFreq

Scheduled == mParam.schedulerQueueCount # 0
minLatency(type) ==
    memToSysCycle(IF Scheduled THEN 1 ELSE GetDataLatency(type)) + mParam.controllerLatency
preDelay(type) == minLatency(type) \div 2
nextSysTick == Max({1, memToSysCycle(1)})

Channels == 0 .. mParam.channelCount - 1
Ranks == 0 .. mParam.rankCount - 1
Banks == 0 .. mParam.bankCount - 1

\* The fields of an address above colLow, from the lowest, for an interleaveType.
Layout(t) ==
    CASE t = 0 -> <<"chnl", "rank", "bank", "colHigh">>
      [] t = 1 -> <<"chnl", "bank", "rank", "colHigh">>
      [] t = 2 -> <<"chnl", "rank", "colHigh", "bank">>
      [] t = 3 -> <<"chnl", "bank", "colHigh", "rank">>
      [] t = 4 -> <<"chnl", "colHigh", "rank", "bank">>
      [] t = 5 -> <<"chnl", "colHigh", "bank", "rank">>
      [] t = 6 -> <<"colHigh", "chnl", "bank", "rank">>
      [] t = 7 -> <<"colHigh", "bank", "chnl", "rank">>
      [] t = 8 -> <<"colHigh", "bank", "rank", "chnl">>

colLowSize == 2 ^ mParam.colLowWidth
colHighSize == 2 ^ (mParam.colAddrWidth - mParam.colLowWidth)
FieldSize(f) ==
    CASE f = "chnl" -> mParam.channelCount
      [] f = "rank" -> mParam.rankCount
      [] f = "bank" -> mParam.bankCount
      [] f = "colHigh" -> colHighSize

AddressMap(addr) ==
    LET layout == Layout(mParam.interleaveType)
        Size(n) == FieldSize(layout[n])
        below == <<colLowSize, colLowSize * Size(1), colLowSize * Size(1) * Size(2),
                   colLowSize * Size(1) * Size(2) * Size(3)>>
        Field(f) == LET i == CHOOSE k \in 1 .. 4 : layout[k] = f
                    IN  (addr \div below[i]) % FieldSize(f)
    IN  [chnl |-> Field("chnl"), rank |-> Field("rank"), bank |-> Field("bank"),
         col |-> Field("colHigh") * colLowSize + (addr % colLowSize),
         row |-> addr \div (below[4] * Size(4))]

\* Faulty form: the bank bits are not shifted out for interleaveType 7.
ReturnChannel_NoBank(addr) ==
    LET line == addr \div colLowSize
        t == mParam.interleaveType
    IN  (CASE t <= 5 -> line
           [] t \in {6, 7} -> line \div colHighSize
           [] t = 8 -> line \div (colHighSize * mParam.bankCount * mParam.rankCount))
        % mParam.channelCount

ReturnChannel(addr) ==
    LET line == addr \div colLowSize
        t == mParam.interleaveType
    IN  (CASE t <= 5 -> line
           [] t = 6 -> line \div colHighSize
           [] t = 7 -> line \div (colHighSize * mParam.bankCount)
           [] t = 8 -> line \div (colHighSize * mParam.bankCount * mParam.rankCount))
        % mParam.channelCount

----------------------------------------------------------------------------
(* Ranks: refresh and power-down. *)

MemRankBase ==
    LET zero == [b \in Banks |-> 0] IN
    [open |-> [b \in Banks |-> FALSE], lastRow |-> zero, lastType |-> zero,
     lastAct |-> zero, lastRdWr |-> zero, lastPre |-> zero,
     tFAWCycle |-> [i \in 0 .. 3 |-> 0], tFAWIndex |-> 0, lastBank |-> 0,
     lastAccess |-> 0, lastRefresh |-> 0, accessInRefresh |-> 0,
     idlePd |-> 0, actvPd |-> 0, idleSb |-> 0]

GetActiveBankCount(r) == Cardinality({b \in Banks : r.open[b]})

UpdateRefreshNum(r, arrival) ==
    IF arrival >= r.lastRefresh THEN (arrival - r.lastRefresh) \div mParam.tREFI ELSE 0

UpdateLastRefreshCycle(r, n) ==
    IF n = 0 THEN r
    ELSE [r EXCEPT !.lastRefresh = @ + mParam.tREFI * n, !.open = [b \in Banks |-> FALSE]]

GetPowerDownPenalty(r, arrival) ==
    IF mParam.powerDownCycle # 0 /\ arrival > r.lastAccess + mParam.powerDownCycle
    THEN mParam.tXP ELSE 0

\* The background cycles that UpdatePowerDownCycle adds: power-down with the
\* banks idle, power-down with banks active, standby with the banks idle.
PowerDownAdds(r, arrival, n) ==
    LET pdc == mParam.powerDownCycle
        down == r.lastAccess + pdc
        banks == mParam.bankCount
        actv == GetActiveBankCount(r)
        idle == banks - actv
        long == arrival - down
        sinceRefresh == arrival - (r.lastRefresh + mParam.tREFI * n)
        untilRefresh == Max({0, r.lastRefresh + mParam.tREFI - down})
    IN  CASE r.lastAccess = 0 -> <<arrival, 0, 0>>
          [] r.lastAccess # 0 /\ arrival <= r.lastAccess -> <<0, 0, 0>>
          [] r.lastAccess # 0 /\ arrival > r.lastAccess /\ arrival <= down ->
                <<0, 0, IF mParam.open THEN (idle * (arrival - r.lastAccess)) \div banks
                        ELSE arrival - r.lastAccess>>
          [] r.lastAccess # 0 /\ arrival > down /\ ~mParam.open -> <<long, 0, pdc>>
          [] r.lastAccess # 0 /\ arrival > down /\ mParam.open /\ n = 0 ->
                <<(idle * long) \div banks, (actv * long) \div banks, (idle * pdc) \div banks>>
          [] OTHER ->
                <<(idle * untilRefresh + (n - 1) * mParam.tREFI + sinceRefresh) \div banks,
                  (actv * untilRefresh) \div banks, (idle * pdc) \div banks>>

UpdatePowerDownCycle(r, arrival, n) ==
    IF mParam.powerDownCycle = 0 THEN r
    ELSE LET add == PowerDownAdds(r, arrival, n)
         IN  [r EXCEPT !.idlePd = @ + add[1], !.actvPd = @ + add[2], !.idleSb = @ + add[3]]

IsRowBufferHit(r, row, bank) == r.open[bank] /\ r.lastRow[bank] = row

CheckContinuousAccess(r, arrival, bank, row) ==
    mParam.mergeContinuous /\ arrival < r.lastPre[bank] /\ r.lastRow[bank] = row

----------------------------------------------------------------------------
(* When commands may be issued. *)

\* The last access of the rank ended in the refresh that comes before this one.
EndsInRefresh(r) ==
    /\ r.lastRefresh # 0
    /\ r.lastAccess \in r.lastRefresh .. r.lastRefresh + GetRefreshCycle

AccessInRefresh(r, n) ==
    IF EndsInRefresh(r) THEN (IF n = 0 THEN 0 ELSE r.accessInRefresh) + 1 ELSE 0

CalcIntraIssueCycle(r, rowHit, type, arrival, n) ==
    LET delay == GetRdWrDelay(type, r.lastType[r.lastBank])
        last == r.lastRdWr[r.lastBank]
    IN  IF EndsInRefresh(r)
        THEN Max({r.lastAccess + GetRefreshCycle, arrival})
                 + (IF AccessInRefresh(r, n) >= 2 THEN delay ELSE 0)
        ELSE IF last # 0 THEN Max({last + (IF rowHit THEN delay ELSE 1), arrival})
        ELSE arrival

\* Faulty form: the search ends at the first burst that does not clash.
CalcInterIssueCycle_FirstFit(log, type, from) ==
    LET at == from + GetDataLatency(type)
        Busy(b) == b[1] <= at /\ at < b[2] + mParam.tRTRS
        clash == {b \in Range(log) : Busy(b)}
    IN  IF clash = {} THEN from
        ELSE (CHOOSE b \in clash : TRUE)[2] + mParam.tRTRS - GetDataLatency(type)

\* The log is sorted; an occupied slot moves the burst behind it, and the
\* search ends at the first burst that starts after this one.
CalcInterIssueCycle(log, type, from) ==
    LET tSlot == mParam.tTrans + mParam.tRTRS
        Clash(t, b) == LET busEnd == b[2] + mParam.tRTRS IN
            \/ b[1] < t + tSlot /\ t + tSlot <= busEnd
            \/ b[1] <= t /\ t < busEnd
        Step(s, b) ==
            CASE s.done -> s
              [] ~s.done /\ Clash(s.start, b) -> [s EXCEPT !.start = b[2] + mParam.tRTRS]
              [] OTHER -> [s EXCEPT !.done = b[1] > s.start + tSlot]
        found == FoldLeft(Step, [start |-> from + GetDataLatency(type), done |-> FALSE], log)
    IN  found.start - GetDataLatency(type)

CalcActConst(r, bank, from) ==
    IF r.lastAct[bank] = 0 THEN from
    ELSE Max({from, r.lastAct[bank] + mParam.tRC,
              Max({r.lastAct[b] : b \in Banks}) + mParam.tRRD,
              r.tFAWCycle[r.tFAWIndex] + mParam.tFAW}
             \cup (IF r.lastPre[bank] # 0 THEN {r.lastPre[bank] + mParam.tRP} ELSE {}))

CalcPreConst(r, bank, type, from) ==
    Max({from, r.lastRdWr[bank] + GetPreDelay(type), r.lastAct[bank] + mParam.tRAS})

CalcRdWrConst(r, type, from) ==
    Max({from, r.lastRdWr[r.lastBank] + GetRdWrDelay(type, r.lastType[r.lastBank])})

IssueActivate(r, bank, c) ==
    [r EXCEPT !.tFAWCycle[r.tFAWIndex] = c, !.tFAWIndex = (@ + 1) % 4,
              !.lastAct[bank] = c, !.open[bank] = TRUE]

IssuePrecharge(r, bank, c) == [r EXCEPT !.lastPre[bank] = c, !.open[bank] = FALSE]

RankAccess(r, accessCycle, issued, row, bank, type) ==
    [r EXCEPT !.lastAccess = Max({@, accessCycle}), !.lastRdWr[bank] = issued,
              !.lastRow[bank] = row, !.lastType[bank] = type, !.lastBank = bank]

\* The oldest burst is forgotten: everything up to the end of the next counts
\* as occupied.
UpdateDataBusCycle(log, b) ==
    LET new == SortSeq(Append(log, b), LAMBDA x, y : x[1] < y[1] \/ (x[1] = y[1] /\ x[2] < y[2]))
    IN  IF Len(new) <= mParam.accessLogDepth THEN new
        ELSE [Tail(new) EXCEPT ![1] = <<0, new[2][2]>>]

----------------------------------------------------------------------------
(* MemChannelBase::LatencySimulate, in its four parts.  Each takes and      *)
(* returns the access: its coordinates m, arrival cycle and type, the rank  *)
(* r and bus log, what is known of its commands, and the failed assertions. *)

Check(x, name, holds) == IF holds THEN x ELSE [x EXCEPT !.failed = @ \cup {name}]

\* The refreshes and the power-down since the last access.
RefreshPart(x) ==
    LET n == UpdateRefreshNum(x.r, x.arrival)
        awake == UpdatePowerDownCycle(x.r, x.arrival, n)
    IN  Check([x EXCEPT !.n = n, !.pd = GetPowerDownPenalty(x.r, x.arrival),
                        !.r = UpdateLastRefreshCycle(awake, n)],
              "power-down cycles exceed the arrival cycle",
              mParam.powerDownCycle = 0 \/ x.arrival >= awake.idlePd + awake.actvPd + awake.idleSb)

\* Whether the access finds its row open or merges with the one before, and
\* the earliest cycle for its first command.
RowPart(x) ==
    LET hit == IsRowBufferHit(x.r, x.m.row, x.m.bank)
        continuous == ~mParam.open /\ CheckContinuousAccess(x.r, x.arrival, x.m.bank, x.m.row)
        y == [x EXCEPT !.hit = hit, !.continuous = continuous]
    IN  Check(IF continuous THEN y
              ELSE [y EXCEPT !.from = CalcIntraIssueCycle(x.r, hit, x.type, x.arrival, x.n),
                             !.r.accessInRefresh = AccessInRefresh(x.r, x.n)],
              "row hit under the closed policy", mParam.open \/ ~hit)

\* The open row of the bank is closed when it is another one.
PrechargePart(x) ==
    LET pre == CalcPreConst(x.r, x.m.bank, x.r.lastType[x.m.bank], x.from)
    IN  IF mParam.open /\ ~x.hit /\ x.r.open[x.m.bank]
        THEN Check([x EXCEPT !.r = IssuePrecharge(x.r, x.m.bank, pre), !.from = pre + mParam.tRP],
                   "precharge before an earlier one", pre >= x.r.lastPre[x.m.bank])
        ELSE x

ActivatePart(x) ==
    LET act == CalcActConst(x.r, x.m.bank, x.from)
    IN  IF x.continuous THEN [x EXCEPT !.from = CalcRdWrConst(x.r, x.type, x.arrival)]
        ELSE IF x.hit THEN x
        ELSE Check([x EXCEPT !.r = IssueActivate(x.r, x.m.bank, act),
                             !.from = CalcRdWrConst(x.r, x.type, act + mParam.tRCD)],
                   "activate before an earlier one",
                   act >= x.r.lastAct[x.m.bank] /\ act >= x.r.tFAWCycle[x.r.tFAWIndex])

\* The read or write command, its burst, and the precharge of the closed policy.
ColumnPart(x) ==
    LET issue == CalcInterIssueCycle(x.log, x.type, x.from)
        end == issue + GetDataDelay(x.type) + x.pd + mParam.tTrans - mParam.tTrans \div 4
    IN  Check([x EXCEPT !.r = RankAccess(x.r, end, issue, x.m.row, x.m.bank, x.type),
                        !.log = UpdateDataBusCycle(x.log, <<end - mParam.tTrans, end>>),
                        !.from = issue, !.end = end],
              "command not after the last one of its bank", x.r.lastRdWr[x.m.bank] < issue)

ClosePart(x) ==
    LET pre == CalcPreConst(x.r, x.m.bank, x.type, x.from)
    IN  IF mParam.open THEN x
        ELSE Check([x EXCEPT !.r = IssuePrecharge(x.r, x.m.bank, pre)],
                   "precharge before an earlier one", pre >= x.r.lastPre[x.m.bank])

ChannelLatency(ch, addr, arrival, type) ==
    LET m == AddressMap(addr)
    IN  ClosePart(ColumnPart(ActivatePart(PrechargePart(RowPart(RefreshPart(
            [m |-> m, r |-> ch.ranks[m.rank], log |-> ch.log, arrival |-> arrival, type |-> type,
             n |-> 0, pd |-> 0, hit |-> FALSE, continuous |-> FALSE, from |-> 0, end |-> 0,
             failed |-> {}]))))))

----------------------------------------------------------------------------
(* The scheduler. *)

highWatermark == (mParam.schedulerQueueCount * 2) \div 3
lowWatermark == mParam.schedulerQueueCount \div 3

MemSchedulerDefault == [prio |-> READ, rd |-> <<>>, wr |-> <<>>, done |-> <<>>]

\* Faulty form: a rewritten line stays in the done queue as well.
CheckSetEvent_KeepDone(s, ev, addr, type) ==
    CASE addr \in Range(s.wr) ->
            IF type = WRITE THEN [s EXCEPT !.wr = Append(Remove(@, addr), addr)] ELSE s
      [] addr \notin Range(s.wr) /\ addr \in Range(s.done) ->
            IF type = WRITE THEN [s EXCEPT !.wr = Append(@, addr)] ELSE s
      [] OTHER ->
            IF type = READ THEN [s EXCEPT !.rd = Append(@, [ev |-> ev, addr |-> addr])]
            ELSE [s EXCEPT !.wr = Append(@, addr)]

SchedHit(s, addr) == addr \in Range(s.wr) \cup Range(s.done)

\* A write at its arrival fills the queues exactly.
Overflows(s, addr, type) ==
    /\ type = WRITE
    /\ ~SchedHit(s, addr)
    /\ Len(s.wr) + 1 + Len(s.done) = mParam.schedulerQueueCount

CheckSetEvent(s, ev, addr, type) ==
    CASE addr \in Range(s.wr) ->
            IF type = WRITE THEN [s EXCEPT !.wr = Append(Remove(@, addr), addr)] ELSE s
      [] addr \notin Range(s.wr) /\ addr \in Range(s.done) ->
            IF type = READ THEN [s EXCEPT !.done = Append(Remove(@, addr), addr)]
            ELSE [s EXCEPT !.done = Remove(@, addr), !.wr = Append(@, addr)]
      [] OTHER ->
            IF type = READ THEN [s EXCEPT !.rd = Append(@, [ev |-> ev, addr |-> addr])]
            ELSE [s EXCEPT !.wr = Append(@, addr),
                           !.done = IF Overflows(s, addr, type) /\ @ # <<>> THEN Tail(@) ELSE @]

\* The index of the request to serve: the oldest row buffer hit, else the oldest.
FindBestRequest(ch, addrs) ==
    LET Hits == {i \in DOMAIN addrs : LET m == AddressMap(addrs[i])
                                      IN  IsRowBufferHit(ch.ranks[m.rank], m.row, m.bank)}
    IN  IF Hits = {} THEN 1 ELSE Min(Hits)

\* Faulty form: the low watermark is not looked at, so that writes keep their
\* priority once they had it.
Priority_NoLow(s) == IF Len(s.wr) >= highWatermark THEN WRITE ELSE s.prio

Priority(s) ==
    CASE Len(s.wr) >= highWatermark -> WRITE
      [] Len(s.wr) < highWatermark /\ Len(s.wr) <= lowWatermark -> READ
      [] OTHER -> s.prio

\* What GetEvent chooses: the event (-1 for a write), the address, the
\* scheduler after it.  Nothing is chosen when ok is FALSE.
GetEvent(ch, s) ==
    LET prio == Priority(s)
        r == FindBestRequest(ch, [i \in DOMAIN s.rd |-> s.rd[i].addr])
        w == FindBestRequest(ch, s.wr)
    IN  CASE prio = READ /\ s.rd # <<>> ->
                [ok |-> TRUE, ev |-> s.rd[r].ev, addr |-> s.rd[r].addr, type |-> READ,
                 sch |-> [s EXCEPT !.prio = prio, !.rd = RemoveAt(@, r)]]
          [] ~(prio = READ /\ s.rd # <<>>) /\ s.wr # <<>> ->
                [ok |-> TRUE, ev |-> -1, addr |-> s.wr[w], type |-> WRITE,
                 sch |-> [s EXCEPT !.prio = prio, !.wr = RemoveAt(@, w), !.done = Append(@, s.wr[w])]]
          [] OTHER -> [ok |-> FALSE, sch |-> [s EXCEPT !.prio = prio]]

----------------------------------------------------------------------------
(* The controller. *)

Init ==
    /\ mParam \in Params
    /\ chnls = [c \in Channels |-> [ranks |-> [r \in Ranks |-> MemRankBase], log |-> <<>>]]
    /\ sches = [c \in Channels |-> MemSchedulerDefault]
    /\ now = 0
    /\ nextTick = 0
    /\ accesses = 0
    /\ held = {}
    /\ bursts = {}
    /\ overflowed = FALSE
    /\ failed = {}

\* MemControllerBase::LatencySimulate: the access as the channel sees it, and
\* the latency from its arrival to its first data.
LatencySimulate(c, addr, sysCycle, type) ==
    LET x == ChannelLatency(chnls[c], addr, sysToMemCycle(sysCycle), type)
    IN  Check(x, "latency below the minimum",
              memToSysCycle(x.end - mParam.tTrans + mParam.tTrans \div 4 - x.arrival)
                  >= memToSysCycle(GetDataLatency(type)))

\* The channel after access x, and the burst of x.
After(ch, x) == [ranks |-> [ch.ranks EXCEPT ![x.m.rank] = x.r], log |-> x.log]
BurstOf(c, x) == [id |-> Cardinality(bursts), chnl |-> c, start |-> x.end - mParam.tTrans,
                  end |-> x.end, woken |-> x.pd # 0]

\* An access without a scheduler.  Its arrival depends on its type, so that
\* arrivals may go back in time.
enqueue(addr, type, cycle) ==
    /\ ~Scheduled
    /\ LET c == ReturnChannel(addr)
       IN  \E x \in {LatencySimulate(c, addr, cycle - preDelay(type) + mParam.controllerLatency, type)} :
               /\ chnls' = [chnls EXCEPT ![c] = After(@, x)]
               /\ bursts' = bursts \cup {BurstOf(c, x)}
               /\ failed' = x.failed
    /\ UNCHANGED <<sches, held, overflowed>>

\* An access with a scheduler: a read that misses the write queues is held.
enqueueScheduled(addr, type, cycle) ==
    LET c == ReturnChannel(addr)
        s == sches[c]
    IN  /\ Scheduled
        /\ cycle <= nextTick
        /\ sches' = [sches EXCEPT ![c] = CheckSetEvent(s, accesses, addr, type)]
        /\ held' = IF type = READ /\ ~SchedHit(s, addr) THEN held \cup {accesses} ELSE held
        /\ overflowed' = (overflowed \/ (Overflows(s, addr, type) /\ s.done = <<>>))
        /\ UNCHANGED <<chnls, bursts, failed>>

Access(addr, type, gap) ==
    /\ failed = {}
    /\ accesses < MaxAccesses
    /\ LET cycle == Max({now, preDelay(type)}) + gap
       IN  /\ enqueue(addr, type, cycle) \/ enqueueScheduled(addr, type, cycle)
           /\ now' = cycle
    /\ accesses' = accesses + 1
    /\ UNCHANGED <<mParam, nextTick>>

Busy == \E c \in Channels : sches[c].rd # <<>> \/ sches[c].wr # <<>>

\* The access of channel c that a tick serves.
Serve(c, got) == LatencySimulate(c, got.addr, nextTick, got.type)

\* TickScheduler: every channel serves one request.
tick ==
    /\ Scheduled
    /\ failed = {}
    /\ nextTick < IF Busy THEN MaxTick ELSE MaxIdle
    /\ \E got \in {[c \in Channels |-> GetEvent(chnls[c], sches[c])]} :
       \E x \in {[c \in {d \in Channels : got[d].ok} |-> Serve(c, got[c])]} :
           /\ sches' = [c \in Channels |-> got[c].sch]
           /\ chnls' = [c \in Channels |-> IF got[c].ok THEN After(chnls[c], x[c]) ELSE chnls[c]]
           /\ bursts' = bursts \cup {BurstOf(c, x[c]) : c \in DOMAIN x}
           /\ failed' = UNION {x[c].failed : c \in DOMAIN x}
           /\ held' = held \ {got[c].ev : c \in DOMAIN x}
    /\ now' = nextTick
    /\ nextTick' = nextTick + nextSysTick
    /\ UNCHANGED <<mParam, accesses, overflowed>>

Next ==
    \/ \E addr \in Lines, type \in {READ, WRITE}, gap \in Gaps : Access(addr, type, gap)
    \/ tick

\* A tick is due; ticks alone move nextTick.
TickDue ==
    /\ Scheduled /\ failed = {} /\ nextTick < IF Busy THEN MaxTick ELSE MaxIdle
    /\ nextTick' = nextTick + nextSysTick

\* The tick event requeues itself after every tick, so that the steps that
\* TickDue describes, which are those of tick, are taken.
Spec == Init /\ [][Next]_vars /\ WF_nextTick(TickDue)

----------------------------------------------------------------------------
(* Properties. *)

\* The channel that ReturnChannel sends an access to is the one AddressMap
\* finds for it (asserted there), for every interleaving, and two lines never
\* share all their coordinates.
MapAgrees ==
    accesses = 0 =>
        /\ \A a \in AllLines : AddressMap(a).chnl = ReturnChannel(a)
        /\ Cardinality({AddressMap(a) : a \in AllLines}) = Cardinality(AllLines)

\* Two bursts overlap on a data bus only when the later access had to wake its
\* rank: CalcInterIssueCycle looks for a free slot, however late the accesses
\* come, in what order the ranks answer and whatever the log has forgotten;
\* but the penalty of leaving power-down is added after the search.
BusExclusive ==
    \A x, y \in bursts :
        (x.chnl = y.chnl /\ x.id < y.id /\ x.start < y.end /\ y.start < x.end) => y.woken

\* The assertions of the ranks, the channel and the controller hold, but for
\* one: where reads and writes are delayed differently, an access may arrive
\* before the one that was simulated just before it, and the background cycles
\* of its rank may then exceed its arrival cycle.
AssertionsHold ==
    failed \subseteq IF Scheduled \/ preDelay(READ) = preDelay(WRITE) THEN {}
                     ELSE {"power-down cycles exceed the arrival cycle"}

\* A line is in at most one of the write queues, and both together stay below
\* the size of the queue until the scheduler warns of an overflow.
WritesQueuedOnce ==
    \A c \in Channels :
        LET q == sches[c].wr \o sches[c].done
        IN  /\ Cardinality(Range(q)) = Len(q)
            /\ Scheduled /\ ~overflowed => Len(q) < mParam.schedulerQueueCount

\* Every read that a scheduler holds is released, although writes take over
\* between the watermarks.
HeldReadsReturn == \A e \in 0 .. MaxAccesses - 1 : (e \in held) ~> (e \notin held)
=============================================================================
