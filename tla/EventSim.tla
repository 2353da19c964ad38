------------------------------ MODULE EventSim -------------------------------
(***************************************************************************)
(* The contention simulation (weave phase): timing events, the recorders   *)
(* that build their graph while cores run (bound phase), and the threads   *)
(* that simulate it domain by domain (timing_event, event_recorder,        *)
(* core_recorder, contention_sim, weave_md1_mem, and the parts of          *)
(* timing_core and timing_cache that drive them).                          *)
(*                                                                         *)
(* The record sim holds the event graph and the domains; an operation is a *)
(* function on such records.  The queue of a domain is its set of events   *)
(* in state QUEUED, in the order of the cycles `at` (see EventQueue).      *)
(***************************************************************************)
EXTENDS Integers, FiniteSets, FiniteSetsExt, Sequences, SequencesExt

CONSTANTS
    Cores,
    Domains,        \* numbers, as in the code
    SimThreads,
    Assignments,    \* the ways domains may be divided among the threads
    Home,           \* Home[c]: the domain of core c, and of its timing cache
    Records,        \* Records[c]: the accesses that core c makes: kind, domain of the memory and
                    \* the latency that its load adds
    PhaseLength,
    AccLat,         \* latency of a timing cache
    Half,           \* half the zero-load latency of memory
    Gaps,           \* cycles that a core may compute between accesses
    MaxPhase,       \* bound on the phases simulated
    MaxOps          \* bound on the accesses and leaves of all cores

ASSUME DomainsAssumption ==
    /\ Domains \subseteq Nat
    /\ \A a \in Assignments : \A d \in Domains : \E t \in SimThreads : d \in a[t]
ASSUME TimesAssumption ==
    /\ PhaseLength \in Nat \ {0} /\ AccLat \in Nat \ {0} /\ Half \in Nat
    /\ Gaps \subseteq Nat /\ MaxPhase \in Nat /\ MaxOps \in Nat

VARIABLES
    sim,    \* events, domains and limits: ContentionSim and the slabs
    rec,    \* rec[c]: the CoreRecorder of core c, with the clock of the core
    th      \* th[t]: simulation thread t

vars == <<sim, rec, th>>

None == <<>>        \* no event
NoDomain == -1
Max2(a, b) == IF a >= b THEN a ELSE b

\* An event before it is linked.  `preds` and `ended` are history: the events it
\* was recorded to follow, and the cycle at which it was done.
Blank ==
    [kind |-> "acc", state |-> "NONE", dom |-> NoDomain, min |-> 0, pre |-> 0, post |-> 0,
     parents |-> 0, kids |-> {}, srcKids |-> {}, cycle |-> 0, at |-> 0, lat |-> 0, orig |-> 0,
     src |-> NoDomain, called |-> FALSE, doneCycle |-> 0, preSlack |-> 0, postSlack |-> 0, parentEv |-> None,
     preds |-> {}, started |-> -1, ended |-> -1]

Init ==
    /\ sim = [ev |-> <<>>, lastCrossing |-> [l \in Cores \X Domains \X Domains |-> [cycle |-> 0, ev |-> None]],
              cur |-> [d \in Domains |-> 0], prio |-> [d \in Domains |-> 0], queuePrio |-> [d \in Domains |-> 0],
              lastLimit |-> 0, limit |-> 0, inCSim |-> FALSE, threadsDone |-> 0, waitLock |-> 1, glob |-> 0, phase |-> 0,
              failed |-> FALSE]
    /\ rec = [c \in Cores |->
                [state |-> "HALTED", cur |-> 0, gap |-> 0, prevResp |-> None, prevRespCycle |-> 0,
                 lastStart |-> 0, lastOrig |-> 0, slack |-> 0, lastUnhalted |-> 0, synced |-> FALSE, ops |-> 0]]
    /\ \E a \in Assignments :
        th = [t \in SimThreads |-> [pc |-> "idle", doms |-> a[t], domPq |-> {}, stalled |-> <<>>, nextStalled |-> <<>>,
                                    d |-> NoDomain, e |-> None, from |-> "domPq"]]

-----------------------------------------------------------------------------
(* The event graph *)

Fail(s, bad) == [s EXCEPT !.failed = @ \/ bad]

\* Events are numbered core by core.
NewId(s, c) == <<c, Cardinality({e \in DOMAIN s.ev : e[1] = c}) + 1>>
New(s, id, e) == [s EXCEPT !.ev = [i \in DOMAIN s.ev \cup {id} |-> IF i = id THEN e ELSE s.ev[i]]]

\* A child without a domain takes that of its parent.
addChild(s, p, q) ==
    Fail([s EXCEPT !.ev[p].kids = @ \cup {q},
                   !.ev[q].parents = @ + 1,
                   !.ev[q].dom = IF @ = NoDomain THEN s.ev[p].dom ELSE @],
         s.ev[p].state \notin {"NONE", "QUEUED"} \/ s.ev[q].state # "NONE")

\* enqueue and enqueueSynced: between weave phases every domain is at lastLimit.
enqueue(s, e, cycle) ==
    Fail([s EXCEPT !.ev[e].state = "QUEUED", !.ev[e].at = cycle],
         \/ s.ev[e].parents # 0
         \/ cycle < s.lastLimit
         \/ cycle < s.cur[s.ev[e].dom])

\* Faulty form: the previous crossing is taken to be pending whatever its cycle.
enqueueCrossing_AnyLast(a, x, cycle) ==
    LET s == a.s
        e == s.ev[x]
        l == <<x[1], e.src, e.dom>>
        last == s.lastCrossing[l]
        req == Last(a.stack)
        isResp == a.stack # <<>> /\ s.ev[req].src = e.dom /\ s.ev[req].dom = e.src
        linked == IF last.ev # None THEN addChild(s, last.ev, x) ELSE enqueue(s, x, cycle)
    IN  IF isResp THEN [a EXCEPT !.s = addChild(s, s.ev[req].parentEv, x), !.stack = Front(a.stack)]
        ELSE [a EXCEPT !.s = [linked EXCEPT !.lastCrossing[l] = [cycle |-> cycle, ev |-> x]],
                       !.stack = Append(a.stack, x)]

\* Where a new crossing from p to q hangs: a response under the event that made
\* the request, another one under the previous crossing of its core between the
\* same domains, if that has not run, or else in the queue.
enqueueCrossing(a, x, cycle) ==
    LET s == a.s
        e == s.ev[x]
        l == <<x[1], e.src, e.dom>>
        last == s.lastCrossing[l]
        req == Last(a.stack)
        isResp == a.stack # <<>> /\ s.ev[req].src = e.dom /\ s.ev[req].dom = e.src
        chained == last.cycle > s.cur[e.src] /\ last.cycle <= cycle
        linked == IF chained THEN addChild(s, last.ev, x) ELSE enqueue(s, x, cycle)
    IN  IF isResp THEN [a EXCEPT !.s = addChild(s, s.ev[req].parentEv, x), !.stack = Front(a.stack)]
        ELSE [a EXCEPT !.s = [linked EXCEPT !.lastCrossing[l] = [cycle |-> cycle, ev |-> x]],
                       !.stack = Append(a.stack, x)]

PreSlack(delay) == Max2(delay, 1)

\* handleCrossing and the constructor of CrossingEvent: the crossing x takes the
\* place of p as the parent of q, its source event that of q as a child of p.
handleCrossing(a, p, q, gap) ==
    LET s == a.s
        x == NewId(s, p[1])
        e == [Blank EXCEPT !.kind = "xing", !.dom = s.ev[q].dom, !.src = s.ev[p].dom, !.parentEv = p, !.kids = {q},
                           !.preSlack = PreSlack(s.ev[p].post), !.postSlack = s.ev[q].pre,
                           !.min = s.ev[p].min + PreSlack(s.ev[p].post),
                           !.orig = s.ev[p].min + PreSlack(s.ev[p].post) - gap]
        made == New([s EXCEPT !.ev[p].kids = @ \ {q}, !.ev[p].srcKids = @ \cup {x}], x, e)
    IN  enqueueCrossing([a EXCEPT !.s = made], x, Max2(s.lastLimit, e.min))

\* produceCrossings along the chain of events just recorded.
produceCrossings(s, chain, gap) ==
    FoldLeft(LAMBDA a, i : IF a.s.ev[chain[i]].dom = a.s.ev[chain[i + 1]].dom THEN a
                           ELSE handleCrossing(a, chain[i], chain[i + 1], gap),
             [s |-> s, stack |-> <<>>],
             [i \in 1 .. Len(chain) - 1 |-> i]).s

\* Event e is added after p, for which it is recorded to wait.
Link(s, p, id, e) == addChild(New(s, id, [e EXCEPT !.preds = {p}]), p, id)

-----------------------------------------------------------------------------
(* The bound phase: what the recorder of a core does while the core runs *)

Ops == FoldSet(LAMBDA c, n : rec[c].ops + n, 0, Cores)

CoreEvent(delay, r, min) ==
    [Blank EXCEPT !.kind = "core", !.post = delay, !.min = min, !.orig = min - r.gap]

notifyJoin(c) ==
    LET r == rec[c]
        id == NewId(sim, c)
        first == [CoreEvent(0, [r EXCEPT !.gap = 0], sim.glob) EXCEPT !.dom = Home[c]]
    IN  /\ ~sim.inCSim
        /\ \/ /\ r.state = "HALTED"
              /\ sim' = Fail(enqueue(New(sim, id, first), id, sim.glob), r.lastUnhalted > sim.glob)
              /\ rec' = [rec EXCEPT ![c] = [r EXCEPT !.state = "RUNNING", !.cur = sim.glob, !.gap = 0, !.slack = 0,
                                                     !.prevResp = id, !.prevRespCycle = sim.glob]]
           \/ /\ r.state = "DRAINING"
              /\ sim' = Fail(sim, r.cur < sim.glob)
              /\ rec' = [rec EXCEPT ![c].state = "RUNNING"]
        /\ UNCHANGED th

\* The event that covers the time up to the clock, and one after it.
CoverDelay(s, c) ==
    LET r == rec[c]
        id == NewId(s, c)
    IN  Link(s, r.prevResp, id, CoreEvent(r.cur - r.prevRespCycle, r, r.prevRespCycle))
Taper(s, c, p) == Link(s, p, NewId(s, c), CoreEvent(0, rec[c], rec[c].cur))

notifyLeave(c) ==
    LET id == NewId(sim, c)
        covered == CoverDelay(sim, c)
    IN  /\ ~sim.inCSim
        /\ rec[c].state = "RUNNING"
        /\ ~rec[c].synced
        /\ Ops < MaxOps
        /\ sim' = Taper(covered, c, id)
        /\ rec' = [rec EXCEPT ![c].state = "DRAINING", ![c].ops = @ + 1, ![c].prevResp = NewId(covered, c), ![c].prevRespCycle = rec[c].cur]
        /\ UNCHANGED th

\* The events of an access with request cycle req: to memory in domain m, or a
\* miss in the timing cache (its start, the memory access, its response).
Acc(d, pre, post, min, lat) == [Blank EXCEPT !.dom = d, !.pre = pre, !.post = post, !.min = min, !.lat = lat]
RecordOf(kind, c, m, req, lat) ==
    IF kind = "miss" THEN <<Acc(Home[c], 0, AccLat, req, 0), Acc(m, Half, Half, req + AccLat, lat),
                                 Acc(Home[c], 0, 0, req + AccLat + 2 * Half, 0)>>
    ELSE <<Acc(m, Half, Half, req, lat)>>
RespCycle(kind, req) ==
    CASE kind = "put" -> req
      [] kind = "miss" -> req + AccLat + 2 * Half
      [] kind = "get" -> req + 2 * Half

\* A core computes for gap cycles and makes an access that leaves a record.  The
\* phase ends for a core only at the end of a basic block.
recordAccess(c, kind, m, gap, lat) ==
    LET r == rec[c]
        req == r.cur + gap
        first == IF kind = "put"
                 THEN [Blank EXCEPT !.kind = "delay", !.pre = req - r.prevRespCycle, !.min = r.prevRespCycle]
                 ELSE CoreEvent(req - r.prevRespCycle, r, r.prevRespCycle)
        events == <<first>> \o RecordOf(kind, c, m, req, lat)
        base == NewId(sim, c)[2]
        chain == <<r.prevResp>> \o [i \in 1 .. Len(events) |-> <<c, base + i - 1>>]
        linked == FoldLeft(LAMBDA s, i : Link(s, chain[i], chain[i + 1], events[i]), sim,
                           [i \in 1 .. Len(events) |-> i])
    IN  /\ ~sim.inCSim
        /\ r.state = "RUNNING"
        /\ ~r.synced
        /\ Ops < MaxOps
        /\ sim' = Fail(produceCrossings(linked, chain, r.gap), r.cur < r.prevRespCycle)
        /\ rec' = [rec EXCEPT ![c] =
                     [r EXCEPT !.ops = @ + 1, !.cur = RespCycle(kind, req),
                               !.prevResp = IF kind = "put" THEN @ ELSE Last(chain),
                               !.prevRespCycle = IF kind = "put" THEN @ ELSE RespCycle(kind, req)]]
        /\ UNCHANGED th

\* The core computes past the end of the phase and waits at the barrier.
TakeBarrier(c) ==
    /\ ~sim.inCSim
    /\ rec[c].state = "RUNNING"
    /\ ~rec[c].synced
    /\ rec' = [rec EXCEPT ![c].cur = Max2(@, sim.glob + PhaseLength + 1), ![c].synced = TRUE]
    /\ UNCHANGED <<sim, th>>

-----------------------------------------------------------------------------
(* Between bound and weave phase *)

\* A running core gets an event that starts in the next phase.
cSimStart(s, c) ==
    LET r == rec[c]
        covered == IF r.prevRespCycle < r.cur THEN CoverDelay(s, c) ELSE s
        p == IF r.prevRespCycle < r.cur THEN NewId(s, c) ELSE r.prevResp
    IN  IF r.state = "RUNNING" THEN Fail(Taper(covered, c, p), r.cur < s.glob + PhaseLength) ELSE s
RecStart(r, s, c) ==
    CASE r.state = "RUNNING" ->
            [r EXCEPT !.prevRespCycle = r.cur,
                      !.prevResp = <<c, NewId(s, c)[2] + IF r.prevRespCycle < r.cur THEN 1 ELSE 0>>]
      [] r.state = "DRAINING" -> [r EXCEPT !.cur = Max2(@, s.glob + PhaseLength)]
      [] r.state = "HALTED" -> r

\* The threads that were started: those with domains.
Started == {t \in SimThreads : th[t].doms # {}}

simulatePhase ==
    LET limit == sim.glob + PhaseLength
    IN  /\ ~sim.inCSim
        /\ sim.phase < MaxPhase
        /\ \A c \in Cores : rec[c].state = "RUNNING" => rec[c].synced
        /\ sim' = [FoldSet(LAMBDA c, s : cSimStart(s, c), sim, Cores) EXCEPT !.limit = limit, !.inCSim = TRUE]
        /\ rec' = [c \in Cores |-> RecStart(rec[c], sim, c)]
        /\ th' = [t \in SimThreads |->
                    IF t \in Started THEN [th[t] EXCEPT !.pc = "pick", !.domPq = th[t].doms] ELSE th[t]]

\* The clock of a core takes over the delay of the last event simulated; if that
\* takes it past the next phase too, it waits on.
Skew(r) == r.lastStart - (r.lastOrig + r.gap)
cSimEnd(r) ==
    IF r.state = "HALTED" THEN r
    ELSE [r EXCEPT !.cur = @ + Skew(r), !.gap = @ + Skew(r), !.prevRespCycle = @ + Skew(r),
                   !.synced = @ /\ r.cur + Skew(r) > sim.limit + PhaseLength,
                   !.state = IF r.prevResp = None THEN "HALTED" ELSE @,
                   !.lastUnhalted = IF r.prevResp = None THEN r.lastStart ELSE @]
SkewFails(r) ==
    /\ r.state # "HALTED"
    /\ \/ r.lastOrig + r.gap > r.cur \/ r.lastStart > r.cur \/ Skew(r) < 0
       \/ r.prevResp = None /\ r.state # "DRAINING"

phaseSimulated ==
    /\ sim.inCSim
    /\ sim.waitLock = 0
    /\ sim' = Fail([sim EXCEPT !.waitLock = 1, !.inCSim = FALSE, !.lastLimit = sim.limit,
                               !.glob = @ + PhaseLength, !.phase = @ + 1],
                   \E c \in Cores : SkewFails(rec[c]))
    /\ rec' = [c \in Cores |-> cSimEnd(rec[c])]
    /\ UNCHANGED th

-----------------------------------------------------------------------------
(* The weave phase *)

Queue(s, d) == {e \in DOMAIN s.ev : s.ev[e].state = "QUEUED" /\ s.ev[e].dom = d}
firstCycle(s, d) == Min({s.ev[e].at : e \in Queue(s, d)})

Several(t) == Cardinality(th[t].doms) > 1

\* A thread with one domain stops before the limit, one with several at it.
Beyond(t, cycle) == IF Several(t) THEN cycle > sim.limit ELSE cycle >= sim.limit

\* A thread's queues: those that are not stalled, the furthest behind first, and
\* then the stalled ones; a new round when both are through.
NextDomain(s, r, d) ==
    IF r.domPq # {} THEN d \in r.domPq /\ \A o \in r.domPq : s.queuePrio[d] <= s.queuePrio[o]
    ELSE r.stalled # <<>> /\ d = Last(r.stalled)
Without(r, d) ==
    IF r.domPq # {} THEN [r EXCEPT !.domPq = @ \ {d}, !.from = "domPq"]
    ELSE [r EXCEPT !.stalled = Front(@), !.from = "stalled"]
Stall(r, d) ==
    IF r.from = "domPq" THEN [r EXCEPT !.stalled = Append(@, d)] ELSE [r EXCEPT !.nextStalled = Append(@, d)]

\* Faulty form: the domains stalled in this round are not taken up again.
Swapped_Never(r) == r

Swapped(r) ==
    IF r.stalled = <<>> /\ (r.from = "stalled" \/ r.domPq = {})
    THEN [r EXCEPT !.stalled = r.nextStalled, !.nextStalled = <<>>] ELSE r

\* After an event the clock of its domain moves to the next one.  With several
\* domains, one that has just met an unfinished crossing is stalled.
NextCycle(d) == IF Queue(sim, d) = {} THEN sim.limit ELSE firstCycle(sim, d)
Advanced(t) ==
    LET d == th[t].d
        next == NextCycle(d)
    IN  Fail([sim EXCEPT !.cur[d] = next, !.queuePrio[d] = IF Several(t) THEN next ELSE @], next < sim.cur[d])
Requeued(t) ==
    LET d == th[t].d
    IN  Swapped(IF Several(t) /\ sim.prio[d] # 0 THEN Stall(th[t], d) ELSE [th[t] EXCEPT !.domPq = @ \cup {d}])

\* Nothing that other threads see happens between this and the choice of the
\* next event, which is the same step.
Choosing(t) == th[t].pc \in {"pick", "after"}
SimOf(t) == IF th[t].pc = "after" THEN Advanced(t) ELSE sim
QueuesOf(t) == IF th[t].pc = "after" THEN Requeued(t) ELSE th[t]

\* A domain with nothing left before the limit is finished.
finishDomain(t, d) ==
    LET s == SimOf(t)
    IN  /\ Choosing(t)
        /\ NextDomain(s, QueuesOf(t), d)
        /\ Queue(s, d) # {} => Beyond(t, firstCycle(s, d))
        /\ sim' = [s EXCEPT !.cur[d] = s.limit]
        /\ th' = [th EXCEPT ![t] = [Swapped(Without(QueuesOf(t), d)) EXCEPT !.pc = "pick", !.d = NoDomain, !.e = None]]
        /\ UNCHANGED rec

\* The last thread to finish lets the caller of simulatePhase go on.
finishThread(t) ==
    /\ th[t].pc = "pick"
    /\ th[t].domPq = {} /\ th[t].stalled = <<>> /\ th[t].nextStalled = <<>>
    /\ th' = [th EXCEPT ![t].pc = "idle"]
    /\ sim' = IF sim.threadsDone + 1 = Cardinality(Started)
              THEN [sim EXCEPT !.threadsDone = 0, !.waitLock = 0]
              ELSE [sim EXCEPT !.threadsDone = @ + 1]
    /\ UNCHANGED rec

\* The next event of the domain is dequeued; the domain's clock follows.
dequeue(t, d, e) ==
    LET s == SimOf(t)
        cycle == firstCycle(s, d)
    IN  /\ Choosing(t)
        /\ NextDomain(s, QueuesOf(t), d)
        /\ e \in Queue(s, d) /\ s.ev[e].at = cycle
        /\ ~Beyond(t, cycle)
        /\ sim' = Fail([s EXCEPT !.cur[d] = cycle, !.ev[e].state = "RUNNING", !.ev[e].started = cycle],
                       cycle < s.cur[d] \/ cycle < s.ev[e].min)
        /\ th' = [th EXCEPT ![t] = [Without(QueuesOf(t), d) EXCEPT !.pc = "run", !.d = d, !.e = e]]
        /\ UNCHANGED rec

\* Where the completion of e at the given cycle arrives: delays pass it on.
Delays(s, e) == {k \in s.ev[e].kids : s.ev[k].kind = "delay"}
DelayDone(s, e, k, cycle) == cycle + s.ev[e].post + s.ev[k].pre
Arrivals(s, e, cycle) ==
    {<<k, cycle + s.ev[e].post>> : k \in s.ev[e].kids \ Delays(s, e)} \cup
        UNION {{<<k, DelayDone(s, e, y, cycle)>> : k \in s.ev[y].kids} : y \in Delays(s, e)}
SrcArrivals(s, e, cycle) ==
    {<<x, cycle + s.ev[e].post>> : x \in s.ev[e].srcKids} \cup
        UNION {{<<x, DelayDone(s, e, y, cycle)>> : x \in s.ev[y].srcKids} : y \in Delays(s, e)}

\* parentDone of a child: once the last parent is done it is queued.  A crossing
\* does not start before its first cycle, nor ends before it.
parentDone(s, k, cycle) ==
    LET e == s.ev[k]
        start == IF e.kind = "xing" THEN Max2(cycle, e.min) ELSE cycle
        went == [s EXCEPT !.ev[k].cycle = Max2(@, start), !.ev[k].parents = @ - 1,
                          !.ev[k].doneCycle = IF e.kind = "xing" /\ e.called THEN Max2(@, start) ELSE @]
    IN  IF e.parents = 1
        THEN Fail(enqueue(went, k, Max2(e.cycle, start) + e.pre), e.state # "NONE")
        ELSE Fail(went, e.parents = 0)

\* markSrcEventDone, by the source event of crossing x.
markSrcEventDone(s, x, cycle) ==
    Fail([s EXCEPT !.ev[x].called = TRUE, !.ev[x].doneCycle = cycle],
         s.ev[x].called \/ cycle < s.cur[s.ev[x].src])

\* done: the event, the delays after it, and all that this reaches.
done(s, e, cycle) ==
    LET ended == [s EXCEPT !.ev = [k \in DOMAIN s.ev |->
                    IF k = e THEN [s.ev[k] EXCEPT !.state = "DONE", !.ended = cycle]
                    ELSE IF k \in Delays(s, e)
                    THEN [s.ev[k] EXCEPT !.state = "DONE", !.parents = 0, !.started = DelayDone(s, e, k, cycle),
                                         !.ended = DelayDone(s, e, k, cycle)]
                    ELSE s.ev[k]]]
        marked == FoldSet(LAMBDA a, r : markSrcEventDone(r, a[1], a[2]), ended, SrcArrivals(s, e, cycle))
        outside == \E a \in Arrivals(s, e, cycle) : s.ev[a[1]].dom # s.ev[e].dom
    IN  Fail(FoldSet(LAMBDA a, r : parentDone(r, a[1], a[2]), marked, Arrivals(s, e, cycle)), outside)

\* simulate of an event of a cache or a memory, and of one of a core, which
\* reports to the recorder.
simulateAccess(t) ==
    LET e == th[t].e
    IN  /\ th[t].pc = "run"
        /\ sim.ev[e].kind = "acc"
        /\ sim' = done(sim, e, sim.ev[e].at + sim.ev[e].lat)
        /\ th' = [th EXCEPT ![t].pc = "after"]
        /\ UNCHANGED rec

reportEventSimulated(t) ==
    LET e == th[t].e
        start == sim.ev[e].at
        last == rec[e[1]].prevResp = e
    IN  /\ th[t].pc = "run"
        /\ sim.ev[e].kind = "core"
        /\ sim' = Fail(done(sim, e, start), last /\ rec[e[1]].state # "DRAINING")
        /\ rec' = [rec EXCEPT ![e[1]] =
                     [@ EXCEPT !.lastStart = start, !.lastOrig = sim.ev[e].orig, !.slack = start - sim.ev[e].orig,
                               !.prevResp = IF last THEN None ELSE @]]
        /\ th' = [th EXCEPT ![t].pc = "after"]

\* Faulty form: the crossing ends when it is looked at, not when its source did.
CrossingDone_AtOnce(s, x) == done([s EXCEPT !.prio[s.ev[x].dom] = 0], x, s.ev[x].at)

\* The end of a crossing whose source event is done.
CrossingDone(s, x) ==
    LET e == s.ev[x]
        cycle == Max2(e.at, e.doneCycle)
    IN  done([s EXCEPT !.prio[e.dom] = 0], x, cycle)

\* simulate of a crossing.  If its source event is not done,
simulateCrossing(t) ==
    LET x == th[t].e
    IN  /\ th[t].pc = "run"
        /\ sim.ev[x].kind = "xing"
        /\ \/ /\ sim.ev[x].called
              /\ sim' = CrossingDone(sim, x)
              /\ th' = [th EXCEPT ![t].pc = "after"]
           \/ /\ ~sim.ev[x].called
              /\ th' = [th EXCEPT ![t].pc = "recheck"]
              /\ UNCHANGED sim
        /\ UNCHANGED rec

\* the clocks of the source domain and of the core tell how long it cannot be,
Recheck(s, x) ==
    LET e == s.ev[x]
    IN  Max2(e.at, Max2(s.cur[e.src] + e.preSlack + e.postSlack, e.orig + rec[x[1]].slack + e.postSlack))
RequeueCrossing(s, x) ==
    LET next == Recheck(s, x)
    IN  enqueue([s EXCEPT !.prio[s.ev[x].dom] = IF next = s.ev[x].at THEN 1 ELSE 2], x, next)

\* Faulty form: without looking at the source again.
recheckCrossing_Not(t) ==
    /\ th[t].pc = "recheck"
    /\ sim' = RequeueCrossing(sim, th[t].e)
    /\ th' = [th EXCEPT ![t].pc = "after"]
    /\ UNCHANGED rec

\* and after they have been read the source is looked at again.  (If it is not
\* done now it was not done when they were read, and they only grow.)
recheckCrossing(t) ==
    /\ th[t].pc = "recheck"
    /\ sim' = IF sim.ev[th[t].e].called THEN CrossingDone(sim, th[t].e) ELSE RequeueCrossing(sim, th[t].e)
    /\ th' = [th EXCEPT ![t].pc = "after"]
    /\ UNCHANGED rec

Finished == sim.phase = MaxPhase /\ UNCHANGED vars

ThreadStep(t) ==
    \/ \E d \in th[t].doms : finishDomain(t, d) \/ \E e \in Queue(sim, d) : dequeue(t, d, e)
    \/ finishThread(t) \/ simulateAccess(t) \/ reportEventSimulated(t)
    \/ simulateCrossing(t) \/ recheckCrossing(t)

Next ==
    \/ \E c \in Cores :
          \/ sim.phase < MaxPhase /\ (notifyJoin(c) \/ notifyLeave(c))
          \/ \E a \in Records[c], gap \in Gaps :
                sim.phase < MaxPhase /\ recordAccess(c, a.kind, a.mem, gap, a.lat)
          \/ sim.phase < MaxPhase /\ TakeBarrier(c)
    \/ simulatePhase \/ phaseSimulated
    \/ \E t \in SimThreads : ThreadStep(t)
    \/ Finished

Spec == Init /\ [][Next]_vars

\* The host runs all simulation threads: weak fairness of their steps, written
\* with what makes one possible and what each one changes.
CanStep(t) ==
    /\ th[t].pc # "idle"
    /\ Choosing(t) => LET r == QueuesOf(t) IN r.domPq # {} \/ r.stalled # <<>> \/ r.nextStalled = <<>>
Runs(t) == []<>~CanStep(t) \/ []<><<th'[t] # th[t]>>_vars
FairSpec == Spec /\ WF_vars(phaseSimulated) /\ \A t \in SimThreads : Runs(t)

-----------------------------------------------------------------------------
\* The assertions of the event code hold: events are linked, queued and run in
\* the states they expect, queues never hold an event before the clock of their
\* domain or the last limit, nothing runs before its minStartCycle, a crossing is
\* called once and not before its source's clock, children stay in the domain
\* of their parent, and the skew that cSimEnd adds to a core is never negative.
AssertionsHold == ~sim.failed

\* Nothing starts before what it was recorded to follow has ended, across domains
\* too, and the delays between them have passed.
CausalOrder ==
    \A e \in DOMAIN sim.ev : sim.ev[e].kind # "xing" /\ sim.ev[e].started >= 0 =>
        \A p \in sim.ev[e].preds :
            /\ sim.ev[p].state = "DONE"
            /\ sim.ev[e].started >= sim.ev[p].ended + sim.ev[p].post + sim.ev[e].pre

\* numParents counts exactly the unfinished parents, also when a crossing hangs
\* under the previous one or under the event that made the request, and an event
\* is out of the queues exactly while it has some: none is lost, none runs early.
ParentsExact ==
    \A e \in DOMAIN sim.ev :
        LET open == {p \in DOMAIN sim.ev : e \in sim.ev[p].kids /\ sim.ev[p].state # "DONE"}
        IN  /\ sim.ev[e].parents = Cardinality(open)
            /\ (sim.ev[e].state = "NONE") = (open # {})

\* A crossing that polls its source domain is not put off past the cycle at which
\* the source event was done by more than the slack it steals (the assertion left
\* commented out in CrossingEvent::simulate): the clocks it reads while the source
\* is running may only delay it if the source is then still found not done.
CrossingsPunctual ==
    \A x \in DOMAIN sim.ev :
        sim.ev[x].kind = "xing" /\ sim.ev[x].state = "DONE" =>
            sim.ev[x].at <= sim.ev[x].doneCycle + sim.ev[x].postSlack + 1

\* Slab::liveElems of the slab of core c, from what was allocated and freed: an
\* element for each event and each block of children, freed by done, and one
\* freed by the source event of each crossing, which is part of the crossing and
\* was never allocated.
TebBlocks(e) ==
    LET n == Cardinality(sim.ev[e].kids) + Cardinality(sim.ev[e].srcKids)
    IN  IF n > 1 THEN (n + 2) \div 3 ELSE 0
NotDone(c) == {e \in DOMAIN sim.ev : e[1] = c /\ sim.ev[e].state # "DONE"}
liveElems(c) ==
    FoldSet(LAMBDA e, n : 1 + TebBlocks(e) + n, 0, NotDone(c))
        - Cardinality({x \in DOMAIN sim.ev : x[1] = c /\ sim.ev[x].called})

\* "Slabs are garbage-collected once all their events are done" (slab_alloc.h):
\* a slab is not reclaimed, its count being down to 0, under an event not done.
SlabsKept == \A c \in Cores : NotDone(c) # {} => liveElems(c) > 0

\* Every weave phase ends: threads of different domains do not wait for each
\* other's crossings for ever, nor does a thread that has stalled all its domains.
WeaveEnds == sim.inCSim ~> ~sim.inCSim

\* Events run in the order recorded, and none runs early or is forgotten.
EventsOrdered == CausalOrder /\ ParentsExact
=============================================================================
