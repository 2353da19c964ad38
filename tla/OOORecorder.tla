---------------------------- MODULE OOORecorder ------------------------------
(***************************************************************************)
(* The recorder of an out-of-order core (ooo_core_recorder): the graph of  *)
(* issue, dispatch and response events that it builds while the core runs, *)
(* and the clock of the core, which is put right after each weave phase by *)
(* the delay that contention gave the last issue event.                    *)
(*                                                                         *)
(* One core, whose steps, leaves and joins are chosen, and one domain (see *)
(* EventSim for crossings).  Delay events are the delays on the edges of   *)
(* the graph.  The memory between a dispatch and its response adds a       *)
(* chosen contention to the latency that the core was told.                *)
(***************************************************************************)
EXTENDS Integers, FiniteSets, FiniteSetsExt

CONSTANTS
    PhaseLength,
    Steps,          \* cycles that the core may advance between two accesses
    Waits,          \* cycles from issue to dispatch
    Lats,           \* zero-load latencies
    Contention,     \* cycles that contention may add to an access
    MaxPhase,       \* bound on the phases
    MaxOps          \* bound on the accesses, leaves and joins

VARIABLES
    core,           \* curCycle and phaseEndCycle of the core, and where it is
    rec,            \* the OOOCoreRecorder
    ev,             \* the events that have not been simulated, by number
    clock,          \* globPhaseCycles, the phase and the limit of the weave phase
    done            \* history: the operations so far and the assertions that failed

vars == <<core, rec, ev, clock, done>>

None == 0           \* no event
Max2(a, b) == IF a >= b THEN a ELSE b

Init ==
    /\ core = [cur |-> 0, phaseEnd |-> PhaseLength, pc |-> "out"]
    /\ rec = [state |-> "HALTED", gap |-> 0, last |-> None, lastZll |-> 0, lastStart |-> 0,
              future |-> {}, lastUnhalted |-> 0, curId |-> 1]
    /\ ev = <<>>
    /\ clock = [glob |-> 0, inCSim |-> FALSE]
    /\ done = [ops |-> 0, failed |-> FALSE, early |-> FALSE, dropped |-> 0]

-----------------------------------------------------------------------------
(* The event graph.  g is a pair of rec and ev, with the assertions so far. *)

Graph == [rec |-> rec, ev |-> ev, failed |-> FALSE]

Check(g, ok) == [g EXCEPT !.failed = @ \/ ~ok]

\* A new event: `at` is the latest cycle at which a parent was done.
Event(kind, zll, min, pre) ==
    [kind |-> kind, zll |-> zll, min |-> min, pre |-> pre, at |-> 0, parents |-> 0, kids |-> {}]

New(g, e) ==
    LET id == g.rec.curId IN
    [g EXCEPT !.ev = [i \in DOMAIN g.ev \cup {id} |-> IF i = id THEN e ELSE g.ev[i]],
              !.rec.curId = id + 1]

\* An event that has been simulated is gone, and cannot get a child.
addChild(g, p, q, delay) ==
    IF p \notin DOMAIN g.ev THEN Check(g, FALSE)
    ELSE [g EXCEPT !.ev[p].kids = @ \cup {[id |-> q, delay |-> delay]}, !.ev[q].parents = @ + 1]

RECURSIVE addChildren(_, _, _)
addChildren(g, links, q) ==
    IF links = {} THEN g
    ELSE LET l == CHOOSE l \in links : TRUE
         IN  addChildren(addChild(g, l.ev, q, l.delay), links \ {l}, q)

\* Responses that come before cycle zll and whose events are still to run.
Outstanding(g, zll) == {f \in g.rec.future : f.zll < zll /\ f.ev # None}

\* Faulty form: the issue event waits for no response.
LinkResponses_None(g, id, zll) == [g EXCEPT !.rec.future = {f \in @ : f.zll >= zll}]

\* The issue event id follows the responses before it, which leave the heap.
LinkResponses(g, id, zll) ==
    LET out == Outstanding(g, zll)
        max == Max({0} \cup {f.zll : f \in out})
        linked == addChildren(g, {[ev |-> f.ev, delay |-> 0] : f \in out}, id)
        ok == \A f \in out : f.zll >= g.ev[g.rec.last].zll
    IN  Check([linked EXCEPT !.rec.future = {f \in @ : f.zll >= zll},
                             !.ev[id].pre = IF max > 0 THEN zll - max ELSE 0],
              ok)

\* Faulty form: the delay from the previous issue event is not counted.
LinkIssue_NoDelay(g, id) ==
    [addChild(g, g.rec.last, id, 0) EXCEPT !.rec.last = id]

\* ... and the previous issue event, with what is left of the delay.
LinkIssue(g, id) ==
    LET delay == g.ev[id].zll - g.ev[g.rec.last].zll - g.ev[id].pre
    IN  Check([addChild(g, g.rec.last, id, delay) EXCEPT !.rec.last = id], delay >= 0)

addIssueEvent(g, cycle) ==
    LET zll == cycle - g.rec.gap
        id == g.rec.curId
    IN  IF g.rec.last = None \/ zll < g.ev[g.rec.last].zll THEN Check(g, FALSE)
        ELSE LinkIssue(LinkResponses(New(g, Event("issue", zll, cycle, 0)), id, zll), id)

\* A GET: an issue event, the dispatch that follows it and the responses before
\* it, and the response, which the memory may put off by `extra`.
RecordDispatch(g, cur, disp) ==
    LET zll == disp - g.rec.gap
        id == g.rec.curId
        links == {[ev |-> f.ev, delay |-> zll - f.zll] : f \in Outstanding(g, zll)}
    IN  addChild(addChildren(New(g, Event("dispatch", zll, disp, 0)), links, id), g.rec.last, id, disp - cur)

RecordResponse(g, disp, resp, extra) ==
    LET id == g.rec.curId
        linked == addChild(New(g, Event("response", resp - g.rec.gap, resp, 0)), id - 1, id, resp - disp + extra)
    IN  [linked EXCEPT !.rec.future = @ \cup {[zll |-> resp - g.rec.gap, ev |-> id]}]

recordAccess(g, cur, disp, resp, extra) ==
    RecordResponse(RecordDispatch(addIssueEvent(g, cur), cur, disp), disp, resp, extra)

\* A PUT: the writeback follows the last issue event by the delay from the cycle
\* of the core, and nothing follows it.
RecordPut(g, cur, req) ==
    addChild(New(g, Event("put", 0, req, 0)), g.rec.last, g.rec.curId, req - cur)

-----------------------------------------------------------------------------
(* The bound phase *)

Took(g) ==
    /\ rec' = g.rec
    /\ ev' = g.ev
    /\ done' = [done EXCEPT !.ops = @ + 1, !.failed = @ \/ g.failed]

Bound == ~clock.inCSim /\ ~done.failed

Running == Bound /\ core.pc = "run" /\ core.cur <= core.phaseEnd

Bounded == done.ops < MaxOps

\* notifyJoin: from HALTED the core starts at the start of the phase, with an
\* event of its own.
notifyJoinHalted(g) ==
    LET id == g.rec.curId
        e == [Event("issue", clock.glob, clock.glob, 0) EXCEPT !.at = clock.glob]
    IN  Check([New(g, e) EXCEPT !.rec.gap = 0, !.rec.last = id, !.rec.state = "RUNNING"],
              g.rec.last = None /\ g.rec.lastUnhalted <= clock.glob)

notifyJoinDraining(g, cur) ==
    Check([addIssueEvent(g, cur) EXCEPT !.rec.state = "RUNNING"], cur >= clock.glob)

\* join: the core never goes back.
Join ==
    /\ Bound /\ Bounded /\ core.pc = "out"
    /\ Took(IF rec.state = "HALTED" THEN notifyJoinHalted(Graph) ELSE notifyJoinDraining(Graph, core.cur))
    /\ core' = [cur |-> IF rec.state = "HALTED" THEN Max2(core.cur, clock.glob) ELSE core.cur,
                phaseEnd |-> clock.glob + PhaseLength, pc |-> "run"]
    /\ UNCHANGED clock

notifyLeave(g, cur) == [addIssueEvent(g, cur) EXCEPT !.rec.state = "DRAINING"]

Leave ==
    /\ Running /\ Bounded
    /\ Took(notifyLeave(Graph, core.cur))
    /\ core' = [core EXCEPT !.pc = "out"]
    /\ UNCHANGED clock

\* The core computes and makes an access that gets a record.
Access ==
    /\ Running /\ Bounded
    /\ \E s \in Steps, w \in Waits, l \in Lats, x \in Contention :
         /\ Took(recordAccess(Graph, core.cur + s, core.cur + s + w, core.cur + s + w + l, x))
         /\ core' = [core EXCEPT !.cur = @ + s]
    /\ UNCHANGED clock

\* ... or only a writeback (below a cache that is not inclusive).
Writeback ==
    /\ Running /\ Bounded
    /\ \E s \in Steps, w \in Waits :
         /\ Took(RecordPut(Graph, core.cur + s, core.cur + s + w))
         /\ core' = [core EXCEPT !.cur = @ + s]
    /\ UNCHANGED clock

\* The core computes until it has passed the end of the phase, and waits.
RunOn ==
    /\ Running
    /\ \E s \in Steps : core' = [core EXCEPT !.cur = core.phaseEnd + 1 + s]
    /\ UNCHANGED <<rec, ev, clock, done>>

-----------------------------------------------------------------------------
(* The weave phase *)

NextPhase == clock.glob + PhaseLength

\* Faulty form: the phase is not tapered.
cSimStart_NoTaper(g, cur) ==
    IF g.rec.state = "DRAINING" THEN [g EXCEPT !.rec.future = {}] ELSE g

\* cSimStart: a core that runs gets an event that starts in the next phase, so
\* that its last event is never simulated; one that has left forgets its responses.
cSimStart(g, cur) ==
    CASE g.rec.state = "HALTED" -> g
      [] g.rec.state = "RUNNING" ->
            Check(IF g.ev[g.rec.last].zll < NextPhase - g.rec.gap THEN addIssueEvent(g, NextPhase) ELSE g,
                  cur > NextPhase /\ g.ev[g.rec.last].zll <= cur - g.rec.gap)
      [] OTHER -> [g EXCEPT !.rec.future = {}]

SimStart ==
    /\ ~clock.inCSim /\ ~done.failed
    /\ clock.glob < MaxPhase * PhaseLength
    /\ core.pc = "out" \/ core.cur > core.phaseEnd
    /\ \E g \in {cSimStart(Graph, core.cur)} :
         /\ rec' = g.rec
         /\ ev' = g.ev
         /\ done' = [done EXCEPT !.failed = @ \/ g.failed,
                                 !.dropped = IF rec.state = "DRAINING" THEN rec.curId ELSE @]
    /\ core' = [core EXCEPT !.cur = IF rec.state = "DRAINING" THEN Max2(@, NextPhase) ELSE @]
    /\ clock' = [clock EXCEPT !.inCSim = TRUE]

StartCycle(e) == ev[e].at + ev[e].pre
Ready == {e \in DOMAIN ev : ev[e].parents = 0 /\ StartCycle(e) < NextPhase}

\* A child learns when a parent was done; a response that has run is marked so.
Released(e) ==
    [i \in DOMAIN ev \ {e} |->
        LET links == {k \in ev[e].kids : k.id = i}
        IN  [ev[i] EXCEPT !.parents = @ - Cardinality(links),
                          !.at = Max({@} \cup {StartCycle(e) + k.delay : k \in links})]]

\* reportIssueEventSimulated
Reported(e) ==
    IF ev[e].kind # "issue" THEN rec
    ELSE [rec EXCEPT !.lastZll = ev[e].zll, !.lastStart = StartCycle(e), !.last = IF @ = e THEN None ELSE @]

\* Events run in the order of their cycles.  `early` is history: an issue event
\* ran before a response that the core was to have received by then, among those
\* recorded since the recorder last forgot its responses.
Simulate(e) ==
    /\ clock.inCSim /\ ~done.failed
    /\ e \in Ready
    /\ \A f \in Ready : StartCycle(e) <= StartCycle(f)
    /\ rec' = Reported(e)
    /\ ev' = Released(e)
    /\ done' = [done EXCEPT !.failed = \/ @
                                       \/ ev[e].kind # "put" /\ StartCycle(e) < ev[e].min
                                       \/ StartCycle(e) < clock.glob,
                            !.early = @ \/ /\ ev[e].kind = "issue"
                                           /\ \E f \in DOMAIN ev : /\ ev[f].kind = "response"
                                                                   /\ ev[f].zll < ev[e].zll
                                                                   /\ f \in done.dropped .. e]
    /\ UNCHANGED <<core, clock>>

Skew == rec.lastStart - (rec.lastZll + rec.gap)

\* cSimEnd: the clock of the core and the gap move by the skew of the last event.
cSimEnd ==
    [rec EXCEPT !.gap = @ + Skew,
                !.future = {IF f.ev \in DOMAIN ev THEN f ELSE [f EXCEPT !.ev = None] : f \in @},
                !.state = IF rec.last = None THEN "HALTED" ELSE @,
                !.lastUnhalted = IF rec.last = None THEN rec.lastStart ELSE @]

SimEnd ==
    /\ clock.inCSim /\ ~done.failed
    /\ Ready = {}
    /\ IF rec.state = "HALTED" THEN UNCHANGED <<rec, done, core>>
       ELSE /\ rec' = cSimEnd
            /\ done' = [done EXCEPT !.failed = \/ @
                                               \/ rec.lastZll + rec.gap > core.cur
                                               \/ rec.lastStart > core.cur
                                               \/ Skew < 0
                                               \/ rec.last = None /\ (rec.state # "DRAINING" \/ rec.future # {})]
            /\ core' = [core EXCEPT !.cur = @ + Skew,
                                    !.phaseEnd = IF core.pc = "run" THEN @ + PhaseLength ELSE @]
    /\ clock' = [glob |-> NextPhase, inCSim |-> FALSE]
    /\ UNCHANGED ev

Next ==
    \/ Join
    \/ Leave
    \/ Access
    \/ Writeback
    \/ RunOn
    \/ SimStart
    \/ \E e \in DOMAIN ev : Simulate(e)
    \/ SimEnd

Spec == Init /\ [][Next]_vars

-----------------------------------------------------------------------------
(* Properties *)

\* The assertions of the recorder and of TimingEvent::run hold: no event but a
\* writeback starts before its minimum cycle, none in a past phase, the skew is never negative, the last event of a core
\* that runs is never simulated, and the clock stays ahead of the events simulated.
AssertionsHold == ~done.failed

\* No issue event is simulated before a response that the core had received by
\* then in its own clock: addIssueEvent links them all, over phases, but for those
\* that were forgotten when the core left (cSimStart).
ResponsesFirst == ~done.early

=============================================================================
