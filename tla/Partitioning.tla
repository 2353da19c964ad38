---------------------------- MODULE Partitioning ----------------------------
(***************************************************************************)
(* Cache partitioning: the policies WayPart and Vantage of                 *)
(* src/src/part_repl_policies.h and IdealLRUPart of ideal_arrays.h, the    *)
(* utility monitors that profile each partition (utility_monitor.cpp,      *)
(* monitor.cpp) and the lookahead partitioner that resizes the partitions  *)
(* from the miss curves at the end of a phase (lookahead.cpp).             *)
(*                                                                         *)
(* All the lines of the modelled bank are candidates of one another, as in *)
(* one set.  The fields of the policies are the fields of one record, st.  *)
(***************************************************************************)
EXTENDS Integers, Sequences, SequencesExt, FiniteSets, FiniteSetsExt, Functions

CONSTANTS
    Addrs,          \* line addresses
    Confs,          \* configurations
    Word,           \* 2 ^ 32, the range of a uint32_t
    Interval,       \* candidates between two adjustments of a setpoint, 256 in the code
    BtsRange,       \* range of the coarse timestamps, 256 in the code
    BtsShare,       \* hits per coarse timestamp, as a share of the partition: 16 in the code
    MaxIntervals    \* bound on the calls of the partitioner

VARIABLES
    conf,       \* repl, lines, parts, buckets, portion (in per cent), smooth, test, umonWays, sampled, accesses (a bound)
    st,         \* the replacement policy
    mon,        \* the UMon of each partition
    log,        \* history: the accesses that each monitor was told of, in each interval
    fail        \* the assertion that failed

vars == <<conf, st, mon, log, fail>>

Lines == 0 .. conf.lines - 1
Parts == 0 .. conf.parts - 1
Unmanaged == conf.parts
Ways == conf.lines      \* one set
minAlloc == 1
Managed == (conf.lines * conf.portion) \div 100

\* The partition of each way before the partitioner has run.
FirstWays == [w \in 0 .. Ways - 1 |-> (w * conf.parts) \div Ways]

Count(f, x) == Cardinality({id \in DOMAIN f : f[id] = x})

FirstTarget(p) ==
    CASE conf.repl = "WayPart" -> Count(FirstWays, p)
      [] conf.repl = "Vantage" -> Managed \div conf.parts
      [] conf.repl = "IdealLRUPart" -> conf.lines \div conf.parts

FirstPart == IF conf.repl = "Vantage" THEN Unmanaged ELSE 0

Init ==
    /\ conf \in Confs
    /\ st = [addr |-> [id \in Lines |-> 0], ts |-> [id \in Lines |-> 0], bts |-> [id \in Lines |-> 0],
             part |-> [id \in Lines |-> FirstPart], op |-> [id \in Lines |-> FirstPart],
             size |-> [p \in 0 .. Unmanaged |-> IF p = FirstPart THEN conf.lines ELSE 0],
             ext |-> [p \in 0 .. Unmanaged |-> IF p = FirstPart THEN conf.lines ELSE 0],
             target |-> [p \in Parts |-> FirstTarget(p)], long |-> [p \in Parts |-> FirstTarget(p)],
             curBts |-> [p \in Parts |-> 0], setBts |-> [p \in Parts |-> 0], hits |-> [p \in Parts |-> 0],
             cands |-> [p \in Parts |-> 0], dems |-> [p \in Parts |-> 0],
             wayPart |-> FirstWays, timestamp |-> 1,
             list |-> [p \in Parts |-> IF p = 0 THEN [i \in 1 .. conf.lines |-> conf.lines - i] ELSE <<>>]]
    /\ mon = [p \in Parts |-> [stack |-> [b \in 1 .. conf.umonWays |-> 0], hits |-> [b \in 1 .. conf.umonWays |-> 0], misses |-> 0]]
    /\ log = <<[p \in Parts |-> <<>>]>>
    /\ fail = "none"

----------------------------------------------------------------------------
(* UMon: the LRU stack of a partition. *)

MoveToFront(s, b, a) == <<a>> \o SubSeq(s, 1, b - 1) \o SubSeq(s, b + 1, Len(s))

umonAccess_NoMove(m, a) ==
    LET at == {b \in 1 .. conf.umonWays : m.stack[b] = a}
    IN  IF at # {} THEN [m EXCEPT !.hits[Min(at)] = @ + 1]
        ELSE [m EXCEPT !.misses = @ + 1, !.stack = MoveToFront(@, conf.umonWays, a)]

\* UMon::access: a hit counts at its position of the stack; a miss replaces
\* the last address.  Only the sampled addresses are profiled.
umonAccess(m, a) ==
    LET at == {b \in 1 .. conf.umonWays : m.stack[b] = a}
    IN  IF at # {} THEN [m EXCEPT !.hits[Min(at)] = @ + 1, !.stack = MoveToFront(@, Min(at), a)]
        ELSE [m EXCEPT !.misses = @ + 1, !.stack = MoveToFront(@, conf.umonWays, a)]

\* UMonMonitor::access.
monitorAccess(p, a) ==
    /\ mon' = IF a \in conf.sampled THEN [mon EXCEPT ![p] = umonAccess(@, a)] ELSE mon
    /\ log' = [log EXCEPT ![Len(log)][p] = Append(@, a)]

\* UMon::getMisses: the misses with b buckets.
getMisses(p, b) == mon[p].misses + FoldFunctionOnSet(+, 0, mon[p].hits, b + 1 .. conf.umonWays)

\* UMonMonitor::getMissCurve: the curve of the monitor at the partitioner's buckets.
getMissCurve(p, b) ==
    IF conf.umonWays >= conf.buckets THEN getMisses(p, IF b = conf.buckets THEN conf.umonWays ELSE b * (conf.umonWays \div conf.buckets))
    ELSE LET r == conf.buckets \div conf.umonWays
             j == b \div r
         IN  IF b % r = 0 THEN getMisses(p, j)
             ELSE (getMisses(p, j) * (r - (b % r)) + getMisses(p, j + 1) * (b % r)) \div r

\* UMonMonitor::get: missCache holds the curves buckets apart, although each
\* has one more entry; the last one is overwritten by the next partition's first.
get(p, b) == IF b = conf.buckets /\ p + 1 \in Parts THEN getMissCurve(p + 1, 0) ELSE getMissCurve(p, b)

----------------------------------------------------------------------------
(* The lookahead partitioner. *)

\* The utility of k more buckets, a fraction.
Mu(p, alloc, k) == [num |-> (get(p, alloc) - get(p, alloc + k)) % Word, den |-> k, part |-> p]

Greater(x, y) == x.num * y.den > y.num * x.den

\* The first of a sequence with the greatest utility.
BestMu(mus) == FoldLeft(LAMBDA best, x : IF Greater(x, best) THEN x ELSE best, mus[1], mus)

getMaxMarginalUtility(p, alloc, balance) == BestMu([k \in 1 .. balance |-> Mu(p, alloc, k)])

RECURSIVE Distribute(_, _)
Distribute(allocs, balance) ==
    IF balance = 0 THEN allocs
    ELSE LET best == BestMu([i \in 1 .. conf.parts |-> getMaxMarginalUtility(i - 1, allocs[i - 1], balance)])
         IN  Distribute([allocs EXCEPT ![best.part] = @ + best.den], balance - best.den)

computeBestPartitioning_NoMin ==
    Distribute([p \in Parts |-> minAlloc * conf.parts], (conf.portion * conf.buckets) \div 100)

\* computeBestPartitioning as LookaheadPartitioner::partition calls it: the
\* minimum it is given is that of all partitions, and each of them gets it.
computeBestPartitioning ==
    Distribute([p \in Parts |-> minAlloc * conf.parts], (conf.portion * conf.buckets) \div 100 - minAlloc * conf.parts)

----------------------------------------------------------------------------
(* Resizing. *)

Sum(f) == FoldFunction(+, 0, f)

\* WayPartReplPolicy::setPartitionSizes: the ways go to the partitions in order.
WaysInOrder(sizes) ==
    [w \in 0 .. Ways - 1 |->
       Min({p \in Parts : w < FoldFunctionOnSet(+, 0, sizes, 0 .. p)} \cup {conf.parts})]

\* takeOneLine: any partition over its long-term target loses a line of it.
takeOneLine(s) == {[s EXCEPT !.target[p] = @ - 1] : p \in {q \in Parts : s.target[q] > s.long[q]}}

RECURSIVE TakeLines(_, _)
TakeLines(states, n) == IF n = 0 THEN states ELSE TakeLines(UNION {takeOneLine(s) : s \in states}, n - 1)

\* The targets of growing partitions advance with their sizes.
Growing(s, lines) ==
    [p \in Parts |-> IF lines[p] > s.target[p] THEN Max({s.target[p], Min({lines[p], s.size[p] + 1})}) ELSE s.target[p]]

SmoothSizes(lines) ==
    LET grown == Growing(st, lines)
    IN  TakeLines({[st EXCEPT !.long = lines, !.target = grown]}, Sum(grown) - Sum(st.target))

LinesOf(sizes) == [p \in Parts |-> (conf.lines * sizes[p]) \div conf.buckets]

\* The states of the policy after setPartitionSizes; none when it fails.
setPartitionSizes(sizes) ==
    CASE conf.repl = "WayPart" -> {s \in {[st EXCEPT !.target = sizes, !.wayPart = WaysInOrder(sizes)]} : Sum(sizes) = Ways}
      [] conf.repl = "Vantage" /\ conf.smooth -> SmoothSizes(LinesOf(sizes))
      [] conf.repl = "Vantage" /\ ~conf.smooth -> {[st EXCEPT !.target = LinesOf(sizes), !.long = LinesOf(sizes)]}
      [] conf.repl = "IdealLRUPart" -> {[st EXCEPT !.target = LinesOf(sizes)]}

\* LookaheadPartitioner::partition, run by the event queue.  The new sizes are
\* taken whatever their utility.
partition ==
    /\ Len(log) <= MaxIntervals
    /\ \E sizes \in {computeBestPartitioning} :
         \E after \in {setPartitionSizes(sizes)} :
           IF after = {} THEN fail' = "sizes" /\ UNCHANGED <<st, mon, log>>
           ELSE /\ st' \in after
                /\ mon' = [p \in Parts |-> [mon[p] EXCEPT !.hits = [b \in 1 .. conf.umonWays |-> 0], !.misses = 0]]
                /\ log' = Append(log, [p \in Parts |-> <<>>])
                /\ fail' = fail
    /\ UNCHANGED conf

----------------------------------------------------------------------------
(* WayPart. *)

\* WayPartReplPolicy::recordCandidate: x is a better victim than the best so far.
WayBetter(x, best, p) ==
    IF conf.test \/ ((st.part[x] = p) = (st.part[best] = p)) THEN st.ts[x] < st.ts[best] ELSE st.part[x] # p

Fillable(p) == SelectSeq([w \in 1 .. Ways |-> w - 1], LAMBDA w : conf.test \/ st.wayPart[w] = p)

WayVictim(p) ==
    IF Fillable(p) = <<>> THEN -1
    ELSE FoldLeft(LAMBDA best, x : IF WayBetter(x, best, p) THEN x ELSE best, Head(Fillable(p)), Fillable(p))

Touch(s, id) == [s EXCEPT !.ts[id] = s.timestamp, !.timestamp = @ + 1]

\* A line changes its partition.
Move(s, id, p) == [s EXCEPT !.size = [@ EXCEPT ![s.part[id]] = @ - 1], !.part[id] = p]

Join(s, p) == [s EXCEPT !.size = [@ EXCEPT ![p] = @ + 1]]

WayInsert(s, id, p) == Touch(Join(Move(s, id, p), p), id)

----------------------------------------------------------------------------
(* Vantage. *)

\* The aperture at the end of an interval, a fraction: the slack is 10 per
\* cent of the target, the greatest aperture one half.
Aperture(s, p) ==
    IF 10 * s.size[p] >= 11 * s.target[p] THEN [num |-> 1, den |-> 2]
    ELSE [num |-> 5 * (s.size[p] - s.target[p]), den |-> s.target[p]]

\* A setpoint below zero wraps around, and is then not below the current
\* timestamp.
Setpoint(s, p, ap) ==
    CASE ap.num > 0 /\ s.dems[p] * ap.den < ap.num * s.cands[p] /\ s.setBts[p] >= 0 /\ s.setBts[p] < s.curBts[p] -> s.setBts[p] + 1
      [] ap.num > 0 /\ s.dems[p] * ap.den > ap.num * s.cands[p] /\ s.curBts[p] - s.setBts[p] < BtsRange - 1 -> s.setBts[p] - 1
      [] OTHER -> s.setBts[p]

Adjust(s, p) ==
    IF s.cands[p] < Interval THEN s
    ELSE [s EXCEPT !.setBts[p] = Setpoint(s, p, Aperture(s, p)), !.cands[p] = 0, !.dems[p] = 0]

Below(s, id, p) == (s.curBts[p] - s.bts[id]) % BtsRange >= (s.curBts[p] - s.setBts[p]) % BtsRange

Demote(s, id, p) ==
    IF Below(s, id, p)
      THEN [s EXCEPT !.size = [@ EXCEPT ![p] = @ - 1, ![Unmanaged] = @ + 1], !.part[id] = Unmanaged,
                     !.dems[p] = @ + 1, !.cands[p] = @ + 1]
      ELSE [s EXCEPT !.cands[p] = @ + 1]

\* One candidate of getBestCandidate's first loop.
DemoteStep(s, id) ==
    IF s.ts[id] = 0 \/ s.part[id] = Unmanaged \/ s.size[s.part[id]] <= s.target[s.part[id]] THEN s
    ELSE Adjust(Demote(s, id, s.part[id]), s.part[id])

Demoted == FoldLeft(DemoteStep, st, [i \in 1 .. conf.lines |-> i - 1])

\* The second loop: an empty line, else the oldest unmanaged one, else the oldest.
VantageVictim(s) ==
    LET empty == {id \in Lines : s.ts[id] = 0}
        unmanaged == {id \in Lines : s.part[id] = Unmanaged}
        oldest(ids) == CHOOSE id \in ids : \A x \in ids : s.ts[id] <= s.ts[x]
    IN  IF empty # {} THEN Min(empty) ELSE IF unmanaged # {} THEN oldest(unmanaged) ELSE oldest(Lines)

Promote_KeepUnmanaged(s, id, p) == IF s.part[id] = Unmanaged THEN Join([s EXCEPT !.part[id] = p], p) ELSE s

\* A hit brings a line of the unmanaged region back into a partition.
Promote(s, id, p) == IF s.part[id] = Unmanaged THEN Join(Move(s, id, p), p) ELSE s

\* The partition's coarse timestamp advances with its hits.
Coarse(s, id) ==
    LET p == s.part[id]
        t == [s EXCEPT !.bts[id] = s.curBts[p], !.hits[p] = @ + 1]
    IN  IF t.hits[p] >= t.size[p] \div BtsShare
          THEN [t EXCEPT !.curBts[p] = @ + 1, !.setBts[p] = @ + 1, !.hits[p] = 0] ELSE t

VantageHit(s, id, p) == Coarse(Touch(Promote(s, id, p), id), id)

Extend(s, id, p) ==
    [s EXCEPT !.ext = [[@ EXCEPT ![s.op[id]] = @ - 1] EXCEPT ![p] = @ + 1], !.op[id] = p, !.bts[id] = 0]

\* With smoothTransients an insertion into a growing partition takes a line
\* from a shrinking one.
Grow(s, p) == IF s.target[p] < s.long[p] THEN takeOneLine([s EXCEPT !.target[p] = @ + 1]) ELSE {s}

VantageInsert(s, id, p) == {Coarse(t, id) : t \in Grow(Touch(Join(Move(Extend(s, id, p), id, p), p), id), p)}

----------------------------------------------------------------------------
(* IdealLRUPart. *)

Diff_Size(p) == [num |-> st.size[p], den |-> conf.lines, part |-> p]

\* The share by which a partition exceeds its target.
Diff(p) == [num |-> st.size[p] - st.target[p], den |-> st.target[p] + 1, part |-> p]

\* rank: the partition most over its target, else the one that misses.
IdealVictimPart(p) ==
    LET first == IF st.size[p] = 0 THEN [num |-> -2, den |-> 1, part |-> p] ELSE [num |-> 0, den |-> 1, part |-> p]
        diffs == [i \in 1 .. conf.parts |-> Diff(i - 1)]
    IN  FoldLeft(LAMBDA best, x : IF Greater(x, best) /\ st.size[x.part] > 0 THEN x ELSE best, first, diffs).part

ToFront(s, id, p) == [s EXCEPT !.list[p] = <<id>> \o SelectSeq(@, LAMBDA x : x # id)]

IdealInsert(s, id, p) ==
    ToFront(Join(Move([s EXCEPT !.list[s.part[id]] = SelectSeq(@, LAMBDA x : x # id)], id, p), p), id, p)

----------------------------------------------------------------------------
(* Accesses. *)

Room == FoldSeq(LAMBDA interval, n : n + FoldFunction(LAMBDA s, k : k + Len(s), 0, interval), 0, log) < conf.accesses

Hit(a) == {id \in Lines : st.addr[id] = a}

AfterHit(id, p) ==
    CASE conf.repl = "WayPart" -> Touch(st, id)
      [] conf.repl = "Vantage" -> VantageHit(st, id, p)
      [] conf.repl = "IdealLRUPart" -> ToFront(st, id, st.part[id])

\* update() on a hit.
hit(p, a) ==
    /\ Hit(a) # {}
    /\ \E id \in Hit(a) :
         /\ st' = AfterHit(id, p)
         /\ monitorAccess(st'.part[id], a)
    /\ UNCHANGED <<conf, fail>>

Chosen(p) ==
    CASE conf.repl = "WayPart" -> [state |-> st, id |-> WayVictim(p)]
      [] conf.repl = "Vantage" -> [state |-> Demoted, id |-> VantageVictim(Demoted)]
      [] conf.repl = "IdealLRUPart" ->
           [state |-> st, id |-> IF st.list[IdealVictimPart(p)] = <<>> THEN -1 ELSE Last(st.list[IdealVictimPart(p)])]

AfterInsert(s, id, p) ==
    CASE conf.repl = "WayPart" -> {WayInsert(s, id, p)}
      [] conf.repl = "Vantage" -> VantageInsert(s, id, p)
      [] conf.repl = "IdealLRUPart" -> {IdealInsert(s, id, p)}

\* A miss: rank, replaced() and update(), with nothing in between that the
\* policies see.
miss(p, a) ==
    /\ Hit(a) = {}
    /\ \E c \in {Chosen(p)} :
         IF c.id = -1 THEN fail' = "rank" /\ UNCHANGED <<st, mon, log>>
         ELSE \E after \in {AfterInsert([c.state EXCEPT !.addr[c.id] = a], c.id, p)} :
                IF after = {} THEN fail' = "takeOneLine" /\ UNCHANGED <<st, mon, log>>
                ELSE st' \in after /\ monitorAccess(p, a) /\ fail' = fail
    /\ UNCHANGED conf

Next ==
    /\ fail = "none"
    /\ \/ Room /\ \E p \in Parts, a \in Addrs : hit(p, a) \/ miss(p, a)
       \/ partition

Spec == Init /\ [][Next]_vars

----------------------------------------------------------------------------
(* Properties. *)

\* The sizes that update(), getBestCandidate() and the promotions keep by
\* increments are the numbers of lines; the lists of IdealLRUPart hold the
\* lines of their partitions; the sums of the short-term targets survive
\* smoothTransients; a setpoint stays within the range of the timestamps.
SizesExact ==
    /\ \A p \in 0 .. Unmanaged : st.size[p] = Count(st.part, p)
    /\ conf.repl = "Vantage" =>
         /\ \A p \in 0 .. Unmanaged : st.ext[p] = Count(st.op, p)
         /\ conf.smooth => Sum(st.target) = conf.parts * FirstTarget(0)
         /\ \A p \in Parts : st.curBts[p] - st.setBts[p] \in 0 .. BtsRange - 1
    /\ conf.repl = "IdealLRUPart" =>
         \A p \in Parts : IsInjective(st.list[p]) /\ Range(st.list[p]) = {id \in Lines : st.part[id] = p}

\* The stack distance of an access in a sequence of accesses.
Distance(s, i) ==
    LET before == {j \in 1 .. i - 1 : s[j] = s[i]}
    IN  IF before = {} THEN conf.umonWays ELSE Cardinality({s[j] : j \in Max(before) + 1 .. i - 1})

Sampled(s) == SelectSeq(s, LAMBDA a : a \in conf.sampled)

\* The miss curve of a partition is the one that the accesses of the interval
\* would have with b buckets under LRU, at the monitor's own buckets.
MissCurveExact ==
    \A p \in Parts : \A b \in 0 .. conf.umonWays :
      \E all \in {Sampled(FlattenSeq([i \in 1 .. Len(log) |-> log[i][p]]))} :
        getMisses(p, b) = Cardinality({i \in 1 .. Len(all) : i > Len(all) - Len(Sampled(Last(log)[p])) /\ Distance(all, i) >= b})

\* A partition loses a line to another's miss only if it is over its target, or
\* no partition is: the victim of IdealLRUPart; Vantage takes a managed line only
\* when no line is empty or unmanaged.
VictimOverTarget ==
    fail = "none" =>
      /\ conf.repl = "IdealLRUPart" =>
           \A p \in Parts : \E v \in {IdealVictimPart(p)} :
             st.size[v] > st.target[v] \/ \A q \in Parts : st.size[q] <= st.target[q]
      /\ conf.repl = "Vantage" =>
           \E d \in {Demoted} : d.part[VantageVictim(d)] # Unmanaged => \A id \in Lines : d.ts[id] > 0 /\ d.part[id] # Unmanaged

\* The partitioner gives away what there is, so that all ways are assigned and
\* takeOneLine finds a partition to take from (the assertion curWay == ways).
WaysAssigned == fail # "sizes"

\* Without the surplus of the lookahead's minimum, which only a single
\* partition avoids, no assertion fails.
FailsOnlyBySurplus == fail # "none" => conf.parts > 1 /\ (fail = "rank" => conf.parts > Ways)
=============================================================================
