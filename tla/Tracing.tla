------------------------------- MODULE Tracing -------------------------------
(***************************************************************************)
(* Access traces (access_tracing, tracing_cache, sorttrace, trace_driver): *)
(* a shared cache records the accesses of its children, a tool sorts the   *)
(* trace by cycle, and a driver replays it against a new parent, phase by  *)
(* phase.                                                                  *)
(*                                                                         *)
(* The three programs run one after another; `stage` says which.  A file   *)
(* is a sequence of records.  The shared cache is the directory of its     *)
(* top coherence controller, which may evict any line to make room.        *)
(***************************************************************************)
EXTENDS Integers, Sequences, FiniteSets, FiniteSetsExt, SequencesExt

CONSTANTS
    Children,       \* 0 .. n - 1, n the streams of the trace
    Lines,
    Gaps,           \* cycles between two accesses of a child
    Garbage,        \* what memory that is not initialised may hold
    ChunkSize,      \* records of a chunk of a file, 256K in the code
    ReadAhead,      \* records the sorter reads at least, 1024 in the code
    PhaseLength,
    Confs           \* settings: useSkews, playPuts, playAllGets; and what is recorded: the
                    \* children, the lines, latencies of the parent, and how many records

VARIABLES
    stage,
    conf,
    held,       \* what each child holds: the real children, then cStore
    dir,        \* line -> sharers, and whether there is one with exclusive rights
    cyc,        \* child -> cycle of its next access
    file,       \* the trace that is being written: records on disk, buffer, whether it is finished
    reader,     \* the trace that is being read: cur, max, curFrameRecord
    trace,      \* the records of the trace that is being read
    accs,       \* child -> queue of the sorter
    play,       \* the driver: acc and lastAcc (sequences of one record or none), phase cycle, skew
    seen        \* history: records read by the sorter, replayed by the driver, in their phase or not, and failures

vars == <<stage, conf, held, dir, cyc, file, reader, trace, accs, play, seen>>

None == "none"
NoLine == [sharers |-> {}, excl |-> FALSE]
Empty == [disk |-> <<>>, buf |-> <<>>, finished |-> FALSE]
NoReader == [cur |-> 0, max |-> 0, frame |-> 0]
Min2(a, b) == IF a <= b THEN a ELSE b

NewDriver(g) == [acc |-> <<>>, last |-> <<>>, glob |-> 0, skew |-> [c \in Children |-> g]]

Init ==
    /\ stage = "record"
    /\ conf \in {c \in Confs : c.useSkews => Cardinality(c.children) = 1}
    /\ held = [c \in Children |-> [l \in Lines |-> "I"]]
    /\ dir = [l \in Lines |-> NoLine]
    /\ cyc = [c \in Children |-> 0]
    /\ file = Empty
    /\ reader = NoReader
    /\ trace = <<>>
    /\ accs = [c \in Children |-> <<>>]
    /\ play = NewDriver(0)
    /\ seen = [read |-> <<>>, replayed |-> <<>>, punctual |-> TRUE, failed |-> None]

-----------------------------------------------------------------------------
(* Files *)

dump(f, cont) == [disk |-> f.disk \o f.buf, buf |-> <<>>, finished |-> ~cont]

write(f, rec) ==
    LET g == [f EXCEPT !.buf = Append(@, rec)] IN
    IF Len(g.buf) = ChunkSize THEN dump(g, TRUE) ELSE g

open(recs) == [cur |-> 0, max |-> Min2(ChunkSize, Len(recs)), frame |-> 0]

AtEnd(r) == r.cur = r.max
Record(r) == trace[r.frame + r.cur + 1]

nextChunk(r) ==
    IF r.frame + r.max < Len(trace)
    THEN [cur |-> 0, max |-> Min2(ChunkSize, Len(trace) - r.frame - r.max), frame |-> r.frame + r.max]
    ELSE [r EXCEPT !.frame = r.frame + r.max]

\* The reader once it has given a record.
Moved(r) == LET s == [r EXCEPT !.cur = @ + 1] IN IF AtEnd(s) THEN nextChunk(s) ELSE s

-----------------------------------------------------------------------------
(* The shared cache, on h and d, copies of held and dir.  The children lose *)
(* a line when they are invalidated: TraceDriver::invalidate for the driver *)

Exclusive(d, l) == d[l].excl /\ Cardinality(d[l].sharers) = 1

Grant(hd, c, l, state, sharers, excl) ==
    [hd EXCEPT !.h[c][l] = state, !.d[l] = [sharers |-> sharers, excl |-> excl]]

\* Faulty form: a downgraded child is dropped.
invalidate_Downgraded(hd, l, cs, type) == [hd EXCEPT !.h = [c \in Children |-> [@[c] EXCEPT ![l] = IF c \in cs THEN "I" ELSE @]]]

\* An invalidation, or a downgrade, of line l in children cs.
invalidate(hd, l, cs, type) ==
    [hd EXCEPT !.h = [c \in Children |-> [@[c] EXCEPT ![l] = IF c \notin cs THEN @ ELSE IF type = "INVX" THEN "S" ELSE "I"]],
               !.fail = IF \E c \in cs : hd.h[c][l] = "I" THEN "absent" ELSE @]

Evict(hd, l) == [invalidate(hd, l, hd.d[l].sharers, "INV") EXCEPT !.d[l] = NoLine]

GETS(hd, c, l) ==
    LET e == hd.d[l] IN
    CASE c \in e.sharers -> [hd EXCEPT !.fail = "gets"]
      [] e.sharers = {} -> Grant(hd, c, l, "E", {c}, TRUE)
      [] OTHER -> Grant(IF Exclusive(hd.d, l) THEN invalidate(hd, l, e.sharers, "INVX") ELSE hd, c, l, "S", e.sharers \union {c}, FALSE)

GETX(hd, c, l) ==
    IF c \in hd.d[l].sharers /\ Exclusive(hd.d, l) THEN [hd EXCEPT !.fail = "getx"]
    ELSE Grant(invalidate(hd, l, hd.d[l].sharers \ {c}, "INV"), c, l, "M", {c}, TRUE)

PUT(hd, c, l, type) ==
    CASE type = "PUTX" /\ ~Exclusive(hd.d, l) -> [hd EXCEPT !.fail = "putx"]
      [] c \notin hd.d[l].sharers -> [hd EXCEPT !.fail = "put"]
      [] OTHER -> Grant(hd, c, l, "I", hd.d[l].sharers \ {c}, hd.d[l].excl)

Parent(hd, c, l, type) ==
    CASE type = "GETS" -> GETS(hd, c, l)
      [] type = "GETX" -> GETX(hd, c, l)
      [] OTHER -> PUT(hd, c, l, type)

\* A GET of a line that is not there may evict another.
Rooms(hd, l, type) ==
    IF type \in {"GETS", "GETX"} /\ hd.d[l].sharers = {}
    THEN {hd} \union {Evict(hd, v) : v \in {v \in Lines \ {l} : hd.d[v].sharers # {}}}
    ELSE {hd}

Now == [h |-> held, d |-> dir, fail |-> None]

-----------------------------------------------------------------------------
(* Recording *)

\* What a child that holds a line in this state asks of its parent.
Asks(state) ==
    CASE state = "I" -> {"GETS", "GETX"}
      [] state = "S" -> {"GETX", "PUTS"}
      [] state = "E" -> {"PUTS"}
      [] OTHER -> {"PUTX"}

\* TracingCache::access: the access, then its record.
access(c, l, lat) ==
    /\ stage = "record" /\ Len(file.disk \o file.buf) < conf.records
    /\ c \in conf.children /\ l \in conf.lines
    /\ \E type \in Asks(held[c][l]), g \in Gaps :
       \E hd \in Rooms(Now, l, type) :
       \E after \in {Parent(hd, c, l, type)} :
          /\ held' = after.h
          /\ dir' = after.d
          /\ file' = write(file, [child |-> c, line |-> l, type |-> type, cycle |-> cyc[c] + g, lat |-> lat])
          /\ cyc' = [cyc EXCEPT ![c] = @ + g + (IF type \in {"GETS", "GETX"} THEN lat ELSE 0)]
    /\ UNCHANGED <<stage, conf, reader, trace, accs, play, seen>>

\* A store that hits a line held in E: the child tells nobody.
Store(c, l) ==
    /\ stage = "record" /\ held[c][l] = "E"
    /\ held' = [held EXCEPT ![c][l] = "M"]
    /\ UNCHANGED <<stage, conf, dir, cyc, file, reader, trace, accs, play, seen>>

\* The end of the recording simulation flushes the trace, and the sorter opens it.
\* Nothing but the file outlives the simulation.
SimEnd ==
    /\ stage = "record" /\ file.disk \o file.buf # <<>>
    /\ \E f \in {dump(file, FALSE)} : trace' = f.disk /\ reader' = open(f.disk)
    /\ stage' = "sort"
    /\ file' = Empty
    /\ held' = [c \in Children |-> [l \in Lines |-> "I"]]
    /\ dir' = [l \in Lines |-> NoLine]
    /\ cyc' = [c \in Children |-> 0]
    /\ UNCHANGED <<conf, accs, play, seen>>

-----------------------------------------------------------------------------
(* Sorting *)

Heads == {c \in Children : accs[c] # <<>>}

\* Children with records to come; the header of the trace counts every child.
FillHeads ==
    /\ stage = "sort" /\ ~AtEnd(reader) /\ Heads # conf.children
    /\ \E n \in {Min2(ReadAhead, Len(trace) - reader.frame - reader.cur)} :
       \E rs \in {FoldFunction(LAMBDA k, s : Append(s, Moved(Last(s))), <<reader>>, [k \in 1 .. n |-> k])} :
       \E new \in {[k \in 1 .. n |-> Record(rs[k])]} :
          /\ reader' = rs[n + 1]
          /\ accs' = [c \in Children |-> accs[c] \o SelectSeq(new, LAMBDA a : a.child = c)]
          /\ seen' = [seen EXCEPT !.read = @ \o new]
    /\ UNCHANGED <<stage, conf, held, dir, cyc, file, trace, play>>

\* Faulty form: the head with the latest access goes first.
Later_Sign(c, d) == accs[c][1].cycle >= accs[d][1].cycle

\* The order of the heap of heads: earliest access first, largest child among equals.
Later(c, d) ==
    \/ accs[c][1].cycle < accs[d][1].cycle
    \/ accs[c][1].cycle = accs[d][1].cycle /\ c >= d

WriteHead ==
    /\ stage = "sort" /\ Heads # {} /\ (Heads = conf.children \/ AtEnd(reader))
    /\ LET c == CHOOSE x \in Heads : \A d \in Heads : Later(x, d)
       IN  /\ file' = write(file, accs[c][1])
           /\ accs' = [accs EXCEPT ![c] = Tail(@)]
    /\ UNCHANGED <<stage, conf, held, dir, cyc, reader, trace, play, seen>>

\* The sorted trace is flushed, and a driver with empty children opens it.  The
\* skews of its children are not initialised.
SortEnd ==
    /\ stage = "sort" /\ AtEnd(reader) /\ Heads = {}
    /\ \E f \in {dump(file, FALSE)} : trace' = f.disk /\ reader' = open(f.disk)
    /\ stage' = "load"
    /\ \E g \in Garbage : play' = NewDriver(g)
    /\ file' = Empty
    /\ UNCHANGED <<conf, held, dir, cyc, accs, seen>>

-----------------------------------------------------------------------------
(* Replaying *)

limit == play.glob + PhaseLength
Skewed(rec, skew) == IF conf.useSkews THEN [rec EXCEPT !.cycle = @ + skew[rec.child]] ELSE rec

\* executePhase takes the access it kept, or the next of the trace.
LoadAccess ==
    /\ stage = "load"
    /\ IF play.last # <<>>
       THEN play' = [play EXCEPT !.acc = play.last, !.last = <<>>] /\ stage' = "replay" /\ UNCHANGED reader
       ELSE IF AtEnd(reader) THEN stage' = "done" /\ UNCHANGED <<play, reader>>
       ELSE /\ play' = [play EXCEPT !.acc = <<Skewed(Record(reader), play.skew)>>]
            /\ reader' = Moved(reader)
            /\ stage' = "replay"
    /\ UNCHANGED <<conf, held, dir, cyc, file, trace, accs, seen>>

\* What executeAccess does with a record: the requests it makes, in order.
Requests(acc) ==
    LET state == held[acc.child][acc.line] IN
    CASE acc.type \in {"PUTS", "PUTX"} -> IF ~conf.playPuts \/ state = "I" THEN <<>> ELSE <<acc.type>>
      [] acc.type \in {"GETS", "GETX"} /\ (state = "I" \/ (state = "S" /\ acc.type = "GETX")) -> <<acc.type>>
      [] OTHER -> IF conf.playAllGets THEN <<IF state = "M" THEN "PUTX" ELSE "PUTS", acc.type>> ELSE <<>>

\* Faulty form: the skew is the latency, not what it adds to the recorded one.
NewSkew_Whole(acc, lat) == [play.skew EXCEPT ![acc.child] = @ + lat]

NewSkew(acc, lat) == [play.skew EXCEPT ![acc.child] = @ + lat - acc.lat]

\* The access is written to a second trace, with its new cycle and latency.
Retrace(acc, lat, skew) ==
    write(file, [acc EXCEPT !.cycle = IF conf.useSkews THEN @ ELSE @ + skew[acc.child], !.lat = lat])

\* History: the access with its new latency, and whether its phase is the right one.
Replayed(acc, lat, fail) ==
    [seen EXCEPT !.replayed = Append(@, [acc EXCEPT !.lat = lat]), !.punctual = @ /\ acc.cycle >= play.glob, !.failed = fail]

\* The next record is loaded, or the trace is over.
NextAccess(skew) ==
    IF AtEnd(reader)
    THEN stage' = "done" /\ play' = [play EXCEPT !.acc = <<>>, !.skew = skew] /\ UNCHANGED reader
    ELSE /\ play' = [play EXCEPT !.acc = <<Skewed(Record(reader), skew)>>, !.skew = skew]
         /\ reader' = Moved(reader)
         /\ UNCHANGED stage

executeAccess(lat) ==
    /\ stage = "replay" /\ play.acc[1].cycle < limit
    /\ \E acc \in {play.acc[1]} : \E reqs \in {Requests(acc)} :
       \E put \in {IF Len(reqs) = 2 THEN Parent(Now, acc.child, acc.line, reqs[1]) ELSE Now} :
       \E room \in (IF reqs = <<>> THEN {put} ELSE Rooms(put, acc.line, Last(reqs))) :
       \E after \in {IF reqs = <<>> THEN put ELSE Parent(room, acc.child, acc.line, Last(reqs))} :
       \E skew \in {IF reqs # <<>> /\ acc.type \in {"GETS", "GETX"} THEN NewSkew(acc, lat) ELSE play.skew} :
          /\ held' = after.h
          /\ dir' = after.d
          /\ seen' = Replayed(acc, IF reqs = <<>> THEN acc.lat ELSE lat, after.fail)
          /\ IF after.fail # None THEN stage' = "failed" /\ UNCHANGED <<play, reader, file>>
             ELSE NextAccess(skew) /\ file' = IF reqs = <<>> THEN file ELSE Retrace(acc, lat, skew)
    /\ UNCHANGED <<conf, cyc, trace, accs>>

\* The access is kept for a later phase, and the phase ends.
EndOfPhase ==
    /\ stage = "replay" /\ play.acc[1].cycle >= limit
    /\ play' = [play EXCEPT !.last = play.acc, !.acc = <<>>, !.glob = limit]
    /\ stage' = "load"
    /\ UNCHANGED <<conf, held, dir, cyc, file, reader, trace, accs, seen>>

Next ==
    \/ \E c \in Children, l \in Lines : Store(c, l) \/ \E lat \in conf.lats : access(c, l, lat)
    \/ SimEnd \/ FillHeads \/ WriteHead \/ SortEnd \/ LoadAccess \/ EndOfPhase
    \/ \E lat \in conf.lats : executeAccess(lat)

Spec == Init /\ [][Next]_vars

-----------------------------------------------------------------------------
(* Properties *)

OfChild(s, c) == SelectSeq(s, LAMBDA a : a.child = c)
Sorted(s) == \A i \in 1 .. Len(s) - 1 : s[i].cycle <= s[i + 1].cycle

\* The sorted trace holds the records of the trace that was recorded, all of them
\* and no other, those of a child in their order, by increasing cycles: at the ends
\* of chunks, and when a child runs out of records before the others (sorttrace main,
\* AccessTraceReader::read, AccessTraceWriter::write).
SortedWhole ==
    stage = "load" /\ play.glob = 0 =>
        Sorted(trace) /\ \A c \in Children : OfChild(trace, c) = OfChild(seen.read, c)

\* Every record is replayed once, in order, in the phase its cycle falls in; and
\* with skews the child waits as long after a response as it did when it was
\* recorded, whatever the new latencies (TraceDriver::executePhase, executeAccess).
Waited(a, b) == b.cycle - a.cycle - (IF a.type \in {"GETS", "GETX"} THEN a.lat ELSE 0)

ReplayFaithful ==
    /\ seen.punctual
    /\ \A i \in 1 .. Len(seen.replayed) :
          /\ [seen.replayed[i] EXCEPT !.cycle = 0, !.lat = 0] = [trace[i] EXCEPT !.cycle = 0, !.lat = 0]
          /\ i > 1 => Waited(seen.replayed[i - 1], seen.replayed[i]) = Waited(trace[i - 1], trace[i]) \/ ~conf.useSkews
          /\ conf.useSkews \/ seen.replayed[i].cycle = trace[i].cycle
    /\ stage = "done" => Len(seen.replayed) = Len(trace)

\* What the driver holds for each child is what the directory of the parent says,
\* and no assertion of the two fails but one: a PUTX that sorting moved after the
\* GETS of another child finds the line shared (MESITopCC::processAccess).
ReplayAgrees ==
    /\ stage # "failed" => \A c \in Children, l \in Lines :
          /\ c \in dir[l].sharers <=> held[c][l] # "I"
          /\ held[c][l] \in {"E", "M"} => Exclusive(dir, l)
    /\ seen.failed \in {None, "putx"}

\* No assertion fails at all.
AssertionsHold == seen.failed = None

=============================================================================
