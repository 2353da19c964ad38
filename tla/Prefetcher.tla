----------------------------- MODULE Prefetcher ------------------------------
(***************************************************************************)
(* The stream prefetcher (prefetcher): it sits between two levels of the   *)
(* hierarchy, tracks the stride within a few pages, and follows a demand   *)
(* access by up to two prefetches, whose response times it keeps for the   *)
(* demand accesses to come.                                                *)
(*                                                                         *)
(* Parents answer with chosen latencies, and may leave a timing record.    *)
(* Numbers are those of a machine with 32-bit words, narrowed to Word.     *)
(***************************************************************************)
EXTENDS Integers, FiniteSets, FiniteSetsExt

CONSTANTS
    Pages,          \* numbers other than 0, which no program maps
    Lines,          \* lines of a page, 64 in the code
    Entries,        \* pages tracked, 16 in the code
    Warm,           \* how far ahead the last response protects an entry, 500 in the code
    Lats,           \* latencies of the parent
    Gaps,           \* cycles between two accesses
    Word,
    MaxAccesses

VARIABLES tag, array, timestamp, cycle, seen

vars == <<tag, array, timestamp, cycle, seen>>

None == -1
MaxConf == 3
Confident == 2
Max2(a, b) == IF a >= b THEN a ELSE b

\* Arrays come from calloc: the constructors of the counters are not run.
Zero == [stride |-> 0, conf |-> 0, times |-> [p \in 0 .. Lines - 1 |-> None], lastPos |-> 0, lastLastPos |-> 0,
         lastPf |-> 0, lastCycle |-> 0, ts |-> 0]

\* `seen` is history: accesses so far; whether a division by zero, or a record
\* pushed over another, was met; and whether a demand access was answered before
\* the prefetch of its line.
Init ==
    /\ tag = [i \in 0 .. Entries - 1 |-> 0]
    /\ array = [i \in 0 .. Entries - 1 |-> Zero]
    /\ timestamp = 0
    /\ cycle = 0
    /\ seen = [n |-> 0, failed |-> FALSE, early |-> FALSE]

alloc(pos) ==
    [Zero EXCEPT !.stride = 1, !.conf = 1, !.lastCycle = cycle, !.lastPos = pos, !.ts = timestamp]

Candidates == {i \in 0 .. Entries - 1 : array[i].lastCycle <= cycle + Warm}
Oldest(S) == Min({i \in S : \A j \in S : array[i].ts <= array[j].ts})

-----------------------------------------------------------------------------
(* A hit on an entry, as functions on a record of the access: e the entry,  *)
(* pos the line, resp the cycle of the response, short whether the prefetch *)
(* of this line is still on its way, recs the records left, n the ones that *)
(* wait to be taken.                                                        *)

PrefetchHit(a) ==
    LET t == a.e.times[a.pos]
    IN  IF t = None THEN a
        ELSE [a EXCEPT !.short = t > a.resp, !.resp = Max2(t, a.resp),
                       !.e.times[a.pos] = None, !.e.lastCycle = Max2(@, Max2(t, a.resp))]

\* Subtraction and division of unsigned numbers, read as a signed number.
Signed(n) == IF n >= Word \div 2 THEN n - Word ELSE n
UDiv(x, y) == Signed((x % Word) \div (y % Word))

\* Faulty form: a line accessed twice switches the stride to zero.
Switches_Zero(e, stride) == e.conf < Confident /\ stride # e.stride /\ stride = e.lastPos - e.lastLastPos

Switches(e, stride) ==
    e.conf < Confident /\ stride # 0 /\ stride # e.stride /\ stride = e.lastPos - e.lastLastPos

Dec(n) == Max2(n - 1, 0)
Inc(n) == IF n < MaxConf THEN n + 1 ELSE n

\* Another stride: confidence falls, and the stride may change.
Mismatch(e, pos, stride) ==
    LET d == [e EXCEPT !.conf = Dec(@), !.lastPf = pos]
    IN  IF Switches(d, stride) THEN [d EXCEPT !.conf = 1, !.stride = stride] ELSE d

Moved(e, pos) == [e EXCEPT !.lastLastPos = e.lastPos, !.lastPos = pos]

Depth(e, stride) == UDiv(e.lastPf - e.lastPos, stride)

\* Where to prefetch: past the last prefetch, or after this line.
Target(e, pos, stride) ==
    (IF Depth(e, stride) < 1 THEN pos + stride ELSE e.lastPf + stride) % Word

Wanted(e, p) == p < Lines /\ e.times[p] = None

\* Faulty form: the record of the second prefetch is left where it is.
TakeRecords_First(a, second) == [a EXCEPT !.n = (IF second /\ a.recs.second THEN 1 ELSE 0)]

\* The records of the accesses are taken as they come, and hang below an event
\* of the prefetcher, which is pushed in their place.
TakeRecords(a, second) == [a EXCEPT !.n = 0]

Push(a) == [a EXCEPT !.failed = @ \/ a.n > 0, !.n = 1]

\* The prefetch, and another if this line was late: the answer to the demand
\* access is the latest of their responses.  The cycle of the demand record is
\* read even if there is none.
Prefetch(a, p, stride, garbage) ==
    LET first == Max2(cycle + a.lats.first, IF a.recs.demand THEN cycle ELSE garbage)
        second == Max2(first, cycle + a.lats.second)
        q == (p + stride) % Word
        deep == Depth(a.e, stride)
        double == a.short /\ (IF deep < 1 THEN 1 ELSE deep) < 8 /\ Wanted(a.e, q)
        one == [a.e EXCEPT !.times[p] = first, !.lastPf = p]
        two == [one EXCEPT !.times[q] = second, !.lastPf = q]
    IN  Push(TakeRecords([a EXCEPT !.e = IF double THEN two ELSE one, !.answer = IF double THEN second ELSE first], double))

\* A page that is tracked: the entry moves on, unless a prefetch is made.
Train(a, stride, garbage) ==
    LET e == [a.e EXCEPT !.conf = Inc(@)] IN
    CASE a.e.stride # stride -> [a EXCEPT !.e = Moved(Mismatch(a.e, a.pos, stride), a.pos)]
      [] a.e.stride = stride /\ e.conf >= Confident /\ stride = 0 -> [a EXCEPT !.failed = TRUE]
      [] a.e.stride = stride /\ e.conf >= Confident /\ stride # 0 /\ Wanted(e, Target(e, a.pos, stride)) ->
            Prefetch([a EXCEPT !.e = e], Target(e, a.pos, stride), stride, garbage)
      [] OTHER -> [a EXCEPT !.e = Moved(e, a.pos)]

-----------------------------------------------------------------------------
(* Accesses *)

\* A GETS: `lats` and `recs` are what the parent does with the demand access and
\* with the prefetches.
Asked(e, pos, lats, recs) ==
    [e |-> e, pos |-> pos, lats |-> lats, recs |-> recs, resp |-> cycle + lats.demand, answer |-> cycle + lats.demand,
     short |-> FALSE, n |-> 0, failed |-> FALSE]

Answers == [demand : Lats, first : Lats, second : Lats]
Recs == [demand : BOOLEAN, second : BOOLEAN]

Count(failed, early) ==
    seen' = [n |-> seen.n + 1, failed |-> seen.failed \/ failed, early |-> seen.early \/ early]

EntryHit(page, pos) ==
    LET i == Max({j \in 0 .. Entries - 1 : tag[j] = page}) IN
    \E lats \in Answers, recs \in Recs, garbage \in {0, cycle + 3} :
    \E a \in {PrefetchHit(Asked([array[i] EXCEPT !.ts = timestamp], pos, lats, recs))} :
    \E b \in {Train(a, pos - a.e.lastPos, garbage)} :
        /\ array' = [array EXCEPT ![i] = b.e]
        /\ Count(b.failed, array[i].times[pos] # None /\ b.answer < array[i].times[pos])
        /\ timestamp' = timestamp + 1
        /\ UNCHANGED tag

EntryMiss(page, pos) ==
    /\ \A j \in 0 .. Entries - 1 : tag[j] # page
    /\ Count(FALSE, FALSE)
    /\ IF Candidates = {} THEN UNCHANGED <<tag, array, timestamp>>
       ELSE /\ tag' = [tag EXCEPT ![Oldest(Candidates)] = page]
            /\ array' = [array EXCEPT ![Oldest(Candidates)] = alloc(pos)]
            /\ timestamp' = timestamp + 1

access ==
    /\ seen.n < MaxAccesses /\ ~seen.failed
    /\ \E page \in Pages, pos \in 0 .. Lines - 1 :
         IF \E j \in 0 .. Entries - 1 : tag[j] = page THEN EntryHit(page, pos) ELSE EntryMiss(page, pos)
    /\ \E g \in Gaps : cycle' = cycle + g

Next == access

Spec == Init /\ [][Next]_vars

-----------------------------------------------------------------------------
(* Properties *)

\* The prefetcher never divides by a stride of zero, however a page is walked,
\* and never pushes its record over one that it has not taken (access).
StridesAndRecords == ~seen.failed

\* "when the demand access comes, we do it and account for the latency as when it
\* was first fetched": a demand access to a line that was prefetched is answered
\* no earlier than the prefetch (StreamPrefetcher::access returns longerCycle).
LatencyKept == ~seen.early

=============================================================================
