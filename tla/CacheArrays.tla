----------------------------- MODULE CacheArrays -----------------------------
(***************************************************************************)
(* The tag arrays of a cache bank and their replacement policies:          *)
(* SetAssocArray and ZArray (src/src/cache_arrays.cpp), IdealLRUArray      *)
(* (ideal_arrays.h) and the policies of repl_policies.h.                   *)
(*                                                                         *)
(* An access of the bank looks its line up; on a miss it inserts the line  *)
(* in two steps, preinsert and postinsert, between which the coherence     *)
(* controller evicts the victim.  The controller gives up the bank's lock  *)
(* meanwhile, so that invalidations from the parent intervene.  The hash   *)
(* functions are any functions: a configuration names them.                *)
(***************************************************************************)
EXTENDS Integers, Sequences, SequencesExt, FiniteSets, FiniteSetsExt

CONSTANTS
    Addrs,          \* line addresses, not zero
    Confs,          \* configurations
    ScoreBits,      \* width of the score of LRU's rank, 32 in the code
    MaxUpdates      \* bound on the updates of the replacement policy

VARIABLES
    conf,           \* array, repl, lines, ways, cands, hash, children, l2
    array,          \* the address of each line, 0 when empty
    lookupArray,    \* the line at each position; the identity in a SetAssocArray
    lineMap,        \* IdealLRUArray: the line of each address, or -1
    repl,           \* the state of the replacement policy
    valid,          \* the coherence controller: lines in a state other than I
    sharers,        \* the coherence controller: sharers of each line
    parentHas,      \* addresses that the parent's directory places here
    pend,           \* the insertion between preinsert and postinsert
    lastUse,        \* history: when each line was last used or inserted
    fail            \* the assertion that failed

vars == <<conf, array, lookupArray, lineMap, repl, valid, sharers, parentHas, pend, lastUse, fail>>

Lines == 0 .. conf.lines - 1
numSets == conf.lines \div conf.ways
None == [stage |-> "none"]

\* Policies that inherit the rank of LRUReplPolicy; TreeLRU's own search of the
\* tree is never called.
IsLRU == conf.repl \in {"LRU", "LRUNoSh", "TreeLRU"}

Init ==
    /\ conf \in Confs
    /\ array = [id \in Lines |-> 0]
    /\ lookupArray = [pos \in Lines |-> pos]
    /\ lineMap = [a \in Addrs |-> -1]
    /\ repl = [timestamp |-> 1, ts |-> [id \in Lines |-> 0], acc |-> [id \in Lines |-> 0],
               youngLines |-> 0, lruList |-> [i \in 1 .. conf.lines |-> conf.lines - i]]
    /\ valid = [id \in Lines |-> FALSE]
    /\ sharers = [id \in Lines |-> 0]
    /\ parentHas = {}
    /\ pend = None
    /\ lastUse = [id \in Lines |-> 0]
    /\ fail = "none"

----------------------------------------------------------------------------
(* Lookup. *)

\* The positions where an address may be.
Positions(a) ==
    IF conf.array = "Z"
      THEN [w \in 1 .. conf.ways |-> (w - 1) * numSets + conf.hash[w][a]]
      ELSE [w \in 1 .. conf.ways |-> conf.hash[1][a] * conf.ways + w - 1]

ArrayLookup(a) ==
    LET ids == [w \in 1 .. conf.ways |-> lookupArray[Positions(a)[w]]]
        hits == {w \in 1 .. conf.ways : array[ids[w]] = a}
    IN  IF hits = {} THEN -1 ELSE ids[Min(hits)]

lookup(a) == IF conf.array = "Ideal" THEN lineMap[a] ELSE ArrayLookup(a)

\* The variant that the bank called l2-0 uses: only SetAssocArray has one.
lookupL2(a) == IF conf.array = "SetAssoc" THEN lookup(a) ELSE 0

AccessLookup(a) == IF conf.l2 THEN lookupL2(a) ELSE lookup(a)

----------------------------------------------------------------------------
(* Replacement policies. *)

LRUScore_AnyState(id) == (sharers[id] * repl.timestamp + repl.ts[id]) % 2 ^ ScoreBits

\* Without the truncation to uint32_t the score orders by validity, sharers
\* and timestamp.
LRUScore(id) ==
    ((IF conf.repl = "LRUNoSh" THEN 0 ELSE sharers[id]) * repl.timestamp
       + (IF valid[id] THEN repl.ts[id] ELSE 0)) % 2 ^ ScoreBits

\* The first of the candidates with the least score.
FirstLeast(ids) ==
    ids[Min({i \in DOMAIN ids : \A j \in DOMAIN ids : LRUScore(ids[i]) <= LRUScore(ids[j])})]

\* NRU: the oldest candidates, one chosen by the count of young lines.
NRUBest(ids) ==
    LET oldest == SelectSeq(ids, LAMBDA id : \A x \in Range(ids) : repl.ts[id] <= repl.ts[x])
    IN  oldest[1 + (repl.youngLines % Len(oldest))]

LFUInvFreq(id) == (repl.timestamp - repl.ts[id]) \div repl.acc[id]

\* LFUReplPolicy::Rank::lessThan: x is a better victim than the best so far.
lessThan(x, best) ==
    IF valid[x] # valid[best] THEN valid[best]
    ELSE IF (sharers[x] = 0) # (sharers[best] = 0) THEN sharers[x] = 0
    ELSE repl.acc[x] = 0 \/ (repl.acc[best] # 0 /\ LFUInvFreq(x) > LFUInvFreq(best))

LFUBest(ids) == FoldLeft(LAMBDA best, x : IF lessThan(x, best) THEN x ELSE best, ids[1], ids)

\* The victims that rankCands may return.
rankCands(ids) ==
    CASE IsLRU -> {FirstLeast(ids)}
      [] conf.repl = "NRU" -> {NRUBest(ids)}
      [] conf.repl = "LFU" -> {LFUBest(ids)}
      [] conf.repl = "Rand" -> Range(ids)

\* replaced() forgets the line that leaves.  NRU keeps it among its young lines.
Replaced(r, id) == [r EXCEPT !.ts[id] = IF conf.repl = "LFU" THEN @ ELSE 0, !.acc[id] = 0]

LRUUpdate(r, id) == [r EXCEPT !.ts[id] = r.timestamp, !.timestamp = @ + 1]

NRUUpdate(r, id) ==
    LET young == r.youngLines + 1 - (r.ts[id] \div 2)
        ts == [r.ts EXCEPT ![id] = 2 + (@ % 2)]
    IN  IF young >= conf.lines \div 2
          THEN [r EXCEPT !.youngLines = 0, !.ts = [x \in Lines |-> ts[x] \div 2]]
          ELSE [r EXCEPT !.youngLines = young, !.ts = ts]

\* The timestamp of a line is the average of those of its accesses.
LFUUpdate(r, id) ==
    [r EXCEPT !.ts[id] = (r.acc[id] * @ + r.timestamp) \div (r.acc[id] + 1),
              !.acc[id] = @ + 1, !.timestamp = @ + 1000]

\* IdealLRUArray moves the line to the front of its list.
IdealUpdate(r, id) == [r EXCEPT !.lruList = <<id>> \o SelectSeq(@, LAMBDA x : x # id)]

Update(r, id) ==
    CASE conf.array = "Ideal" -> IdealUpdate(r, id)
      [] conf.array # "Ideal" /\ IsLRU -> LRUUpdate(r, id)
      [] conf.repl = "NRU" -> NRUUpdate(r, id)
      [] conf.repl = "LFU" -> LFUUpdate(r, id)
      [] conf.repl = "Rand" -> r

----------------------------------------------------------------------------
(* Candidates and insertion. *)

Seeds(a) == [w \in 1 .. conf.ways |-> [pos |-> Positions(a)[w], id |-> lookupArray[Positions(a)[w]], parent |-> 0]]

\* The other positions of the line of a candidate, without the one it holds.
Children(cs, f) ==
    SelectSeq([w \in 1 .. conf.ways |->
                 [pos |-> Positions(array[cs[f].id])[w],
                  id |-> lookupArray[Positions(array[cs[f].id])[w]], parent |-> f]],
              LAMBDA c : c.id # cs[f].id)

\* The walk, in the order of a breadth-first search, until there are enough
\* candidates or one of them is empty.
RECURSIVE Expand(_, _)
Expand(cs, f) ==
    IF Len(cs) >= conf.cands \/ \E c \in Range(cs) : array[c.id] = 0
      THEN SubSeq(cs, 1, Min({Len(cs), conf.cands}))
      ELSE Expand(cs \o Children(cs, f), f + 1)

Candidates(a) == IF conf.array = "Z" THEN Expand(Seeds(a), 1) ELSE Seeds(a)

\* The candidate that stands for the victim: the first, since a walk that loops
\* meets a line more than once.
CandIdx_Last(cs, id) == Max({i \in DOMAIN cs : cs[i].id = id})

CandIdx(cs, id) == Min({i \in DOMAIN cs : cs[i].id = id})

\* The positions from a candidate back to its seed.
RECURSIVE SwapArray(_, _)
SwapArray(cs, i) == IF i = 0 THEN <<>> ELSE <<cs[i].pos>> \o SwapArray(cs, cs[i].parent)

Fail(what) == fail' = what /\ UNCHANGED <<conf, array, lookupArray, lineMap, repl, valid, sharers, parentHas, pend, lastUse>>

\* RandReplPolicy asserts that it was given all the candidates it expects.
RankFails(cs) == conf.repl = "Rand" /\ conf.array # "Ideal" /\ Len(cs) # conf.cands

Ids(cs) == [i \in DOMAIN cs |-> cs[i].id]

\* preinsert chooses the victim; an IdealLRUArray takes the last of its list.
preinsert(a) ==
    /\ pend = None /\ AccessLookup(a) = -1
    /\ IF conf.array = "Ideal"
         THEN /\ pend' = [stage |-> "evict", addr |-> a, id |-> Last(repl.lruList), swap |-> <<>>]
              /\ UNCHANGED <<conf, array, lookupArray, lineMap, repl, valid, sharers, parentHas, lastUse, fail>>
         ELSE \E cs \in {Candidates(a)} :
                IF RankFails(cs) THEN Fail("rank")
                ELSE \E id \in rankCands(Ids(cs)) :
                       /\ pend' = [stage |-> "evict", addr |-> a, id |-> id, swap |-> SwapArray(cs, CandIdx(cs, id))]
                       /\ UNCHANGED <<conf, array, lookupArray, lineMap, repl, valid, sharers, parentHas, lastUse, fail>>

\* The controller's processEviction, external to the array: the victim is
\* invalidated below and written back to the parent.
processEviction ==
    /\ pend.stage = "evict"
    /\ pend' = [pend EXCEPT !.stage = "post"]
    /\ valid' = [valid EXCEPT ![pend.id] = FALSE]
    /\ sharers' = [sharers EXCEPT ![pend.id] = 0]
    /\ parentHas' = parentHas \ {array[pend.id]}
    /\ UNCHANGED <<conf, array, lookupArray, lineMap, repl, lastUse, fail>>

\* The lines move along the path of the walk, one after the other; the victim's
\* line ends at its start, where the new address hashes.
Moved(swap, id) ==
    LET shifted == FoldLeft(LAMBDA l, i : [l EXCEPT ![swap[i]] = l[swap[i + 1]]],
                            lookupArray, [i \in 1 .. Len(swap) - 1 |-> i])
    IN  [shifted EXCEPT ![Last(swap)] = id]

PostFails ==
    IF conf.array = "Ideal" THEN lineMap[pend.addr] # -1
    ELSE lookupArray[pend.swap[1]] # pend.id \/ Len(pend.swap) > conf.cands \div conf.ways + 2

\* The access that follows an insertion or a hit, external to the array: the
\* line becomes valid, and the child that asked for it shares it.
Granted(a, id) ==
    /\ valid' = [valid EXCEPT ![id] = TRUE]
    /\ sharers' = [sharers EXCEPT ![id] = IF conf.children THEN 1 ELSE 0]
    /\ parentHas' = parentHas \cup {a}
    /\ lastUse' = [lastUse EXCEPT ![id] = 1 + Max(Range(lastUse))]

Inserted(id) == Update(Replaced(repl, id), id)

postinsert ==
    /\ pend.stage = "post"
    /\ IF PostFails THEN Fail("postinsert")
       ELSE /\ array' = [array EXCEPT ![pend.id] = pend.addr]
            /\ lookupArray' = IF conf.array = "Z" THEN Moved(pend.swap, pend.id) ELSE lookupArray
            /\ lineMap' = IF conf.array # "Ideal" THEN lineMap
                          ELSE [a \in Addrs |-> IF a = pend.addr THEN pend.id
                                                ELSE IF a = array[pend.id] THEN -1 ELSE lineMap[a]]
            /\ repl' = Inserted(pend.id)
            /\ Granted(pend.addr, pend.id)
            /\ pend' = None
            /\ UNCHANGED <<conf, fail>>

\* A request that finds its line.
hit(a) ==
    /\ pend = None /\ AccessLookup(a) # -1
    /\ \E id \in {AccessLookup(a)} :
         /\ repl' = IF conf.l2 /\ conf.array # "SetAssoc" THEN repl ELSE Update(repl, id)
         /\ Granted(a, id)
    /\ UNCHANGED <<conf, array, lookupArray, lineMap, pend, fail>>

\* A child writes its line back: the lookup updates nothing.
put(a) ==
    /\ pend = None /\ AccessLookup(a) # -1
    /\ sharers[AccessLookup(a)] = 1
    /\ sharers' = [sharers EXCEPT ![AccessLookup(a)] = 0]
    /\ UNCHANGED <<conf, array, lookupArray, lineMap, repl, valid, parentHas, pend, lastUse, fail>>

\* Cache::finishInvalidate: the parent invalidates a line that it places here.
invalidate(a) ==
    /\ a \in parentHas
    /\ IF lookup(a) = -1 THEN Fail("invalidate")
       ELSE /\ valid' = [valid EXCEPT ![lookup(a)] = FALSE]
            /\ sharers' = [sharers EXCEPT ![lookup(a)] = 0]
            /\ parentHas' = parentHas \ {a}
            /\ UNCHANGED <<conf, array, lookupArray, lineMap, repl, pend, lastUse, fail>>

Bounded == Max(Range(lastUse)) < MaxUpdates

Next ==
    /\ fail = "none"
    /\ \/ Bounded /\ \E a \in Addrs : preinsert(a) \/ hit(a)
       \/ \E a \in Addrs : put(a) \/ invalidate(a)
       \/ processEviction
       \/ postinsert

Spec == Init /\ [][Next]_vars

----------------------------------------------------------------------------
(* Properties. *)

\* Every address that was inserted is found, at its own line, also between
\* preinsert and postinsert and after the swaps of ZArray::postinsert.
Findable == \A id \in Lines : array[id] # 0 => lookup(array[id]) = id

\* The reference for LRU: no candidate is invalid when the victim is valid, and
\* none has fewer sharers, or as many and an earlier use.
Older(x, y) ==
    \/ valid[y] /\ ~valid[x]
    \/ valid[x] /\ valid[y] /\ LET sx == IF conf.repl = "LRUNoSh" THEN 0 ELSE sharers[x]
                                   sy == IF conf.repl = "LRUNoSh" THEN 0 ELSE sharers[y]
                               IN  sx < sy \/ (sx = sy /\ lastUse[x] < lastUse[y])

\* The scores that a uint32_t holds.
InWidth == 2 * repl.timestamp < 2 ^ ScoreBits

\* LRU evicts the line of least use: the ranks agree with the history of the
\* accesses as long as the scores fit in the width of LRUReplPolicy::rank;
\* a list of IdealLRUArray is in the order of use; NRU's young lines are less
\* than half of the lines.
VictimOldest ==
    /\ (IsLRU /\ conf.array # "Ideal" /\ InWidth /\ pend = None) =>
         \A a \in {x \in Addrs : AccessLookup(x) = -1} :
           \E ids \in {Ids(Candidates(a))} : \A v \in rankCands(ids) : \A x \in Range(ids) : ~Older(x, v)
    /\ conf.array = "Ideal" =>
         \A i, j \in 1 .. conf.lines : i < j => lastUse[repl.lruList[i]] >= lastUse[repl.lruList[j]]
    /\ conf.repl = "NRU" => Cardinality({id \in Lines : repl.ts[id] >= 2}) <= repl.youngLines

\* The assertions of the arrays fail only for a random policy on a ZArray, which
\* is not given all the candidates while a line is empty, and for a bank named
\* l2-0 whose array has no lookupL2.
FailsOnlyUnsupported ==
    fail # "none" => \/ fail = "rank" /\ conf.repl = "Rand" /\ conf.array = "Z"
                     \/ fail = "invalidate" /\ conf.l2 /\ conf.array # "SetAssoc"
=============================================================================
