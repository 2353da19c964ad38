---------------------------- MODULE MESIHierarchy ----------------------------
(***************************************************************************)
(* The MESI cache hierarchy: Cache::access and invalidate (cache.cpp), the *)
(* coherence controllers (coherence_ctrls.h/.cpp), the filter caches at    *)
(* its leaves (filter_cache.h) and a SimpleMemory at its root.             *)
(*                                                                         *)
(* One host thread per core executes an access as nested calls: up the     *)
(* tree with access(), down with invalidate().  Each thread has a stack of *)
(* frames, the innermost call first.  Going up, the caller's lock is given *)
(* up before the parent's locks are taken, which opens the child to        *)
(* invalidations by other threads; one action is what a thread does        *)
(* between two such points, or one step of a loop over children.           *)
(*                                                                         *)
(* Abstracted: latencies and statistics; the replacement policy (any       *)
(* resident line may be the victim); which line id holds a line (a cache   *)
(* is a set of at most Ways lines, one associative set); the parent of a   *)
(* line in a banked level is any function of the line (getParentId).       *)
(***************************************************************************)
EXTENDS Naturals, Sequences, FiniteSets

CONSTANTS
    Caches,     \* all caches
    Leaves,     \* the terminal caches, one per core
    Mem,        \* the memory controller
    Lines,      \* line addresses
    Parent,     \* Parent[c][l]: the cache or memory above c for line l
    Ways,       \* Ways[c]: how many lines c can hold
    NoExcl,     \* the instruction caches: no stores, MemReq::NOEXCL on loads
    Proc,       \* Proc[c], Proc[l]: the process (procMask) of a leaf's core
                \* and the one whose address space a line belongs to
    None        \* no line, no thread

ASSUME HierarchyAssumption ==
    /\ Leaves \subseteq Caches
    /\ Mem \notin Caches
    /\ None \notin Leaves \cup Lines
    /\ Parent \in [Caches -> [Lines -> (Caches \ Leaves) \cup {Mem}]]
    /\ Ways \in [Caches -> Nat \ {0}]
    /\ NoExcl \subseteq Leaves
    /\ DOMAIN Proc = Leaves \cup Lines

\* The caches that may hold line l.
Serving(l) == Leaves \cup ({Parent[c][l] : c \in Caches} \ {Mem})

\* InitSystem refuses to build anything but a tree: it panics at a loop,
\* at a group with two parents and at a second last-level cache, whose banks
\* share the lines out by their addresses.
ASSUME TreeAssumption ==
    /\ IsFiniteSet(Caches)
    /\ \E depth \in [Caches -> 0 .. Cardinality(Caches)] :
          \A c \in Caches, l \in Lines :
              Parent[c][l] # Mem => depth[Parent[c][l]] < depth[c]
    /\ \A l \in Lines : \A c, d \in Serving(l) :
          Parent[c][l] = Mem /\ Parent[d][l] = Mem => c = d

VARIABLES
    state,      \* MESIBottomCC::array: the state of each line in each cache
    tags,       \* CacheArray: the lines that have a line id in each cache
    dir,        \* MESITopCC::array: sharers and exclusive flag of each line
    bccLock,    \* holder of each cache's MESIBottomCC::ccLock, or None
    tccLock,    \* holder of each MESITopCC::ccLock, or None
    filterLock, \* holder of each FilterCache::filterLock, or None
    filter,     \* FilterCache::filterArray entry of the modelled set
    stack,      \* the calls each thread is in, innermost first
    fresh       \* history: which copies of a line hold the last store to it

vars == <<state, tags, dir, bccLock, tccLock, filterLock, filter, stack, fresh>>

Inner == Caches \ Leaves
Threads == Leaves   \* the thread that simulates the core above the leaf

MESI == {"I", "S", "E", "M"}
Gets == {"GETS", "GETX"}
Puts == {"PUTS", "PUTX"}
Invs == {"INV", "INVX"}

\* A call in progress.  init is MemReq::initialState, wb the writeback flag
\* that invalidations pull up, victim the line being evicted.
Frame == [c : Caches, type : Gets \cup Puts \cup Invs, line : Lines,
          init : MESI, pc : {"tcc", "bcc", "lookup", "evict", "evput", "acc",
                             "accret", "top", "end", "ilock", "iflock", "inv"},
          victim : Lines \cup {None}, wb : BOOLEAN]

Call(c, type, l, init, pc) ==
    [c |-> c, type |-> type, line |-> l, init |-> init, pc |-> pc,
     victim |-> None, wb |-> FALSE]

Top(t) == Head(stack[t])
Caller(t) == stack[t][2]
At(t, pc) == stack[t] # << >> /\ Top(t).pc = pc

Become(t, f) == stack' = [stack EXCEPT ![t] = <<f>> \o Tail(@)]
Goto(t, pc) == Become(t, [Top(t) EXCEPT !.pc = pc])
Invoke(t, f, callee) == stack' = [stack EXCEPT ![t] = <<callee, f>> \o Tail(@)]
Return(t) == stack' = [stack EXCEPT ![t] = Tail(@)]

isExclusive(c, l) == state[c][l] \in {"E", "M"}
DirExclusive(c, l) == Cardinality(dir[c][l].sharers) = 1 /\ dir[c][l].exclusive

\* The copies of l after the data of copy src is moved into copy dst.
Moved(l, src, dst) ==
    IF src \in fresh[l] THEN fresh[l] \cup {dst} ELSE fresh[l] \ {dst}

-----------------------------------------------------------------------------
Init ==
    /\ state = [c \in Caches |-> [l \in Lines |-> "I"]]
    /\ tags = [c \in Caches |-> {}]
    /\ dir = [c \in Inner |->
                [l \in Lines |-> [sharers |-> {}, exclusive |-> FALSE]]]
    /\ bccLock = [c \in Caches |-> None]
    /\ tccLock = [c \in Inner |-> None]
    /\ filterLock = [c \in Leaves |-> None]
    /\ filter = [c \in Leaves |-> [rd |-> None, wr |-> None]]
    /\ stack = [t \in Threads |-> << >>]
    /\ fresh = [l \in Lines |-> {Mem}]

(* The filter cache.                                                        *)

\* FilterCache::store hits the filter: no lock, no call, just the store.
StoreHit(t, l) ==
    /\ stack[t] = << >>
    /\ filter[t].wr = l
    /\ fresh' = [fresh EXCEPT ![l] = {t}]
    /\ UNCHANGED <<state, tags, dir, bccLock, tccLock, filterLock, filter, stack>>

\* FilterCache::replace on a load or store that misses the filter: takes the
\* filter lock, which the terminal controller's startAccess gives up again.
replace(t, type, l) ==
    /\ stack[t] = << >>
    /\ Proc[l] = Proc[t]
    /\ type = "GETX" => t \notin NoExcl
    /\ IF type = "GETS" THEN filter[t].rd # l ELSE filter[t].wr # l
    /\ filterLock[t] = None
    /\ stack' = [stack EXCEPT ![t] = <<Call(t, type, l, "I", "bcc")>>]
    /\ UNCHANGED <<state, tags, dir, bccLock, tccLock, filterLock, filter, fresh>>

\* FilterCache::contextSwitch empties the filter.
contextSwitch(t) ==
    /\ stack[t] = << >>
    /\ filterLock[t] = None
    /\ filter' = [filter EXCEPT ![t] = [rd |-> None, wr |-> None]]
    /\ UNCHANGED <<state, tags, dir, bccLock, tccLock, filterLock, stack, fresh>>

-----------------------------------------------------------------------------
(* CC::startAccess.                                                         *)

startAccessTcc(t) ==
    /\ At(t, "tcc")
    /\ tccLock[Top(t).c] = None
    /\ tccLock' = [tccLock EXCEPT ![Top(t).c] = t]
    /\ Goto(t, "bcc")
    /\ UNCHANGED <<state, tags, dir, bccLock, filterLock, filter, fresh>>

\* The state the request points at: the caller's, or FilterCache's dummy.
ChildState(t) ==
    IF Top(t).c \in Leaves THEN "I" ELSE state[Caller(t).c][Top(t).line]

\* Faulty form: races with invalidations are ignored.
CheckForMESIRace_Off(f, now) == [f EXCEPT !.pc = "lookup"]

\* A PUT whose line was invalidated meanwhile is skipped, a PUTX whose line
\* was downgraded becomes a PUTS; a GETX whose line was invalidated goes on.
CheckForMESIRace(f, now) ==
    CASE f.type \in Puts /\ now # f.init /\ now = "I" -> [f EXCEPT !.pc = "end"]
      [] f.type \in Puts /\ now # f.init /\ now # "I" ->
            [f EXCEPT !.pc = "lookup", !.type = "PUTS"]
      [] OTHER -> [f EXCEPT !.pc = "lookup"]

startAccessBcc(t) ==
    /\ At(t, "bcc")
    /\ bccLock[Top(t).c] = None
    /\ bccLock' = [bccLock EXCEPT ![Top(t).c] = t]
    /\ Become(t, CheckForMESIRace(Top(t), ChildState(t)))
    /\ UNCHANGED <<state, tags, dir, tccLock, filterLock, filter, fresh>>

(* Cache::access: lookup and, on a miss, the choice of a line id.           *)

LookupHit(t) ==
    /\ At(t, "lookup")
    /\ Top(t).line \in tags[Top(t).c]
    /\ Goto(t, "acc")
    /\ UNCHANGED <<state, tags, dir, bccLock, tccLock, filterLock, filter, fresh>>

\* preinsert finds a line id that holds no line.
InsertFree(t) ==
    LET f == Top(t) IN
    /\ At(t, "lookup")
    /\ f.type \in Gets
    /\ f.line \notin tags[f.c]
    /\ Cardinality(tags[f.c]) < Ways[f.c]
    /\ tags' = [tags EXCEPT ![f.c] = @ \cup {f.line}]
    /\ Goto(t, "acc")
    /\ UNCHANGED <<state, dir, bccLock, tccLock, filterLock, filter, fresh>>

\* preinsert picks line v to replace.
preinsert(t, v) ==
    LET f == Top(t) IN
    /\ At(t, "lookup")
    /\ f.type \in Gets
    /\ f.line \notin tags[f.c]
    /\ v \in tags[f.c]
    /\ Become(t, [f EXCEPT !.pc = "evict", !.victim = v])
    /\ UNCHANGED <<state, tags, dir, bccLock, tccLock, filterLock, filter, fresh>>

-----------------------------------------------------------------------------
(* Evictions.                                                               *)

\* sendInvalidates visits the sharers in a fixed order.
NextSharer(S) == CHOOSE s \in S : TRUE

\* Faulty form: an eviction leaves the children's copies alone.
Sharers_None(c, l) == {}

\* The children that hold a line being evicted.
Sharers(c, l) == IF c \in Leaves THEN {} ELSE dir[c][l].sharers

invalidate(t, type, l, S) == Call(NextSharer(S), type, l, "I", "ilock")

\* MESITopCC::processEviction: invalidate the victim in the next child.
evictChild(t) ==
    LET f == Top(t) IN
    /\ At(t, "evict")
    /\ Sharers(f.c, f.victim) # {}
    /\ Invoke(t, f, invalidate(t, "INV", f.victim, Sharers(f.c, f.victim)))
    /\ UNCHANGED <<state, tags, dir, bccLock, tccLock, filterLock, filter, fresh>>

\* Faulty form: dirty data pulled up from a child is not remembered.
EvictedState_DropWb(f) == state[f.c][f.victim]

\* MESIBottomCC::processEviction: a writeback from below makes the line M.
EvictedState(f) == IF f.wb THEN "M" ELSE state[f.c][f.victim]

\* Faulty form: the line id keeps answering to the old address as well.
Replaced_Keep(f) == [tags EXCEPT ![f.c] = @ \cup {f.line}]

Replaced(f) == [tags EXCEPT ![f.c] = (@ \ {f.victim}) \cup {f.line}]

Inserted(f) == [f EXCEPT !.pc = "acc", !.victim = None, !.wb = FALSE]

\* The line is gone already: nothing to write back; postinsert.
evictInvalid(t) ==
    LET f == Top(t) IN
    /\ At(t, "evict")
    /\ Sharers(f.c, f.victim) = {}
    /\ EvictedState(f) = "I"
    /\ tags' = Replaced(f)
    /\ Become(t, Inserted(f))
    /\ UNCHANGED <<state, dir, bccLock, tccLock, filterLock, filter, fresh>>

\* PUTS or PUTX to the memory controller, which needs no locks; postinsert.
evictToMem(t) ==
    LET f == Top(t) IN
    /\ At(t, "evict")
    /\ Sharers(f.c, f.victim) = {}
    /\ EvictedState(f) # "I"
    /\ Parent[f.c][f.victim] = Mem
    /\ state' = [state EXCEPT ![f.c][f.victim] = "I"]
    /\ fresh' = [fresh EXCEPT ![f.victim] =
                    (IF EvictedState(f) = "M" THEN Moved(f.victim, f.c, Mem) ELSE @)
                        \ {f.c}]
    /\ tags' = Replaced(f)
    /\ Become(t, Inserted(f))
    /\ UNCHANGED <<dir, bccLock, tccLock, filterLock, filter>>

\* PUTS or PUTX to the parent cache; its startAccess unlocks this cache.
evictToParent(t) ==
    LET f == Top(t)
        s == EvictedState(f)
    IN
    /\ At(t, "evict")
    /\ Sharers(f.c, f.victim) = {}
    /\ s # "I"
    /\ Parent[f.c][f.victim] # Mem
    /\ state' = [state EXCEPT ![f.c][f.victim] = s]
    /\ bccLock' = [bccLock EXCEPT ![f.c] = None]
    /\ Invoke(t, [f EXCEPT !.pc = "evput"],
              Call(Parent[f.c][f.victim], IF s = "M" THEN "PUTX" ELSE "PUTS",
                   f.victim, s, "tcc"))
    /\ UNCHANGED <<tags, dir, tccLock, filterLock, filter, fresh>>

postinsert(t) ==
    /\ At(t, "evput")
    /\ tags' = Replaced(Top(t))
    /\ Become(t, Inserted(Top(t)))
    /\ UNCHANGED <<state, dir, bccLock, tccLock, filterLock, filter, fresh>>

-----------------------------------------------------------------------------
(* MESIBottomCC::processAccess.                                             *)

\* A leaf that finishes a GETX has its store performed.
Stored(t, f, copies) ==
    IF f.c \in Leaves /\ f.type = "GETX" THEN {f.c} ELSE copies

AfterBcc(f) == IF f.c \in Leaves THEN "end" ELSE "top"

NeedsParent(f) ==
    \/ f.type = "GETS" /\ state[f.c][f.line] = "I"
    \/ f.type = "GETX" /\ state[f.c][f.line] \in {"I", "S"}

\* No need to go up.  A PUTX brings dirty data; GETX and PUTX turn E into M.
accessHere(t) ==
    LET f == Top(t) IN
    /\ At(t, "acc")
    /\ ~ NeedsParent(f)
    /\ state' = IF f.type \in {"GETX", "PUTX"} /\ state[f.c][f.line] = "E"
                THEN [state EXCEPT ![f.c][f.line] = "M"] ELSE state
    /\ fresh' = [fresh EXCEPT ![f.line] =
                    IF f.type = "PUTX" THEN Moved(f.line, Caller(t).c, f.c)
                    ELSE Stored(t, f, @)]
    /\ Goto(t, AfterBcc(f))
    /\ UNCHANGED <<tags, dir, bccLock, tccLock, filterLock, filter>>

\* SimpleMemory::access hands the line out.
accessMem(t) ==
    LET f == Top(t) IN
    /\ At(t, "acc")
    /\ NeedsParent(f)
    /\ Parent[f.c][f.line] = Mem
    /\ state' = [state EXCEPT ![f.c][f.line] =
                    CASE f.type = "GETX" -> "M"
                      [] f.type = "GETS" /\ t \in NoExcl -> "S"
                      [] OTHER -> "E"]
    /\ fresh' = [fresh EXCEPT ![f.line] =
                    Stored(t, f, IF state[f.c][f.line] = "I"
                                 THEN Moved(f.line, Mem, f.c) ELSE @)]
    /\ Goto(t, AfterBcc(f))
    /\ UNCHANGED <<tags, dir, bccLock, tccLock, filterLock, filter>>

\* Faulty form: the cache stays locked while the request goes up.
accessParent_KeepLock(t) ==
    LET f == Top(t) IN
    /\ At(t, "acc")
    /\ NeedsParent(f)
    /\ Parent[f.c][f.line] # Mem
    /\ Invoke(t, [f EXCEPT !.pc = "accret"],
              Call(Parent[f.c][f.line], f.type, f.line, state[f.c][f.line], "tcc"))
    /\ UNCHANGED <<state, tags, dir, bccLock, tccLock, filterLock, filter, fresh>>

\* The request goes up, and this cache is unlocked for the time of the call.
accessParent(t) ==
    LET f == Top(t) IN
    /\ At(t, "acc")
    /\ NeedsParent(f)
    /\ Parent[f.c][f.line] # Mem
    /\ bccLock' = [bccLock EXCEPT ![f.c] = None]
    /\ Invoke(t, [f EXCEPT !.pc = "accret"],
              Call(Parent[f.c][f.line], f.type, f.line, state[f.c][f.line], "tcc"))
    /\ UNCHANGED <<state, tags, dir, tccLock, filterLock, filter, fresh>>

accessReturn(t) ==
    LET f == Top(t) IN
    /\ At(t, "accret")
    /\ fresh' = [fresh EXCEPT ![f.line] = Stored(t, f, @)]
    /\ Goto(t, AfterBcc(f))
    /\ UNCHANGED <<state, tags, dir, bccLock, tccLock, filterLock, filter>>

-----------------------------------------------------------------------------
(* MESITopCC::processAccess, then processWritebackOnAccess.                 *)

\* Faulty form: the directory keeps listing the child that gave up its copy.
topPut_KeepSharer(t) ==
    LET f == Top(t)
        ch == Caller(t).c
    IN
    /\ At(t, "top")
    /\ f.type \in Puts
    /\ state' = [state EXCEPT ![ch][f.line] = "I"]
    /\ fresh' = [fresh EXCEPT ![f.line] = @ \ {ch}]
    /\ Goto(t, "end")
    /\ UNCHANGED <<tags, dir, bccLock, tccLock, filterLock, filter>>

topPut(t) ==
    LET f == Top(t)
        ch == Caller(t).c
    IN
    /\ At(t, "top")
    /\ f.type \in Puts
    /\ dir' = [dir EXCEPT ![f.c][f.line].sharers = @ \ {ch}]
    /\ state' = [state EXCEPT ![ch][f.line] = "I"]
    /\ fresh' = [fresh EXCEPT ![f.line] = @ \ {ch}]
    /\ Goto(t, "end")
    /\ UNCHANGED <<tags, bccLock, tccLock, filterLock, filter>>

\* The line is handed to child ch in state s.  If an invalidation on the way
\* pulled up dirty data, this cache's own state becomes M.
Grant(t, s, e) ==
    LET f == Top(t)
        ch == Caller(t).c
        mine == IF f.wb THEN "M" ELSE state[f.c][f.line]
    IN
    /\ dir' = [dir EXCEPT ![f.c][f.line] = e]
    /\ state' = [state EXCEPT ![ch][f.line] = s, ![f.c][f.line] = mine]
    /\ fresh' = [fresh EXCEPT ![f.line] =
                    IF state[ch][f.line] = "I" THEN Moved(f.line, f.c, ch) ELSE @]
    /\ Goto(t, "end")
    /\ UNCHANGED <<tags, bccLock, tccLock, filterLock, filter>>

\* Faulty form: exclusivity is given without asking whether this cache has it.
GrantsE_NoCheck(t, f) == dir[f.c][f.line].sharers = {} /\ t \notin NoExcl

GrantsE(t, f) ==
    /\ dir[f.c][f.line].sharers = {}
    /\ isExclusive(f.c, f.line)
    /\ t \notin NoExcl

topGetE(t) ==
    LET f == Top(t) IN
    /\ At(t, "top")
    /\ f.type = "GETS"
    /\ GrantsE(t, f)
    /\ Grant(t, "E", [sharers |-> {Caller(t).c}, exclusive |-> TRUE])

\* Downgrade the exclusive sharer first.
topDowngrade(t) ==
    LET f == Top(t) IN
    /\ At(t, "top")
    /\ f.type = "GETS"
    /\ DirExclusive(f.c, f.line)
    /\ Invoke(t, f, invalidate(t, "INVX", f.line, dir[f.c][f.line].sharers))
    /\ UNCHANGED <<state, tags, dir, bccLock, tccLock, filterLock, filter, fresh>>

topGetS(t) ==
    LET f == Top(t) IN
    /\ At(t, "top")
    /\ f.type = "GETS"
    /\ ~ GrantsE(t, f)
    /\ ~ DirExclusive(f.c, f.line)
    /\ Grant(t, "S", [sharers |-> dir[f.c][f.line].sharers \cup {Caller(t).c},
                      exclusive |-> FALSE])

\* The copies a GETX has to invalidate: all but the requester's.
Others(t, f) == dir[f.c][f.line].sharers \ {Caller(t).c}

topInvalidate(t) ==
    LET f == Top(t) IN
    /\ At(t, "top")
    /\ f.type = "GETX"
    /\ Others(t, f) # {}
    /\ dir' = [dir EXCEPT ![f.c][f.line].sharers = @ \ {Caller(t).c}]
    /\ Invoke(t, f, invalidate(t, "INV", f.line, Others(t, f)))
    /\ UNCHANGED <<state, tags, bccLock, tccLock, filterLock, filter, fresh>>

topGetX(t) ==
    LET f == Top(t) IN
    /\ At(t, "top")
    /\ f.type = "GETX"
    /\ Others(t, f) = {}
    /\ Grant(t, "M", [sharers |-> {Caller(t).c}, exclusive |-> TRUE])

-----------------------------------------------------------------------------
(* CC::endAccess: relock the child, then unlock this cache.                 *)


endAccess(t) ==
    LET f == Top(t)
        ch == Caller(t).c
    IN
    /\ At(t, "end")
    /\ f.c \notin Leaves
    /\ bccLock[ch] = None
    /\ bccLock' = [bccLock EXCEPT ![ch] = t, ![f.c] = None]
    /\ tccLock' = [tccLock EXCEPT ![f.c] = None]
    /\ Return(t)
    /\ UNCHANGED <<state, tags, dir, filterLock, filter, fresh>>

\* At a leaf the child's lock is the filter lock, under which the rest of
\* FilterCache::replace enters the line into the filter.
endReplace(t) ==
    LET f == Top(t) IN
    /\ At(t, "end")
    /\ f.c \in Leaves
    /\ filterLock[t] = None
    /\ filter' = [filter EXCEPT ![t] =
                    [rd |-> f.line, wr |-> IF f.type = "GETS" THEN None ELSE f.line]]
    /\ bccLock' = [bccLock EXCEPT ![t] = None]
    /\ Return(t)
    /\ UNCHANGED <<state, tags, dir, tccLock, filterLock, fresh>>

-----------------------------------------------------------------------------
(* Invalidations, under the locks of the caller's frame.                    *)

\* CC::startInv takes only the bottom lock.
startInv(t) ==
    LET f == Top(t) IN
    /\ At(t, "ilock")
    /\ bccLock[f.c] = None
    /\ bccLock' = [bccLock EXCEPT ![f.c] = t]
    /\ Goto(t, IF f.c \in Leaves THEN "iflock" ELSE "inv")
    /\ UNCHANGED <<state, tags, dir, tccLock, filterLock, filter, fresh>>

\* Faulty form: a downgrade leaves the filter entry alone.
FilterAfter_KeepOnInvx(t, f) ==
    IF f.type = "INV" /\ filter[f.c].rd = f.line
    THEN [rd |-> None, wr |-> None] ELSE filter[f.c]

\* The filter holds virtual addresses.  To compare one with the line the code
\* adds the procMask of the process it runs in, which is that of the thread
\* that invalidates and need not be that of the core it invalidates.
FilterAfter(t, f) ==
    IF filter[f.c].rd = f.line /\ Proc[t] = Proc[f.line]
    THEN [rd |-> None, wr |-> None] ELSE filter[f.c]

\* FilterCache::invalidate drops the line from the filter.
invalidateFilter(t) ==
    LET f == Top(t) IN
    /\ At(t, "iflock")
    /\ filterLock[f.c] = None
    /\ filterLock' = [filterLock EXCEPT ![f.c] = t]
    /\ filter' = [filter EXCEPT ![f.c] = FilterAfter(t, f)]
    /\ Goto(t, "inv")
    /\ UNCHANGED <<state, tags, dir, bccLock, tccLock, fresh>>

\* The children that sendInvalidates still has to visit.
Pending(f) ==
    IF f.c \in Leaves \/ (f.type = "INVX" /\ ~ DirExclusive(f.c, f.line))
    THEN {} ELSE dir[f.c][f.line].sharers

\* MESITopCC::processInval hands the request on to the next child.
invChild(t) ==
    LET f == Top(t) IN
    /\ At(t, "inv")
    /\ Pending(f) # {}
    /\ Invoke(t, f, invalidate(t, f.type, f.line, Pending(f)))
    /\ UNCHANGED <<state, tags, dir, bccLock, tccLock, filterLock, filter, fresh>>

\* Faulty form: dirty data of the invalidated cache is not reported.
PullsUp_Never(f) == f.wb

\* Whether the invalidated cache reports dirty data, its own or from below.
PullsUp(f) == f.wb \/ state[f.c][f.line] = "M"

\* MESIBottomCC::processInval adjusts the state, the locks are released, and
\* the caller's sendInvalidates notes the result in its directory entry.
finishInvalidate(t) ==
    LET f == Top(t)
        up == Caller(t)
        copies == IF PullsUp(f) THEN Moved(f.line, f.c, up.c) ELSE fresh[f.line]
    IN
    /\ At(t, "inv")
    /\ Pending(f) = {}
    /\ state' = [state EXCEPT ![f.c][f.line] = IF f.type = "INV" THEN "I" ELSE "S"]
    /\ dir' = IF f.type = "INV"
              THEN [dir EXCEPT ![up.c][f.line].sharers = @ \ {f.c}]
              ELSE [dir EXCEPT ![up.c][f.line].exclusive = FALSE]
    /\ fresh' = [fresh EXCEPT ![f.line] =
                    IF f.type = "INV" THEN copies \ {f.c} ELSE copies]
    /\ bccLock' = [bccLock EXCEPT ![f.c] = None]
    /\ filterLock' = IF f.c \in Leaves THEN [filterLock EXCEPT ![f.c] = None]
                     ELSE filterLock
    /\ stack' = [stack EXCEPT ![t] =
                    <<[up EXCEPT !.wb = @ \/ PullsUp(f)]>> \o Tail(Tail(@))]
    /\ UNCHANGED <<tags, tccLock, filter>>

-----------------------------------------------------------------------------
\* What a thread does inside an access.
Work(t) ==
    \/ startAccessTcc(t) \/ startAccessBcc(t)
    \/ LookupHit(t) \/ InsertFree(t) \/ \E v \in Lines : preinsert(t, v)
    \/ evictChild(t) \/ evictInvalid(t) \/ evictToMem(t) \/ evictToParent(t)
    \/ postinsert(t)
    \/ accessHere(t) \/ accessMem(t) \/ accessParent(t) \/ accessReturn(t)
    \/ topPut(t) \/ topGetE(t) \/ topDowngrade(t) \/ topGetS(t)
    \/ topInvalidate(t) \/ topGetX(t)
    \/ endAccess(t) \/ endReplace(t)
    \/ startInv(t) \/ invalidateFilter(t) \/ invChild(t) \/ finishInvalidate(t)

Next ==
    \E t \in Threads :
        \/ \E l \in Lines : StoreHit(t, l)
        \/ \E l \in Lines, type \in Gets : replace(t, type, l)
        \/ contextSwitch(t)
        \/ Work(t)

Spec == Init /\ [][Next]_vars

\* The simulated cores never stop in the middle of an access.
FairSpec == Spec /\ \A t \in Threads : WF_vars(Work(t))

-----------------------------------------------------------------------------
TypeOK ==
    /\ state \in [Caches -> [Lines -> MESI]]
    /\ tags \in [Caches -> SUBSET Lines]
    /\ dir \in [Inner -> [Lines -> [sharers : SUBSET Caches,
                                   exclusive : BOOLEAN]]]
    /\ bccLock \in [Caches -> Threads \cup {None}]
    /\ tccLock \in [Inner -> Threads \cup {None}]
    /\ filterLock \in [Leaves -> Threads \cup {None}]
    /\ filter \in [Leaves -> [rd : Lines \cup {None}, wr : Lines \cup {None}]]
    /\ stack \in [Threads -> Seq(Frame)]
    /\ fresh \in [Lines -> SUBSET (Caches \cup {Mem})]
    /\ \A c \in Caches : Cardinality(tags[c]) <= Ways[c]

\* Single writer or many readers: while one core's cache may write a line (E
\* or M), no other core's cache may read it, in every intermediate state of
\* every interleaving of accesses, evictions and invalidations.
SingleWriter ==
    \A l \in Lines : \A a, b \in Leaves :
        a # b /\ state[a][l] \in {"E", "M"} => state[b][l] = "I"

\* A core's valid copy holds the last store to the line by any core: no path
\* of processAccess hands out a copy that a dirty cache has superseded.
ReadsLastStore ==
    \A l \in Lines : \A c \in Leaves : state[c][l] # "I" => c \in fresh[l]

\* The last store is never lost: if memory does not have it, an up-to-date
\* cache is M and will write it back, or a call in progress in an up-to-date
\* cache has pulled up the writeback flag for that very line.
LastStoreKept ==
    \A l \in Lines :
        \/ Mem \in fresh[l]
        \/ \E c \in fresh[l] \ {Mem} : state[c][l] = "M"
        \/ \E t \in Threads : \E i \in DOMAIN stack[t] :
              LET f == stack[t][i] IN
              /\ f.wb
              /\ f.c \in fresh[l]
              /\ l = IF f.victim = None THEN f.line ELSE f.victim

\* Inclusion: a line valid in a cache has a line id there, is valid in the
\* parent, and is exclusive in the parent if it is exclusive in the child.
Inclusion ==
    \A c \in Caches, l \in Lines :
        LET p == Parent[c][l] IN
        state[c][l] # "I" =>
            /\ l \in tags[c]
            /\ p # Mem => state[p][l] # "I"
            /\ p # Mem /\ isExclusive(c, l) => isExclusive(p, l)

\* While nobody holds a cache's bottom lock, its directory lists exactly the
\* children with a valid copy, and calls one exclusive exactly when it is.
DirectoryExact ==
    \A c \in Inner, l \in Lines :
        bccLock[c] = None =>
            /\ dir[c][l].sharers =
                    {k \in Caches : Parent[k][l] = c /\ state[k][l] # "I"}
            /\ \A k \in dir[c][l].sharers :
                    isExclusive(k, l) <=> DirExclusive(c, l)

\* A core that is not in an access can trust its filter, which it reads
\* without a lock ("it is fine to do this"): a line the filter serves loads from is valid in the cache, one it serves stores to is M, even
\* while another thread invalidates or downgrades the line.
FilterTrusted ==
    \A t \in Threads : stack[t] = << >> =>
        /\ filter[t].rd # None => state[t][filter[t].rd] # "I"
        /\ filter[t].wr # None => state[t][filter[t].wr] = "M"

\* The assertions of coherence_ctrls.h/.cpp and cache.cpp, each where the
\* thread evaluates it: the only races are the three CheckForMESIRace knows,
\* no PUT or invalidation misses, every access ends in the state it asked for.
RacesAreKnown(t) ==
    LET f == Top(t)
        now == ChildState(t)
    IN  At(t, "bcc") /\ bccLock[f.c] = None /\ now # f.init =>
            \/ f.type \in Puts /\ now \in {"I", "S"}
            \/ f.type = "GETX" /\ f.init = "S" /\ now = "I"

BottomAsserts(t) ==
    LET f == Top(t)
        here == state[f.c][f.line]
    IN  /\ At(t, "lookup") /\ f.type \in Puts => f.line \in tags[f.c]
        /\ At(t, "evict") /\ f.wb => isExclusive(f.c, f.victim)
        /\ At(t, "evput") => state[f.c][f.victim] = "I"
        /\ At(t, "acc") /\ f.type = "PUTS" => here # "I"
        /\ At(t, "acc") /\ f.type = "PUTX" => here \in {"E", "M"}
        /\ At(t, "accret") =>
               here \in IF f.type = "GETS" THEN {"S", "E"} ELSE {"M"}
        /\ At(t, "inv") => f.line \in tags[f.c] /\ here # "I"
        /\ At(t, "inv") /\ f.type = "INVX" => here \in {"E", "M"}

TopAsserts(t) ==
    LET f == Top(t)
        ch == Caller(t).c
        e == dir[f.c][f.line]
    IN  At(t, "top") =>
            /\ f.type \in Puts => ch \in e.sharers
            /\ f.type = "PUTX" => DirExclusive(f.c, f.line)
            /\ f.type = "GETS" => ch \notin e.sharers
            /\ f.type = "GETX" => isExclusive(f.c, f.line)
            /\ f.type = "GETX" /\ ch \in e.sharers => ~ DirExclusive(f.c, f.line)
            /\ f.wb => isExclusive(f.c, f.line)

AssertionsHold ==
    \A t \in Threads : stack[t] # << >> =>
        RacesAreKnown(t) /\ BottomAsserts(t) /\ TopAsserts(t)

\* The thread that holds the lock t is blocked on, or None.
WaitsFor(t) ==
    IF stack[t] = << >> THEN None
    ELSE LET f == Top(t) IN
         CASE f.pc = "tcc" -> tccLock[f.c]
           [] f.pc \in {"bcc", "ilock"} -> bccLock[f.c]
           [] f.pc = "iflock" -> filterLock[f.c]
           [] f.pc = "end" -> IF f.c \in Leaves THEN filterLock[f.c]
                              ELSE bccLock[Caller(t).c]
           [] OTHER -> None

\* Accesses lock upwards, invalidations lock downwards and an access relocks
\* its child while it holds the parent; still, no threads wait for each other
\* in a circle (nor does one wait for itself).
NoWaitCycle ==
    \A S \in SUBSET Threads : S # {} => \E t \in S : WaitsFor(t) \notin S


\* No store is missed and none is lost, whatever cache holds the line.
StoresKept == ReadsLastStore /\ LastStoreKept

\* What the levels know of each other agrees: a cache of its children, a
\* directory of its sharers, a filter of its cache.  A copy that a level has
\* forgotten is one that no invalidation reaches.
HierarchyConsistent == TypeOK /\ Inclusion /\ DirectoryExact /\ FilterTrusted
=============================================================================
