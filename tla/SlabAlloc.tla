----------------------------- MODULE SlabAlloc ------------------------------
(***************************************************************************)
(* The allocator of timing events (slab_alloc.h): the recorder of a core   *)
(* carves events and blocks of children out of slabs in the bound phase,   *)
(* and the threads of the weave phase give them back, in any order, as the *)
(* events are done (timing_event.h).  A slab has no list of its elements,  *)
(* only a count of the live ones; when it reaches zero the slab is used    *)
(* again.                                                                  *)
(*                                                                         *)
(* Addresses are pairs of a slab and an offset in it, sizes a few units.   *)
(* A crossing embeds the event of its source domain, which is done, and    *)
(* frees itself, like any event.                                           *)
(***************************************************************************)
EXTENDS Integers, Sequences, FiniteSets

CONSTANTS
    Threads,        \* of the weave phase
    BufSize,        \* bytes of a slab
    EventSizes,     \* of events; blocks have the size BlockSize
    BlockSize,
    MaxElems        \* elements ever allocated

\* Sizes are at least 2 (every element has more than one byte, and the assertion
\* of freeElem counts on that), and less than BufSize.
BlockEvents == 3    \* TIMING_BLOCK_EVENTS

VARIABLES
    weave,          \* the weave phase runs, else the bound phase
    slabs,          \* slabs with their liveElems and usedBytes
    curSlab, freeList, liveSlabs,
    elems,          \* the elements that are live, by the order of their allocation
    made,           \* elements allocated so far
    todo,           \* what each thread still frees: slab and element, 0 for an embedded event
    giving,         \* the slab that each thread gives back, 0 for none
    called,         \* crossings whose source event is done
    failed          \* an assertion failed

vars == <<weave, slabs, curSlab, freeList, liveSlabs, elems, made, todo, giving, called, failed>>
allocator == <<slabs, curSlab, freeList, liveSlabs, elems, made>>

Clear == [live |-> 0, used |-> 0]

Init ==
    /\ weave = FALSE
    /\ slabs = <<Clear>> /\ curSlab = 1 /\ freeList = <<>> /\ liveSlabs = 1
    /\ elems = <<>> /\ made = 0
    /\ todo = [t \in Threads |-> <<>>] /\ giving = [t \in Threads |-> 0]
    /\ called = {} /\ failed = FALSE

-----------------------------------------------------------------------------
(* Allocation, by the only thread of the core *)

\* What does not fit is counted as used all the same.
Carved(s, size) ==
    [s EXCEPT !.used = @ + size, !.live = IF s.used + size < BufSize THEN @ + 1 ELSE @]

\* The slab that is given out last is used first.
allocSlab(size) ==
    IF freeList # <<>>
    THEN LET s == freeList[Len(freeList)] IN
         /\ curSlab' = s
         /\ freeList' = SubSeq(freeList, 1, Len(freeList) - 1)
         /\ slabs' = [slabs EXCEPT ![curSlab] = Carved(@, size), ![s] = Carved(@, size)]
    ELSE /\ curSlab' = Len(slabs) + 1
         /\ slabs' = Append([slabs EXCEPT ![curSlab] = Carved(@, size)], Carved(Clear, size))
         /\ UNCHANGED freeList

\* The element has as many children as it is given later, and owns their blocks.
alloc(kind, size, owner) ==
    LET fits == slabs[curSlab].used + size < BufSize IN
    /\ ~weave /\ ~failed /\ made < MaxElems
    /\ IF fits
       THEN /\ slabs' = [slabs EXCEPT ![curSlab] = Carved(@, size)]
            /\ UNCHANGED <<curSlab, freeList, liveSlabs>>
       ELSE allocSlab(size) /\ liveSlabs' = liveSlabs + 1
    /\ made' = made + 1
    /\ elems' = [e \in DOMAIN elems \cup {made + 1} |->
                   IF e = made + 1
                   THEN [kind |-> kind, slab |-> curSlab', at |-> slabs'[curSlab'].used - size, size |-> size,
                         owner |-> owner, children |-> IF kind = "crossing" THEN 1 ELSE 0]
                   ELSE IF e = owner THEN [elems[e] EXCEPT !.children = @ + 1] ELSE elems[e]]
    /\ UNCHANGED <<weave, todo, giving, called, failed>>

NewEvent == \E kind \in {"event", "crossing"}, size \in EventSizes : alloc(kind, size, 0)

\* The second child and every third after it need a block.
NeedsBlock(n) == n = 1 \/ (n > 1 /\ n % BlockEvents = 0)

addChild(e) ==
    /\ elems[e].kind = "event" /\ elems[e].children <= BlockEvents
    /\ IF NeedsBlock(elems[e].children) THEN alloc("block", BlockSize, e)
       ELSE /\ ~weave /\ ~failed
            /\ elems' = [elems EXCEPT ![e].children = @ + 1]
            /\ UNCHANGED <<weave, slabs, curSlab, freeList, liveSlabs, made, todo, giving, called, failed>>

-----------------------------------------------------------------------------
(* Deallocation, by the threads of the weave phase *)

StartWeave == ~weave /\ weave' = TRUE /\ UNCHANGED <<allocator, todo, giving, called, failed>>

Idle(t) == todo[t] = <<>> /\ giving[t] = 0

EndWeave ==
    /\ weave /\ \A t \in Threads : Idle(t)
    /\ weave' = FALSE
    /\ UNCHANGED <<allocator, todo, giving, called, failed>>

Freeing(e) == \E t \in Threads : \E i \in DOMAIN todo[t] : todo[t][i].elem = e

BlocksOf(e) == {b \in DOMAIN elems : elems[b].owner = e}

\* Newest first, as they are linked.
Newest(S) == [i \in 1 .. Cardinality(S) |-> CHOOSE b \in S : Cardinality({c \in S : c >= b}) = i]

\* The event is done: it frees the blocks of its children, then itself.  A crossing
\* is not done before the event of its source is.
freeEvent(t, e) ==
    /\ weave /\ ~failed /\ Idle(t)
    /\ elems[e].kind # "block" /\ ~Freeing(e)
    /\ elems[e].kind = "crossing" => e \in called
    /\ LET all == Append(Newest(BlocksOf(e)), e) IN
       todo' = [todo EXCEPT ![t] = [i \in 1 .. Len(all) |-> [slab |-> elems[all[i]].slab, elem |-> all[i]]]]
    /\ UNCHANGED <<weave, allocator, giving, called, failed>>

\* markSrcEventDone, then done() of the source event.
SrcEventDone(t, e) ==
    /\ weave /\ ~failed /\ Idle(t)
    /\ elems[e].kind = "crossing" /\ e \notin called
    /\ called' = called \cup {e}
    /\ todo' = [todo EXCEPT ![t] = <<[slab |-> elems[e].slab, elem |-> 0]>>]
    /\ UNCHANGED <<weave, allocator, giving, failed>>

\* Faulty form: the slab is given back with one element in it.
Last_One(prevLiveElems) == prevLiveElems <= 2

Last(prevLiveElems) == prevLiveElems = 1

freeElem(t) ==
    /\ ~failed /\ todo[t] # <<>> /\ giving[t] = 0
    /\ LET x == Head(todo[t])  s == slabs[x.slab] IN
       IF s.live = 0 \/ s.live >= s.used
       THEN failed' = TRUE /\ UNCHANGED <<weave, allocator, todo, giving, called>>
       ELSE /\ slabs' = [slabs EXCEPT ![x.slab].live = @ - 1]
            /\ elems' = [e \in DOMAIN elems \ {x.elem} |-> elems[e]]
            /\ giving' = IF Last(s.live) THEN [giving EXCEPT ![t] = x.slab] ELSE giving
            /\ todo' = [todo EXCEPT ![t] = Tail(@)]
            /\ UNCHANGED <<weave, curSlab, freeList, liveSlabs, made, called, failed>>

\* Faulty form: the current slab, which goes on being used, is free as well.
GivenBack_Current(s) == Append(freeList, s)

\* The current slab is only cleared.
GivenBack(s) == IF s = curSlab THEN freeList ELSE Append(freeList, s)

freeSlab(t) ==
    /\ ~failed /\ giving[t] # 0
    /\ slabs' = [slabs EXCEPT ![giving[t]] = Clear]
    /\ freeList' = GivenBack(giving[t])
    /\ liveSlabs' = IF giving[t] = curSlab THEN liveSlabs ELSE liveSlabs - 1
    /\ giving' = [giving EXCEPT ![t] = 0]
    /\ failed' = (liveSlabs' = 0)
    /\ UNCHANGED <<weave, curSlab, elems, made, todo, called>>

Next ==
    \/ NewEvent \/ StartWeave \/ EndWeave
    \/ \E e \in DOMAIN elems : addChild(e) \/ \E t \in Threads : freeEvent(t, e) \/ SrcEventDone(t, e)
    \/ \E t \in Threads : freeElem(t) \/ freeSlab(t)

Spec == Init /\ [][Next]_vars

-----------------------------------------------------------------------------
(* Properties *)

In(s) == {e \in DOMAIN elems : elems[e].slab = s}
Given == {giving[t] : t \in Threads} \ {0}
Free == {freeList[i] : i \in DOMAIN freeList}

\* "Slabs are garbage-collected once all their events are done" (slab_alloc.h:32),
\* and no earlier: a slab that can be used again has no live element, and one that
\* is neither current nor can be used again has some; elements of a slab do not
\* overlap.
CollectedWhenDone ==
    /\ Free \cap {elems[e].slab : e \in DOMAIN elems} = {}
    /\ \A s \in DOMAIN slabs : s \in Free \cup Given \cup {curSlab} \/ In(s) # {}
    /\ \A d, e \in DOMAIN elems :
          d # e /\ elems[d].slab = elems[e].slab =>
              elems[d].at + elems[d].size <= elems[e].at \/ elems[e].at + elems[e].size <= elems[d].at

\* The allocator's own accounts: the free list has each slab once and never the
\* current one, and liveSlabs counts the others.
AccountsExact ==
    /\ Cardinality(Free) = Len(freeList) /\ curSlab \notin Free
    /\ liveSlabs + Len(freeList) = Len(slabs)
    /\ \A s \in DOMAIN slabs : slabs[s].live = Cardinality(In(s))

\* All of that holds, and the assertions of the allocator do, as long as no source
\* event is done: it was never allocated, and frees an element of the slab that the
\* crossing around it is in.
SlabsSound == called = {} => CollectedWhenDone /\ AccountsExact /\ ~failed
=============================================================================
