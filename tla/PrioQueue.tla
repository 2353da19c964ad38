----------------------------- MODULE PrioQueue -------------------------------
(***************************************************************************)
(* The calendar queue of src/src/prio_queue.h: a ring of B blocks of W     *)
(* cycles each, starting at block curBlock, and a sorted map for what lies *)
(* beyond.  Far elements come into the ring every B/2 blocks.              *)
(*                                                                         *)
(* A cycle's list in the ring is kept as a set: which of two elements of   *)
(* the same cycle comes first is left open (the code takes the youngest).  *)
(* The bits of occ say which lists are not empty.                          *)
(***************************************************************************)
EXTENDS Integers, FiniteSets, FiniteSetsExt

CONSTANTS
    Objs,       \* elements
    B,          \* blocks in the ring, 1024 in the code
    W,          \* cycles per block, 64 in the code
    MaxCycle    \* bound on the cycles enqueued

ASSUME SizesAssumption == B \in Nat /\ B > 0 /\ B % 2 = 0 /\ W \in Nat \ {0}
ASSUME BoundAssumption == MaxCycle \in Nat

VARIABLES
    blocks,     \* blocks[i][pos]: the elements at offset pos of ring block i
    feMap,      \* the far elements, as pairs <<cycle, element>>
    curBlock,   \* the first block of the ring
    elems,      \* number of elements
    last        \* the cycle that the last dequeue returned

vars == <<blocks, feMap, curBlock, elems, last>>

Init ==
    /\ blocks = [i \in 0 .. B - 1 |-> [pos \in 0 .. W - 1 |-> {}]]
    /\ feMap = {}
    /\ curBlock = 0
    /\ elems = 0
    /\ last = 0

\* The queued elements, and the block of a cycle.
Queued == (UNION {blocks[i][pos] : i \in 0 .. B - 1, pos \in 0 .. W - 1})
              \cup {f[2] : f \in feMap}
BlockOf(c) == c \div W

\* The offsets of ring block i that are populated: its occ.
Occ(ring, i) == {pos \in 0 .. W - 1 : ring[i][pos] # {}}

\* PQBlock::enqueue for every pair in fs.
Insert(ring, fs) ==
    [i \in 0 .. B - 1 |-> [pos \in 0 .. W - 1 |->
        ring[i][pos] \cup {f[2] : f \in {g \in fs : BlockOf(g[1]) % B = i /\ g[1] % W = pos}}]]

\* Faulty form: one block too many is taken for the ring.
enqueue_OffByOne(o, c) ==
    /\ o \notin Queued
    /\ IF BlockOf(c) <= curBlock + B
       THEN blocks' = Insert(blocks, {<<c, o>>}) /\ UNCHANGED feMap
       ELSE feMap' = feMap \cup {<<c, o>>} /\ UNCHANGED blocks
    /\ elems' = elems + 1
    /\ UNCHANGED <<curBlock, last>>

enqueue(o, c) ==
    /\ o \notin Queued
    /\ IF BlockOf(c) < curBlock + B
       THEN blocks' = Insert(blocks, {<<c, o>>}) /\ UNCHANGED feMap
       ELSE feMap' = feMap \cup {<<c, o>>} /\ UNCHANGED blocks
    /\ elems' = elems + 1
    /\ UNCHANGED <<curBlock, last>>

\* Faulty form: far elements are moved only once around the ring.
Moved_OnceAround(n) ==
    LET stops == {m \in curBlock + 1 .. n : m % B = 0}
    IN  {f \in feMap : \E m \in stops : f[1] < (m + B) * W}

\* The far elements that come into the ring while curBlock advances to n: at
\* every stop m, all those before the end of the ring.
Moved(n) ==
    LET stops == {m \in curBlock + 1 .. n : m % (B \div 2) = 0}
    IN  {f \in feMap : \E m \in stops : f[1] < (m + B) * W}

\* Where the search of dequeue stops: the first block that is populated.
Ring(n) == Insert(blocks, Moved(n))
FirstBlock ==
    CHOOSE n \in curBlock .. BlockOf(MaxCycle) :
        /\ Occ(Ring(n), n % B) # {}
        /\ \A m \in curBlock .. n - 1 : Occ(Ring(m), m % B) = {}

\* The element o, of the first populated offset of that block, is taken.
dequeue(o) ==
    LET n == FirstBlock
        ring == Ring(n)
        pos == Min(Occ(ring, n % B))
    IN  /\ elems > 0
        /\ o \in ring[n % B][pos]
        /\ blocks' = [ring EXCEPT ![n % B][pos] = @ \ {o}]
        /\ feMap' = feMap \ Moved(n)
        /\ curBlock' = n
        /\ elems' = elems - 1
        /\ last' = n * W + pos

\* Faulty form: far elements are not looked at while the ring is populated.
firstCycle_NearOnly ==
    LET ahead == {i \in 0 .. B - 1 : Occ(blocks, (curBlock + i) % B) # {}}
        near == Min(ahead)
        cycle == (curBlock + near) * W + Min(Occ(blocks, (curBlock + near) % B))
    IN  IF ahead = {} THEN Min({f[1] : f \in feMap}) ELSE cycle

\* The cycle of the first element; elems > 0.  Beyond B/2 blocks a far element
\* may come earlier.
firstCycle ==
    LET ahead == {i \in 0 .. B - 1 : Occ(blocks, (curBlock + i) % B) # {}}
        near == Min(ahead)
        cycle == (curBlock + near) * W + Min(Occ(blocks, (curBlock + near) % B))
        far == {f[1] : f \in feMap}
    IN  IF ahead = {} THEN Min(far)
        ELSE IF near < B \div 2 THEN cycle
        ELSE Min({cycle} \cup far)

\* Events are enqueued no earlier than the domain's current cycle.
Next == \E o \in Objs : dequeue(o) \/ \E c \in last .. MaxCycle : enqueue(o, c)

Spec == Init /\ [][Next]_vars

-----------------------------------------------------------------------------
\* The cycle that the ring and the map stand for: block i of the ring is the
\* only one from curBlock to curBlock + B - 1 with that remainder.
RingBlock(i) == CHOOSE n \in curBlock .. curBlock + B - 1 : n % B = i
due ==
    [o \in Objs |->
        IF \E f \in feMap : f[2] = o THEN (CHOOSE f \in feMap : f[2] = o)[1]
        ELSE IF o \notin Queued THEN -1
        ELSE LET at == CHOOSE at \in (0 .. B - 1) \X (0 .. W - 1) : o \in blocks[at[1]][at[2]]
             IN  RingBlock(at[1]) * W + at[2]]

\* The queue implements an ideal one: every dequeue returns an element that is
\* due first, at the cycle it was enqueued for, though the ring is used again
\* and again and far elements move.
Q == INSTANCE EventQueue
ImplementsQueue == Q!Spec

\* firstCycle is the cycle of the next dequeue: what ContentionSim compares with
\* the limit and publishes as the domain's clock before it dequeues.
FirstCycleExact ==
    elems > 0 => firstCycle = Min({due[o] : o \in Queued})

\* The comment in firstCycle and the assertions of dequeue: far elements lie
\* beyond the first half of the ring, and nothing is lost or counted twice.
FarIsFar ==
    /\ \A f \in feMap : BlockOf(f[1]) >= curBlock + B \div 2
    /\ elems = Cardinality(Queued)

\* What the queue says of itself is exact while its ring is used again and
\* again: the first cycle, the size, and which elements are far.
QueueExact == FirstCycleExact /\ FarIsFar
=============================================================================
