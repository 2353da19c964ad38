--------------------------- MODULE PrioQueueProofs ---------------------------
(***************************************************************************)
(* For every ring size B, block size W and bound MaxCycle, and for any set *)
(* of elements, the calendar queue of PrioQueue implements the ideal queue *)
(* of EventQueue, and what it says of itself is exact.                     *)
(*                                                                         *)
(* The argument: the ring and the map always represent one assignment of   *)
(* cycles to the queued elements, some of which are far (Represents).  The *)
(* refinement mapping due computes that assignment from them.  A far       *)
(* element is beyond the ring as it stood at the last stop, hence it comes *)
(* into the ring before the search of dequeue reaches its block.           *)
(***************************************************************************)
EXTENDS PrioQueue, SetLemmas

-----------------------------------------------------------------------------
\* Far elements come in at the multiples of Half; Stop(n) is the last one up
\* to n.
Half == B \div 2
Stop(n) == n - (n % Half)

\* The ring has an even number of blocks, hence a first half.
LEMMA HalfOfRing == Half \in Nat /\ Half > 0 /\ B = 2 * Half /\ B \in Nat /\ B > 0
BY SizesAssumption DEF Half

\* A cycle is block times W plus offset.
LEMMA BlockAndOffset ==
    ASSUME NEW c \in Nat
    PROVE  /\ BlockOf(c) \in Nat
           /\ c % W \in 0 .. W - 1
           /\ c = W * BlockOf(c) + (c % W)
<1>1. W \in Int /\ W > 0 /\ c \in Int
  BY SizesAssumption
<1>2. /\ BlockOf(c) \in Int
      /\ c % W \in 0 .. W - 1
      /\ c = W * BlockOf(c) + (c % W)
  BY <1>1, DivMod DEF BlockOf
<1>3. BlockOf(c) >= 0
  <2> DEFINE b == BlockOf(c)
             r == c % W
  <2>1. b \in Int /\ r \in 0 .. W - 1 /\ c = W * b + r
    BY <1>2
  <2> HIDE DEF b, r
  <2>2. ASSUME b < 0 PROVE W * b + W <= W * 0
    BY <1>1, <2>1, <2>2, Multiples
  <2>3. b >= 0
    BY <1>1, <2>1, <2>2
  <2> QED
    BY <2>3 DEF b
<1> QED
  BY <1>2, <1>3

\* Any block and offset are those of one cycle.
LEMMA CycleOf ==
    ASSUME NEW n \in Nat, NEW pos \in 0 .. W - 1
    PROVE  /\ n * W + pos \in Nat
           /\ BlockOf(n * W + pos) = n
           /\ (n * W + pos) % W = pos
<1>1. W \in Int /\ W > 0 /\ n * W = W * n /\ n * W \in Nat
  BY SizesAssumption
<1>2. (W * n + pos) \div W = n /\ (W * n + pos) % W = pos
  BY <1>1, DivModUnique
<1> QED
  BY <1>1, <1>2 DEF BlockOf

\* An earlier block holds earlier cycles.
LEMMA BlockOrder ==
    ASSUME NEW c \in Nat, NEW d \in Nat
    PROVE  /\ BlockOf(c) < BlockOf(d) => c < d
           /\ c <= d => BlockOf(c) <= BlockOf(d)
           /\ (BlockOf(c) = BlockOf(d) /\ c % W <= d % W) => c <= d
           /\ (BlockOf(c) = BlockOf(d) /\ c <= d) => c % W <= d % W
<1> DEFINE b == BlockOf(c)
           e == BlockOf(d)
           p == c % W
           q == d % W
<1>1. /\ b \in Nat /\ e \in Nat /\ p \in 0 .. W - 1 /\ q \in 0 .. W - 1
      /\ c = W * b + p /\ d = W * e + q
  BY BlockAndOffset
<1> HIDE DEF b, e, p, q
<1>2. W \in Int /\ W > 0 /\ W * b \in Int /\ W * e \in Int
  BY <1>1, SizesAssumption
<1>3. b < e => W * b + W <= W * e
  BY <1>1, <1>2, Multiples
<1>4. e < b => W * e + W <= W * b
  BY <1>1, <1>2, Multiples
<1>5. /\ b < e => c < d
      /\ c <= d => b <= e
      /\ (b = e /\ p <= q) => c <= d
      /\ (b = e /\ c <= d) => p <= q
  BY <1>1, <1>2, <1>3, <1>4
<1> QED
  BY <1>5 DEF b, e, p, q

\* The cycles before block n.
LEMMA BeforeBlock ==
    ASSUME NEW c \in Nat, NEW n \in Nat
    PROVE  c < n * W <=> BlockOf(c) < n
<1>1. /\ n * W + 0 \in Nat /\ BlockOf(n * W + 0) = n /\ (n * W + 0) % W = 0
      /\ n * W + 0 = n * W
  <2>1. 0 \in 0 .. W - 1
    BY SizesAssumption
  <2>2. n * W + 0 \in Nat /\ BlockOf(n * W + 0) = n /\ (n * W + 0) % W = 0
    BY <2>1, CycleOf
  <2>3. n * W + 0 = n * W
    BY SizesAssumption
  <2> QED
    BY <2>2, <2>3
<1>2. c % W \in 0 .. W - 1 /\ BlockOf(c) \in Nat
  BY BlockAndOffset
<1> DEFINE d == n * W
           b == BlockOf(c)
<1>3. d \in Nat /\ BlockOf(d) = n /\ d % W = 0 /\ b \in Nat /\ c % W >= 0
  BY <1>1, <1>2
<1> HIDE DEF d
<1>4. b < n => c < d
  BY <1>3, BlockOrder
<1>5. n < b => d < c
  BY <1>3, BlockOrder
<1>6. n = b => d <= c
  BY <1>3, BlockOrder
<1> HIDE DEF b
<1>7. c < d <=> b < n
  BY <1>3, <1>4, <1>5, <1>6
<1> QED
  BY <1>7 DEF d, b

\* No two blocks of the ring share a slot.
LEMMA SlotUnique ==
    ASSUME NEW k \in Nat, NEW m \in k .. k + B - 1, NEW n \in k .. k + B - 1, m % B = n % B
    PROVE  m = n
<1>1. B \in Int /\ B > 0 /\ k \in Int
  BY HalfOfRing
<1>2. \A x, y \in k .. k + B - 1 : x % B = y % B => x = y
  BY <1>1, RingSlots
<1> QED
  BY <1>2

\* The slot of a block is one of the ring.
LEMMA SlotInRing ==
    ASSUME NEW n \in Nat
    PROVE  n % B \in 0 .. B - 1
BY DivMod, HalfOfRing

\* Stop(n) is a stop, the last one up to n, and the next is half a ring later.
LEMMA StopFacts ==
    ASSUME NEW n \in Nat
    PROVE  /\ Stop(n) \in Nat
           /\ Stop(n) <= n
           /\ n < Stop(n) + Half
           /\ Stop(n) % Half = 0
           /\ \A m \in Nat : m % Half = 0 /\ m <= n => m <= Stop(n)
           /\ \A m \in Nat : m % Half = 0 /\ Stop(n) < m => n < m
<1> DEFINE q == n \div Half
           r == n % Half
<1>1. Half \in Int /\ Half > 0
  BY HalfOfRing
<1>2. q \in Int /\ r \in 0 .. Half - 1 /\ n = Half * q + r
  BY <1>1, DivMod
<1>3. Stop(n) = Half * q /\ Half * q \in Int
  <2> HIDE DEF q
  <2>1. Half * q \in Int
    BY <1>1, <1>2
  <2>2. Stop(n) = n - r
    BY DEF Stop
  <2> HIDE DEF r
  <2> QED
    BY <1>2, <2>1, <2>2
<1> HIDE DEF q, r
<1>4. Stop(n) <= n /\ n < Stop(n) + Half
  BY <1>1, <1>2, <1>3
<1>5. q >= 0
  <2>1. ASSUME q < 0 PROVE Half * q + Half <= Half * 0
    BY <1>1, <1>2, <2>1, Multiples
  <2> QED
    BY <1>1, <1>2, <1>3, <2>1
<1>6. Stop(n) \in Nat
  BY <1>1, <1>2, <1>3, <1>5
<1>7. Stop(n) % Half = 0
  <2>1. (Half * q + 0) % Half = 0
    BY <1>1, <1>2, DivModUnique
  <2> QED
    BY <1>3, <2>1
<1>8. ASSUME NEW m \in Nat, m % Half = 0
      PROVE  Stop(n) < m => Stop(n) + Half <= m
  <2> DEFINE p == m \div Half
  <2>1. p \in Int /\ m = Half * p + (m % Half)
    BY <1>1, DivMod
  <2> HIDE DEF p
  <2>2. Half * p \in Int /\ m = Half * p
    BY <1>1, <1>8, <2>1
  <2>3. q < p => Half * q + Half <= Half * p
    BY <1>1, <1>2, <2>1, Multiples
  <2>4. p <= q => Half * p <= Half * q
    BY <1>1, <1>2, <2>1
  <2> QED
    BY <1>2, <1>3, <2>1, <2>2, <2>3, <2>4
<1>9. \A m \in Nat : m % Half = 0 /\ m <= n => m <= Stop(n)
  BY <1>4, <1>6, <1>8, HalfOfRing
<1>10. \A m \in Nat : m % Half = 0 /\ Stop(n) < m => n < m
  BY <1>4, <1>6, <1>8, HalfOfRing
<1> QED
  BY <1>4, <1>6, <1>7, <1>9, <1>10

-----------------------------------------------------------------------------
\* The elements that d assigns a cycle to, and the ring that holds those of
\* them that are not in F.
Assigned(d) == {o \in Objs : d[o] # -1}
RingOf(d, F) ==
    [i \in 0 .. B - 1 |-> [pos \in 0 .. W - 1 |->
        {o \in Objs \ F : d[o] # -1 /\ BlockOf(d[o]) % B = i /\ d[o] % W = pos}]]

\* The queue represents the cycles d, with the elements F far: an element near
\* lies within the ring, a far one beyond the ring as of the last stop.
Represents(d, F) ==
    /\ d \in [Objs -> Int] /\ F \in SUBSET Assigned(d)
    /\ last \in Nat /\ curBlock = BlockOf(last)
    /\ \A o \in Assigned(d) : d[o] \in last .. MaxCycle
    /\ \A o \in Assigned(d) \ F : BlockOf(d[o]) < curBlock + B
    /\ \A o \in F : BlockOf(d[o]) >= Stop(curBlock) + B
    /\ blocks = RingOf(d, F)
    /\ feMap = {<<d[o], o>> : o \in F}
    /\ IsFiniteSet(Assigned(d)) /\ elems = Cardinality(Assigned(d))

\* The inductive invariant: the queue represents some assignment.
PrioQueueInv == \E d, F : Represents(d, F)

\* The cycles of a represented assignment are naturals, in blocks of the
\* present and later ones.
LEMMA CyclesOf ==
    ASSUME NEW d, NEW F, Represents(d, F), NEW o \in Assigned(d)
    PROVE  /\ o \in Objs
           /\ d[o] \in Nat /\ d[o] >= last /\ d[o] <= MaxCycle
           /\ BlockOf(d[o]) \in Nat /\ curBlock \in Nat
           /\ BlockOf(d[o]) >= curBlock
           /\ BlockOf(d[o]) <= BlockOf(MaxCycle) /\ BlockOf(MaxCycle) \in Nat
<1>1. o \in Objs /\ d[o] \in last .. MaxCycle /\ last \in Nat /\ curBlock = BlockOf(last)
  BY DEF Represents, Assigned
<1>2. d[o] \in Nat /\ d[o] >= last /\ d[o] <= MaxCycle
  BY <1>1, BoundAssumption
<1>3. BlockOf(d[o]) \in Nat /\ BlockOf(last) \in Nat /\ BlockOf(MaxCycle) \in Nat
  BY <1>1, <1>2, BoundAssumption, BlockAndOffset
<1>4. BlockOf(last) <= BlockOf(d[o])
  BY <1>1, <1>2, BlockOrder
<1>5. BlockOf(d[o]) <= BlockOf(MaxCycle)
  BY <1>2, BoundAssumption, BlockOrder
<1> QED
  BY <1>1, <1>2, <1>3, <1>4, <1>5

\* What a slot of the ring holds.
LEMMA SlotHolds ==
    ASSUME NEW d, NEW F, NEW i \in 0 .. B - 1, NEW pos \in 0 .. W - 1, NEW o
    PROVE  o \in RingOf(d, F)[i][pos]
               <=> o \in Assigned(d) \ F /\ BlockOf(d[o]) % B = i /\ d[o] % W = pos
BY DEF RingOf, Assigned

\* An element is queued if it is in a slot of the ring or in the map.
LEMMA QueuedMeans ==
    ASSUME NEW o
    PROVE  o \in Queued <=> \/ \E i \in 0 .. B - 1, pos \in 0 .. W - 1 : o \in blocks[i][pos]
                            \/ \E f \in feMap : o = f[2]
<1> DEFINE Near == UNION {blocks[i][pos] : i \in 0 .. B - 1, pos \in 0 .. W - 1}
           Far == {f[2] : f \in feMap}
<1>1. o \in Near <=> \E i \in 0 .. B - 1, pos \in 0 .. W - 1 : o \in blocks[i][pos]
  OBVIOUS
<1>2. o \in Far <=> \E f \in feMap : o = f[2]
  OBVIOUS
<1>3. Queued = Near \cup Far
  BY DEF Queued
<1> HIDE DEF Near, Far
<1> QED
  BY <1>1, <1>2, <1>3

\* The queued elements are the ones with a cycle.
LEMMA QueuedExact ==
    ASSUME NEW d, NEW F, Represents(d, F)
    PROVE  Queued = Assigned(d)
<1>1. blocks = RingOf(d, F) /\ feMap = {<<d[o], o>> : o \in F} /\ F \in SUBSET Assigned(d)
  BY DEF Represents
<1>2. ASSUME NEW o \in Queued
      PROVE  o \in Assigned(d)
  <2>1. CASE \E i \in 0 .. B - 1, pos \in 0 .. W - 1 : o \in blocks[i][pos]
    BY <1>1, <2>1, SlotHolds
  <2>2. CASE \E f \in feMap : o = f[2]
    BY <1>1, <2>2
  <2> QED
    BY <1>2, <2>1, <2>2, QueuedMeans
<1>3. ASSUME NEW o \in Assigned(d)
      PROVE  o \in Queued
  <2>1. CASE o \in F
    <3>1. <<d[o], o>> \in feMap /\ <<d[o], o>>[2] = o
      BY <1>1, <2>1
    <3> QED
      BY <3>1, QueuedMeans
  <2>2. CASE o \notin F
    <3> DEFINE i == BlockOf(d[o]) % B
               pos == d[o] % W
    <3>1. i \in 0 .. B - 1 /\ pos \in 0 .. W - 1
      BY CyclesOf, SlotInRing, BlockAndOffset
    <3>2. o \in blocks[i][pos]
      BY <1>1, <1>3, <2>2, <3>1, SlotHolds
    <3> HIDE DEF i, pos
    <3> QED
      BY <3>1, <3>2, QueuedMeans
  <2> QED
    BY <2>1, <2>2
<1> QED
  BY <1>2, <1>3

\* The block of an element of the ring follows from its slot.
LEMMA SlotBlock ==
    ASSUME NEW d, NEW F, Represents(d, F), NEW o \in Assigned(d) \ F
    PROVE  RingBlock(BlockOf(d[o]) % B) = BlockOf(d[o])
<1> DEFINE b == BlockOf(d[o])
<1>1. /\ b \in Nat /\ curBlock \in Nat /\ b >= curBlock /\ b < curBlock + B
  BY CyclesOf DEF Represents
<1> HIDE DEF b
<1>2. b \in curBlock .. curBlock + B - 1
  BY <1>1, HalfOfRing
<1>3. \A n \in curBlock .. curBlock + B - 1 : n % B = b % B => n = b
  BY <1>1, <1>2, SlotUnique
<1>4. RingBlock(b % B) = b
  BY <1>2, <1>3 DEF RingBlock
<1> QED
  BY <1>4 DEF b

\* The refinement mapping computes the represented assignment.
LEMMA DueExact ==
    ASSUME NEW d, NEW F, Represents(d, F)
    PROVE  due = d
<1>1. /\ blocks = RingOf(d, F) /\ feMap = {<<d[o], o>> : o \in F}
      /\ F \in SUBSET Assigned(d) /\ d \in [Objs -> Int]
  BY DEF Represents
<1>2. ASSUME NEW o \in Objs
      PROVE  due[o] = d[o]
  <2>1. CASE o \in F
    <3>1. \A f \in feMap : f[2] = o => f[1] = d[o]
      BY <1>1
    <3>2. \E f \in feMap : f[2] = o
      <4>1. <<d[o], o>> \in feMap /\ <<d[o], o>>[2] = o
        BY <1>1, <2>1
      <4> QED
        BY <4>1
    <3>3. (CHOOSE f \in feMap : f[2] = o)[1] = d[o]
      BY <3>1, <3>2
    <3> QED
      BY <3>2, <3>3 DEF due
  <2>2. CASE o \notin Assigned(d)
    <3>1. ~ \E f \in feMap : f[2] = o
      BY <1>1, <2>2
    <3>2. o \notin Queued
      BY <2>2, QueuedExact
    <3>3. d[o] = -1
      BY <2>2 DEF Assigned
    <3> QED
      BY <3>1, <3>2, <3>3 DEF due
  <2>3. CASE o \in Assigned(d) \ F
    <3>1. ~ \E f \in feMap : f[2] = o
      BY <1>1, <2>3
    <3>2. o \in Queued
      BY <2>3, QueuedExact
    <3> DEFINE c == d[o]
               i == BlockOf(c) % B
               pos == c % W
               Here(at) == o \in blocks[at[1]][at[2]]
               at == CHOOSE at \in (0 .. B - 1) \X (0 .. W - 1) : Here(at)
    <3>3. i \in 0 .. B - 1 /\ pos \in 0 .. W - 1 /\ c \in Nat /\ BlockOf(c) \in Nat
      BY <2>3, CyclesOf, SlotInRing, BlockAndOffset
    <3>4. \A x \in (0 .. B - 1) \X (0 .. W - 1) :
              Here(x) <=> x[1] = i /\ x[2] = pos
      BY <1>1, <2>3, SlotHolds
    <3>5. RingBlock(i) = BlockOf(c)
      BY <2>3, SlotBlock
    <3>6. c = W * BlockOf(c) + pos
      BY <3>3, BlockAndOffset
    <3> HIDE DEF i, pos, Here
    <3>7. at \in (0 .. B - 1) \X (0 .. W - 1) /\ Here(at)
      <4>1. <<i, pos>> \in (0 .. B - 1) \X (0 .. W - 1) /\ Here(<<i, pos>>)
        BY <3>3, <3>4
      <4> QED
        BY <4>1
    <3> HIDE DEF at
    <3>8. at[1] = i /\ at[2] = pos
      BY <3>4, <3>7
    <3>9. due[o] = RingBlock(at[1]) * W + at[2]
      BY <3>1, <3>2 DEF due, at, Here
    <3>10. due[o] = BlockOf(c) * W + pos
      BY <3>5, <3>8, <3>9
    <3>11. BlockOf(c) * W = W * BlockOf(c)
      BY <3>3, SizesAssumption
    <3> QED
      BY <3>6, <3>10, <3>11
  <2> QED
    BY <2>1, <2>2, <2>3
<1>3. due = [o \in Objs |-> due[o]] /\ d = [o \in Objs |-> d[o]]
  BY <1>1 DEF due
<1> QED
  BY <1>2, <1>3

-----------------------------------------------------------------------------
\* The empty queue represents no cycles.
LEMMA InitRepresents ==
    ASSUME Init
    PROVE  Represents([o \in Objs |-> -1], {})
<1> DEFINE d == [o \in Objs |-> -1]
<1>1. Assigned(d) = {}
  BY DEF Assigned
<1>2. RingOf(d, {}) = [i \in 0 .. B - 1 |-> [pos \in 0 .. W - 1 |-> {}]]
  <2>1. \A i \in 0 .. B - 1, pos \in 0 .. W - 1 :
            {o \in Objs \ {} : d[o] # -1 /\ BlockOf(d[o]) % B = i /\ d[o] % W = pos} = {}
    OBVIOUS
  <2> HIDE DEF d
  <2> QED
    BY <2>1, Zenon DEF RingOf
<1>3. BlockOf(0) = 0
  <2>1. 0 \in 0 .. W - 1 /\ 0 * W + 0 = 0
    BY SizesAssumption
  <2> QED
    BY <2>1, CycleOf
<1>4. d \in [Objs -> Int]
  OBVIOUS
<1>5. {<<d[o], o>> : o \in {}} = {}
  OBVIOUS
<1>6. IsFiniteSet({}) /\ Cardinality({}) = 0
  BY FS_EmptySet
<1> HIDE DEF d
<1>7. Represents(d, {})
  BY <1>1, <1>2, <1>3, <1>4, <1>5, <1>6 DEF Represents, Init
<1> QED
  BY <1>7 DEF d

\* The pairs that come into the ring, element by element.
LEMMA InsertHolds ==
    ASSUME NEW ring, NEW fs, NEW i \in 0 .. B - 1, NEW pos \in 0 .. W - 1, NEW o
    PROVE  o \in Insert(ring, fs)[i][pos]
               <=> \/ o \in ring[i][pos]
                   \/ \E g \in fs : g[2] = o /\ BlockOf(g[1]) % B = i /\ g[1] % W = pos
BY DEF Insert

\* Two rings that hold the same are equal.
LEMMA InsertIs ==
    ASSUME NEW ring, NEW fs, NEW d, NEW F,
           \A i \in 0 .. B - 1, pos \in 0 .. W - 1 :
               Insert(ring, fs)[i][pos] = RingOf(d, F)[i][pos]
    PROVE  Insert(ring, fs) = RingOf(d, F)
<1>1. Insert(ring, fs) = [i \in 0 .. B - 1 |-> [pos \in 0 .. W - 1 |-> Insert(ring, fs)[i][pos]]]
  BY DEF Insert
<1>2. RingOf(d, F) = [i \in 0 .. B - 1 |-> [pos \in 0 .. W - 1 |-> RingOf(d, F)[i][pos]]]
  BY DEF RingOf
<1> QED
  BY <1>1, <1>2

\* Enqueue assigns its cycle to the element, near or far by its block.
LEMMA EnqueueRepresents ==
    ASSUME NEW d, NEW F, Represents(d, F),
           NEW o \in Objs, NEW c \in last .. MaxCycle, enqueue(o, c)
    PROVE  /\ d[o] = -1
           /\ \A e, G : e = [d EXCEPT ![o] = c]
                         /\ G = (IF BlockOf(c) < curBlock + B THEN F ELSE F \cup {o})
                         => Represents(e, G)'
<1>1. /\ d \in [Objs -> Int] /\ F \in SUBSET Assigned(d)
      /\ last \in Nat /\ curBlock = BlockOf(last)
      /\ blocks = RingOf(d, F) /\ feMap = {<<d[x], x>> : x \in F}
      /\ IsFiniteSet(Assigned(d)) /\ elems = Cardinality(Assigned(d))
  BY DEF Represents
<1>2. o \notin Assigned(d) /\ d[o] = -1 /\ o \notin F
  BY <1>1, QueuedExact DEF enqueue, Assigned
<1> SUFFICES \A e, G : e = [d EXCEPT ![o] = c]
                       /\ G = (IF BlockOf(c) < curBlock + B THEN F ELSE F \cup {o})
                       => Represents(e, G)'
  BY <1>2
<1>e. TAKE e, G
<1>g. HAVE e = [d EXCEPT ![o] = c]
           /\ G = (IF BlockOf(c) < curBlock + B THEN F ELSE F \cup {o})
<1>3. /\ c \in Nat /\ c >= last /\ c <= MaxCycle
      /\ BlockOf(c) \in Nat /\ curBlock \in Nat /\ BlockOf(c) >= curBlock
  BY <1>1, BoundAssumption, BlockAndOffset, BlockOrder
<1>4. /\ e \in [Objs -> Int] /\ e[o] = c
      /\ \A x \in Objs : x # o => e[x] = d[x]
  BY <1>1, <1>3, <1>g
<1>5. Assigned(e) = Assigned(d) \cup {o}
  BY <1>2, <1>3, <1>4 DEF Assigned
<1>6. /\ curBlock' = curBlock /\ last' = last /\ elems' = elems + 1
      /\ BlockOf(c) < curBlock + B => blocks' = Insert(blocks, {<<c, o>>}) /\ feMap' = feMap
      /\ ~ (BlockOf(c) < curBlock + B) => feMap' = feMap \cup {<<c, o>>} /\ blocks' = blocks
  BY DEF enqueue
<1>7. /\ \A x \in Assigned(d) : d[x] \in last .. MaxCycle
      /\ \A x \in Assigned(d) \ F : BlockOf(d[x]) < curBlock + B
      /\ \A x \in F : BlockOf(d[x]) >= Stop(curBlock) + B
      /\ Assigned(d) \in SUBSET Objs
  BY DEF Represents, Assigned
<1>8. \A x \in Assigned(e) : e[x] \in last .. MaxCycle
  BY <1>2, <1>3, <1>4, <1>5, <1>7
<1>9. IsFiniteSet(Assigned(e)) /\ elems' = Cardinality(Assigned(e))
  BY <1>1, <1>2, <1>5, <1>6, FS_AddElement
<1>10. G \in SUBSET Assigned(e)
  BY <1>1, <1>5, <1>g
<1>11. \A x \in Assigned(e) \ G : BlockOf(e[x]) < curBlock + B
  BY <1>2, <1>4, <1>5, <1>7, <1>g
<1>12. \A x \in G : BlockOf(e[x]) >= Stop(curBlock) + B
  <2>1. Stop(curBlock) \in Nat /\ Stop(curBlock) <= curBlock /\ B \in Nat
    BY <1>3, StopFacts, HalfOfRing
  <2>2. ASSUME ~ (BlockOf(c) < curBlock + B) PROVE BlockOf(c) >= Stop(curBlock) + B
    BY <1>3, <2>1, <2>2
  <2> QED
    BY <1>1, <1>2, <1>4, <1>7, <1>g, <2>2
<1>13. feMap' = {<<e[x], x>> : x \in G}
  <2>1. {<<e[x], x>> : x \in F} = {<<d[x], x>> : x \in F}
    BY <1>1, <1>2, <1>4, <1>7
  <2>2. {<<e[x], x>> : x \in F \cup {o}} = {<<e[x], x>> : x \in F} \cup {<<c, o>>}
    BY <1>4
  <2> QED
    BY <1>1, <1>6, <1>g, <2>1, <2>2
<1>14. blocks' = RingOf(e, G)
  <2>1. CASE BlockOf(c) < curBlock + B
    <3>1. G = F
      BY <2>1, <1>g
    <3>2. ASSUME NEW i \in 0 .. B - 1, NEW pos \in 0 .. W - 1
          PROVE  Insert(blocks, {<<c, o>>})[i][pos] = RingOf(e, F)[i][pos]
      <4>1. ASSUME NEW x
            PROVE  x \in Insert(blocks, {<<c, o>>})[i][pos]
                       <=> \/ x \in RingOf(d, F)[i][pos]
                           \/ x = o /\ BlockOf(c) % B = i /\ c % W = pos
        <5> DEFINE fs == {<<c, o>>}
                   Comes(y) == \E g \in fs : g[2] = y /\ BlockOf(g[1]) % B = i /\ g[1] % W = pos
        <5>1. Comes(x) <=> x = o /\ BlockOf(c) % B = i /\ c % W = pos
          OBVIOUS
        <5> HIDE DEF fs
        <5>2. x \in Insert(blocks, fs)[i][pos] <=> x \in blocks[i][pos] \/ Comes(x)
          BY InsertHolds
        <5> HIDE DEF Comes
        <5>3. x \in Insert(blocks, fs)[i][pos]
                  <=> \/ x \in RingOf(d, F)[i][pos]
                      \/ x = o /\ BlockOf(c) % B = i /\ c % W = pos
          BY <1>1, <5>1, <5>2
        <5> QED
          BY <5>3 DEF fs
      <4>2. ASSUME NEW x
            PROVE  x \in RingOf(d, F)[i][pos]
                       <=> x \in Assigned(d) \ F /\ BlockOf(d[x]) % B = i /\ d[x] % W = pos
        BY SlotHolds
      <4>3. ASSUME NEW x
            PROVE  x \in RingOf(e, F)[i][pos]
                       <=> x \in Assigned(e) \ F /\ BlockOf(e[x]) % B = i /\ e[x] % W = pos
        BY SlotHolds
      <4>4. ASSUME NEW x
            PROVE  x \in Insert(blocks, {<<c, o>>})[i][pos] <=> x \in RingOf(e, F)[i][pos]
        <5>1. CASE x = o
          BY <1>2, <1>4, <1>5, <4>1, <4>2, <4>3, <5>1
        <5>2. CASE x # o /\ x \in Assigned(d)
          <6>1. e[x] = d[x]
            BY <1>4, <1>7, <5>2
          <6> QED
            BY <1>5, <4>1, <4>2, <4>3, <5>2, <6>1
        <5>3. CASE x # o /\ x \notin Assigned(d)
          <6>1. x \notin Assigned(e)
            BY <1>5, <5>3
          <6> QED
            BY <4>1, <4>2, <4>3, <5>3, <6>1
        <5> QED
          BY <5>1, <5>2, <5>3
      <4> QED
        BY <4>4
    <3>3. Insert(blocks, {<<c, o>>}) = RingOf(e, F)
      BY <3>2, InsertIs
    <3> QED
      BY <1>6, <2>1, <3>1, <3>3
  <2>2. CASE ~ (BlockOf(c) < curBlock + B)
    <3>1. G = F \cup {o}
      BY <2>2, <1>g
    <3>2. ASSUME NEW i \in 0 .. B - 1, NEW pos \in 0 .. W - 1
          PROVE  {x \in Objs \ F : d[x] # -1 /\ BlockOf(d[x]) % B = i /\ d[x] % W = pos}
                     = {x \in Objs \ (F \cup {o}) :
                           e[x] # -1 /\ BlockOf(e[x]) % B = i /\ e[x] % W = pos}
      BY <1>2, <1>4
    <3>3. RingOf(d, F) = RingOf(e, F \cup {o})
      BY <3>2, Zenon DEF RingOf
    <3> QED
      BY <1>1, <1>6, <2>2, <3>1, <3>3
  <2> QED
    BY <2>1, <2>2
<1>15. Represents(e, G)'
  BY <1>1, <1>4, <1>6, <1>8, <1>9, <1>10, <1>11, <1>12, <1>13, <1>14 DEF Represents
<1> QED
  BY <1>15

-----------------------------------------------------------------------------
\* The elements that are still far when curBlock has come to n.
FarAt(d, F, n) == {o \in F : BlockOf(d[o]) >= Stop(n) + B}

\* Advancing to n brings in what lies before the end of the ring at the last
\* stop: earlier stops bring in less.
LEMMA MovedIs ==
    ASSUME NEW d, NEW F, Represents(d, F), NEW n \in Nat, n >= curBlock, NEW o \in F
    PROVE  <<d[o], o>> \in Moved(n) <=> BlockOf(d[o]) < Stop(n) + B
<1> DEFINE f == <<d[o], o>>
           c == d[o]
           stops == {m \in curBlock + 1 .. n : m % (B \div 2) = 0}
<1>1. o \in Assigned(d) /\ BlockOf(c) >= Stop(curBlock) + B /\ f \in feMap
  BY DEF Represents
<1>2. c \in Nat /\ curBlock \in Nat /\ BlockOf(c) \in Nat
  BY <1>1, CyclesOf
<1>3. f \in Moved(n) <=> \E m \in stops : c < (m + B) * W
  BY <1>1 DEF Moved
<1> HIDE DEF c, f
<1>4. \A m \in stops : m \in Nat /\ curBlock < m /\ m <= n /\ m % Half = 0
  BY <1>2 DEF Half
<1>5. B \in Nat /\ Half \in Nat /\ Stop(n) \in Nat /\ Stop(curBlock) \in Nat
  BY <1>2, HalfOfRing, StopFacts
<1>6. ASSUME NEW m \in stops
      PROVE  c < (m + B) * W <=> BlockOf(c) < m + B
  <2>1. m + B \in Nat
    BY <1>4, <1>5, <1>6
  <2> QED
    BY <1>2, <2>1, BeforeBlock
<1>7. ASSUME NEW m \in stops, BlockOf(c) < m + B
      PROVE  BlockOf(c) < Stop(n) + B
  <2>1. m <= Stop(n)
    BY <1>4, <1>7, StopFacts
  <2>2. m \in Nat
    BY <1>4, <1>7
  <2> QED
    BY <1>2, <1>5, <1>7, <2>1, <2>2
<1>8. ASSUME BlockOf(c) < Stop(n) + B
      PROVE  Stop(n) \in stops
  <2>1. Stop(curBlock) < Stop(n)
    BY <1>1, <1>2, <1>5, <1>8
  <2>2. Stop(n) % Half = 0 /\ Stop(n) <= n
    BY StopFacts
  <2>3. curBlock < Stop(n)
    BY <1>2, <1>5, <2>1, <2>2, StopFacts
  <2>4. Stop(n) \in curBlock + 1 .. n
    BY <1>2, <1>5, <2>2, <2>3
  <2> QED
    BY <2>2, <2>4 DEF Half
<1> HIDE DEF stops
<1>9. f \in Moved(n) <=> BlockOf(c) < Stop(n) + B
  <2>1. (\E m \in stops : c < (m + B) * W) <=> \E m \in stops : BlockOf(c) < m + B
    BY <1>6
  <2>2. (\E m \in stops : BlockOf(c) < m + B) => BlockOf(c) < Stop(n) + B
    BY <1>7
  <2>3. BlockOf(c) < Stop(n) + B => \E m \in stops : BlockOf(c) < m + B
    BY <1>8
  <2> QED
    BY <1>3, <2>1, <2>2, <2>3
<1> QED
  BY <1>9 DEF c, f

\* Hence the ring on arrival at n holds all but the elements still far.
LEMMA RingIs ==
    ASSUME NEW d, NEW F, Represents(d, F), NEW n \in Nat, n >= curBlock
    PROVE  /\ Ring(n) = RingOf(d, FarAt(d, F, n))
           /\ feMap \ Moved(n) = {<<d[o], o>> : o \in FarAt(d, F, n)}
<1> DEFINE M == Moved(n)
           G == FarAt(d, F, n)
<1>1. /\ blocks = RingOf(d, F) /\ feMap = {<<d[o], o>> : o \in F} /\ F \in SUBSET Assigned(d)
  BY DEF Represents
<1>2. M \in SUBSET feMap
  BY DEF Moved
<1>3. \A o \in F : <<d[o], o>> \in M <=> o \notin G
  <2>1. ASSUME NEW o \in F PROVE <<d[o], o>> \in M <=> o \notin G
    <3>1. <<d[o], o>> \in M <=> BlockOf(d[o]) < Stop(n) + B
      BY MovedIs
    <3>2. BlockOf(d[o]) \in Nat /\ Stop(n) \in Nat /\ B \in Nat
      BY <1>1, CyclesOf, StopFacts, HalfOfRing
    <3> QED
      BY <3>1, <3>2 DEF FarAt
  <2> QED
    BY <2>1
<1>4. G \in SUBSET F
  BY DEF FarAt
<1> HIDE DEF M, G
<1>5. feMap \ M = {<<d[o], o>> : o \in G}
  <2>1. ASSUME NEW f \in feMap \ M
        PROVE  f \in {<<d[o], o>> : o \in G}
    <3>1. PICK o \in F : f = <<d[o], o>>
      BY <1>1, <2>1
    <3>2. o \in G
      BY <1>3, <2>1, <3>1
    <3> QED
      BY <3>1, <3>2
  <2>2. ASSUME NEW o \in G
        PROVE  <<d[o], o>> \in feMap \ M
    <3>1. o \in F /\ <<d[o], o>> \in feMap
      BY <1>1, <1>4, <2>2
    <3> QED
      BY <1>3, <2>2, <3>1
  <2> QED
    BY <2>1, <2>2
<1>6. ASSUME NEW i \in 0 .. B - 1, NEW pos \in 0 .. W - 1
      PROVE  Insert(blocks, M)[i][pos] = RingOf(d, G)[i][pos]
  <2>1. ASSUME NEW o
        PROVE  o \in Insert(blocks, M)[i][pos] <=> o \in RingOf(d, G)[i][pos]
    <3> DEFINE Comes == \E g \in M : g[2] = o /\ BlockOf(g[1]) % B = i /\ g[1] % W = pos
               Slot == BlockOf(d[o]) % B = i /\ d[o] % W = pos
    <3>1. o \in Insert(blocks, M)[i][pos] <=> o \in blocks[i][pos] \/ Comes
      BY InsertHolds
    <3>2. o \in blocks[i][pos] <=> o \in Assigned(d) \ F /\ Slot
      BY <1>1, SlotHolds
    <3>3. o \in RingOf(d, G)[i][pos] <=> o \in Assigned(d) \ G /\ Slot
      BY SlotHolds
    <3>4. Comes => o \in F \ G /\ Slot
      <4>1. SUFFICES ASSUME NEW g \in M, g[2] = o, BlockOf(g[1]) % B = i, g[1] % W = pos
                     PROVE  o \in F \ G /\ Slot
        OBVIOUS
      <4>2. PICK q \in F : g = <<d[q], q>>
        BY <1>1, <1>2
      <4>3. q = o /\ g[1] = d[o]
        BY <4>1, <4>2
      <4> QED
        BY <1>3, <4>1, <4>2, <4>3
    <3>5. ASSUME o \in F \ G, Slot PROVE Comes
      <4>1. <<d[o], o>> \in M
        BY <1>3, <3>5
      <4>2. <<d[o], o>>[1] = d[o] /\ <<d[o], o>>[2] = o
        OBVIOUS
      <4> QED
        BY <3>5, <4>1, <4>2
    <3> HIDE DEF Comes, Slot
    <3> QED
      BY <1>1, <1>4, <3>1, <3>2, <3>3, <3>4, <3>5
  <2> DEFINE X == Insert(blocks, M)[i][pos]
             Y == RingOf(d, G)[i][pos]
  <2>2. \A o : o \in X <=> o \in Y
    BY <2>1
  <2> HIDE DEF X, Y
  <2>3. X = Y
    BY <2>2
  <2> QED
    BY <2>3 DEF X, Y
<1>7. Insert(blocks, M) = RingOf(d, G)
  BY <1>6, InsertIs
<1>8. Ring(n) = Insert(blocks, M)
  BY DEF Ring, M
<1>9. Ring(n) = RingOf(d, G) /\ feMap \ M = {<<d[o], o>> : o \in G}
  BY <1>5, <1>7, <1>8
<1> QED
  BY <1>9 DEF M, G

\* An element is no longer far when its block is reached.
LEMMA NotFarAt ==
    ASSUME NEW d, NEW F, Represents(d, F), NEW n \in Nat, NEW o \in Assigned(d),
           BlockOf(d[o]) <= n
    PROVE  o \notin FarAt(d, F, n)
<1>1. BlockOf(d[o]) \in Nat
  BY CyclesOf
<1>2. Stop(n) \in Nat /\ n < Stop(n) + Half /\ B = 2 * Half /\ Half \in Nat
  BY StopFacts, HalfOfRing
<1>3. ~ (BlockOf(d[o]) >= Stop(n) + B)
  BY <1>1, <1>2
<1> QED
  BY <1>3 DEF FarAt

\* What block n of the ring holds on arrival, when nothing lies before it.
LEMMA InBlock ==
    ASSUME NEW d, NEW F, Represents(d, F), NEW n \in Nat, n >= curBlock,
           \A q \in Assigned(d) : BlockOf(d[q]) >= n,
           NEW pos \in 0 .. W - 1, NEW o
    PROVE  o \in Ring(n)[n % B][pos]
               <=> o \in Assigned(d) /\ BlockOf(d[o]) = n /\ d[o] % W = pos
<1> DEFINE G == FarAt(d, F, n)
<1>1. n % B \in 0 .. B - 1
  BY SlotInRing
<1>2. Ring(n) = RingOf(d, G)
  BY RingIs
<1>3. o \in Ring(n)[n % B][pos]
          <=> o \in Assigned(d) \ G /\ BlockOf(d[o]) % B = n % B /\ d[o] % W = pos
  BY <1>1, <1>2, SlotHolds
<1>4. ASSUME o \in Assigned(d) \ G, BlockOf(d[o]) % B = n % B
      PROVE  BlockOf(d[o]) = n
  <2> DEFINE b == BlockOf(d[o])
  <2>1. b \in Nat /\ curBlock \in Nat /\ b >= n /\ B \in Nat
    BY <1>4, CyclesOf, HalfOfRing
  <2>2. b < n + B
    <3>1. CASE o \in F
      <4>1. ~ (b >= Stop(n) + B)
        BY <1>4, <3>1 DEF FarAt
      <4>2. Stop(n) \in Nat /\ Stop(n) <= n
        BY StopFacts
      <4> HIDE DEF b
      <4> QED
        BY <2>1, <4>1, <4>2
    <3>2. CASE o \notin F
      <4>1. b < curBlock + B
        BY <1>4, <3>2 DEF Represents
      <4> HIDE DEF b
      <4> QED
        BY <2>1, <4>1
    <3> QED
      BY <3>1, <3>2
  <2>3. b % B = n % B
    BY <1>4
  <2> HIDE DEF b
  <2>4. b \in n .. n + B - 1 /\ n \in n .. n + B - 1
    BY <2>1, <2>2, HalfOfRing
  <2>5. b = n
    BY <2>3, <2>4, SlotUnique
  <2> QED
    BY <2>5 DEF b
<1>5. ASSUME o \in Assigned(d), BlockOf(d[o]) = n
      PROVE  o \notin G /\ BlockOf(d[o]) % B = n % B
  BY <1>5, NotFarAt
<1> QED
  BY <1>3, <1>4, <1>5

\* The search passes no element: its block would have been populated.
LEMMA SearchPassesNone ==
    ASSUME NEW d, NEW F, Represents(d, F), NEW n \in Nat, n >= curBlock,
           \A m \in curBlock .. n - 1 : Occ(Ring(m), m % B) = {},
           NEW o \in Assigned(d)
    PROVE  BlockOf(d[o]) >= n
<1> DEFINE b == BlockOf(d[o])
           i == b % B
           pos == d[o] % W
<1>1. b \in Nat /\ curBlock \in Nat /\ b >= curBlock
  BY CyclesOf
<1>2. i \in 0 .. B - 1 /\ pos \in 0 .. W - 1
  BY <1>1, SlotInRing, CyclesOf, BlockAndOffset
<1>3. o \notin FarAt(d, F, b)
  BY <1>1, NotFarAt
<1>4. o \in Ring(b)[i][pos]
  BY <1>1, <1>2, <1>3, RingIs, SlotHolds
<1> HIDE DEF b, i, pos
<1>5. Occ(Ring(b), i) # {}
  BY <1>2, <1>4 DEF Occ
<1>6. b < n => b \in curBlock .. n - 1
  BY <1>1
<1>7. ~ (b < n)
  BY <1>5, <1>6 DEF i
<1> QED
  BY <1>1, <1>7 DEF b

\* The block of an element is populated when the search comes to it.
LEMMA SearchMeets ==
    ASSUME NEW d, NEW F, Represents(d, F), NEW o \in Assigned(d)
    PROVE  Occ(Ring(BlockOf(d[o])), BlockOf(d[o]) % B) # {}
<1> DEFINE b == BlockOf(d[o])
           i == b % B
           pos == d[o] % W
<1>1. b \in Nat /\ curBlock \in Nat /\ b >= curBlock
  BY CyclesOf
<1>2. i \in 0 .. B - 1 /\ pos \in 0 .. W - 1
  BY <1>1, SlotInRing, CyclesOf, BlockAndOffset
<1>3. o \notin FarAt(d, F, b)
  BY <1>1, NotFarAt
<1>4. o \in Ring(b)[i][pos]
  BY <1>1, <1>2, <1>3, RingIs, SlotHolds
<1> HIDE DEF b, i, pos
<1>5. Occ(Ring(b), i) # {}
  BY <1>2, <1>4 DEF Occ
<1> QED
  BY <1>5 DEF b, i

\* The search ends, at a populated block that no element precedes.
LEMMA FirstBlockIs ==
    ASSUME NEW d, NEW F, Represents(d, F), elems > 0
    PROVE  /\ FirstBlock \in Nat /\ FirstBlock >= curBlock
           /\ Occ(Ring(FirstBlock), FirstBlock % B) # {}
           /\ \A o \in Assigned(d) : BlockOf(d[o]) >= FirstBlock
<1> DEFINE Populated(n) == Occ(Ring(n), n % B) # {}
           S == {n \in curBlock .. BlockOf(MaxCycle) : Populated(n)}
           First(n) == Populated(n) /\ \A m \in curBlock .. n - 1 : ~ Populated(m)
<1>1. PICK o : o \in Assigned(d)
  <2>1. IsFiniteSet(Assigned(d)) /\ elems = Cardinality(Assigned(d))
    BY DEF Represents
  <2>2. Assigned(d) # {}
    BY <2>1, FS_EmptySet
  <2> QED
    BY <2>2
<1>2. curBlock \in Nat /\ BlockOf(MaxCycle) \in Nat
  BY <1>1, CyclesOf
<1>3. BlockOf(d[o]) \in S
  BY <1>1, <1>2, CyclesOf, SearchMeets
<1>4. S \in SUBSET Nat
  BY <1>2
<1>5. PICK n \in S : \A m \in S : n <= m
  <2>1. S # {}
    BY <1>3
  <2> HIDE DEF S
  <2> QED
    BY <1>4, <2>1, LeastNat
<1>6. n \in curBlock .. BlockOf(MaxCycle) /\ Populated(n)
  BY <1>5
<1>7. First(n)
  <2>1. ASSUME NEW m \in curBlock .. n - 1 PROVE ~ Populated(m)
    <3>1. m \in curBlock .. BlockOf(MaxCycle) /\ m < n
      BY <1>2, <1>6, <2>1
    <3> HIDE DEF Populated
    <3>2. Populated(m) => m \in S
      BY <3>1
    <3>3. m \in S => n <= m
      BY <1>5
    <3> QED
      BY <1>2, <1>6, <2>1, <3>1, <3>2, <3>3
  <2> QED
    BY <1>6, <2>1
<1>8. FirstBlock = CHOOSE x \in curBlock .. BlockOf(MaxCycle) : First(x)
  BY Zenon DEF FirstBlock
<1> HIDE DEF First, S
<1>9. FirstBlock \in curBlock .. BlockOf(MaxCycle) /\ First(FirstBlock)
  BY <1>6, <1>7, <1>8
<1>10. FirstBlock \in Nat /\ FirstBlock >= curBlock
  BY <1>2, <1>9
<1>11. \A q \in Assigned(d) : BlockOf(d[q]) >= FirstBlock
  BY <1>9, <1>10, SearchPassesNone DEF First
<1> QED
  BY <1>9, <1>10, <1>11 DEF First

-----------------------------------------------------------------------------
\* The minimum of a set of naturals.
LEMMA MinIs ==
    ASSUME NEW S \in SUBSET Nat, S # {}
    PROVE  /\ Min(S) \in S
           /\ \A m \in S : Min(S) <= m
           /\ \A n \in S : (\A m \in S : n <= m) => Min(S) = n
<1>1. \E n \in S : \A m \in S : n <= m
  BY LeastNat
<1>2. Min(S) \in S /\ \A m \in S : Min(S) <= m
  BY <1>1 DEF Min
<1>3. ASSUME NEW n \in S, \A m \in S : n <= m
      PROVE  Min(S) = n
  <2>1. Min(S) <= n /\ n <= Min(S) /\ Min(S) \in Nat /\ n \in Nat
    BY <1>2, <1>3
  <2> QED
    BY <2>1
<1> QED
  BY <1>2, <1>3

\* The element taken is one of those due first, at the cycle returned.
LEMMA DequeueFirst ==
    ASSUME NEW d, NEW F, Represents(d, F), NEW o \in Objs, dequeue(o)
    PROVE  /\ o \in Assigned(d)
           /\ last' = d[o] /\ curBlock' = BlockOf(d[o])
           /\ curBlock' = FirstBlock
           /\ blocks' = [Ring(curBlock') EXCEPT ![curBlock' % B][d[o] % W] = @ \ {o}]
           /\ \A q \in Assigned(d) : d[o] <= d[q]
<1> DEFINE n == FirstBlock
           ring == Ring(n)
           S == Occ(ring, n % B)
           pos == Min(S)
<1>1. /\ elems > 0 /\ o \in ring[n % B][pos]
      /\ blocks' = [ring EXCEPT ![n % B][pos] = @ \ {o}]
      /\ curBlock' = n /\ last' = n * W + pos
  BY DEF dequeue
<1>2. /\ n \in Nat /\ n >= curBlock /\ S # {}
      /\ \A q \in Assigned(d) : BlockOf(d[q]) >= n
  BY <1>1, FirstBlockIs
<1>3. S \in SUBSET (0 .. W - 1) /\ S \in SUBSET Nat
  BY DEF Occ
<1>4. pos \in S /\ \A m \in S : pos <= m
  BY <1>2, <1>3, MinIs
<1>5. pos \in 0 .. W - 1
  BY <1>3, <1>4
<1> HIDE DEF pos
<1>6. o \in Assigned(d) /\ BlockOf(d[o]) = n /\ d[o] % W = pos
  BY <1>1, <1>2, <1>5, InBlock
<1>7. d[o] \in Nat /\ d[o] = W * n + pos
  BY <1>6, CyclesOf, BlockAndOffset
<1>8. n * W + pos = d[o]
  <2> HIDE DEF n
  <2>1. n * W = W * n
    BY <1>2, SizesAssumption
  <2> QED
    BY <1>7, <2>1
<1>9. ASSUME NEW q \in Assigned(d)
      PROVE  d[o] <= d[q]
  <2>1. d[q] \in Nat /\ BlockOf(d[q]) \in Nat /\ BlockOf(d[q]) >= n /\ d[q] % W \in 0 .. W - 1
    BY <1>2, <1>9, CyclesOf, BlockAndOffset
  <2>2. CASE BlockOf(d[q]) = n
    <3>1. q \in ring[n % B][d[q] % W]
      BY <1>2, <1>9, <2>1, <2>2, InBlock
    <3>2. d[q] % W \in S
      BY <2>1, <3>1 DEF Occ
    <3>3. pos <= d[q] % W
      BY <1>4, <3>2
    <3> QED
      BY <1>6, <1>7, <2>1, <2>2, <3>3, BlockOrder
  <2>3. CASE BlockOf(d[q]) # n
    <3>1. BlockOf(d[o]) < BlockOf(d[q])
      BY <1>2, <1>6, <2>1, <2>3
    <3>2. d[o] < d[q]
      BY <1>7, <2>1, <3>1, BlockOrder
    <3> QED
      BY <1>7, <2>1, <3>2
  <2> QED
    BY <2>2, <2>3
<1> HIDE DEF n
<1>10. blocks' = [Ring(curBlock') EXCEPT ![curBlock' % B][d[o] % W] = @ \ {o}]
  BY <1>1, <1>6
<1> QED
  BY <1>1, <1>6, <1>8, <1>9, <1>10 DEF n

\* Dequeue takes the cycle of its element away, and nothing else.
LEMMA DequeueRepresents ==
    ASSUME NEW d, NEW F, Represents(d, F), NEW o \in Objs, dequeue(o)
    PROVE  \A e, G : e = [d EXCEPT ![o] = -1] /\ G = FarAt(d, F, FirstBlock) => Represents(e, G)'
<1> TAKE e, G
<1>g. HAVE e = [d EXCEPT ![o] = -1] /\ G = FarAt(d, F, FirstBlock)
<1> DEFINE n == FirstBlock
           c == d[o]
<1>1. /\ d \in [Objs -> Int] /\ F \in SUBSET Assigned(d)
      /\ last \in Nat /\ curBlock = BlockOf(last)
      /\ \A q \in Assigned(d) : d[q] \in last .. MaxCycle
      /\ \A q \in Assigned(d) \ F : BlockOf(d[q]) < curBlock + B
      /\ IsFiniteSet(Assigned(d)) /\ elems = Cardinality(Assigned(d))
  BY DEF Represents
<1>2. /\ o \in Assigned(d)
      /\ last' = c /\ curBlock' = BlockOf(c) /\ curBlock' = n
      /\ blocks' = [Ring(n) EXCEPT ![n % B][c % W] = @ \ {o}]
      /\ \A q \in Assigned(d) : c <= d[q]
  BY DequeueFirst
<1>3. elems > 0 /\ feMap' = feMap \ Moved(n) /\ elems' = elems - 1
  BY DEF dequeue
<1>4. /\ n \in Nat /\ n >= curBlock
      /\ \A q \in Assigned(d) : BlockOf(d[q]) >= n
  BY <1>3, FirstBlockIs
<1>5. c \in Nat /\ c % W \in 0 .. W - 1 /\ n % B \in 0 .. B - 1 /\ curBlock \in Nat
  BY <1>2, <1>4, CyclesOf, SlotInRing, BlockAndOffset
<1>6. Ring(n) = RingOf(d, G) /\ feMap \ Moved(n) = {<<d[q], q>> : q \in G}
  BY <1>4, <1>g, RingIs
<1>7. o \notin G /\ G \in SUBSET F
  <2>1. o \notin FarAt(d, F, n)
    <3>1. BlockOf(d[o]) <= n
      BY <1>2, <1>4
    <3> QED
      BY <1>2, <1>4, <3>1, NotFarAt
  <2> QED
    BY <1>g, <2>1 DEF FarAt
<1>8. /\ e \in [Objs -> Int] /\ e[o] = -1
      /\ \A q \in Objs : q # o => e[q] = d[q]
  BY <1>1, <1>g
<1>9. Assigned(e) = Assigned(d) \ {o}
  BY <1>8 DEF Assigned
<1>10. \A q \in G : BlockOf(d[q]) >= Stop(n) + B
  BY <1>g DEF FarAt
<1>11. \A q \in Assigned(d) : d[q] \in Nat /\ BlockOf(d[q]) \in Nat /\ q \in Objs
  BY CyclesOf
<1>12. \A q \in Assigned(d) \ G : BlockOf(d[q]) < n + B
  <2>1. ASSUME NEW q \in Assigned(d) \ G PROVE BlockOf(d[q]) < n + B
    <3> DEFINE b == BlockOf(d[q])
    <3>1. b \in Nat
      BY <1>11, <2>1
    <3>2. ASSUME q \in F PROVE b < n + B
      <4>1. ~ (b >= Stop(n) + B)
        BY <1>g, <2>1, <3>2 DEF FarAt
      <4>2. Stop(n) \in Nat /\ Stop(n) <= n /\ B \in Nat
        BY <1>4, StopFacts, HalfOfRing
      <4> HIDE DEF b, n
      <4> QED
        BY <1>4, <3>1, <4>1, <4>2
    <3>3. ASSUME q \notin F PROVE b < n + B
      <4>1. b < curBlock + B /\ B \in Nat
        BY <1>1, <2>1, <3>3, HalfOfRing
      <4> HIDE DEF b, n
      <4> QED
        BY <1>4, <1>5, <3>1, <4>1
    <3> QED
      BY <3>2, <3>3
  <2> QED
    BY <2>1
<1> HIDE DEF n, c
<1>13. \A q \in Assigned(e) : e[q] \in last' .. MaxCycle
  <2>1. ASSUME NEW q \in Assigned(e) PROVE e[q] \in last' .. MaxCycle
    <3>1. q \in Assigned(d) /\ e[q] = d[q]
      BY <1>8, <1>9, <1>11, <2>1
    <3>2. d[q] \in Nat /\ c <= d[q] /\ d[q] \in last .. MaxCycle
      BY <1>1, <1>2, <1>11, <3>1
    <3> QED
      BY <1>1, <1>2, <1>5, <3>1, <3>2, BoundAssumption
  <2> QED
    BY <2>1
<1>14. \A q \in Assigned(e) \ G : BlockOf(e[q]) < n + B
  BY <1>8, <1>9, <1>11, <1>12
<1>15. \A q \in G : e[q] = d[q] /\ BlockOf(e[q]) >= Stop(n) + B
  BY <1>1, <1>7, <1>8, <1>10, <1>11
<1>16. G \in SUBSET Assigned(e)
  BY <1>1, <1>7, <1>9
<1>17. feMap' = {<<e[q], q>> : q \in G}
  BY <1>3, <1>6, <1>15
<1>18. IsFiniteSet(Assigned(e)) /\ elems' = Cardinality(Assigned(e))
  BY <1>1, <1>2, <1>3, <1>9, FS_RemoveElement
<1>19. blocks' = RingOf(e, G)
  <2> DEFINE K == n % B
             p == c % W
  <2>1. K \in 0 .. B - 1 /\ p \in 0 .. W - 1 /\ blocks' = [RingOf(d, G) EXCEPT ![K][p] = @ \ {o}]
    BY <1>2, <1>5, <1>6
  <2>2. BlockOf(d[o]) % B = K /\ d[o] % W = p
    BY <1>2 DEF c
  <2> HIDE DEF K, p
  <2>3. ASSUME NEW i \in 0 .. B - 1, NEW pos \in 0 .. W - 1
        PROVE  RingOf(e, G)[i][pos] = IF i = K /\ pos = p THEN RingOf(d, G)[i][pos] \ {o}
                                      ELSE RingOf(d, G)[i][pos]
    <3> DEFINE X == RingOf(e, G)[i][pos]
               Y == RingOf(d, G)[i][pos]
    <3>1. ASSUME NEW q PROVE q \in X <=> q \in Y /\ q # o
      <4>1. q \in X <=> q \in Assigned(e) \ G /\ BlockOf(e[q]) % B = i /\ e[q] % W = pos
        BY SlotHolds
      <4>2. q \in Y <=> q \in Assigned(d) \ G /\ BlockOf(d[q]) % B = i /\ d[q] % W = pos
        BY SlotHolds
      <4>3. q \in Assigned(d) /\ q # o => e[q] = d[q]
        BY <1>8, <1>11
      <4> HIDE DEF X, Y
      <4> QED
        BY <1>9, <4>1, <4>2, <4>3
    <3>2. o \in Y => i = K /\ pos = p
      BY <2>2, SlotHolds
    <3> HIDE DEF X, Y
    <3>3. X = IF i = K /\ pos = p THEN Y \ {o} ELSE Y
      BY <3>1, <3>2
    <3> QED
      BY <3>3 DEF X, Y
  <2>4. RingOf(e, G) = [i \in 0 .. B - 1 |-> [pos \in 0 .. W - 1 |-> RingOf(e, G)[i][pos]]]
    BY DEF RingOf
  <2>5. RingOf(d, G) = [i \in 0 .. B - 1 |-> [pos \in 0 .. W - 1 |-> RingOf(d, G)[i][pos]]]
    BY DEF RingOf
  <2> DEFINE R == RingOf(d, G)
             Q2 == RingOf(e, G)
  <2> HIDE DEF R, Q2
  <2>6. blocks' = [i \in 0 .. B - 1 |-> [pos \in 0 .. W - 1 |->
                      IF i = K /\ pos = p THEN R[i][pos] \ {o} ELSE R[i][pos]]]
    BY <2>1, <2>5 DEF R
  <2>7. Q2 = [i \in 0 .. B - 1 |-> [pos \in 0 .. W - 1 |->
                  IF i = K /\ pos = p THEN R[i][pos] \ {o} ELSE R[i][pos]]]
    BY <2>3, <2>4 DEF R, Q2
  <2> QED
    BY <2>6, <2>7 DEF Q2
<1>20. last' \in Nat /\ curBlock' = BlockOf(last') /\ curBlock' = n
  BY <1>2, <1>5
<1>21. Represents(e, G)'
  BY <1>8, <1>13, <1>14, <1>15, <1>16, <1>17, <1>18, <1>19, <1>20 DEF Represents
<1> QED
  BY <1>21

-----------------------------------------------------------------------------
\* The refinement mapping before a step, and after it.
LEMMA DueBefore == \A d, F : Represents(d, F) => due = d
BY DueExact

\* The same in the next state.
LEMMA DueAfter == (\A d, F : Represents(d, F) => due = d)'
BY DueBefore, PTL

\* A step without effect represents the same.
LEMMA StutterRepresents ==
    ASSUME NEW d, NEW F, Represents(d, F), UNCHANGED vars
    PROVE  Represents(d, F)'
BY DEF Represents, vars

\* Every step keeps the queue representing some assignment, and is a step of
\* the ideal queue.
LEMMA StepImplements ==
    ASSUME PrioQueueInv, [Next]_vars
    PROVE  PrioQueueInv' /\ [Q!Next]_<<due, last>>
<1>1. PICK d, F : Represents(d, F)
  BY DEF PrioQueueInv
<1>2. due = d /\ d \in [Objs -> Int] /\ last \in Nat
  BY <1>1, DueBefore DEF Represents
<1>3. ASSUME NEW o \in Objs, dequeue(o)
      PROVE  PrioQueueInv' /\ Q!Dequeue(o)
  <2>1. PICK e, G : e = [d EXCEPT ![o] = -1] /\ G = FarAt(d, F, FirstBlock)
    OBVIOUS
  <2>2. Represents(e, G)'
    BY <1>1, <1>3, <2>1, DequeueRepresents
  <2>3. due' = e
    BY <2>2, DueAfter
  <2>4. /\ o \in Assigned(d) /\ last' = d[o]
        /\ \A q \in Assigned(d) : d[o] <= d[q]
    BY <1>1, <1>3, DequeueFirst
  <2>5. \A q \in Objs : d[q] = -1 \/ d[q] >= d[o]
    BY <1>2, <2>4 DEF Assigned
  <2>6. Q!Dequeue(o)
    BY <1>2, <2>1, <2>3, <2>4, <2>5 DEF Q!Dequeue, Q!NotQueued, Assigned
  <2> QED
    BY <2>2, <2>6 DEF PrioQueueInv
<1>4. ASSUME NEW o \in Objs, NEW c \in last .. MaxCycle, enqueue(o, c)
      PROVE  PrioQueueInv' /\ Q!Enqueue(o)
  <2>1. PICK e, G : /\ e = [d EXCEPT ![o] = c]
                    /\ G = (IF BlockOf(c) < curBlock + B THEN F ELSE F \cup {o})
    OBVIOUS
  <2>2. d[o] = -1 /\ Represents(e, G)'
    BY <1>1, <1>4, <2>1, EnqueueRepresents
  <2>3. due' = e
    BY <2>2, DueAfter
  <2>4. c \in Nat /\ c >= last /\ last' = last
    BY <1>2, <1>4, BoundAssumption DEF enqueue
  <2>5. due'[o] = c
    BY <1>2, <2>1, <2>3
  <2>6. Q!Enqueue(o)
    BY <1>2, <2>1, <2>2, <2>3, <2>4, <2>5 DEF Q!Enqueue, Q!NotQueued
  <2> QED
    BY <2>2, <2>6 DEF PrioQueueInv
<1>5. ASSUME UNCHANGED vars
      PROVE  PrioQueueInv' /\ UNCHANGED <<due, last>>
  <2>1. Represents(d, F)'
    BY <1>1, <1>5, StutterRepresents
  <2>2. due' = d
    BY <2>1, DueAfter
  <2> QED
    BY <1>2, <1>5, <2>1, <2>2 DEF PrioQueueInv, vars
<1> QED
  BY <1>3, <1>4, <1>5 DEF Next, Q!Next

\* The empty queue is the empty ideal queue.
LEMMA InitImplements ==
    ASSUME Init
    PROVE  PrioQueueInv /\ Q!Init
<1>1. PICK d : d = [o \in Objs |-> -1]
  OBVIOUS
<1>2. Represents(d, {})
  BY <1>1, InitRepresents
<1>3. due = d
  BY <1>2, DueBefore
<1> QED
  BY <1>1, <1>2, <1>3 DEF PrioQueueInv, Init, Q!Init, Q!NotQueued

\* The calendar queue of prio_queue.h always represents an assignment of cycles.
THEOREM RepresentsAlways == Spec => []PrioQueueInv
<1>1. Init => PrioQueueInv
  BY InitImplements
<1>2. PrioQueueInv /\ [Next]_vars => PrioQueueInv'
  BY StepImplements
<1> QED
  BY <1>1, <1>2, PTL DEF Spec

\* enqueue and dequeue of prio_queue.h implement the ideal queue: an element is
\* dequeued once, at the cycle it was enqueued for, and none is due before it.
THEOREM Implements == Spec => ImplementsQueue
<1>1. Init => Q!Init
  BY InitImplements
<1>2. PrioQueueInv /\ [Next]_vars => [Q!Next]_<<due, last>>
  BY StepImplements
<1> QED
  BY <1>1, <1>2, RepresentsAlways, PTL DEF Spec, ImplementsQueue, Q!Spec

-----------------------------------------------------------------------------
\* What a slot ahead of curBlock holds.
LEMMA SlotAhead ==
    ASSUME NEW d, NEW F, Represents(d, F), curBlock \in Nat, NEW i \in 0 .. B - 1,
           NEW pos \in 0 .. W - 1, NEW o
    PROVE  o \in blocks[(curBlock + i) % B][pos]
               <=> o \in Assigned(d) \ F /\ BlockOf(d[o]) = curBlock + i /\ d[o] % W = pos
<1> DEFINE n == curBlock + i
<1>1. n \in Nat /\ n \in curBlock .. curBlock + B - 1
  BY HalfOfRing
<1>2. n % B \in 0 .. B - 1
  BY <1>1, SlotInRing
<1>3. o \in blocks[n % B][pos]
          <=> o \in Assigned(d) \ F /\ BlockOf(d[o]) % B = n % B /\ d[o] % W = pos
  <2>1. blocks = RingOf(d, F)
    BY DEF Represents
  <2> HIDE DEF n
  <2> QED
    BY <1>2, <2>1, SlotHolds
<1>4. ASSUME o \in Assigned(d) \ F, BlockOf(d[o]) % B = n % B
      PROVE  BlockOf(d[o]) = n
  <2> DEFINE b == BlockOf(d[o])
  <2>1. b \in Nat /\ b >= curBlock /\ b < curBlock + B
    BY <1>4, CyclesOf DEF Represents
  <2>2. b % B = n % B
    BY <1>4
  <2> HIDE DEF b, n
  <2>3. b \in curBlock .. curBlock + B - 1
    BY <2>1, HalfOfRing
  <2>4. b = n
    BY <1>1, <2>2, <2>3, SlotUnique
  <2> QED
    BY <2>4 DEF b
<1> HIDE DEF n
<1>5. o \in blocks[n % B][pos]
          <=> o \in Assigned(d) \ F /\ BlockOf(d[o]) = n /\ d[o] % W = pos
  BY <1>3, <1>4
<1> QED
  BY <1>5 DEF n

\* The queue's own account of itself follows from what it represents.
LEMMA RepresentsMeans ==
    ASSUME NEW d, NEW F, Represents(d, F)
    PROVE  QueueExact
<1>1. /\ feMap = {<<d[o], o>> : o \in F} /\ F \in SUBSET Assigned(d)
      /\ IsFiniteSet(Assigned(d)) /\ elems = Cardinality(Assigned(d))
      /\ \A o \in Assigned(d) \ F : BlockOf(d[o]) < curBlock + B
      /\ \A o \in F : BlockOf(d[o]) >= Stop(curBlock) + B
      /\ last \in Nat /\ curBlock = BlockOf(last)
  BY DEF Represents
<1>2. curBlock \in Nat
  BY <1>1, BlockAndOffset
<1>3. Queued = Assigned(d) /\ due = d
  BY QueuedExact, DueExact
<1>4. \A o \in Assigned(d) : /\ d[o] \in Nat /\ BlockOf(d[o]) \in Nat
                             /\ BlockOf(d[o]) >= curBlock
  BY CyclesOf
<1>5. \A o \in F : BlockOf(d[o]) > curBlock + Half /\ BlockOf(d[o]) >= curBlock + B \div 2
  <2>1. /\ Stop(curBlock) \in Nat /\ curBlock < Stop(curBlock) + Half
        /\ B = 2 * Half /\ Half \in Nat /\ B \div 2 = Half
    BY <1>2, StopFacts, HalfOfRing DEF Half
  <2>2. ASSUME NEW o \in F PROVE BlockOf(d[o]) > curBlock + Half
    <3>1. BlockOf(d[o]) \in Nat /\ BlockOf(d[o]) >= Stop(curBlock) + B
      BY <1>1, <1>4, <2>2
    <3> QED
      BY <1>2, <2>1, <3>1
  <2>3. ASSUME NEW o \in F PROVE BlockOf(d[o]) >= curBlock + B \div 2
    <3>1. BlockOf(d[o]) \in Nat
      BY <1>1, <1>4, <2>3
    <3> QED
      BY <1>2, <2>1, <2>2, <2>3, <3>1
  <2> QED
    BY <2>2, <2>3
<1>6. FarIsFar
  <2>1. \A f \in feMap : BlockOf(f[1]) >= curBlock + B \div 2
    BY <1>1, <1>5
  <2> QED
    BY <1>1, <1>3, <2>1 DEF FarIsFar
<1>7. ASSUME elems > 0
      PROVE  firstCycle = Min({due[o] : o \in Queued})
  <2> DEFINE T == {due[o] : o \in Queued}
             ahead == {i \in 0 .. B - 1 : Occ(blocks, (curBlock + i) % B) # {}}
             near == Min(ahead)
             S == Occ(blocks, (curBlock + near) % B)
             pos == Min(S)
             cycle == (curBlock + near) * W + pos
             far == {f[1] : f \in feMap}
  <2>1. T = {d[o] : o \in Assigned(d)}
    BY <1>3
  <2>2. T \in SUBSET Nat /\ T # {}
    <3>1. Assigned(d) # {}
      BY <1>1, <1>7, FS_EmptySet
    <3> QED
      BY <1>4, <2>1, <3>1
  <2>3. far = {d[o] : o \in F} /\ far \in SUBSET T /\ far \in SUBSET Nat
    <3>1. far = {d[o] : o \in F}
      <4>1. ASSUME NEW f \in feMap PROVE f[1] \in {d[o] : o \in F}
        BY <1>1
      <4>2. ASSUME NEW o \in F PROVE \E f \in feMap : f[1] = d[o]
        <5>1. <<d[o], o>> \in feMap /\ <<d[o], o>>[1] = d[o]
          BY <1>1
        <5> QED
          BY <5>1
      <4> QED
        BY <4>1, <4>2
    <3>2. far \in SUBSET T
      BY <1>1, <2>1, <3>1
    <3> HIDE DEF T, far
    <3> QED
      BY <2>2, <3>1, <3>2
  <2>4. firstCycle = IF ahead = {} THEN Min(far)
                     ELSE IF near < B \div 2 THEN cycle
                     ELSE Min({cycle} \cup far)
    BY DEF firstCycle
  <2>5. ahead \in SUBSET (0 .. B - 1) /\ ahead \in SUBSET Nat
    OBVIOUS
  \* An element that is not far is ahead.
  <2>6. ASSUME NEW o \in Assigned(d) \ F
        PROVE  /\ BlockOf(d[o]) - curBlock \in ahead
               /\ d[o] % W \in Occ(blocks, (curBlock + (BlockOf(d[o]) - curBlock)) % B)
    <3> DEFINE i == BlockOf(d[o]) - curBlock
               p == d[o] % W
    <3>1. i \in 0 .. B - 1 /\ p \in 0 .. W - 1 /\ BlockOf(d[o]) = curBlock + i
      <4>1. BlockOf(d[o]) \in Nat /\ d[o] \in Nat /\ BlockOf(d[o]) >= curBlock
        BY <1>4, <2>6
      <4>2. BlockOf(d[o]) < curBlock + B
        BY <1>1, <2>6
      <4>3. d[o] % W \in 0 .. W - 1
        BY <4>1, BlockAndOffset
      <4> QED
        BY <1>2, <4>1, <4>2, <4>3, HalfOfRing
    <3> HIDE DEF i
    <3>2. o \in blocks[(curBlock + i) % B][p]
      BY <1>2, <2>6, <3>1, SlotAhead
    <3> HIDE DEF p
    <3>3. p \in Occ(blocks, (curBlock + i) % B)
      BY <3>1, <3>2 DEF Occ
    <3>4. i \in ahead
      BY <3>1, <3>3
    <3> QED
      BY <3>3, <3>4 DEF i, p
  <2>7. CASE ahead = {}
    <3>1. Assigned(d) = F
      BY <1>1, <2>6, <2>7
    <3>2. far = T
      BY <2>1, <2>3, <3>1
    <3> QED
      BY <2>4, <2>7, <3>2
  <2>8. CASE ahead # {}
    <3>1. near \in ahead /\ \A i \in ahead : near <= i
      <4> HIDE DEF ahead
      <4> QED
        BY <2>5, <2>8, MinIs
    <3>2. near \in 0 .. B - 1 /\ near \in Nat /\ S # {}
      BY <2>5, <3>1
    <3>3. S \in SUBSET (0 .. W - 1) /\ S \in SUBSET Nat
      BY DEF Occ
    <3>4. pos \in S /\ \A m \in S : pos <= m
      <4> HIDE DEF S
      <4> QED
        BY <3>2, <3>3, MinIs
    <3>5. pos \in 0 .. W - 1
      BY <3>3, <3>4
    <3> HIDE DEF near
    <3>6. PICK o : o \in blocks[(curBlock + near) % B][pos]
      BY <3>4 DEF Occ
    <3> HIDE DEF S, pos
    <3>7. o \in Assigned(d) \ F /\ BlockOf(d[o]) = curBlock + near /\ d[o] % W = pos
      BY <1>2, <3>2, <3>5, <3>6, SlotAhead
    <3>8. cycle = d[o] /\ cycle \in Nat /\ cycle \in T
      <4>1. d[o] \in Nat /\ d[o] = W * (curBlock + near) + pos
        BY <1>4, <3>7, BlockAndOffset
      <4>2. (curBlock + near) * W = W * (curBlock + near)
        BY <1>2, <3>2, SizesAssumption
      <4>3. cycle = d[o]
        BY <4>1, <4>2
      <4> HIDE DEF cycle
      <4> QED
        BY <2>1, <3>7, <4>1, <4>3
    <3>9. ASSUME NEW q \in Assigned(d) \ F
          PROVE  cycle <= d[q]
      <4>1. /\ BlockOf(d[q]) - curBlock \in ahead
            /\ d[q] % W \in Occ(blocks, (curBlock + (BlockOf(d[q]) - curBlock)) % B)
        BY <2>6, <3>9
      <4>2. d[q] \in Nat /\ BlockOf(d[q]) \in Nat /\ d[o] \in Nat /\ BlockOf(d[o]) \in Nat
        BY <1>4, <3>7, <3>9
      <4>3. near <= BlockOf(d[q]) - curBlock
        BY <3>1, <4>1
      <4>4. CASE BlockOf(d[q]) = curBlock + near
        <5>1. BlockOf(d[q]) - curBlock = near
          BY <1>2, <3>2, <4>4
        <5>2. d[q] % W \in S
          BY <4>1, <5>1 DEF S
        <5>3. pos <= d[q] % W
          BY <3>4, <5>2
        <5> HIDE DEF cycle
        <5> QED
          BY <3>7, <3>8, <4>2, <4>4, <5>3, BlockOrder
      <4>5. CASE BlockOf(d[q]) # curBlock + near
        <5>1. BlockOf(d[o]) < BlockOf(d[q])
          BY <1>2, <3>2, <3>7, <4>2, <4>3, <4>5
        <5>2. d[o] < d[q]
          BY <4>2, <5>1, BlockOrder
        <5> HIDE DEF cycle
        <5> QED
          BY <3>8, <4>2, <5>2
      <4> QED
        BY <4>4, <4>5
    <3> HIDE DEF cycle, T, far, ahead
    <3>10. CASE near < B \div 2
      <4>1. ASSUME NEW q \in F PROVE cycle <= d[q]
        <5>1. BlockOf(d[q]) > curBlock + Half /\ BlockOf(d[q]) \in Nat /\ d[q] \in Nat
          BY <1>1, <1>4, <1>5, <4>1
        <5>2. near < Half /\ Half \in Nat
          BY <3>10, HalfOfRing DEF Half
        <5>3. BlockOf(d[o]) < BlockOf(d[q]) /\ d[o] \in Nat
          BY <1>2, <1>4, <3>2, <3>7, <5>1, <5>2
        <5>4. d[o] < d[q]
          BY <5>1, <5>3, BlockOrder
        <5> QED
          BY <3>8, <5>1, <5>3, <5>4
      <4>2. \A t \in T : cycle <= t
        BY <2>1, <3>9, <4>1
      <4>3. Min(T) = cycle
        BY <2>2, <3>8, <4>2, MinIs
      <4> QED
        BY <2>4, <2>8, <3>10, <4>3 DEF T
    <3>11. CASE ~ (near < B \div 2)
      <4> DEFINE C == {cycle} \cup far
      <4>1. C \in SUBSET Nat /\ C # {} /\ C \in SUBSET T
        BY <2>3, <3>8
      <4>2. cycle \in C /\ \A q \in F : d[q] \in C
        BY <2>3
      <4> HIDE DEF C
      <4>3. Min(C) \in C /\ \A c \in C : Min(C) <= c
        BY <4>1, MinIs
      <4>4. Min(C) \in Nat /\ Min(C) \in T
        BY <4>1, <4>3
      <4>5. ASSUME NEW q \in Assigned(d) PROVE Min(C) <= d[q]
        <5>1. CASE q \in F
          BY <4>2, <4>3, <5>1
        <5>2. CASE q \notin F
          <6>1. Min(C) <= cycle /\ cycle <= d[q] /\ d[q] \in Nat
            BY <1>4, <3>9, <4>2, <4>3, <4>5, <5>2
          <6> QED
            BY <3>8, <4>4, <6>1
        <5> QED
          BY <5>1, <5>2
      <4>6. \A t \in T : Min(C) <= t
        BY <2>1, <4>5
      <4>7. Min(T) = Min(C)
        BY <2>2, <4>4, <4>6, MinIs
      <4> QED
        BY <2>4, <2>8, <3>11, <4>7 DEF T, C
    <3> QED
      BY <3>10, <3>11
  <2> QED
    BY <2>7, <2>8
<1> QED
  BY <1>6, <1>7 DEF QueueExact, FirstCycleExact

\* firstCycle and size of prio_queue.h are exact, and what its comment says of the
\* far elements is true.
THEOREM SelfExact == Spec => []QueueExact
<1>1. PrioQueueInv => QueueExact
  BY RepresentsMeans DEF PrioQueueInv
<1> QED
  BY <1>1, RepresentsAlways, PTL
=============================================================================
