----------------------------- MODULE MESIProofs -----------------------------
(***************************************************************************)
(* The inductive invariant of the MESI cache hierarchy (MESILemmas), one   *)
(* lemma for each action of the model, and the theorems it gives.          *)
(***************************************************************************)
EXTENDS MESILemmas
-----------------------------------------------------------------------------
(* What each step of an access keeps.                                      *)

\* The view is typed as the variables are.
LEMMA TypedView ==
    TypeOK /\ (\A c \in Caches : IsFiniteSet(tags[c])) => Typed(View)
<1> SUFFICES ASSUME TypeOK, \A c \in Caches : IsFiniteSet(tags[c]) PROVE Typed(View)
  OBVIOUS
<1>1. \A t \in Threads : stack[t] \in Seq(Frame) /\ Len(stack[t]) \in Nat
  BY DEF TypeOK
<1>2. View.depth \in [Threads -> Nat]
  BY <1>1 DEF View
<1>3. \A t \in Threads : \A d \in 1 .. View.depth[t] : View.calls[t][d] \in Frame
  <2> TAKE t \in Threads
  <2> TAKE d \in 1 .. View.depth[t]
  <2>1. /\ View.depth[t] = Len(stack[t]) /\ d \in 1 .. Len(stack[t])
        /\ View.calls[t][d] = stack[t][Len(stack[t]) + 1 - d]
    BY ViewFields
  <2>2. Len(stack[t]) + 1 - d \in 1 .. Len(stack[t])
    BY <1>1, <2>1
  <2> QED
    BY <1>1, <2>1, <2>2
<1> QED
  BY <1>2, <1>3, ViewFields DEF Typed, TypeOK

\* The same after a step.
LEMMA TypedViewNext ==
    (TypeOK /\ (\A c \in Caches : IsFiniteSet(tags[c])) => Typed(View))'
BY TypedView, PTL

\* What is known of the call that takes a step.
LEMMA Acting ==
    ASSUME MESIInv, NEW t \in Threads, stack[t] # << >>
    PROVE  LET n == View.depth[t]
               f == Top(t)
               up == View.calls[t][n - 1]
           IN
           /\ n \in Nat /\ n >= 1 /\ n \in 1 .. View.depth[t]
           /\ View.calls[t][n] = f /\ f \in Frame
           /\ Sound(View) /\ Shaped(View, t, n) /\ Own(View, f, TRUE)
           /\ n > 1 => /\ Caller(t) = up /\ Linked(View, up, f) /\ up \in Frame
                       /\ n - 1 \in 1 .. View.depth[t] /\ n \in 2 .. View.depth[t]
           /\ n > 1 /\ Access(f) => Asked(View, f, up.c)
           /\ StackType
           /\ \A c \in Caches : IsFiniteSet(tags[c])
<1> DEFINE n == View.depth[t]
           f == Top(t)
           up == View.calls[t][n - 1]
<1>1. Sound(View) /\ StackType
  BY DEF MESIInv, TypeOK, StackType
<1>2. /\ n \in Nat /\ n >= 1 /\ f = View.calls[t][n] /\ f \in Frame
      /\ n >= 2 => Caller(t) = up
  BY <1>1, Innermost
<1>3. CallSound(View, t, n) /\ Shaped(View, t, n) /\ Own(View, f, TRUE)
  BY <1>1, <1>2, Inmost
<1>4. /\ n > 1 => Linked(View, up, f)
      /\ n > 1 /\ Access(f) => Asked(View, f, up.c)
  BY <1>2, <1>3 DEF CallSound
<1>5. n > 1 => /\ n - 1 \in 1 .. View.depth[t] /\ n \in 2 .. View.depth[t]
               /\ up \in Frame
  <2> SUFFICES ASSUME n > 1
               PROVE  /\ n - 1 \in 1 .. View.depth[t] /\ n \in 2 .. View.depth[t]
                      /\ up \in Frame
    OBVIOUS
  <2>1. n - 1 \in 1 .. View.depth[t] /\ n \in 2 .. View.depth[t]
    BY <1>2
  <2> QED
    BY <1>1, <2>1 DEF Sound, Typed
<1>6. \A c \in Caches : IsFiniteSet(tags[c])
  BY <1>1, ViewFields DEF Sound, Typed
<1>7. n \in 1 .. View.depth[t] /\ (n > 1 => n >= 2)
  BY <1>2
<1> HIDE DEF f, up
<1> QED
  BY <1>1, <1>2, <1>3, <1>4, <1>5, <1>6, <1>7 DEF f, up
\* A step of an access from one point to a later one that takes no lock and
\* gives none up: it changes the line ids and the states of its own cache only.
LEMMA AccessStep ==
    ASSUME MESIInv, NEW t \in Threads, stack[t] # << >>, NEW f, f = Top(t),
           NEW e \in Frame, Become(t, e),
           e.c = f.c, e.line = f.line, e.type = f.type, e.init = f.init,
           f.pc \in {"lookup", "evict", "evput", "acc", "accret"},
           e.pc \in {"evict", "acc", "top", "end"},
           UNCHANGED <<dir, bccLock, tccLock, filterLock, filter>>,
           state' \in [Caches -> [Lines -> MESI]],
           tags' \in [Caches -> SUBSET Lines],
           fresh' \in [Lines -> SUBSET (Caches \cup {Mem})],
           \A k \in Caches : IsFiniteSet(tags'[k]) /\ Cardinality(tags'[k]) <= Ways[k],
           \A k \in Caches : k # f.c => tags'[k] = tags[k] /\ state'[k] = state[k],
           \A k \in Caches, l \in Lines :
              l \in tags[k] => l \in tags'[k] \/ state'[k][l] = "I",
           \A l \in Lines :
              \/ state'[f.c][l] = state[f.c][l]
              \/ state[f.c][l] \in {"E", "M"} /\ state'[f.c][l] \in {"E", "M"}
              \/ /\ Parent[f.c][l] = Mem
                 /\ state'[f.c][l] = "I" =>
                        \A j \in Caches : Parent[j][l] = f.c => state[j][l] = "I"
                 /\ state[f.c][l] \in {"E", "M"} => state'[f.c][l] = "I"
                 /\ state'[f.c][l] # "I" => l \in tags'[f.c],
           e.pc = "evict" => e.victim \in tags'[f.c] /\ f.type \in Gets,
           e.pc = "top" => f.c \in Inner,
           e.pc = "end" => f.c \in Leaves,
           Own(View', e, TRUE)
    PROVE  MESIInv'
<1> DEFINE n == View.depth[t]
           up == View.calls[t][n - 1]
<1>2. /\ n \in Nat /\ n >= 1
      /\ View.calls[t][n] = f /\ f \in Frame
      /\ Sound(View) /\ Shaped(View, t, n)
      /\ n > 1 => Linked(View, up, f) /\ n \in 2 .. View.depth[t]
      /\ n > 1 /\ Access(f) => Asked(View, f, up.c)
      /\ StackType
  BY Acting
<1>9. View.depth[t] = n
  OBVIOUS
<1> HIDE DEF n
<1>5. /\ StackType' /\ Below(View, View', t, n - 1)
      /\ View'.depth[t] = n /\ View'.calls[t][n] = e
  BY <1>2, AfterBecome DEF n
<1>6. TypeOK'
  BY <1>5 DEF MESIInv, TypeOK, StackType
<1>7. Typed(View')
  BY <1>6, TypedViewNext
<1>8. /\ View'.dir = View.dir
      /\ View'.bcc = View.bcc /\ View'.tcc = View.tcc /\ View'.flt = View.flt
      /\ View'.filter = View.filter
      /\ View.tags = tags /\ View'.tags = tags'
      /\ View.state = state /\ View'.state = state'
  BY ViewFields, ViewFieldsNext
<1>10. f.type \in Gets \cup Puts /\ Access(f) /\ Access(e) /\ f.c \in Caches
       /\ f.line \in Lines
  BY <1>2, FrameFields DEF Shaped, Access, Gets, Puts, Invs
<1>11. HasBcc(View, t, n) /\ InAccess(View, t, n)
  BY <1>2, <1>10, <1>9 DEF HasBcc, InAccess
<1>12. Locking(View, View', t, n)
  <2>1. /\ ~ (e.pc = "inv" /\ e.c \in Leaves)
        /\ HasBcc(View', t, n) => HasBcc(View, t, n)
        /\ InAccess(View', t, n) => InAccess(View, t, n)
    BY <1>11
  <2>2. t \in Threads /\ e.c = f.c
    OBVIOUS
  <2> HIDE DEF up
  <2> QED
    BY <1>2, <1>5, <1>8, <1>9, <2>1, <2>2, SameLocks
<1>13. Shaped(View', t, n)
  <2>1. f.type \in Puts => f.pc \in {"lookup", "acc"} /\ e.pc \in {"acc", "top", "end"}
    BY <1>2, FrameFields DEF Shaped, Gets, Puts
  <2>2. f.type \notin Invs
    BY <1>10 DEF Gets, Puts, Invs
  <2> QED
    BY <1>2, <1>5, <1>8, <1>10, <2>1, <2>2 DEF Shaped, Access
<1>14. n > 1 => Linked(View', up, e)
  BY <1>2, <1>8 DEF Linked
<1>15. n > 1 => Asked(View', e, up.c)
  <2> SUFFICES ASSUME n > 1 PROVE Asked(View', e, up.c)
    OBVIOUS
  <2>1. Parent[up.c][f.line] = f.c /\ f.c \in Inner /\ up \in Frame
    BY <1>2, <1>9, <1>10, AccessSentBy
  <2>2. up.c # f.c /\ up.c \in Caches
    BY <1>10, <2>1, ParentOf, FrameFields
  <2>3. View'.state[up.c][f.line] = View.state[up.c][f.line]
    BY <1>8, <2>2
  <2>4. e.pc # "end"
    BY <2>1 DEF Inner
  <2> QED
    BY <1>2, <1>10, <2>3, <2>4 DEF Asked
<1>16. Sound(View')
  <2>1. View.calls[t][n] = f /\ View'.calls[t][n] = e
    BY <1>2, <1>5
  <2>2. /\ Access(View'.calls[t][n]) => Access(View.calls[t][n])
        /\ View.calls[t][n].type # "GETX" \/ View.calls[t][n].pc # "top"
        /\ ~ (View'.calls[t][n].pc = "inv" /\ View'.calls[t][n].c \in Leaves)
    BY <1>10, <2>1
  <2>3. \A k \in Caches : \/ View'.tags[k] = View.tags[k]
                          \/ k = View.calls[t][n].c /\ InAccess(View, t, n)
    BY <1>8, <1>11, <2>1
  <2>4. \A k \in Caches, l \in Lines :
           l \in View.tags[k] => l \in View'.tags[k] \/ View'.state[k][l] = "I"
    BY <1>8
  <2>5. \A k \in Caches, l \in Lines :
           \/ View'.state[k][l] = View.state[k][l]
           \/ k = View.calls[t][n].c /\ HasBcc(View, t, n) /\ InAccess(View, t, n)
    BY <1>8, <1>11, <2>1
  <2>6. \A k \in Caches, l \in Lines :
           \/ View'.state[k][l] = View.state[k][l]
           \/ Excl(View, k, l) /\ Excl(View', k, l)
           \/ /\ Parent[k][l] = Mem
              /\ View'.state[k][l] = "I" =>
                     \A j \in Caches : Parent[j][l] = k => View.state[j][l] = "I"
              /\ Excl(View, k, l) /\ View'.state[k][l] # "I" => Excl(View', k, l)
              /\ View'.state[k][l] # "I" => l \in View'.tags[k]
    <3> TAKE k \in Caches, l \in Lines
    <3>1. CASE k = f.c
      BY <1>8, <3>1 DEF Excl
    <3>2. CASE k # f.c
      BY <1>8, <3>2
    <3> QED
      BY <3>1, <3>2
  <2>7. /\ Own(View', View'.calls[t][n], TRUE)
        /\ n > 1 => Linked(View', View.calls[t][n - 1], View'.calls[t][n])
        /\ n > 1 /\ Access(View'.calls[t][n]) =>
               Asked(View', View'.calls[t][n], View.calls[t][n - 1].c)
    BY <1>5, <1>14, <1>15
  <2>8. /\ View'.dir = View.dir /\ View'.filter = View.filter /\ View.depth[t] = n
        /\ View'.depth[t] = n /\ Below(View, View', t, n - 1) /\ Typed(View')
        /\ Sound(View) /\ Shaped(View', t, n) /\ Locking(View, View', t, n)
        /\ n \in Nat /\ n >= 1 /\ t \in Threads
    BY <1>2, <1>5, <1>7, <1>8, <1>9, <1>12, <1>13
  <2> QED
    BY <2>2, <2>3, <2>4, <2>5, <2>6, <2>7, <2>8, BecomeSound
<1> QED
  BY <1>6, <1>16 DEF MESIInv

\* Cache::access hits.
LEMMA LookupHitStep ==
    ASSUME MESIInv, NEW t \in Threads, LookupHit(t) PROVE MESIInv'
<1> DEFINE f == Top(t)
           e == [f EXCEPT !.pc = "acc"]
<1>1. /\ stack[t] # << >> /\ f.pc = "lookup" /\ f.line \in tags[f.c]
      /\ Become(t, e)
      /\ UNCHANGED <<state, tags, dir, bccLock, tccLock, filterLock, filter, fresh>>
  BY DEF LookupHit, At, Goto
<1>2. /\ f \in Frame /\ Own(View, f, TRUE)
      /\ \A c \in Caches : IsFiniteSet(tags[c])
  BY <1>1, Acting
<1> HIDE DEF f
<1>3. /\ e \in Frame
      /\ e.c = f.c /\ e.line = f.line /\ e.type = f.type /\ e.pc = "acc"
      /\ e.init = f.init /\ e.wb = f.wb /\ e.victim = f.victim
  BY <1>2 DEF Frame
<1> HIDE DEF e
<1>4. View'.state = View.state /\ View'.tags = tags
  BY <1>1, ViewFields, ViewFieldsNext
<1>5. Own(View', e, TRUE)
  BY <1>1, <1>2, <1>3, <1>4 DEF Own
<1>6. /\ state' = state /\ tags' = tags
      /\ UNCHANGED <<dir, bccLock, tccLock, filterLock, filter>>
      /\ f = Top(t) /\ TypeOK
      /\ state' \in [Caches -> [Lines -> MESI]]
      /\ tags' \in [Caches -> SUBSET Lines]
      /\ fresh' \in [Lines -> SUBSET (Caches \cup {Mem})]
      /\ \A k \in Caches : IsFiniteSet(tags'[k]) /\ Cardinality(tags'[k]) <= Ways[k]
  BY <1>1, <1>2 DEF MESIInv, TypeOK, f
<1> QED
  BY <1>1, <1>3, <1>5, <1>6, AccessStep
\* The replacement policy picks a line.
LEMMA preinsertStep ==
    ASSUME MESIInv, NEW t \in Threads, NEW v \in Lines, preinsert(t, v) PROVE MESIInv'
<1> DEFINE f == Top(t)
           e == [f EXCEPT !.pc = "evict", !.victim = v]
<1>1. /\ stack[t] # << >> /\ f.pc = "lookup" /\ f.type \in Gets
      /\ v \in tags[f.c]
      /\ Become(t, e)
      /\ UNCHANGED <<state, tags, dir, bccLock, tccLock, filterLock, filter, fresh>>
  BY DEF preinsert, At
<1>2. /\ f \in Frame /\ Own(View, f, TRUE)
      /\ \A c \in Caches : IsFiniteSet(tags[c])
  BY <1>1, Acting
<1> HIDE DEF f
<1>3. /\ e \in Frame
      /\ e.c = f.c /\ e.line = f.line /\ e.type = f.type /\ e.pc = "evict"
      /\ e.init = f.init /\ e.wb = f.wb /\ e.victim = v
  BY <1>2 DEF Frame
<1> HIDE DEF e
<1>4. View'.state = View.state /\ View'.tags = tags
  BY <1>1, ViewFields, ViewFieldsNext
<1>5. Own(View', e, TRUE)
  BY <1>1, <1>2, <1>3, <1>4 DEF Own
<1>6. /\ state' = state /\ tags' = tags
      /\ UNCHANGED <<dir, bccLock, tccLock, filterLock, filter>>
      /\ f = Top(t) /\ TypeOK
      /\ state' \in [Caches -> [Lines -> MESI]]
      /\ tags' \in [Caches -> SUBSET Lines]
      /\ fresh' \in [Lines -> SUBSET (Caches \cup {Mem})]
      /\ \A k \in Caches : IsFiniteSet(tags'[k]) /\ Cardinality(tags'[k]) <= Ways[k]
  BY <1>1, <1>2 DEF MESIInv, TypeOK, f
<1> QED
  BY <1>1, <1>3, <1>5, <1>6, AccessStep

\* A free line id is there for the line.
LEMMA InsertFreeStep ==
    ASSUME MESIInv, NEW t \in Threads, InsertFree(t) PROVE MESIInv'
<1> DEFINE f == Top(t)
           e == [f EXCEPT !.pc = "acc"]
<1>1. /\ stack[t] # << >> /\ f.pc = "lookup" /\ f.type \in Gets
      /\ f.line \notin tags[f.c]
      /\ Cardinality(tags[f.c]) < Ways[f.c]
      /\ tags' = [tags EXCEPT ![f.c] = @ \cup {f.line}]
      /\ Become(t, e)
      /\ UNCHANGED <<state, dir, bccLock, tccLock, filterLock, filter, fresh>>
  BY DEF InsertFree, At, Goto
<1>2. /\ f \in Frame /\ Own(View, f, TRUE)
      /\ \A c \in Caches : IsFiniteSet(tags[c])
  BY <1>1, Acting
<1> HIDE DEF f
<1>3. /\ e \in Frame
      /\ e.c = f.c /\ e.line = f.line /\ e.type = f.type /\ e.pc = "acc"
      /\ e.init = f.init /\ e.wb = f.wb /\ e.victim = f.victim
  BY <1>2 DEF Frame
<1> HIDE DEF e
<1>4. /\ f.c \in Caches /\ f.line \in Lines /\ TypeOK /\ f = Top(t)
  BY <1>2, FrameFields DEF MESIInv, f
<1>5. /\ tags'[f.c] = tags[f.c] \cup {f.line}
      /\ \A k \in Caches : k # f.c => tags'[k] = tags[k]
      /\ tags' \in [Caches -> SUBSET Lines]
  BY <1>1, <1>4 DEF TypeOK
<1>6. /\ View'.state = View.state /\ View'.tags = tags'
  BY <1>1, ViewFields, ViewFieldsNext
<1>7. Own(View', e, TRUE)
  BY <1>1, <1>2, <1>3, <1>5, <1>6 DEF Own
<1>8. IsFiniteSet(tags'[f.c]) /\ Cardinality(tags'[f.c]) <= Ways[f.c]
  <2>1. /\ IsFiniteSet(tags[f.c]) /\ Cardinality(tags[f.c]) \in Nat
        /\ Ways[f.c] \in Nat
    BY <1>2, <1>4, FS_CardinalityType, HierarchyAssumption
  <2>2. /\ IsFiniteSet(tags[f.c] \cup {f.line})
        /\ Cardinality(tags[f.c] \cup {f.line}) = Cardinality(tags[f.c]) + 1
    BY <1>1, <2>1, FS_AddElement
  <2> DEFINE S == tags[f.c] \cup {f.line}
  <2>3. tags'[f.c] = S
    BY <1>5
  <2>4. IsFiniteSet(S) /\ Cardinality(S) <= Ways[f.c]
    BY <1>1, <2>1, <2>2
  <2> HIDE DEF S
  <2> QED
    BY <2>3, <2>4
<1>9. /\ state' = state
      /\ UNCHANGED <<dir, bccLock, tccLock, filterLock, filter>>
      /\ state' \in [Caches -> [Lines -> MESI]]
      /\ fresh' \in [Lines -> SUBSET (Caches \cup {Mem})]
      /\ \A k \in Caches : IsFiniteSet(tags'[k]) /\ Cardinality(tags'[k]) <= Ways[k]
  BY <1>1, <1>2, <1>4, <1>5, <1>8 DEF TypeOK
<1>10. \A k \in Caches, l \in Lines : l \in tags[k] => l \in tags'[k]
  BY <1>5
<1> QED
  BY <1>1, <1>3, <1>4, <1>5, <1>7, <1>9, <1>10, AccessStep

\* The parent has answered and locked the cache again.
LEMMA accessReturnStep ==
    ASSUME MESIInv, NEW t \in Threads, accessReturn(t) PROVE MESIInv'
<1> DEFINE f == Top(t)
           e == [f EXCEPT !.pc = AfterBcc(f)]
<1>1. /\ stack[t] # << >> /\ f.pc = "accret"
      /\ fresh' = [fresh EXCEPT ![f.line] = Stored(t, f, @)]
      /\ Become(t, e)
      /\ UNCHANGED <<state, tags, dir, bccLock, tccLock, filterLock, filter>>
  BY DEF accessReturn, At, Goto
<1>2. /\ f \in Frame /\ Own(View, f, TRUE) /\ Shaped(View, t, View.depth[t])
      /\ View.calls[t][View.depth[t]] = f
      /\ \A c \in Caches : IsFiniteSet(tags[c])
  BY <1>1, Acting
<1> HIDE DEF f
<1>3. /\ AfterBcc(f) \in {"end", "top"}
      /\ AfterBcc(f) = "end" <=> f.c \in Leaves
  BY DEF AfterBcc
<1>4. /\ e \in Frame
      /\ e.c = f.c /\ e.line = f.line /\ e.type = f.type /\ e.pc = AfterBcc(f)
      /\ e.init = f.init /\ e.wb = f.wb /\ e.victim = f.victim
  BY <1>2, <1>3 DEF Frame
<1> HIDE DEF e
<1>5. /\ f.c \in Caches /\ f.line \in Lines /\ TypeOK /\ f = Top(t)
      /\ f.c \notin Leaves => f.c \in Inner
  BY <1>2, FrameFields DEF MESIInv, f, Inner
<1>6. f.type \in Gets
  BY <1>1, <1>2, FrameFields DEF Shaped, Gets, Puts, Invs
<1>7. View'.state = View.state /\ View'.tags = tags /\ View.tags = tags
  BY <1>1, ViewFields, ViewFieldsNext
<1>8. Own(View', e, TRUE)
  BY <1>1, <1>2, <1>3, <1>4, <1>6, <1>7 DEF Own, Gets
<1>9. fresh' \in [Lines -> SUBSET (Caches \cup {Mem})]
  BY <1>1, <1>5 DEF TypeOK, Stored
<1>10. /\ state' = state /\ tags' = tags
       /\ UNCHANGED <<dir, bccLock, tccLock, filterLock, filter>>
       /\ state' \in [Caches -> [Lines -> MESI]]
       /\ tags' \in [Caches -> SUBSET Lines]
       /\ \A k \in Caches : IsFiniteSet(tags'[k]) /\ Cardinality(tags'[k]) <= Ways[k]
  BY <1>1, <1>2, <1>5 DEF TypeOK
<1> QED
  BY <1>1, <1>3, <1>4, <1>5, <1>8, <1>9, <1>10, AccessStep
\* A set with one element for another is no larger.
LEMMA Exchanged ==
    ASSUME NEW S, IsFiniteSet(S), NEW v \in S, NEW x
    PROVE  /\ IsFiniteSet((S \ {v}) \cup {x})
           /\ Cardinality((S \ {v}) \cup {x}) <= Cardinality(S)
<1> DEFINE R == S \ {v}
<1>1. /\ IsFiniteSet(R) /\ Cardinality(R) = Cardinality(S) - 1
      /\ Cardinality(S) \in Nat /\ Cardinality(R) \in Nat
  BY FS_RemoveElement, FS_CardinalityType
<1> HIDE DEF R
<1>2. CASE x \in R
  <2>1. R \cup {x} = R
    BY <1>2
  <2> QED
    BY <1>1, <2>1 DEF R
<1>3. CASE x \notin R
  <2>1. IsFiniteSet(R \cup {x}) /\ Cardinality(R \cup {x}) = Cardinality(R) + 1
    BY <1>1, <1>3, FS_AddElement
  <2>2. Cardinality(R \cup {x}) <= Cardinality(S)
    BY <1>1, <2>1
  <2> QED
    BY <2>1, <2>2 DEF R
<1> QED
  BY <1>2, <1>3

\* The line id of the victim is the new line's.
LEMMA Replacing ==
    ASSUME TypeOK, NEW f \in Frame, f.victim \in tags[f.c],
           \A c \in Caches : IsFiniteSet(tags[c]), tags' = Replaced(f)
    PROVE  /\ tags'[f.c] = (tags[f.c] \ {f.victim}) \cup {f.line}
           /\ \A k \in Caches : k # f.c => tags'[k] = tags[k]
           /\ tags' \in [Caches -> SUBSET Lines]
           /\ \A k \in Caches : IsFiniteSet(tags'[k]) /\ Cardinality(tags'[k]) <= Ways[k]
           /\ \A k \in Caches, l \in Lines :
                 l \in tags[k] => l \in tags'[k] \/ (k = f.c /\ l = f.victim)
<1>1. f.c \in Caches /\ f.line \in Lines
  BY FrameFields
<1>2. /\ tags'[f.c] = (tags[f.c] \ {f.victim}) \cup {f.line}
      /\ \A k \in Caches : k # f.c => tags'[k] = tags[k]
      /\ tags' \in [Caches -> SUBSET Lines]
  BY <1>1 DEF TypeOK, Replaced
<1>3. IsFiniteSet(tags'[f.c]) /\ Cardinality(tags'[f.c]) <= Ways[f.c]
  <2> DEFINE S == (tags[f.c] \ {f.victim}) \cup {f.line}
  <2>1. IsFiniteSet(S) /\ Cardinality(S) <= Cardinality(tags[f.c])
    BY <1>1, Exchanged
  <2>2. IsFiniteSet(tags[f.c]) /\ Cardinality(tags[f.c]) <= Ways[f.c]
    BY <1>1 DEF TypeOK
  <2>3. tags'[f.c] = S
    BY <1>2
  <2> HIDE DEF S
  <2>4. /\ Cardinality(tags[f.c]) \in Nat /\ Cardinality(S) \in Nat
        /\ Ways[f.c] \in Nat
    BY <1>1, <2>1, <2>2, FS_CardinalityType, HierarchyAssumption
  <2>5. Cardinality(S) <= Ways[f.c]
    BY <2>1, <2>2, <2>4
  <2> QED
    BY <2>1, <2>3, <2>5
<1>4. \A k \in Caches : IsFiniteSet(tags'[k]) /\ Cardinality(tags'[k]) <= Ways[k]
  BY <1>2, <1>3 DEF TypeOK
<1> QED
  BY <1>2, <1>4

\* An access that has got its line id.
LEMMA InsertedCall ==
    ASSUME NEW f \in Frame
    PROVE  LET e == Inserted(f) IN
           /\ e \in Frame
           /\ e.c = f.c /\ e.line = f.line /\ e.type = f.type /\ e.pc = "acc"
           /\ e.init = f.init /\ e.wb = FALSE
BY DEF Frame, Inserted

\* The victim is gone already.
LEMMA evictInvalidStep ==
    ASSUME MESIInv, NEW t \in Threads, evictInvalid(t) PROVE MESIInv'
<1> DEFINE f == Top(t)
           e == Inserted(f)
<1>1. /\ stack[t] # << >> /\ f.pc = "evict"
      /\ EvictedState(f) = "I"
      /\ tags' = Replaced(f)
      /\ Become(t, e)
      /\ UNCHANGED <<state, dir, bccLock, tccLock, filterLock, filter, fresh>>
  BY DEF evictInvalid, At
<1>2. /\ f \in Frame /\ Shaped(View, t, View.depth[t])
      /\ View.calls[t][View.depth[t]] = f
      /\ \A c \in Caches : IsFiniteSet(tags[c])
  BY <1>1, Acting
<1> HIDE DEF f
<1>3. /\ e \in Frame
      /\ e.c = f.c /\ e.line = f.line /\ e.type = f.type /\ e.pc = "acc"
      /\ e.init = f.init /\ e.wb = FALSE
  BY <1>2, InsertedCall
<1> HIDE DEF e
<1>4. /\ f.c \in Caches /\ f.line \in Lines /\ TypeOK /\ f = Top(t)
  BY <1>2, FrameFields DEF MESIInv, f
<1>5. View'.state = View.state /\ View'.tags = tags' /\ View.tags = tags
  BY <1>1, ViewFields, ViewFieldsNext
<1>6. f.victim \in tags[f.c]
  BY <1>1, <1>2, <1>5 DEF Shaped
<1>7. /\ tags'[f.c] = (tags[f.c] \ {f.victim}) \cup {f.line}
      /\ \A k \in Caches : k # f.c => tags'[k] = tags[k]
      /\ tags' \in [Caches -> SUBSET Lines]
      /\ \A k \in Caches : IsFiniteSet(tags'[k]) /\ Cardinality(tags'[k]) <= Ways[k]
      /\ \A k \in Caches, l \in Lines :
            l \in tags[k] => l \in tags'[k] \/ (k = f.c /\ l = f.victim)
  BY <1>1, <1>2, <1>4, <1>6, Replacing
<1>8. state'[f.c][f.victim] = "I"
  BY <1>1 DEF EvictedState
<1>9. Own(View', e, TRUE)
  BY <1>3, <1>5, <1>7 DEF Own
<1>10. /\ state' = state
       /\ UNCHANGED <<dir, bccLock, tccLock, filterLock, filter>>
       /\ state' \in [Caches -> [Lines -> MESI]]
       /\ fresh' \in [Lines -> SUBSET (Caches \cup {Mem})]
  BY <1>1, <1>4 DEF TypeOK
<1>11. \A k \in Caches, l \in Lines :
           l \in tags[k] => l \in tags'[k] \/ state'[k][l] = "I"
  BY <1>7, <1>8
<1>12. /\ \A k \in Caches : k # f.c => tags'[k] = tags[k] /\ state'[k] = state[k]
       /\ tags' \in [Caches -> SUBSET Lines]
       /\ \A k \in Caches : IsFiniteSet(tags'[k]) /\ Cardinality(tags'[k]) <= Ways[k]
       /\ \A l \in Lines : state'[f.c][l] = state[f.c][l]
  BY <1>7, <1>10
<1> QED
  BY <1>1, <1>3, <1>4, <1>9, <1>10, <1>11, <1>12, AccessStep

\* The parent has taken the victim.
LEMMA postinsertStep ==
    ASSUME MESIInv, NEW t \in Threads, postinsert(t) PROVE MESIInv'
<1> DEFINE f == Top(t)
           e == Inserted(f)
<1>1. /\ stack[t] # << >> /\ f.pc = "evput"
      /\ tags' = Replaced(f)
      /\ Become(t, e)
      /\ UNCHANGED <<state, dir, bccLock, tccLock, filterLock, filter, fresh>>
  BY DEF postinsert, At
<1>2. /\ f \in Frame /\ Shaped(View, t, View.depth[t]) /\ Own(View, f, TRUE)
      /\ View.calls[t][View.depth[t]] = f
      /\ \A c \in Caches : IsFiniteSet(tags[c])
  BY <1>1, Acting
<1> HIDE DEF f
<1>3. /\ e \in Frame
      /\ e.c = f.c /\ e.line = f.line /\ e.type = f.type /\ e.pc = "acc"
      /\ e.init = f.init /\ e.wb = FALSE
  BY <1>2, InsertedCall
<1> HIDE DEF e
<1>4. /\ f.c \in Caches /\ f.line \in Lines /\ TypeOK /\ f = Top(t)
  BY <1>2, FrameFields DEF MESIInv, f
<1>5. /\ View'.state = View.state /\ View'.tags = tags' /\ View.tags = tags
      /\ View.state = state
  BY <1>1, ViewFields, ViewFieldsNext
<1>6. f.victim \in tags[f.c]
  BY <1>1, <1>2, <1>5 DEF Shaped
<1>7. /\ tags'[f.c] = (tags[f.c] \ {f.victim}) \cup {f.line}
      /\ \A k \in Caches : k # f.c => tags'[k] = tags[k]
      /\ tags' \in [Caches -> SUBSET Lines]
      /\ \A k \in Caches : IsFiniteSet(tags'[k]) /\ Cardinality(tags'[k]) <= Ways[k]
      /\ \A k \in Caches, l \in Lines :
            l \in tags[k] => l \in tags'[k] \/ (k = f.c /\ l = f.victim)
  BY <1>1, <1>2, <1>4, <1>6, Replacing
<1>8. state'[f.c][f.victim] = "I"
  BY <1>1, <1>2, <1>5 DEF Own
<1>9. Own(View', e, TRUE)
  BY <1>3, <1>5, <1>7 DEF Own
<1>10. /\ state' = state
       /\ UNCHANGED <<dir, bccLock, tccLock, filterLock, filter>>
       /\ state' \in [Caches -> [Lines -> MESI]]
       /\ fresh' \in [Lines -> SUBSET (Caches \cup {Mem})]
  BY <1>1, <1>4 DEF TypeOK
<1>11. \A k \in Caches, l \in Lines :
           l \in tags[k] => l \in tags'[k] \/ state'[k][l] = "I"
  BY <1>7, <1>8
<1>12. /\ \A k \in Caches : k # f.c => tags'[k] = tags[k] /\ state'[k] = state[k]
       /\ tags' \in [Caches -> SUBSET Lines]
       /\ \A k \in Caches : IsFiniteSet(tags'[k]) /\ Cardinality(tags'[k]) <= Ways[k]
       /\ \A l \in Lines : state'[f.c][l] = state[f.c][l]
  BY <1>7, <1>10
<1> QED
  BY <1>1, <1>3, <1>4, <1>9, <1>10, <1>11, <1>12, AccessStep

\* The memory takes the victim.
LEMMA evictToMemStep ==
    ASSUME MESIInv, NEW t \in Threads, evictToMem(t) PROVE MESIInv'
<1> DEFINE f == Top(t)
           e == Inserted(f)
           n == View.depth[t]
<1>1. /\ stack[t] # << >> /\ f.pc = "evict"
      /\ Sharers(f.c, f.victim) = {}
      /\ Parent[f.c][f.victim] = Mem
      /\ state' = [state EXCEPT ![f.c][f.victim] = "I"]
      /\ fresh' = [fresh EXCEPT ![f.victim] =
                      (IF EvictedState(f) = "M" THEN Moved(f.victim, f.c, Mem) ELSE @)
                          \ {f.c}]
      /\ tags' = Replaced(f)
      /\ Become(t, e)
      /\ UNCHANGED <<dir, bccLock, tccLock, filterLock, filter>>
  BY DEF evictToMem, At
<1>2. /\ f \in Frame /\ Shaped(View, t, n) /\ n \in 1 .. View.depth[t]
      /\ View.calls[t][n] = f /\ Sound(View)
      /\ \A c \in Caches : IsFiniteSet(tags[c])
  BY <1>1, Acting
<1> HIDE DEF f, n
<1>3. /\ e \in Frame
      /\ e.c = f.c /\ e.line = f.line /\ e.type = f.type /\ e.pc = "acc"
      /\ e.init = f.init /\ e.wb = FALSE
  BY <1>2, InsertedCall
<1> HIDE DEF e
<1>4. /\ f.c \in Caches /\ f.line \in Lines /\ TypeOK /\ f = Top(t)
  BY <1>2, FrameFields DEF MESIInv, f
<1>5. /\ View'.state = state' /\ View'.tags = tags' /\ View.tags = tags
      /\ View.state = state /\ View.dir = dir
  BY ViewFields, ViewFieldsNext
<1>6. f.victim \in tags[f.c] /\ f.victim \in Lines
  BY <1>1, <1>2, <1>4, <1>5 DEF Shaped, TypeOK
<1>7. /\ tags'[f.c] = (tags[f.c] \ {f.victim}) \cup {f.line}
      /\ \A k \in Caches : k # f.c => tags'[k] = tags[k]
      /\ tags' \in [Caches -> SUBSET Lines]
      /\ \A k \in Caches : IsFiniteSet(tags'[k]) /\ Cardinality(tags'[k]) <= Ways[k]
      /\ \A k \in Caches, l \in Lines :
            l \in tags[k] => l \in tags'[k] \/ (k = f.c /\ l = f.victim)
  BY <1>1, <1>2, <1>4, <1>6, Replacing
<1>8. /\ state'[f.c][f.victim] = "I"
      /\ \A l \in Lines : l # f.victim => state'[f.c][l] = state[f.c][l]
      /\ \A k \in Caches : k # f.c => state'[k] = state[k]
      /\ state' \in [Caches -> [Lines -> MESI]]
  BY <1>1, <1>4, <1>6 DEF TypeOK, MESI
<1>9. Own(View', e, TRUE)
  BY <1>3, <1>5, <1>7 DEF Own
<1>10. fresh' \in [Lines -> SUBSET (Caches \cup {Mem})]
  BY <1>1, <1>4, <1>6 DEF TypeOK, Moved
<1>11. \A k \in Caches, l \in Lines :
           l \in tags[k] => l \in tags'[k] \/ state'[k][l] = "I"
  BY <1>7, <1>8
<1>12. ASSUME NEW j \in Caches, Parent[j][f.victim] = f.c
       PROVE  state[j][f.victim] = "I"
  <2>1. f.c \in Inner
    BY <1>4, <1>6, <1>12, ParentOf
  <2>2. View.dir[f.c][f.victim].sharers = {}
    BY <1>1, <1>5, <2>1 DEF Sharers, Inner
  <2>3. HasBcc(View, t, n)
    BY <1>1, <1>2 DEF HasBcc
  <2> QED
    BY <1>1, <1>2, <1>5, <1>6, <1>12, <2>1, <2>2, <2>3, NoChild
<1>13. \A l \in Lines :
          \/ state'[f.c][l] = state[f.c][l]
          \/ state[f.c][l] \in {"E", "M"} /\ state'[f.c][l] \in {"E", "M"}
          \/ /\ Parent[f.c][l] = Mem
             /\ state'[f.c][l] = "I" =>
                    \A j \in Caches : Parent[j][l] = f.c => state[j][l] = "I"
             /\ state[f.c][l] \in {"E", "M"} => state'[f.c][l] = "I"
             /\ state'[f.c][l] # "I" => l \in tags'[f.c]
  BY <1>1, <1>8, <1>12
<1>14. /\ \A k \in Caches : k # f.c => tags'[k] = tags[k] /\ state'[k] = state[k]
       /\ tags' \in [Caches -> SUBSET Lines] /\ state' \in [Caches -> [Lines -> MESI]]
       /\ \A k \in Caches : IsFiniteSet(tags'[k]) /\ Cardinality(tags'[k]) <= Ways[k]
  BY <1>7, <1>8
<1>15. /\ stack[t] # << >> /\ f.pc = "evict" /\ Become(t, e)
       /\ UNCHANGED <<dir, bccLock, tccLock, filterLock, filter>>
  BY <1>1
<1> QED
  BY <1>3, <1>4, <1>9, <1>10, <1>11, <1>13, <1>14, <1>15, AccessStep
\* The cache has the line in a state that will do.
LEMMA accessHereStep ==
    ASSUME MESIInv, NEW t \in Threads, accessHere(t) PROVE MESIInv'
<1> DEFINE f == Top(t)
           e == [f EXCEPT !.pc = AfterBcc(f)]
           n == View.depth[t]
           up == View.calls[t][n - 1]
<1>1. /\ stack[t] # << >> /\ f.pc = "acc"
      /\ ~ NeedsParent(f)
      /\ state' = IF f.type \in {"GETX", "PUTX"} /\ state[f.c][f.line] = "E"
                  THEN [state EXCEPT ![f.c][f.line] = "M"] ELSE state
      /\ fresh' = [fresh EXCEPT ![f.line] =
                      IF f.type = "PUTX" THEN Moved(f.line, Caller(t).c, f.c)
                      ELSE Stored(t, f, @)]
      /\ Become(t, e)
      /\ UNCHANGED <<tags, dir, bccLock, tccLock, filterLock, filter>>
  BY DEF accessHere, At, Goto
<1>2. /\ f \in Frame /\ Own(View, f, TRUE) /\ Shaped(View, t, n)
      /\ View.calls[t][n] = f
      /\ \A c \in Caches : IsFiniteSet(tags[c])
  BY <1>1, Acting
<1> HIDE DEF f, n
<1>3. /\ AfterBcc(f) \in {"end", "top"}
      /\ AfterBcc(f) = "end" <=> f.c \in Leaves
  BY DEF AfterBcc
<1>4. /\ e \in Frame
      /\ e.c = f.c /\ e.line = f.line /\ e.type = f.type /\ e.pc = AfterBcc(f)
      /\ e.init = f.init /\ e.wb = f.wb /\ e.victim = f.victim
  BY <1>2, <1>3 DEF Frame
<1> HIDE DEF e
<1>5. /\ f.c \in Caches /\ f.line \in Lines /\ TypeOK /\ f = Top(t)
      /\ f.c \notin Leaves => f.c \in Inner
  BY <1>2, FrameFields DEF MESIInv, f, Inner
<1>6. /\ View'.state = state' /\ View'.tags = tags' /\ View.tags = tags
      /\ View.state = state
  BY ViewFields, ViewFieldsNext
<1>7. /\ \A k \in Caches : k # f.c => state'[k] = state[k]
      /\ \A l \in Lines :
            \/ state'[f.c][l] = state[f.c][l]
            \/ state[f.c][l] \in {"E", "M"} /\ state'[f.c][l] \in {"E", "M"}
      /\ state' \in [Caches -> [Lines -> MESI]]
      /\ \/ state'[f.c][f.line] = state[f.c][f.line]
            /\ ~ (f.type \in {"GETX", "PUTX"} /\ state[f.c][f.line] = "E")
         \/ state'[f.c][f.line] = "M"
  BY <1>1, <1>5 DEF TypeOK, MESI
<1>8. state[f.c][f.line] \in MESI
  BY <1>5 DEF TypeOK
<1>9. f.wb = FALSE /\ (f.type \in Gets => f.line \in tags[f.c])
  BY <1>1, <1>2, <1>6, FrameFields DEF Own
<1>10. /\ f.type = "GETS" => state'[f.c][f.line] # "I"
       /\ f.type = "GETX" => state'[f.c][f.line] = "M"
  BY <1>1, <1>7, <1>8 DEF NeedsParent, MESI
<1>11. Own(View', e, TRUE)
  BY <1>1, <1>3, <1>4, <1>6, <1>9, <1>10 DEF Own
<1>12. fresh' \in [Lines -> SUBSET (Caches \cup {Mem})]
  BY <1>1, <1>5 DEF TypeOK, Stored, Moved
<1>13. /\ UNCHANGED <<dir, bccLock, tccLock, filterLock, filter>>
       /\ tags' \in [Caches -> SUBSET Lines]
       /\ \A k \in Caches : IsFiniteSet(tags'[k]) /\ Cardinality(tags'[k]) <= Ways[k]
       /\ \A k \in Caches : k # f.c => tags'[k] = tags[k] /\ state'[k] = state[k]
       /\ \A k \in Caches, l \in Lines : l \in tags[k] => l \in tags'[k]
  BY <1>1, <1>2, <1>5, <1>7 DEF TypeOK
<1>14. stack[t] # << >> /\ f.pc = "acc" /\ Become(t, e)
  BY <1>1
<1>15. /\ e.pc \in {"evict", "acc", "top", "end"}
       /\ e.pc # "evict"
       /\ e.pc = "top" => f.c \in Inner
       /\ e.pc = "end" => f.c \in Leaves
       /\ e.c = f.c /\ e.line = f.line /\ e.type = f.type /\ e.init = f.init
       /\ e \in Frame /\ f = Top(t)
  BY <1>3, <1>4, <1>5
<1>16. /\ state' \in [Caches -> [Lines -> MESI]]
       /\ \A l \in Lines :
             \/ state'[f.c][l] = state[f.c][l]
             \/ state[f.c][l] \in {"E", "M"} /\ state'[f.c][l] \in {"E", "M"}
  BY <1>7
<1>17. /\ stack[t] # << >> /\ f = Top(t) /\ e \in Frame /\ Become(t, e)
       /\ e.c = f.c /\ e.line = f.line /\ e.type = f.type /\ e.init = f.init
       /\ f.pc \in {"lookup", "evict", "evput", "acc", "accret"}
       /\ e.pc \in {"evict", "acc", "top", "end"}
  BY <1>14, <1>15
<1>18. /\ UNCHANGED <<dir, bccLock, tccLock, filterLock, filter>>
       /\ state' \in [Caches -> [Lines -> MESI]]
       /\ tags' \in [Caches -> SUBSET Lines]
       /\ fresh' \in [Lines -> SUBSET (Caches \cup {Mem})]
       /\ \A k \in Caches : IsFiniteSet(tags'[k]) /\ Cardinality(tags'[k]) <= Ways[k]
       /\ \A k \in Caches : k # f.c => tags'[k] = tags[k] /\ state'[k] = state[k]
  BY <1>12, <1>13, <1>16
<1>19. \A k \in Caches, l \in Lines :
           l \in tags[k] => l \in tags'[k] \/ state'[k][l] = "I"
  BY <1>1
<1>20. \A l \in Lines :
          \/ state'[f.c][l] = state[f.c][l]
          \/ state[f.c][l] \in {"E", "M"} /\ state'[f.c][l] \in {"E", "M"}
          \/ /\ Parent[f.c][l] = Mem
             /\ state'[f.c][l] = "I" =>
                    \A j \in Caches : Parent[j][l] = f.c => state[j][l] = "I"
             /\ state[f.c][l] \in {"E", "M"} => state'[f.c][l] = "I"
             /\ state'[f.c][l] # "I" => l \in tags'[f.c]
  BY <1>16
<1>21. /\ e.pc = "evict" => e.victim \in tags'[f.c] /\ f.type \in Gets
       /\ e.pc = "top" => f.c \in Inner
       /\ e.pc = "end" => f.c \in Leaves
       /\ Own(View', e, TRUE)
  BY <1>11, <1>15
<1> QED
  BY <1>17, <1>18, <1>19, <1>20, <1>21, AccessStep

\* The memory hands the line out.
LEMMA accessMemStep ==
    ASSUME MESIInv, NEW t \in Threads, accessMem(t) PROVE MESIInv'
<1> DEFINE f == Top(t)
           e == [f EXCEPT !.pc = AfterBcc(f)]
           new == CASE f.type = "GETX" -> "M"
                    [] f.type = "GETS" /\ t \in NoExcl -> "S"
                    [] OTHER -> "E"
<1>1. /\ stack[t] # << >> /\ f.pc = "acc"
      /\ NeedsParent(f)
      /\ Parent[f.c][f.line] = Mem
      /\ state' = [state EXCEPT ![f.c][f.line] = new]
      /\ fresh' = [fresh EXCEPT ![f.line] =
                      Stored(t, f, IF state[f.c][f.line] = "I"
                                   THEN Moved(f.line, Mem, f.c) ELSE @)]
      /\ Become(t, e)
      /\ UNCHANGED <<tags, dir, bccLock, tccLock, filterLock, filter>>
  BY DEF accessMem, At, Goto
<1>2. /\ f \in Frame /\ Own(View, f, TRUE) /\ Shaped(View, t, View.depth[t])
      /\ View.calls[t][View.depth[t]] = f
      /\ \A c \in Caches : IsFiniteSet(tags[c])
  BY <1>1, Acting
<1> HIDE DEF f
<1>3. /\ AfterBcc(f) \in {"end", "top"}
      /\ AfterBcc(f) = "end" <=> f.c \in Leaves
  BY DEF AfterBcc
<1>4. /\ e \in Frame
      /\ e.c = f.c /\ e.line = f.line /\ e.type = f.type /\ e.pc = AfterBcc(f)
      /\ e.init = f.init /\ e.wb = f.wb /\ e.victim = f.victim
  BY <1>2, <1>3 DEF Frame
<1> HIDE DEF e
<1>5. /\ f.c \in Caches /\ f.line \in Lines /\ TypeOK /\ f = Top(t)
      /\ f.c \notin Leaves => f.c \in Inner
  BY <1>2, FrameFields DEF MESIInv, f, Inner
<1>6. /\ View'.state = state' /\ View'.tags = tags' /\ View.tags = tags
      /\ View.state = state
  BY ViewFields, ViewFieldsNext
<1>7. f.type \in Gets /\ state[f.c][f.line] \in {"I", "S"}
  BY <1>1, <1>5 DEF NeedsParent, Gets
<1>8. /\ new \in {"S", "E", "M"}
      /\ f.type = "GETX" => new = "M"
  OBVIOUS
<1> HIDE DEF new
<1>9. /\ \A k \in Caches : k # f.c => state'[k] = state[k]
      /\ \A l \in Lines : l # f.line => state'[f.c][l] = state[f.c][l]
      /\ state'[f.c][f.line] = new
      /\ state' \in [Caches -> [Lines -> MESI]]
  BY <1>1, <1>5, <1>8 DEF TypeOK, MESI
<1>10. f.wb = FALSE /\ f.line \in tags[f.c]
  BY <1>1, <1>2, <1>6, <1>7, FrameFields DEF Own
<1>11. Own(View', e, TRUE)
  BY <1>1, <1>3, <1>4, <1>6, <1>8, <1>9, <1>10 DEF Own
<1>12. fresh' \in [Lines -> SUBSET (Caches \cup {Mem})]
  BY <1>1, <1>5 DEF TypeOK, Stored, Moved
<1>13. /\ UNCHANGED <<dir, bccLock, tccLock, filterLock, filter>>
       /\ tags' \in [Caches -> SUBSET Lines]
       /\ \A k \in Caches : IsFiniteSet(tags'[k]) /\ Cardinality(tags'[k]) <= Ways[k]
       /\ \A k \in Caches : k # f.c => tags'[k] = tags[k] /\ state'[k] = state[k]
       /\ \A k \in Caches, l \in Lines : l \in tags[k] => l \in tags'[k]
  BY <1>1, <1>2, <1>5, <1>9 DEF TypeOK
<1>14. \A l \in Lines :
          \/ state'[f.c][l] = state[f.c][l]
          \/ state[f.c][l] \in {"E", "M"} /\ state'[f.c][l] \in {"E", "M"}
          \/ /\ Parent[f.c][l] = Mem
             /\ state'[f.c][l] = "I" =>
                    \A j \in Caches : Parent[j][l] = f.c => state[j][l] = "I"
             /\ state[f.c][l] \in {"E", "M"} => state'[f.c][l] = "I"
             /\ state'[f.c][l] # "I" => l \in tags'[f.c]
  BY <1>1, <1>7, <1>8, <1>9, <1>10
<1>15. stack[t] # << >> /\ f.pc = "acc" /\ Become(t, e)
  BY <1>1
<1>16. /\ e.pc \in {"evict", "acc", "top", "end"}
       /\ e.pc # "evict"
       /\ e.pc = "top" => f.c \in Inner
       /\ e.pc = "end" => f.c \in Leaves
       /\ e.c = f.c /\ e.line = f.line /\ e.type = f.type /\ e.init = f.init
       /\ e \in Frame /\ f = Top(t)
       /\ state' \in [Caches -> [Lines -> MESI]]
  BY <1>3, <1>4, <1>5, <1>9
<1>17. \A k \in Caches, l \in Lines :
           l \in tags[k] => l \in tags'[k] \/ state'[k][l] = "I"
  BY <1>1
<1>18. f.pc \in {"lookup", "evict", "evput", "acc", "accret"}
  BY <1>15
<1> QED
  BY <1>11, <1>12, <1>13, <1>14, <1>15, <1>16, <1>17, <1>18, AccessStep
\* What is linked to its caller is known by its cache, type and line.
LEMMA LinkedAlike ==
    ASSUME NEW h, NEW g, NEW f, NEW e, Linked(h, g, f),
           e.c = f.c, e.type = f.type, e.line = f.line
    PROVE  Linked(h, g, e)
BY DEF Linked

\* A step of a call that takes a lock and changes no data.
LEMMA LockStep ==
    ASSUME MESIInv, NEW t \in Threads, stack[t] # << >>, NEW f, f = Top(t),
           NEW e \in Frame, Become(t, e),
           f.pc \in {"tcc", "bcc", "ilock"},
           Access(e) => Access(f),
           ~ (e.pc = "inv" /\ e.c \in Leaves),
           UNCHANGED <<state, tags, dir, filter, fresh>>,
           bccLock' \in [Caches -> Threads \cup {None}],
           tccLock' \in [Inner -> Threads \cup {None}],
           filterLock' \in [Leaves -> Threads \cup {None}],
           NEW n, n = View.depth[t],
           Locking(View, View', t, n),
           Shaped(View', t, n),
           Own(View, e, TRUE),
           n > 1 => Linked(View, View.calls[t][n - 1], e),
           n > 1 /\ Access(e) => Asked(View, e, View.calls[t][n - 1].c)
    PROVE  MESIInv'
<1>2. /\ n \in Nat /\ n >= 1
      /\ View.calls[t][n] = f /\ f \in Frame
      /\ Sound(View) /\ StackType /\ TypeOK
      /\ \A c \in Caches : IsFiniteSet(tags[c])
  BY Acting DEF MESIInv
<1>5. /\ StackType' /\ Below(View, View', t, n - 1)
      /\ View'.depth[t] = n /\ View'.calls[t][n] = e
  BY <1>2, AfterBecome
<1>6. TypeOK'
  BY <1>2, <1>5 DEF TypeOK, StackType
<1>7. Typed(View')
  <2>1. \A c \in Caches : IsFiniteSet(tags'[c])
    BY <1>2
  <2> QED
    BY <1>6, <2>1, TypedViewNext
<1>8. /\ View'.dir = View.dir
      /\ View'.filter = View.filter
      /\ View'.tags = View.tags
      /\ View'.state = View.state
  BY ViewFields, ViewFieldsNext
<1>13. Own(View', e, TRUE)
  BY <1>8 DEF Own, Excl
<1>14. n > 1 => Linked(View', View.calls[t][n - 1], e)
  BY <1>8 DEF Linked
<1>15. n > 1 /\ Access(e) => Asked(View', e, View.calls[t][n - 1].c)
  BY <1>8 DEF Asked
<1>16. Sound(View')
  <2>2. /\ Access(View'.calls[t][n]) => Access(View.calls[t][n])
        /\ View.calls[t][n].type # "GETX" \/ View.calls[t][n].pc # "top"
        /\ ~ (View'.calls[t][n].pc = "inv" /\ View'.calls[t][n].c \in Leaves)
    BY <1>2, <1>5
  <2>3. \A k \in Caches : \/ View'.tags[k] = View.tags[k]
                          \/ k = View.calls[t][n].c /\ InAccess(View, t, n)
    BY <1>8
  <2>4. \A k \in Caches, l \in Lines :
           l \in View.tags[k] => l \in View'.tags[k] \/ View'.state[k][l] = "I"
    BY <1>8
  <2>5. \A k \in Caches, l \in Lines :
           \/ View'.state[k][l] = View.state[k][l]
           \/ k = View.calls[t][n].c /\ HasBcc(View, t, n) /\ InAccess(View, t, n)
    BY <1>8
  <2>6. \A k \in Caches, l \in Lines :
           \/ View'.state[k][l] = View.state[k][l]
           \/ Excl(View, k, l) /\ Excl(View', k, l)
           \/ /\ Parent[k][l] = Mem
              /\ View'.state[k][l] = "I" =>
                     \A j \in Caches : Parent[j][l] = k => View.state[j][l] = "I"
              /\ Excl(View, k, l) /\ View'.state[k][l] # "I" => Excl(View', k, l)
              /\ View'.state[k][l] # "I" => l \in View'.tags[k]
    BY <1>8
  <2>7. /\ Own(View', View'.calls[t][n], TRUE)
        /\ n > 1 => Linked(View', View.calls[t][n - 1], View'.calls[t][n])
        /\ n > 1 /\ Access(View'.calls[t][n]) =>
               Asked(View', View'.calls[t][n], View.calls[t][n - 1].c)
    BY <1>5, <1>13, <1>14, <1>15
  <2>8. /\ View'.dir = View.dir /\ View'.filter = View.filter /\ View.depth[t] = n
        /\ View'.depth[t] = n /\ Below(View, View', t, n - 1) /\ Typed(View')
        /\ Sound(View) /\ Shaped(View', t, n) /\ Locking(View, View', t, n)
        /\ n \in Nat /\ n >= 1 /\ t \in Threads
    BY <1>2, <1>5, <1>7, <1>8
  <2> QED
    BY <2>2, <2>3, <2>4, <2>5, <2>6, <2>7, <2>8, BecomeSound
<1> QED
  BY <1>6, <1>16 DEF MESIInv

\* The lock on the requests from the cache's children is taken.
LEMMA startAccessTccStep ==
    ASSUME MESIInv, NEW t \in Threads, startAccessTcc(t) PROVE MESIInv'
<1> DEFINE f == Top(t)
           e == [f EXCEPT !.pc = "bcc"]
           n == View.depth[t]
           up == View.calls[t][n - 1]
<1>1. /\ stack[t] # << >> /\ f.pc = "tcc"
      /\ tccLock[f.c] = None
      /\ tccLock' = [tccLock EXCEPT ![f.c] = t]
      /\ Become(t, e)
      /\ UNCHANGED <<state, tags, dir, bccLock, filterLock, filter, fresh>>
  BY DEF startAccessTcc, At, Goto
<1>2. /\ n \in Nat /\ n >= 1
      /\ View.calls[t][n] = f /\ f \in Frame
      /\ Sound(View) /\ Shaped(View, t, n) /\ Own(View, f, TRUE)
      /\ n > 1 => Linked(View, up, f)
      /\ n > 1 /\ Access(f) => Asked(View, f, up.c)
      /\ StackType /\ TypeOK
  BY <1>1, Acting DEF MESIInv
<1>3. f = Top(t) /\ n = View.depth[t]
  OBVIOUS
<1> HIDE DEF f, n
<1>4. /\ e \in Frame
      /\ e.c = f.c /\ e.line = f.line /\ e.type = f.type /\ e.pc = "bcc"
      /\ e.init = f.init /\ e.wb = f.wb /\ e.victim = f.victim
  BY <1>2 DEF Frame
<1> HIDE DEF e
<1>5. /\ View'.depth[t] = n /\ View'.calls[t][n] = e
  BY <1>1, <1>2, <1>3, <1>4, AfterBecome
<1>6. f.c \in Inner /\ f.c \notin Leaves /\ Access(f) /\ Access(e) /\ f.c \in Caches
  BY <1>1, <1>2, <1>4, FrameFields DEF Shaped, Access, Gets, Puts, Invs, Inner
<1>7. tccLock' \in [Inner -> Threads \cup {None}] /\ tccLock'[f.c] = t
      /\ \A k \in Inner : k # f.c => tccLock'[k] = tccLock[k]
  BY <1>1, <1>2, <1>6 DEF TypeOK
<1>8. Locking(View, View', t, n)
  <2>1. /\ View'.bcc = View.bcc /\ View'.tcc = tccLock' /\ View'.flt = View.flt
        /\ View.tcc = tccLock
    BY <1>1, ViewFields, ViewFieldsNext
  <2>2. ~ HasBcc(View', t, n) /\ e.pc # "inv"
    BY <1>4, <1>5 DEF HasBcc
  <2>3. \A d \in 1 .. View'.depth[t] : d >= n \/ d = View'.depth[t] => d = n
    BY <1>2, <1>5
  <2> QED
    BY <1>1, <1>2, <1>4, <1>5, <1>6, <1>7, <2>1, <2>2, <2>3 DEF Locking
<1>9. Shaped(View', t, n)
  BY <1>1, <1>2, <1>4, <1>5, <1>6 DEF Shaped, Access
<1>10. Own(View, e, TRUE)
  BY <1>1, <1>2, <1>4 DEF Own
<1>11. n > 1 => Linked(View, up, e) /\ Asked(View, e, up.c)
  BY <1>1, <1>2, <1>4, <1>6 DEF Linked, Asked
<1>12. /\ bccLock' \in [Caches -> Threads \cup {None}]
       /\ filterLock' \in [Leaves -> Threads \cup {None}]
       /\ UNCHANGED <<state, tags, dir, filter, fresh>>
       /\ ~ (e.pc = "inv" /\ e.c \in Leaves)
  BY <1>1, <1>2, <1>4 DEF TypeOK
<1> QED
  BY <1>1, <1>3, <1>4, <1>6, <1>7, <1>8, <1>9, <1>10, <1>11, <1>12, LockStep
\* The cache is locked, and the state of the line in the cache that sent the
\* request is looked at again (CheckForMESIRace).
LEMMA startAccessBccStep ==
    ASSUME MESIInv, NEW t \in Threads, startAccessBcc(t) PROVE MESIInv'
<1> DEFINE f == Top(t)
           e == CheckForMESIRace(f, ChildState(t))
           n == View.depth[t]
           up == View.calls[t][n - 1]
           now == state[up.c][f.line]
<1>1. /\ stack[t] # << >> /\ f.pc = "bcc"
      /\ bccLock[f.c] = None
      /\ bccLock' = [bccLock EXCEPT ![f.c] = t]
      /\ Become(t, e)
      /\ UNCHANGED <<state, tags, dir, tccLock, filterLock, filter, fresh>>
  BY DEF startAccessBcc, At
<1>2. /\ n \in Nat /\ n >= 1
      /\ View.calls[t][n] = f /\ f \in Frame
      /\ Sound(View) /\ Shaped(View, t, n) /\ Own(View, f, TRUE)
      /\ n > 1 => /\ Linked(View, up, f) /\ Caller(t) = up
                  /\ up \in Frame
      /\ n > 1 /\ Access(f) => Asked(View, f, up.c)
      /\ StackType /\ TypeOK /\ n \in 1 .. View.depth[t]
  BY <1>1, Acting DEF MESIInv
<1>3. f = Top(t) /\ n = View.depth[t]
  OBVIOUS
<1>4. Access(f) /\ f.c \in Caches /\ (n = 1 <=> f.c \in Leaves) /\ f.line \in Lines
      /\ ~ (f.type \in Gets /\ f.type \in Puts)
      /\ (n = 1 => f.type \in Gets)
  BY <1>1, <1>2, FrameFields DEF Shaped, Access, Gets, Puts, Invs
<1>5. n > 1 => ChildState(t) = now
  BY <1>2, <1>4 DEF ChildState
<1>6. /\ e.c = f.c /\ e.line = f.line /\ e.init = f.init /\ e.wb = f.wb
      /\ e.victim = f.victim /\ e.pc \in {"lookup", "end"}
      /\ e.type = f.type \/ (f.type \in Puts /\ e.type = "PUTS")
      /\ e.pc = "end" => f.type \in Puts /\ e.type = f.type
      /\ e \in Frame
      /\ n > 1 /\ f.type \in Puts /\ e.pc = "end" => now = "I"
      /\ n > 1 /\ f.type \in Puts /\ e.pc = "lookup" =>
             \/ now = f.init /\ e.type = f.type
             \/ now # f.init /\ now # "I" /\ e.type = "PUTS"
  <2> DEFINE s == ChildState(t)
  <2>1. CheckForMESIRace(f, s) = e /\ (n > 1 => s = now)
    BY <1>5
  <2>2. f \in Frame /\ f.pc = "bcc"
    BY <1>1, <1>2
  <2> HIDE DEF s, e, now
  <2>3. CASE f.type \in Puts /\ s # f.init /\ s = "I"
    <3>1. e = [f EXCEPT !.pc = "end"]
      BY <2>1, <2>3 DEF CheckForMESIRace
    <3> QED
      BY <2>1, <2>2, <2>3, <3>1 DEF Frame
  <2>4. CASE f.type \in Puts /\ s # f.init /\ s # "I"
    <3>1. e = [f EXCEPT !.pc = "lookup", !.type = "PUTS"]
      BY <2>1, <2>4 DEF CheckForMESIRace
    <3> QED
      BY <2>1, <2>2, <2>4, <3>1 DEF Frame, Puts
  <2>5. CASE ~ (f.type \in Puts /\ s # f.init)
    <3>1. e = [f EXCEPT !.pc = "lookup"]
      BY <2>1, <2>5 DEF CheckForMESIRace
    <3> QED
      BY <2>1, <2>2, <2>5, <3>1 DEF Frame
  <2> QED
    BY <2>3, <2>4, <2>5
<1> HIDE DEF f, n, e
<1>7. /\ View'.depth[t] = n /\ View'.calls[t][n] = e
  <2>1. stack[t] # << >> /\ e \in Frame /\ Become(t, e) /\ View.depth[t] = n
    BY <1>1, <1>3, <1>6
  <2> QED
    BY <1>2, <2>1, AfterBecome
<1>8. Access(e) /\ (e.type \in Gets <=> f.type \in Gets) /\ (e.type \in Puts <=> f.type \in Puts)
      /\ e.type \notin Invs
  BY <1>4, <1>6 DEF Access, Gets, Puts, Invs
<1>9. bccLock' \in [Caches -> Threads \cup {None}] /\ bccLock'[f.c] = t
      /\ \A k \in Caches : k # f.c => bccLock'[k] = bccLock[k]
  BY <1>1, <1>2, <1>4 DEF TypeOK
<1>10. Locking(View, View', t, n)
  <2>1. /\ View'.bcc = bccLock' /\ View'.tcc = View.tcc /\ View'.flt = View.flt
        /\ View.bcc = bccLock
    BY <1>1, ViewFields, ViewFieldsNext
  <2>2. InAccess(View, t, n) /\ e.pc # "inv"
    BY <1>1, <1>2, <1>4, <1>6 DEF InAccess
  <2>3. \A d \in 1 .. View'.depth[t] : d >= n \/ d = View'.depth[t] => d = n
    BY <1>2, <1>7
  <2>4. f.c \in Inner => View.tcc[f.c] = t
    BY <1>2, <2>2 DEF Sound, Locked
  <2> QED
    BY <1>1, <1>2, <1>4, <1>6, <1>7, <1>9, <2>1, <2>2, <2>3, <2>4 DEF Locking
<1>11. Shaped(View', t, n)
  BY <1>1, <1>2, <1>4, <1>6, <1>7, <1>8 DEF Shaped, Access
<1>12. Own(View, e, TRUE)
  BY <1>1, <1>2, <1>4, <1>6, <1>8 DEF Own, Puts, Gets
<1>13. n > 1 => Linked(View, up, e)
  <2> SUFFICES ASSUME n > 1 PROVE Linked(View, up, e)
    OBVIOUS
  <2>1. Linked(View, up, f)
    BY <1>2
  <2>2. CASE f.type \in Gets
    <3>1. e.type = f.type /\ e.line = f.line /\ e.c = f.c
      BY <1>6, <1>4, <2>2
    <3> HIDE DEF up
    <3> QED
      BY <2>1, <3>1, LinkedAlike
  <2>3. CASE f.type \in Puts
    <3>1. up.pc = "evput" /\ f.line = up.victim /\ f.c = Parent[up.c][f.line]
      BY <1>4, <2>1, <2>3 DEF Linked, Gets, Puts, Invs
    <3> QED
      BY <1>6, <1>8, <2>3, <3>1 DEF Linked
  <2> QED
    BY <1>4, <2>2, <2>3 DEF Access
<1>14. n > 1 => Asked(View, e, up.c)
  <2> SUFFICES ASSUME n > 1 PROVE Asked(View, e, up.c)
    OBVIOUS
  <2>1. Asked(View, f, up.c) /\ View.state = state
    BY <1>2, <1>4, ViewFields
  <2> HIDE DEF up
  <2>2. CASE f.type \in Gets
    BY <1>1, <1>6, <1>8, <2>1, <2>2, <1>4 DEF Asked, Gets, Puts
  <2>3. CASE f.type \in Puts
    <3>1. /\ f.init \in IF f.type = "PUTX" THEN {"M"} ELSE {"S", "E"}
          /\ now \in {"I", "S", f.init}
      BY <1>1, <2>1, <2>3 DEF Asked
    <3>2. e.type \in {"PUTS", "PUTX"} /\ f.type \in {"PUTS", "PUTX"}
      BY <1>8, <2>3 DEF Puts
    <3>3. CASE e.pc = "end"
      BY <1>6, <2>1, <2>3, <3>2, <3>3 DEF Asked
    <3>4. CASE e.pc = "lookup"
      BY <1>6, <2>1, <2>3, <3>1, <3>2, <3>4 DEF Asked
    <3> QED
      BY <1>6, <3>3, <3>4
  <2> QED
    BY <1>4, <2>2, <2>3 DEF Access
<1>15. /\ tccLock' \in [Inner -> Threads \cup {None}]
       /\ filterLock' \in [Leaves -> Threads \cup {None}]
       /\ UNCHANGED <<state, tags, dir, filter, fresh>>
       /\ ~ (e.pc = "inv" /\ e.c \in Leaves)
       /\ e \in Frame /\ Access(f) /\ f.pc \in {"tcc", "bcc", "ilock"}
  BY <1>1, <1>2, <1>4, <1>6 DEF TypeOK
<1> QED
  BY <1>1, <1>3, <1>9, <1>10, <1>11, <1>12, <1>13, <1>14, <1>15, LockStep

\* CC::startInv.
LEMMA startInvStep ==
    ASSUME MESIInv, NEW t \in Threads, startInv(t) PROVE MESIInv'
<1> DEFINE f == Top(t)
           e == [f EXCEPT !.pc = IF f.c \in Leaves THEN "iflock" ELSE "inv"]
           n == View.depth[t]
           up == View.calls[t][n - 1]
<1>1. /\ stack[t] # << >> /\ f.pc = "ilock"
      /\ bccLock[f.c] = None
      /\ bccLock' = [bccLock EXCEPT ![f.c] = t]
      /\ Become(t, e)
      /\ UNCHANGED <<state, tags, dir, tccLock, filterLock, filter, fresh>>
  BY DEF startInv, At, Goto
<1>2. /\ n \in Nat /\ n >= 1
      /\ View.calls[t][n] = f /\ f \in Frame
      /\ Sound(View) /\ Shaped(View, t, n) /\ Own(View, f, TRUE)
      /\ n > 1 => Linked(View, up, f)
      /\ StackType /\ TypeOK
  BY <1>1, Acting DEF MESIInv
<1>3. f = Top(t) /\ n = View.depth[t]
  OBVIOUS
<1>4. f.type \in Invs /\ ~ Access(f) /\ f.c \in Caches /\ n > 1
  BY <1>1, <1>2, FrameFields DEF Shaped, Access, Gets, Puts, Invs
<1>5. /\ e \in Frame
      /\ e.c = f.c /\ e.line = f.line /\ e.type = f.type /\ e.wb = f.wb
      /\ e.victim = f.victim
      /\ e.pc = IF f.c \in Leaves THEN "iflock" ELSE "inv"
  BY <1>2 DEF Frame
<1> HIDE DEF f, n, e
<1>6. /\ View'.depth[t] = n /\ View'.calls[t][n] = e
  BY <1>1, <1>2, <1>3, <1>5, AfterBecome
<1>7. bccLock' \in [Caches -> Threads \cup {None}] /\ bccLock'[f.c] = t
      /\ \A k \in Caches : k # f.c => bccLock'[k] = bccLock[k]
  BY <1>1, <1>2, <1>4 DEF TypeOK
<1>8. ~ Access(e) /\ e.type \notin Gets \cup Puts
  BY <1>4, <1>5 DEF Access
<1>9. Locking(View, View', t, n)
  <2>1. /\ View'.bcc = bccLock' /\ View'.tcc = View.tcc /\ View'.flt = View.flt
        /\ View.bcc = bccLock
    BY <1>1, ViewFields, ViewFieldsNext
  <2>2. ~ InAccess(View', t, n)
    BY <1>6, <1>8 DEF InAccess
  <2>3. \A d \in 1 .. View'.depth[t] : d >= n \/ d = View'.depth[t] => d = n
    BY <1>2, <1>6
  <2>4. ~ (e.pc = "inv" /\ e.c \in Leaves)
    BY <1>5
  <2> QED
    BY <1>1, <1>2, <1>4, <1>5, <1>6, <1>7, <2>1, <2>2, <2>3, <2>4 DEF Locking
<1>10. Shaped(View', t, n)
  BY <1>1, <1>2, <1>4, <1>5, <1>6, <1>8 DEF Shaped, Gets, Puts
<1>11. Own(View, e, TRUE)
  BY <1>1, <1>2, <1>4, <1>5, <1>8 DEF Own
<1>12. n > 1 => Linked(View, up, e)
  <2> HIDE DEF up
  <2> QED
    BY <1>2, <1>5, LinkedAlike
<1>13. /\ tccLock' \in [Inner -> Threads \cup {None}]
       /\ filterLock' \in [Leaves -> Threads \cup {None}]
       /\ UNCHANGED <<state, tags, dir, filter, fresh>>
       /\ ~ (e.pc = "inv" /\ e.c \in Leaves)
  BY <1>1, <1>2, <1>5 DEF TypeOK
<1> QED
  BY <1>1, <1>3, <1>5, <1>7, <1>8, <1>9, <1>10, <1>11, <1>12, <1>13, LockStep
\* A call sends an invalidation to a child and waits for it.
LEMMA CallDownStep ==
    ASSUME MESIInv, NEW t \in Threads, stack[t] # << >>, NEW f, f = Top(t),
           NEW e \in Frame, Invoke(t, f, e),
           f.pc \in {"evict", "top", "inv"}, f.c \in Inner,
           e.pc = "ilock", e.type \in Invs, ~ e.wb,
           Linked(View, f, e),
           UNCHANGED <<state, tags, dir, bccLock, tccLock, filterLock, filter, fresh>>
    PROVE  MESIInv'
<1> DEFINE n == View.depth[t]
           up == View.calls[t][n - 1]
<1>2. /\ n \in Nat /\ n >= 1 /\ n \in 1 .. View.depth[t]
      /\ View.calls[t][n] = f /\ f \in Frame
      /\ Sound(View) /\ Shaped(View, t, n) /\ Own(View, f, TRUE)
      /\ n > 1 => Linked(View, up, f)
      /\ n > 1 /\ Access(f) => Asked(View, f, up.c)
      /\ StackType /\ TypeOK
      /\ \A c \in Caches : IsFiniteSet(tags[c])
  BY Acting DEF MESIInv
<1>3. View.depth[t] = n
  OBVIOUS
<1> HIDE DEF n
<1>5. /\ StackType' /\ Below(View, View', t, n - 1)
      /\ View'.depth[t] = n + 1
      /\ View'.calls[t][n] = f /\ View'.calls[t][n + 1] = e
  BY <1>2, AfterInvoke DEF n
<1>6. TypeOK'
  BY <1>2, <1>5 DEF TypeOK, StackType
<1>7. Typed(View')
  <2>1. \A c \in Caches : IsFiniteSet(tags'[c])
    BY <1>2
  <2> QED
    BY <1>6, <2>1, TypedViewNext
<1>8. /\ View'.dir = View.dir /\ View'.filter = View.filter
      /\ View'.tags = View.tags /\ View'.state = View.state
      /\ View'.bcc = View.bcc /\ View'.tcc = View.tcc /\ View'.flt = View.flt
  BY ViewFields, ViewFieldsNext
<1>9. f.c \in Caches /\ f.c \notin Leaves /\ ~ Access(e) /\ e.type \notin Gets \cup Puts
  BY <1>2, FrameFields DEF Inner, Access, Gets, Puts, Invs
<1>10. Locking(View, View', t, n)
  <2>1. /\ HasBcc(View, t, n)
        /\ View.bcc[f.c] = t
        /\ InAccess(View, t, n) => View.tcc[f.c] = t
    BY <1>2 DEF HasBcc, Sound, Locked
  <2>2. InAccess(View', t, n) => InAccess(View, t, n)
    BY <1>2, <1>5 DEF InAccess
  <2>3. ~ HasBcc(View', t, n + 1) /\ ~ InAccess(View', t, n + 1)
    BY <1>5, <1>9 DEF HasBcc, InAccess
  <2>4. \A d \in 1 .. View'.depth[t] : d >= n \/ d = View'.depth[t] =>
            d = n \/ d = n + 1
    BY <1>2, <1>5
  <2>5. ~ (f.pc = "inv" /\ f.c \in Leaves) /\ e.pc # "inv" /\ n <= n
    BY <1>9, <1>2
  <2> QED
    BY <1>2, <1>5, <1>8, <1>9, <2>1, <2>2, <2>3, <2>4, <2>5 DEF Locking
<1>11. Shaped(View', t, n)
  BY <1>2, <1>5, <1>8 DEF Shaped
<1>12. Own(View', f, FALSE)
  BY <1>2, <1>8 DEF Own, Excl
<1>13. n > 1 => Linked(View', up, f)
  BY <1>2, <1>8 DEF Linked
<1>14. n > 1 /\ Access(f) => Asked(View', f, up.c)
  BY <1>2, <1>8 DEF Asked
<1>15. Shaped(View', t, n + 1)
  BY <1>2, <1>5, <1>9 DEF Shaped, Gets, Puts
<1>16. Own(View', e, TRUE)
  BY <1>9 DEF Own
<1>17. Linked(View', f, e)
  BY <1>8 DEF Linked
<1>18. Sound(View')
  <2>1. \A k \in Caches, l \in Lines :
           \/ View'.state[k][l] = View.state[k][l]
           \/ /\ k = View.calls[t][n].c /\ HasBcc(View, t, n) /\ InAccess(View, t, n)
              /\ Excl(View, k, l) /\ Excl(View', k, l)
    BY <1>8
  <2>2. /\ View'.calls[t][n].c = View.calls[t][n].c
        /\ View'.calls[t][n].type = View.calls[t][n].type
        /\ View'.calls[t][n].line = View.calls[t][n].line
        /\ View.calls[t][n].pc = "top" => View'.calls[t][n].pc = "top"
        /\ Access(View'.calls[t][n + 1]) => Access(View.calls[t][n])
        /\ ~ (View'.calls[t][n].pc = "inv" /\ View'.calls[t][n].c \in Leaves)
        /\ View'.calls[t][n + 1].pc \in {"tcc", "ilock"}
    BY <1>2, <1>5, <1>9
  <2>3. /\ Own(View', View'.calls[t][n], FALSE)
        /\ n > 1 => Linked(View', View.calls[t][n - 1], View'.calls[t][n])
        /\ n > 1 /\ Access(View'.calls[t][n]) =>
               Asked(View', View'.calls[t][n], View.calls[t][n - 1].c)
    BY <1>5, <1>12, <1>13, <1>14
  <2>4. /\ Own(View', View'.calls[t][n + 1], TRUE)
        /\ Linked(View', View'.calls[t][n], View'.calls[t][n + 1])
        /\ Access(View'.calls[t][n + 1]) =>
               Asked(View', View'.calls[t][n + 1], View'.calls[t][n].c)
    BY <1>5, <1>9, <1>16, <1>17
  <2>5. /\ View'.dir = View.dir /\ View'.filter = View.filter /\ View'.tags = View.tags
        /\ View.depth[t] = n /\ View'.depth[t] = n + 1
        /\ Below(View, View', t, n - 1) /\ Typed(View')
        /\ Sound(View) /\ Locking(View, View', t, n)
        /\ Shaped(View', t, n) /\ Shaped(View', t, n + 1)
        /\ n \in Nat /\ n >= 1 /\ t \in Threads
    BY <1>2, <1>3, <1>5, <1>7, <1>8, <1>10, <1>11, <1>15
  <2> HIDE DEF up
  <2>6. Calling(View, View', t, n)
    BY <2>1, <2>2, <2>3, <2>4, <2>5 DEF Calling
  <2> QED
    BY <2>5, <2>6, InvokeSound
<1> QED
  BY <1>6, <1>18 DEF MESIInv

\* The invalidation of line l that t sends to a child in S.
LEMMA Invalidation ==
    ASSUME NEW t, NEW type \in Invs, NEW l \in Lines, NEW S \in SUBSET Caches, S # {}
    PROVE  /\ invalidate(t, type, l, S) \in Frame
           /\ invalidate(t, type, l, S).c \in S
           /\ invalidate(t, type, l, S).type = type
           /\ invalidate(t, type, l, S).line = l
           /\ invalidate(t, type, l, S).pc = "ilock"
           /\ ~ invalidate(t, type, l, S).wb
<1>1. NextSharer(S) \in S
  BY DEF NextSharer
<1>2. "I" \in MESI
  BY DEF MESI
<1> QED
  BY <1>1, <1>2 DEF invalidate, Call, Frame

\* MESITopCC::processEviction visits the next child.
LEMMA evictChildStep ==
    ASSUME MESIInv, NEW t \in Threads, evictChild(t) PROVE MESIInv'
<1> DEFINE f == Top(t)
           S == Sharers(f.c, f.victim)
           e == invalidate(t, "INV", f.victim, S)
           n == View.depth[t]
<1>1. /\ stack[t] # << >> /\ f.pc = "evict" /\ S # {}
      /\ Invoke(t, f, e)
      /\ UNCHANGED <<state, tags, dir, bccLock, tccLock, filterLock, filter, fresh>>
  BY DEF evictChild, At
<1>2. /\ f \in Frame /\ Shaped(View, t, n) /\ View.calls[t][n] = f /\ TypeOK
      /\ Sound(View) /\ n \in Nat /\ n >= 1
  BY <1>1, Acting DEF MESIInv
<1>3. f.c \in Inner /\ S = dir[f.c][f.victim].sharers
  BY <1>1, <1>2, FrameFields DEF Sharers, Inner
<1>4. f.victim \in Lines
  BY <1>1, <1>2, FrameFields, ViewFields DEF Shaped, TypeOK
<1>5. S \in SUBSET Caches /\ "INV" \in Invs
  BY <1>2, <1>3, <1>4 DEF TypeOK, Invs
<1>6. f = Top(t)
  OBVIOUS
<1> HIDE DEF f, n, S
<1>7. /\ e \in Frame /\ e.c \in S /\ e.type = "INV" /\ e.line = f.victim
      /\ e.pc = "ilock" /\ ~ e.wb
  <2>1. S # {}
    BY <1>1
  <2> QED
    BY <1>4, <1>5, <2>1, Invalidation
<1> HIDE DEF e
<1>8. Linked(View, f, e)
  BY <1>1, <1>3, <1>5, <1>7, ViewFields DEF Linked
<1> QED
  BY <1>1, <1>3, <1>5, <1>6, <1>7, <1>8, CallDownStep

\* The exclusive sharer is downgraded for a GETS.
LEMMA topDowngradeStep ==
    ASSUME MESIInv, NEW t \in Threads, topDowngrade(t) PROVE MESIInv'
<1> DEFINE f == Top(t)
           S == dir[f.c][f.line].sharers
           e == invalidate(t, "INVX", f.line, S)
           n == View.depth[t]
<1>1. /\ stack[t] # << >> /\ f.pc = "top" /\ f.type = "GETS"
      /\ DirExclusive(f.c, f.line)
      /\ Invoke(t, f, e)
      /\ UNCHANGED <<state, tags, dir, bccLock, tccLock, filterLock, filter, fresh>>
  BY DEF topDowngrade, At
<1>2. /\ f \in Frame /\ Shaped(View, t, n) /\ View.calls[t][n] = f /\ TypeOK
      /\ Sound(View) /\ n \in Nat /\ n >= 1
  BY <1>1, Acting DEF MESIInv
<1>3. f.c \in Inner /\ f.line \in Lines
  BY <1>1, <1>2, FrameFields DEF Shaped
<1>4. S \in SUBSET Caches /\ "INVX" \in Invs
  BY <1>2, <1>3 DEF TypeOK, Invs
<1>5. View.dir[f.c][f.line].exclusive = TRUE /\ S # {} /\ View.dir = dir
  BY <1>1, <1>2, <1>3, ExclusiveEntry, ViewFields
<1>6. f = Top(t)
  OBVIOUS
<1> HIDE DEF f, n
<1>7. /\ e \in Frame /\ e.c \in S /\ e.type = "INVX" /\ e.line = f.line
      /\ e.pc = "ilock" /\ ~ e.wb
  <2> HIDE DEF S
  <2> QED
    BY <1>3, <1>4, <1>5, Invalidation
<1> HIDE DEF e
<1>8. Linked(View, f, e)
  BY <1>1, <1>3, <1>4, <1>5, <1>7 DEF Linked
<1> QED
  BY <1>1, <1>3, <1>4, <1>6, <1>7, <1>8, CallDownStep

\* MESITopCC::processInval hands an invalidation on.
LEMMA invChildStep ==
    ASSUME MESIInv, NEW t \in Threads, invChild(t) PROVE MESIInv'
<1> DEFINE f == Top(t)
           S == Pending(f)
           e == invalidate(t, f.type, f.line, S)
           n == View.depth[t]
<1>1. /\ stack[t] # << >> /\ f.pc = "inv" /\ S # {}
      /\ Invoke(t, f, e)
      /\ UNCHANGED <<state, tags, dir, bccLock, tccLock, filterLock, filter, fresh>>
  BY DEF invChild, At
<1>2. /\ f \in Frame /\ Shaped(View, t, n) /\ View.calls[t][n] = f /\ TypeOK
      /\ Sound(View) /\ n \in Nat /\ n >= 1
  BY <1>1, Acting DEF MESIInv
<1>3. /\ f.c \in Inner /\ S = dir[f.c][f.line].sharers
      /\ f.type = "INVX" => DirExclusive(f.c, f.line)
      /\ f.line \in Lines
  BY <1>1, <1>2, FrameFields DEF Pending, Inner
<1>4. f.type \in Invs
  BY <1>1, <1>2, FrameFields DEF Shaped, Gets, Puts, Invs
<1>5. S \in SUBSET Caches
  BY <1>2, <1>3 DEF TypeOK
<1>6. f.type = "INVX" => View.dir[f.c][f.line].exclusive = TRUE
  BY <1>2, <1>3, ExclusiveEntry
<1>7. f = Top(t) /\ View.dir = dir
  BY ViewFields
<1> HIDE DEF f, n, S
<1>8. /\ e \in Frame /\ e.c \in S /\ e.type = f.type /\ e.line = f.line
      /\ e.pc = "ilock" /\ ~ e.wb
  <2>1. S # {}
    BY <1>1
  <2> QED
    BY <1>3, <1>4, <1>5, <2>1, Invalidation
<1> HIDE DEF e
<1>9. Linked(View, f, e)
  BY <1>1, <1>3, <1>4, <1>6, <1>7, <1>8 DEF Linked
<1> QED
  BY <1>1, <1>3, <1>4, <1>7, <1>8, <1>9, CallDownStep
\* Call f asks the parent with call e and gives up its own lock for the time
\* of that call, in which it waits as a.
Asking(t, f, a, e) ==
    /\ Invoke(t, a, e)
    /\ f.pc \in {"evict", "acc"} /\ f.type \in Gets
    /\ a.pc = IF f.pc = "acc" THEN "accret" ELSE "evput"
    /\ a.c = f.c /\ a.type = f.type /\ a.line = f.line /\ a.init = f.init
    /\ a.victim = f.victim /\ (f.pc = "acc" => ~ a.wb)
    /\ e.pc = "tcc" /\ e.type \in Gets \cup Puts /\ ~ e.wb /\ e.c \in Inner
    /\ f.pc = "evict" /\ f.c \in Inner => dir[f.c][f.victim].sharers = {}
    /\ bccLock' = [bccLock EXCEPT ![f.c] = None]
    /\ state' \in [Caches -> [Lines -> MESI]]
    /\ \A k \in Caches, l \in Lines :
           \/ state'[k][l] = state[k][l]
           \/ k = f.c /\ state[k][l] \in {"E", "M"} /\ state'[k][l] \in {"E", "M"}
    /\ Linked(View, a, e) /\ Asked(View', e, f.c)
    /\ UNCHANGED <<tags, dir, tccLock, filterLock, filter, fresh>>

\* Such a step keeps the invariant.
LEMMA CallUpStep ==
    ASSUME MESIInv, NEW t \in Threads, stack[t] # << >>, NEW f, f = Top(t),
           NEW a \in Frame, NEW e \in Frame, Asking(t, f, a, e)
    PROVE  MESIInv'
<1> USE DEF Asking
<1> DEFINE n == View.depth[t]
           up == View.calls[t][n - 1]
<1>2. /\ n \in Nat /\ n >= 1 /\ n \in 1 .. View.depth[t]
      /\ View.calls[t][n] = f /\ f \in Frame
      /\ Sound(View) /\ Shaped(View, t, n) /\ Own(View, f, TRUE)
      /\ n > 1 => Linked(View, up, f) /\ n \in 2 .. View.depth[t]
      /\ n > 1 /\ Access(f) => Asked(View, f, up.c)
      /\ StackType /\ TypeOK
      /\ \A c \in Caches : IsFiniteSet(tags[c])
  BY Acting DEF MESIInv
<1>3. View.depth[t] = n
  OBVIOUS
<1> HIDE DEF n
<1>5. /\ StackType' /\ Below(View, View', t, n - 1)
      /\ View'.depth[t] = n + 1
      /\ View'.calls[t][n] = a /\ View'.calls[t][n + 1] = e
  BY <1>2, AfterInvoke DEF n
<1>9. /\ f.c \in Caches /\ Access(e) /\ Access(f) /\ Access(a) /\ e.c \notin Leaves
      /\ e.type \notin Invs /\ a.type \notin Invs /\ a.type \notin Puts
      /\ f.line \in Lines
  BY <1>2, FrameFields DEF Inner, Access, Gets, Puts, Invs
<1>4. bccLock' \in [Caches -> Threads \cup {None}] /\ bccLock'[f.c] = None
      /\ \A k \in Caches : k # f.c => bccLock'[k] = bccLock[k]
  BY <1>2, <1>9 DEF TypeOK
<1>6. TypeOK'
  BY <1>2, <1>4, <1>5 DEF TypeOK, StackType
<1>7. Typed(View')
  <2>1. \A c \in Caches : IsFiniteSet(tags'[c])
    BY <1>2
  <2> QED
    BY <1>6, <2>1, TypedViewNext
<1>8. /\ View'.dir = View.dir /\ View'.filter = View.filter
      /\ View'.tags = View.tags /\ View.state = state /\ View'.state = state'
      /\ View'.bcc = bccLock' /\ View.bcc = bccLock
      /\ View'.tcc = View.tcc /\ View'.flt = View.flt
      /\ View.dir = dir
  BY ViewFields, ViewFieldsNext
<1>10. HasBcc(View, t, n) /\ InAccess(View, t, n)
  BY <1>2, <1>9 DEF HasBcc, InAccess
<1>11. Locking(View, View', t, n)
  <2>1. f.c \in Inner => View.tcc[f.c] = t
    BY <1>2, <1>10 DEF Sound, Locked
  <2>2. ~ HasBcc(View', t, n)
    BY <1>2, <1>5 DEF HasBcc
  <2>3. ~ HasBcc(View', t, n + 1) /\ ~ InAccess(View', t, n + 1)
    BY <1>5, <1>9 DEF HasBcc, InAccess
  <2>4. \A d \in 1 .. View'.depth[t] : d >= n \/ d = View'.depth[t] =>
            d = n \/ d = n + 1
    BY <1>2, <1>5
  <2>5. a.pc # "inv" /\ e.pc # "inv" /\ n <= n
    BY <1>2
  <2> QED
    BY <1>2, <1>4, <1>5, <1>8, <1>9, <1>10, <2>1, <2>2, <2>3, <2>4, <2>5 DEF Locking
<1>12. Shaped(View', t, n)
  BY <1>2, <1>5, <1>8, <1>9 DEF Shaped
<1>13. Own(View', a, FALSE)
  BY <1>2, <1>8, <1>9 DEF Own
<1>14. n > 1 => Linked(View', up, a)
  <2>1. n > 1 => Linked(View', up, f)
    BY <1>2, <1>8 DEF Linked
  <2> HIDE DEF up
  <2> QED
    BY <2>1, LinkedAlike
<1>15. n > 1 => Asked(View', a, up.c)
  <2> SUFFICES ASSUME n > 1 PROVE Asked(View', a, up.c)
    OBVIOUS
  <2>1. Parent[up.c][f.line] = f.c /\ f.c \in Inner /\ up \in Frame
    BY <1>2, <1>3, <1>9, AccessSentBy
  <2>2. up.c # f.c /\ up.c \in Caches
    BY <1>9, <2>1, ParentOf, FrameFields
  <2>3. View'.state[up.c][f.line] = View.state[up.c][f.line]
    BY <1>8, <1>9, <2>2
  <2>4. a.pc # "end" /\ f.pc # "end"
    OBVIOUS
  <2> QED
    BY <1>2, <1>9, <2>3, <2>4 DEF Asked
<1>16. Shaped(View', t, n + 1)
  BY <1>2, <1>5, <1>9 DEF Shaped
<1>17. Own(View', e, TRUE)
  BY <1>9 DEF Own
<1>18. Linked(View', a, e)
  BY <1>8 DEF Linked
<1>19. Sound(View')
  <2>1. \A k \in Caches, l \in Lines :
           \/ View'.state[k][l] = View.state[k][l]
           \/ /\ k = View.calls[t][n].c /\ HasBcc(View, t, n) /\ InAccess(View, t, n)
              /\ Excl(View, k, l) /\ Excl(View', k, l)
    BY <1>2, <1>8, <1>10 DEF Excl
  <2>2. /\ View'.calls[t][n].c = View.calls[t][n].c
        /\ View'.calls[t][n].type = View.calls[t][n].type
        /\ View'.calls[t][n].line = View.calls[t][n].line
        /\ View.calls[t][n].pc = "top" => View'.calls[t][n].pc = "top"
        /\ Access(View'.calls[t][n + 1]) => Access(View.calls[t][n])
        /\ ~ (View'.calls[t][n].pc = "inv" /\ View'.calls[t][n].c \in Leaves)
        /\ View'.calls[t][n + 1].pc \in {"tcc", "ilock"}
    BY <1>2, <1>5, <1>9
  <2>3. /\ Own(View', View'.calls[t][n], FALSE)
        /\ n > 1 => Linked(View', View.calls[t][n - 1], View'.calls[t][n])
        /\ n > 1 /\ Access(View'.calls[t][n]) =>
               Asked(View', View'.calls[t][n], View.calls[t][n - 1].c)
    BY <1>5, <1>13, <1>14, <1>15
  <2>4. /\ Own(View', View'.calls[t][n + 1], TRUE)
        /\ Linked(View', View'.calls[t][n], View'.calls[t][n + 1])
        /\ Access(View'.calls[t][n + 1]) =>
               Asked(View', View'.calls[t][n + 1], View'.calls[t][n].c)
    BY <1>5, <1>9, <1>17, <1>18
  <2>5. /\ View'.dir = View.dir /\ View'.filter = View.filter /\ View'.tags = View.tags
        /\ View.depth[t] = n /\ View'.depth[t] = n + 1
        /\ Below(View, View', t, n - 1) /\ Typed(View')
        /\ Sound(View) /\ Locking(View, View', t, n)
        /\ Shaped(View', t, n) /\ Shaped(View', t, n + 1)
        /\ n \in Nat /\ n >= 1 /\ t \in Threads
    BY <1>2, <1>3, <1>5, <1>7, <1>8, <1>11, <1>12, <1>16
  <2> HIDE DEF up
  <2>6. Calling(View, View', t, n)
    BY <2>1, <2>2, <2>3, <2>4, <2>5 DEF Calling
  <2> QED
    BY <2>5, <2>6, InvokeSound
<1> QED
  BY <1>6, <1>19 DEF MESIInv

\* MESIBottomCC::processEviction writes the victim back to the parent cache.
LEMMA evictToParentStep ==
    ASSUME MESIInv, NEW t \in Threads, evictToParent(t) PROVE MESIInv'
<1> DEFINE f == Top(t)
           s == EvictedState(f)
           p == Parent[f.c][f.victim]
           a == [f EXCEPT !.pc = "evput"]
           e == Call(p, IF s = "M" THEN "PUTX" ELSE "PUTS", f.victim, s, "tcc")
           n == View.depth[t]
<1>1. /\ stack[t] # << >> /\ f.pc = "evict"
      /\ Sharers(f.c, f.victim) = {} /\ s # "I" /\ p # Mem
      /\ state' = [state EXCEPT ![f.c][f.victim] = s]
      /\ bccLock' = [bccLock EXCEPT ![f.c] = None]
      /\ Invoke(t, a, e)
      /\ UNCHANGED <<tags, dir, tccLock, filterLock, filter, fresh>>
  BY DEF evictToParent, At
<1>2. /\ f \in Frame /\ Shaped(View, t, n) /\ View.calls[t][n] = f /\ TypeOK
      /\ Own(View, f, TRUE) /\ View.state = state
  BY <1>1, Acting, ViewFields DEF MESIInv
<1>3. f.c \in Caches /\ f.victim \in Lines /\ f.line \in Lines /\ f.type \in Gets
  BY <1>1, <1>2, FrameFields, ViewFields DEF Shaped, TypeOK, Gets, Puts, Invs
<1>4. /\ p \in Inner /\ p \in Caches
      /\ f.c \in Inner => dir[f.c][f.victim].sharers = {}
  BY <1>1, <1>3, ParentOf DEF Sharers, Inner
<1>5. /\ s = IF f.wb THEN "M" ELSE state[f.c][f.victim]
      /\ f.wb => state[f.c][f.victim] \in {"E", "M"}
      /\ state[f.c][f.victim] \in MESI
      /\ s \in {"S", "E", "M"}
  BY <1>1, <1>2, <1>3 DEF EvictedState, Own, Excl, TypeOK, MESI
<1>6. p = Parent[f.c][f.victim] /\ f = Top(t)
  OBVIOUS
<1> HIDE DEF f, s, p, n
<1>7. /\ a \in Frame /\ a.pc = "evput" /\ a.c = f.c /\ a.type = f.type
      /\ a.line = f.line /\ a.init = f.init /\ a.victim = f.victim
  BY <1>2 DEF Frame
<1>8. /\ e \in Frame /\ e.pc = "tcc" /\ e.c = p /\ e.line = f.victim
      /\ e.type = (IF s = "M" THEN "PUTX" ELSE "PUTS") /\ e.init = s /\ ~ e.wb
      /\ e.type \in Puts
  <2> DEFINE type == IF s = "M" THEN "PUTX" ELSE "PUTS"
  <2>1. type \in Puts /\ type \in Gets \cup Puts \cup Invs /\ s \in MESI
        /\ "tcc" \in {"tcc", "bcc", "lookup", "evict", "evput", "acc",
                      "accret", "top", "end", "ilock", "iflock", "inv"}
    BY <1>5 DEF Puts, MESI
  <2>2. e = [c |-> p, type |-> type, line |-> f.victim, init |-> s, pc |-> "tcc",
             victim |-> None, wb |-> FALSE]
    BY DEF Call
  <2> HIDE DEF type, e
  <2>3. /\ e.pc = "tcc" /\ e.c = p /\ e.line = f.victim
        /\ e.type = type /\ e.init = s /\ ~ e.wb
    BY <2>2
  <2>4. e \in Frame
    BY <1>3, <1>4, <2>1, <2>2 DEF Frame
  <2> QED
    BY <2>1, <2>3, <2>4 DEF type
<1> HIDE DEF a, e
<1>9. /\ state' \in [Caches -> [Lines -> MESI]]
      /\ state'[f.c][f.victim] = s
      /\ \A k \in Caches, l \in Lines :
             k # f.c \/ l # f.victim => state'[k][l] = state[k][l]
  <2>1. s \in MESI
    BY <1>5 DEF MESI
  <2> QED
    BY <1>1, <1>2, <1>3, <2>1 DEF TypeOK
<1>10. \A k \in Caches, l \in Lines :
           \/ state'[k][l] = state[k][l]
           \/ k = f.c /\ state[k][l] \in {"E", "M"} /\ state'[k][l] \in {"E", "M"}
  BY <1>5, <1>9
<1>11. Linked(View, a, e)
  BY <1>6, <1>7, <1>8 DEF Linked
<1>12. Asked(View', e, f.c)
  <2>1. View'.state = state'
    BY ViewFieldsNext
  <2>2. e.type \notin Gets
    BY <1>8 DEF Gets, Puts
  <2>3. e.type # "GETS" /\ e.type # "GETX"
    BY <2>2 DEF Gets
  <2>4. View'.state[f.c][e.line] = s
    BY <1>8, <1>9, <2>1
  <2> QED
    BY <1>5, <1>8, <2>3, <2>4 DEF Asked
<1>13. /\ f.pc \in {"evict", "acc"} /\ a.pc = IF f.pc = "acc" THEN "accret" ELSE "evput"
       /\ f.pc = "acc" => ~ a.wb
       /\ e.type \in Gets \cup Puts /\ e.c \in Inner
       /\ f.pc = "evict" /\ f.c \in Inner => dir[f.c][f.victim].sharers = {}
  BY <1>1, <1>4, <1>7, <1>8
<1>14. /\ stack[t] # << >> /\ f = Top(t) /\ Invoke(t, a, e)
       /\ a \in Frame /\ e \in Frame
       /\ e.pc = "tcc" /\ ~ e.wb /\ f.type \in Gets
       /\ bccLock' = [bccLock EXCEPT ![f.c] = None]
       /\ state' \in [Caches -> [Lines -> MESI]]
       /\ UNCHANGED <<tags, dir, tccLock, filterLock, filter, fresh>>
  BY <1>1, <1>3, <1>6, <1>7, <1>8, <1>9
<1>15. Asking(t, f, a, e)
  BY <1>7, <1>10, <1>11, <1>12, <1>13, <1>14 DEF Asking
<1> QED
  BY <1>14, <1>15, CallUpStep

\* The request goes up.
LEMMA accessParentStep ==
    ASSUME MESIInv, NEW t \in Threads, accessParent(t) PROVE MESIInv'
<1> DEFINE f == Top(t)
           p == Parent[f.c][f.line]
           here == state[f.c][f.line]
           a == [f EXCEPT !.pc = "accret"]
           e == Call(p, f.type, f.line, here, "tcc")
           n == View.depth[t]
<1>1. /\ stack[t] # << >> /\ f.pc = "acc"
      /\ NeedsParent(f) /\ p # Mem
      /\ bccLock' = [bccLock EXCEPT ![f.c] = None]
      /\ Invoke(t, a, e)
      /\ UNCHANGED <<state, tags, dir, tccLock, filterLock, filter, fresh>>
  BY DEF accessParent, At
<1>2. /\ f \in Frame /\ Shaped(View, t, n) /\ View.calls[t][n] = f /\ TypeOK
      /\ Own(View, f, TRUE) /\ View.state = state
  BY <1>1, Acting, ViewFields DEF MESIInv
<1>3. /\ f.c \in Caches /\ f.line \in Lines
      /\ \/ f.type = "GETS" /\ here = "I"
         \/ f.type = "GETX" /\ here \in {"I", "S"}
      /\ here \in MESI /\ f.type \in Gets
  BY <1>1, <1>2, FrameFields DEF NeedsParent, TypeOK, Gets
<1>4. p \in Inner /\ p \in Caches
  BY <1>1, <1>3, ParentOf
<1>5. ~ f.wb
  BY <1>1, <1>2 DEF Own
<1>6. p = Parent[f.c][f.line] /\ f = Top(t) /\ here = state[f.c][f.line]
  OBVIOUS
<1> HIDE DEF f, p, n, here
<1>7. /\ a \in Frame /\ a.pc = "accret" /\ a.c = f.c /\ a.type = f.type
      /\ a.line = f.line /\ a.init = f.init /\ a.victim = f.victim
      /\ a.wb = f.wb
  BY <1>2 DEF Frame
<1>8. /\ e \in Frame /\ e.pc = "tcc" /\ e.c = p /\ e.line = f.line
      /\ e.type = f.type /\ e.init = here /\ ~ e.wb
  BY <1>3, <1>4 DEF Call, Frame
<1> HIDE DEF a, e
<1>9. state' \in [Caches -> [Lines -> MESI]]
  BY <1>1, <1>2 DEF TypeOK
<1>10. \A k \in Caches, l \in Lines :
           \/ state'[k][l] = state[k][l]
           \/ k = f.c /\ state[k][l] \in {"E", "M"} /\ state'[k][l] \in {"E", "M"}
  BY <1>1
<1>11. Linked(View, a, e)
  BY <1>3, <1>6, <1>7, <1>8 DEF Linked
<1>12. Asked(View', e, f.c)
  <2>1. View'.state = state
    BY <1>1, ViewFieldsNext
  <2>2. e.type \notin Puts
    BY <1>3, <1>8 DEF Gets, Puts
  <2>4. View'.state[f.c][e.line] = here
    BY <1>6, <1>8, <2>1
  <2> QED
    BY <1>3, <1>8, <2>2, <2>4 DEF Asked
<1>13. /\ f.pc \in {"evict", "acc"} /\ a.pc = IF f.pc = "acc" THEN "accret" ELSE "evput"
       /\ f.pc = "acc" => ~ a.wb
       /\ e.type \in Gets \cup Puts /\ e.c \in Inner
       /\ f.pc = "evict" /\ f.c \in Inner => dir[f.c][f.victim].sharers = {}
  BY <1>1, <1>3, <1>4, <1>5, <1>7, <1>8
<1>14. Asking(t, f, a, e)
  BY <1>1, <1>3, <1>7, <1>8, <1>9, <1>10, <1>11, <1>12, <1>13 DEF Asking
<1> QED
  BY <1>1, <1>6, <1>7, <1>8, <1>14, CallUpStep
\* Access f of t, in the cache that ch asked, hands its line over to ch or
\* takes it back from ch.
Handing(h, g, t, n) ==
    LET f == h.calls[t][n]
        e == g.calls[t][n]
        ch == h.calls[t][n - 1].c
        x == f.line
    IN
    /\ n >= 2 /\ h.depth[t] = n /\ g.depth[t] = n
    /\ Below(h, g, t, n - 1)
    /\ Access(f) /\ f.pc = "top"
    /\ e.c = f.c /\ e.type = f.type /\ e.line = x /\ e.pc = "end"
    /\ g.tags = h.tags /\ g.filter = h.filter
    /\ g.bcc = h.bcc /\ g.tcc = h.tcc /\ g.flt = h.flt
    /\ \A k \in Caches, l \in Lines :
          \/ g.state[k][l] = h.state[k][l]
          \/ k = ch /\ l = x
          \/ k = f.c /\ l = x /\ Excl(h, k, l) /\ Excl(g, k, l)
    /\ \A p \in Inner, l \in Lines :
          g.dir[p][l] = h.dir[p][l] \/ (p = f.c /\ l = x)
    /\ Entry(g, f.c, x)
    /\ Asked(g, e, ch)
    /\ g.state[ch][x] # "I" => g.state[f.c][x] # "I"
    /\ Excl(g, ch, x) => Excl(g, f.c, x)
    /\ \A c \in Caches : Parent[c][x] = ch /\ h.state[c][x] # "I" => Excl(g, ch, x)

\* Such a step keeps the invariant.
LEMMA HandingSound ==
    ASSUME NEW h, NEW g, NEW t \in Threads, NEW n \in Nat,
           Sound(h), Typed(g), Handing(h, g, t, n)
    PROVE  Sound(g)
<1> DEFINE f == h.calls[t][n]
           e == g.calls[t][n]
           up == h.calls[t][n - 1]
           ch == up.c
           x == f.line
<1>1. /\ n >= 2 /\ n >= 1 /\ h.depth[t] = n /\ g.depth[t] = n
      /\ Below(h, g, t, n - 1)
      /\ Access(f) /\ f.pc = "top"
      /\ e.c = f.c /\ e.type = f.type /\ e.line = x /\ e.pc = "end"
      /\ g.tags = h.tags /\ g.filter = h.filter
      /\ g.bcc = h.bcc /\ g.tcc = h.tcc /\ g.flt = h.flt
  <2>1. n >= 2
    BY DEF Handing
  <2>2. n >= 1
    BY <2>1
  <2>3. /\ h.depth[t] = n /\ g.depth[t] = n /\ Below(h, g, t, n - 1)
        /\ Access(f) /\ f.pc = "top"
    BY DEF Handing
  <2>4. /\ e.c = f.c /\ e.type = f.type /\ e.line = x /\ e.pc = "end"
        /\ g.tags = h.tags /\ g.filter = h.filter
        /\ g.bcc = h.bcc /\ g.tcc = h.tcc /\ g.flt = h.flt
    BY DEF Handing
  <2> QED
    BY <2>1, <2>2, <2>3, <2>4
<1>2. \A k \in Caches, l \in Lines :
          \/ g.state[k][l] = h.state[k][l]
          \/ k = ch /\ l = x
          \/ k = f.c /\ l = x /\ Excl(h, k, l) /\ Excl(g, k, l)
  BY DEF Handing
<1>3. \A p \in Inner, l \in Lines :
          g.dir[p][l] = h.dir[p][l] \/ (p = f.c /\ l = x)
  BY DEF Handing
<1>4. Entry(g, f.c, x) /\ Asked(g, e, ch)
  BY DEF Handing
<1>5. /\ g.state[ch][x] # "I" => g.state[f.c][x] # "I"
      /\ Excl(g, ch, x) => Excl(g, f.c, x)
  BY DEF Handing
<1>6. \A c \in Caches : Parent[c][x] = ch /\ h.state[c][x] # "I" => Excl(g, ch, x)
  BY DEF Handing
<1>7. /\ n \in 2 .. h.depth[t] /\ n \in 1 .. h.depth[t] /\ n - 1 \in 1 .. h.depth[t]
      /\ n \in 1 .. g.depth[t] /\ n - 1 \in 1 .. n - 1 /\ n - 1 \in Nat
  BY <1>1
<1>8. /\ f \in Frame /\ up \in Frame /\ Parent[ch][x] = f.c /\ f.c \in Inner
      /\ up.pc \in {"accret", "evput"} /\ up.type \in Gets
      /\ CallSound(h, t, n) /\ CallSound(h, t, n - 1) /\ Typed(h) /\ Included(h)
      /\ Directory(h)
  BY <1>1, <1>7, AccessSentBy DEF Sound, CallsSound
<1>9. /\ f.c \in Caches /\ f.c \notin Leaves /\ ch \in Caches /\ x \in Lines /\ ch # f.c
      /\ f.type \notin Invs
      /\ HasBcc(h, t, n) /\ InAccess(h, t, n) /\ Access(e)
  BY <1>1, <1>8, FrameFields, ParentOf DEF HasBcc, InAccess, Inner, Access, Gets, Puts, Invs
<1>10. g.calls[t][n - 1] = up
  BY <1>1, <1>7 DEF Below
<1>11. CallSound(g, t, n)
  <2>1. Shaped(h, t, n) /\ Own(h, f, TRUE) /\ Linked(h, up, f)
    <3>1. Shaped(h, t, n) /\ Own(h, f, TRUE)
      BY <1>1, Inmost
    <3>2. Linked(h, up, f)
      BY <1>1, <1>8 DEF CallSound
    <3> QED
      BY <3>1, <3>2
  <2>2. Shaped(g, t, n)
    BY <1>1, <1>9, <2>1 DEF Shaped, Access
  <2>3. Own(g, e, n = g.depth[t])
    BY <1>1, <1>9, <2>1 DEF Own
  <2>4. Linked(g, up, e)
    <3>1. Linked(g, up, f)
      BY <1>9, <2>1 DEF Linked
    <3> HIDE DEF f, e, up
    <3> QED
      BY <1>1, <3>1, LinkedAlike DEF x
  <2> QED
    BY <1>4, <1>10, <2>2, <2>3, <2>4 DEF CallSound
<1>12. Step(h, g, t, n - 1)
  <2>1. Alike(h, g, t, n - 1)
    BY <1>1, BelowAlike
  <2>2. Reach(h, g, t, n)
    BY <1>1, <1>2, <1>3, <1>9 DEF Reach
  <2>3. Locking(h, g, t, n)
    <3>1. /\ HasBcc(g, t, n) => HasBcc(h, t, n)
          /\ InAccess(g, t, n) => InAccess(h, t, n)
          /\ ~ (e.pc = "inv" /\ e.c \in Leaves)
      BY <1>1, <1>9
    <3> QED
      BY <1>1, <3>1, SameLocks
  <2>4. \A d \in 1 .. g.depth[t] : d > n - 1 \/ d = g.depth[t] => d = n
    BY <1>1
  <2>5. \A d \in n .. g.depth[t] : d = n
    BY <1>1
  <2>6. \A d \in 1 .. g.depth[t] : d > n - 1 \/ d = g.depth[t] => CallSound(g, t, d)
    BY <1>11, <2>4
  <2>7. \A d \in n .. g.depth[t] :
            Access(g.calls[t][d]) => Access(h.calls[t][n]) /\ Access(g.calls[t][n])
    BY <1>1, <1>9
  <2>8. n - 1 < n /\ g.depth[t] \in {n - 1, n, n + 1}
    BY <1>1
  <2> QED
    BY <1>1, <2>1, <2>2, <2>3, <2>6, <2>7, <2>8 DEF Step
<1>13. Locked(g) /\ Alone(g) /\ UpThenDown(g) /\ CallsSound(g)
  BY <1>7, <1>12, StepCalls
<1>14. Filtered(g)
  <2>1. \A d \in h.depth[t] .. g.depth[t] :
            ~ (g.calls[t][d].pc = "inv" /\ g.calls[t][d].c \in Leaves)
    <3>1. \A d \in h.depth[t] .. g.depth[t] : d = n
      BY <1>1
    <3> QED
      BY <1>1, <3>1
  <2> QED
    BY <1>1, <1>7, <1>12, <2>1, FilteredKept
<1>15. Directory(g)
  <2> SUFFICES ASSUME NEW p \in Inner, NEW l \in Lines, ~ (p = f.c /\ l = x)
               PROVE  Entry(g, p, l)
    BY <1>4 DEF Directory
  <2>1. \A k \in Caches : Parent[k][l] = p =>
            \/ g.state[k][l] = h.state[k][l]
            \/ Excl(h, k, l) /\ Excl(g, k, l)
    BY <1>2, <1>8
  <2>2. \A k \in Caches : Upgrading(h, p, l, k) => Upgrading(g, p, l, k)
    <3> SUFFICES ASSUME NEW k \in Caches, Upgrading(h, p, l, k)
                 PROVE  Upgrading(g, p, l, k)
      OBVIOUS
    <3>1. /\ p # h.calls[t][h.depth[t]].c \/ l # h.calls[t][h.depth[t]].line
          /\ Alike(h, g, t, h.depth[t] - 1) /\ g.depth[t] >= h.depth[t] - 1
      BY <1>1, BelowAlike
    <3> QED
      BY <1>8, <3>1, UpgradingKept
  <2>3. Entry(h, p, l) /\ g.dir[p][l] = h.dir[p][l] /\ h.dir[p][l].sharers \subseteq Caches
    BY <1>3, <1>8 DEF Directory, Typed
  <2> QED
    BY <2>1, <2>2, <2>3, EntryKept
<1>16. Included(g)
  <2> SUFFICES ASSUME NEW c \in Caches, NEW l \in Lines PROVE Within(g, c, l)
    BY DEF Included
  <2>1. Within(h, c, l)
    BY <1>8 DEF Included
  <2>2. CASE c = ch /\ l = x
    <3>1. ASSUME g.state[ch][x] # "I" PROVE x \in g.tags[ch]
      <4>1. f.type \in Gets
        BY <1>1, <1>4, <3>1 DEF Asked, Access
      <4>2. Linked(h, up, f) /\ Own(h, up, n - 1 = h.depth[t])
        BY <1>1, <1>8 DEF CallSound
      <4>3. up.pc = "accret" /\ x = up.line
        BY <4>1, <4>2 DEF Linked, Gets, Puts, Invs
      <4> QED
        BY <1>1, <1>8, <4>2, <4>3 DEF Own
    <3> QED
      BY <1>5, <1>8, <2>2, <3>1 DEF Within
  <2>3. CASE Parent[c][l] = ch /\ l = x /\ c # ch
    <3>1. g.state[c][l] # "I" => h.state[c][l] # "I"
      BY <1>2, <2>3 DEF Excl
    <3>2. g.state[c][l] # "I" => Excl(g, ch, x) /\ l \in g.tags[c]
      BY <1>1, <1>6, <2>1, <2>3, <3>1 DEF Within
    <3> QED
      BY <2>3, <3>2 DEF Within, Excl
  <2>4. CASE ~ (c = ch /\ l = x) /\ ~ (Parent[c][l] = ch /\ l = x)
    <3>1. \/ g.state[c][l] = h.state[c][l]
          \/ Excl(h, c, l) /\ Excl(g, c, l)
          \/ g.state[c][l] = "I"
      BY <1>2, <2>4
    <3>2. LET p == Parent[c][l] IN
          p # Mem => \/ g.state[p][l] = h.state[p][l]
                     \/ Excl(h, p, l) /\ Excl(g, p, l)
      BY <1>2, <2>4, ParentOf
    <3>3. l \in h.tags[c] => l \in g.tags[c] \/ g.state[c][l] = "I"
      BY <1>1
    <3> QED
      BY <2>1, <3>1, <3>2, <3>3, WithinKept
  <2> QED
    BY <2>2, <2>3, <2>4
<1> QED
  BY <1>13, <1>14, <1>15, <1>16 DEF Sound
\* A PUT or a GET of which the directory has done its part ends.
Handed(t, f, e) ==
    /\ stack[t] # << >> /\ f = Top(t) /\ f.pc = "top" /\ Access(f)
    /\ e = [f EXCEPT !.pc = "end"] /\ Become(t, e)
    /\ UNCHANGED <<tags, bccLock, tccLock, filterLock, filter>>
    /\ state' \in [Caches -> [Lines -> MESI]]
    /\ dir' \in [Inner -> [Lines -> [sharers : SUBSET Caches, exclusive : BOOLEAN]]]
    /\ fresh' \in [Lines -> SUBSET (Caches \cup {Mem})]
    /\ \A k \in Caches, l \in Lines :
          \/ state'[k][l] = state[k][l]
          \/ k = Caller(t).c /\ l = f.line
          \/ /\ k = f.c /\ l = f.line
             /\ state[k][l] \in {"E", "M"} /\ state'[k][l] \in {"E", "M"}
    /\ \A p \in Inner, l \in Lines :
          dir'[p][l] = dir[p][l] \/ (p = f.c /\ l = f.line)

\* What is known where such a step is taken.
LEMMA HandingOver ==
    ASSUME MESIInv, NEW t \in Threads, stack[t] # << >>, Top(t).pc = "top"
    PROVE  LET f == Top(t)
               n == View.depth[t]
               up == View.calls[t][n - 1]
           IN
           /\ n \in Nat /\ n \in 1 .. View.depth[t] /\ n \in 2 .. View.depth[t]
           /\ n - 1 \in 1 .. View.depth[t]
           /\ View.calls[t][n] = f /\ f \in Frame /\ up \in Frame
           /\ Sound(View) /\ TypeOK /\ Caller(t) = up
           /\ HasBcc(View, t, n) /\ InAccess(View, t, n) /\ InAccess(View, t, n - 1)
           /\ f.c \in Inner /\ f.c \in Caches /\ f.line \in Lines
           /\ f.type \in Gets \cup Puts /\ Access(f)
           /\ up.c \in Caches /\ up.c # f.c /\ Parent[up.c][f.line] = f.c
           /\ Own(View, f, TRUE) /\ Asked(View, f, up.c) /\ Linked(View, up, f)
           /\ CallSound(View, t, n - 1)
           /\ Entry(View, f.c, f.line) /\ Included(View)
<1> DEFINE f == Top(t)
           n == View.depth[t]
           up == View.calls[t][n - 1]
<1>1. /\ n \in Nat /\ n >= 1 /\ n \in 1 .. View.depth[t]
      /\ View.calls[t][n] = f /\ f \in Frame
      /\ Sound(View) /\ Shaped(View, t, n) /\ Own(View, f, TRUE) /\ TypeOK
  BY Acting DEF MESIInv
<1>2. f.c \in Inner /\ f.c \in Caches /\ f.line \in Lines /\ f.type \in Gets \cup Puts
  BY <1>1, FrameFields DEF Shaped, Gets, Puts, Invs
<1>3. Access(f) /\ n # 1
  BY <1>1, <1>2 DEF Access, Shaped, Inner
<1>4. n > 1
  BY <1>1, <1>3
<1>5. /\ Caller(t) = up /\ Linked(View, up, f) /\ up \in Frame
      /\ n - 1 \in 1 .. View.depth[t] /\ n \in 2 .. View.depth[t]
      /\ Asked(View, f, up.c)
  BY <1>3, <1>4, Acting
<1>6. HasBcc(View, t, n) /\ InAccess(View, t, n)
  BY <1>1, <1>3 DEF HasBcc, InAccess
<1>7. InAccess(View, t, n - 1) /\ Parent[up.c][f.line] = f.c
  <2>1. Access(View.calls[t][n]) /\ n \in 2 .. View.depth[t]
    BY <1>1, <1>3, <1>5
  <2> QED
    BY <1>1, <2>1, AccessSentBy
<1>8. up.c \in Caches /\ up.c # f.c
  BY <1>2, <1>5, <1>7, FrameFields, ParentOf
<1>9. CallSound(View, t, n - 1) /\ Entry(View, f.c, f.line) /\ Included(View)
  BY <1>1, <1>2, <1>5 DEF Sound, CallsSound, Directory
<1> HIDE DEF f, n, up
<1>10. n \in Nat /\ n \in 1 .. View.depth[t]
  BY <1>1
<1> QED
  BY <1>1, <1>2, <1>3, <1>5, <1>6, <1>7, <1>8, <1>9, <1>10 DEF f, n, up

\* Such a step keeps the invariant, if the entry says what was handed over.
LEMMA HandedStep ==
    ASSUME MESIInv, NEW t \in Threads, NEW f, NEW e, Handed(t, f, e),
           NEW ch, ch = Caller(t).c,
           Entry(View', f.c, f.line), Asked(View', e, ch),
           state'[ch][f.line] # "I" => state'[f.c][f.line] # "I",
           Excl(View', ch, f.line) => Excl(View', f.c, f.line),
           \A c \in Caches :
               Parent[c][f.line] = ch /\ state[c][f.line] # "I" =>
                   Excl(View', ch, f.line)
    PROVE  MESIInv'
<1> DEFINE n == View.depth[t]
           up == View.calls[t][n - 1]
<1>1. /\ n \in Nat /\ n \in 2 .. View.depth[t] /\ View.calls[t][n] = f /\ f \in Frame
      /\ Sound(View) /\ TypeOK /\ StackType /\ ch = up.c
      /\ f.line \in Lines /\ ch \in Caches
  BY HandingOver, Acting DEF Handed
<1>2. \A c \in Caches : IsFiniteSet(tags[c])
  BY Acting DEF Handed
<1>3. /\ f = Top(t) /\ f.pc = "top" /\ Access(f) /\ stack[t] # << >>
      /\ e = [f EXCEPT !.pc = "end"] /\ Become(t, e)
      /\ UNCHANGED <<tags, bccLock, tccLock, filterLock, filter>>
      /\ state' \in [Caches -> [Lines -> MESI]]
      /\ dir' \in [Inner -> [Lines -> [sharers : SUBSET Caches, exclusive : BOOLEAN]]]
      /\ fresh' \in [Lines -> SUBSET (Caches \cup {Mem})]
  BY DEF Handed
<1>4. /\ \A k \in Caches, l \in Lines :
            \/ state'[k][l] = state[k][l]
            \/ k = ch /\ l = f.line
            \/ /\ k = f.c /\ l = f.line
               /\ state[k][l] \in {"E", "M"} /\ state'[k][l] \in {"E", "M"}
      /\ \A p \in Inner, l \in Lines :
            dir'[p][l] = dir[p][l] \/ (p = f.c /\ l = f.line)
  BY DEF Handed
<1>5. View.depth[t] = n
  OBVIOUS
<1> HIDE DEF n
<1>6. /\ e \in Frame
      /\ e.c = f.c /\ e.type = f.type /\ e.line = f.line /\ e.pc = "end"
  BY <1>1, <1>3 DEF Frame
<1>7. /\ StackType' /\ Below(View, View', t, n - 1)
      /\ View'.depth[t] = n /\ View'.calls[t][n] = e
  <2>1. Become(t, e) /\ stack[t] # << >> /\ e \in Frame /\ StackType
    BY <1>1, <1>3, <1>6
  <2> QED
    BY <1>5, <2>1, AfterBecome
<1>8. TypeOK'
  BY <1>1, <1>3, <1>7 DEF TypeOK, StackType
<1>9. Typed(View')
  <2>1. \A c \in Caches : IsFiniteSet(tags'[c])
    BY <1>2, <1>3
  <2> QED
    BY <1>8, <2>1, TypedViewNext
<1>10. /\ View'.filter = View.filter /\ View'.tags = View.tags
       /\ View'.bcc = View.bcc /\ View'.tcc = View.tcc /\ View'.flt = View.flt
       /\ View.state = state /\ View'.state = state'
       /\ View.dir = dir /\ View'.dir = dir'
  BY <1>3, ViewFields, ViewFieldsNext
<1>11. Handing(View, View', t, n)
  <2>1. /\ n >= 2 /\ View.depth[t] = n /\ View'.depth[t] = n
        /\ Below(View, View', t, n - 1)
    BY <1>1, <1>5, <1>7
  <2>2. \A k \in Caches, l \in Lines :
            \/ View'.state[k][l] = View.state[k][l]
            \/ k = ch /\ l = f.line
            \/ k = f.c /\ l = f.line /\ Excl(View, k, l) /\ Excl(View', k, l)
    BY <1>4, <1>10 DEF Excl
  <2>3. \A p \in Inner, l \in Lines :
            View'.dir[p][l] = View.dir[p][l] \/ (p = f.c /\ l = f.line)
    BY <1>4, <1>10
  <2>4. /\ View'.state[ch][f.line] # "I" => View'.state[f.c][f.line] # "I"
        /\ \A c \in Caches : Parent[c][f.line] = ch /\ View.state[c][f.line] # "I" =>
               Excl(View', ch, f.line)
    BY <1>10
  <2>5. View.calls[t][n] = f /\ View'.calls[t][n] = e /\ View.calls[t][n - 1].c = ch
    BY <1>1, <1>7
  <2> HIDE DEF up
  <2> QED
    BY <1>3, <1>6, <1>10, <2>1, <2>2, <2>3, <2>4, <2>5 DEF Handing
<1> QED
  BY <1>1, <1>8, <1>9, <1>11, HandingSound DEF MESIInv

\* Two children do not upgrade in one cache: what its entry does not list in
\* the access of another kind is not there.
LEMMA Unlisted ==
    ASSUME MESIInv, NEW t \in Threads, stack[t] # << >>, Top(t).pc = "top",
           NEW k \in Caches, Parent[k][Top(t).line] = Top(t).c,
           k \notin dir[Top(t).c][Top(t).line].sharers,
           Top(t).type # "GETX" \/ k # Caller(t).c
    PROVE  state[k][Top(t).line] = "I"
<1> DEFINE f == Top(t)
           n == View.depth[t]
           up == View.calls[t][n - 1]
<1>1. /\ n \in Nat /\ n \in 1 .. View.depth[t] /\ View.calls[t][n] = f
      /\ Sound(View) /\ Caller(t) = up /\ HasBcc(View, t, n)
      /\ f.c \in Inner /\ f.line \in Lines /\ Entry(View, f.c, f.line)
  BY HandingOver
<1>2. View.state = state /\ View.dir = dir
  BY ViewFields
<1> HIDE DEF f, n, up
<1>3. SUFFICES ASSUME state[k][f.line] # "I" PROVE FALSE
  BY DEF f
<1>4. k \notin dir[f.c][f.line].sharers /\ Parent[k][f.line] = f.c
      /\ (f.type # "GETX" \/ k # Caller(t).c)
  BY DEF f
<1>5. Upgrading(View, f.c, f.line, k)
  BY <1>1, <1>2, <1>3, <1>4 DEF Entry
<1>6. f.type = "GETX" /\ View.calls[t][n - 1].c = k
  BY <1>1, <1>5, OnlyUpgrade
<1> QED
  BY <1>1, <1>4, <1>6 DEF up
\* PUTS and PUTX: the child gives up its copy.
LEMMA topPutStep ==
    ASSUME MESIInv, NEW t \in Threads, topPut(t) PROVE MESIInv'
<1> DEFINE f == Top(t)
           e == [f EXCEPT !.pc = "end"]
           n == View.depth[t]
           up == View.calls[t][n - 1]
           ch == Caller(t).c
           x == f.line
           p == f.c
<1>1. /\ stack[t] # << >> /\ f.pc = "top" /\ f.type \in Puts
      /\ dir' = [dir EXCEPT ![p][x].sharers = @ \ {ch}]
      /\ state' = [state EXCEPT ![ch][x] = "I"]
      /\ fresh' = [fresh EXCEPT ![x] = @ \ {ch}]
      /\ Become(t, e)
      /\ UNCHANGED <<tags, bccLock, tccLock, filterLock, filter>>
  BY DEF topPut, At, Goto
<1>2. /\ n \in Nat /\ n - 1 \in 1 .. View.depth[t]
      /\ View.calls[t][n] = f /\ f \in Frame /\ up \in Frame
      /\ Sound(View) /\ TypeOK /\ ch = up.c
      /\ InAccess(View, t, n - 1)
      /\ p \in Inner /\ p \in Caches /\ x \in Lines /\ Access(f)
      /\ ch \in Caches /\ ch # p /\ Parent[ch][x] = p
      /\ Linked(View, up, f)
      /\ CallSound(View, t, n - 1)
      /\ Entry(View, p, x) /\ Included(View)
  BY <1>1, HandingOver
<1>3. f = Top(t) /\ ch = Caller(t).c /\ x = f.line /\ p = f.c /\ e = [f EXCEPT !.pc = "end"]
  OBVIOUS
<1>4. /\ View.state = state /\ View'.state = state' /\ View.dir = dir /\ View'.dir = dir'
  BY ViewFields, ViewFieldsNext
<1>5. \A k \in Caches : Parent[k][x] = p /\ k \notin dir[p][x].sharers => state[k][x] = "I"
  BY <1>1, Unlisted DEF Puts
<1> HIDE DEF f, n, up, ch, x, p
<1>6. /\ e.c = p /\ e.type = f.type /\ e.line = x /\ e.pc = "end"
  BY <1>2, <1>3 DEF Frame
<1> HIDE DEF e
<1>7. /\ state' \in [Caches -> [Lines -> MESI]]
      /\ state'[ch][x] = "I"
      /\ \A k \in Caches, l \in Lines : k # ch \/ l # x => state'[k][l] = state[k][l]
  BY <1>1, <1>2 DEF TypeOK, MESI
<1>8. /\ dir' \in [Inner -> [Lines -> [sharers : SUBSET Caches, exclusive : BOOLEAN]]]
      /\ dir'[p][x].sharers = dir[p][x].sharers \ {ch}
      /\ dir'[p][x].exclusive = dir[p][x].exclusive
      /\ \A q \in Inner, l \in Lines : q # p \/ l # x => dir'[q][l] = dir[q][l]
  <2>1. dir \in [Inner -> [Lines -> [sharers : SUBSET Caches, exclusive : BOOLEAN]]]
    BY <1>2 DEF TypeOK
  <2>2. dir[p][x] \in [sharers : SUBSET Caches, exclusive : BOOLEAN]
    BY <1>2, <2>1
  <2> DEFINE r == [dir[p][x] EXCEPT !.sharers = dir[p][x].sharers \ {ch}]
  <2>3. /\ r \in [sharers : SUBSET Caches, exclusive : BOOLEAN]
        /\ r.sharers = dir[p][x].sharers \ {ch}
        /\ r.exclusive = dir[p][x].exclusive
    BY <2>2
  <2>4. dir' = [dir EXCEPT ![p] = [dir[p] EXCEPT ![x] = r]]
    BY <1>1
  <2> HIDE DEF r
  <2> QED
    BY <1>2, <2>1, <2>3, <2>4
<1>9. fresh' \in [Lines -> SUBSET (Caches \cup {Mem})]
  BY <1>1, <1>2 DEF TypeOK
<1>10. Handed(t, f, e)
  BY <1>1, <1>2, <1>3, <1>7, <1>8, <1>9 DEF Handed
<1>11. Entry(View', p, x)
  <2>1. \A k \in dir'[p][x].sharers : k \in Caches /\ k # ch /\ k \in dir[p][x].sharers
    BY <1>2, <1>8 DEF TypeOK
  <2>2. \A k \in Caches : k # ch => state'[k][x] = state[k][x]
    BY <1>2, <1>7
  <2>3. \A k \in Caches \ dir'[p][x].sharers :
            ~ (Parent[k][x] = p /\ state'[k][x] # "I")
    BY <1>5, <1>7, <1>8, <2>2
  <2>4. \A k \in dir'[p][x].sharers :
            /\ Parent[k][x] = p /\ View'.state[k][x] # "I"
            /\ Excl(View', k, x) <=> View'.dir[p][x].exclusive
    BY <1>2, <1>4, <1>8, <2>1, <2>2 DEF Entry, Excl
  <2>5. View'.dir[p][x].exclusive => \A j, k \in View'.dir[p][x].sharers : j = k
    BY <1>2, <1>4, <1>8, <2>1 DEF Entry
  <2> QED
    BY <1>4, <2>3, <2>4, <2>5 DEF Entry
<1>12. Asked(View', e, ch)
  <2>1. e.type # "GETS" /\ e.type # "GETX"
    BY <1>1, <1>6 DEF Puts
  <2> QED
    BY <1>4, <1>6, <1>7, <2>1 DEF Asked
<1>13. \A c \in Caches : ~ (Parent[c][x] = ch /\ state[c][x] # "I")
  <2> SUFFICES ASSUME NEW c \in Caches, Parent[c][x] = ch PROVE state[c][x] = "I"
    OBVIOUS
  <2>1. ch \in Inner
    <3>1. ch # Mem
      BY <1>2, ParentOf
    <3> QED
      BY <1>2, <3>1, ParentOf
  <2>2. up.pc = "evput" /\ x = up.victim
    BY <1>1, <1>2, <1>3 DEF Linked, Gets, Puts, Invs
  <2>3. Own(View, up, n - 1 = View.depth[t])
    BY <1>2 DEF CallSound, up
  <2>4. View.dir[ch][x].sharers = {}
    BY <1>2, <2>1, <2>2, <2>3 DEF Own
  <2>5. View.calls[t][n - 1] = up
    BY DEF up
  <2>6. View.state[c][x] = "I"
    BY <1>2, <2>1, <2>2, <2>4, <2>5, NoChild
  <2> QED
    BY <1>4, <2>6
<1>14. ~ Excl(View', ch, x) /\ state'[ch][x] = "I"
  BY <1>4, <1>7 DEF Excl
<1> QED
  BY <1>3, <1>10, <1>11, <1>12, <1>13, <1>14, HandedStep
\* GETS and GETX: child ch is handed the line in state s, and the directory
\* gets the entry r.
Granting(t, f, ch, s, r) ==
    /\ stack[t] # << >> /\ f = Top(t) /\ f.pc = "top" /\ f.type \in Gets
    /\ ch = Caller(t).c
    /\ Grant(t, s, r)
    /\ IF f.type = "GETX" THEN s = "M" ELSE s \in {"S", "E"}
    /\ s = "E" => state[f.c][f.line] \in {"E", "M"}
    /\ r.exclusive <=> s \in {"E", "M"}
    /\ r.exclusive => r.sharers = {ch}
    /\ ch \in r.sharers
    /\ \A k \in r.sharers : k # ch => Parent[k][f.line] = f.c /\ state[k][f.line] = "S"
    /\ \A k \in Caches \ r.sharers : Parent[k][f.line] = f.c => state[k][f.line] = "I"

\* Such a step keeps the invariant.
LEMMA GrantStep ==
    ASSUME MESIInv, NEW t \in Threads, NEW f, NEW ch,
           NEW s \in {"S", "E", "M"},
           NEW r \in [sharers : SUBSET Caches, exclusive : BOOLEAN],
           Granting(t, f, ch, s, r)
    PROVE  MESIInv'
<1> DEFINE e == [f EXCEPT !.pc = "end"]
           x == f.line
           p == f.c
           mine == IF f.wb THEN "M" ELSE state[p][x]
<1>0. /\ stack[t] # << >> /\ f = Top(t) /\ f.pc = "top" /\ f.type \in Gets
      /\ ch = Caller(t).c
      /\ Grant(t, s, r)
      /\ IF f.type = "GETX" THEN s = "M" ELSE s \in {"S", "E"}
      /\ s = "E" => state[p][x] \in {"E", "M"}
      /\ r.exclusive <=> s \in {"E", "M"}
      /\ r.exclusive => r.sharers = {ch}
      /\ ch \in r.sharers
      /\ \A k \in r.sharers : k # ch => Parent[k][x] = p /\ state[k][x] = "S"
      /\ \A k \in Caches \ r.sharers : Parent[k][x] = p => state[k][x] = "I"
  BY DEF Granting
<1>1. /\ dir' = [dir EXCEPT ![p][x] = r]
      /\ state' = [state EXCEPT ![ch][x] = s, ![p][x] = mine]
      /\ fresh' = [fresh EXCEPT ![x] =
                     IF state[ch][x] = "I" THEN Moved(x, p, ch) ELSE @]
      /\ Become(t, e)
      /\ UNCHANGED <<tags, bccLock, tccLock, filterLock, filter>>
  BY <1>0 DEF Grant, Goto
<1>2. /\ f \in Frame
      /\ Sound(View) /\ TypeOK
      /\ p \in Inner /\ p \in Caches /\ x \in Lines /\ Access(f)
      /\ ch \in Caches /\ ch # p /\ Parent[ch][x] = p
      /\ Own(View, f, TRUE) /\ Asked(View, f, ch)
      /\ Included(View)
  <2> DEFINE up == View.calls[t][View.depth[t] - 1]
  <2>1. stack[t] # << >> /\ Top(t).pc = "top"
    BY <1>0
  <2>2. /\ Top(t) \in Frame /\ Sound(View) /\ TypeOK /\ Caller(t) = up
        /\ Top(t).c \in Inner /\ Top(t).c \in Caches /\ Top(t).line \in Lines
        /\ Access(Top(t))
        /\ up.c \in Caches /\ up.c # Top(t).c /\ Parent[up.c][Top(t).line] = Top(t).c
        /\ Own(View, Top(t), TRUE) /\ Asked(View, Top(t), up.c) /\ Included(View)
    BY <2>1, HandingOver
  <2> HIDE DEF up
  <2> QED
    BY <1>0, <2>2
<1>3. x = f.line /\ p = f.c /\ e = [f EXCEPT !.pc = "end"]
  OBVIOUS
<1>4. /\ View.state = state /\ View'.state = state' /\ View.dir = dir /\ View'.dir = dir'
  BY ViewFields, ViewFieldsNext
<1>5. /\ mine \in MESI /\ mine # "I" /\ s \in MESI
      /\ \/ mine = state[p][x]
         \/ mine \in {"E", "M"} /\ state[p][x] \in {"E", "M"}
      /\ s \in {"E", "M"} => mine \in {"E", "M"}
  BY <1>0, <1>2, <1>4 DEF Own, Excl, TypeOK, MESI, Gets
<1> HIDE DEF x, p, mine
<1>7. /\ e.c = p /\ e.type = f.type /\ e.line = x /\ e.pc = "end"
  BY <1>2, <1>3 DEF Frame
<1> HIDE DEF e
<1>8. /\ state' \in [Caches -> [Lines -> MESI]]
      /\ state'[ch][x] = s /\ state'[p][x] = mine
      /\ \A k \in Caches, l \in Lines :
             (k # ch /\ k # p) \/ l # x => state'[k][l] = state[k][l]
  <2>1. /\ state \in [Caches -> [Lines -> MESI]] /\ s \in MESI /\ mine \in MESI
        /\ ch \in Caches /\ p \in Caches /\ ch # p /\ x \in Lines
    BY <1>2, <1>5 DEF TypeOK
  <2> HIDE <1>1
  <2>2. state' = [state EXCEPT ![ch][x] = s, ![p][x] = mine]
    BY <1>1
  <2> QED
    BY <2>1, <2>2
<1>9. /\ dir' \in [Inner -> [Lines -> [sharers : SUBSET Caches, exclusive : BOOLEAN]]]
      /\ dir'[p][x] = r
      /\ \A q \in Inner, l \in Lines : q # p \/ l # x => dir'[q][l] = dir[q][l]
  <2>1. dir \in [Inner -> [Lines -> [sharers : SUBSET Caches, exclusive : BOOLEAN]]]
    BY <1>2 DEF TypeOK
  <2> QED
    BY <1>1, <1>2, <2>1
<1>10. fresh' \in [Lines -> SUBSET (Caches \cup {Mem})]
  BY <1>1, <1>2 DEF TypeOK, Moved
<1>11. Handed(t, f, e)
  <2>1. \A k \in Caches, l \in Lines :
            \/ state'[k][l] = state[k][l]
            \/ k = Caller(t).c /\ l = x
            \/ /\ k = p /\ l = x
               /\ state[k][l] \in {"E", "M"} /\ state'[k][l] \in {"E", "M"}
    BY <1>0, <1>2, <1>5, <1>8
  <2>2. \A q \in Inner, l \in Lines : dir'[q][l] = dir[q][l] \/ (q = p /\ l = x)
    BY <1>9
  <2>3. stack[t] # << >> /\ f = Top(t) /\ f.pc = "top"
    BY <1>0
  <2>4. /\ Access(f) /\ e = [f EXCEPT !.pc = "end"] /\ Become(t, e)
        /\ UNCHANGED <<tags, bccLock, tccLock, filterLock, filter>>
    BY <1>1, <1>2, <1>3
  <2>5. /\ state' \in [Caches -> [Lines -> MESI]]
        /\ dir' \in [Inner -> [Lines -> [sharers : SUBSET Caches, exclusive : BOOLEAN]]]
        /\ fresh' \in [Lines -> SUBSET (Caches \cup {Mem})]
    BY <1>8, <1>9, <1>10
  <2> HIDE <1>1
  <2> QED
    BY <1>3, <2>1, <2>2, <2>3, <2>4, <2>5 DEF Handed
<1>12. Entry(View', p, x)
  <2>1. \A k \in Caches : k # ch /\ Parent[k][x] = p => state'[k][x] = state[k][x]
    BY <1>2, <1>8, ParentOf
  <2>2. \A k \in r.sharers :
            /\ Parent[k][x] = p /\ View'.state[k][x] # "I"
            /\ Excl(View', k, x) <=> r.exclusive
    <3> TAKE k \in r.sharers
    <3>1. CASE k = ch
      BY <1>0, <1>2, <1>4, <1>8, <3>1 DEF Excl
    <3>2. CASE k # ch
      <4>1. Parent[k][x] = p /\ state[k][x] = "S" /\ k \in Caches /\ ~ r.exclusive
        BY <1>0, <3>2
      <4>2. View'.state[k][x] = "S"
        BY <1>4, <2>1, <3>2, <4>1
      <4> QED
        BY <4>1, <4>2 DEF Excl
    <3> QED
      BY <3>1, <3>2
  <2>3. r.exclusive => \A j, k \in r.sharers : j = k
    BY <1>0
  <2>4. \A k \in Caches \ r.sharers : ~ (Parent[k][x] = p /\ View'.state[k][x] # "I")
    BY <1>0, <1>4, <2>1
  <2>5. View'.dir[p][x] = r
    BY <1>4, <1>9
  <2> QED
    BY <2>2, <2>3, <2>4, <2>5 DEF Entry
<1>13. Asked(View', e, ch)
  <2>1. e.type \notin Puts
    BY <1>0, <1>7 DEF Gets, Puts
  <2> QED
    BY <1>0, <1>4, <1>7, <1>8, <2>1 DEF Asked
<1>14. \A c \in Caches : Parent[c][x] = ch /\ state[c][x] # "I" => Excl(View', ch, x)
  <2> SUFFICES ASSUME NEW c \in Caches, Parent[c][x] = ch, state[c][x] # "I"
               PROVE  Excl(View', ch, x)
    OBVIOUS
  <2>1. state[ch][x] # "I"
    <3>1. Within(View, c, x) /\ Mem \notin Caches
      BY <1>2, ParentOf DEF Included
    <3> QED
      BY <1>2, <1>4, <3>1 DEF Within
  <2>2. f.type # "GETS"
    BY <1>0, <1>2, <1>3, <1>4, <2>1 DEF Asked
  <2>3. s = "M"
    BY <1>0, <2>2 DEF Gets
  <2> QED
    BY <1>4, <1>8, <2>3 DEF Excl
<1>15. /\ state'[p][x] # "I"
       /\ Excl(View', ch, x) => Excl(View', p, x)
  BY <1>4, <1>5, <1>8 DEF Excl
<1> QED
  BY <1>0, <1>3, <1>11, <1>12, <1>13, <1>14, <1>15, HandedStep

\* Such a step is taken.
Grants(t) ==
    \E s \in {"S", "E", "M"}, r \in [sharers : SUBSET Caches, exclusive : BOOLEAN] :
        Granting(t, Top(t), Caller(t).c, s, r)

\* The requester is the only one to have the line.
LEMMA topGetEGrants ==
    ASSUME MESIInv, NEW t \in Threads, topGetE(t) PROVE Grants(t)
<1> DEFINE f == Top(t)
           ch == Caller(t).c
<1>1. /\ stack[t] # << >> /\ f.pc = "top" /\ f.type = "GETS"
      /\ dir[f.c][f.line].sharers = {} /\ isExclusive(f.c, f.line)
      /\ Grant(t, "E", [sharers |-> {ch}, exclusive |-> TRUE])
  BY DEF topGetE, At, GrantsE
<1>2. ch \in Caches
  BY <1>1, HandingOver
<1>3. \A k \in Caches : Parent[k][f.line] = f.c => state[k][f.line] = "I"
  BY <1>1, Unlisted
<1>4. f = Top(t) /\ ch = Caller(t).c
  OBVIOUS
<1> HIDE DEF f, ch
<1> DEFINE r == [sharers |-> {ch}, exclusive |-> TRUE]
<1>5. /\ r \in [sharers : SUBSET Caches, exclusive : BOOLEAN]
      /\ r.sharers = {ch} /\ r.exclusive
  BY <1>2
<1>6. Grant(t, "E", r)
  BY <1>1
<1>7. f.type \in Gets /\ state[f.c][f.line] \in {"E", "M"}
  BY <1>1 DEF Gets, isExclusive
<1> HIDE DEF r
<1>8. Granting(t, f, ch, "E", r)
  BY <1>1, <1>3, <1>4, <1>5, <1>6, <1>7 DEF Granting
<1> QED
  BY <1>4, <1>5, <1>8 DEF Grants

\* The requester shares the line.
LEMMA topGetSGrants ==
    ASSUME MESIInv, NEW t \in Threads, topGetS(t) PROVE Grants(t)
<1> DEFINE f == Top(t)
           ch == Caller(t).c
           S == dir[f.c][f.line].sharers \cup {ch}
<1>1. /\ stack[t] # << >> /\ f.pc = "top" /\ f.type = "GETS"
      /\ ~ DirExclusive(f.c, f.line)
      /\ Grant(t, "S", [sharers |-> S, exclusive |-> FALSE])
  BY DEF topGetS, At
<1>2. /\ ch \in Caches /\ f.c \in Inner /\ f.line \in Lines /\ TypeOK
      /\ Sound(View) /\ Entry(View, f.c, f.line)
  BY <1>1, HandingOver
<1>3. \A k \in Caches : k \notin dir[f.c][f.line].sharers /\ Parent[k][f.line] = f.c =>
                            state[k][f.line] = "I"
  BY <1>1, Unlisted
<1>4. f = Top(t) /\ ch = Caller(t).c
  OBVIOUS
<1>5. View.state = state /\ View.dir = dir
  BY ViewFields
<1> HIDE DEF f, ch
<1>6. \A k \in dir[f.c][f.line].sharers :
          /\ k \in Caches /\ Parent[k][f.line] = f.c /\ state[k][f.line] = "S"
  <2> TAKE k \in dir[f.c][f.line].sharers
  <2>1. ~ (dir[f.c][f.line].exclusive = TRUE)
    BY <1>1, <1>2, <1>5, ExclusiveEntry
  <2>2. k \in Caches /\ state[k][f.line] \in MESI
    BY <1>2 DEF TypeOK
  <2>3. Parent[k][f.line] = f.c /\ state[k][f.line] # "I" /\ ~ Excl(View, k, f.line)
    BY <1>2, <1>5, <2>1 DEF Entry, TypeOK
  <2> QED
    BY <1>5, <2>2, <2>3 DEF Excl, MESI
<1>7. /\ S \in SUBSET Caches /\ ch \in S
      /\ \A k \in S : k # ch => Parent[k][f.line] = f.c /\ state[k][f.line] = "S"
      /\ \A k \in Caches \ S : Parent[k][f.line] = f.c => state[k][f.line] = "I"
  BY <1>2, <1>3, <1>6
<1> DEFINE r == [sharers |-> S, exclusive |-> FALSE]
<1>8. /\ r \in [sharers : SUBSET Caches, exclusive : BOOLEAN]
      /\ r.sharers = S /\ ~ r.exclusive
  BY <1>7
<1>9. Grant(t, "S", r) /\ f.type \in Gets
  BY <1>1 DEF Gets
<1> HIDE DEF r, S
<1>10. Granting(t, f, ch, "S", r)
  BY <1>1, <1>4, <1>7, <1>8, <1>9 DEF Granting
<1> QED
  BY <1>4, <1>8, <1>10 DEF Grants

\* The requester may write the line, once all other copies are invalid.
LEMMA topGetXGrants ==
    ASSUME MESIInv, NEW t \in Threads, topGetX(t) PROVE Grants(t)
<1> DEFINE f == Top(t)
           ch == Caller(t).c
<1>1. /\ stack[t] # << >> /\ f.pc = "top" /\ f.type = "GETX"
      /\ dir[f.c][f.line].sharers \ {ch} = {}
      /\ Grant(t, "M", [sharers |-> {ch}, exclusive |-> TRUE])
  BY DEF topGetX, At, Others
<1>2. ch \in Caches
  BY <1>1, HandingOver
<1>3. \A k \in Caches \ {ch} : Parent[k][f.line] = f.c => state[k][f.line] = "I"
  <2> TAKE k \in Caches \ {ch}
  <2>1. k \notin dir[f.c][f.line].sharers /\ k # ch
    BY <1>1
  <2> QED
    BY <1>1, <2>1, Unlisted
<1>4. f = Top(t) /\ ch = Caller(t).c
  OBVIOUS
<1> HIDE DEF f, ch
<1> DEFINE r == [sharers |-> {ch}, exclusive |-> TRUE]
<1>5. /\ r \in [sharers : SUBSET Caches, exclusive : BOOLEAN]
      /\ r.sharers = {ch} /\ r.exclusive
  BY <1>2
<1>6. Grant(t, "M", r) /\ f.type \in Gets
  BY <1>1 DEF Gets
<1> HIDE DEF r
<1>7. Granting(t, f, ch, "M", r)
  BY <1>1, <1>3, <1>4, <1>5, <1>6 DEF Granting
<1> QED
  BY <1>4, <1>5, <1>7 DEF Grants

\* The three answers to a GET keep the invariant.
LEMMA topGetStep ==
    ASSUME MESIInv, NEW t \in Threads, topGetE(t) \/ topGetS(t) \/ topGetX(t)
    PROVE  MESIInv'
<1>1. Grants(t)
  BY topGetEGrants, topGetSGrants, topGetXGrants
<1> QED
  BY <1>1, GrantStep DEF Grants

\* A GETX takes the requester off the directory and invalidates the others.
LEMMA topInvalidateStep ==
    ASSUME MESIInv, NEW t \in Threads, topInvalidate(t) PROVE MESIInv'
<1> DEFINE f == Top(t)
           n == View.depth[t]
           up == View.calls[t][n - 1]
           ch == Caller(t).c
           x == f.line
           p == f.c
           S == Others(t, f)
           e == invalidate(t, "INV", x, S)
<1>1. /\ stack[t] # << >> /\ f.pc = "top" /\ f.type = "GETX" /\ S # {}
      /\ dir' = [dir EXCEPT ![p][x].sharers = @ \ {ch}]
      /\ Invoke(t, f, e)
      /\ UNCHANGED <<state, tags, bccLock, tccLock, filterLock, filter, fresh>>
  BY DEF topInvalidate, At
<1>2. /\ n \in Nat /\ n \in 1 .. View.depth[t] /\ n \in 2 .. View.depth[t]
      /\ View.calls[t][n] = f /\ f \in Frame /\ up \in Frame
      /\ Sound(View) /\ TypeOK /\ ch = up.c
      /\ HasBcc(View, t, n) /\ InAccess(View, t, n)
      /\ p \in Inner /\ p \in Caches /\ x \in Lines /\ Access(f)
      /\ ch \in Caches /\ ch # p /\ Parent[ch][x] = p
      /\ Own(View, f, TRUE) /\ Asked(View, f, ch) /\ Linked(View, up, f)
      /\ Entry(View, p, x) /\ Included(View)
  BY <1>1, HandingOver
<1>3. /\ f = Top(t) /\ ch = Caller(t).c /\ x = f.line /\ p = f.c
      /\ View.depth[t] = n /\ View.calls[t][n - 1] = up
  OBVIOUS
<1>4. \A k \in Caches : Parent[k][x] = p /\ k \notin dir[p][x].sharers /\ k # ch =>
                            state[k][x] = "I"
  BY <1>1, Unlisted
<1>5. Shaped(View, t, n) /\ StackType /\ (\A c \in Caches : IsFiniteSet(tags[c]))
  BY <1>1, Acting
<1>6. S = dir[p][x].sharers \ {ch} /\ S \in SUBSET Caches /\ "INV" \in Invs
  <2>1. S = dir[p][x].sharers \ {ch}
    BY DEF Others
  <2>2. p \in Inner /\ x \in Lines /\ TypeOK
    BY <1>2
  <2> HIDE DEF f, ch, x, p, S
  <2>3. dir[p][x].sharers \in SUBSET Caches
    BY <2>2 DEF TypeOK
  <2> QED
    BY <2>1, <2>3 DEF Invs
<1> HIDE DEF f, n, up, ch, x, p, S
<1>7. /\ e \in Frame /\ e.c \in S /\ e.type = "INV" /\ e.line = x
      /\ e.pc = "ilock" /\ ~ e.wb
  <2>1. S # {}
    BY <1>1
  <2> QED
    BY <1>2, <1>6, <2>1, Invalidation
<1> HIDE DEF e
<1>8. /\ dir' \in [Inner -> [Lines -> [sharers : SUBSET Caches, exclusive : BOOLEAN]]]
      /\ dir'[p][x].sharers = S
      /\ dir'[p][x].exclusive = dir[p][x].exclusive
      /\ \A q \in Inner, l \in Lines : q # p \/ l # x => dir'[q][l] = dir[q][l]
  <2>1. dir \in [Inner -> [Lines -> [sharers : SUBSET Caches, exclusive : BOOLEAN]]]
    BY <1>2 DEF TypeOK
  <2>2. dir[p][x] \in [sharers : SUBSET Caches, exclusive : BOOLEAN]
    BY <1>2, <2>1
  <2> DEFINE r == [dir[p][x] EXCEPT !.sharers = dir[p][x].sharers \ {ch}]
  <2>3. /\ r \in [sharers : SUBSET Caches, exclusive : BOOLEAN]
        /\ r.sharers = S
        /\ r.exclusive = dir[p][x].exclusive
    BY <1>6, <2>2
  <2>4. dir' = [dir EXCEPT ![p] = [dir[p] EXCEPT ![x] = r]]
    BY <1>1
  <2> HIDE DEF r
  <2> QED
    BY <1>2, <2>1, <2>3, <2>4
<1>9. /\ StackType' /\ Below(View, View', t, n - 1)
      /\ View'.depth[t] = n + 1
      /\ View'.calls[t][n] = f /\ View'.calls[t][n + 1] = e
  <2>1. Invoke(t, f, e) /\ stack[t] # << >>
    BY <1>1
  <2> QED
    BY <1>2, <1>3, <1>5, <1>7, <2>1, AfterInvoke
<1>10. TypeOK'
  BY <1>1, <1>2, <1>8, <1>9 DEF TypeOK, StackType
<1>11. Typed(View')
  <2>1. \A c \in Caches : IsFiniteSet(tags'[c])
    BY <1>1, <1>5
  <2> QED
    BY <1>10, <2>1, TypedViewNext
<1>12. /\ View'.filter = View.filter /\ View'.tags = View.tags
       /\ View'.bcc = View.bcc /\ View'.tcc = View.tcc /\ View'.flt = View.flt
       /\ View'.state = View.state /\ View.state = state
       /\ View.dir = dir /\ View'.dir = dir'
  BY <1>1, ViewFields, ViewFieldsNext
<1>13. /\ p \notin Leaves /\ ~ Access(e) /\ e.type \notin Gets \cup Puts /\ e.type \in Invs
       /\ n >= 2 /\ n >= 1 /\ n - 1 \in Nat /\ n - 1 < n /\ n + 1 # n /\ n + 1 > 1
       /\ n \in 2 .. n + 1 /\ (n + 1) - 1 = n /\ n + 1 # 1
       /\ n - 1 \in 1 .. n - 1
  BY <1>2, <1>7 DEF Inner, Access, Gets, Puts, Invs
<1>14. View'.calls[t][n - 1] = up
  BY <1>3, <1>9, <1>13 DEF Below
<1>15. CallSound(View', t, n)
  <2>1. Shaped(View', t, n)
    BY <1>2, <1>5, <1>9, <1>12 DEF Shaped
  <2>2. Own(View', f, n = View'.depth[t])
    BY <1>1, <1>2, <1>12 DEF Own, Excl
  <2>3. Linked(View', up, f) /\ Asked(View', f, ch)
    <3>1. f.type \notin Invs
      BY <1>1 DEF Invs
    <3> QED
      BY <1>2, <1>12, <3>1 DEF Linked, Asked
  <2> QED
    BY <1>2, <1>9, <1>14, <2>1, <2>2, <2>3 DEF CallSound
<1>16. CallSound(View', t, n + 1)
  <2>1. Shaped(View', t, n + 1)
    BY <1>7, <1>9, <1>13 DEF Shaped, Gets, Puts
  <2>2. Own(View', e, n + 1 = View'.depth[t])
    BY <1>7, <1>13 DEF Own
  <2>3. Linked(View', f, e)
    BY <1>1, <1>2, <1>3, <1>7, <1>8, <1>12, <1>13 DEF Linked
  <2> QED
    BY <1>9, <1>13, <2>1, <2>2, <2>3 DEF CallSound
<1>17. Locking(View, View', t, n)
  <2>1. View.bcc[p] = t /\ View.tcc[p] = t
    BY <1>2, <1>3 DEF Sound, Locked
  <2>2. ~ HasBcc(View', t, n + 1) /\ ~ InAccess(View', t, n + 1)
    BY <1>7, <1>9, <1>13 DEF HasBcc, InAccess
  <2>3. \A d \in 1 .. View'.depth[t] : d >= n \/ d = View'.depth[t] =>
            d = n \/ d = n + 1
    BY <1>2, <1>9
  <2>4. f.pc # "inv" /\ e.pc # "inv" /\ n <= n
    BY <1>1, <1>2, <1>7
  <2> QED
    BY <1>2, <1>3, <1>9, <1>12, <1>13, <2>1, <2>2, <2>3, <2>4 DEF Locking
<1>18. Step(View, View', t, n - 1)
  <2>1. Alike(View, View', t, n - 1)
    BY <1>9, BelowAlike
  <2>2. Reach(View, View', t, n)
    BY <1>2, <1>3, <1>8, <1>12 DEF Reach
  <2>3. \A d \in 1 .. View'.depth[t] : d > n - 1 \/ d = View'.depth[t] =>
            d = n \/ d = n + 1
    BY <1>2, <1>9
  <2>4. \A d \in 1 .. View'.depth[t] : d > n - 1 \/ d = View'.depth[t] =>
            CallSound(View', t, d)
    BY <1>15, <1>16, <2>3
  <2>5. \A d \in n .. View'.depth[t] : d = n \/ d = n + 1
    BY <1>2, <1>9
  <2>6. \A d \in n .. View'.depth[t] :
            Access(View'.calls[t][d]) => Access(View.calls[t][n]) /\ Access(View'.calls[t][n])
    BY <1>2, <1>9, <2>5
  <2> QED
    BY <1>3, <1>9, <1>13, <1>17, <2>1, <2>2, <2>4, <2>6 DEF Step
<1>19. Locked(View') /\ Alone(View') /\ UpThenDown(View') /\ CallsSound(View')
  BY <1>2, <1>11, <1>13, <1>18, StepCalls
<1>20. Filtered(View')
  <2>1. \A d \in View.depth[t] .. View'.depth[t] : d = n \/ d = n + 1
    BY <1>2, <1>3, <1>9
  <2>2. f.pc # "inv" /\ e.pc # "inv"
    BY <1>1, <1>7
  <2>3. \A d \in View.depth[t] .. View'.depth[t] :
            ~ (View'.calls[t][d].pc = "inv" /\ View'.calls[t][d].c \in Leaves)
    BY <1>9, <2>1, <2>2
  <2>4. View'.depth[t] >= 1
    BY <1>9, <1>13
  <2> QED
    BY <1>2, <1>11, <1>12, <1>13, <1>18, <2>3, <2>4, FilteredKept
<1>21. Directory(View')
  <2>1. Entry(View', p, x)
    <3>1. \A k \in S : k \in dir[p][x].sharers
      BY <1>6
    <3>2. \A k \in S :
              /\ Parent[k][x] = p /\ View'.state[k][x] # "I"
              /\ Excl(View', k, x) <=> View'.dir[p][x].exclusive
      BY <1>2, <1>8, <1>12, <3>1 DEF Entry, Excl
    <3>3. View'.dir[p][x].exclusive => \A j, k \in S : j = k
      BY <1>2, <1>8, <1>12, <3>1 DEF Entry
    <3>4. ASSUME state[ch][x] # "I"
          PROVE  ~ View'.dir[p][x].exclusive /\ state[ch][x] = "S"
      <4>1. CASE ch \in dir[p][x].sharers
        <5>1. PICK j \in S : j # ch /\ j \in dir[p][x].sharers
          BY <1>1, <1>6
        <5>2. ~ dir[p][x].exclusive
          BY <1>2, <1>12, <4>1, <5>1 DEF Entry
        <5>3. ~ Excl(View, ch, x)
          BY <1>2, <1>12, <4>1, <5>2 DEF Entry
        <5> QED
          BY <1>2, <1>8, <1>12, <3>4, <5>2, <5>3 DEF Excl, TypeOK, MESI
      <4>2. CASE ch \notin dir[p][x].sharers
        BY <1>2, <1>8, <1>12, <3>4, <4>2 DEF Entry
      <4> QED
        BY <4>1, <4>2
    <3>5. Upgrading(View', p, x, ch)
      <4>1. n \in 2 .. View'.depth[t]
        BY <1>9, <1>13
      <4>2. /\ View'.calls[t][n].c = p /\ View'.calls[t][n].line = x
            /\ View'.calls[t][n].type = "GETX" /\ View'.calls[t][n].pc = "top"
            /\ View'.calls[t][n - 1].c = ch
        BY <1>1, <1>2, <1>3, <1>9, <1>14
      <4> QED
        BY <4>1, <4>2 DEF Upgrading
    <3>6. \A k \in Caches \ S : k = ch \/ k \notin dir[p][x].sharers
      BY <1>6
    <3>7. \A k \in Caches \ S :
              Parent[k][x] = p /\ View'.state[k][x] # "I" =>
                  ~ View'.dir[p][x].exclusive /\ View'.state[k][x] = "S"
                  /\ Upgrading(View', p, x, k)
      BY <1>4, <1>12, <3>4, <3>5, <3>6
    <3> QED
      BY <1>8, <1>12, <3>2, <3>3, <3>7 DEF Entry
  <2> SUFFICES ASSUME NEW q \in Inner, NEW l \in Lines, ~ (q = p /\ l = x)
               PROVE  Entry(View', q, l)
    BY <2>1 DEF Directory
  <2>2. \A k \in Caches : Parent[k][l] = q =>
            \/ View'.state[k][l] = View.state[k][l]
            \/ Excl(View, k, l) /\ Excl(View', k, l)
    BY <1>12
  <2>3. \A k \in Caches : Upgrading(View, q, l, k) => Upgrading(View', q, l, k)
    <3> SUFFICES ASSUME NEW k \in Caches, Upgrading(View, q, l, k)
                 PROVE  Upgrading(View', q, l, k)
      OBVIOUS
    <3>1. /\ q # View.calls[t][View.depth[t]].c \/ l # View.calls[t][View.depth[t]].line
          /\ Alike(View, View', t, View.depth[t] - 1)
          /\ View'.depth[t] >= View.depth[t] - 1
      BY <1>2, <1>3, <1>9, BelowAlike
    <3>2. Typed(View)
      BY <1>2 DEF Sound
    <3> QED
      BY <1>11, <3>1, <3>2, UpgradingKept
  <2>4. Entry(View, q, l) /\ View.dir[q][l].sharers \subseteq Caches
    BY <1>2 DEF Sound, Directory, Typed
  <2>5. View'.dir[q][l] = View.dir[q][l]
    BY <1>8, <1>12
  <2> QED
    BY <2>2, <2>3, <2>4, <2>5, EntryKept
<1>22. Included(View')
  BY <1>2, <1>12 DEF Included, Within, Excl
<1> QED
  BY <1>10, <1>11, <1>19, <1>20, <1>21, <1>22 DEF Sound, MESIInv
\* MESIBottomCC::processInval, and what the caller notes of it.
LEMMA finishInvalidateStep ==
    ASSUME MESIInv, NEW t \in Threads, finishInvalidate(t) PROVE MESIInv'
<1> DEFINE f == Top(t)
           n == View.depth[t]
           up == View.calls[t][n - 1]
           top == View.calls[t][n - 2]
           x == f.line
           c == f.c
           p == up.c
           e == [up EXCEPT !.wb = @ \/ PullsUp(f)]
           new == IF f.type = "INV" THEN "I" ELSE "S"
<1>1. /\ n \in Nat /\ n \in 1 .. View.depth[t] /\ n >= 1
      /\ View.calls[t][n] = f /\ f \in Frame
      /\ Sound(View) /\ TypeOK /\ Shaped(View, t, n) /\ Own(View, f, TRUE)
      /\ StackType /\ (\A k \in Caches : IsFiniteSet(tags[k]))
      /\ f.pc = "inv" /\ Pending(f) = {}
  BY Acting DEF finishInvalidate, At, MESIInv
<1>2. /\ f.type \in Invs /\ c \in Caches /\ x \in Lines /\ n # 1
      /\ f.type \in {"INV", "INVX"} /\ ~ Access(f)
  BY <1>1, FrameFields DEF Shaped, Access, Gets, Puts, Invs
<1>3. /\ n \in 2 .. View.depth[t] /\ n > 1 /\ n - 1 \in 1 .. View.depth[t] /\ n - 2 \in Nat
      /\ n - 1 \in Nat /\ n - 2 < n /\ n - 2 < n - 1 /\ n - 1 >= 1
      /\ (n - 1 > 1 => n - 2 \in 1 .. View.depth[t] /\ n - 1 \in 2 .. View.depth[t]
                       /\ n - 2 \in 1 .. n - 2)
      /\ n - 1 # n /\ (n - 1) - 1 = n - 2
  BY <1>1, <1>2
<1>4. /\ Caller(t) = up /\ Linked(View, up, f) /\ up \in Frame
  BY <1>1, <1>3, Acting DEF finishInvalidate, At
<1>5. /\ up.pc \in {"evict", "top", "inv"} /\ HasBcc(View, t, n - 1) /\ p \in Inner
      /\ Parent[c][x] = p /\ c \in View.dir[p][x].sharers
      /\ View.state[c][x] # "I" /\ (f.type = "INVX" => Excl(View, c, x))
  <2>1. /\ Sound(View) /\ t \in Threads /\ n \in 2 .. View.depth[t]
        /\ View.calls[t][n].type \in Invs
    BY <1>1, <1>2, <1>3
  <2> HIDE DEF n, f, up, x, c, p
  <2>2. /\ View.calls[t][n - 1].pc \in {"evict", "top", "inv"} /\ HasBcc(View, t, n - 1)
        /\ View.calls[t][n - 1].c \in Inner
        /\ Parent[View.calls[t][n].c][View.calls[t][n].line] = View.calls[t][n - 1].c
        /\ View.calls[t][n].c \in
               View.dir[View.calls[t][n - 1].c][View.calls[t][n].line].sharers
        /\ View.state[View.calls[t][n].c][View.calls[t][n].line] # "I"
        /\ View.calls[t][n].type = "INVX" =>
               Excl(View, View.calls[t][n].c, View.calls[t][n].line)
    BY <2>1, InvSentBy
  <2>3. View.calls[t][n] = f /\ up = View.calls[t][n - 1] /\ x = f.line /\ c = f.c /\ p = up.c
    BY <1>1 DEF up, x, c, p
  <2> QED
    BY <2>2, <2>3
<1>6. /\ p \in Caches /\ p # c /\ CallSound(View, t, n - 1) /\ up.line \in Lines
      /\ Entry(View, p, x) /\ Included(View) /\ Directory(View) /\ Typed(View)
  <2>1. Included(View) /\ Directory(View) /\ Typed(View) /\ CallsSound(View)
    BY <1>1 DEF Sound
  <2>2. p \in Caches /\ p # c
    <3>1. c \in Caches /\ x \in Lines /\ Parent[c][x] = p /\ p \in Inner
      BY <1>2, <1>5
    <3> HIDE DEF c, x, p
    <3> QED
      BY <3>1, ParentOf
  <2>3. up.line \in Lines
    BY <1>4, FrameFields
  <2>4. CallSound(View, t, n - 1)
    BY <1>3, <2>1 DEF CallsSound
  <2>5. Entry(View, p, x)
    BY <1>2, <1>5, <2>1 DEF Directory
  <2> QED
    BY <2>1, <2>2, <2>3, <2>4, <2>5
<1>7. /\ state' = [state EXCEPT ![c][x] = new]
      /\ dir' = IF f.type = "INV"
                THEN [dir EXCEPT ![p][x].sharers = @ \ {c}]
                ELSE [dir EXCEPT ![p][x].exclusive = FALSE]
      /\ fresh' = [fresh EXCEPT ![x] =
             IF f.type = "INV"
             THEN (IF PullsUp(f) THEN Moved(x, c, p) ELSE fresh[x]) \ {c}
             ELSE (IF PullsUp(f) THEN Moved(x, c, p) ELSE fresh[x])]
      /\ bccLock' = [bccLock EXCEPT ![c] = None]
      /\ filterLock' = IF c \in Leaves THEN [filterLock EXCEPT ![c] = None]
                       ELSE filterLock
      /\ stack' = [stack EXCEPT ![t] = <<e>> \o Tail(Tail(@))]
      /\ UNCHANGED <<tags, tccLock, filter>>
  BY <1>4 DEF finishInvalidate
<1>8. e.wb => up.wb \/ Excl(View, c, x)
  <2>1. PullsUp(f) => Excl(View, c, x)
    BY <1>1, ViewFields DEF PullsUp, Own, Excl
  <2>2. e.wb = (up.wb \/ PullsUp(f))
    BY <1>4 DEF Frame
  <2> QED
    BY <2>1, <2>2
<1>9. /\ e \in Frame
      /\ e.c = p /\ e.type = up.type /\ e.pc = up.pc /\ e.line = up.line
      /\ e.victim = up.victim /\ e.init = up.init
  <2>1. (up.wb \/ PullsUp(f)) \in BOOLEAN
    OBVIOUS
  <2> QED
    BY <1>4, <2>1 DEF Frame
<1>10. /\ x = f.line /\ c = f.c /\ p = up.c /\ View.depth[t] = n
       /\ View.calls[t][n - 1] = up /\ View.calls[t][n - 2] = top
       /\ new = (IF f.type = "INV" THEN "I" ELSE "S")
  OBVIOUS
<1>11. /\ View.state = state /\ View'.state = state' /\ View.dir = dir /\ View'.dir = dir'
       /\ View.tags = tags /\ View'.tags = tags'
       /\ View.bcc = bccLock /\ View'.bcc = bccLock'
       /\ View.tcc = tccLock /\ View'.tcc = tccLock'
       /\ View.flt = filterLock /\ View'.flt = filterLock'
       /\ View.filter = filter /\ View'.filter = filter'
  BY ViewFields, ViewFieldsNext
<1>12. c \in Inner =>
           \/ dir[c][x].sharers = {}
           \/ f.type = "INVX" /\ ~ DirExclusive(c, x)
  BY <1>1 DEF Pending, Inner
<1> HIDE DEF f, n, up, top, x, c, p, e, new
<1>13. /\ state' \in [Caches -> [Lines -> MESI]]
       /\ state'[c][x] = new /\ new \in MESI
       /\ \A k \in Caches, l \in Lines : k # c \/ l # x => state'[k][l] = state[k][l]
  <2>1. new \in MESI
    BY <1>10 DEF MESI
  <2> QED
    BY <1>1, <1>2, <1>7, <2>1 DEF TypeOK
<1>14. /\ dir' \in [Inner -> [Lines -> [sharers : SUBSET Caches, exclusive : BOOLEAN]]]
       /\ dir'[p][x].sharers = IF f.type = "INV" THEN dir[p][x].sharers \ {c}
                               ELSE dir[p][x].sharers
       /\ f.type = "INV" => dir'[p][x].exclusive = dir[p][x].exclusive
       /\ f.type = "INVX" => ~ dir'[p][x].exclusive
       /\ \A q \in Inner, l \in Lines : q # p \/ l # x => dir'[q][l] = dir[q][l]
  <2>1. dir \in [Inner -> [Lines -> [sharers : SUBSET Caches, exclusive : BOOLEAN]]]
    BY <1>1 DEF TypeOK
  <2>2. dir[p][x] \in [sharers : SUBSET Caches, exclusive : BOOLEAN]
    BY <1>2, <1>5, <2>1
  <2> DEFINE r == IF f.type = "INV"
                  THEN [dir[p][x] EXCEPT !.sharers = dir[p][x].sharers \ {c}]
                  ELSE [dir[p][x] EXCEPT !.exclusive = FALSE]
  <2>3. /\ r \in [sharers : SUBSET Caches, exclusive : BOOLEAN]
        /\ r.sharers = IF f.type = "INV" THEN dir[p][x].sharers \ {c}
                       ELSE dir[p][x].sharers
        /\ f.type = "INV" => r.exclusive = dir[p][x].exclusive
        /\ f.type = "INVX" => ~ r.exclusive
    BY <2>2
  <2>4. dir' = [dir EXCEPT ![p] = [dir[p] EXCEPT ![x] = r]]
    BY <1>2, <1>7
  <2> HIDE DEF r
  <2> QED
    BY <1>2, <1>5, <2>1, <2>3, <2>4
<1>15. /\ bccLock' \in [Caches -> Threads \cup {None}] /\ bccLock'[c] = None
       /\ \A k \in Caches : k # c => bccLock'[k] = bccLock[k]
       /\ filterLock' \in [Leaves -> Threads \cup {None}]
       /\ c \in Leaves => filterLock'[c] = None
       /\ \A k \in Leaves : k # c => filterLock'[k] = filterLock[k]
  BY <1>1, <1>2, <1>7 DEF TypeOK
<1>16. fresh' \in [Lines -> SUBSET (Caches \cup {Mem})]
  <2>1. fresh \in [Lines -> SUBSET (Caches \cup {Mem})] /\ x \in Lines /\ p \in Caches
    BY <1>1, <1>2, <1>6 DEF TypeOK
  <2>2. Moved(x, c, p) \subseteq Caches \cup {Mem} /\ fresh[x] \subseteq Caches \cup {Mem}
    BY <2>1 DEF Moved
  <2> QED
    BY <1>7, <2>1, <2>2
<1>17. /\ StackType' /\ Below(View, View', t, n - 2)
       /\ View'.depth[t] = n - 1
       /\ View'.calls[t][n - 1] = e
  <2>1. /\ View.depth[t] >= 2 /\ t \in Threads /\ e \in Frame
        /\ stack' = [stack EXCEPT ![t] = <<e>> \o Tail(Tail(@))]
        /\ StackType
    BY <1>1, <1>3, <1>7, <1>9, <1>10
  <2> QED
    BY <1>10, <2>1, AfterFinish
<1>18. TypeOK'
  BY <1>1, <1>7, <1>13, <1>14, <1>15, <1>16, <1>17 DEF TypeOK, StackType
<1>19. Typed(View')
  <2>1. \A k \in Caches : IsFiniteSet(tags'[k])
    BY <1>1, <1>7
  <2> QED
    BY <1>18, <2>1, TypedViewNext
<1>20. Alike(View, View', t, n - 1)
  <2>1. \A d \in 1 .. n - 1 : d \in 1 .. n - 2 \/ d = n - 1
    BY <1>3
  <2> QED
    BY <1>9, <1>10, <1>17, <2>1 DEF Alike, Below
<1>21. CallSound(View', t, n - 1)
  <2>1. /\ Shaped(View, t, n - 1) /\ Own(View, up, n - 1 = View.depth[t])
        /\ n - 1 > 1 => Linked(View, top, up)
        /\ n - 1 > 1 /\ Access(up) => Asked(View, up, top.c)
    BY <1>6, <1>10, <1>3 DEF CallSound
  <2>2. Shaped(View', t, n - 1)
    BY <1>7, <1>9, <1>10, <1>11, <1>17, <2>1 DEF Shaped, Access
  <2>3. x = (IF up.pc = "evict" THEN up.victim ELSE up.line)
        /\ up.pc \in {"evict", "top", "inv"}
    BY <1>2, <1>4, <1>5, <1>10 DEF Linked, Gets, Puts, Invs
  <2>4. Own(View', e, n - 1 = View'.depth[t])
    <3>1. \A l \in Lines : state'[p][l] = state[p][l]
      BY <1>6, <1>13
    <3>2. Excl(View, c, x) => Excl(View, p, x)
      <4>1. Within(View, c, x) /\ p # Mem
        BY <1>2, <1>6, ParentOf DEF Included
      <4> QED
        BY <1>5, <4>1 DEF Within
    <3>3. e.wb => Excl(View', p, x)
      <4>1. CASE up.wb
        <5>1. Excl(View, p, x)
          BY <1>10, <2>1, <2>3, <4>1 DEF Own
        <5> QED
          BY <1>2, <1>11, <3>1, <5>1 DEF Excl
      <4>2. CASE ~ up.wb
        BY <1>2, <1>8, <1>11, <3>1, <3>2, <4>2 DEF Excl
      <4> QED
        BY <4>1, <4>2
    <3>4. up.pc = "top" => View'.state[p][up.line] = View.state[p][up.line]
      BY <1>6, <1>11, <3>1
    <3>5. View'.tags = View.tags /\ up.pc \notin {"end", "accret", "evput", "acc"}
      BY <1>7, <1>11, <2>3
    <3>6. /\ up.pc = "top" /\ up.type = "GETS" => View.state[p][up.line] # "I"
          /\ up.pc = "top" /\ up.type = "GETX" => View.state[p][up.line] = "M"
          /\ up.type \in Gets /\ up.pc \in {"acc", "accret", "top", "end"} =>
                 up.line \in View.tags[p]
      BY <1>10, <2>1 DEF Own
    <3> QED
      BY <1>9, <2>3, <3>3, <3>4, <3>5, <3>6 DEF Own
  <2>5. n - 1 > 1 => Linked(View', top, e)
    <3> SUFFICES ASSUME n - 1 > 1 PROVE Linked(View', top, e)
      OBVIOUS
    <3>1. Linked(View, top, up)
      BY <2>1
    <3>2. up.type \in Invs => \A l \in Lines : dir'[top.c][l] = dir[top.c][l]
      <4> SUFFICES ASSUME up.type \in Invs PROVE \A l \in Lines : dir'[top.c][l] = dir[top.c][l]
        OBVIOUS
      <4>1. Parent[p][up.line] = top.c /\ top.c \in Inner
        BY <1>1, <1>3, <1>10, InvSentBy
      <4>2. top.c # p
        BY <1>6, <4>1, ParentOf
      <4> QED
        BY <1>14, <4>1, <4>2
    <3>3. Linked(View', top, up)
      BY <1>6, <1>11, <3>1, <3>2 DEF Linked, Gets, Puts, Invs
    <3> QED
      BY <1>9, <1>10, <3>3, LinkedAlike
  <2>6. n - 1 > 1 /\ Access(e) => Asked(View', e, top.c)
    <3> SUFFICES ASSUME n - 1 > 1, Access(up) PROVE Asked(View', e, top.c)
      BY <1>9 DEF Access
    <3> DEFINE y == up.line
               now == View'.state[top.c][y]
               old == View.state[top.c][y]
    <3>1. Asked(View, up, top.c) /\ up.pc \in {"evict", "top"} /\ up.type \in Gets
      <4>1. up.type \notin Invs
        BY DEF Access, Gets, Puts, Invs
      <4>2. up.pc # "inv"
        BY <1>4, <1>9, <4>1, <2>1, <1>10 DEF Shaped, Access
      <4>3. up.type \notin Puts
        BY <1>2, <1>4, <1>10, <2>1, <2>3, <4>2 DEF Shaped, Linked, Gets, Puts, Invs
      <4> QED
        BY <2>1, <2>3, <4>2, <4>3 DEF Access
    <3>2. top.c \in Caches
      <4>1. top \in Frame
        BY <1>1, <1>3, <1>10 DEF Sound, Typed
      <4> QED
        BY <4>1, FrameFields
    <3>3. now = old \/ now = "I"
      <4>1. CASE f.type = "INV"
        BY <1>6, <1>10, <1>11, <1>13, <3>2, <4>1
      <4>2. CASE f.type = "INVX"
        <5>1. up.type = "GETS" /\ x = y /\ up.pc = "top"
          BY <1>4, <1>10, <3>1, <4>2 DEF Linked, Gets, Puts, Invs
        <5>2. old = "I"
          BY <3>1, <5>1 DEF Asked
        <5>3. top.c # c
          BY <1>5, <5>1, <5>2
        <5> QED
          BY <1>6, <1>11, <1>13, <3>2, <5>3
      <4> QED
        BY <1>2, <4>1, <4>2
    <3>4. e.type \notin Puts
      BY <1>9, <3>1 DEF Gets, Puts
    <3> QED
      BY <1>9, <3>1, <3>3, <3>4 DEF Asked
  <2> QED
    BY <1>3, <1>17, <2>2, <2>4, <2>5, <2>6, <1>10 DEF CallSound, Below
<1>22. Locking(View, View', t, n)
  <2>1. HasBcc(View, t, n)
    BY <1>1 DEF HasBcc
  <2>2. \A d \in 1 .. View'.depth[t] : d >= n \/ d = View'.depth[t] => d = n - 1
    BY <1>1, <1>17
  <2>3. View.bcc[p] = t /\ (InAccess(View, t, n - 1) => View.tcc[p] = t)
    BY <1>1, <1>3, <1>5, <1>10 DEF Sound, Locked
  <2>4. bccLock'[p] = t
    BY <1>6, <1>11, <1>15, <2>3
  <2>5. InAccess(View', t, n - 1) => InAccess(View, t, n - 1)
    BY <1>9, <1>10, <1>17 DEF InAccess, Access
  <2>6. p \notin Leaves /\ n - 1 <= n /\ View.calls[t][n].c = c
        /\ View.calls[t][n].pc = "inv" /\ View.calls[t][n - 1].c = p
    BY <1>1, <1>3, <1>5, <1>10 DEF Inner
  <2>7. View'.calls[t][n - 1].c = p
    BY <1>9, <1>17
  <2>8. View'.tcc = View.tcc
    BY <1>7, <1>11
  <2> QED
    BY <1>2, <1>5, <1>11, <1>15, <2>1, <2>2, <2>3, <2>4, <2>5, <2>6, <2>7, <2>8 DEF Locking
<1>23. Step(View, View', t, n - 2)
  <2>1. Reach(View, View', t, n)
    <3>1. \A k \in Caches, l \in Lines :
              \/ state'[k][l] = state[k][l]
              \/ /\ k = c /\ l = x
                 /\ \/ state'[k][l] = "I"
                    \/ state'[k][l] = "S" /\ state[k][l] \in {"E", "M"}
      BY <1>2, <1>5, <1>10, <1>11, <1>13 DEF Excl
    <3>2. \A q \in Inner, l \in Lines :
              \/ dir'[q][l] = dir[q][l]
              \/ q = p /\ dir'[q][l].sharers \subseteq dir[q][l].sharers
      BY <1>14
    <3>3. \A k \in Caches : View'.tags[k] = View.tags[k]
      BY <1>7, <1>11
    <3>4. /\ View.calls[t][n].c = c /\ View.calls[t][n].line = x
          /\ View.calls[t][n].type \in Invs /\ View.calls[t][n].pc = "inv" /\ n > 1
          /\ View.calls[t][n - 1].c = p
      BY <1>1, <1>2, <1>3, <1>10
    <3> QED
      BY <1>11, <3>1, <3>2, <3>3, <3>4 DEF Reach
  <2>2. \A d \in 1 .. View'.depth[t] : d > n - 2 \/ d = View'.depth[t] => d = n - 1
    BY <1>3, <1>17
  <2>3. \A d \in 1 .. View'.depth[t] : d > n - 2 \/ d = View'.depth[t] =>
            CallSound(View', t, d)
    BY <1>21, <2>2
  <2>4. \A d \in n .. View'.depth[t] :
            Access(View'.calls[t][d]) => Access(View.calls[t][n]) /\ Access(View'.calls[t][n])
    BY <1>1, <1>17
  <2> QED
    BY <1>1, <1>3, <1>10, <1>17, <1>20, <1>22, <2>1, <2>3, <2>4 DEF Step
<1>24. Locked(View') /\ Alone(View') /\ UpThenDown(View') /\ CallsSound(View')
  BY <1>1, <1>3, <1>19, <1>23, StepCalls
<1>25. Filtered(View')
  <2>1. \A d \in View.depth[t] .. View'.depth[t] :
            ~ (View'.calls[t][d].pc = "inv" /\ View'.calls[t][d].c \in Leaves)
    BY <1>1, <1>10, <1>17
  <2>2. View'.depth[t] >= 1 /\ View'.filter = View.filter
    BY <1>3, <1>7, <1>11, <1>17
  <2> QED
    BY <1>1, <1>3, <1>19, <1>23, <2>1, <2>2, FilteredKept
<1>26. \A q, l, k : Upgrading(View, q, l, k) => Upgrading(View', q, l, k)
  <2>1. Proceeds(View, View', t)
    <3>1. View.calls[t][View.depth[t]].pc # "top"
      BY <1>1, <1>10
    <3> QED
      BY <3>1 DEF Proceeds
  <2>2. /\ Alike(View, View', t, View.depth[t] - 1)
        /\ View'.depth[t] >= View.depth[t] - 1
    BY <1>3, <1>10, <1>17, <1>20
  <2> QED
    BY <1>6, <1>19, <2>1, <2>2, UpgradingKept
<1>27. Directory(View')
  <2>1. ASSUME f.type = "INV" PROVE Entry(View', p, x)
    <3>1. \A k \in dir'[p][x].sharers :
              k \in Caches /\ k # c /\ k \in dir[p][x].sharers
      BY <1>2, <1>5, <1>6, <1>11, <1>14, <2>1 DEF Typed
    <3>2. \A k \in Caches : k # c => state'[k][x] = state[k][x]
      BY <1>2, <1>13
    <3>3. state'[c][x] = "I"
      BY <1>10, <1>13, <2>1
    <3>4. \A k \in dir'[p][x].sharers :
              /\ Parent[k][x] = p /\ View'.state[k][x] # "I"
              /\ Excl(View', k, x) <=> View'.dir[p][x].exclusive
      BY <1>6, <1>11, <1>14, <2>1, <3>1, <3>2 DEF Entry, Excl
    <3>5. View'.dir[p][x].exclusive => \A j, k \in View'.dir[p][x].sharers : j = k
      BY <1>6, <1>11, <1>14, <2>1, <3>1 DEF Entry
    <3>6. \A k \in Caches \ View'.dir[p][x].sharers :
              Parent[k][x] = p /\ View'.state[k][x] # "I" =>
                  ~ View'.dir[p][x].exclusive /\ View'.state[k][x] = "S"
                  /\ Upgrading(View', p, x, k)
      <4> TAKE k \in Caches \ View'.dir[p][x].sharers
      <4> HAVE Parent[k][x] = p /\ View'.state[k][x] # "I"
      <4>1. k # c /\ k \notin dir[p][x].sharers
        BY <1>11, <1>14, <2>1, <3>3
      <4>2. View'.state[k][x] = View.state[k][x]
        BY <1>11, <3>2, <4>1
      <4> QED
        BY <1>6, <1>11, <1>14, <1>26, <2>1, <4>1, <4>2 DEF Entry
    <3> QED
      BY <1>11, <3>4, <3>5, <3>6 DEF Entry
  <2>2. ASSUME f.type = "INVX" PROVE Entry(View', p, x)
    <3>1. View.dir[p][x].exclusive
      BY <1>4, <1>10, <2>2 DEF Linked, Gets, Puts, Invs
    <3>2. \A k \in dir[p][x].sharers : k = c
      BY <1>5, <1>6, <1>11, <3>1 DEF Entry
    <3>3. state'[c][x] = "S"
      BY <1>10, <1>13, <2>2
    <3>4. \A k \in Caches \ dir[p][x].sharers : ~ (Parent[k][x] = p /\ state'[k][x] # "I")
      <4> TAKE k \in Caches \ dir[p][x].sharers
      <4>1. k # c
        BY <1>5, <1>11
      <4>2. state'[k][x] = state[k][x]
        BY <1>2, <1>13, <4>1
      <4> QED
        BY <1>6, <1>11, <3>1, <4>2 DEF Entry
    <3>5. dir'[p][x].sharers = dir[p][x].sharers /\ ~ dir'[p][x].exclusive
      BY <1>14, <2>2
    <3> QED
      BY <1>5, <1>11, <3>2, <3>3, <3>4, <3>5 DEF Entry, Excl
  <2> SUFFICES ASSUME NEW q \in Inner, NEW l \in Lines, ~ (q = p /\ l = x)
               PROVE  Entry(View', q, l)
    BY <1>2, <2>1, <2>2 DEF Directory
  <2>3. \A k \in Caches : Parent[k][l] = q =>
            \/ View'.state[k][l] = View.state[k][l]
            \/ Excl(View, k, l) /\ Excl(View', k, l)
    BY <1>5, <1>11, <1>13
  <2>4. Entry(View, q, l) /\ View.dir[q][l].sharers \subseteq Caches
    BY <1>6 DEF Directory, Typed
  <2>5. View'.dir[q][l] = View.dir[q][l]
    BY <1>11, <1>14
  <2>6. \A k \in Caches : Upgrading(View, q, l, k) => Upgrading(View', q, l, k)
    BY <1>26
  <2> QED
    BY <2>3, <2>4, <2>5, <2>6, EntryKept
<1>28. Included(View')
  <2> SUFFICES ASSUME NEW k \in Caches, NEW l \in Lines PROVE Within(View', k, l)
    BY DEF Included
  <2>1. Within(View, k, l)
    BY <1>6 DEF Included
  <2>2. CASE k = c /\ l = x
    <3>1. View'.state[p][x] = View.state[p][x]
      BY <1>2, <1>6, <1>11, <1>13
    <3>2. ~ Excl(View', c, x)
      BY <1>10, <1>11, <1>13 DEF Excl
    <3> QED
      BY <1>5, <1>7, <1>11, <2>1, <2>2, <3>1, <3>2 DEF Within
  <2>3. CASE Parent[k][l] = c /\ l = x /\ ~ (k = c /\ l = x)
    <3>1. c \in Inner
      <4>1. c # Mem
        BY <1>2, ParentOf
      <4> QED
        BY <2>3, <4>1, ParentOf
    <3>2. /\ View'.state[k][l] = View.state[k][l]
          /\ View'.state[c][x] = new
      BY <1>11, <1>13, <2>3
    <3>3. CASE dir[c][x].sharers = {}
      <4>1. HasBcc(View, t, n) /\ View.calls[t][n].pc # "top" /\ View.calls[t][n].c = c
        BY <1>1, <1>10 DEF HasBcc
      <4>2. View.dir[View.calls[t][n].c][x].sharers = {}
        BY <1>11, <3>3, <4>1
      <4>3. View.state[k][x] = "I"
        BY <1>1, <1>2, <2>3, <3>1, <4>1, <4>2, NoChild
      <4> QED
        BY <2>3, <3>2, <4>3 DEF Within
    <3>4. CASE f.type = "INVX" /\ ~ DirExclusive(c, x) /\ dir[c][x].sharers # {}
      <4>1. ~ (View.dir[c][x].exclusive = TRUE)
        BY <1>1, <1>2, <1>11, <3>1, <3>4, ExclusiveEntry
      <4>2. Entry(View, c, x)
        BY <1>2, <1>6, <3>1 DEF Directory
      <4>3. View.dir[c][x].exclusive \in BOOLEAN
        BY <1>2, <1>6, <3>1 DEF Typed
      <4>4. ~ Excl(View, k, x)
        BY <2>3, <4>1, <4>2, <4>3 DEF Entry, Excl
      <4>5. new = "S"
        BY <1>10, <3>4
      <4> QED
        BY <1>7, <1>11, <2>1, <2>3, <3>2, <4>4, <4>5 DEF Within, Excl
    <3> QED
      BY <1>12, <3>1, <3>3, <3>4
  <2>4. CASE ~ (k = c /\ l = x) /\ ~ (Parent[k][l] = c /\ l = x)
    <3>1. View'.state[k][l] = View.state[k][l]
      BY <1>11, <1>13, <2>4
    <3>2. Parent[k][l] # Mem =>
              View'.state[Parent[k][l]][l] = View.state[Parent[k][l]][l]
      BY <1>11, <1>13, <2>4, ParentOf
    <3>3. View'.tags = View.tags
      BY <1>7, <1>11
    <3> QED
      BY <2>1, <3>1, <3>2, <3>3 DEF Within, Excl
  <2> QED
    BY <2>2, <2>3, <2>4
<1> QED
  BY <1>18, <1>19, <1>24, <1>25, <1>27, <1>28 DEF Sound, MESIInv
\* A call goes on or returns, and no cache's data changes.
Settling(h, g, t, n) ==
    /\ n >= 1 /\ h.depth[t] = n /\ g.depth[t] \in {n - 1, n}
    /\ Below(h, g, t, n - 1)
    /\ h.calls[t][n].pc # "top"
    /\ g.state = h.state /\ g.dir = h.dir /\ g.tags = h.tags
    /\ Locking(h, g, t, n)
    /\ g.depth[t] = n =>
           /\ Access(g.calls[t][n]) => Access(h.calls[t][n])
           /\ CallSound(g, t, n)
    /\ g.depth[t] = n - 1 /\ n > 1 => CallSound(g, t, n - 1)

\* Such a step keeps all but the filters in order.
LEMMA SettlingSound ==
    ASSUME NEW h, NEW g, NEW t \in Threads, NEW n \in Nat,
           Sound(h), Typed(g), Settling(h, g, t, n)
    PROVE  /\ n - 1 \in Nat /\ Step(h, g, t, n - 1)
           /\ Locked(g) /\ Alone(g) /\ UpThenDown(g) /\ CallsSound(g)
           /\ Directory(g) /\ Included(g)
<1>1. /\ n - 1 \in Nat /\ n >= 1 /\ h.depth[t] = n /\ g.depth[t] \in {n - 1, n}
      /\ Below(h, g, t, n - 1)
  BY DEF Settling
<1>2. Reach(h, g, t, n)
  BY DEF Reach, Settling
<1>3. Alike(h, g, t, n - 1)
  BY <1>1, BelowAlike
<1>4. \A d \in n .. g.depth[t] : d = n /\ g.depth[t] = n
  BY <1>1
<1>5. ASSUME NEW d \in 1 .. g.depth[t], d > n - 1 \/ d = g.depth[t]
      PROVE  CallSound(g, t, d)
  <2>1. CASE g.depth[t] = n
    <3>1. d = n
      BY <1>1, <1>5, <2>1
    <3> QED
      BY <2>1, <3>1 DEF Settling
  <2>2. CASE g.depth[t] = n - 1
    <3>1. d = n - 1 /\ n > 1
      BY <1>1, <1>5, <2>2
    <3> QED
      BY <2>2, <3>1 DEF Settling
  <2> QED
    BY <1>1, <2>1, <2>2
<1>6. Step(h, g, t, n - 1)
  <2>1. \A d \in n .. g.depth[t] :
            Access(g.calls[t][d]) => Access(h.calls[t][n]) /\ Access(g.calls[t][n])
    BY <1>4 DEF Settling
  <2>2. n - 1 < n /\ Locking(h, g, t, n) /\ g.depth[t] \in {n - 1, n, n + 1}
    BY <1>1 DEF Settling
  <2> QED
    BY <1>1, <1>2, <1>3, <1>5, <2>1, <2>2 DEF Step
<1>7. Locked(g) /\ Alone(g) /\ UpThenDown(g) /\ CallsSound(g)
  BY <1>1, <1>6, StepCalls
<1>8. Directory(g) /\ Included(g)
  <2>1. Proceeds(h, g, t)
    BY <1>1 DEF Proceeds, Settling
  <2>2. g.dir = h.dir /\ g.state = h.state /\ g.tags = h.tags
    BY DEF Settling
  <2> QED
    BY <1>1, <1>6, <2>1, <2>2, NoDirStep
<1> QED
  BY <1>1, <1>6, <1>7, <1>8

\* CC::endAccess: the caller has its lock again, and the line it asked for.
LEMMA endAccessStep ==
    ASSUME MESIInv, NEW t \in Threads, endAccess(t) PROVE MESIInv'
<1> DEFINE f == Top(t)
           n == View.depth[t]
           up == View.calls[t][n - 1]
           c == f.c
           ch == up.c
<1>1. /\ n \in Nat /\ n \in 1 .. View.depth[t] /\ n >= 1
      /\ View.calls[t][n] = f /\ f \in Frame
      /\ Sound(View) /\ TypeOK /\ Shaped(View, t, n)
      /\ StackType /\ (\A k \in Caches : IsFiniteSet(tags[k]))
      /\ f.pc = "end" /\ c \notin Leaves /\ stack[t] # << >>
  BY Acting DEF endAccess, At, MESIInv
<1>2. /\ Access(f) /\ c \in Caches /\ c \in Inner /\ n # 1
  BY <1>1, FrameFields DEF Shaped, Access, Gets, Puts, Invs, Inner
<1>3. /\ n \in 2 .. View.depth[t] /\ n > 1 /\ n - 1 \in 1 .. View.depth[t]
      /\ n - 1 \in 1 .. n - 1 /\ n - 1 \in Nat /\ n - 1 # n /\ n - 1 <= n
  BY <1>1, <1>2
<1>4. /\ Caller(t) = up /\ Linked(View, up, f) /\ up \in Frame /\ Asked(View, f, ch)
  BY <1>1, <1>2, <1>3, Acting DEF endAccess, At
<1>5. ch \in Caches /\ Parent[ch][f.line] = c /\ ch # c
  <2>1. f.line \in Lines /\ ch \in Caches
    BY <1>1, <1>4, FrameFields
  <2>2. Parent[ch][f.line] = c
    BY <1>2, <1>4 DEF Linked, Access, Gets, Puts, Invs
  <2> QED
    BY <2>1, <2>2, ParentOf
<1>6. /\ bccLock[ch] = None
      /\ bccLock' = [bccLock EXCEPT ![ch] = t, ![c] = None]
      /\ tccLock' = [tccLock EXCEPT ![c] = None]
      /\ Return(t)
      /\ UNCHANGED <<state, tags, dir, filterLock, filter, fresh>>
  BY <1>4 DEF endAccess
<1>7. /\ View.state = state /\ View'.state = state /\ View.dir = dir /\ View'.dir = dir
      /\ View.tags = tags /\ View'.tags = tags
      /\ View.bcc = bccLock /\ View'.bcc = bccLock'
      /\ View.tcc = tccLock /\ View'.tcc = tccLock'
      /\ View.flt = filterLock /\ View'.flt = filterLock
      /\ View.filter = filter /\ View'.filter = filter
  BY <1>6, ViewFields, ViewFieldsNext
<1>8. CallSound(View, t, n - 1)
  <2>1. CallsSound(View)
    BY <1>1 DEF Sound
  <2> QED
    BY <1>3, <2>1 DEF CallsSound
<1>9. /\ StackType' /\ Below(View, View', t, n - 1) /\ View'.depth[t] = n - 1
  BY <1>1, <1>6, AfterReturn
<1>10. View.depth[t] = n /\ View.calls[t][n - 1] = up /\ c = f.c /\ ch = up.c
  OBVIOUS
<1> HIDE DEF f, n, up, c, ch
<1>11. /\ bccLock' \in [Caches -> Threads \cup {None}]
       /\ bccLock'[ch] = t /\ bccLock'[c] = None
       /\ \A k \in Caches : k # c /\ k # ch => bccLock'[k] = bccLock[k]
       /\ tccLock' \in [Inner -> Threads \cup {None}] /\ tccLock'[c] = None
       /\ \A k \in Inner : k # c => tccLock'[k] = tccLock[k]
  BY <1>1, <1>2, <1>5, <1>6 DEF TypeOK
<1>12. TypeOK'
  BY <1>1, <1>6, <1>9, <1>11 DEF TypeOK, StackType
<1>13. Typed(View')
  <2>1. \A k \in Caches : IsFiniteSet(tags'[k])
    BY <1>1, <1>6
  <2> QED
    BY <1>12, <2>1, TypedViewNext
<1>14. View'.calls[t][n - 1] = up
       /\ (n - 1 > 1 => View'.calls[t][n - 2] = View.calls[t][n - 2])
       /\ (n - 1) - 1 = n - 2
  <2>1. n - 1 > 1 => n - 2 \in 1 .. n - 1
    BY <1>3
  <2>2. (n - 1) - 1 = n - 2
    BY <1>3
  <2> QED
    BY <1>3, <1>9, <1>10, <2>1, <2>2 DEF Below
<1>15. CallSound(View', t, n - 1)
  <2>1. /\ Shaped(View, t, n - 1) /\ Own(View, up, n - 1 = View.depth[t])
        /\ n - 1 > 1 => Linked(View, View.calls[t][n - 2], up)
        /\ n - 1 > 1 /\ Access(up) => Asked(View, up, View.calls[t][n - 2].c)
    BY <1>8, <1>10, <1>14 DEF CallSound
  <2>2. Shaped(View', t, n - 1)
    BY <1>7, <1>10, <1>14, <2>1 DEF Shaped
  <2>3. \/ f.type = up.type /\ f.type \in Gets /\ up.pc = "accret" /\ f.line = up.line
        \/ f.type \in Puts /\ up.pc = "evput" /\ f.line = up.victim
    BY <1>2, <1>4 DEF Linked, Access, Gets, Puts, Invs
  <2>4. /\ f.type = "GETS" => View.state[ch][f.line] \in {"S", "E"}
        /\ f.type = "GETX" => View.state[ch][f.line] = "M"
        /\ f.type \in Puts => View.state[ch][f.line] = "I"
    BY <1>1, <1>4 DEF Asked
  <2>5. Own(View', up, TRUE)
    <3>1. /\ up.pc = "accret" => /\ up.type = "GETS" => View'.state[ch][up.line] \in {"S", "E"}
                                 /\ up.type = "GETX" => View'.state[ch][up.line] = "M"
          /\ up.pc = "evput" => View'.state[ch][up.victim] = "I"
      BY <1>7, <2>3, <2>4
    <3> QED
      BY <1>7, <1>10, <2>1, <3>1 DEF Own, Excl
  <2>6. /\ n - 1 > 1 => Linked(View', View.calls[t][n - 2], up)
        /\ n - 1 > 1 /\ Access(up) => Asked(View', up, View.calls[t][n - 2].c)
    BY <1>7, <2>1 DEF Linked, Asked
  <2> QED
    BY <1>9, <1>14, <2>2, <2>5, <2>6 DEF CallSound
<1>16. Locking(View, View', t, n)
  <2>1. HasBcc(View, t, n) /\ InAccess(View, t, n)
    BY <1>1, <1>2 DEF HasBcc, InAccess
  <2>2. \A d \in 1 .. View'.depth[t] : d >= n \/ d = View'.depth[t] => d = n - 1
    BY <1>1, <1>9
  <2>3. InAccess(View, t, n - 1) /\ ch \in Inner => View.tcc[ch] = t
    BY <1>1, <1>3, <1>10 DEF Sound, Locked
  <2>4. InAccess(View', t, n - 1) => InAccess(View, t, n - 1)
    BY <1>10, <1>14 DEF InAccess
  <2>5. View'.calls[t][n - 1].pc # "inv" /\ View'.calls[t][n - 1].c = ch
        /\ View.calls[t][n - 1].c = ch /\ View.calls[t][n].c = c
    BY <1>1, <1>2, <1>4, <1>10, <1>14 DEF Linked, Access, Gets, Puts, Invs
  <2>6. ch \in Inner /\ InAccess(View', t, n - 1) => tccLock'[ch] = t
    BY <1>5, <1>7, <1>11, <2>3, <2>4
  <2>7. \A k \in Caches :
            \/ View'.bcc[k] = View.bcc[k]
            \/ View.bcc[k] = None /\ View'.bcc[k] = t
            \/ k = View.calls[t][n].c /\ HasBcc(View, t, n) /\ View'.bcc[k] = None
    BY <1>6, <1>7, <1>11, <2>1, <2>5
  <2>8. \A k \in Inner :
            \/ View'.tcc[k] = View.tcc[k]
            \/ k = View.calls[t][n].c /\ InAccess(View, t, n) /\ View'.tcc[k] = None
    BY <1>7, <1>11, <2>1, <2>5
  <2>9. \A k \in Leaves : View'.flt[k] = View.flt[k]
    BY <1>7
  <2>10. View'.bcc[ch] = t /\ View.bcc[ch] = None /\ n - 1 = View'.depth[t] /\ n - 1 <= n
    BY <1>3, <1>6, <1>7, <1>9, <1>11
  <2>11. InAccess(View', t, n - 1) /\ ch \in Inner =>
             /\ View'.tcc[ch] = t /\ InAccess(View, t, n - 1)
    BY <1>7, <2>4, <2>6
  <2> QED
    BY <2>2, <2>5, <2>7, <2>8, <2>9, <2>10, <2>11 DEF Locking
<1>17. Settling(View, View', t, n)
  <2>1. n - 1 # n /\ View.calls[t][n].pc # "top"
    BY <1>1, <1>3
  <2> QED
    BY <1>1, <1>7, <1>9, <1>10, <1>15, <1>16, <2>1 DEF Settling
<1>18. /\ n - 1 \in Nat /\ Step(View, View', t, n - 1)
       /\ Locked(View') /\ Alone(View') /\ UpThenDown(View') /\ CallsSound(View')
       /\ Directory(View') /\ Included(View')
  BY <1>1, <1>13, <1>17, SettlingSound
<1>19. Filtered(View')
  <2>1. \A d \in View.depth[t] .. View'.depth[t] :
            ~ (View'.calls[t][d].pc = "inv" /\ View'.calls[t][d].c \in Leaves)
    BY <1>3, <1>9, <1>10
  <2>2. View'.depth[t] >= 1 /\ View'.filter = View.filter
    BY <1>3, <1>7, <1>9
  <2> QED
    BY <1>1, <1>13, <1>18, <2>1, <2>2, FilteredKept
<1> QED
  BY <1>12, <1>13, <1>18, <1>19 DEF Sound, MESIInv
\* FilterCache::replace ends: the line it asked for is in the filter.
LEMMA endReplaceStep ==
    ASSUME MESIInv, NEW t \in Threads, endReplace(t) PROVE MESIInv'
<1> DEFINE f == Top(t)
           n == View.depth[t]
<1>1. /\ n \in Nat /\ n \in 1 .. View.depth[t] /\ n >= 1
      /\ View.calls[t][n] = f /\ f \in Frame
      /\ Sound(View) /\ TypeOK /\ Shaped(View, t, n) /\ Own(View, f, TRUE)
      /\ StackType /\ (\A k \in Caches : IsFiniteSet(tags[k]))
      /\ f.pc = "end" /\ f.c \in Leaves /\ stack[t] # << >>
  BY Acting DEF endReplace, At, MESIInv
<1>2. /\ Access(f) /\ n = 1 /\ f.c = t /\ f.type \in Gets /\ f.line \in Lines
  BY <1>1, FrameFields DEF Shaped, Access, Gets, Puts, Invs
<1>3. /\ filterLock[t] = None
      /\ filter' = [filter EXCEPT ![t] =
             [rd |-> f.line, wr |-> IF f.type = "GETS" THEN None ELSE f.line]]
      /\ bccLock' = [bccLock EXCEPT ![t] = None]
      /\ Return(t)
      /\ UNCHANGED <<state, tags, dir, tccLock, filterLock, fresh>>
  BY DEF endReplace
<1>4. t \in Leaves /\ t \in Caches /\ t \notin Inner /\ t # None
  BY HierarchyAssumption DEF Threads, Inner
<1>5. /\ View.state = state /\ View'.state = state /\ View.dir = dir /\ View'.dir = dir
      /\ View.tags = tags /\ View'.tags = tags
      /\ View.bcc = bccLock /\ View'.bcc = bccLock'
      /\ View.tcc = tccLock /\ View'.tcc = tccLock
      /\ View.flt = filterLock /\ View'.flt = filterLock
      /\ View.filter = filter /\ View'.filter = filter'
  BY <1>3, ViewFields, ViewFieldsNext
<1>6. /\ StackType' /\ Below(View, View', t, n - 1) /\ View'.depth[t] = n - 1
  BY <1>1, <1>3, AfterReturn
<1>7. View.depth[t] = n
  OBVIOUS
<1> HIDE DEF f, n
<1>8. /\ bccLock' \in [Caches -> Threads \cup {None}] /\ bccLock'[t] = None
      /\ \A k \in Caches : k # t => bccLock'[k] = bccLock[k]
      /\ filter' \in [Leaves -> [rd : Lines \cup {None}, wr : Lines \cup {None}]]
      /\ filter'[t].rd = f.line
      /\ filter'[t].wr = IF f.type = "GETS" THEN None ELSE f.line
      /\ \A k \in Leaves : k # t => filter'[k] = filter[k]
  BY <1>1, <1>2, <1>3, <1>4 DEF TypeOK
<1>9. TypeOK'
  BY <1>1, <1>3, <1>6, <1>8 DEF TypeOK, StackType
<1>10. Typed(View')
  <2>1. \A k \in Caches : IsFiniteSet(tags'[k])
    BY <1>1, <1>3
  <2> QED
    BY <1>9, <2>1, TypedViewNext
<1>11. Locking(View, View', t, n)
  <2>1. HasBcc(View, t, n)
    BY <1>1 DEF HasBcc
  <2>2. \A d \in 1 .. View'.depth[t] : FALSE
    BY <1>2, <1>6
  <2> QED
    BY <1>1, <1>2, <1>5, <1>8, <2>1, <2>2 DEF Locking
<1>12. Settling(View, View', t, n)
  <2>1. View'.depth[t] # n /\ ~ (n > 1) /\ View.calls[t][n].pc # "top"
    BY <1>1, <1>2, <1>6
  <2> QED
    BY <1>1, <1>5, <1>6, <1>7, <1>11, <2>1 DEF Settling
<1>13. /\ Locked(View') /\ Alone(View') /\ UpThenDown(View') /\ CallsSound(View')
       /\ Directory(View') /\ Included(View')
  BY <1>1, <1>10, <1>12, SettlingSound
<1>14. Filtered(View')
  <2>1. /\ f.type = "GETS" => state[t][f.line] # "I"
        /\ f.type = "GETX" => state[t][f.line] = "M"
    BY <1>1, <1>2, <1>5 DEF Own
  <2>2. f.type \in {"GETS", "GETX"} /\ f.line # None
    BY <1>2, HierarchyAssumption DEF Gets
  <2>3. /\ filter'[t].rd # None => state[t][filter'[t].rd] # "I"
        /\ filter'[t].wr # None => state[t][filter'[t].wr] = "M"
        /\ filter'[t].wr \in {None, filter'[t].rd}
    BY <1>8, <2>1, <2>2
  <2>4. \A u \in Threads : u # t =>
            View'.depth[u] = View.depth[u] /\ View'.calls[u] = View.calls[u]
    BY <1>6 DEF Below
  <2>5. \A u \in Threads : u # t => u \in Leaves /\ filter'[u] = filter[u]
    BY <1>8 DEF Threads
  <2> SUFFICES ASSUME OneProcess PROVE
          /\ \A u \in Threads :
                /\ View'.depth[u] = 0 /\ filter'[u].rd # None =>
                       state[u][filter'[u].rd] # "I"
                /\ View'.depth[u] = 0 /\ filter'[u].wr # None =>
                       state[u][filter'[u].wr] = "M"
                /\ filter'[u].wr \in {None, filter'[u].rd}
          /\ \A u \in Threads : \A d \in 1 .. View'.depth[u] :
                View'.calls[u][d].pc = "inv" /\ View'.calls[u][d].c \in Leaves =>
                    filter'[View'.calls[u][d].c].rd # View'.calls[u][d].line
    BY <1>5 DEF Filtered
  <2>6. /\ \A u \in Threads :
              /\ View.depth[u] = 0 /\ filter[u].rd # None =>
                     state[u][filter[u].rd] # "I"
              /\ View.depth[u] = 0 /\ filter[u].wr # None =>
                     state[u][filter[u].wr] = "M"
              /\ filter[u].wr \in {None, filter[u].rd}
        /\ \A u \in Threads : \A d \in 1 .. View.depth[u] :
              View.calls[u][d].pc = "inv" /\ View.calls[u][d].c \in Leaves =>
                  filter[View.calls[u][d].c].rd # View.calls[u][d].line
    BY <1>1, <1>5 DEF Sound, Filtered
  <2>7. ASSUME NEW u \in Threads
        PROVE  /\ View'.depth[u] = 0 /\ filter'[u].rd # None =>
                      state[u][filter'[u].rd] # "I"
               /\ View'.depth[u] = 0 /\ filter'[u].wr # None =>
                      state[u][filter'[u].wr] = "M"
               /\ filter'[u].wr \in {None, filter'[u].rd}
    BY <2>3, <2>4, <2>5, <2>6
  <2>8. ASSUME NEW u \in Threads, NEW d \in 1 .. View'.depth[u],
               View'.calls[u][d].pc = "inv", View'.calls[u][d].c \in Leaves
        PROVE  filter'[View'.calls[u][d].c].rd # View'.calls[u][d].line
    <3>1. u # t
      BY <1>2, <1>6, <2>8
    <3>2. View'.calls[u] = View.calls[u] /\ d \in 1 .. View.depth[u]
      BY <2>4, <3>1
    <3>3. View.flt[View.calls[u][d].c] = u
      BY <1>1, <2>8, <3>2 DEF Sound, Locked
    <3>4. View.calls[u][d].c # t
      BY <1>3, <1>5, <3>3, HierarchyAssumption DEF Threads
    <3> QED
      BY <1>8, <2>6, <2>8, <3>2, <3>4
  <2> QED
    BY <2>7, <2>8
<1> QED
  BY <1>9, <1>10, <1>13, <1>14 DEF Sound, MESIInv

\* FilterCache::invalidate: the line is not in the filter any more.
LEMMA invalidateFilterStep ==
    ASSUME MESIInv, NEW t \in Threads, invalidateFilter(t) PROVE MESIInv'
<1> DEFINE f == Top(t)
           n == View.depth[t]
           e == [f EXCEPT !.pc = "inv"]
           c == f.c
           up == View.calls[t][n - 1]
<1>1. /\ n \in Nat /\ n \in 1 .. View.depth[t] /\ n >= 1
      /\ View.calls[t][n] = f /\ f \in Frame
      /\ Sound(View) /\ TypeOK /\ Shaped(View, t, n) /\ Own(View, f, TRUE)
      /\ StackType /\ (\A k \in Caches : IsFiniteSet(tags[k]))
      /\ f.pc = "iflock" /\ stack[t] # << >>
      /\ (n > 1 => Linked(View, up, f))
  BY Acting DEF invalidateFilter, At, MESIInv
<1>2. /\ ~ Access(f) /\ f.type \in Invs /\ c \in Leaves /\ f.line \in Lines /\ n > 1
  BY <1>1, FrameFields DEF Shaped, Access, Gets, Puts, Invs
<1>3. /\ filterLock[c] = None
      /\ filterLock' = [filterLock EXCEPT ![c] = t]
      /\ filter' = [filter EXCEPT ![c] = FilterAfter(t, f)]
      /\ Become(t, e)
      /\ UNCHANGED <<state, tags, dir, bccLock, tccLock, fresh>>
  BY DEF invalidateFilter, Goto
<1>4. c \in Caches /\ c \notin Inner /\ t \in Leaves
  BY <1>2, HierarchyAssumption DEF Inner, Threads
<1>5. /\ View.state = state /\ View'.state = state /\ View.dir = dir /\ View'.dir = dir
      /\ View.tags = tags /\ View'.tags = tags
      /\ View.bcc = bccLock /\ View'.bcc = bccLock
      /\ View.tcc = tccLock /\ View'.tcc = tccLock
      /\ View.flt = filterLock /\ View'.flt = filterLock'
      /\ View.filter = filter /\ View'.filter = filter'
  BY <1>3, ViewFields, ViewFieldsNext
<1>6. /\ e \in Frame
      /\ e.c = f.c /\ e.line = f.line /\ e.type = f.type /\ e.wb = f.wb
      /\ e.victim = f.victim /\ e.pc = "inv"
  BY <1>1 DEF Frame
<1>7. /\ StackType' /\ Below(View, View', t, n - 1) /\ View'.depth[t] = n
      /\ View'.calls[t][n] = e
  BY <1>1, <1>3, <1>6, AfterBecome
<1>8. View.depth[t] = n /\ c = f.c
      /\ (FilterAfter(t, f) = IF filter[c].rd = f.line /\ Proc[t] = Proc[f.line]
                             THEN [rd |-> None, wr |-> None] ELSE filter[c])
  BY DEF FilterAfter
<1>9. CallSound(View', t, n)
  <2>1. Shaped(View', t, n)
    BY <1>1, <1>2, <1>5, <1>6, <1>7 DEF Shaped, Access, Gets, Puts, Invs
  <2>2. Own(View', e, TRUE)
    <3> HIDE DEF e
    <3>1. ~ e.wb
      BY <1>1, <1>6 DEF Own
    <3> QED
      BY <1>6, <3>1 DEF Own
  <2>3. Linked(View', up, e)
    <3> HIDE DEF e, up, f, n
    <3>1. Linked(View', up, f)
      BY <1>1, <1>2, <1>5 DEF Linked
    <3> QED
      BY <1>6, <3>1, LinkedAlike
  <2>4. View'.calls[t][n - 1] = up
    <3>1. n - 1 \in 1 .. n - 1
      BY <1>1, <1>2
    <3> QED
      BY <1>7, <3>1 DEF Below
  <2>5. ~ Access(e)
    BY <1>2, <1>6 DEF Access
  <2> QED
    BY <1>7, <2>1, <2>2, <2>3, <2>4, <2>5 DEF CallSound
<1> HIDE DEF f, n, e, c, up
<1>10. /\ filterLock' \in [Leaves -> Threads \cup {None}] /\ filterLock'[c] = t
       /\ \A k \in Leaves : k # c => filterLock'[k] = filterLock[k]
  BY <1>1, <1>2, <1>3 DEF TypeOK
<1>11. /\ filter' \in [Leaves -> [rd : Lines \cup {None}, wr : Lines \cup {None}]]
       /\ filter'[c] = FilterAfter(t, f)
       /\ \A k \in Leaves : k # c => filter'[k] = filter[k]
  <2>1. FilterAfter(t, f) \in [rd : Lines \cup {None}, wr : Lines \cup {None}]
    BY <1>1, <1>2, <1>8 DEF TypeOK
  <2> QED
    BY <1>1, <1>2, <1>3, <2>1 DEF TypeOK
<1>12. TypeOK'
  BY <1>1, <1>3, <1>7, <1>10, <1>11 DEF TypeOK, StackType
<1>13. Typed(View')
  <2>1. \A k \in Caches : IsFiniteSet(tags'[k])
    BY <1>1, <1>3
  <2> QED
    BY <1>12, <2>1, TypedViewNext
<1>14. ~ Access(e) /\ View.calls[t][n].c = c /\ View'.calls[t][n].c = c
  BY <1>1, <1>2, <1>6, <1>7, <1>8 DEF Access
<1>15. Locking(View, View', t, n)
  <2>1. HasBcc(View, t, n) /\ View.bcc[c] = t
    <3>1. HasBcc(View, t, n)
      BY <1>1 DEF HasBcc
    <3> QED
      BY <1>1, <1>14, <3>1 DEF Sound, Locked
  <2>2. ~ InAccess(View', t, n)
    BY <1>7, <1>14 DEF InAccess
  <2>3. \A d \in 1 .. View'.depth[t] : d >= n \/ d = View'.depth[t] => d = n
    BY <1>1, <1>7
  <2>4. n <= n
    BY <1>1
  <2> QED
    BY <1>2, <1>3, <1>5, <1>10, <1>14, <2>1, <2>2, <2>3, <2>4 DEF Locking
<1>16. Settling(View, View', t, n)
  <2>1. View'.depth[t] # n - 1 /\ View.calls[t][n].pc # "top"
    BY <1>1, <1>7
  <2> QED
    BY <1>1, <1>5, <1>7, <1>8, <1>9, <1>14, <1>15, <2>1 DEF Settling
<1>17. /\ Locked(View') /\ Alone(View') /\ UpThenDown(View') /\ CallsSound(View')
       /\ Directory(View') /\ Included(View')
  BY <1>1, <1>13, <1>16, SettlingSound
<1>18. Filtered(View')
  <2> SUFFICES ASSUME OneProcess PROVE
          /\ \A u \in Threads :
                /\ View'.depth[u] = 0 /\ filter'[u].rd # None =>
                       state[u][filter'[u].rd] # "I"
                /\ View'.depth[u] = 0 /\ filter'[u].wr # None =>
                       state[u][filter'[u].wr] = "M"
                /\ filter'[u].wr \in {None, filter'[u].rd}
          /\ \A u \in Threads : \A d \in 1 .. View'.depth[u] :
                View'.calls[u][d].pc = "inv" /\ View'.calls[u][d].c \in Leaves =>
                    filter'[View'.calls[u][d].c].rd # View'.calls[u][d].line
    BY <1>5 DEF Filtered
  <2>1. /\ \A u \in Threads :
              /\ View.depth[u] = 0 /\ filter[u].rd # None =>
                     state[u][filter[u].rd] # "I"
              /\ View.depth[u] = 0 /\ filter[u].wr # None =>
                     state[u][filter[u].wr] = "M"
              /\ filter[u].wr \in {None, filter[u].rd}
        /\ \A u \in Threads : \A d \in 1 .. View.depth[u] :
              View.calls[u][d].pc = "inv" /\ View.calls[u][d].c \in Leaves =>
                  filter[View.calls[u][d].c].rd # View.calls[u][d].line
    BY <1>1, <1>5 DEF Sound, Filtered
  <2>2. \A k \in Leaves : filter'[k] = filter[k]
            \/ (filter'[k].rd = None /\ filter'[k].wr = None)
    BY <1>8, <1>11
  <2>3. filter'[c].rd # f.line
    <3>1. Proc[t] = Proc[f.line] /\ f.line # None
      BY <1>2, <1>4, HierarchyAssumption DEF OneProcess
    <3> QED
      BY <1>8, <1>11, <3>1
  <2>4. \A u \in Threads : u \in Leaves /\ View'.depth[u] = View.depth[u]
    BY <1>7, <1>8 DEF Below, Threads
  <2>5. ASSUME NEW u \in Threads
        PROVE  /\ View'.depth[u] = 0 /\ filter'[u].rd # None =>
                      state[u][filter'[u].rd] # "I"
               /\ View'.depth[u] = 0 /\ filter'[u].wr # None =>
                      state[u][filter'[u].wr] = "M"
               /\ filter'[u].wr \in {None, filter'[u].rd}
    BY <2>1, <2>2, <2>4
  <2>6. ASSUME NEW u \in Threads, NEW d \in 1 .. View'.depth[u],
               View'.calls[u][d].pc = "inv", View'.calls[u][d].c \in Leaves
        PROVE  filter'[View'.calls[u][d].c].rd # View'.calls[u][d].line
    <3>1. CASE u = t /\ d = n
      BY <1>6, <1>7, <1>8, <2>3, <3>1
    <3>2. CASE ~ (u = t /\ d = n)
      <4>1. View'.calls[u][d] = View.calls[u][d] /\ d \in 1 .. View.depth[u]
        <5>1. CASE u = t
          <6>1. d \in 1 .. n - 1 /\ d \in 1 .. View.depth[t]
            BY <1>1, <1>7, <1>8, <3>2, <5>1
          <6> QED
            BY <1>7, <5>1, <6>1 DEF Below
        <5>2. CASE u # t
          BY <1>7, <2>6, <5>2 DEF Below
        <5> QED
          BY <5>1, <5>2
      <4>2. View.calls[u][d].line # None
        <5>1. View.calls[u][d] \in Frame
          BY <1>1, <4>1 DEF Sound, Typed
        <5> QED
          BY <5>1, FrameFields, HierarchyAssumption
      <4>3. filter[View.calls[u][d].c].rd # View.calls[u][d].line
        BY <2>1, <2>6, <4>1
      <4> QED
        BY <2>2, <2>6, <4>1, <4>2, <4>3
    <3> QED
      BY <3>1, <3>2
  <2> QED
    BY <2>5, <2>6
<1> QED
  BY <1>12, <1>13, <1>17, <1>18 DEF Sound, MESIInv
-----------------------------------------------------------------------------
(* The steps of a core that is in no access.                               *)

\* What a view keeps when its thread t, in no call, makes a first one.
LEMMA FirstCall ==
    ASSUME NEW h, NEW g, NEW t \in Threads, Sound(h), Typed(g),
           h.depth[t] = 0, g.depth[t] = 1, Below(h, g, t, 0),
           g.state = h.state, g.tags = h.tags, g.dir = h.dir, g.bcc = h.bcc,
           g.tcc = h.tcc, g.flt = h.flt, g.filter = h.filter,
           g.calls[t][1].c = t, g.calls[t][1].type \in Gets,
           g.calls[t][1].pc = "bcc", g.calls[t][1].init = "I", ~ g.calls[t][1].wb
    PROVE  Sound(g)
<1> DEFINE e == g.calls[t][1]
<1>1. /\ \A u \in Threads \ {t} : g.depth[u] = h.depth[u] /\ g.calls[u] = h.calls[u]
      /\ \A d \in 1 .. g.depth[t] : d = 1
      /\ t \in Leaves /\ t \notin Inner
  BY HierarchyAssumption DEF Below, Threads, Inner
<1>2. e.type \notin Puts /\ e.type \notin Invs /\ Access(e)
  BY DEF Gets, Puts, Invs, Access
<1>3. CallsSound(g)
  <2>1. \A u \in Threads \ {t} : \A d \in 1 .. g.depth[u] : CallSound(g, u, d)
    <3>1. Effect(h, g, t)
      BY DEF Effect
    <3> QED
      BY <3>1, OthersKeep
  <2>2. CallSound(g, t, 1)
    <3>1. Shaped(g, t, 1)
      BY <1>1, <1>2 DEF Shaped
    <3>2. Own(g, e, 1 = g.depth[t])
      BY DEF Own
    <3>3. ~ (1 > 1)
      OBVIOUS
    <3> QED
      BY <3>1, <3>2, <3>3 DEF CallSound
  <2> QED
    BY <1>1, <2>1, <2>2 DEF CallsSound
<1>4. \A u \in Threads \ {t} : \A d \in 1 .. g.depth[u] :
          /\ d \in 1 .. h.depth[u]
          /\ g.calls[u][d] = h.calls[u][d]
          /\ HasBcc(g, u, d) <=> HasBcc(h, u, d)
          /\ InAccess(g, u, d) <=> InAccess(h, u, d)
  BY <1>1 DEF HasBcc, InAccess
<1>5. Locked(g)
  <2>1. Locked(h) /\ ~ HasBcc(g, t, 1) /\ e.c \notin Inner /\ e.pc # "inv"
    BY <1>1 DEF Sound, HasBcc
  <2>2. ASSUME NEW u \in Threads \ {t}, NEW d \in 1 .. g.depth[u]
        PROVE  LET f == g.calls[u][d] IN
               /\ HasBcc(g, u, d) => g.bcc[f.c] = u
               /\ InAccess(g, u, d) /\ f.c \in Inner => g.tcc[f.c] = u
               /\ f.pc = "inv" /\ f.c \in Leaves => g.flt[f.c] = u
    BY <1>4, <2>1 DEF Locked
  <2> QED
    BY <1>1, <2>1, <2>2 DEF Locked
<1>6. Alone(g)
  <2>1. Alone(h)
    BY DEF Sound
  <2>2. ASSUME NEW u \in Threads \ {t}, NEW d \in 1 .. g.depth[u], NEW j \in 1 .. g.depth[u],
               g.calls[u][d].c = g.calls[u][j].c,
               \/ HasBcc(g, u, d) /\ HasBcc(g, u, j)
               \/ InAccess(g, u, d) /\ InAccess(g, u, j)
        PROVE  d = j
    BY <1>4, <2>1, <2>2 DEF Alone
  <2> QED
    BY <1>1, <2>2 DEF Alone
<1>7. UpThenDown(g)
  <2>1. UpThenDown(h)
    BY DEF Sound
  <2>2. ASSUME NEW u \in Threads \ {t}, NEW d \in 1 .. g.depth[u], NEW j \in 1 .. g.depth[u],
               d < j, Access(g.calls[u][j])
        PROVE  Access(g.calls[u][d])
    BY <1>4, <2>1, <2>2 DEF UpThenDown
  <2>3. ASSUME NEW d \in 1 .. g.depth[t], NEW j \in 1 .. g.depth[t], d < j
        PROVE  FALSE
    BY <2>3
  <2> QED
    BY <2>2, <2>3 DEF UpThenDown
<1>8. Directory(g)
  <2> SUFFICES ASSUME NEW p \in Inner, NEW l \in Lines PROVE Entry(g, p, l)
    BY DEF Directory
  <2>1. \A k \in Caches : Upgrading(h, p, l, k) => Upgrading(g, p, l, k)
    <3> SUFFICES ASSUME NEW k \in Caches, Upgrading(h, p, l, k)
                 PROVE  Upgrading(g, p, l, k)
      OBVIOUS
    <3>1. PICK u \in Threads :
              \E d \in 2 .. h.depth[u] :
                  /\ h.calls[u][d].c = p /\ h.calls[u][d].line = l
                  /\ h.calls[u][d].type = "GETX" /\ h.calls[u][d].pc = "top"
                  /\ h.calls[u][d - 1].c = k
      BY DEF Upgrading
    <3>2. u # t
      <4>1. ~ \E d \in 2 .. 0 : TRUE
        OBVIOUS
      <4> QED
        BY <3>1, <4>1
    <3>3. g.depth[u] = h.depth[u] /\ g.calls[u] = h.calls[u]
      BY <1>1, <3>2
    <3> QED
      BY <3>1, <3>3 DEF Upgrading
  <2>2. Entry(h, p, l) /\ h.dir[p][l].sharers \subseteq Caches
    BY DEF Sound, Directory, Typed
  <2> QED
    BY <2>1, <2>2, EntryKept
<1>9. Included(g)
  BY DEF Sound, Included, Within, Excl
<1>10. Filtered(g)
  <2> SUFFICES ASSUME OneProcess PROVE Filtered(g)
    BY DEF Filtered
  <2>1. \A u \in Threads : g.depth[u] = 0 => h.depth[u] = 0
    BY <1>1
  <2>2. \A u \in Threads : \A d \in 1 .. g.depth[u] :
            g.calls[u][d].pc = "inv" =>
                d \in 1 .. h.depth[u] /\ g.calls[u][d] = h.calls[u][d]
    BY <1>1, <1>4
  <2>3. Filtered(h)
    BY DEF Sound
  <2> QED
    BY <2>1, <2>2, <2>3 DEF Filtered
<1> QED
  BY <1>3, <1>5, <1>6, <1>7, <1>8, <1>9, <1>10 DEF Sound

\* FilterCache::replace begins an access.
LEMMA replaceStep ==
    ASSUME MESIInv, NEW t \in Threads, NEW l \in Lines, NEW type \in Gets,
           replace(t, type, l)
    PROVE  MESIInv'
<1> DEFINE e == Call(t, type, l, "I", "bcc")
<1>1. /\ stack[t] = << >> /\ stack' = [stack EXCEPT ![t] = <<e>>]
      /\ UNCHANGED <<state, tags, dir, bccLock, tccLock, filterLock, filter, fresh>>
  BY DEF replace
<1>2. TypeOK /\ StackType /\ Sound(View) /\ (\A c \in Caches : IsFiniteSet(tags[c]))
  <2>1. TypeOK /\ Sound(View) /\ StackType
    BY DEF MESIInv, TypeOK, StackType
  <2> QED
    BY <2>1, ViewFields DEF Sound, Typed
<1>3. /\ e \in Frame /\ e.c = t /\ e.type \in Gets /\ e.pc = "bcc" /\ ~ e.wb
      /\ e.init = "I"
  BY HierarchyAssumption DEF Call, Frame, MESI, Threads
<1> HIDE DEF e
<1>4. /\ StackType' /\ View.depth[t] = 0 /\ Below(View, View', t, 0)
      /\ View'.depth[t] = 1 /\ View'.calls[t][1] = e
  BY <1>1, <1>2, <1>3, AfterFirst
<1>5. TypeOK'
  BY <1>1, <1>2, <1>4 DEF TypeOK, StackType
<1>6. Typed(View')
  <2>1. \A c \in Caches : IsFiniteSet(tags'[c])
    BY <1>1, <1>2
  <2> QED
    BY <1>5, <2>1, TypedViewNext
<1>7. /\ View'.state = View.state /\ View'.tags = View.tags /\ View'.dir = View.dir
      /\ View'.bcc = View.bcc /\ View'.tcc = View.tcc /\ View'.flt = View.flt
      /\ View'.filter = View.filter
  BY <1>1, ViewFields, ViewFieldsNext
<1>8. Sound(View')
  BY <1>2, <1>3, <1>4, <1>6, <1>7, FirstCall
<1> QED
  BY <1>5, <1>8 DEF MESIInv

\* FilterCache::contextSwitch: an empty filter promises nothing.
LEMMA contextSwitchStep ==
    ASSUME MESIInv, NEW t \in Threads, contextSwitch(t) PROVE MESIInv'
<1>1. /\ filter' = [filter EXCEPT ![t] = [rd |-> None, wr |-> None]]
      /\ UNCHANGED <<state, tags, dir, bccLock, tccLock, filterLock, stack, fresh>>
  BY DEF contextSwitch
<1>2. TypeOK /\ Sound(View) /\ (\A c \in Caches : IsFiniteSet(tags[c]))
  <2>1. TypeOK /\ Sound(View)
    BY DEF MESIInv
  <2> QED
    BY <2>1, ViewFields DEF Sound, Typed
<1>3. /\ filter' \in [Leaves -> [rd : Lines \cup {None}, wr : Lines \cup {None}]]
      /\ filter'[t].rd = None /\ filter'[t].wr = None
      /\ \A k \in Leaves : k # t => filter'[k] = filter[k]
  BY <1>1, <1>2 DEF TypeOK, Threads
<1>4. TypeOK'
  BY <1>1, <1>2, <1>3 DEF TypeOK
<1>5. Typed(View')
  <2>1. \A c \in Caches : IsFiniteSet(tags'[c])
    BY <1>1, <1>2
  <2> QED
    BY <1>4, <2>1, TypedViewNext
<1>6. /\ View'.state = View.state /\ View'.tags = View.tags /\ View'.dir = View.dir
      /\ View'.bcc = View.bcc /\ View'.tcc = View.tcc /\ View'.flt = View.flt
      /\ View'.depth = View.depth /\ View'.calls = View.calls
      /\ View.filter = filter /\ View'.filter = filter'
  BY <1>1 DEF View
<1>7. /\ Locked(View) /\ Alone(View) /\ UpThenDown(View) /\ CallsSound(View)
      /\ Directory(View) /\ Included(View) /\ Filtered(View)
  BY <1>2 DEF Sound
<1>8. Locked(View') /\ Alone(View') /\ UpThenDown(View')
  BY <1>6, <1>7 DEF Locked, Alone, UpThenDown, HasBcc, InAccess
<1>9. CallsSound(View')
  <2> SUFFICES ASSUME NEW u \in Threads, NEW d \in 1 .. View.depth[u]
               PROVE  CallSound(View', u, d)
    BY <1>6 DEF CallsSound
  <2> DEFINE f == View.calls[u][d]
             up == View.calls[u][d - 1]
             last == d = View.depth[u]
  <2>1. /\ Shaped(View, u, d) /\ Own(View, f, last)
        /\ d > 1 => Linked(View, up, f)
        /\ d > 1 /\ Access(f) => Asked(View, f, up.c)
    BY <1>7 DEF CallsSound, CallSound
  <2>2. Shaped(View', u, d)
    BY <1>6, <2>1 DEF Shaped
  <2>3. View'.calls[u][d] = f /\ View'.calls[u][d - 1] = up /\ View'.depth[u] = View.depth[u]
    BY <1>6
  <2> HIDE DEF f, up
  <2>4. Own(View', f, last)
    BY <1>6, <2>1 DEF Own, Excl
  <2>5. /\ d > 1 => Linked(View', up, f)
        /\ d > 1 /\ Access(f) => Asked(View', f, up.c)
    BY <1>6, <2>1 DEF Linked, Asked
  <2> QED
    BY <2>2, <2>3, <2>4, <2>5 DEF CallSound
<1>10. Directory(View') /\ Included(View')
  BY <1>6, <1>7 DEF Directory, Entry, Upgrading, Included, Within, Excl
<1>11. Filtered(View')
  <2> SUFFICES ASSUME OneProcess PROVE Filtered(View')
    BY DEF Filtered
  <2>1. \A u \in Threads : u \in Leaves
    BY DEF Threads
  <2>2. \A u \in Threads : \A d \in 1 .. View.depth[u] : View.calls[u][d].line # None
    <3> TAKE u \in Threads
    <3> TAKE d \in 1 .. View.depth[u]
    <3>1. View.calls[u][d] \in Frame
      BY <1>2 DEF Sound, Typed
    <3> QED
      BY <3>1, FrameFields, HierarchyAssumption
  <2>3. \A k \in Leaves : filter'[k] = filter[k]
            \/ (filter'[k].rd = None /\ filter'[k].wr = None)
    BY <1>3
  <2> QED
    BY <1>6, <1>7, <2>1, <2>2, <2>3 DEF Filtered
<1> QED
  BY <1>4, <1>5, <1>8, <1>9, <1>10, <1>11 DEF Sound, MESIInv

\* FilterCache::store hits: no state but the value of the line changes.
LEMMA StoreHitStep ==
    ASSUME MESIInv, NEW t \in Threads, NEW l \in Lines, StoreHit(t, l)
    PROVE  MESIInv'
<1>1. /\ fresh' = [fresh EXCEPT ![l] = {t}]
      /\ UNCHANGED <<state, tags, dir, bccLock, tccLock, filterLock, filter, stack>>
  BY DEF StoreHit
<1>2. TypeOK /\ Sound(View)
  BY DEF MESIInv
<1>3. TypeOK'
  <2>1. t \in Caches
    BY HierarchyAssumption DEF Threads
  <2> QED
    BY <1>1, <1>2, <2>1 DEF TypeOK
<1>4. View' = View
  BY <1>1 DEF View
<1> QED
  BY <1>2, <1>3, <1>4 DEF MESIInv
-----------------------------------------------------------------------------
(* The invariant.                                                          *)

\* It holds of the empty caches InitSystem leaves.
LEMMA InitInv == Init => MESIInv
<1> SUFFICES ASSUME Init PROVE MESIInv
  OBVIOUS
<1>1. /\ \A c \in Caches : tags[c] = {} /\ Ways[c] \in Nat \ {0}
      /\ \A c \in Caches : IsFiniteSet(tags[c]) /\ Cardinality(tags[c]) <= Ways[c]
  <2>1. \A c \in Caches : tags[c] = {} /\ Ways[c] \in Nat \ {0}
    BY HierarchyAssumption DEF Init
  <2>2. IsFiniteSet({}) /\ Cardinality({}) = 0
    BY FS_EmptySet
  <2>3. \A c \in Caches : 0 <= Ways[c]
    BY <2>1
  <2> QED
    BY <2>1, <2>2, <2>3
<1>2. TypeOK
  <2>1. << >> \in Seq(Frame)
    OBVIOUS
  <2> QED
    BY <1>1, <2>1 DEF Init, TypeOK, MESI
<1>3. Typed(View)
  BY <1>1, <1>2, TypedView
<1>4. /\ View.state = state /\ View.dir = dir /\ View.filter = filter
      /\ \A t \in Threads : View.depth[t] = 0 /\ filter[t].rd = None /\ filter[t].wr = None
      /\ \A c \in Caches, l \in Lines : state[c][l] = "I"
      /\ \A c \in Inner, l \in Lines : dir[c][l].sharers = {} /\ ~ dir[c][l].exclusive
  BY ViewFields DEF Init, Threads
<1>5. \A t \in Threads : \A d \in 1 .. View.depth[t] : FALSE
  BY <1>4
<1>6. Locked(View) /\ Alone(View) /\ UpThenDown(View) /\ CallsSound(View)
  BY <1>5 DEF Locked, Alone, UpThenDown, CallsSound
<1>7. Directory(View) /\ Included(View)
  BY <1>4 DEF Directory, Entry, Included, Within
<1>8. Filtered(View)
  BY <1>4, <1>5 DEF Filtered
<1> QED
  BY <1>2, <1>3, <1>6, <1>7, <1>8 DEF MESIInv, Sound

\* Every action keeps it.
LEMMA NextInv == MESIInv /\ [Next]_vars => MESIInv'
<1> SUFFICES ASSUME MESIInv, [Next]_vars PROVE MESIInv'
  OBVIOUS
<1>1. CASE UNCHANGED vars
  <2>1. View' = View
    BY <1>1 DEF View, vars
  <2>2. TypeOK'
    BY <1>1 DEF MESIInv, TypeOK, vars
  <2> QED
    BY <2>1, <2>2 DEF MESIInv
<1>2. ASSUME NEW t \in Threads, Work(t) PROVE MESIInv'
  <2>1. CASE startAccessTcc(t) BY <2>1, startAccessTccStep
  <2>2. CASE startAccessBcc(t) BY <2>2, startAccessBccStep
  <2>3. CASE LookupHit(t) BY <2>3, LookupHitStep
  <2>4. CASE InsertFree(t) BY <2>4, InsertFreeStep
  <2>5. CASE \E v \in Lines : preinsert(t, v) BY <2>5, preinsertStep
  <2>6. CASE evictChild(t) BY <2>6, evictChildStep
  <2>7. CASE evictInvalid(t) BY <2>7, evictInvalidStep
  <2>8. CASE evictToMem(t) BY <2>8, evictToMemStep
  <2>9. CASE evictToParent(t) BY <2>9, evictToParentStep
  <2>10. CASE postinsert(t) BY <2>10, postinsertStep
  <2>11. CASE accessHere(t) BY <2>11, accessHereStep
  <2>12. CASE accessMem(t) BY <2>12, accessMemStep
  <2>13. CASE accessParent(t) BY <2>13, accessParentStep
  <2>14. CASE accessReturn(t) BY <2>14, accessReturnStep
  <2>15. CASE topPut(t) BY <2>15, topPutStep
  <2>16. CASE topGetE(t) BY <2>16, topGetStep
  <2>17. CASE topDowngrade(t) BY <2>17, topDowngradeStep
  <2>18. CASE topGetS(t) BY <2>18, topGetStep
  <2>19. CASE topInvalidate(t) BY <2>19, topInvalidateStep
  <2>20. CASE topGetX(t) BY <2>20, topGetStep
  <2>21. CASE endAccess(t) BY <2>21, endAccessStep
  <2>22. CASE endReplace(t) BY <2>22, endReplaceStep
  <2>23. CASE startInv(t) BY <2>23, startInvStep
  <2>24. CASE invalidateFilter(t) BY <2>24, invalidateFilterStep
  <2>25. CASE invChild(t) BY <2>25, invChildStep
  <2>26. CASE finishInvalidate(t) BY <2>26, finishInvalidateStep
  <2> QED
    BY <1>2, <2>1, <2>2, <2>3, <2>4, <2>5, <2>6, <2>7, <2>8, <2>9, <2>10, <2>11,
       <2>12, <2>13, <2>14, <2>15, <2>16, <2>17, <2>18, <2>19, <2>20, <2>21,
       <2>22, <2>23, <2>24, <2>25, <2>26 DEF Work
<1>3. ASSUME NEW t \in Threads, NEW l \in Lines, StoreHit(t, l) PROVE MESIInv'
  BY <1>3, StoreHitStep
<1>4. ASSUME NEW t \in Threads, NEW l \in Lines, NEW type \in Gets, replace(t, type, l)
      PROVE  MESIInv'
  BY <1>4, replaceStep
<1>5. ASSUME NEW t \in Threads, contextSwitch(t) PROVE MESIInv'
  BY <1>5, contextSwitchStep
<1> QED
  BY <1>1, <1>2, <1>3, <1>4, <1>5 DEF Next

\* The calls in progress hold the locks they took and know of the caches what
\* they need, the levels agree but for a child that upgrades (Sound), in every
\* state any interleaving of accesses, evictions and invalidations reaches.
THEOREM Invariant == Spec => []MESIInv
<1>1. Init => MESIInv
  BY InitInv
<1>2. MESIInv /\ [Next]_vars => MESIInv'
  BY NextInv
<1> QED
  BY <1>1, <1>2, PTL DEF Spec
-----------------------------------------------------------------------------
(* What follows from it.                                                   *)

\* While nobody is in a cache, no child of it upgrades.
LEMMA NoUpgrade ==
    ASSUME MESIInv, NEW c \in Inner, bccLock[c] = None, NEW l, NEW k
    PROVE  ~ Upgrading(View, c, l, k)
<1> SUFFICES ASSUME Upgrading(View, c, l, k) PROVE FALSE
  OBVIOUS
<1>1. PICK u \in Threads : \E d \in 2 .. View.depth[u] :
          View.calls[u][d].c = c /\ View.calls[u][d].pc = "top"
  BY DEF Upgrading
<1>2. PICK d \in 2 .. View.depth[u] :
          View.calls[u][d].c = c /\ View.calls[u][d].pc = "top"
  BY <1>1
<1>3. d \in 1 .. View.depth[u] /\ HasBcc(View, u, d)
  <2>1. View.depth[u] \in Nat
    BY DEF MESIInv, Sound, Typed
  <2> QED
    BY <1>2, <2>1 DEF HasBcc
<1>4. View.bcc[c] = u
  BY <1>2, <1>3 DEF MESIInv, Sound, Locked
<1> QED
  BY <1>4, ViewFields, HierarchyAssumption DEF Threads

\* The invariant implies what the levels know of each other.
LEMMA InvConsistent ==
    ASSUME MESIInv
    PROVE  TypeOK /\ Inclusion /\ DirectoryExact /\ (OneProcess => FilterTrusted)
<1>1. /\ TypeOK /\ Typed(View) /\ Directory(View) /\ Included(View) /\ Filtered(View)
      /\ View.state = state /\ View.tags = tags /\ View.dir = dir
      /\ View.bcc = bccLock /\ View.filter = filter
  BY ViewFields DEF MESIInv, Sound
<1>2. Inclusion
  BY <1>1 DEF Included, Within, Excl, Inclusion, isExclusive
<1>3. DirectoryExact
  <2> SUFFICES ASSUME NEW c \in Inner, NEW l \in Lines, bccLock[c] = None
               PROVE  /\ dir[c][l].sharers =
                             {k \in Caches : Parent[k][l] = c /\ state[k][l] # "I"}
                      /\ \A k \in dir[c][l].sharers :
                             isExclusive(k, l) <=> DirExclusive(c, l)
    BY DEF DirectoryExact
  <2>1. Entry(View, c, l) /\ dir[c][l].sharers \subseteq Caches
        /\ dir[c][l].exclusive \in BOOLEAN
    BY <1>1 DEF Directory, TypeOK
  <2>2. \A k : ~ Upgrading(View, c, l, k)
    BY NoUpgrade
  <2>3. \A k \in dir[c][l].sharers : Parent[k][l] = c /\ state[k][l] # "I"
    BY <1>1, <2>1 DEF Entry
  <2>4. \A k \in Caches : Parent[k][l] = c /\ state[k][l] # "I" =>
            k \in dir[c][l].sharers
    BY <1>1, <2>1, <2>2 DEF Entry
  <2>5. ASSUME NEW k \in dir[c][l].sharers
        PROVE  isExclusive(k, l) <=> DirExclusive(c, l)
    <3>1. isExclusive(k, l) <=> dir[c][l].exclusive
      BY <1>1, <2>1 DEF Entry, Excl, isExclusive
    <3>2. DirExclusive(c, l) <=> dir[c][l].exclusive
      <4>1. DirExclusive(c, l) <=>
                View.dir[c][l].exclusive = TRUE /\ View.dir[c][l].sharers # {}
        BY ExclusiveEntry DEF MESIInv
      <4> QED
        BY <1>1, <2>1, <4>1
    <3> QED
      BY <3>1, <3>2
  <2> QED
    BY <2>1, <2>3, <2>4, <2>5
<1>4. ASSUME OneProcess PROVE FilterTrusted
  <2> SUFFICES ASSUME NEW t \in Threads, stack[t] = << >>
               PROVE  /\ filter[t].rd # None => state[t][filter[t].rd] # "I"
                      /\ filter[t].wr # None => state[t][filter[t].wr] = "M"
    BY DEF FilterTrusted
  <2>1. View.depth[t] = 0
    BY ViewFields
  <2> QED
    BY <1>1, <1>4, <2>1 DEF Filtered
<1> QED
  BY <1>1, <1>2, <1>3, <1>4

\* The invariant implies the assertions of the code.
LEMMA InvAssertions == ASSUME MESIInv PROVE AssertionsHold
<1> SUFFICES ASSUME NEW t \in Threads, stack[t] # << >>
             PROVE  RacesAreKnown(t) /\ BottomAsserts(t) /\ TopAsserts(t)
  BY DEF AssertionsHold
<1> DEFINE f == Top(t)
           n == View.depth[t]
           up == View.calls[t][n - 1]
           l == f.line
           c == f.c
           ch == up.c
<1>1. /\ n \in Nat /\ n \in 1 .. View.depth[t] /\ n >= 1
      /\ View.calls[t][n] = f /\ f \in Frame
      /\ Sound(View) /\ Shaped(View, t, n) /\ Own(View, f, TRUE)
      /\ n > 1 => /\ Caller(t) = up /\ Linked(View, up, f) /\ up \in Frame
                  /\ n \in 2 .. View.depth[t]
      /\ n > 1 /\ Access(f) => Asked(View, f, ch)
  BY Acting
<1>2. /\ c \in Caches /\ l \in Lines
      /\ f.type \in {"GETS", "GETX", "PUTS", "PUTX", "INV", "INVX"}
      /\ f.pc \in {"tcc", "bcc", "lookup", "evict", "evput", "acc", "accret",
                   "top", "end", "ilock", "iflock", "inv"}
  BY <1>1, FrameFields
<1>3. /\ View.state = state /\ View.tags = tags /\ View.dir = dir
  BY ViewFields
<1>4. /\ f.type \in Puts => n > 1 /\ Access(f)
      /\ f.type \in Invs => n > 1 /\ f.pc \in {"ilock", "iflock", "inv"}
      /\ f.pc = "top" => c \in Inner /\ n > 1 /\ Access(f)
      /\ f.pc \in {"bcc", "lookup", "acc", "accret", "evict", "evput", "top"} => Access(f)
      /\ f.pc = "inv" => f.type \in Invs
      /\ Access(f) => (n = 1 <=> c \in Leaves)
      /\ n = 1 => f.init = "I"
      /\ n # 1 => n > 1
  BY <1>1, <1>2 DEF Shaped, Access, Gets, Puts, Invs, Inner
<1>5. ASSUME n > 1, Access(f)
      PROVE  /\ ch \in Caches /\ Parent[ch][l] = c /\ c \in Inner
             /\ Within(View, ch, l) /\ Within(View, c, l) /\ Entry(View, c, l)
             /\ Asked(View, f, ch) /\ Caller(t).c = ch
  <2>1. ch \in Caches
    BY <1>1, <1>5, FrameFields
  <2>2. Parent[ch][l] = c
    BY <1>1, <1>2, <1>5 DEF Linked, Access, Gets, Puts, Invs
  <2>3. c \in Inner
    BY <1>2, <1>4, <1>5 DEF Inner
  <2>4. Within(View, ch, l) /\ Within(View, c, l) /\ Entry(View, c, l)
    BY <1>1, <1>2, <2>1, <2>3 DEF Sound, Included, Directory
  <2> QED
    BY <1>1, <1>5, <2>1, <2>2, <2>3, <2>4
<1>6. ASSUME f.type \in Invs
      PROVE  /\ state[c][l] # "I" /\ l \in tags[c]
             /\ f.type = "INVX" => state[c][l] \in {"E", "M"}
  <2>1. n > 1 /\ n \in 2 .. View.depth[t] /\ View.calls[t][n].type \in Invs
    BY <1>1, <1>4, <1>6
  <2>2. /\ View.state[c][l] # "I"
        /\ f.type = "INVX" => Excl(View, c, l)
    <3> HIDE DEF n, f, c, l
    <3>1. /\ View.state[View.calls[t][n].c][View.calls[t][n].line] # "I"
          /\ View.calls[t][n].type = "INVX" =>
                 Excl(View, View.calls[t][n].c, View.calls[t][n].line)
      BY <1>1, <2>1, InvSentBy
    <3> QED
      BY <1>1, <3>1 DEF c, l
  <2>3. Within(View, c, l)
    BY <1>1, <1>2 DEF Sound, Included
  <2> QED
    BY <1>3, <2>2, <2>3 DEF Within, Excl
<1>7. t \in Threads /\ f = Top(t) /\ l = f.line /\ c = f.c
  OBVIOUS
<1>8. c \in Inner => (DirExclusive(c, l) <=>
          View.dir[c][l].exclusive = TRUE /\ View.dir[c][l].sharers # {})
  <2> HIDE DEF c, l
  <2> QED
    BY <1>1, <1>2, ExclusiveEntry
<1>9. c \in Inner => View.dir[c][l].exclusive \in BOOLEAN
  BY <1>1, <1>2 DEF Sound, Typed
<1>10. f.type \in Puts /\ f.pc = "top" => ~ Upgrading(View, c, l, ch)
  <2> SUFFICES ASSUME f.type \in Puts, f.pc = "top", Upgrading(View, c, l, ch) PROVE FALSE
    OBVIOUS
  <2>1. InAccess(View, t, n) /\ c = View.calls[t][n].c /\ c \in Inner
    BY <1>1, <1>4 DEF InAccess
  <2>2. View.calls[t][n].type = "GETX"
    <3> HIDE DEF n, c, f, l, ch
    <3> QED
      BY <1>1, <2>1, OnlyUpgrade
  <2> QED
    BY <1>1, <2>2 DEF Puts
<1> HIDE DEF f, n, up, l, c, ch
<1>11. RacesAreKnown(t)
  <2> SUFFICES ASSUME f.pc = "bcc", ChildState(t) # f.init
               PROVE  \/ f.type \in Puts /\ ChildState(t) \in {"I", "S"}
                      \/ f.type = "GETX" /\ f.init = "S" /\ ChildState(t) = "I"
    BY <1>7 DEF RacesAreKnown, At
  <2>1. Access(f)
    BY <1>4
  <2>2. n > 1 /\ c \notin Leaves
    <3> SUFFICES ASSUME c \in Leaves PROVE FALSE
      BY <1>4, <2>1
    <3>1. ChildState(t) = "I" /\ n = 1
      BY <1>4, <1>7, <2>1 DEF ChildState
    <3> QED
      BY <1>4, <3>1
  <2>3. ChildState(t) = View.state[ch][l] /\ Asked(View, f, ch)
    BY <1>3, <1>5, <1>7, <2>1, <2>2 DEF ChildState
  <2> QED
    BY <1>2, <1>7, <2>1, <2>3 DEF Asked, Access, Gets, Puts
<1>12. BottomAsserts(t)
  <2>1. f.pc = "lookup" /\ f.type \in Puts => l \in tags[c]
    BY <1>2, <1>3, <1>4, <1>5, <1>7, ParentOf DEF Asked, Within, Puts
  <2>2. f.pc = "evict" /\ f.wb => isExclusive(c, f.victim)
    BY <1>1, <1>3, <1>7 DEF Own, Excl, isExclusive
  <2>3. f.pc = "evput" => state[c][f.victim] = "I"
    BY <1>1, <1>3, <1>7 DEF Own
  <2>4. f.pc = "acc" /\ f.type = "PUTS" => state[c][l] # "I"
    <3> SUFFICES ASSUME f.pc = "acc", f.type = "PUTS" PROVE state[c][l] # "I"
      OBVIOUS
    <3>1. n > 1 /\ Access(f) /\ f.type \in Puts
      BY <1>4 DEF Puts
    <3>2. View.state[ch][l] \in {"S", "E"}
      BY <1>5, <1>7, <3>1 DEF Asked, Puts
    <3>3. c # Mem
      BY <1>5, <3>1, HierarchyAssumption DEF Inner
    <3> QED
      BY <1>3, <1>5, <3>1, <3>2, <3>3 DEF Within
  <2>5. f.pc = "acc" /\ f.type = "PUTX" => state[c][l] \in {"E", "M"}
    <3> SUFFICES ASSUME f.pc = "acc", f.type = "PUTX" PROVE state[c][l] \in {"E", "M"}
      OBVIOUS
    <3>1. n > 1 /\ Access(f) /\ f.type \in Puts
      BY <1>4 DEF Puts
    <3>2. View.state[ch][l] = "M"
      BY <1>5, <1>7, <3>1 DEF Asked, Puts
    <3>3. c # Mem
      BY <1>5, <3>1, HierarchyAssumption DEF Inner
    <3> QED
      BY <1>3, <1>5, <3>1, <3>2, <3>3 DEF Within, Excl
  <2>6. f.pc = "accret" =>
            state[c][l] \in IF f.type = "GETS" THEN {"S", "E"} ELSE {"M"}
    <3>1. f.pc = "accret" => f.type \in Gets
      BY <1>1, <1>2, <1>7 DEF Shaped, Gets, Puts, Invs
    <3> QED
      BY <1>1, <1>3, <1>7, <3>1 DEF Own, Gets
  <2>7. /\ f.pc = "inv" => l \in tags[c] /\ state[c][l] # "I"
        /\ f.pc = "inv" /\ f.type = "INVX" => state[c][l] \in {"E", "M"}
    BY <1>4, <1>6
  <2> QED
    BY <1>7, <2>1, <2>2, <2>3, <2>4, <2>5, <2>6, <2>7 DEF BottomAsserts, At
<1>13. TopAsserts(t)
  <2> SUFFICES ASSUME f.pc = "top"
               PROVE  /\ f.type \in Puts => ch \in dir[c][l].sharers
                      /\ f.type = "PUTX" => DirExclusive(c, l)
                      /\ f.type = "GETS" => ch \notin dir[c][l].sharers
                      /\ f.type = "GETX" => isExclusive(c, l)
                      /\ f.type = "GETX" /\ ch \in dir[c][l].sharers =>
                             ~ DirExclusive(c, l)
                      /\ f.wb => isExclusive(c, l)
    BY <1>4, <1>5, <1>7 DEF TopAsserts, At
  <2>1. /\ n > 1 /\ Access(f) /\ c \in Inner /\ ch \in Caches /\ Parent[ch][l] = c
        /\ Entry(View, c, l) /\ Asked(View, f, ch)
    BY <1>4, <1>5
  <2>2. f.type \in Puts => ch \in dir[c][l].sharers
    <3> SUFFICES ASSUME f.type \in Puts PROVE ch \in dir[c][l].sharers
      OBVIOUS
    <3>1. View.state[ch][l] # "I"
      BY <1>7, <2>1 DEF Asked, Puts
    <3> QED
      BY <1>3, <1>10, <2>1, <3>1 DEF Entry
  <2>3. f.type = "PUTX" => DirExclusive(c, l)
    <3> SUFFICES ASSUME f.type = "PUTX" PROVE DirExclusive(c, l)
      OBVIOUS
    <3>1. View.state[ch][l] = "M" /\ ch \in View.dir[c][l].sharers
      BY <1>3, <1>7, <2>1, <2>2 DEF Asked, Puts
    <3>2. Excl(View, ch, l)
      BY <3>1 DEF Excl
    <3>3. View.dir[c][l].exclusive
      BY <2>1, <3>1, <3>2 DEF Entry
    <3> QED
      BY <1>8, <1>9, <2>1, <3>1, <3>3
  <2>4. f.type = "GETS" => ch \notin dir[c][l].sharers
    BY <1>3, <1>7, <2>1 DEF Asked, Entry
  <2>5. f.type = "GETX" => isExclusive(c, l)
    BY <1>1, <1>3, <1>7 DEF Own, isExclusive
  <2>6. f.type = "GETX" /\ ch \in dir[c][l].sharers => ~ DirExclusive(c, l)
    <3> SUFFICES ASSUME f.type = "GETX", ch \in dir[c][l].sharers
                 PROVE  ~ DirExclusive(c, l)
      OBVIOUS
    <3>1. ~ Excl(View, ch, l)
      BY <1>7, <2>1 DEF Asked, Excl
    <3>2. ~ (View.dir[c][l].exclusive = TRUE)
      BY <1>3, <2>1, <3>1 DEF Entry
    <3> QED
      BY <1>8, <2>1, <3>2
  <2>7. f.wb => isExclusive(c, l)
    BY <1>1, <1>3, <1>7 DEF Own, Excl, isExclusive
  <2> QED
    BY <2>2, <2>3, <2>4, <2>5, <2>6, <2>7
<1> QED
  BY <1>11, <1>12, <1>13
-----------------------------------------------------------------------------
(* Single writer: an argument about the tree.                              *)

UpClosed(U, l) == \A k \in U : Parent[k][l] # Mem => Parent[k][l] \in U

\* The caches on the way from c to the memory.
Above(c, l) == {k \in Caches : \A U \in SUBSET Caches : c \in U /\ UpClosed(U, l) => k \in U}

\* They are the least set that has c and with a cache its parent.
LEMMA AboveLeast ==
    ASSUME NEW c \in Caches, NEW l \in Lines
    PROVE  /\ c \in Above(c, l) /\ Above(c, l) \subseteq Caches
           /\ UpClosed(Above(c, l), l)
           /\ \A U \in SUBSET Caches : c \in U /\ UpClosed(U, l) => Above(c, l) \subseteq U
<1>1. c \in Above(c, l) /\ Above(c, l) \subseteq Caches
  BY DEF Above
<1>2. \A U \in SUBSET Caches : c \in U /\ UpClosed(U, l) => Above(c, l) \subseteq U
  BY DEF Above
<1>3. ASSUME NEW k \in Above(c, l), Parent[k][l] # Mem
      PROVE  Parent[k][l] \in Above(c, l)
  <2>1. k \in Caches /\ Parent[k][l] \in Caches
    BY <1>1, <1>3, ParentOf
  <2>2. ASSUME NEW U \in SUBSET Caches, c \in U, UpClosed(U, l)
        PROVE  Parent[k][l] \in U
    <3>1. k \in U
      BY <2>2 DEF Above
    <3> QED
      BY <1>3, <2>2, <3>1 DEF UpClosed
  <2> QED
    BY <2>1, <2>2 DEF Above
<1> QED
  BY <1>1, <1>2, <1>3 DEF UpClosed

\* A set of caches has one whose parent is not among them.
LEMMA Topmost ==
    ASSUME NEW X \in SUBSET Caches, X # {}, NEW l \in Lines
    PROVE  \E c \in X : Parent[c][l] \notin X
<1>1. PICK depth \in [Caches -> 0 .. Cardinality(Caches)] :
          \A c \in Caches : Parent[c][l] # Mem => depth[Parent[c][l]] < depth[c]
  BY TreeAssumption
<1>2. Cardinality(Caches) \in Nat
  BY TreeAssumption, FS_CardinalityType
<1>3. \A c \in Caches : depth[c] \in Nat
  BY <1>1, <1>2
<1> DEFINE D == {depth[c] : c \in X}
<1>4. D \in SUBSET Nat /\ D # {}
  BY <1>3
<1>5. PICK n \in D : \A m \in D : n <= m
  BY <1>4, LeastNat
<1>6. PICK c \in X : depth[c] = n
  BY <1>5
<1>7. Parent[c][l] \notin X
  <2> SUFFICES ASSUME Parent[c][l] \in X PROVE FALSE
    OBVIOUS
  <2>1. Parent[c][l] # Mem
    BY HierarchyAssumption
  <2>2. depth[Parent[c][l]] < depth[c] /\ depth[Parent[c][l]] \in D
    BY <1>1, <2>1
  <2>3. depth[Parent[c][l]] \in Nat /\ depth[c] \in Nat
    BY <1>3
  <2> QED
    BY <1>5, <1>6, <2>2, <2>3
<1> QED
  BY <1>7

\* The ways from two leaves to the memory meet in a cache.
LEMMA CommonParent ==
    ASSUME NEW a \in Leaves, NEW b \in Leaves, a # b, NEW l \in Lines
    PROVE  \E c \in Above(a, l), d \in Above(b, l) :
               c # d /\ Parent[c][l] = Parent[d][l] /\ Parent[c][l] \in Inner
<1> DEFINE A == Above(a, l)
           B == Above(b, l)
<1>1. /\ a \in Caches /\ b \in Caches /\ Leaves \subseteq Caches
      /\ \A c \in Caches : Parent[c][l] \notin Leaves
      /\ \A c \in Caches : Parent[c][l] # Mem => Parent[c][l] \in Inner
  BY HierarchyAssumption DEF Inner
<1>2. /\ a \in A /\ A \subseteq Caches /\ UpClosed(A, l)
      /\ \A U \in SUBSET Caches : a \in U /\ UpClosed(U, l) => A \subseteq U
  BY <1>1, AboveLeast
<1>3. /\ b \in B /\ B \subseteq Caches /\ UpClosed(B, l)
      /\ \A U \in SUBSET Caches : b \in U /\ UpClosed(U, l) => B \subseteq U
  BY <1>1, AboveLeast
<1> HIDE DEF A, B
<1>4. a \notin B
  <2>1. UpClosed(Caches \ {a}, l)
    BY <1>1, ParentOf DEF UpClosed
  <2>2. Caches \ {a} \in SUBSET Caches /\ b \in Caches \ {a}
    BY <1>1
  <2> QED
    BY <1>3, <2>1, <2>2
<1>5. A \subseteq Serving(l) /\ B \subseteq Serving(l)
  <2>1. Serving(l) \in SUBSET Caches /\ a \in Serving(l) /\ b \in Serving(l)
    BY <1>1, ParentOf DEF Serving
  <2>2. UpClosed(Serving(l), l)
    BY <2>1 DEF UpClosed, Serving
  <2> QED
    BY <1>2, <1>3, <2>1, <2>2
<1>6. PICK c \in A \ B : Parent[c][l] \notin A \ B
  <2>1. A \ B \in SUBSET Caches /\ A \ B # {}
    BY <1>2, <1>4
  <2> QED
    BY <2>1, Topmost
<1>7. Parent[c][l] # Mem
  <2> SUFFICES ASSUME Parent[c][l] = Mem PROVE FALSE
    OBVIOUS
  <2>1. PICK r \in B : Parent[r][l] \notin B
    <3>1. B \in SUBSET Caches /\ B # {}
      BY <1>3
    <3> QED
      BY <3>1, Topmost
  <2>2. Parent[r][l] = Mem
    BY <1>3, <2>1 DEF UpClosed
  <2>3. c = r
    <3>1. c \in Serving(l) /\ r \in Serving(l)
      BY <1>5
    <3> QED
      BY <2>2, <3>1, TreeAssumption
  <2> QED
    BY <1>6, <2>3
<1> DEFINE p == Parent[c][l]
<1>8. p \in B /\ p \in Inner /\ p # b
  <2>1. p \in A
    BY <1>2, <1>6, <1>7 DEF UpClosed
  <2> QED
    BY <1>1, <1>2, <1>6, <1>7, <2>1
<1>9. PICK d \in B : Parent[d][l] = p
  <2> SUFFICES ASSUME \A d \in B : Parent[d][l] # p PROVE FALSE
    OBVIOUS
  <2>1. UpClosed(B \ {p}, l)
    BY <1>3 DEF UpClosed
  <2>2. B \ {p} \in SUBSET Caches /\ b \in B \ {p}
    BY <1>3, <1>8
  <2> QED
    BY <1>3, <1>8, <2>1, <2>2
<1>10. c \in A /\ c # d
  BY <1>6, <1>9
<1> QED
  BY <1>8, <1>9, <1>10 DEF A, B

\* The invariant implies that a core that may write a line is alone.
LEMMA InvSingleWriter == ASSUME MESIInv PROVE SingleWriter
<1> SUFFICES ASSUME NEW l \in Lines, NEW a \in Leaves, NEW b \in Leaves, a # b,
                    state[a][l] \in {"E", "M"}, state[b][l] # "I"
             PROVE  FALSE
  BY DEF SingleWriter
<1>1. /\ \A k \in Caches : Within(View, k, l)
      /\ \A p \in Inner : Entry(View, p, l)
      /\ View.state = state
  BY ViewFields DEF MESIInv, Sound, Included, Directory
<1>2. a \in Caches /\ b \in Caches
  BY HierarchyAssumption
<1> DEFINE W == {k \in Caches : Excl(View, k, l)}
           V == {k \in Caches : View.state[k][l] # "I"}
<1>3. Above(a, l) \subseteq W
  <2>1. W \in SUBSET Caches /\ a \in W
    BY <1>1, <1>2 DEF Excl
  <2>2. UpClosed(W, l)
    BY <1>1, ParentOf DEF UpClosed, Within, Excl
  <2> QED
    BY <1>2, <2>1, <2>2, AboveLeast
<1>4. Above(b, l) \subseteq V
  <2>1. V \in SUBSET Caches /\ b \in V
    BY <1>1, <1>2
  <2>2. UpClosed(V, l)
    BY <1>1, ParentOf DEF UpClosed, Within
  <2> QED
    BY <1>2, <2>1, <2>2, AboveLeast
<1>5. PICK c \in Above(a, l), d \in Above(b, l) :
          c # d /\ Parent[c][l] = Parent[d][l] /\ Parent[c][l] \in Inner
  BY CommonParent
<1>6. c \in Caches /\ Excl(View, c, l) /\ d \in Caches /\ View.state[d][l] # "I"
  BY <1>3, <1>4, <1>5
<1>7. Entry(View, Parent[c][l], l)
  BY <1>1, <1>5
<1> QED
  BY <1>5, <1>6, <1>7 DEF Entry, Excl
-----------------------------------------------------------------------------
(* The theorems.                                                           *)

\* Single writer or many readers, in every intermediate state of every
\* interleaving, for any tree of caches (SingleWriter).
THEOREM OneWriter == Spec => []SingleWriter
<1>1. MESIInv => SingleWriter
  BY InvSingleWriter
<1> QED
  BY <1>1, Invariant, PTL

\* No assertion of the coherence controllers and of Cache::access fails, and
\* the only races are those CheckForMESIRace handles (AssertionsHold).
THEOREM NoAssertionFails == Spec => []AssertionsHold
<1>1. MESIInv => AssertionsHold
  BY InvAssertions
<1> QED
  BY <1>1, Invariant, PTL

\* Types, inclusion and the directories, without any assumption on processes.
THEOREM LevelsAgree == Spec => [](TypeOK /\ Inclusion /\ DirectoryExact)
<1>1. MESIInv => TypeOK /\ Inclusion /\ DirectoryExact
  BY InvConsistent
<1> QED
  BY <1>1, Invariant, PTL

\* With one simulated process the filters agree with their caches as well
\* (HierarchyConsistent); with more, FilterCache::invalidate may look for a
\* line under the wrong process and leave it in the filter.
THEOREM AllConsistent == ASSUME OneProcess PROVE Spec => []HierarchyConsistent
<1>1. MESIInv => HierarchyConsistent
  BY InvConsistent DEF HierarchyConsistent
<1> QED
  BY <1>1, Invariant, PTL
=============================================================================
