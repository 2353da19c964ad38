----------------------------- MODULE MESISafety -----------------------------
(***************************************************************************)
(* Why the calls of the MESI cache hierarchy do not deadlock, for any tree *)
(* of caches, and why no store is missed and none is lost, for any tree    *)
(* that serves one process.                                                *)
(*                                                                         *)
(* Deadlock: a held lock is held by a call in progress (Held), and what    *)
(* that call waits for in turn is always nearer to the end of one order in *)
(* which accesses lock upwards and invalidations lock downwards.           *)
(*                                                                         *)
(* Stores: the invariant follows the copies that hold the last store to a  *)
(* line (fresh): a valid copy is one of them unless a child may write the  *)
(* line (Owned), and what a clean copy holds the level above holds too.    *)
(***************************************************************************)
EXTENDS MESIProofs

\* The thread that holds a lock is in a call that does.
Held(h) ==
    /\ \A u \in Threads : \A k \in Caches : h.bcc[k] = u =>
          \E d \in 1 .. h.depth[u] : h.calls[u][d].c = k /\ HasBcc(h, u, d)
    /\ \A u \in Threads : \A k \in Inner : h.tcc[k] = u =>
          \E d \in 1 .. h.depth[u] : h.calls[u][d].c = k /\ InAccess(h, u, d)
    /\ \A u \in Threads : \A k \in Leaves : h.flt[k] = u =>
          \E d \in 1 .. h.depth[u] : h.calls[u][d].c = k /\ h.calls[u][d].pc = "inv"

LocksInv == MESIInv /\ Held(View)

\* What a step of the innermost call of t, number n, does to its locks.
Holding(h, g, t, n) ==
    LET c == h.calls[t][n].c IN
    /\ n >= 1 /\ h.depth[t] = n /\ g.depth[t] \in {n - 1, n, n + 1}
    /\ Alike(h, g, t, n - 1)
    /\ \A k \in Caches : \A u \in Threads \ {t} : g.bcc[k] = u => h.bcc[k] = u
    /\ \A k \in Inner : \A u \in Threads \ {t} : g.tcc[k] = u => h.tcc[k] = u
    /\ \A k \in Leaves : \A u \in Threads \ {t} : g.flt[k] = u => h.flt[k] = u
    /\ \A k \in Caches : g.bcc[k] = t =>
          \/ h.bcc[k] = t /\ (k # c \/ ~ HasBcc(h, t, n))
          \/ \E d \in 1 .. g.depth[t] : g.calls[t][d].c = k /\ HasBcc(g, t, d)
    /\ \A k \in Inner : g.tcc[k] = t =>
          \/ h.tcc[k] = t /\ (k # c \/ ~ InAccess(h, t, n))
          \/ \E d \in 1 .. g.depth[t] : g.calls[t][d].c = k /\ InAccess(g, t, d)
    /\ \A k \in Leaves : g.flt[k] = t =>
          \/ h.flt[k] = t /\ (k # c \/ h.calls[t][n].pc # "inv")
          \/ \E d \in 1 .. g.depth[t] : g.calls[t][d].c = k /\ g.calls[t][d].pc = "inv"

\* After such a step the locks are held by calls.
LEMMA HeldKept ==
    ASSUME NEW h, NEW g, NEW t \in Threads, NEW n \in Nat, Held(h), Holding(h, g, t, n)
    PROVE  Held(g)
<1>1. /\ n >= 1 /\ h.depth[t] = n /\ g.depth[t] \in {n - 1, n, n + 1}
      /\ Alike(h, g, t, n - 1)
  BY DEF Holding
<1>2. ASSUME NEW d \in 1 .. h.depth[t], d # n
      PROVE  /\ d \in 1 .. g.depth[t]
             /\ g.calls[t][d].c = h.calls[t][d].c /\ g.calls[t][d].pc = h.calls[t][d].pc
             /\ HasBcc(h, t, d) => HasBcc(g, t, d)
             /\ InAccess(h, t, d) => InAccess(g, t, d)
  <2>1. d \in 1 .. n - 1 /\ d \in 1 .. g.depth[t] /\ d # h.depth[t]
    BY <1>1, <1>2
  <2>2. /\ g.calls[t][d].c = h.calls[t][d].c /\ g.calls[t][d].pc = h.calls[t][d].pc
        /\ g.calls[t][d].type = h.calls[t][d].type
    BY <1>1, <2>1 DEF Alike
  <2> QED
    BY <2>1, <2>2 DEF HasBcc, InAccess, Access
<1>3. ASSUME NEW u \in Threads \ {t}
      PROVE  /\ g.depth[u] = h.depth[u] /\ g.calls[u] = h.calls[u]
             /\ \A d : HasBcc(h, u, d) => HasBcc(g, u, d)
             /\ \A d : InAccess(h, u, d) => InAccess(g, u, d)
  BY <1>1 DEF Alike, HasBcc, InAccess
<1>4. ASSUME NEW u \in Threads, NEW k \in Caches, g.bcc[k] = u
      PROVE  \E d \in 1 .. g.depth[u] : g.calls[u][d].c = k /\ HasBcc(g, u, d)
  <2>1. CASE u # t
    <3>1. h.bcc[k] = u
      BY <1>4, <2>1 DEF Holding
    <3> QED
      BY <1>3, <2>1, <3>1 DEF Held
  <2>2. CASE u = t
    <3>1. CASE h.bcc[k] = t /\ (k # h.calls[t][n].c \/ ~ HasBcc(h, t, n))
      <4>1. PICK d \in 1 .. h.depth[t] : h.calls[t][d].c = k /\ HasBcc(h, t, d)
        BY <3>1 DEF Held
      <4>2. d # n
        BY <3>1, <4>1
      <4> QED
        BY <1>2, <2>2, <4>1, <4>2
    <3> QED
      BY <1>4, <2>2, <3>1 DEF Holding
  <2> QED
    BY <2>1, <2>2
<1>5. ASSUME NEW u \in Threads, NEW k \in Inner, g.tcc[k] = u
      PROVE  \E d \in 1 .. g.depth[u] : g.calls[u][d].c = k /\ InAccess(g, u, d)
  <2>1. CASE u # t
    <3>1. h.tcc[k] = u
      BY <1>5, <2>1 DEF Holding
    <3> QED
      BY <1>3, <2>1, <3>1 DEF Held
  <2>2. CASE u = t
    <3>1. CASE h.tcc[k] = t /\ (k # h.calls[t][n].c \/ ~ InAccess(h, t, n))
      <4>1. PICK d \in 1 .. h.depth[t] : h.calls[t][d].c = k /\ InAccess(h, t, d)
        BY <3>1 DEF Held
      <4>2. d # n
        BY <3>1, <4>1
      <4> QED
        BY <1>2, <2>2, <4>1, <4>2
    <3> QED
      BY <1>5, <2>2, <3>1 DEF Holding
  <2> QED
    BY <2>1, <2>2
<1>6. ASSUME NEW u \in Threads, NEW k \in Leaves, g.flt[k] = u
      PROVE  \E d \in 1 .. g.depth[u] : g.calls[u][d].c = k /\ g.calls[u][d].pc = "inv"
  <2>1. CASE u # t
    <3>1. h.flt[k] = u
      BY <1>6, <2>1 DEF Holding
    <3> QED
      BY <1>3, <2>1, <3>1 DEF Held
  <2>2. CASE u = t
    <3>1. CASE h.flt[k] = t /\ (k # h.calls[t][n].c \/ h.calls[t][n].pc # "inv")
      <4>1. PICK d \in 1 .. h.depth[t] : h.calls[t][d].c = k /\ h.calls[t][d].pc = "inv"
        BY <3>1 DEF Held
      <4>2. d # n
        BY <3>1, <4>1
      <4> QED
        BY <1>2, <2>2, <4>1, <4>2
    <3> QED
      BY <1>6, <2>2, <3>1 DEF Holding
  <2> QED
    BY <2>1, <2>2
<1> QED
  BY <1>4, <1>5, <1>6 DEF Held
\* A step in which the innermost call goes on as e, with locks it has taken.
LEMMA GoesOn ==
    ASSUME MESIInv, Held(View), NEW t \in Threads, stack[t] # << >>,
           NEW f, f = Top(t), NEW e \in Frame, Become(t, e), e.c = f.c,
           f.pc # "inv",
           e.pc \in {"lookup", "evict", "acc", "top", "end", "iflock", "inv"} \/ f.pc = "tcc",
           Access(f) => Access(e) /\ e.pc # "tcc",
           f.pc = "tcc" => bccLock' = bccLock,
           \A k \in Caches : bccLock'[k] = bccLock[k] \/ (k = f.c /\ bccLock'[k] = t),
           \A k \in Inner :
              tccLock'[k] = tccLock[k] \/ (k = f.c /\ tccLock'[k] = t /\ Access(f)),
           \A k \in Leaves :
              filterLock'[k] = filterLock[k] \/ (k = f.c /\ filterLock'[k] = t /\ e.pc = "inv")
    PROVE  Held(View')
<1> DEFINE n == View.depth[t]
<1>1. /\ n \in Nat /\ n >= 1 /\ n \in 1 .. n /\ View.calls[t][n] = f /\ f \in Frame
      /\ StackType
  BY Acting
<1>2. n = View.depth[t]
  OBVIOUS
<1> HIDE DEF n
<1>3. /\ Below(View, View', t, n - 1) /\ View'.depth[t] = n /\ View'.calls[t][n] = e
  BY <1>1, <1>2, AfterBecome
<1>4. Alike(View, View', t, n - 1)
  BY <1>3, BelowAlike
<1>5. /\ View.bcc = bccLock /\ View'.bcc = bccLock'
      /\ View.tcc = tccLock /\ View'.tcc = tccLock'
      /\ View.flt = filterLock /\ View'.flt = filterLock'
  BY ViewFields, ViewFieldsNext
<1>6. /\ HasBcc(View', t, n) \/ (~ HasBcc(View, t, n) /\ bccLock' = bccLock)
      /\ InAccess(View', t, n) \/ (~ InAccess(View, t, n) /\ ~ Access(f))
  <2>1. CASE f.pc = "tcc"
    <3>1. ~ HasBcc(View, t, n) /\ ~ InAccess(View, t, n)
      BY <1>1, <2>1 DEF HasBcc, InAccess
    <3>2. InAccess(View', t, n) \/ ~ Access(f)
      BY <1>3 DEF InAccess
    <3> QED
      BY <2>1, <3>1, <3>2
  <2>2. CASE f.pc # "tcc"
    <3>1. HasBcc(View', t, n)
      BY <1>3, <2>2 DEF HasBcc
    <3>2. InAccess(View', t, n) \/ ~ Access(f)
      BY <1>3 DEF InAccess
    <3>3. InAccess(View, t, n) => Access(f)
      BY <1>1 DEF InAccess
    <3> QED
      BY <3>1, <3>2, <3>3
  <2> QED
    BY <2>1, <2>2
<1>7. ASSUME NEW k \in Caches, bccLock'[k] = t
      PROVE  \/ bccLock[k] = t /\ (k # f.c \/ ~ HasBcc(View, t, n))
             \/ \E d \in 1 .. n : View'.calls[t][d].c = k /\ HasBcc(View', t, d)
  BY <1>1, <1>3, <1>6, <1>7
<1>8. ASSUME NEW k \in Inner, tccLock'[k] = t
      PROVE  \/ tccLock[k] = t /\ (k # f.c \/ ~ InAccess(View, t, n))
             \/ \E d \in 1 .. n : View'.calls[t][d].c = k /\ InAccess(View', t, d)
  BY <1>1, <1>3, <1>6, <1>8
<1>9. ASSUME NEW k \in Leaves, filterLock'[k] = t
      PROVE  \/ filterLock[k] = t /\ (k # f.c \/ View.calls[t][n].pc # "inv")
             \/ \E d \in 1 .. n : View'.calls[t][d].c = k /\ View'.calls[t][d].pc = "inv"
  BY <1>1, <1>3, <1>9
<1>10. Holding(View, View', t, n)
  BY <1>1, <1>2, <1>3, <1>4, <1>5, <1>7, <1>8, <1>9 DEF Holding
<1> QED
  BY <1>1, <1>10, HeldKept

\* A step in which the innermost call goes on as a and makes call e: it keeps
\* its locks when it goes down, and gives up the bottom lock when it goes up.
LEMMA CallsOn ==
    ASSUME MESIInv, Held(View), NEW t \in Threads, stack[t] # << >>,
           NEW f, f = Top(t), NEW a \in Frame, NEW e \in Frame, Invoke(t, a, e),
           a.c = f.c, a.type = f.type,
           \/ f.pc \in {"evict", "top", "inv"} /\ a.pc = f.pc /\ bccLock' = bccLock
           \/ /\ f.pc \in {"evict", "acc"} /\ a.pc \in {"evput", "accret"}
              /\ bccLock' = [bccLock EXCEPT ![f.c] = None],
           UNCHANGED <<tccLock, filterLock>>
    PROVE  Held(View')
<1> DEFINE n == View.depth[t]
<1>1. /\ n \in Nat /\ n >= 1 /\ View.calls[t][n] = f /\ f \in Frame
      /\ StackType /\ TypeOK
  BY Acting DEF MESIInv
<1>2. n = View.depth[t]
  OBVIOUS
<1> HIDE DEF n
<1>3. /\ Below(View, View', t, n - 1) /\ View'.depth[t] = n + 1 /\ View'.calls[t][n] = a
  BY <1>1, <1>2, AfterInvoke
<1>4. Alike(View, View', t, n - 1)
  BY <1>3, BelowAlike
<1>5. /\ View.bcc = bccLock /\ View'.bcc = bccLock'
      /\ View.tcc = tccLock /\ View'.tcc = tccLock
      /\ View.flt = filterLock /\ View'.flt = filterLock
  BY ViewFields, ViewFieldsNext
<1>6. f.c \in Caches /\ None \notin Threads /\ n \in 1 .. n + 1
  BY <1>1, FrameFields, HierarchyAssumption DEF Threads
<1>7. \/ bccLock' = bccLock /\ HasBcc(View', t, n)
      \/ /\ bccLock'[f.c] = None
         /\ \A k \in Caches : k # f.c => bccLock'[k] = bccLock[k]
  BY <1>1, <1>3, <1>6 DEF HasBcc, TypeOK
<1>8. InAccess(View, t, n) => InAccess(View', t, n)
  BY <1>1, <1>3 DEF InAccess, Access
<1>9. f.pc = "inv" => a.pc = "inv"
  OBVIOUS
<1>10. ASSUME NEW k \in Caches, NEW u \in Threads, bccLock'[k] = u
       PROVE  /\ bccLock[k] = u
              /\ k # f.c \/ ~ HasBcc(View, t, n) \/ HasBcc(View', t, n)
  BY <1>6, <1>7, <1>10
<1>11. Holding(View, View', t, n)
  BY <1>1, <1>2, <1>3, <1>4, <1>5, <1>8, <1>9, <1>10 DEF Holding
<1> QED
  BY <1>1, <1>11, HeldKept
\* A step of an access that takes no lock and gives none up.
LEMMA GoesAhead ==
    ASSUME MESIInv, Held(View), NEW t \in Threads, stack[t] # << >>,
           NEW f, f = Top(t), NEW e \in Frame, Become(t, e), e.c = f.c, e.type = f.type,
           f.pc # "inv", e.pc \in {"lookup", "evict", "acc", "top", "end"},
           UNCHANGED <<bccLock, tccLock, filterLock>>
    PROVE  Held(View')
<1>1. Access(f) => Access(e) /\ e.pc # "tcc"
  BY DEF Access
<1> QED
  BY <1>1, GoesOn

\* The same for a step that does nothing to the call but move it on.
LEMMA MovesOn ==
    ASSUME MESIInv, Held(View), NEW t \in Threads, stack[t] # << >>,
           NEW pc \in {"acc", "top", "end"}, Goto(t, pc), Top(t).pc # "inv",
           UNCHANGED <<bccLock, tccLock, filterLock>>
    PROVE  Held(View')
<1> DEFINE f == Top(t)
           e == [f EXCEPT !.pc = pc]
<1>1. f \in Frame /\ Become(t, e)
  BY Acting DEF Goto
<1>2. f = Top(t) /\ f.pc # "inv"
  OBVIOUS
<1> HIDE DEF f
<1>3. e \in Frame /\ e.c = f.c /\ e.type = f.type /\ e.pc = pc
  BY <1>1 DEF Frame
<1> HIDE DEF e
<1> QED
  BY <1>1, <1>2, <1>3, GoesAhead

\* Locks after the steps of an access inside a cache.
LEMMA InsideHeld ==
    ASSUME MESIInv, Held(View), NEW t \in Threads,
           \/ LookupHit(t) \/ InsertFree(t) \/ (\E v \in Lines : preinsert(t, v))
           \/ evictInvalid(t) \/ evictToMem(t) \/ postinsert(t)
           \/ accessHere(t) \/ accessMem(t) \/ accessReturn(t)
           \/ topPut(t) \/ topGetE(t) \/ topGetS(t) \/ topGetX(t)
    PROVE  Held(View')
<1>1. CASE LookupHit(t) \/ InsertFree(t)
  BY <1>1, MovesOn DEF LookupHit, InsertFree, At
<1>2. CASE accessHere(t) \/ accessMem(t) \/ accessReturn(t)
  <2>1. AfterBcc(Top(t)) \in {"acc", "top", "end"}
    BY DEF AfterBcc
  <2>2. /\ stack[t] # << >> /\ Top(t).pc \in {"acc", "accret"}
        /\ Goto(t, AfterBcc(Top(t)))
        /\ UNCHANGED <<bccLock, tccLock, filterLock>>
    BY <1>2 DEF accessHere, accessMem, accessReturn, At
  <2> QED
    BY <2>1, <2>2, MovesOn
<1>3. CASE topPut(t) \/ topGetE(t) \/ topGetS(t) \/ topGetX(t)
  BY <1>3, MovesOn DEF topPut, topGetE, topGetS, topGetX, Grant, At
<1>4. CASE \E v \in Lines : preinsert(t, v)
  <2>1. PICK v \in Lines : preinsert(t, v)
    BY <1>4
  <2> DEFINE f == Top(t)
             e == [f EXCEPT !.pc = "evict", !.victim = v]
  <2>2. /\ stack[t] # << >> /\ f.pc = "lookup" /\ Become(t, e)
        /\ UNCHANGED <<bccLock, tccLock, filterLock>>
    BY <2>1 DEF preinsert, At
  <2>3. f \in Frame /\ f = Top(t)
    BY <2>2, Acting
  <2> HIDE DEF f
  <2>4. e \in Frame /\ e.c = f.c /\ e.type = f.type /\ e.pc = "evict"
    BY <2>3 DEF Frame
  <2> HIDE DEF e
  <2> QED
    BY <2>2, <2>3, <2>4, GoesAhead
<1>5. CASE evictInvalid(t) \/ evictToMem(t) \/ postinsert(t)
  <2> DEFINE f == Top(t)
             e == Inserted(f)
  <2>1. /\ stack[t] # << >> /\ f.pc \in {"evict", "evput"} /\ Become(t, e)
        /\ UNCHANGED <<bccLock, tccLock, filterLock>>
    BY <1>5 DEF evictInvalid, evictToMem, postinsert, At
  <2>2. f \in Frame /\ f = Top(t)
    BY <2>1, Acting
  <2> HIDE DEF f
  <2>3. e \in Frame /\ e.c = f.c /\ e.type = f.type /\ e.pc = "acc"
    BY <2>2, InsertedCall
  <2> HIDE DEF e
  <2> QED
    BY <2>1, <2>2, <2>3, GoesAhead
<1> QED
  BY <1>1, <1>2, <1>3, <1>4, <1>5
\* The calls that a step leaves on the stack are calls.
LEMMA NewCalls ==
    ASSUME StackType, StackType', NEW t \in Threads, stack[t] # << >>,
           NEW a, NEW e, Invoke(t, a, e)
    PROVE  a \in Frame /\ e \in Frame
<1> DEFINE S == Frame \cup {a, e}
           s == stack[t]
           r == <<e, a>> \o Tail(s)
<1>1. s \in Seq(Frame) /\ stack'[t] \in Seq(Frame) /\ stack'[t] = r
  BY DEF StackType, Invoke
<1>2. s \in Seq(S) /\ a \in S /\ e \in S
  BY <1>1
<1> HIDE DEF S
<1>3. Len(r) = Len(s) + 1 /\ r[1] = e /\ r[2] = a
  BY <1>2, NewHeads
<1>4. Len(s) \in Nat /\ Len(s) >= 1
  BY <1>1
<1> HIDE DEF r, s
<1>5. 1 \in 1 .. Len(r) /\ 2 \in 1 .. Len(r) /\ r \in Seq(Frame)
  BY <1>1, <1>3, <1>4
<1> QED
  BY <1>3, <1>5

\* Locks after a call.
LEMMA CallsHeld ==
    ASSUME MESIInv, MESIInv', Held(View), NEW t \in Threads,
           \/ evictChild(t) \/ topDowngrade(t) \/ topInvalidate(t) \/ invChild(t)
           \/ evictToParent(t) \/ accessParent(t)
    PROVE  Held(View')
<1> DEFINE f == Top(t)
<1>1. stack[t] # << >> /\ f \in Frame /\ f = Top(t) /\ StackType /\ StackType'
  <2>1. stack[t] # << >>
    BY DEF evictChild, topDowngrade, topInvalidate, invChild, evictToParent,
           accessParent, At
  <2> QED
    BY <2>1, Acting DEF MESIInv, TypeOK, StackType
<1>2. \E a, e :
         /\ Invoke(t, a, e)
         /\ a = f \/ a = [f EXCEPT !.pc = "evput"] \/ a = [f EXCEPT !.pc = "accret"]
         /\ \/ f.pc \in {"evict", "top", "inv"} /\ a = f /\ bccLock' = bccLock
            \/ /\ f.pc \in {"evict", "acc"} /\ a # f
               /\ a = [f EXCEPT !.pc = "evput"] \/ a = [f EXCEPT !.pc = "accret"]
               /\ bccLock' = [bccLock EXCEPT ![f.c] = None]
         /\ UNCHANGED <<tccLock, filterLock>>
  <2>1. CASE evictChild(t) \/ topDowngrade(t) \/ topInvalidate(t) \/ invChild(t)
    <3>1. \E e : /\ Invoke(t, f, e) /\ f.pc \in {"evict", "top", "inv"}
                 /\ UNCHANGED <<bccLock, tccLock, filterLock>>
      BY <2>1 DEF evictChild, topDowngrade, topInvalidate, invChild, At
    <3> HIDE DEF f
    <3> QED
      BY <3>1
  <2>2. CASE evictToParent(t)
    <3> DEFINE a == [f EXCEPT !.pc = "evput"]
    <3>1. /\ \E e : Invoke(t, a, e)
          /\ f.pc = "evict" /\ bccLock' = [bccLock EXCEPT ![f.c] = None]
          /\ UNCHANGED <<tccLock, filterLock>>
      BY <2>2 DEF evictToParent, At
    <3> HIDE DEF f
    <3>2. a.pc = "evput"
      BY <1>1 DEF Frame
    <3> QED
      BY <3>1, <3>2
  <2>3. CASE accessParent(t)
    <3> DEFINE a == [f EXCEPT !.pc = "accret"]
    <3>1. /\ \E e : Invoke(t, a, e)
          /\ f.pc = "acc" /\ bccLock' = [bccLock EXCEPT ![f.c] = None]
          /\ UNCHANGED <<tccLock, filterLock>>
      BY <2>3 DEF accessParent, At
    <3> HIDE DEF f
    <3>2. a.pc = "accret"
      BY <1>1 DEF Frame
    <3> QED
      BY <3>1, <3>2
  <2> HIDE DEF f
  <2> QED
    BY <2>1, <2>2, <2>3
<1> HIDE DEF f
<1>3. PICK a, e :
         /\ Invoke(t, a, e)
         /\ a = f \/ a = [f EXCEPT !.pc = "evput"] \/ a = [f EXCEPT !.pc = "accret"]
         /\ \/ f.pc \in {"evict", "top", "inv"} /\ a = f /\ bccLock' = bccLock
            \/ /\ f.pc \in {"evict", "acc"} /\ a # f
               /\ a = [f EXCEPT !.pc = "evput"] \/ a = [f EXCEPT !.pc = "accret"]
               /\ bccLock' = [bccLock EXCEPT ![f.c] = None]
         /\ UNCHANGED <<tccLock, filterLock>>
  BY <1>2
<1>4. a \in Frame /\ e \in Frame
  BY <1>1, <1>3, NewCalls
<1>5. a.c = f.c /\ a.type = f.type
  BY <1>1, <1>3 DEF Frame
<1>6. \/ f.pc \in {"evict", "top", "inv"} /\ a.pc = f.pc /\ bccLock' = bccLock
      \/ /\ f.pc \in {"evict", "acc"} /\ a.pc \in {"evput", "accret"}
         /\ bccLock' = [bccLock EXCEPT ![f.c] = None]
  BY <1>1, <1>3 DEF Frame
<1> QED
  BY <1>1, <1>3, <1>4, <1>5, <1>6, CallsOn
\* Locks after a step that takes one.
LEMMA TakesHeld ==
    ASSUME MESIInv, Held(View), NEW t \in Threads,
           startAccessTcc(t) \/ startAccessBcc(t) \/ startInv(t) \/ invalidateFilter(t)
    PROVE  Held(View')
<1> DEFINE f == Top(t)
           n == View.depth[t]
<1>1. /\ stack[t] # << >> /\ f \in Frame /\ f = Top(t) /\ TypeOK
      /\ View.calls[t][n] = f /\ Shaped(View, t, n)
  <2>1. stack[t] # << >>
    BY DEF startAccessTcc, startAccessBcc, startInv, invalidateFilter, At
  <2> QED
    BY <2>1, Acting DEF MESIInv
<1>2. /\ f.c \in Caches /\ f.type \in Gets \cup Puts \cup Invs
      /\ Gets \cap Puts = {} /\ Gets \cap Invs = {} /\ Puts \cap Invs = {}
  BY <1>1, FrameFields DEF Gets, Puts, Invs
<1>3. CASE startAccessTcc(t)
  <2> DEFINE e == [f EXCEPT !.pc = "bcc"]
  <2>1. /\ f.pc = "tcc" /\ Become(t, e)
        /\ tccLock' = [tccLock EXCEPT ![f.c] = t]
        /\ bccLock' = bccLock /\ filterLock' = filterLock
    BY <1>3 DEF startAccessTcc, At, Goto
  <2> HIDE DEF f, n
  <2>2. e \in Frame /\ e.c = f.c /\ e.type = f.type /\ e.pc = "bcc"
    BY <1>1 DEF Frame
  <2> HIDE DEF e
  <2>3. Access(f) /\ f.c \in Inner
    BY <1>1, <1>2, <2>1 DEF Shaped, Access
  <2>4. \A k \in Inner :
           tccLock'[k] = tccLock[k] \/ (k = f.c /\ tccLock'[k] = t /\ Access(f))
    BY <1>1, <2>1, <2>3 DEF TypeOK
  <2>5. Access(f) => Access(e) /\ e.pc # "tcc"
    BY <2>2 DEF Access
  <2> QED
    BY <1>1, <2>1, <2>2, <2>4, <2>5, GoesOn
<1>4. CASE startAccessBcc(t)
  <2> DEFINE now == ChildState(t)
             e == CheckForMESIRace(f, now)
  <2>1. /\ f.pc = "bcc" /\ Become(t, e)
        /\ bccLock' = [bccLock EXCEPT ![f.c] = t]
        /\ tccLock' = tccLock /\ filterLock' = filterLock
    BY <1>4 DEF startAccessBcc, At
  <2> HIDE DEF f, n, now
  <2>2. /\ e \in Frame /\ e.c = f.c /\ e.pc \in {"lookup", "end"}
        /\ e.type = f.type \/ e.type = "PUTS"
    BY <1>1 DEF Frame, CheckForMESIRace, Puts
  <2> HIDE DEF e
  <2>3. \A k \in Caches : bccLock'[k] = bccLock[k] \/ (k = f.c /\ bccLock'[k] = t)
    BY <1>1, <1>2, <2>1 DEF TypeOK
  <2>4. Access(f) => Access(e) /\ e.pc # "tcc"
    BY <2>2 DEF Access, Puts
  <2> QED
    BY <1>1, <2>1, <2>2, <2>3, <2>4, GoesOn
<1>5. CASE startInv(t)
  <2> DEFINE pc == IF f.c \in Leaves THEN "iflock" ELSE "inv"
             e == [f EXCEPT !.pc = pc]
  <2>1. /\ f.pc = "ilock" /\ Become(t, e)
        /\ bccLock' = [bccLock EXCEPT ![f.c] = t]
        /\ tccLock' = tccLock /\ filterLock' = filterLock
    BY <1>5 DEF startInv, At, Goto
  <2> HIDE DEF f, n
  <2>2. pc \in {"iflock", "inv"}
    OBVIOUS
  <2> HIDE DEF pc
  <2>3. e \in Frame /\ e.c = f.c /\ e.type = f.type /\ e.pc = pc
    BY <1>1, <2>2 DEF Frame
  <2> HIDE DEF e
  <2>4. \A k \in Caches : bccLock'[k] = bccLock[k] \/ (k = f.c /\ bccLock'[k] = t)
    BY <1>1, <1>2, <2>1 DEF TypeOK
  <2>5. Access(f) => Access(e) /\ e.pc # "tcc"
    BY <2>2, <2>3 DEF Access
  <2> QED
    BY <1>1, <2>1, <2>2, <2>3, <2>4, <2>5, GoesOn
<1>6. CASE invalidateFilter(t)
  <2> DEFINE e == [f EXCEPT !.pc = "inv"]
  <2>1. /\ f.pc = "iflock" /\ Become(t, e)
        /\ filterLock' = [filterLock EXCEPT ![f.c] = t]
        /\ tccLock' = tccLock /\ bccLock' = bccLock
    BY <1>6 DEF invalidateFilter, At, Goto
  <2> HIDE DEF f, n
  <2>2. e \in Frame /\ e.c = f.c /\ e.type = f.type /\ e.pc = "inv"
    BY <1>1 DEF Frame
  <2> HIDE DEF e
  <2>3. \A k \in Leaves :
           filterLock'[k] = filterLock[k] \/ (k = f.c /\ filterLock'[k] = t /\ e.pc = "inv")
    BY <1>1, <2>1, <2>2 DEF TypeOK
  <2>4. Access(f) => Access(e) /\ e.pc # "tcc"
    BY <2>2 DEF Access
  <2> QED
    BY <1>1, <2>1, <2>2, <2>3, <2>4, GoesOn
<1> QED
  BY <1>3, <1>4, <1>5, <1>6
\* Locks after endAccess: the child is locked again, for the call that waited.
LEMMA endAccessHeld ==
    ASSUME MESIInv, Held(View), NEW t \in Threads, endAccess(t) PROVE Held(View')
<1> DEFINE f == Top(t)
           n == View.depth[t]
           up == View.calls[t][n - 1]
           c == f.c
           ch == up.c
<1>1. /\ n \in Nat /\ n \in 1 .. View.depth[t] /\ n >= 1
      /\ View.calls[t][n] = f /\ f \in Frame
      /\ Sound(View) /\ TypeOK /\ Shaped(View, t, n) /\ StackType
      /\ f.pc = "end" /\ c \notin Leaves /\ stack[t] # << >>
  BY Acting DEF endAccess, At, MESIInv
<1>2. /\ Access(f) /\ c \in Caches /\ c \in Inner /\ n # 1
  BY <1>1, FrameFields DEF Shaped, Access, Gets, Puts, Invs, Inner
<1>3. /\ n \in 2 .. View.depth[t] /\ n > 1 /\ n - 1 \in 1 .. n - 1 /\ n - 1 # n
      /\ View.depth[t] = n
  BY <1>1, <1>2
<1>4. /\ Caller(t) = up /\ Linked(View, up, f) /\ up \in Frame
  BY <1>1, <1>2, <1>3, Acting DEF endAccess, At
<1>5. ch \in Caches /\ up.pc \in {"accret", "evput"}
  BY <1>2, <1>4, FrameFields DEF Linked, Access, Gets, Puts, Invs
<1>6. /\ bccLock' = [bccLock EXCEPT ![ch] = t, ![c] = None]
      /\ tccLock' = [tccLock EXCEPT ![c] = None]
      /\ Return(t) /\ filterLock' = filterLock
  BY <1>4 DEF endAccess
<1>7. /\ View.bcc = bccLock /\ View'.bcc = bccLock'
      /\ View.tcc = tccLock /\ View'.tcc = tccLock'
      /\ View.flt = filterLock /\ View'.flt = filterLock
  BY <1>6, ViewFields, ViewFieldsNext
<1>8. /\ Below(View, View', t, n - 1) /\ View'.depth[t] = n - 1
  BY <1>1, <1>6, AfterReturn
<1>9. View'.calls[t][n - 1] = up /\ up = View.calls[t][n - 1]
  BY <1>3, <1>8 DEF Below
<1> HIDE DEF n, f, c, up, ch
<1>10. HasBcc(View', t, n - 1) /\ View'.calls[t][n - 1].c = ch
  BY <1>5, <1>8, <1>9 DEF HasBcc, ch
<1>11. None \notin Threads
  BY HierarchyAssumption DEF Threads
<1>12. \A k \in Caches : \/ k = c /\ bccLock'[k] = None
                         \/ k = ch /\ bccLock'[k] = t
                         \/ k # c /\ bccLock'[k] = bccLock[k]
  BY <1>1, <1>2, <1>5, <1>6 DEF TypeOK
<1>13. \A k \in Inner : \/ k = c /\ tccLock'[k] = None
                        \/ k # c /\ tccLock'[k] = tccLock[k]
  BY <1>1, <1>2, <1>6 DEF TypeOK
<1>14. Alike(View, View', t, n - 1)
  BY <1>8, BelowAlike
<1>15. View.calls[t][n].c = c /\ View.calls[t][n].pc # "inv"
  BY <1>1 DEF c
<1>16. Holding(View, View', t, n)
  BY <1>1, <1>3, <1>7, <1>8, <1>10, <1>11, <1>12, <1>13, <1>14, <1>15 DEF Holding
<1> QED
  BY <1>1, <1>16, HeldKept

\* Locks after the last step of FilterCache::replace.
LEMMA endReplaceHeld ==
    ASSUME MESIInv, Held(View), NEW t \in Threads, endReplace(t) PROVE Held(View')
<1> DEFINE f == Top(t)
           n == View.depth[t]
<1>1. /\ n \in Nat /\ n \in 1 .. View.depth[t] /\ n >= 1
      /\ View.calls[t][n] = f /\ f \in Frame
      /\ TypeOK /\ Shaped(View, t, n) /\ StackType
      /\ f.pc = "end" /\ f.c \in Leaves /\ stack[t] # << >>
  BY Acting DEF endReplace, At, MESIInv
<1>2. /\ n = 1 /\ f.c = t
  BY <1>1, FrameFields DEF Shaped, Access, Gets, Puts, Invs
<1>3. /\ bccLock' = [bccLock EXCEPT ![t] = None]
      /\ Return(t) /\ UNCHANGED <<tccLock, filterLock>>
  BY DEF endReplace
<1>4. t \in Caches /\ t \notin Inner /\ None \notin Threads
  BY HierarchyAssumption DEF Threads, Inner
<1>5. /\ View.bcc = bccLock /\ View'.bcc = bccLock'
      /\ View.tcc = tccLock /\ View'.tcc = tccLock
      /\ View.flt = filterLock /\ View'.flt = filterLock
  BY <1>3, ViewFields, ViewFieldsNext
<1>6. /\ Below(View, View', t, n - 1) /\ View'.depth[t] = n - 1
  BY <1>1, <1>3, AfterReturn
<1>7. View.depth[t] = n /\ View.calls[t][n].c = t /\ View.calls[t][n].pc # "inv"
  BY <1>1, <1>2
<1> HIDE DEF f, n
<1>8. Alike(View, View', t, n - 1)
  BY <1>6, BelowAlike
<1>9. bccLock'[t] = None /\ \A k \in Caches : k # t => bccLock'[k] = bccLock[k]
  BY <1>1, <1>3, <1>4 DEF TypeOK
<1>10. Holding(View, View', t, n)
  BY <1>1, <1>4, <1>5, <1>6, <1>7, <1>8, <1>9 DEF Holding
<1> QED
  BY <1>1, <1>10, HeldKept

\* Locks after an invalidation.
LEMMA finishInvalidateHeld ==
    ASSUME MESIInv, Held(View), NEW t \in Threads, finishInvalidate(t) PROVE Held(View')
<1> DEFINE f == Top(t)
           n == View.depth[t]
           up == View.calls[t][n - 1]
           c == f.c
           e == [up EXCEPT !.wb = @ \/ PullsUp(f)]
<1>1. /\ n \in Nat /\ n \in 1 .. View.depth[t] /\ n >= 1
      /\ View.calls[t][n] = f /\ f \in Frame
      /\ TypeOK /\ Shaped(View, t, n) /\ StackType
      /\ f.pc = "inv" /\ stack[t] # << >>
  BY Acting DEF finishInvalidate, At, MESIInv
<1>2. /\ c \in Caches /\ n # 1 /\ ~ Access(f)
  BY <1>1, FrameFields DEF Shaped, Access, Gets, Puts, Invs
<1>3. /\ n > 1 /\ View.depth[t] >= 2 /\ n - 1 >= 1 /\ View.depth[t] = n
      /\ n - 1 \in Nat /\ n - 2 \in Nat
  BY <1>1, <1>2
<1>4. Caller(t) = up /\ up \in Frame
  BY <1>1, <1>3, Acting DEF finishInvalidate, At
<1>5. /\ stack' = [stack EXCEPT ![t] = <<e>> \o Tail(Tail(@))]
      /\ bccLock' = [bccLock EXCEPT ![c] = None]
      /\ filterLock' = IF c \in Leaves THEN [filterLock EXCEPT ![c] = None] ELSE filterLock
      /\ tccLock' = tccLock
  BY <1>4 DEF finishInvalidate
<1>6. /\ View.bcc = bccLock /\ View'.bcc = bccLock'
      /\ View.tcc = tccLock /\ View'.tcc = tccLock
      /\ View.flt = filterLock /\ View'.flt = filterLock'
  BY <1>5, ViewFields, ViewFieldsNext
<1>7. View.calls[t][n].c = c /\ ~ InAccess(View, t, n)
  BY <1>1, <1>2 DEF InAccess
<1> HIDE DEF f, c
<1>8. /\ e \in Frame
      /\ e.c = up.c /\ e.type = up.type /\ e.pc = up.pc /\ e.line = up.line
      /\ e.victim = up.victim
  <2>1. (up.wb \/ PullsUp(f)) \in BOOLEAN
    OBVIOUS
  <2> HIDE DEF up
  <2> QED
    BY <1>4, <2>1 DEF Frame
<1> HIDE DEF e
<1>9. /\ Below(View, View', t, n - 2) /\ View'.depth[t] = n - 1
      /\ View'.calls[t][n - 1] = e
  BY <1>1, <1>3, <1>5, <1>8, AfterFinish
<1> HIDE DEF n, up
<1>10. Alike(View, View', t, n - 1)
  <2>1. ASSUME NEW d \in 1 .. n - 1, d # n - 1
        PROVE  View'.calls[t][d] = View.calls[t][d]
    <3>1. d \in 1 .. n - 2
      BY <1>1, <1>3, <2>1
    <3> QED
      BY <1>9, <3>1 DEF Below
  <2>2. View.calls[t][n - 1] = up
    BY DEF up
  <2> QED
    BY <1>8, <1>9, <2>1, <2>2 DEF Alike, Below
<1>11. bccLock'[c] = None /\ \A k \in Caches : k # c => bccLock'[k] = bccLock[k]
  BY <1>1, <1>2, <1>5 DEF TypeOK
<1>12. \A k \in Leaves : (k = c /\ filterLock'[k] = None) \/ (k # c /\ filterLock'[k] = filterLock[k])
  BY <1>1, <1>5 DEF TypeOK
<1>13. None \notin Threads
  BY HierarchyAssumption DEF Threads
<1>14. Holding(View, View', t, n)
  BY <1>1, <1>3, <1>6, <1>7, <1>9, <1>10, <1>11, <1>12, <1>13 DEF Holding
<1> QED
  BY <1>1, <1>14, HeldKept

\* Locks when an access begins.
LEMMA replaceHeld ==
    ASSUME MESIInv, Held(View), NEW t \in Threads, NEW l \in Lines, NEW type \in Gets,
           replace(t, type, l)
    PROVE  Held(View')
<1> DEFINE e == Call(t, type, l, "I", "bcc")
<1>1. /\ stack[t] = << >> /\ stack' = [stack EXCEPT ![t] = <<e>>]
      /\ UNCHANGED <<bccLock, tccLock, filterLock>>
  BY DEF replace
<1>2. StackType
  BY DEF MESIInv, TypeOK, StackType
<1>3. e \in Frame
  BY HierarchyAssumption DEF Call, Frame, MESI, Threads
<1> HIDE DEF e
<1>4. /\ View.depth[t] = 0 /\ Below(View, View', t, 0)
  BY <1>1, <1>2, <1>3, AfterFirst
<1>5. /\ View'.bcc = View.bcc /\ View'.tcc = View.tcc /\ View'.flt = View.flt
  BY <1>1, ViewFields, ViewFieldsNext
<1>6. \A k : View.bcc[k] = t => k \notin Caches
  BY <1>4 DEF Held
<1>7. \A k : View.tcc[k] = t => k \notin Inner
  BY <1>4 DEF Held
<1>8. \A k : View.flt[k] = t => k \notin Leaves
  BY <1>4 DEF Held
<1>9. ASSUME NEW u \in Threads, u # t
      PROVE  /\ View'.depth[u] = View.depth[u] /\ View'.calls[u] = View.calls[u]
             /\ \A d : HasBcc(View, u, d) => HasBcc(View', u, d)
             /\ \A d : InAccess(View, u, d) => InAccess(View', u, d)
  BY <1>4, <1>9 DEF Below, HasBcc, InAccess
<1> HIDE DEF e
<1> QED
  BY <1>5, <1>6, <1>7, <1>8, <1>9 DEF Held
\* Locks after any step.
LEMMA NextHeld ==
    ASSUME MESIInv, MESIInv', Held(View), [Next]_vars PROVE Held(View')
<1>1. CASE UNCHANGED vars
  <2>1. View' = View
    BY <1>1 DEF View, vars
  <2> QED
    BY <2>1
<1>2. ASSUME NEW t \in Threads, Work(t) PROVE Held(View')
  <2>1. CASE \/ LookupHit(t) \/ InsertFree(t) \/ (\E v \in Lines : preinsert(t, v))
             \/ evictInvalid(t) \/ evictToMem(t) \/ postinsert(t)
             \/ accessHere(t) \/ accessMem(t) \/ accessReturn(t)
             \/ topPut(t) \/ topGetE(t) \/ topGetS(t) \/ topGetX(t)
    BY <2>1, InsideHeld
  <2>2. CASE \/ evictChild(t) \/ topDowngrade(t) \/ topInvalidate(t) \/ invChild(t)
             \/ evictToParent(t) \/ accessParent(t)
    BY <2>2, CallsHeld
  <2>3. CASE \/ startAccessTcc(t) \/ startAccessBcc(t) \/ startInv(t)
             \/ invalidateFilter(t)
    BY <2>3, TakesHeld
  <2>4. CASE endAccess(t) BY <2>4, endAccessHeld
  <2>5. CASE endReplace(t) BY <2>5, endReplaceHeld
  <2>6. CASE finishInvalidate(t) BY <2>6, finishInvalidateHeld
  <2> QED
    BY <1>2, <2>1, <2>2, <2>3, <2>4, <2>5, <2>6 DEF Work
<1>3. ASSUME NEW t \in Threads, (\E l \in Lines : StoreHit(t, l)) \/ contextSwitch(t)
      PROVE  Held(View')
  <2>1. stack' = stack /\ bccLock' = bccLock /\ tccLock' = tccLock
        /\ filterLock' = filterLock
    BY <1>3 DEF StoreHit, contextSwitch
  <2>2. /\ View'.bcc = View.bcc /\ View'.tcc = View.tcc /\ View'.flt = View.flt
        /\ View'.depth = View.depth /\ View'.calls = View.calls
    BY <2>1 DEF View
  <2>3. /\ \A u, d : HasBcc(View', u, d) = HasBcc(View, u, d)
        /\ \A u, d : InAccess(View', u, d) = InAccess(View, u, d)
    BY <2>2 DEF HasBcc, InAccess
  <2> QED
    BY <2>2, <2>3 DEF Held
<1>4. ASSUME NEW t \in Threads, NEW l \in Lines, NEW type \in Gets, replace(t, type, l)
      PROVE  Held(View')
  BY <1>4, replaceHeld
<1> QED
  BY <1>1, <1>2, <1>3, <1>4 DEF Next

\* Every held lock is held by a call in progress, in every state.
THEOREM LocksInvariant == Spec => []LocksInv
<1>1. Init => LocksInv
  <2> SUFFICES ASSUME Init PROVE LocksInv
    OBVIOUS
  <2>1. MESIInv
    BY InitInv
  <2>2. /\ \A c \in Caches : View.bcc[c] = None
        /\ \A c \in Inner : View.tcc[c] = None
        /\ \A c \in Leaves : View.flt[c] = None
    BY ViewFields DEF Init
  <2>3. None \notin Threads
    BY HierarchyAssumption DEF Threads
  <2> QED
    BY <2>1, <2>2, <2>3 DEF LocksInv, Held
<1>2. LocksInv /\ [Next]_vars => LocksInv'
  <2> SUFFICES ASSUME LocksInv, [Next]_vars PROVE LocksInv'
    OBVIOUS
  <2>1. MESIInv /\ Held(View)
    BY DEF LocksInv
  <2>2. MESIInv'
    BY <2>1, NextInv
  <2>3. Held(View')
    BY <2>1, <2>2, NextHeld
  <2> QED
    BY <2>2, <2>3 DEF LocksInv
<1> QED
  BY <1>1, <1>2, PTL DEF Spec
-----------------------------------------------------------------------------
(* The order in which locks are taken.                                     *)

\* How far below the memory controller a cache is.
Measure(dep) ==
    /\ dep \in [Caches -> 0 .. Cardinality(Caches)]
    /\ \A c \in Caches, l \in Lines : Parent[c][l] # Mem => dep[Parent[c][l]] < dep[c]

\* A cache is nearer to the memory than the caches below it.
LEMMA Nearer ==
    ASSUME NEW dep, Measure(dep), NEW c \in Caches, NEW l \in Lines, Parent[c][l] \in Caches
    PROVE  /\ dep[Parent[c][l]] < dep[c]
           /\ dep[c] \in Nat /\ dep[Parent[c][l]] \in Nat
<1>1. Cardinality(Caches) \in Nat
  BY TreeAssumption, FS_CardinalityType
<1>2. Parent[c][l] # Mem
  BY HierarchyAssumption
<1> QED
  BY <1>1, <1>2 DEF Measure

\* The levels above and below call d of u are numbers.
LEMMA Levels ==
    ASSUME NEW h, Sound(h), NEW dep, Measure(dep), NEW u \in Threads,
           NEW d \in 1 .. h.depth[u]
    PROVE  /\ h.calls[u][d] \in Frame /\ h.calls[u][d].c \in Caches
           /\ dep[h.calls[u][d].c] \in Nat
           /\ dep[h.calls[u][d].c] <= Cardinality(Caches)
           /\ Cardinality(Caches) \in Nat /\ h.depth[u] \in Nat
<1>1. h.calls[u][d] \in Frame /\ h.depth[u] \in Nat
  BY DEF Sound, Typed
<1>2. h.calls[u][d].c \in Caches
  BY <1>1, FrameFields
<1>3. Cardinality(Caches) \in Nat
  BY TreeAssumption, FS_CardinalityType
<1> QED
  BY <1>1, <1>2, <1>3 DEF Measure

\* An access is in a cache above those of the calls that led to it.
LEMMA UpNearer ==
    ASSUME NEW h, Sound(h), NEW dep, Measure(dep), NEW u \in Threads,
           NEW d \in 1 .. h.depth[u], NEW e \in 1 .. h.depth[u], d < e,
           Access(h.calls[u][e])
    PROVE  dep[h.calls[u][e].c] < dep[h.calls[u][d].c]
<1> DEFINE Bad == {m \in d + 1 .. h.depth[u] :
                      Access(h.calls[u][m]) /\ ~ (dep[h.calls[u][m].c] < dep[h.calls[u][d].c])}
<1>1. h.depth[u] \in Nat
  BY DEF Sound, Typed
<1>2. SUFFICES Bad = {}
  BY <1>1
<1>3. SUFFICES ASSUME Bad # {} PROVE FALSE
  OBVIOUS
<1>4. Bad \in SUBSET Nat
  BY <1>1
<1>5. PICK m \in Bad : \A j \in Bad : m <= j
  BY <1>3, <1>4, LeastNat
<1>6. /\ m \in d + 1 .. h.depth[u] /\ m \in 2 .. h.depth[u] /\ m \in 1 .. h.depth[u]
      /\ m - 1 \in 1 .. h.depth[u] /\ d <= m - 1 /\ m - 1 < m /\ Access(h.calls[u][m])
      /\ ~ (dep[h.calls[u][m].c] < dep[h.calls[u][d].c])
  BY <1>1, <1>5
<1>7. dep[h.calls[u][m].c] < dep[h.calls[u][m - 1].c]
  <2>1. /\ h.calls[u][m] \in Frame /\ h.calls[u][m - 1] \in Frame
        /\ Parent[h.calls[u][m - 1].c][h.calls[u][m].line] = h.calls[u][m].c
    BY <1>6, AccessSentBy
  <2>2. h.calls[u][m].c \in Caches /\ h.calls[u][m - 1].c \in Caches
        /\ h.calls[u][m].line \in Lines
    BY <2>1, FrameFields
  <2> QED
    BY <2>1, <2>2, Nearer
<1>8. /\ dep[h.calls[u][m].c] \in Nat /\ dep[h.calls[u][m - 1].c] \in Nat
      /\ dep[h.calls[u][d].c] \in Nat
  BY <1>6, Levels
<1>9. m - 1 # d
  BY <1>6, <1>7
<1>10. Access(h.calls[u][m - 1])
  BY <1>6 DEF Sound, UpThenDown
<1>11. m - 1 \notin Bad
  <2>1. ~ (m <= m - 1)
    BY <1>6
  <2> QED
    BY <1>5, <2>1
<1>12. m - 1 \in d + 1 .. h.depth[u]
  BY <1>1, <1>6, <1>9
<1>13. dep[h.calls[u][m - 1].c] < dep[h.calls[u][d].c]
  BY <1>10, <1>11, <1>12
<1> QED
  BY <1>6, <1>7, <1>8, <1>13

\* What a call that holds its bottom lock has called are invalidations, in
\* caches below its own.
LEMMA DownFarther ==
    ASSUME NEW h, Sound(h), NEW dep, Measure(dep), NEW u \in Threads,
           NEW d \in 1 .. h.depth[u], NEW e \in 1 .. h.depth[u], d < e, HasBcc(h, u, d)
    PROVE  /\ h.calls[u][e].type \in Invs
           /\ dep[h.calls[u][d].c] < dep[h.calls[u][e].c]
<1> DEFINE Good(m) == /\ h.calls[u][m].type \in Invs
                      /\ dep[h.calls[u][d].c] < dep[h.calls[u][m].c]
           Bad == {m \in d + 1 .. h.depth[u] : ~ Good(m)}
<1>1. h.depth[u] \in Nat /\ CallsSound(h)
  BY DEF Sound, Typed
<1>2. SUFFICES Bad = {}
  <2>1. e \in d + 1 .. h.depth[u]
    BY <1>1
  <2> QED
    BY <1>2, <2>1
<1>3. SUFFICES ASSUME Bad # {} PROVE FALSE
  OBVIOUS
<1>4. Bad \in SUBSET Nat
  BY <1>1
<1> HIDE DEF Good
<1>5. PICK m \in Bad : \A j \in Bad : m <= j
  BY <1>3, <1>4, LeastNat
<1>6. /\ m \in d + 1 .. h.depth[u] /\ m \in 2 .. h.depth[u] /\ m \in 1 .. h.depth[u]
      /\ m - 1 \in 1 .. h.depth[u] /\ d <= m - 1 /\ m - 1 < m /\ ~ Good(m)
      /\ m - 1 \in 1 .. h.depth[u] - 1 /\ m > 1
  BY <1>1, <1>5
<1>7. m - 1 # d => Good(m - 1)
  <2> SUFFICES ASSUME m - 1 # d PROVE Good(m - 1)
    OBVIOUS
  <2>1. ~ (m <= m - 1)
    BY <1>6
  <2>2. m - 1 \notin Bad
    BY <1>5, <2>1
  <2>3. m - 1 \in d + 1 .. h.depth[u]
    BY <1>1, <1>6
  <2> QED
    BY <2>2, <2>3
<1>8. h.calls[u][m - 1].pc \in {"evict", "top", "inv"}
  <2>1. CASE m - 1 = d
    <3>1. /\ h.calls[u][m - 1].pc \in {"accret", "evput", "evict", "top", "inv"}
          /\ HasBcc(h, u, m - 1) /\ m - 1 # h.depth[u]
      BY <1>1, <1>6, <2>1, Waiting
    <3> QED
      BY <3>1 DEF HasBcc
  <2>2. CASE m - 1 # d
    <3>1. h.calls[u][m - 1].type \in Invs
      BY <1>7, <2>2 DEF Good
    <3>2. h.calls[u][m - 1].type \notin Gets
      BY <3>1 DEF Invs, Gets
    <3> QED
      BY <1>6, <3>2, Waiting
  <2> QED
    BY <2>1, <2>2
<1>9. Linked(h, h.calls[u][m - 1], h.calls[u][m])
  BY <1>1, <1>6 DEF CallsSound, CallSound
<1>10. h.calls[u][m].type \in Invs
  BY <1>8, <1>9 DEF Linked
<1>11. dep[h.calls[u][m - 1].c] < dep[h.calls[u][m].c]
  <2>1. /\ h.calls[u][m] \in Frame /\ h.calls[u][m - 1] \in Frame
        /\ Parent[h.calls[u][m].c][h.calls[u][m].line] = h.calls[u][m - 1].c
    BY <1>6, <1>10, InvSentBy
  <2>2. h.calls[u][m].c \in Caches /\ h.calls[u][m - 1].c \in Caches
        /\ h.calls[u][m].line \in Lines
    BY <2>1, FrameFields
  <2> QED
    BY <2>1, <2>2, Nearer
<1>12. /\ dep[h.calls[u][m].c] \in Nat /\ dep[h.calls[u][m - 1].c] \in Nat
       /\ dep[h.calls[u][d].c] \in Nat
  BY <1>6, Levels
<1>13. dep[h.calls[u][d].c] < dep[h.calls[u][m].c]
  <2>1. CASE m - 1 = d
    BY <1>11, <2>1
  <2>2. CASE m - 1 # d
    <3>1. dep[h.calls[u][d].c] < dep[h.calls[u][m - 1].c]
      BY <1>7, <2>2 DEF Good
    <3> QED
      BY <1>11, <1>12, <3>1
  <2> QED
    BY <2>1, <2>2
<1> QED
  BY <1>6, <1>10, <1>13 DEF Good
\* Where the lock that t is blocked on is in that order: last the filter
\* locks, before them the bottom locks, downwards, first the top locks, upwards.
Rank(dep, t) ==
    LET f == Top(t)
        N == Cardinality(Caches)
    IN  CASE f.pc = "tcc" -> N + 2 + dep[f.c]
          [] f.pc \in {"bcc", "ilock"} -> N + 1 - dep[f.c]
          [] f.pc = "end" /\ f.c \notin Leaves -> N + 1 - dep[Caller(t).c]
          [] OTHER -> 0

\* The three kinds of locks a thread can be blocked on.
LEMMA Blocked ==
    ASSUME MESIInv, NEW dep, Measure(dep), NEW t \in Threads, NEW u \in Threads,
           WaitsFor(t) = u
    PROVE  LET n == View.depth[t]
               N == Cardinality(Caches)
           IN  /\ n \in Nat /\ n >= 1 /\ N \in Nat
               /\ \/ /\ View.calls[t][n].pc = "tcc"
                     /\ \E k \in Inner : /\ View.tcc[k] = u /\ k = View.calls[t][n].c
                                         /\ dep[k] \in 0 .. N /\ Rank(dep, t) = N + 2 + dep[k]
                  \/ /\ View.calls[t][n].pc \in {"bcc", "ilock", "end"}
                     /\ \E k \in Caches :
                           /\ View.bcc[k] = u
                           /\ k = IF View.calls[t][n].pc = "end"
                                  THEN View.calls[t][n - 1].c ELSE View.calls[t][n].c
                           /\ View.calls[t][n].pc = "end" => n >= 2
                           /\ dep[k] \in 0 .. N /\ Rank(dep, t) = N + 1 - dep[k]
                  \/ /\ View.calls[t][n].pc \in {"iflock", "end"}
                     /\ \E k \in Leaves : View.flt[k] = u
                     /\ Rank(dep, t) = 0
<1> DEFINE n == View.depth[t]
           f == Top(t)
           N == Cardinality(Caches)
<1>1. stack[t] # << >>
  BY HierarchyAssumption DEF WaitsFor, Threads
<1>2. /\ n \in Nat /\ n >= 1 /\ View.calls[t][n] = f /\ f \in Frame /\ Shaped(View, t, n)
      /\ n > 1 => Caller(t) = View.calls[t][n - 1] /\ Caller(t) \in Frame
  BY <1>1, Acting
<1>3. N \in Nat /\ \A k \in Caches : dep[k] \in 0 .. N
  BY TreeAssumption, FS_CardinalityType DEF Measure
<1>4. View.bcc = bccLock /\ View.tcc = tccLock /\ View.flt = filterLock
  BY ViewFields
<1>5. f.c \in Caches /\ (n > 1 => Caller(t).c \in Caches)
  BY <1>2, FrameFields
<1>6. u # None
  BY HierarchyAssumption DEF Threads
<1>7. f.pc \in {"tcc", "bcc", "ilock", "iflock", "end"}
  BY <1>1, <1>6 DEF WaitsFor
<1>8. CASE f.pc = "tcc"
  <2>1. f.c \in Inner
    BY <1>2, <1>8 DEF Shaped
  <2>2. tccLock[f.c] = u
    BY <1>1, <1>8 DEF WaitsFor
  <2>3. Rank(dep, t) = N + 2 + dep[f.c]
    BY <1>8 DEF Rank
  <2> HIDE DEF n, f, N
  <2> QED
    BY <1>2, <1>3, <1>4, <1>5, <1>8, <2>1, <2>2, <2>3 DEF n, N
<1>9. CASE f.pc \in {"bcc", "ilock"}
  <2>2. bccLock[f.c] = u
    BY <1>1, <1>9 DEF WaitsFor
  <2>3. Rank(dep, t) = N + 1 - dep[f.c]
    BY <1>9 DEF Rank
  <2> HIDE DEF n, f, N
  <2> QED
    BY <1>2, <1>3, <1>4, <1>5, <1>9, <2>2, <2>3 DEF n, N
<1>10. CASE f.pc = "iflock" \/ (f.pc = "end" /\ f.c \in Leaves)
  <2>1. f.c \in Leaves
    BY <1>2, <1>10 DEF Shaped
  <2>2. filterLock[f.c] = u
    BY <1>1, <1>10, <2>1 DEF WaitsFor
  <2>3. Rank(dep, t) = 0
    BY <1>10, <2>1 DEF Rank
  <2> HIDE DEF n, f, N
  <2> QED
    BY <1>2, <1>3, <1>4, <1>5, <1>10, <2>1, <2>2, <2>3 DEF n, N
<1>11. CASE f.pc = "end" /\ f.c \notin Leaves
  <2>1. n # 1 /\ n > 1 /\ n >= 2
    BY <1>2, <1>11, FrameFields DEF Shaped
  <2>2. bccLock[Caller(t).c] = u
    BY <1>1, <1>11 DEF WaitsFor
  <2>3. Rank(dep, t) = N + 1 - dep[Caller(t).c]
    BY <1>11 DEF Rank
  <2> HIDE DEF n, f, N
  <2> QED
    BY <1>2, <1>3, <1>4, <1>5, <1>11, <2>1, <2>2, <2>3 DEF n, N
<1> QED
  BY <1>7, <1>8, <1>9, <1>10, <1>11
\* A thread that is blocked on the holder of a lock is further from the end
\* of the order than the lock that holder is blocked on.
LEMMA WaitsDescend ==
    ASSUME LocksInv, NEW dep, Measure(dep), NEW t \in Threads, NEW u \in Threads,
           NEW w \in Threads, WaitsFor(t) = u, WaitsFor(u) = w
    PROVE  Rank(dep, u) < Rank(dep, t)
<1> DEFINE m == View.depth[u]
           N == Cardinality(Caches)
           e == View.calls[u][m]
<1>1. MESIInv /\ Held(View) /\ Sound(View)
  BY DEF LocksInv, MESIInv
<1>2. /\ m \in Nat /\ m >= 1 /\ N \in Nat /\ m \in 1 .. m
      /\ \/ /\ e.pc = "tcc"
            /\ dep[e.c] \in 0 .. N /\ Rank(dep, u) = N + 2 + dep[e.c]
         \/ /\ e.pc \in {"bcc", "ilock"}
            /\ dep[e.c] \in 0 .. N /\ Rank(dep, u) = N + 1 - dep[e.c]
         \/ /\ e.pc = "end" /\ m >= 2 /\ dep[View.calls[u][m - 1].c] \in 0 .. N
            /\ Rank(dep, u) = N + 1 - dep[View.calls[u][m - 1].c]
         \/ e.pc \in {"iflock", "end"} /\ Rank(dep, u) = 0
  <2>1. /\ m \in Nat /\ m >= 1 /\ N \in Nat
        /\ \/ /\ e.pc = "tcc"
              /\ \E k \in Inner : /\ View.tcc[k] = w /\ k = e.c
                                  /\ dep[k] \in 0 .. N /\ Rank(dep, u) = N + 2 + dep[k]
           \/ /\ e.pc \in {"bcc", "ilock", "end"}
              /\ \E k \in Caches :
                    /\ View.bcc[k] = w
                    /\ k = IF e.pc = "end" THEN View.calls[u][m - 1].c ELSE e.c
                    /\ e.pc = "end" => m >= 2
                    /\ dep[k] \in 0 .. N /\ Rank(dep, u) = N + 1 - dep[k]
           \/ /\ e.pc \in {"iflock", "end"}
              /\ \E k \in Leaves : View.flt[k] = w
              /\ Rank(dep, u) = 0
    BY <1>1, Blocked
  <2> HIDE DEF m, e, N
  <2>2. m \in 1 .. m
    BY <2>1
  <2> QED
    BY <2>1, <2>2
<1>3. m = View.depth[u] /\ e = View.calls[u][m]
  OBVIOUS
<1> HIDE DEF m, e, N
<1>4. e \in Frame /\ e.c \in Caches /\ Shaped(View, u, m)
  <2>1. CallsSound(View) /\ Typed(View)
    BY <1>1 DEF Sound
  <2>2. CallSound(View, u, m)
    BY <1>2, <1>3, <2>1 DEF CallsSound
  <2>3. e \in Frame
    BY <1>2, <1>3, <2>1 DEF Typed
  <2> QED
    BY <2>2, <2>3, FrameFields DEF CallSound
<1>5. e.pc \in {"tcc", "bcc", "end"} => e.type \notin Invs
  BY <1>3, <1>4 DEF Shaped
<1>6. CASE \E k \in Inner : View.tcc[k] = u /\ dep[k] \in 0 .. N /\ Rank(dep, t) = N + 2 + dep[k]
  <2>1. PICK k \in Inner : View.tcc[k] = u /\ dep[k] \in 0 .. N /\ Rank(dep, t) = N + 2 + dep[k]
    BY <1>6
  <2>2. PICK d \in 1 .. m : View.calls[u][d].c = k /\ InAccess(View, u, d)
    BY <1>1, <1>3, <2>1 DEF Held
  <2>3. CASE e.pc = "tcc"
    <3>1. d # m
      BY <1>3, <2>2, <2>3 DEF InAccess
    <3>2. d < m /\ d \in 1 .. View.depth[u] /\ m \in 1 .. View.depth[u]
      BY <1>2, <1>3, <3>1
    <3>3. Access(e)
      BY <1>4, <1>5, <2>3, FrameFields DEF Access, Gets, Puts, Invs
    <3>4. dep[e.c] < dep[k]
      BY <1>1, <1>3, <2>2, <3>2, <3>3, UpNearer
    <3>5. Rank(dep, u) = N + 2 + dep[e.c] /\ dep[e.c] \in 0 .. N
      BY <1>2, <2>3
    <3> QED
      BY <1>2, <2>1, <3>4, <3>5
  <2>4. CASE e.pc # "tcc"
    <3>1. Rank(dep, u) \in 0 .. N + 1
      BY <1>2, <2>4
    <3> QED
      BY <1>2, <2>1, <3>1
  <2> QED
    BY <2>3, <2>4
<1>7. CASE \E k \in Caches : View.bcc[k] = u /\ dep[k] \in 0 .. N /\ Rank(dep, t) = N + 1 - dep[k]
  <2>1. PICK k \in Caches : View.bcc[k] = u /\ dep[k] \in 0 .. N /\ Rank(dep, t) = N + 1 - dep[k]
    BY <1>7
  <2>2. PICK d \in 1 .. m : View.calls[u][d].c = k /\ HasBcc(View, u, d)
    BY <1>1, <1>3, <2>1 DEF Held
  <2>3. CASE Rank(dep, u) = 0
    BY <1>2, <2>1, <2>3
  <2>4. CASE Rank(dep, u) # 0 /\ d # m
    <3>1. d < m /\ d \in 1 .. View.depth[u] /\ m \in 1 .. View.depth[u]
      BY <1>2, <1>3, <2>4
    <3>2. e.type \in Invs /\ dep[k] < dep[e.c]
      BY <1>1, <1>3, <2>2, <3>1, DownFarther
    <3>3. dep[e.c] \in 0 .. N /\ Rank(dep, u) = N + 1 - dep[e.c]
      BY <1>2, <1>5, <2>4, <3>2
    <3> QED
      BY <1>2, <2>1, <3>2, <3>3
  <2>5. CASE Rank(dep, u) # 0 /\ d = m
    <3>1. e.pc = "end" /\ m >= 2 /\ e.c = k
      BY <1>2, <1>3, <2>2, <2>5 DEF HasBcc
    <3> DEFINE up == View.calls[u][m - 1]
    <3>2. dep[up.c] \in 0 .. N /\ Rank(dep, u) = N + 1 - dep[up.c]
      BY <1>2, <2>5, <3>1
    <3>3. Access(e) /\ m \in 2 .. View.depth[u] /\ m - 1 \in 1 .. View.depth[u]
          /\ m - 1 < m /\ m \in 1 .. View.depth[u]
      <4>1. Access(e)
        BY <1>4, <1>5, <3>1, FrameFields DEF Access, Gets, Puts, Invs
      <4> QED
        BY <1>2, <1>3, <3>1, <4>1
    <3>4. dep[k] < dep[up.c]
      BY <1>1, <1>3, <3>1, <3>3, UpNearer
    <3> HIDE DEF up
    <3> QED
      BY <1>2, <2>1, <3>2, <3>4
  <2> QED
    BY <2>3, <2>4, <2>5
<1>8. CASE \E k \in Leaves : View.flt[k] = u
  <2>1. PICK k \in Leaves : View.flt[k] = u
    BY <1>8
  <2>2. PICK d \in 1 .. m : View.calls[u][d].c = k /\ View.calls[u][d].pc = "inv"
    BY <1>1, <1>3, <2>1 DEF Held
  <2>3. d # m
    BY <1>2, <1>3, <2>2
  <2>4. /\ d < m /\ d \in 1 .. View.depth[u] /\ d + 1 \in 1 .. View.depth[u]
        /\ d + 1 \in 2 .. View.depth[u] /\ d < d + 1 /\ (d + 1) - 1 = d
    BY <1>2, <1>3, <2>3
  <2>5. HasBcc(View, u, d)
    BY <2>2 DEF HasBcc
  <2>6. View.calls[u][d + 1].type \in Invs
    BY <1>1, <2>4, <2>5, DownFarther
  <2>7. View.calls[u][(d + 1) - 1].c \in Inner
    BY <1>1, <2>4, <2>6, InvSentBy
  <2> QED
    BY <2>2, <2>4, <2>7 DEF Inner
<1>9. \/ \E k \in Inner : View.tcc[k] = u /\ dep[k] \in 0 .. N /\ Rank(dep, t) = N + 2 + dep[k]
      \/ \E k \in Caches : View.bcc[k] = u /\ dep[k] \in 0 .. N /\ Rank(dep, t) = N + 1 - dep[k]
      \/ \E k \in Leaves : View.flt[k] = u
  BY <1>1, Blocked DEF N
<1> QED
  BY <1>6, <1>7, <1>8, <1>9

\* So no threads wait for each other in a circle.
LEMMA InvNoWaitCycle == ASSUME LocksInv PROVE NoWaitCycle
<1> SUFFICES ASSUME NEW S \in SUBSET Threads, S # {}, \A t \in S : WaitsFor(t) \in S
             PROVE  FALSE
  BY DEF NoWaitCycle
<1>1. PICK dep : Measure(dep)
  BY TreeAssumption DEF Measure
<1> DEFINE R == {Rank(dep, t) : t \in S}
<1>2. ASSUME NEW t \in S
      PROVE  Rank(dep, t) \in Nat
  <2>1. t \in Threads /\ WaitsFor(t) \in Threads /\ MESIInv
    BY DEF LocksInv
  <2>2. /\ Cardinality(Caches) \in Nat
        /\ \/ \E k \in Inner : dep[k] \in 0 .. Cardinality(Caches)
                               /\ Rank(dep, t) = Cardinality(Caches) + 2 + dep[k]
           \/ \E k \in Caches : dep[k] \in 0 .. Cardinality(Caches)
                                /\ Rank(dep, t) = Cardinality(Caches) + 1 - dep[k]
           \/ Rank(dep, t) = 0
    BY <1>1, <2>1, Blocked
  <2> QED
    BY <2>2
<1>3. R \in SUBSET Nat /\ R # {}
  BY <1>2
<1>4. PICK r \in R : \A q \in R : r <= q
  BY <1>3, LeastNat
<1>5. PICK t \in S : r = Rank(dep, t)
  BY <1>4
<1>6. /\ t \in Threads /\ WaitsFor(t) \in S /\ WaitsFor(t) \in Threads
      /\ WaitsFor(WaitsFor(t)) \in Threads
  OBVIOUS
<1>7. Rank(dep, WaitsFor(t)) < Rank(dep, t)
  BY <1>1, <1>6, WaitsDescend
<1>8. Rank(dep, WaitsFor(t)) \in R
  BY <1>6
<1>9. r <= Rank(dep, WaitsFor(t)) /\ r \in Nat /\ Rank(dep, WaitsFor(t)) \in Nat
  BY <1>3, <1>4, <1>8
<1> QED
  BY <1>5, <1>7, <1>9

\* No deadlock (NoWaitCycle): accesses that lock upwards, the invalidations
\* they set off, which lock downwards, and the relocking of a child at the end
\* of an access never wait for each other in a circle, in any tree of caches.
THEOREM NoDeadlock == Spec => []NoWaitCycle
<1>1. LocksInv => NoWaitCycle
  BY InvNoWaitCycle
<1> QED
  BY <1>1, LocksInvariant, PTL

-----------------------------------------------------------------------------

\* A child of c may write l.
Owned(h, c, l) == \E k \in Caches : Parent[k][l] = c /\ Excl(h, k, l)

\* Invalidation call f has pulled dirty data of l up into its cache, whose
\* state does not show it yet.
Pulled(f, l) ==
    /\ f.wb
    /\ \/ f.pc = "evict" /\ f.victim = l
       \/ f.pc \in {"top", "inv"} /\ f.line = l

PulledUp(h, c, l) ==
    \E t \in Threads : \E d \in 1 .. h.depth[t] :
        h.calls[t][d].c = c /\ Pulled(h.calls[t][d], l)


\* What is known of the copies W that hold the last store to l: a valid copy is
\* in a cache that serves l, and one of them unless a child may write l; memory
\* is one unless the cache below may write l; what a clean copy holds the level
\* above holds as well.
LineData(h, W, l) ==
    /\ \A c \in Caches :
          /\ h.state[c][l] # "I" => c \in Serving(l)
          /\ h.state[c][l] # "I" /\ ~ Owned(h, c, l) => c \in W
          /\ h.state[c][l] = "E" /\ c \in W /\ ~ PulledUp(h, c, l) => Parent[c][l] \in W
    /\ ~ Owned(h, Mem, l) => Mem \in W

\* Access f is in a cache that serves its line; what a PUTX has brought stays
\* there until the child is off the directory; a PUT pulls nothing up.
CallData(f, w) ==
    /\ Access(f) => f.c \in Serving(f.line)
    /\ f.type = "PUTX" /\ f.pc = "top" => f.c \in w[f.line]
    /\ f.pc \notin {"evict", "evput"} => f.victim = None
    /\ f.type \in Puts => ~ f.wb

Data(h, w) ==
    /\ \A l \in Lines : LineData(h, w[l], l)
    /\ \A t \in Threads : \A d \in 1 .. h.depth[t] : CallData(h.calls[t][d], w)

DataInv == MESIInv /\ Data(View, fresh)
-----------------------------------------------------------------------------
(* What steps keep.                                                        *)

\* A call of t above call m has pulled up l into c.
PulledAbove(h, t, m, c, l) ==
    \E d \in m + 1 .. h.depth[t] : h.calls[t][d].c = c /\ Pulled(h.calls[t][d], l)

\* The calls that stay have pulled up what they had.
LEMMA PulledKept ==
    ASSUME NEW h, NEW g, NEW t \in Threads, NEW m \in Nat, Below(h, g, t, m),
           h.depth[t] \in Nat, g.depth[t] \in Nat, m <= g.depth[t],
           NEW c, NEW l, PulledUp(h, c, l)
    PROVE  PulledUp(g, c, l) \/ PulledAbove(h, t, m, c, l)
<1>0. PICK u \in Threads :
          \E d \in 1 .. h.depth[u] : h.calls[u][d].c = c /\ Pulled(h.calls[u][d], l)
  BY DEF PulledUp
<1>1. PICK d \in 1 .. h.depth[u] : h.calls[u][d].c = c /\ Pulled(h.calls[u][d], l)
  BY <1>0
<1>2. CASE u # t
  BY <1>1, <1>2 DEF Below, PulledUp
<1>3. CASE u = t /\ d <= m
  <2>1. d \in 1 .. m /\ d \in 1 .. g.depth[t]
    BY <1>3
  <2>2. g.calls[t][d] = h.calls[t][d]
    BY <2>1 DEF Below
  <2> QED
    BY <1>1, <1>3, <2>1, <2>2 DEF PulledUp
<1>4. CASE u = t /\ ~ (d <= m)
  <2>1. d \in m + 1 .. h.depth[t]
    BY <1>4
  <2> QED
    BY <1>1, <1>4, <2>1 DEF PulledAbove
<1> QED
  BY <1>2, <1>3, <1>4

\* What a PUTX has brought stays where it is.
Delivers(f, w, v) ==
    f.type = "PUTX" /\ f.pc = "top" /\ f.c \in w[f.line] => f.c \in v[f.line]

\* The calls of the other threads, and those of t below call m, stay.
Going(h, g, w, v, t, m) ==
    /\ Below(h, g, t, m)
    /\ h.depth[t] \in Nat /\ g.depth[t] \in Nat /\ m <= h.depth[t] /\ m <= g.depth[t]
    /\ \A d \in m + 1 .. g.depth[t] : CallData(g.calls[t][d], v)
    /\ \A k \in Threads : \A j \in 1 .. h.depth[k] :
          (k # t \/ j <= m) => Delivers(h.calls[k][j], w, v)

\* They know what they knew.
LEMMA CallsKept ==
    ASSUME NEW h, NEW g, NEW w, NEW v, NEW t \in Threads, NEW m \in Nat, Data(h, w),
           Going(h, g, w, v, t, m),
           NEW u \in Threads, NEW d \in 1 .. g.depth[u]
    PROVE  CallData(g.calls[u][d], v)
<1> USE DEF Going
<1>1. CASE u # t
  <2>1. d \in 1 .. h.depth[u] /\ g.calls[u][d] = h.calls[u][d]
    BY <1>1 DEF Below
  <2>2. CallData(h.calls[u][d], w)
    BY <2>1 DEF Data
  <2> QED
    BY <1>1, <2>1, <2>2 DEF CallData, Delivers
<1>2. CASE u = t /\ d <= m
  <2>1. d \in 1 .. m /\ d \in 1 .. h.depth[t]
    BY <1>2
  <2>2. g.calls[t][d] = h.calls[t][d]
    BY <2>1 DEF Below
  <2>3. CallData(h.calls[t][d], w)
    BY <2>1 DEF Data
  <2> QED
    BY <1>2, <2>1, <2>2, <2>3 DEF CallData, Delivers
<1>3. CASE u = t /\ ~ (d <= m)
  <2>1. d \in m + 1 .. g.depth[t]
    BY <1>3
  <2> QED
    BY <1>3, <2>1
<1> QED
  BY <1>1, <1>2, <1>3

\* A line whose states stay, or become M where a child or the cache itself
\* may write: the copies grow at most by such as are not clean.
LEMMA LineKept ==
    ASSUME NEW h, NEW g, NEW W, NEW V, NEW l \in Lines, LineData(h, W, l), W \subseteq V,
           \A c \in Caches : \/ g.state[c][l] = h.state[c][l]
                             \/ Excl(h, c, l) /\ g.state[c][l] = "M",
           \A c \in Caches : g.state[c][l] = "E" =>
               /\ c \in V => c \in W
               /\ PulledUp(h, c, l) => PulledUp(g, c, l)
    PROVE  LineData(g, V, l)
<1>1. \A c \in Caches : /\ Excl(g, c, l) = Excl(h, c, l)
                        /\ g.state[c][l] # "I" <=> h.state[c][l] # "I"
                        /\ g.state[c][l] = "E" => h.state[c][l] = "E"
  BY DEF Excl
<1>2. \A c : Owned(g, c, l) = Owned(h, c, l)
  BY <1>1 DEF Owned
<1> QED
  BY <1>1, <1>2 DEF LineData

\* A step that hands no copy out and takes none away.
LEMMA QuietStep ==
    ASSUME NEW h, NEW g, NEW w, NEW v, NEW t \in Threads, NEW m \in Nat, Data(h, w),
           Typed(h), Below(h, g, t, m), g.depth[t] \in Nat,
           m <= h.depth[t], m <= g.depth[t],
           \A d \in m + 1 .. g.depth[t] : CallData(g.calls[t][d], v),
           \A l \in Lines : w[l] \subseteq v[l],
           \A c \in Caches, l \in Lines :
              \/ g.state[c][l] = h.state[c][l]
              \/ Excl(h, c, l) /\ g.state[c][l] = "M",
           \A c \in Caches, l \in Lines : g.state[c][l] = "E" /\ c \in v[l] => c \in w[l],
           \A d \in m + 1 .. h.depth[t] : \A l \in Lines :
              Pulled(h.calls[t][d], l) =>
                  \/ PulledUp(g, h.calls[t][d].c, l)
                  \/ g.state[h.calls[t][d].c][l] # "E"
    PROVE  Data(g, v)
<1>1. h.depth[t] \in Nat /\ \A u \in Threads : \A d \in 1 .. h.depth[u] : h.calls[u][d] \in Frame
  BY DEF Typed
<1>2. ASSUME NEW l \in Lines
      PROVE  LineData(g, v[l], l)
  <2>1. \A c \in Caches : g.state[c][l] = "E" /\ PulledUp(h, c, l) => PulledUp(g, c, l)
    <3>1. \A c : PulledUp(h, c, l) => PulledUp(g, c, l) \/ PulledAbove(h, t, m, c, l)
      BY <1>1, PulledKept
    <3> QED
      BY <3>1 DEF PulledAbove
  <2>2. LineData(h, w[l], l)
    BY DEF Data
  <2> QED
    BY <2>1, <2>2, LineKept
<1>3. ASSUME NEW u \in Threads, NEW d \in 1 .. g.depth[u]
      PROVE  CallData(g.calls[u][d], v)
  <2>1. \A k \in Threads : \A j \in 1 .. h.depth[k] : Delivers(h.calls[k][j], w, v)
    BY <1>1, FrameFields DEF Delivers
  <2>2. Going(h, g, w, v, t, m)
    BY <1>1, <2>1 DEF Going
  <2> QED
    BY <2>2, CallsKept
<1> QED
  BY <1>2, <1>3 DEF Data

\* Nothing happens to lines other than x.
Elsewhere(h, g, w, v, t, m, x) ==
    /\ \A l \in Lines \ {x} : v[l] = w[l]
    /\ \A c \in Caches, l \in Lines \ {x} : g.state[c][l] = h.state[c][l]
    /\ \A d \in m + 1 .. h.depth[t] : \A l \in Lines \ {x} :
          Pulled(h.calls[t][d], l) => PulledUp(g, h.calls[t][d].c, l)

\* A step that concerns the copies of line x.
LEMMA LineStep ==
    ASSUME NEW h, NEW g, NEW w, NEW v, NEW t \in Threads, NEW m \in Nat, Data(h, w),
           Going(h, g, w, v, t, m),
           NEW x \in Lines, LineData(g, v[x], x), Elsewhere(h, g, w, v, t, m, x)
    PROVE  Data(g, v)
<1> USE DEF Elsewhere
<1>1. /\ Below(h, g, t, m)
      /\ h.depth[t] \in Nat /\ g.depth[t] \in Nat /\ m <= g.depth[t]
  BY DEF Going
<1>2. ASSUME NEW l \in Lines \ {x}
      PROVE  LineData(g, v[l], l)
  <2>1. \A c \in Caches : PulledUp(h, c, l) => PulledUp(g, c, l)
    <3>1. \A c : PulledUp(h, c, l) => PulledUp(g, c, l) \/ PulledAbove(h, t, m, c, l)
      BY <1>1, PulledKept
    <3> QED
      BY <3>1 DEF PulledAbove
  <2>2. LineData(h, w[l], l)
    BY DEF Data
  <2> QED
    BY <2>1, <2>2, LineKept
<1>3. ASSUME NEW u \in Threads, NEW d \in 1 .. g.depth[u]
      PROVE  CallData(g.calls[u][d], v)
  BY CallsKept
<1> QED
  BY <1>2, <1>3 DEF Data
-----------------------------------------------------------------------------
(* Steps that hand no copy out and take none away.                         *)

\* At most an exclusive copy becomes dirty, and joins the copies that hold the
\* last store.
Unmoved ==
    /\ \A l \in Lines : fresh[l] \subseteq fresh'[l]
    /\ \A c \in Caches, l \in Lines :
          \/ state'[c][l] = state[c][l]
          \/ Excl(View, c, l) /\ state'[c][l] = "M"
    /\ \A c \in Caches, l \in Lines :
          state'[c][l] = "E" /\ c \in fresh'[l] => c \in fresh[l]

\* What the innermost call may become.
Goes(f, e) ==
    /\ e \in Frame
    /\ e.c = f.c /\ e.line = f.line
    /\ Access(e) => Access(f)
    /\ e.type = "PUTX" /\ e.pc = "top" => e.c \in fresh'[e.line]
    /\ e.pc \notin {"evict", "evput"} => e.victim = None
    /\ e.type \in Puts => f.type \in Puts /\ (e.wb => f.wb)

\* The same as QuietStep, of a step.
LEMMA QuietMove ==
    ASSUME DataInv, NEW t \in Threads, NEW m \in Nat, Below(View, View', t, m),
           View'.depth[t] \in Nat, m <= View.depth[t], m <= View'.depth[t],
           Unmoved,
           \A d \in m + 1 .. View'.depth[t] : CallData(View'.calls[t][d], fresh'),
           \A d \in m + 1 .. View.depth[t] : \A l \in Lines :
              Pulled(View.calls[t][d], l) =>
                  \/ PulledUp(View', View.calls[t][d].c, l)
                  \/ state'[View.calls[t][d].c][l] # "E"
    PROVE  Data(View', fresh')
<1> DEFINE h == View
           g == View'
           w == fresh
           v == fresh'
<1>1. Data(h, w) /\ Typed(h)
  BY DEF DataInv, MESIInv, Sound
<1>2. h.state = state /\ g.state = state'
  BY ViewFields, ViewFieldsNext
<1>3. \A l \in Lines : w[l] \subseteq v[l]
  BY DEF Unmoved
<1>4. \A c \in Caches, l \in Lines :
          \/ g.state[c][l] = h.state[c][l]
          \/ Excl(h, c, l) /\ g.state[c][l] = "M"
  BY <1>2 DEF Unmoved
<1>5. \A c \in Caches, l \in Lines : g.state[c][l] = "E" /\ c \in v[l] => c \in w[l]
  BY <1>2 DEF Unmoved
<1>6. \A d \in m + 1 .. h.depth[t] : \A l \in Lines :
          Pulled(h.calls[t][d], l) =>
              \/ PulledUp(g, h.calls[t][d].c, l)
              \/ g.state[h.calls[t][d].c][l] # "E"
  BY <1>2
<1>7. /\ Below(h, g, t, m) /\ g.depth[t] \in Nat /\ m <= h.depth[t] /\ m <= g.depth[t]
      /\ \A d \in m + 1 .. g.depth[t] : CallData(g.calls[t][d], v)
  OBVIOUS
<1> HIDE DEF h, g, w, v
<1>8. Data(g, v)
  BY <1>1, <1>3, <1>4, <1>5, <1>6, <1>7, QuietStep
<1> QED
  BY <1>8 DEF g, v

\* The innermost call goes on as e; it carries no writeback flag.
LEMMA QuietBecome ==
    ASSUME DataInv, NEW t \in Threads, stack[t] # << >>, NEW f, f = Top(t),
           NEW e, Goes(f, e), Become(t, e), Unmoved,
           f.pc \notin {"evict", "top", "inv"} \/ ~ f.wb
    PROVE  Data(View', fresh')
<1> DEFINE n == View.depth[t]
<1>1. /\ n \in Nat /\ n >= 1 /\ n \in 1 .. View.depth[t]
      /\ View.calls[t][n] = f /\ f \in Frame /\ StackType
  BY Acting DEF DataInv
<1>2. /\ Below(View, View', t, n - 1) /\ View'.depth[t] = n /\ View'.calls[t][n] = e
  BY <1>1, AfterBecome DEF Goes
<1>3. CallData(f, fresh)
  BY <1>1 DEF DataInv, Data
<1>4. CallData(e, fresh')
  BY <1>3 DEF CallData, Goes
<1>5. \A l : ~ Pulled(f, l)
  BY DEF Pulled
<1>6. n = View.depth[t]
  OBVIOUS
<1> HIDE DEF n
<1>7. /\ n - 1 \in Nat /\ n - 1 <= n
      /\ \A d : d \in (n - 1) + 1 .. n => d = n
  BY <1>1
<1> QED
  BY <1>1, <1>2, <1>4, <1>5, <1>6, <1>7, QuietMove

\* The innermost call goes on as a and makes call e.
LEMMA QuietInvoke ==
    ASSUME DataInv, NEW t \in Threads, stack[t] # << >>, NEW f, f = Top(t),
           NEW a, Goes(f, a), NEW e \in Frame, Invoke(t, a, e), Unmoved,
           CallData(e, fresh'),
           \A l \in Lines : Pulled(f, l) => Pulled(a, l) \/ state'[f.c][l] # "E"
    PROVE  Data(View', fresh')
<1> DEFINE n == View.depth[t]
<1>1. /\ n \in Nat /\ n >= 1 /\ n \in 1 .. View.depth[t]
      /\ View.calls[t][n] = f /\ f \in Frame /\ StackType
  BY Acting DEF DataInv
<1>2. /\ Below(View, View', t, n - 1) /\ View'.depth[t] = n + 1
      /\ View'.calls[t][n] = a /\ View'.calls[t][n + 1] = e
  BY <1>1, AfterInvoke DEF Goes
<1>3. CallData(f, fresh)
  BY <1>1 DEF DataInv, Data
<1>4. CallData(a, fresh')
  BY <1>3 DEF CallData, Goes
<1>5. n = View.depth[t]
  OBVIOUS
<1> HIDE DEF n
<1>6. /\ n - 1 \in Nat /\ n - 1 <= n /\ n - 1 <= n + 1 /\ n + 1 \in Nat
      /\ n \in 1 .. n + 1
      /\ \A d : d \in (n - 1) + 1 .. n => d = n
      /\ \A d : d \in (n - 1) + 1 .. n + 1 => d = n \/ d = n + 1
  BY <1>1
<1>7. \A l \in Lines : Pulled(f, l) => PulledUp(View', f.c, l) \/ state'[f.c][l] # "E"
  BY <1>2, <1>6 DEF PulledUp, Goes
<1> QED
  BY <1>1, <1>2, <1>4, <1>5, <1>6, <1>7, QuietMove

\* The innermost call returns.
LEMMA QuietReturn ==
    ASSUME DataInv, NEW t \in Threads, stack[t] # << >>, Return(t), Unmoved,
           Top(t).pc = "end"
    PROVE  Data(View', fresh')
<1> DEFINE n == View.depth[t]
<1>1. /\ n \in Nat /\ n >= 1 /\ n \in 1 .. View.depth[t]
      /\ View.calls[t][n] = Top(t) /\ StackType
  BY Acting DEF DataInv
<1>2. Below(View, View', t, n - 1) /\ View'.depth[t] = n - 1
  BY <1>1, AfterReturn
<1>3. \A l : ~ Pulled(Top(t), l)
  BY DEF Pulled
<1>4. n = View.depth[t]
  OBVIOUS
<1> HIDE DEF n
<1>5. /\ n - 1 \in Nat /\ n - 1 <= n /\ n - 1 <= n - 1
      /\ \A d : d \in (n - 1) + 1 .. n => d = n
      /\ \A d : d \notin (n - 1) + 1 .. n - 1
  BY <1>1
<1> QED
  BY <1>1, <1>2, <1>3, <1>4, <1>5, QuietMove
\* What is known of the innermost call.
LEMMA ActingData ==
    ASSUME DataInv, NEW t \in Threads, stack[t] # << >>
    PROVE  /\ CallData(Top(t), fresh) /\ Top(t) \in Frame
           /\ Shaped(View, t, View.depth[t]) /\ Own(View, Top(t), TRUE)
           /\ View.calls[t][View.depth[t]] = Top(t)
           /\ View.depth[t] \in 1 .. View.depth[t]
           /\ MESIInv /\ TypeOK
<1>1. /\ View.depth[t] \in 1 .. View.depth[t]
      /\ View.calls[t][View.depth[t]] = Top(t) /\ Top(t) \in Frame
      /\ Shaped(View, t, View.depth[t]) /\ Own(View, Top(t), TRUE)
  BY Acting DEF DataInv
<1> QED
  BY <1>1 DEF DataInv, Data, MESIInv

\* Nothing happens to the copies.
LEMMA SameCopies == ASSUME UNCHANGED <<state, fresh>> PROVE Unmoved
BY DEF Unmoved

\* Waiting for the locks of startAccess and startInv.
LEMMA startAccessTccData ==
    ASSUME DataInv, NEW t \in Threads, startAccessTcc(t) PROVE Data(View', fresh')
<1> DEFINE f == Top(t)
           e == [f EXCEPT !.pc = "bcc"]
<1>1. /\ stack[t] # << >> /\ f.pc = "tcc" /\ Become(t, e)
      /\ UNCHANGED <<state, fresh>>
  BY DEF startAccessTcc, At, Goto
<1>2. CallData(f, fresh) /\ f \in Frame
  BY <1>1, ActingData
<1>3. f = Top(t)
  OBVIOUS
<1> HIDE DEF f
<1>4. Goes(f, e)
  BY <1>1, <1>2 DEF Goes, CallData, Frame, Access
<1> HIDE DEF e
<1> QED
  BY <1>1, <1>3, <1>4, SameCopies, QuietBecome

\* See startAccessTccData.
LEMMA startAccessBccData ==
    ASSUME DataInv, NEW t \in Threads, startAccessBcc(t) PROVE Data(View', fresh')
<1> DEFINE f == Top(t)
           e == CheckForMESIRace(f, ChildState(t))
<1>1. /\ stack[t] # << >> /\ f.pc = "bcc" /\ Become(t, e)
      /\ UNCHANGED <<state, fresh>>
  BY DEF startAccessBcc, At
<1>2. CallData(f, fresh) /\ f \in Frame
  BY <1>1, ActingData
<1>3. f = Top(t)
  OBVIOUS
<1>4. \/ e = [f EXCEPT !.pc = "end"]
      \/ e = [f EXCEPT !.pc = "lookup", !.type = "PUTS"] /\ f.type \in Puts
      \/ e = [f EXCEPT !.pc = "lookup"]
  BY DEF CheckForMESIRace
<1> HIDE DEF f, e
<1>5. Goes(f, e)
  <2>1. CASE e = [f EXCEPT !.pc = "end"]
    BY <1>1, <1>2, <2>1 DEF Goes, CallData, Frame, Access
  <2>2. CASE e = [f EXCEPT !.pc = "lookup", !.type = "PUTS"] /\ f.type \in Puts
    BY <1>1, <1>2, <2>2 DEF Goes, CallData, Frame, Access, Puts
  <2>3. CASE e = [f EXCEPT !.pc = "lookup"]
    BY <1>1, <1>2, <2>3 DEF Goes, CallData, Frame, Access
  <2> QED
    BY <1>4, <2>1, <2>2, <2>3
<1> QED
  BY <1>1, <1>3, <1>5, SameCopies, QuietBecome

\* See startAccessTccData.
LEMMA startInvData ==
    ASSUME DataInv, NEW t \in Threads, startInv(t) PROVE Data(View', fresh')
<1> DEFINE f == Top(t)
           p == IF f.c \in Leaves THEN "iflock" ELSE "inv"
           e == [f EXCEPT !.pc = p]
<1>1. /\ stack[t] # << >> /\ f.pc = "ilock" /\ Become(t, e)
      /\ UNCHANGED <<state, fresh>>
  BY DEF startInv, At, Goto
<1>2. CallData(f, fresh) /\ f \in Frame
  BY <1>1, ActingData
<1>3. f = Top(t) /\ p \in {"iflock", "inv"}
  OBVIOUS
<1> HIDE DEF f, p
<1>4. Goes(f, e)
  BY <1>1, <1>2, <1>3 DEF Goes, CallData, Frame, Access
<1> HIDE DEF e
<1> QED
  BY <1>1, <1>3, <1>4, SameCopies, QuietBecome

\* See startAccessTccData.
LEMMA invalidateFilterData ==
    ASSUME DataInv, NEW t \in Threads, invalidateFilter(t) PROVE Data(View', fresh')
<1> DEFINE f == Top(t)
           e == [f EXCEPT !.pc = "inv"]
<1>1. /\ stack[t] # << >> /\ f.pc = "iflock" /\ Become(t, e)
      /\ UNCHANGED <<state, fresh>>
  BY DEF invalidateFilter, At, Goto
<1>2. CallData(f, fresh) /\ f \in Frame
  BY <1>1, ActingData
<1>3. f = Top(t)
  OBVIOUS
<1> HIDE DEF f
<1>4. Goes(f, e)
  BY <1>1, <1>2 DEF Goes, CallData, Frame, Access
<1> HIDE DEF e
<1> QED
  BY <1>1, <1>3, <1>4, SameCopies, QuietBecome

\* The line is found.
LEMMA LookupHitData ==
    ASSUME DataInv, NEW t \in Threads, LookupHit(t) PROVE Data(View', fresh')
<1> DEFINE f == Top(t)
           e == [f EXCEPT !.pc = "acc"]
<1>1. /\ stack[t] # << >> /\ f.pc = "lookup" /\ Become(t, e)
      /\ UNCHANGED <<state, fresh>>
  BY DEF LookupHit, At, Goto
<1>2. CallData(f, fresh) /\ f \in Frame
  BY <1>1, ActingData
<1>3. f = Top(t)
  OBVIOUS
<1> HIDE DEF f
<1>4. Goes(f, e)
  BY <1>1, <1>2 DEF Goes, CallData, Frame, Access
<1> HIDE DEF e
<1> QED
  BY <1>1, <1>3, <1>4, SameCopies, QuietBecome

\* A free line id is taken.
LEMMA InsertFreeData ==
    ASSUME DataInv, NEW t \in Threads, InsertFree(t) PROVE Data(View', fresh')
<1> DEFINE f == Top(t)
           e == [f EXCEPT !.pc = "acc"]
<1>1. /\ stack[t] # << >> /\ f.pc = "lookup" /\ Become(t, e)
      /\ UNCHANGED <<state, fresh>>
  BY DEF InsertFree, At, Goto
<1>2. CallData(f, fresh) /\ f \in Frame
  BY <1>1, ActingData
<1>3. f = Top(t)
  OBVIOUS
<1> HIDE DEF f
<1>4. Goes(f, e)
  BY <1>1, <1>2 DEF Goes, CallData, Frame, Access
<1> HIDE DEF e
<1> QED
  BY <1>1, <1>3, <1>4, SameCopies, QuietBecome

\* A victim is chosen.
LEMMA preinsertData ==
    ASSUME DataInv, NEW t \in Threads, NEW v \in Lines, preinsert(t, v)
    PROVE  Data(View', fresh')
<1> DEFINE f == Top(t)
           e == [f EXCEPT !.pc = "evict", !.victim = v]
<1>1. /\ stack[t] # << >> /\ f.pc = "lookup" /\ Become(t, e)
      /\ UNCHANGED <<state, fresh>>
  BY DEF preinsert, At
<1>2. CallData(f, fresh) /\ f \in Frame
  BY <1>1, ActingData
<1>3. f = Top(t)
  OBVIOUS
<1> HIDE DEF f
<1>4. Goes(f, e)
  BY <1>1, <1>2 DEF Goes, CallData, Frame, Access
<1> HIDE DEF e
<1> QED
  BY <1>1, <1>3, <1>4, SameCopies, QuietBecome

\* The victim was gone already.
LEMMA evictInvalidData ==
    ASSUME DataInv, NEW t \in Threads, evictInvalid(t) PROVE Data(View', fresh')
<1> DEFINE f == Top(t)
           e == Inserted(f)
<1>1. /\ stack[t] # << >> /\ f.pc = "evict" /\ Become(t, e)
      /\ EvictedState(f) = "I"
      /\ UNCHANGED <<state, fresh>>
  BY DEF evictInvalid, At
<1>2. CallData(f, fresh) /\ f \in Frame
  BY <1>1, ActingData
<1>3. f = Top(t) /\ ~ f.wb
  BY <1>1 DEF EvictedState
<1> HIDE DEF f
<1>4. Goes(f, e)
  BY <1>1, <1>2 DEF Goes, CallData, Frame, Access, Inserted
<1> HIDE DEF e
<1> QED
  BY <1>1, <1>3, <1>4, SameCopies, QuietBecome

\* The victim has been written back.
LEMMA postinsertData ==
    ASSUME DataInv, NEW t \in Threads, postinsert(t) PROVE Data(View', fresh')
<1> DEFINE f == Top(t)
           e == Inserted(f)
<1>1. /\ stack[t] # << >> /\ f.pc = "evput" /\ Become(t, e)
      /\ UNCHANGED <<state, fresh>>
  BY DEF postinsert, At
<1>2. CallData(f, fresh) /\ f \in Frame
  BY <1>1, ActingData
<1>3. f = Top(t)
  OBVIOUS
<1> HIDE DEF f
<1>4. Goes(f, e)
  BY <1>1, <1>2 DEF Goes, CallData, Frame, Access, Inserted
<1> HIDE DEF e
<1> QED
  BY <1>1, <1>3, <1>4, SameCopies, QuietBecome
\* Invalidations that go out and on: what a call has pulled up it keeps.
LEMMA CallDownData ==
    ASSUME DataInv, NEW t \in Threads, stack[t] # << >>, NEW f, f = Top(t),
           NEW e \in Frame, Invoke(t, f, e), UNCHANGED <<state, fresh>>,
           f.type # "PUTX", e.type \in Invs, e.victim = None
    PROVE  Data(View', fresh')
<1>1. CallData(f, fresh) /\ f \in Frame
  BY ActingData
<1>2. Goes(f, f)
  BY <1>1 DEF Goes, CallData
<1>3. CallData(e, fresh') /\ e.type \notin Puts
  BY DEF CallData, Access, Gets, Puts, Invs
<1>4. Unmoved /\ \A l \in Lines : Pulled(f, l) => Pulled(f, l)
  BY SameCopies
<1> QED
  BY <1>2, <1>3, <1>4, QuietInvoke

\* See CallDownData.
LEMMA evictChildData ==
    ASSUME DataInv, NEW t \in Threads, evictChild(t) PROVE Data(View', fresh')
<1> DEFINE f == Top(t)
           S == Sharers(f.c, f.victim)
           e == invalidate(t, "INV", f.victim, S)
           n == View.depth[t]
<1>1. /\ stack[t] # << >> /\ f.pc = "evict" /\ S # {} /\ Invoke(t, f, e)
      /\ UNCHANGED <<state, fresh>>
  BY DEF evictChild, At
<1>2. f \in Frame /\ Shaped(View, t, n) /\ View.calls[t][n] = f /\ TypeOK
  BY <1>1, ActingData
<1>3. f.victim \in Lines /\ f.c \in Inner
  BY <1>1, <1>2, FrameFields, ViewFields DEF Shaped, TypeOK, Sharers, Inner
<1>4. S \in SUBSET Caches /\ "INV" \in Invs
  BY <1>2, <1>3 DEF TypeOK, Invs, Sharers
<1>5. f = Top(t) /\ f.type # "PUTX"
  BY <1>1, <1>2 DEF Shaped, Puts
<1>6. e.victim = None
  BY DEF invalidate, Call
<1> HIDE DEF f, S, n
<1>7. e \in Frame /\ e.type = "INV"
  BY <1>1, <1>3, <1>4, Invalidation
<1> HIDE DEF e
<1> QED
  BY <1>1, <1>4, <1>5, <1>6, <1>7, CallDownData

\* See CallDownData.
LEMMA topDowngradeData ==
    ASSUME DataInv, NEW t \in Threads, topDowngrade(t) PROVE Data(View', fresh')
<1> DEFINE f == Top(t)
           S == dir[f.c][f.line].sharers
           e == invalidate(t, "INVX", f.line, S)
           n == View.depth[t]
<1>1. /\ stack[t] # << >> /\ f.pc = "top" /\ f.type = "GETS"
      /\ DirExclusive(f.c, f.line) /\ Invoke(t, f, e)
      /\ UNCHANGED <<state, fresh>>
  BY DEF topDowngrade, At
<1>2. /\ f \in Frame /\ Shaped(View, t, n) /\ View.calls[t][n] = f /\ TypeOK
      /\ Sound(View)
  BY <1>1, ActingData DEF MESIInv
<1>3. f.line \in Lines /\ f.c \in Inner
  BY <1>1, <1>2, FrameFields DEF Shaped
<1>4. S \in SUBSET Caches /\ S # {} /\ "INVX" \in Invs
  <2>1. S \in SUBSET Caches /\ "INVX" \in Invs
    BY <1>2, <1>3 DEF TypeOK, Invs
  <2>2. View.dir[f.c][f.line].sharers # {} /\ View.dir = dir
    BY <1>1, <1>2, <1>3, ExclusiveEntry, ViewFields
  <2> QED
    BY <2>1, <2>2
<1>5. f = Top(t) /\ f.type # "PUTX"
  BY <1>1
<1>6. e.victim = None
  BY DEF invalidate, Call
<1> HIDE DEF f, S, n
<1>7. e \in Frame /\ e.type = "INVX"
  BY <1>3, <1>4, Invalidation
<1> HIDE DEF e
<1> QED
  BY <1>1, <1>4, <1>5, <1>6, <1>7, CallDownData

\* See CallDownData.
LEMMA topInvalidateData ==
    ASSUME DataInv, NEW t \in Threads, topInvalidate(t) PROVE Data(View', fresh')
<1> DEFINE f == Top(t)
           S == Others(t, f)
           e == invalidate(t, "INV", f.line, S)
           n == View.depth[t]
<1>1. /\ stack[t] # << >> /\ f.pc = "top" /\ f.type = "GETX" /\ S # {}
      /\ Invoke(t, f, e)
      /\ UNCHANGED <<state, fresh>>
  BY DEF topInvalidate, At
<1>2. f \in Frame /\ Shaped(View, t, n) /\ View.calls[t][n] = f /\ TypeOK
  BY <1>1, ActingData
<1>3. f.line \in Lines /\ f.c \in Inner
  BY <1>1, <1>2, FrameFields DEF Shaped
<1>4. S \in SUBSET Caches /\ "INV" \in Invs
  BY <1>2, <1>3 DEF TypeOK, Invs, Others
<1>5. f = Top(t) /\ f.type # "PUTX"
  BY <1>1
<1>6. e.victim = None
  BY DEF invalidate, Call
<1> HIDE DEF f, S, n
<1>7. e \in Frame /\ e.type = "INV"
  BY <1>1, <1>3, <1>4, Invalidation
<1> HIDE DEF e
<1> QED
  BY <1>1, <1>4, <1>5, <1>6, <1>7, CallDownData

\* See CallDownData.
LEMMA invChildData ==
    ASSUME DataInv, NEW t \in Threads, invChild(t) PROVE Data(View', fresh')
<1> DEFINE f == Top(t)
           S == Pending(f)
           e == invalidate(t, f.type, f.line, S)
           n == View.depth[t]
<1>1. /\ stack[t] # << >> /\ f.pc = "inv" /\ S # {} /\ Invoke(t, f, e)
      /\ UNCHANGED <<state, fresh>>
  BY DEF invChild, At
<1>2. f \in Frame /\ Shaped(View, t, n) /\ View.calls[t][n] = f /\ TypeOK
  BY <1>1, ActingData
<1>3. f.line \in Lines /\ f.c \in Inner
  BY <1>1, <1>2, FrameFields DEF Shaped, Pending, Inner
<1>4. S \in SUBSET Caches
  BY <1>2, <1>3 DEF TypeOK, Pending
<1>5. f = Top(t) /\ f.type \in Invs /\ f.type # "PUTX"
  BY <1>1, <1>2, FrameFields DEF Shaped, Gets, Puts, Invs
<1>6. e.victim = None
  BY DEF invalidate, Call
<1> HIDE DEF f, S, n
<1>7. e \in Frame /\ e.type = f.type
  BY <1>1, <1>3, <1>4, <1>5, Invalidation
<1> HIDE DEF e
<1> QED
  BY <1>1, <1>5, <1>6, <1>7, CallDownData

\* A parent serves the lines it is asked for.
LEMMA ParentServes ==
    ASSUME NEW c \in Caches, NEW l \in Lines, Parent[c][l] # Mem
    PROVE  Parent[c][l] \in Serving(l)
BY DEF Serving

\* The request goes up.
LEMMA accessParentData ==
    ASSUME DataInv, NEW t \in Threads, accessParent(t) PROVE Data(View', fresh')
<1> DEFINE f == Top(t)
           p == Parent[f.c][f.line]
           here == state[f.c][f.line]
           a == [f EXCEPT !.pc = "accret"]
           e == Call(p, f.type, f.line, here, "tcc")
<1>1. /\ stack[t] # << >> /\ f.pc = "acc" /\ p # Mem
      /\ Invoke(t, a, e)
      /\ UNCHANGED <<state, fresh>>
  BY DEF accessParent, At
<1>2. f \in Frame /\ CallData(f, fresh) /\ TypeOK
  BY <1>1, ActingData
<1>3. f.c \in Caches /\ f.line \in Lines /\ here \in MESI
  BY <1>2, FrameFields DEF TypeOK
<1>4. p \in Caches /\ p \in Serving(f.line)
  BY <1>1, <1>3, ParentOf, ParentServes
<1>5. f = Top(t)
  OBVIOUS
<1> HIDE DEF f, p, here
<1>6. e \in Frame
  BY <1>2, <1>3, <1>4 DEF Call, Frame
<1>7. CallData(e, fresh')
  BY <1>4 DEF CallData, Call
<1>8. Goes(f, a)
  BY <1>1, <1>2 DEF Goes, CallData, Frame, Access
<1>9. \A l \in Lines : Pulled(f, l) => Pulled(a, l) \/ state'[f.c][l] # "E"
  BY <1>1 DEF Pulled
<1> HIDE DEF a, e
<1> QED
  BY <1>1, <1>5, <1>6, <1>7, <1>8, <1>9, SameCopies, QuietInvoke

\* The victim goes up: dirty data pulled up into it is in its state now.
LEMMA evictToParentData ==
    ASSUME DataInv, NEW t \in Threads, evictToParent(t) PROVE Data(View', fresh')
<1> DEFINE f == Top(t)
           s == EvictedState(f)
           p == Parent[f.c][f.victim]
           a == [f EXCEPT !.pc = "evput"]
           e == Call(p, IF s = "M" THEN "PUTX" ELSE "PUTS", f.victim, s, "tcc")
           n == View.depth[t]
<1>1. /\ stack[t] # << >> /\ f.pc = "evict" /\ p # Mem
      /\ state' = [state EXCEPT ![f.c][f.victim] = s]
      /\ Invoke(t, a, e)
      /\ UNCHANGED fresh
  BY DEF evictToParent, At
<1>2. /\ f \in Frame /\ CallData(f, fresh) /\ TypeOK /\ Shaped(View, t, n)
      /\ View.calls[t][n] = f /\ Own(View, f, TRUE)
  BY <1>1, ActingData
<1>3. f.c \in Caches /\ f.victim \in Lines
  BY <1>1, <1>2, FrameFields, ViewFields DEF Shaped, TypeOK
<1>4. /\ s = IF f.wb THEN "M" ELSE state[f.c][f.victim]
      /\ f.wb => Excl(View, f.c, f.victim)
      /\ state[f.c][f.victim] \in MESI /\ s \in MESI
  BY <1>1, <1>2, <1>3 DEF EvictedState, Own, TypeOK, MESI
<1>5. p \in Caches /\ p \in Serving(f.victim)
  BY <1>1, <1>3, ParentOf, ParentServes
<1>6. f = Top(t)
  OBVIOUS
<1> HIDE DEF f, p, s, n
<1>7. e \in Frame
  BY <1>3, <1>4, <1>5 DEF Call, Frame, Puts
<1>8. CallData(e, fresh')
  BY <1>5 DEF CallData, Call
<1>9. Goes(f, a)
  BY <1>1, <1>2 DEF Goes, CallData, Frame, Access
<1>10. /\ state'[f.c][f.victim] = s
       /\ \A c \in Caches, l \in Lines :
             c # f.c \/ l # f.victim => state'[c][l] = state[c][l]
  BY <1>1, <1>2, <1>3 DEF TypeOK
<1>11. Unmoved
  BY <1>1, <1>4, <1>10 DEF Unmoved
<1>12. \A l \in Lines : Pulled(f, l) => Pulled(a, l) \/ state'[f.c][l] # "E"
  BY <1>1, <1>4, <1>10 DEF Pulled
<1> HIDE DEF a, e
<1> QED
  BY <1>1, <1>6, <1>7, <1>8, <1>9, <1>11, <1>12, QuietInvoke

\* An access returns.
LEMMA endAccessData ==
    ASSUME DataInv, NEW t \in Threads, endAccess(t) PROVE Data(View', fresh')
<1>1. /\ stack[t] # << >> /\ Top(t).pc = "end" /\ Return(t)
      /\ UNCHANGED <<state, fresh>>
  BY DEF endAccess, At
<1> QED
  BY <1>1, SameCopies, QuietReturn

\* See endAccessData.
LEMMA endReplaceData ==
    ASSUME DataInv, NEW t \in Threads, endReplace(t) PROVE Data(View', fresh')
<1>1. /\ stack[t] # << >> /\ Top(t).pc = "end" /\ Return(t)
      /\ UNCHANGED <<state, fresh>>
  BY DEF endReplace, At
<1> QED
  BY <1>1, SameCopies, QuietReturn

\* A core misses its filter.
LEMMA replaceData ==
    ASSUME DataInv, NEW t \in Threads, NEW l \in Lines, NEW type \in Gets,
           replace(t, type, l)
    PROVE  Data(View', fresh')
<1> DEFINE e == Call(t, type, l, "I", "bcc")
<1>1. /\ stack[t] = << >> /\ stack' = [stack EXCEPT ![t] = <<e>>]
      /\ UNCHANGED <<state, fresh>>
  BY DEF replace
<1>2. StackType
  BY DEF DataInv, MESIInv, TypeOK, StackType
<1>3. e \in Frame
  BY HierarchyAssumption DEF Call, Frame, MESI, Threads
<1>4. CallData(e, fresh')
  BY DEF CallData, Call, Serving, Threads
<1> HIDE DEF e
<1>5. /\ View.depth[t] = 0 /\ Below(View, View', t, 0)
      /\ View'.depth[t] = 1 /\ View'.calls[t][1] = e
  BY <1>1, <1>2, <1>3, AfterFirst
<1>6. /\ 0 \in Nat /\ 1 \in Nat /\ 0 <= 0 /\ 0 <= 1
      /\ \A d : d \notin 0 + 1 .. 0
      /\ \A d : d \in 0 + 1 .. 1 => d = 1
  OBVIOUS
<1> QED
  BY <1>1, <1>4, <1>5, <1>6, SameCopies, QuietMove

\* The filter is emptied: no call and no copy changes.
LEMMA contextSwitchData ==
    ASSUME DataInv, UNCHANGED <<stack, state, fresh>> PROVE Data(View', fresh')
<1>1. View'.state = View.state /\ View'.depth = View.depth /\ View'.calls = View.calls
  BY DEF View
<1>2. Data(View, fresh)
  BY DEF DataInv
<1>3. \A c, l : Excl(View', c, l) = Excl(View, c, l)
  BY <1>1 DEF Excl
<1>4. \A c, l : /\ Owned(View', c, l) = Owned(View, c, l)
                /\ PulledUp(View', c, l) = PulledUp(View, c, l)
  BY <1>1, <1>3 DEF Owned, PulledUp
<1>5. \A l \in Lines : LineData(View', fresh'[l], l)
  BY <1>1, <1>2, <1>3, <1>4 DEF Data, LineData
<1>6. \A t \in Threads : \A d \in 1 .. View'.depth[t] : CallData(View'.calls[t][d], fresh')
  BY <1>1, <1>2 DEF Data
<1> QED
  BY <1>5, <1>6 DEF Data
\* The cache that sends a PUT has no children with a copy left.
LEMMA PutChild ==
    ASSUME MESIInv, NEW t \in Threads, stack[t] # << >>, Top(t).type \in Puts
    PROVE  LET f == Top(t)
               ch == Caller(t).c
           IN  /\ View.depth[t] \in 2 .. View.depth[t]
               /\ Caller(t) = View.calls[t][View.depth[t] - 1]
               /\ ch \in Caches /\ f.line \in Lines
               /\ f.c = Parent[ch][f.line] /\ f.c \in Inner
               /\ Asked(View, f, ch)
               /\ \A k \in Caches : Parent[k][f.line] = ch => state[k][f.line] = "I"
               /\ ~ Owned(View, ch, f.line)
<1> DEFINE n == View.depth[t]
           f == Top(t)
           up == View.calls[t][n - 1]
<1>1. /\ n \in Nat /\ n >= 1 /\ n \in 1 .. View.depth[t] /\ View.calls[t][n] = f
      /\ f \in Frame /\ Sound(View) /\ Shaped(View, t, n)
      /\ n > 1 => /\ Caller(t) = up /\ Linked(View, up, f) /\ up \in Frame
                  /\ n - 1 \in 1 .. View.depth[t] /\ n \in 2 .. View.depth[t]
      /\ n > 1 /\ Access(f) => Asked(View, f, up.c)
  BY Acting
<1>2. n = View.depth[t] /\ f.type \in Puts /\ f = Top(t) /\ up = View.calls[t][n - 1]
  OBVIOUS
<1> HIDE DEF n, f, up
<1>3. f.type \notin Gets /\ Access(f)
  BY <1>2 DEF Gets, Puts, Access
<1>4. n > 1
  BY <1>1, <1>3 DEF Shaped
<1>5. n \in 2 .. View.depth[t]
  BY <1>1, <1>4
<1>6. /\ up.pc \in {"accret", "evput"} /\ InAccess(View, t, n - 1)
      /\ Parent[up.c][f.line] = f.c /\ f.c \in Inner
  <2>1. Sound(View) /\ Access(View.calls[t][n])
    BY <1>1, <1>3
  <2>2. /\ View.calls[t][n - 1].pc \in {"accret", "evput"} /\ InAccess(View, t, n - 1)
        /\ Parent[View.calls[t][n - 1].c][View.calls[t][n].line] = View.calls[t][n].c
        /\ View.calls[t][n].c \in Inner
    BY <1>5, <2>1, AccessSentBy
  <2> QED
    BY <1>1, <1>2, <2>2
<1>7. up.pc = "evput" /\ f.line = up.victim
  BY <1>1, <1>2, <1>3, <1>4 DEF Linked, Gets, Puts, Invs
<1>8. up.c \in Caches /\ f.line \in Lines
  BY <1>1, <1>4, FrameFields
<1>9. \A k \in Caches : Parent[k][f.line] = up.c => state[k][f.line] = "I"
  <2>1. CASE up.c \in Inner
    <3>1. CallSound(View, t, n - 1)
      BY <1>1, <1>4 DEF Sound, CallsSound
    <3>2. Own(View, up, n - 1 = View.depth[t])
      BY <1>2, <3>1 DEF CallSound
    <3>3. View.dir[up.c][f.line].sharers = {}
      BY <1>7, <2>1, <3>2 DEF Own
    <3> DEFINE d == n - 1
    <3>4. /\ d \in 1 .. View.depth[t] /\ View.calls[t][d].pc # "top"
          /\ View.calls[t][d].c = up.c /\ up.c \in Inner /\ InAccess(View, t, d)
          /\ View.dir[up.c][f.line].sharers = {}
          /\ Sound(View)
      BY <1>1, <1>2, <1>4, <1>6, <1>7, <2>1, <3>3
    <3> HIDE DEF d
    <3>5. ASSUME NEW k \in Caches, Parent[k][f.line] = up.c
          PROVE  View.state[k][f.line] = "I"
      BY <1>8, <3>4, <3>5, NoChild
    <3> QED
      BY <3>5, ViewFields
  <2>2. CASE up.c \notin Inner
    BY <1>8, <2>2, ParentOf, HierarchyAssumption DEF Inner
  <2> QED
    BY <2>1, <2>2
<1>10. ~ Owned(View, up.c, f.line)
  BY <1>9, ViewFields DEF Owned, Excl
<1> QED
  BY <1>1, <1>2, <1>3, <1>4, <1>5, <1>6, <1>8, <1>9, <1>10

\* A call that is not the one of a core that stores.
Reads(f) == ~ (f.c \in Leaves /\ f.type = "GETX")

\* The parent's answer has come.
LEMMA accessReturnData ==
    ASSUME DataInv, NEW t \in Threads, accessReturn(t), Reads(Top(t))
    PROVE  Data(View', fresh')
<1> DEFINE f == Top(t)
           q == AfterBcc(f)
           e == [f EXCEPT !.pc = q]
           n == View.depth[t]
<1>1. /\ stack[t] # << >> /\ f.pc = "accret" /\ Become(t, e)
      /\ UNCHANGED state
      /\ fresh' = [fresh EXCEPT ![f.line] = @]
  BY DEF accessReturn, At, Goto, Stored, Reads
<1>2. CallData(f, fresh) /\ f \in Frame /\ TypeOK /\ Shaped(View, t, n) /\ View.calls[t][n] = f
  BY <1>1, ActingData
<1>3. f = Top(t) /\ q \in {"end", "top"} /\ f.type # "PUTX" /\ fresh' = fresh
  BY <1>1, <1>2 DEF AfterBcc, TypeOK, Shaped, Puts
<1> HIDE DEF f, q, n
<1>4. Goes(f, e)
  BY <1>1, <1>2, <1>3 DEF Goes, CallData, Frame, Access
<1> HIDE DEF e
<1> QED
  BY <1>1, <1>3, <1>4, SameCopies, QuietBecome

\* No need to go up: a PUTX brings the last store into a cache that is M then.
LEMMA accessHereData ==
    ASSUME DataInv, NEW t \in Threads, accessHere(t), Reads(Top(t))
    PROVE  Data(View', fresh')
<1> DEFINE f == Top(t)
           ch == Caller(t).c
           x == f.line
           q == AfterBcc(f)
           e == [f EXCEPT !.pc = q]
           n == View.depth[t]
<1>1. /\ stack[t] # << >> /\ f.pc = "acc" /\ Become(t, e)
      /\ state' = IF f.type \in {"GETX", "PUTX"} /\ state[f.c][x] = "E"
                  THEN [state EXCEPT ![f.c][x] = "M"] ELSE state
      /\ fresh' = [fresh EXCEPT ![x] = IF f.type = "PUTX" THEN Moved(x, ch, f.c) ELSE @]
  BY DEF accessHere, At, Goto, Stored, Reads
<1>2. /\ CallData(f, fresh) /\ f \in Frame /\ TypeOK /\ Shaped(View, t, n)
      /\ View.calls[t][n] = f /\ MESIInv /\ Data(View, fresh)
  BY <1>1, ActingData DEF DataInv
<1>3. f = Top(t) /\ q \in {"end", "top"} /\ View.state = state /\ ch = Caller(t).c
  BY ViewFields DEF AfterBcc
<1>4. f.c \in Caches /\ x \in Lines
  BY <1>2, FrameFields
<1> HIDE DEF q, n
<1>5. f.type = "PUTX" => ch \in fresh[x] /\ state[f.c][x] \in {"E", "M"}
  <2> SUFFICES ASSUME f.type = "PUTX" PROVE ch \in fresh[x] /\ state[f.c][x] \in {"E", "M"}
    OBVIOUS
  <2>1. /\ ch \in Caches /\ ~ Owned(View, ch, x) /\ Asked(View, f, ch)
        /\ f.c = Parent[ch][x] /\ f.c \in Inner
    BY <1>1, <1>2, <1>3, PutChild DEF Puts
  <2>2. state[ch][x] = "M"
    BY <1>1, <1>3, <2>1 DEF Asked, Puts
  <2>3. LineData(View, fresh[x], x)
    BY <1>2, <1>4 DEF Data
  <2>4. Within(View, ch, x) /\ f.c # Mem
    BY <1>2, <1>4, <2>1, ParentOf DEF MESIInv, Sound, Included
  <2>5. Excl(View, f.c, x)
    BY <1>3, <2>1, <2>2, <2>4 DEF Within, Excl
  <2> QED
    BY <1>3, <2>1, <2>2, <2>3, <2>5 DEF LineData, Excl
<1> HIDE DEF f, ch
<1>6. /\ fresh'[x] = fresh[x] \cup (IF f.type = "PUTX" THEN {f.c} ELSE {})
      /\ \A l \in Lines : l # x => fresh'[l] = fresh[l]
  BY <1>1, <1>2, <1>4, <1>5 DEF TypeOK, Moved
<1>7. /\ \A c \in Caches, l \in Lines : c # f.c \/ l # x => state'[c][l] = state[c][l]
      /\ state'[f.c][x] = IF f.type \in {"GETX", "PUTX"} /\ state[f.c][x] = "E"
                          THEN "M" ELSE state[f.c][x]
  BY <1>1, <1>2, <1>4 DEF TypeOK
<1>8. Unmoved
  <2>1. \A l \in Lines : fresh[l] \subseteq fresh'[l]
    BY <1>6
  <2>2. \A c \in Caches, l \in Lines :
            \/ state'[c][l] = state[c][l]
            \/ Excl(View, c, l) /\ state'[c][l] = "M"
    BY <1>3, <1>7 DEF Excl
  <2>3. \A c \in Caches, l \in Lines :
            state'[c][l] = "E" /\ c \in fresh'[l] => c \in fresh[l]
    BY <1>5, <1>6, <1>7
  <2> QED
    BY <2>1, <2>2, <2>3 DEF Unmoved
<1>9. Goes(f, e)
  <2>1. /\ e \in Frame /\ e.c = f.c /\ e.line = f.line /\ e.type = f.type
        /\ e.victim = f.victim /\ e.pc = q /\ e.wb = f.wb
    BY <1>2, <1>3 DEF Frame
  <2> HIDE DEF e
  <2> QED
    BY <1>1, <1>2, <1>6, <2>1 DEF Goes, CallData, Access
<1> HIDE DEF e
<1> QED
  BY <1>1, <1>3, <1>8, <1>9, QuietBecome
-----------------------------------------------------------------------------
(* Steps that hand copies of a line out, or take them away.                *)

\* One call at a time is inside a cache, and one access.
LEMMA OneInside ==
    ASSUME NEW h, Sound(h), NEW u \in Threads, NEW i \in 1 .. h.depth[u],
           NEW t \in Threads, NEW d \in 1 .. h.depth[t],
           h.calls[u][i].c = h.calls[t][d].c,
           \/ HasBcc(h, u, i) /\ HasBcc(h, t, d)
           \/ InAccess(h, u, i) /\ InAccess(h, t, d)
    PROVE  u = t /\ i = d
<1> DEFINE f == h.calls[u][i]
           e == h.calls[t][d]
<1>1. /\ HasBcc(h, u, i) => h.bcc[f.c] = u
      /\ HasBcc(h, t, d) => h.bcc[e.c] = t
      /\ InAccess(h, u, i) /\ f.c \in Inner => h.tcc[f.c] = u
      /\ InAccess(h, t, d) /\ e.c \in Inner => h.tcc[e.c] = t
  BY DEF Sound, Locked
<1>2. f \in Frame /\ e \in Frame
  BY DEF Sound, Typed
<1>3. u = t
  <2>1. CASE HasBcc(h, u, i) /\ HasBcc(h, t, d)
    BY <1>1, <2>1
  <2>2. CASE InAccess(h, u, i) /\ InAccess(h, t, d) /\ f.c \in Inner
    BY <1>1, <2>2
  <2>3. CASE InAccess(h, u, i) /\ InAccess(h, t, d) /\ f.c \notin Inner
    <3>1. f.c \in Leaves /\ Access(f) /\ Access(e) /\ e.c = f.c
      BY <1>2, <2>3, FrameFields DEF Inner, InAccess
    <3>2. Shaped(h, u, i) /\ Shaped(h, t, d)
      BY DEF Sound, CallsSound, CallSound
    <3> QED
      BY <3>1, <3>2 DEF Shaped
  <2> QED
    BY <2>1, <2>2, <2>3
<1>4. Alone(h)
  BY DEF Sound
<1> QED
  BY <1>3, <1>4 DEF Alone

\* Copy c of line l is given by the level above, which has the last store.
LEMMA LineGiven ==
    ASSUME NEW h, NEW g, NEW W, NEW l \in Lines, LineData(h, W, l),
           NEW c \in Caches, c \in Serving(l), Parent[c][l] \in W,
           \A k \in Caches :
              \/ k = c
              \/ g.state[k][l] = h.state[k][l]
              \/ k = Parent[c][l] /\ Excl(h, k, l) /\ g.state[k][l] = "M",
           \A k \in Caches :
              k # c /\ PulledUp(h, k, l) => PulledUp(g, k, l) \/ g.state[k][l] # "E"
    PROVE  LineData(g, W \cup {c}, l)
<1> DEFINE p == Parent[c][l]
           V == W \cup {c}
<1>1. \A k \in Caches : k # c =>
          /\ Excl(g, k, l) = Excl(h, k, l)
          /\ g.state[k][l] # "I" <=> h.state[k][l] # "I"
          /\ g.state[k][l] = "E" => h.state[k][l] = "E"
  BY DEF Excl
<1>2. \A k : k # p => Owned(g, k, l) = Owned(h, k, l)
  BY <1>1 DEF Owned
<1>3. \A k \in Caches : g.state[k][l] # "I" => k \in Serving(l)
  BY <1>1 DEF LineData
<1>4. \A k \in Caches : g.state[k][l] # "I" /\ ~ Owned(g, k, l) => k \in V
  BY <1>1, <1>2 DEF LineData
<1>5. \A k \in Caches :
          g.state[k][l] = "E" /\ k \in V /\ ~ PulledUp(g, k, l) => Parent[k][l] \in V
  <2> TAKE k \in Caches
  <2>1. CASE k = c
    BY <2>1
  <2>2. CASE k # c
    BY <1>1, <2>2 DEF LineData
  <2> QED
    BY <2>1, <2>2
<1>6. ~ Owned(g, Mem, l) => Mem \in V
  BY <1>2 DEF LineData
<1> QED
  BY <1>3, <1>4, <1>5, <1>6 DEF LineData

\* Copy c of line l is taken away, or can be written no longer; the level above
\* has the last store if it could.
LEMMA LineTaken ==
    ASSUME NEW h, NEW g, NEW W, NEW V, NEW l \in Lines, LineData(h, W, l),
           NEW c \in Caches, NEW p, p = Parent[c][l],
           h.state[c][l] # "I", g.state[c][l] \in {"I", "S"},
           \A k \in Caches : k # c => g.state[k][l] = h.state[k][l],
           \A k \in W : k # c => k \in V,
           \A k \in V : k \in W \/ k = p,
           g.state[c][l] = "S" => c \in V,
           g.state[c][l] = "I" =>
               \A k \in Caches : Parent[k][l] = c => h.state[k][l] = "I",
           Excl(h, c, l) => p \in V,
           \A k \in Caches : k # c /\ PulledUp(h, k, l) => PulledUp(g, k, l),
           p \in V /\ p \notin W => p = Mem \/ PulledUp(g, p, l)
    PROVE  LineData(g, V, l)
<1>0. Mem \notin Caches /\ p # c
  BY ParentOf
<1>1. /\ ~ Excl(g, c, l)
      /\ \A k \in Caches : k # c => Excl(g, k, l) = Excl(h, k, l)
  BY DEF Excl
<1>2. /\ \A k : k # p => Owned(g, k, l) = Owned(h, k, l)
      /\ Owned(h, p, l) => Owned(g, p, l) \/ Excl(h, c, l)
  BY <1>1 DEF Owned
<1>3. \A k \in Caches : g.state[k][l] # "I" => k \in Serving(l)
  BY DEF LineData
<1>4. \A k \in Caches : g.state[k][l] # "I" /\ ~ Owned(g, k, l) => k \in V
  <2> SUFFICES ASSUME NEW k \in Caches, g.state[k][l] # "I", ~ Owned(g, k, l)
               PROVE  k \in V
    OBVIOUS
  <2>1. CASE k = c
    BY <2>1
  <2>2. CASE k # c /\ Owned(h, k, l)
    BY <1>2, <2>2
  <2>3. CASE k # c /\ ~ Owned(h, k, l)
    BY <2>3 DEF LineData
  <2> QED
    BY <2>1, <2>2, <2>3
<1>5. \A k \in Caches :
          g.state[k][l] = "E" /\ k \in V /\ ~ PulledUp(g, k, l) => Parent[k][l] \in V
  <2> SUFFICES ASSUME NEW k \in Caches, g.state[k][l] = "E", k \in V, ~ PulledUp(g, k, l)
               PROVE  Parent[k][l] \in V
    OBVIOUS
  <2>1. k # c /\ h.state[k][l] = "E" /\ k \in W /\ ~ PulledUp(h, k, l)
    BY <1>0
  <2>2. Parent[k][l] \in W
    BY <2>1 DEF LineData
  <2>3. Parent[k][l] = c => g.state[c][l] = "S"
    BY <2>1
  <2> QED
    BY <2>2, <2>3
<1>6. ~ Owned(g, Mem, l) => Mem \in V
  <2>1. CASE Owned(h, Mem, l)
    BY <1>2, <2>1
  <2>2. CASE ~ Owned(h, Mem, l)
    BY <1>0, <2>2 DEF LineData
  <2> QED
    BY <2>1, <2>2
<1> QED
  BY <1>3, <1>4, <1>5, <1>6 DEF LineData

\* The same as LineStep, of a step: line x is the only one concerned, and no
\* PUTX loses what it has brought.
LEMMA CopiesMove ==
    ASSUME DataInv, NEW t \in Threads, NEW m \in Nat, Below(View, View', t, m),
           View'.depth[t] \in Nat, m <= View.depth[t], m <= View'.depth[t],
           NEW x \in Lines, LineData(View', fresh'[x], x),
           \A l \in Lines \ {x} : fresh'[l] = fresh[l],
           \A c \in Caches, l \in Lines \ {x} : state'[c][l] = state[c][l],
           \A k \in Threads : \A j \in 1 .. View.depth[k] :
              (k # t \/ j <= m) => Delivers(View.calls[k][j], fresh, fresh'),
           \A d \in m + 1 .. View'.depth[t] : CallData(View'.calls[t][d], fresh'),
           \A d \in m + 1 .. View.depth[t] : \A l \in Lines \ {x} :
              Pulled(View.calls[t][d], l) => PulledUp(View', View.calls[t][d].c, l)
    PROVE  Data(View', fresh')
<1> DEFINE h == View
           g == View'
           w == fresh
           v == fresh'
<1>1. Data(h, w) /\ Typed(h)
  BY DEF DataInv, MESIInv, Sound
<1>2. h.depth[t] \in Nat
  BY <1>1 DEF Typed
<1>3. Going(h, g, w, v, t, m)
  BY <1>2 DEF Going
<1>4. LineData(g, v[x], x)
  OBVIOUS
<1>5. Elsewhere(h, g, w, v, t, m, x)
  BY ViewFields, ViewFieldsNext DEF Elsewhere
<1> HIDE DEF h, g, w, v
<1>6. Data(g, v)
  BY <1>1, <1>3, <1>4, <1>5, LineStep
<1> QED
  BY <1>6 DEF g, v
\* What the PUTXs in progress have brought stays, for nothing is taken from a
\* cache that one of them is in.
Delivered ==
    \A k \in Threads : \A j \in 1 .. View.depth[k] :
        Delivers(View.calls[k][j], fresh, fresh')

\* Only cache c loses its copy, and another call is inside.
LEMMA NoneLost ==
    ASSUME MESIInv, NEW t \in Threads, NEW d \in 1 .. View.depth[t],
           HasBcc(View, t, d) \/ InAccess(View, t, d), View.calls[t][d].pc # "top",
           \A l \in Lines : \A k \in fresh[l] : k # View.calls[t][d].c => k \in fresh'[l]
    PROVE  Delivered
<1> SUFFICES ASSUME NEW k \in Threads, NEW j \in 1 .. View.depth[k],
                    View.calls[k][j].type = "PUTX", View.calls[k][j].pc = "top",
                    View.calls[k][j].c \in fresh[View.calls[k][j].line]
             PROVE  View.calls[k][j].c \in fresh'[View.calls[k][j].line]
  BY DEF Delivered, Delivers
<1>1. Sound(View) /\ View.calls[k][j] \in Frame
  BY DEF MESIInv, Sound, Typed
<1>2. HasBcc(View, k, j) /\ InAccess(View, k, j)
  BY DEF HasBcc, InAccess, Access, Puts
<1>3. View.calls[k][j].c # View.calls[t][d].c
  BY <1>1, <1>2, OneInside
<1> QED
  BY <1>1, <1>3, FrameFields

\* Only copies of line x change.
Concerns(x) ==
    /\ \A l \in Lines \ {x} : fresh'[l] = fresh[l]
    /\ \A c \in Caches, l \in Lines \ {x} : state'[c][l] = state[c][l]

\* The innermost call goes on as e; it concerns the copies of line x.
LEMMA MovingBecome ==
    ASSUME DataInv, NEW t \in Threads, stack[t] # << >>, NEW f, f = Top(t),
           NEW e, Goes(f, e), Become(t, e),
           NEW x \in Lines, LineData(View', fresh'[x], x), Concerns(x),
           \A l \in Lines \ {x} : ~ Pulled(f, l),
           Delivered
    PROVE  Data(View', fresh')
<1> USE DEF Concerns
<1> DEFINE n == View.depth[t]
<1>1. /\ n \in Nat /\ n >= 1 /\ n \in 1 .. View.depth[t]
      /\ View.calls[t][n] = f /\ f \in Frame /\ StackType
  BY Acting DEF DataInv
<1>2. /\ Below(View, View', t, n - 1) /\ View'.depth[t] = n /\ View'.calls[t][n] = e
  BY <1>1, AfterBecome DEF Goes
<1>3. CallData(f, fresh)
  BY <1>1 DEF DataInv, Data
<1>4. CallData(e, fresh')
  BY <1>3 DEF CallData, Goes
<1>5. n = View.depth[t]
  OBVIOUS
<1>6. \A k \in Threads : \A j \in 1 .. View.depth[k] :
          Delivers(View.calls[k][j], fresh, fresh')
  BY DEF Delivered
<1> HIDE DEF n
<1>7. /\ n - 1 \in Nat /\ n - 1 <= n
      /\ \A d : d \in (n - 1) + 1 .. n => d = n
  BY <1>1
<1>8. \A d \in (n - 1) + 1 .. View'.depth[t] : CallData(View'.calls[t][d], fresh')
  BY <1>2, <1>4, <1>7
<1>9. \A d \in (n - 1) + 1 .. View.depth[t] : \A l \in Lines \ {x} :
          Pulled(View.calls[t][d], l) => PulledUp(View', View.calls[t][d].c, l)
  BY <1>1, <1>5, <1>7
<1>10. View'.depth[t] \in Nat /\ n - 1 <= View.depth[t] /\ n - 1 <= View'.depth[t]
  BY <1>1, <1>2, <1>5, <1>7
<1> QED
  BY <1>2, <1>6, <1>7, <1>8, <1>9, <1>10, CopiesMove

\* Dirty data pulled up stays so while a call goes on, but what that call has
\* pulled up itself.
LEMMA PulledBecome ==
    ASSUME MESIInv, NEW t \in Threads, stack[t] # << >>,
           NEW e \in Frame, Become(t, e), NEW k, NEW l, PulledUp(View, k, l)
    PROVE  PulledUp(View', k, l) \/ (k = Top(t).c /\ Pulled(Top(t), l))
<1> DEFINE n == View.depth[t]
<1>1. /\ n \in Nat /\ n >= 1 /\ View.calls[t][n] = Top(t) /\ StackType
  BY Acting
<1>2. Below(View, View', t, n - 1) /\ View'.depth[t] = n
  BY <1>1, AfterBecome
<1>3. n = View.depth[t]
  OBVIOUS
<1> HIDE DEF n
<1>4. /\ n - 1 \in Nat /\ n - 1 <= n
      /\ \A d : d \in (n - 1) + 1 .. n => d = n
  BY <1>1
<1>5. \/ PulledUp(View', k, l)
      \/ \E d \in (n - 1) + 1 .. View.depth[t] :
            View.calls[t][d].c = k /\ Pulled(View.calls[t][d], l)
  <2> DEFINE m == n - 1
  <2>1. /\ View.depth[t] \in Nat /\ View'.depth[t] \in Nat /\ m <= View'.depth[t]
        /\ m \in Nat /\ Below(View, View', t, m) /\ PulledUp(View, k, l)
    BY <1>1, <1>2, <1>3, <1>4
  <2> HIDE DEF m
  <2>2. PulledUp(View', k, l) \/ PulledAbove(View, t, m, k, l)
    BY <2>1, PulledKept
  <2> QED
    BY <2>2 DEF m, PulledAbove
<1> QED
  BY <1>1, <1>3, <1>4, <1>5

\* A cache that nobody below may write a line of has its last store.
LEMMA Current ==
    ASSUME DataInv, NEW c \in Caches, NEW l \in Lines, state[c][l] # "I",
           \A k \in Caches : Parent[k][l] = c => state[k][l] \notin {"E", "M"}
    PROVE  c \in fresh[l]
<1>1. LineData(View, fresh[l], l) /\ View.state = state
  BY ViewFields DEF DataInv, Data
<1>2. ~ Owned(View, c, l)
  BY <1>1 DEF Owned, Excl
<1> QED
  BY <1>1, <1>2 DEF LineData

\* A clean copy is the same above, unless dirty data has been pulled up into it.
LEMMA CleanAbove ==
    ASSUME DataInv, NEW c \in Caches, NEW l \in Lines, state[c][l] = "E", c \in fresh[l],
           ~ PulledUp(View, c, l)
    PROVE  Parent[c][l] \in fresh[l]
<1>1. LineData(View, fresh[l], l) /\ View.state = state
  BY ViewFields DEF DataInv, Data
<1> QED
  BY <1>1 DEF LineData
\* No copy is lost.
LEMMA AllKept ==
    ASSUME MESIInv, \A l \in Lines : fresh[l] \subseteq fresh'[l] PROVE Delivered
<1>1. \A k \in Threads : \A j \in 1 .. View.depth[k] : View.calls[k][j] \in Frame
  BY DEF MESIInv, Sound, Typed
<1> QED
  BY <1>1, FrameFields DEF Delivered, Delivers

\* Memory hands the line out to the one cache below it, which may not write it
\* yet: memory has the last store.
LEMMA accessMemData ==
    ASSUME DataInv, NEW t \in Threads, accessMem(t), Reads(Top(t))
    PROVE  Data(View', fresh')
<1> DEFINE f == Top(t)
           c == f.c
           x == f.line
           q == AfterBcc(f)
           e == [f EXCEPT !.pc = q]
           n == View.depth[t]
           new == CASE f.type = "GETX" -> "M"
                    [] f.type = "GETS" /\ t \in NoExcl -> "S"
                    [] OTHER -> "E"
<1>1. /\ stack[t] # << >> /\ f.pc = "acc" /\ Become(t, e)
      /\ NeedsParent(f) /\ Parent[c][x] = Mem
      /\ state' = [state EXCEPT ![c][x] = new]
      /\ fresh' = [fresh EXCEPT ![x] = IF state[c][x] = "I" THEN Moved(x, Mem, c) ELSE @]
  BY DEF accessMem, At, Goto, Stored, Reads
<1>2. /\ CallData(f, fresh) /\ f \in Frame /\ TypeOK /\ MESIInv
      /\ LineData(View, fresh[x], x)
  <2>1. CallData(f, fresh) /\ f \in Frame /\ TypeOK /\ MESIInv /\ f.line \in Lines
    BY <1>1, ActingData, FrameFields
  <2> QED
    BY <2>1 DEF DataInv, Data
<1>3. f = Top(t) /\ q \in {"end", "top"} /\ View.state = state /\ View'.state = state'
  BY ViewFields, ViewFieldsNext DEF AfterBcc
<1>4. /\ c \in Caches /\ x \in Lines /\ f.type \in Gets /\ state[c][x] \in {"I", "S"}
  BY <1>1, <1>2, FrameFields DEF NeedsParent, Gets
<1>5. c \in Serving(x)
  BY <1>2, <1>4 DEF CallData, Access
<1> HIDE DEF q, n, new
<1>6. Mem \in fresh[x]
  <2> SUFFICES ASSUME NEW k \in Caches, Parent[k][x] = Mem, Excl(View, k, x) PROVE FALSE
    BY <1>2 DEF LineData, Owned
  <2>1. k \in Serving(x)
    BY <1>2 DEF LineData, Excl
  <2>2. k = c
    BY <1>1, <1>4, <1>5, <2>1, TreeAssumption
  <2> QED
    BY <1>3, <1>4, <2>2 DEF Excl
<1>7. state[c][x] # "I" => c \in fresh[x]
  <2>1. \A k \in Caches : Parent[k][x] = c => state[k][x] \notin {"E", "M"}
    <3> SUFFICES ASSUME NEW k \in Caches, Parent[k][x] = c, state[k][x] \in {"E", "M"}
                 PROVE  FALSE
      OBVIOUS
    <3>1. Within(View, k, x) /\ c # Mem
      BY <1>2, <1>4, ParentOf DEF MESIInv, Sound, Included
    <3> QED
      BY <1>3, <1>4, <3>1 DEF Within, Excl
  <2> QED
    BY <1>4, <2>1, Current
<1> HIDE DEF f, c, x
<1>8. /\ fresh'[x] = fresh[x] \cup {c}
      /\ \A l \in Lines \ {x} : fresh'[l] = fresh[l]
  BY <1>1, <1>2, <1>4, <1>6, <1>7 DEF TypeOK, Moved
<1>9. \A k \in Caches, l \in Lines : k # c \/ l # x => state'[k][l] = state[k][l]
  BY <1>1, <1>2, <1>4 DEF TypeOK
<1>10. Goes(f, e) /\ e \in Frame
  <2>1. /\ e \in Frame /\ e.c = f.c /\ e.line = f.line /\ e.type = f.type
        /\ e.victim = f.victim /\ e.pc = q /\ e.wb = f.wb
    BY <1>2, <1>3 DEF Frame
  <2>2. f.type # "PUTX"
    BY <1>4 DEF Gets
  <2> HIDE DEF e
  <2> QED
    BY <1>1, <1>2, <1>3, <2>1, <2>2 DEF Goes, CallData, Access
<1>11. LineData(View', fresh'[x], x)
  <2>1. \A k \in Caches : k # c /\ PulledUp(View, k, x) => PulledUp(View', k, x)
    <3>1. c = Top(t).c
      BY DEF c, f
    <3> QED
      BY <1>1, <1>2, <1>10, <3>1, PulledBecome
  <2>2. \A k \in Caches : k # c => View'.state[k][x] = View.state[k][x]
    BY <1>3, <1>4, <1>9
  <2>3. Parent[c][x] \in fresh[x]
    BY <1>1, <1>6
  <2>4. LineData(View', fresh[x] \cup {c}, x)
    BY <1>2, <1>4, <1>5, <2>1, <2>2, <2>3, LineGiven
  <2> QED
    BY <1>8, <2>4
<1>12. Delivered
  BY <1>2, <1>8, AllKept
<1>13. \A l \in Lines \ {x} : ~ Pulled(f, l)
  BY <1>1 DEF Pulled
<1>14. Concerns(x)
  BY <1>8, <1>9 DEF Concerns
<1> HIDE DEF e
<1> QED
  BY <1>1, <1>3, <1>4, <1>10, <1>11, <1>12, <1>13, <1>14, MovingBecome

\* A child is given the line by a cache that no other child may write it under.
LEMMA GrantData ==
    ASSUME DataInv, NEW t \in Threads, NEW f, NEW ch,
           NEW s \in {"S", "E", "M"},
           NEW r \in [sharers : SUBSET Caches, exclusive : BOOLEAN],
           Granting(t, f, ch, s, r)
    PROVE  Data(View', fresh')
<1> DEFINE e == [f EXCEPT !.pc = "end"]
           x == f.line
           p == f.c
           mine == IF f.wb THEN "M" ELSE state[p][x]
<1>0. /\ stack[t] # << >> /\ f = Top(t) /\ f.pc = "top" /\ f.type \in Gets
      /\ ch = Caller(t).c
      /\ Grant(t, s, r)
      /\ \A k \in r.sharers : k # ch => Parent[k][x] = p /\ state[k][x] = "S"
      /\ \A k \in Caches \ r.sharers : Parent[k][x] = p => state[k][x] = "I"
  BY DEF Granting
<1>1. /\ state' = [state EXCEPT ![ch][x] = s, ![p][x] = mine]
      /\ fresh' = [fresh EXCEPT ![x] =
                     IF state[ch][x] = "I" THEN Moved(x, p, ch) ELSE @]
      /\ Become(t, e)
  BY <1>0 DEF Grant, Goto
<1>2. /\ f \in Frame /\ CallData(f, fresh)
      /\ MESIInv /\ TypeOK
      /\ p \in Inner /\ p \in Caches /\ x \in Lines
      /\ ch \in Caches /\ ch # p /\ Parent[ch][x] = p
      /\ Own(View, f, TRUE) /\ Asked(View, f, ch)
      /\ Included(View) /\ ch \in Serving(x)
  <2> DEFINE up == View.calls[t][View.depth[t] - 1]
  <2>1. stack[t] # << >> /\ Top(t).pc = "top" /\ MESIInv
    BY <1>0 DEF DataInv
  <2>2. /\ Top(t) \in Frame /\ TypeOK /\ Caller(t) = up
        /\ Top(t).c \in Inner /\ Top(t).c \in Caches /\ Top(t).line \in Lines
        /\ up.c \in Caches /\ up.c # Top(t).c /\ Parent[up.c][Top(t).line] = Top(t).c
        /\ Own(View, Top(t), TRUE) /\ Asked(View, Top(t), up.c) /\ Included(View)
        /\ Linked(View, up, Top(t)) /\ View.depth[t] - 1 \in 1 .. View.depth[t]
    BY <2>1, HandingOver
  <2>3. CallData(Top(t), fresh)
    BY <2>1, ActingData
  <2>4. CallData(up, fresh)
    BY <2>2 DEF DataInv, Data
  <2> HIDE DEF up
  <2>5. up.type = f.type /\ x = up.line
    BY <1>0, <2>2 DEF Linked, Gets, Puts, Invs
  <2>6. up.c \in Serving(x)
    BY <1>0, <2>4, <2>5 DEF CallData, Access
  <2> QED
    BY <1>0, <2>1, <2>2, <2>3, <2>6
<1>3. View.state = state /\ View'.state = state' /\ LineData(View, fresh[x], x)
  BY <1>2, ViewFields, ViewFieldsNext DEF DataInv, Data
<1>4. /\ state[p][x] # "I" /\ state[ch][x] \in {"I", "S"} /\ f.type # "PUTX"
      /\ f.type \notin Puts
      /\ f.wb => Excl(View, p, x)
  BY <1>0, <1>2, <1>3 DEF Own, Asked, Gets, Puts
<1>5. p \in fresh[x]
  <2>1. \A k \in Caches : Parent[k][x] = p => state[k][x] \notin {"E", "M"}
    BY <1>0, <1>4
  <2> QED
    BY <1>2, <1>4, <2>1, Current
<1>6. state[ch][x] # "I" => ch \in fresh[x]
  <2>1. \A k \in Caches : Parent[k][x] = ch => state[k][x] \notin {"E", "M"}
    <3> SUFFICES ASSUME NEW k \in Caches, Parent[k][x] = ch, state[k][x] \in {"E", "M"}
                 PROVE  FALSE
      OBVIOUS
    <3>1. Within(View, k, x) /\ ch # Mem
      BY <1>2, ParentOf DEF Included
    <3> QED
      BY <1>3, <1>4, <3>1 DEF Within, Excl
  <2> QED
    BY <1>2, <1>4, <2>1, Current
<1> HIDE DEF x, p, mine
<1>8. /\ fresh'[x] = fresh[x] \cup {ch}
      /\ \A l \in Lines \ {x} : fresh'[l] = fresh[l]
  BY <1>1, <1>2, <1>5, <1>6 DEF TypeOK, Moved
<1>9. /\ state'[ch][x] = s /\ state'[p][x] = mine
      /\ \A k \in Caches, l \in Lines :
             (k # ch /\ k # p) \/ l # x => state'[k][l] = state[k][l]
  <2>1. state \in [Caches -> [Lines -> MESI]]
    BY <1>2 DEF TypeOK
  <2>2. state' = [state EXCEPT ![ch][x] = s, ![p][x] = mine]
    BY <1>1
  <2> QED
    BY <1>2, <2>1, <2>2
<1>10. Goes(f, e) /\ e \in Frame
  <2>1. /\ e \in Frame /\ e.c = f.c /\ e.line = f.line /\ e.type = f.type
        /\ e.victim = f.victim /\ e.pc = "end"
    BY <1>2 DEF Frame
  <2> HIDE DEF e
  <2> QED
    BY <1>0, <1>2, <1>4, <2>1 DEF Goes, CallData, Access
<1>11. LineData(View', fresh'[x], x)
  <2>1. ASSUME NEW k \in Caches, k # ch, PulledUp(View, k, x)
        PROVE  PulledUp(View', k, x) \/ View'.state[k][x] # "E"
    <3>1. PulledUp(View', k, x) \/ (k = p /\ f.wb)
      <4>1. PulledUp(View', k, x) \/ (k = Top(t).c /\ Pulled(Top(t), x))
        BY <1>0, <1>1, <1>2, <1>10, <2>1, PulledBecome
      <4> QED
        BY <1>0, <4>1 DEF Pulled, p
    <3> QED
      BY <1>3, <1>9, <3>1 DEF mine
  <2>2. ASSUME NEW k \in Caches
        PROVE  \/ k = ch
               \/ View'.state[k][x] = View.state[k][x]
               \/ k = Parent[ch][x] /\ Excl(View, k, x) /\ View'.state[k][x] = "M"
    BY <1>2, <1>3, <1>4, <1>9 DEF mine
  <2>3. Parent[ch][x] \in fresh[x]
    BY <1>2, <1>5
  <2>4. LineData(View', fresh[x] \cup {ch}, x)
    BY <1>2, <1>3, <2>1, <2>2, <2>3, LineGiven
  <2> QED
    BY <1>8, <2>4
<1>12. Delivered
  BY <1>2, <1>8, AllKept
<1>13. \A l \in Lines \ {x} : ~ Pulled(f, l)
  BY <1>0 DEF Pulled, x
<1>14. Concerns(x)
  BY <1>8, <1>9 DEF Concerns
<1> HIDE DEF e
<1> QED
  BY <1>0, <1>1, <1>2, <1>10, <1>11, <1>12, <1>13, <1>14, MovingBecome

\* The three answers to a GET.
LEMMA topGetData ==
    ASSUME DataInv, NEW t \in Threads, topGetE(t) \/ topGetS(t) \/ topGetX(t)
    PROVE  Data(View', fresh')
<1>1. MESIInv
  BY DEF DataInv
<1>2. Grants(t)
  BY <1>1, topGetEGrants, topGetSGrants, topGetXGrants
<1> QED
  BY <1>2, GrantData DEF Grants
\* A call inside a cache that has pulled up nothing: no other has.
LEMMA NothingPulled ==
    ASSUME MESIInv, NEW t \in Threads, NEW d \in 1 .. View.depth[t], HasBcc(View, t, d),
           NEW l, ~ Pulled(View.calls[t][d], l)
    PROVE  ~ PulledUp(View, View.calls[t][d].c, l)
<1> SUFFICES ASSUME NEW u \in Threads, NEW i \in 1 .. View.depth[u],
                    View.calls[u][i].c = View.calls[t][d].c, Pulled(View.calls[u][i], l)
             PROVE  FALSE
  BY DEF PulledUp
<1>1. Sound(View)
  BY DEF MESIInv
<1>2. HasBcc(View, u, i)
  BY DEF Pulled, HasBcc
<1>3. u = t /\ i = d
  BY <1>1, <1>2, OneInside
<1> QED
  BY <1>3

\* The last store goes to memory, unless memory has it.
LEMMA evictToMemData ==
    ASSUME DataInv, NEW t \in Threads, evictToMem(t) PROVE Data(View', fresh')
<1> DEFINE f == Top(t)
           c == f.c
           x == f.victim
           e == Inserted(f)
           n == View.depth[t]
           dirty == EvictedState(f) = "M"
<1>1. /\ stack[t] # << >> /\ f.pc = "evict" /\ Become(t, e)
      /\ Sharers(c, x) = {} /\ EvictedState(f) # "I" /\ Parent[c][x] = Mem
      /\ state' = [state EXCEPT ![c][x] = "I"]
      /\ fresh' = [fresh EXCEPT ![x] = (IF dirty THEN Moved(x, c, Mem) ELSE @) \ {c}]
  BY DEF evictToMem, At
<1>2. /\ CallData(f, fresh) /\ f \in Frame /\ TypeOK /\ MESIInv /\ Own(View, f, TRUE)
      /\ Shaped(View, t, n) /\ n \in 1 .. View.depth[t] /\ View.calls[t][n] = f
  BY <1>1, ActingData
<1>3. /\ View.state = state /\ View'.state = state' /\ View.dir = dir
      /\ f = Top(t) /\ Sound(View)
  BY <1>2, ViewFields, ViewFieldsNext DEF MESIInv
<1>4. c \in Caches /\ x \in Lines /\ c # Mem /\ HasBcc(View, t, n)
  BY <1>1, <1>2, FrameFields, ViewFields, ParentOf DEF Shaped, TypeOK, HasBcc
<1>5. \A k \in Caches : Parent[k][x] = c => state[k][x] = "I"
  <2> SUFFICES ASSUME NEW k \in Caches, Parent[k][x] = c PROVE state[k][x] = "I"
    OBVIOUS
  <2>1. c \in Inner
    BY <1>4, ParentOf
  <2>2. View.dir[c][x].sharers = {}
    BY <1>1, <1>3, <2>1 DEF Sharers, Inner
  <2> HIDE DEF n
  <2> QED
    BY <1>1, <1>2, <1>3, <1>4, <2>1, <2>2, NoChild
<1>6. /\ state[c][x] # "I"
      /\ ~ dirty => EvictedState(f) = state[c][x] /\ state[c][x] # "M" /\ ~ f.wb
  BY <1>1, <1>2, <1>3, <1>4 DEF EvictedState, Own, Excl
<1>7. c \in fresh[x]
  BY <1>4, <1>5, <1>6, Current
<1>8. LineData(View, fresh[x], x)
  BY <1>4 DEF DataInv, Data
<1>9. Excl(View, c, x) => dirty \/ Mem \in fresh[x]
  <2> SUFFICES ASSUME Excl(View, c, x), ~ dirty PROVE Mem \in fresh[x]
    OBVIOUS
  <2>1. state[c][x] = "E" /\ ~ Pulled(f, x)
    BY <1>3, <1>6 DEF Excl, Pulled
  <2>2. ~ PulledUp(View, c, x)
    BY <1>2, <1>4, <2>1, NothingPulled
  <2> QED
    BY <1>1, <1>4, <1>7, <2>1, <2>2, CleanAbove
<1>10. c = Top(t).c /\ \A l \in Lines \ {x} : ~ Pulled(f, l)
  BY <1>1 DEF Pulled
<1> HIDE DEF c, x, n, dirty
<1>11. /\ fresh'[x] = (IF dirty THEN fresh[x] \cup {Mem} ELSE fresh[x]) \ {c}
       /\ \A l \in Lines \ {x} : fresh'[l] = fresh[l]
  BY <1>1, <1>2, <1>4, <1>7 DEF TypeOK, Moved
<1>12. /\ state'[c][x] = "I"
       /\ \A k \in Caches, l \in Lines : k # c \/ l # x => state'[k][l] = state[k][l]
  BY <1>1, <1>2, <1>4 DEF TypeOK
<1>13. Goes(f, e) /\ e \in Frame
  <2>1. e \in Frame
    BY <1>2, InsertedCall
  <2> QED
    BY <1>2, <2>1 DEF Goes, CallData, Inserted, Frame, Access
<1> HIDE DEF f, e
<1>14. LineData(View', fresh'[x], x)
  <2>1. \A k \in Caches : k # c /\ PulledUp(View, k, x) => PulledUp(View', k, x)
    BY <1>1, <1>2, <1>10, <1>13, PulledBecome
  <2>2. /\ \A k \in Caches : k # c => View'.state[k][x] = View.state[k][x]
        /\ View.state[c][x] # "I" /\ View'.state[c][x] = "I"
        /\ \A k \in Caches : Parent[k][x] = c => View.state[k][x] = "I"
    BY <1>3, <1>4, <1>5, <1>6, <1>12
  <2>3. /\ \A k \in fresh[x] : k # c => k \in fresh'[x]
        /\ \A k \in fresh'[x] : k \in fresh[x] \/ k = Mem
        /\ Excl(View, c, x) => Mem \in fresh'[x]
    BY <1>4, <1>9, <1>11
  <2> QED
    BY <1>1, <1>4, <1>8, <2>1, <2>2, <2>3, LineTaken
<1>15. Delivered
  <2>1. View.calls[t][n].pc # "top" /\ View.calls[t][n].c = c
    BY <1>1, <1>2, <1>3, <1>10
  <2>2. \A l \in Lines : \A k \in fresh[l] : k # c => k \in fresh'[l]
    BY <1>11
  <2> QED
    BY <1>2, <1>4, <2>1, <2>2, NoneLost
<1>16. Concerns(x)
  BY <1>11, <1>12 DEF Concerns
<1> QED
  BY <1>1, <1>3, <1>4, <1>10, <1>13, <1>14, <1>15, <1>16, MovingBecome

\* Dirty data is not on its way into a cache that is being put back: it is
\* waiting, and its parent is held by the call it waits for.
LEMMA PutUnpulled ==
    ASSUME MESIInv, NEW t \in Threads, stack[t] # << >>, Top(t).pc = "top",
           Top(t).type \in Puts
    PROVE  ~ PulledUp(View, Caller(t).c, Top(t).line)
<1> DEFINE n == View.depth[t]
           f == View.calls[t][n]
           up == View.calls[t][n - 1]
<1>1. /\ n \in Nat /\ n \in 1 .. View.depth[t] /\ n \in 2 .. View.depth[t]
      /\ n - 1 \in 1 .. View.depth[t]
      /\ f = Top(t) /\ Sound(View) /\ Caller(t) = up
      /\ HasBcc(View, t, n) /\ InAccess(View, t, n - 1)
      /\ Parent[up.c][f.line] = f.c /\ Linked(View, up, f)
  BY HandingOver
<1>2. up.pc = "evput"
  BY <1>1 DEF Linked, Gets, Puts, Invs
<1> SUFFICES ASSUME NEW u \in Threads, NEW i \in 1 .. View.depth[u],
                    View.calls[u][i].c = up.c, Pulled(View.calls[u][i], f.line)
             PROVE  FALSE
  BY <1>1 DEF PulledUp
<1> DEFINE k == View.calls[u][i]
<1>3. k.pc \in {"evict", "top", "inv"} /\ (k.pc = "inv" => k.line = f.line)
  BY DEF Pulled
<1>4. k \in Frame /\ Shaped(View, u, i)
  BY <1>1 DEF Sound, Typed, CallsSound, CallSound
<1>5. CASE k.pc # "inv"
  <2>1. Access(k)
    BY <1>3, <1>4, <1>5, FrameFields DEF Shaped, Access, Gets, Puts, Invs
  <2>2. InAccess(View, u, i)
    BY <1>3, <2>1 DEF InAccess
  <2> DEFINE d == n - 1
  <2>3. d \in 1 .. View.depth[t] /\ View.calls[t][d].c = View.calls[u][i].c
        /\ InAccess(View, t, d) /\ View.calls[t][d].pc = "evput"
    BY <1>1, <1>2
  <2> HIDE DEF d
  <2>4. u = t /\ i = d
    BY <1>1, <2>2, <2>3, OneInside
  <2> QED
    BY <1>3, <2>3, <2>4
<1>6. CASE k.pc = "inv"
  <2>1. k.type \in Invs /\ i # 1
    BY <1>4, <1>6, FrameFields DEF Shaped, Access, Gets, Puts, Invs
  <2>9. View.depth[u] \in Nat
    BY <1>1 DEF Sound, Typed
  <2> HIDE DEF k, f, up
  <2>2. i \in 2 .. View.depth[u] /\ i - 1 \in 1 .. View.depth[u]
    BY <2>1, <2>9
  <2> DEFINE d == i - 1
  <2>3. /\ View.calls[u][i].type \in Invs /\ Sound(View)
    BY <1>1, <2>1 DEF k
  <2>4. /\ HasBcc(View, u, d)
        /\ Parent[View.calls[u][i].c][View.calls[u][i].line] = View.calls[u][d].c
    BY <2>2, <2>3, InvSentBy
  <2>5. View.calls[u][d].c = View.calls[t][n].c
    BY <1>1, <1>3, <1>6, <2>4 DEF k, f, up
  <2>6. d \in 1 .. View.depth[u] /\ HasBcc(View, t, n) /\ n \in 1 .. View.depth[t]
    BY <1>1, <2>2
  <2>7. n = View.depth[t] /\ i \in 1 .. View.depth[u] /\ d = i - 1 /\ n \in Nat
    BY <1>1
  <2> HIDE DEF d, n
  <2>8. u = t /\ d = n
    BY <2>3, <2>4, <2>5, <2>6, OneInside
  <2> QED
    BY <2>7, <2>8
<1> QED
  BY <1>5, <1>6
\* A PUT takes the child's copy: what only the child had, the call has brought.
LEMMA topPutData ==
    ASSUME DataInv, NEW t \in Threads, topPut(t) PROVE Data(View', fresh')
<1> DEFINE f == Top(t)
           e == [f EXCEPT !.pc = "end"]
           c == Caller(t).c
           x == f.line
           p == f.c
           d == View.depth[t] - 1
<1>1. /\ stack[t] # << >> /\ f.pc = "top" /\ f.type \in Puts /\ f = Top(t)
      /\ Become(t, e)
      /\ state' = [state EXCEPT ![c][x] = "I"]
      /\ fresh' = [fresh EXCEPT ![x] = @ \ {c}]
  BY DEF topPut, At, Goto
<1>2. CallData(f, fresh) /\ f \in Frame /\ TypeOK /\ MESIInv
  BY <1>1, ActingData
<1>3. View.state = state /\ View'.state = state' /\ Sound(View)
  BY <1>2, ViewFields, ViewFieldsNext DEF MESIInv
<1>4. /\ c \in Caches /\ x \in Lines /\ p = Parent[c][x] /\ Asked(View, f, c)
      /\ \A k \in Caches : Parent[k][x] = c => state[k][x] = "I"
      /\ p # c /\ p # Mem /\ Mem \notin Caches /\ p \in Caches
  BY <1>1, <1>2, PutChild, ParentOf
<1>5. /\ d \in 1 .. View.depth[t] /\ InAccess(View, t, d)
      /\ View.calls[t][d].c = c /\ View.calls[t][d].pc # "top"
  <2> DEFINE n == View.depth[t]
             up == View.calls[t][n - 1]
  <2>1. /\ n - 1 \in 1 .. View.depth[t] /\ InAccess(View, t, n - 1)
        /\ Caller(t) = up /\ Linked(View, up, Top(t))
    BY <1>1, <1>2, HandingOver
  <2>2. up.pc = "evput"
    BY <1>1, <2>1 DEF Linked, Gets, Puts, Invs
  <2> QED
    BY <2>1, <2>2
<1>6. ~ PulledUp(View, c, x)
  BY <1>1, <1>2, PutUnpulled
<1> HIDE DEF c, x, p, d
<1>7. /\ f.type = "PUTX" => state[c][x] = "M" /\ p \in fresh[x]
      /\ f.type = "PUTS" => state[c][x] \in {"S", "E"}
      /\ state[c][x] # "I"
  <2>1. f.type = "PUTX" => p \in fresh[x]
    BY <1>1, <1>2 DEF CallData, p, x
  <2>2. /\ f.type = "PUTX" => state[c][x] = "M"
        /\ f.type = "PUTS" => state[c][x] \in {"S", "E"}
    BY <1>1, <1>3, <1>4 DEF Asked, Puts, Gets, x
  <2> QED
    BY <1>1, <2>1, <2>2 DEF Puts
<1>8. c \in fresh[x]
  BY <1>2, <1>4, <1>7, Current
<1>9. Excl(View, c, x) => p \in fresh[x]
  <2> SUFFICES ASSUME Excl(View, c, x), f.type # "PUTX" PROVE p \in fresh[x]
    BY <1>7
  <2>1. state[c][x] = "E"
    BY <1>1, <1>3, <1>7 DEF Excl, Puts
  <2> QED
    BY <1>4, <1>6, <1>8, <2>1, CleanAbove
<1>10. LineData(View, fresh[x], x)
  BY <1>4 DEF DataInv, Data
<1>11. /\ fresh'[x] = fresh[x] \ {c}
       /\ \A l \in Lines \ {x} : fresh'[l] = fresh[l]
  BY <1>1, <1>2, <1>4 DEF TypeOK
<1>12. /\ state'[c][x] = "I"
       /\ \A k \in Caches, l \in Lines : k # c \/ l # x => state'[k][l] = state[k][l]
  BY <1>1, <1>2, <1>4 DEF TypeOK
<1>13. Goes(f, e) /\ e \in Frame
  <2>1. /\ e \in Frame /\ e.c = f.c /\ e.line = f.line /\ e.type = f.type
        /\ e.victim = f.victim /\ e.pc = "end" /\ e.wb = f.wb
    BY <1>2 DEF Frame
  <2> HIDE DEF e
  <2> QED
    BY <1>1, <1>2, <2>1 DEF Goes, CallData, Access
<1>14. ~ f.wb /\ \A l : ~ Pulled(f, l)
  BY <1>1, <1>2 DEF CallData, Pulled
<1> HIDE DEF f, e
<1>15. LineData(View', fresh'[x], x)
  <2>1. \A k \in Caches : k # c /\ PulledUp(View, k, x) => PulledUp(View', k, x)
    BY <1>1, <1>2, <1>13, <1>14, PulledBecome
  <2>2. /\ \A k \in Caches : k # c => View'.state[k][x] = View.state[k][x]
        /\ View.state[c][x] # "I" /\ View'.state[c][x] = "I"
        /\ \A k \in Caches : Parent[k][x] = c => View.state[k][x] = "I"
    BY <1>3, <1>4, <1>7, <1>12
  <2>3. /\ \A k \in fresh[x] : k # c => k \in fresh'[x]
        /\ \A k \in fresh'[x] : k \in fresh[x]
        /\ Excl(View, c, x) => p \in fresh'[x]
    BY <1>4, <1>9, <1>11
  <2> QED
    BY <1>4, <1>10, <2>1, <2>2, <2>3, LineTaken
<1>16. Delivered
  <2>1. \A l \in Lines : \A k \in fresh[l] : k # View.calls[t][d].c => k \in fresh'[l]
    BY <1>5, <1>11
  <2> QED
    BY <1>2, <1>5, <2>1, NoneLost
<1>17. Concerns(x)
  BY <1>11, <1>12 DEF Concerns
<1> QED
  BY <1>1, <1>4, <1>13, <1>14, <1>15, <1>16, <1>17, MovingBecome
\* An invalidation that ends: no child of its cache has a copy that could be
\* written, and the caller is at the line it invalidates.
Finishing(t, n, f, up, e) ==
    /\ n \in Nat /\ n \in 2 .. View.depth[t] /\ n - 1 \in 1 .. View.depth[t] /\ n - 2 \in Nat
    /\ n = View.depth[t] /\ n \in 1 .. View.depth[t]
    /\ f = View.calls[t][n] /\ f \in Frame /\ up = View.calls[t][n - 1] /\ up \in Frame
    /\ f.pc = "inv" /\ f.type \in {"INV", "INVX"}
    /\ up.pc \in {"evict", "top", "inv"} /\ up.type \notin Puts
    /\ f.line = IF up.pc = "evict" THEN up.victim ELSE up.line
    /\ f.c \in Caches /\ up.c \in Caches /\ f.line \in Lines /\ up.c # f.c
    /\ Parent[f.c][f.line] = up.c
    /\ state[f.c][f.line] # "I"
    /\ \A k \in Caches : Parent[k][f.line] = f.c =>
           /\ state[k][f.line] \notin {"E", "M"}
           /\ f.type = "INV" => state[k][f.line] = "I"
    /\ e \in Frame
    /\ e.c = up.c /\ e.type = up.type /\ e.pc = up.pc /\ e.line = up.line
    /\ e.victim = up.victim
    /\ e.wb <=> up.wb \/ PullsUp(f)
    /\ state' = [state EXCEPT ![f.c][f.line] = IF f.type = "INV" THEN "I" ELSE "S"]
    /\ fresh' = [fresh EXCEPT ![f.line] =
           IF f.type = "INV"
           THEN (IF PullsUp(f) THEN Moved(f.line, f.c, up.c) ELSE fresh[f.line]) \ {f.c}
           ELSE (IF PullsUp(f) THEN Moved(f.line, f.c, up.c) ELSE fresh[f.line])]
    /\ stack' = [stack EXCEPT ![t] = <<e>> \o Tail(Tail(@))]

\* See Finishing.
LEMMA Finishes ==
    ASSUME MESIInv, NEW t \in Threads, finishInvalidate(t)
    PROVE  LET n == View.depth[t]
               f == View.calls[t][n]
               up == View.calls[t][n - 1]
           IN  Finishing(t, n, f, up, [up EXCEPT !.wb = @ \/ PullsUp(f)])
<1> DEFINE f == Top(t)
           n == View.depth[t]
           up == View.calls[t][n - 1]
           x == f.line
           c == f.c
           p == up.c
           e == [up EXCEPT !.wb = @ \/ PullsUp(f)]
<1>1. /\ n \in Nat /\ n \in 1 .. View.depth[t] /\ n >= 1
      /\ View.calls[t][n] = f /\ f \in Frame
      /\ Sound(View) /\ TypeOK /\ Shaped(View, t, n)
      /\ f.pc = "inv" /\ Pending(f) = {}
  BY Acting DEF finishInvalidate, At, MESIInv
<1>2. /\ f.type \in Invs /\ c \in Caches /\ x \in Lines /\ n # 1
      /\ f.type \in {"INV", "INVX"} /\ ~ Access(f)
  BY <1>1, FrameFields DEF Shaped, Access, Gets, Puts, Invs
<1>3. /\ n \in 2 .. View.depth[t] /\ n > 1 /\ n - 1 \in 1 .. View.depth[t] /\ n - 2 \in Nat
  BY <1>1, <1>2
<1>4. /\ Caller(t) = up /\ Linked(View, up, f) /\ up \in Frame
  BY <1>1, <1>3, Acting DEF finishInvalidate, At
<1>5. /\ up.pc \in {"evict", "top", "inv"} /\ p \in Inner
      /\ Parent[c][x] = p /\ View.state[c][x] # "I" /\ HasBcc(View, t, n)
  <2>1. /\ Sound(View) /\ t \in Threads /\ n \in 2 .. View.depth[t]
        /\ View.calls[t][n].type \in Invs
    BY <1>1, <1>2, <1>3
  <2>2. HasBcc(View, t, n)
    BY <1>1 DEF HasBcc
  <2> HIDE DEF n, f, up, x, c, p
  <2>3. /\ View.calls[t][n - 1].pc \in {"evict", "top", "inv"}
        /\ View.calls[t][n - 1].c \in Inner
        /\ Parent[View.calls[t][n].c][View.calls[t][n].line] = View.calls[t][n - 1].c
        /\ View.state[View.calls[t][n].c][View.calls[t][n].line] # "I"
    BY <2>1, InvSentBy
  <2>4. View.calls[t][n] = f /\ up = View.calls[t][n - 1] /\ x = f.line /\ c = f.c /\ p = up.c
    BY <1>1 DEF up, x, c, p
  <2> QED
    BY <2>2, <2>3, <2>4
<1>6. up.type \notin Puts /\ x = IF up.pc = "evict" THEN up.victim ELSE up.line
  <2>1. Shaped(View, t, n - 1)
    BY <1>1, <1>3 DEF Sound, CallsSound, CallSound
  <2>2. up.pc = "evict" => up.type \notin Puts
    BY <2>1 DEF Shaped
  <2> QED
    BY <1>2, <1>4, <1>5, <2>2 DEF Linked, Gets, Puts, Invs
<1>7. /\ state' = [state EXCEPT ![c][x] = IF f.type = "INV" THEN "I" ELSE "S"]
      /\ fresh' = [fresh EXCEPT ![x] =
             IF f.type = "INV"
             THEN (IF PullsUp(f) THEN Moved(x, c, p) ELSE fresh[x]) \ {c}
             ELSE (IF PullsUp(f) THEN Moved(x, c, p) ELSE fresh[x])]
      /\ stack' = [stack EXCEPT ![t] = <<e>> \o Tail(Tail(@))]
  BY <1>4 DEF finishInvalidate
<1>8. /\ e \in Frame
      /\ e.c = p /\ e.type = up.type /\ e.pc = up.pc /\ e.line = up.line
      /\ e.victim = up.victim /\ (e.wb <=> up.wb \/ PullsUp(f))
  <2>1. (up.wb \/ PullsUp(f)) \in BOOLEAN
    OBVIOUS
  <2> QED
    BY <1>4, <2>1 DEF Frame
<1>9. /\ x = f.line /\ c = f.c /\ p = up.c /\ View.depth[t] = n
      /\ View.calls[t][n - 1] = up /\ e = [up EXCEPT !.wb = @ \/ PullsUp(f)]
  OBVIOUS
<1>10. View.state = state /\ View.dir = dir
  BY ViewFields
<1>11. c \in Inner =>
           \/ dir[c][x].sharers = {}
           \/ f.type = "INVX" /\ ~ DirExclusive(c, x)
  BY <1>1 DEF Pending, Inner
<1> HIDE DEF f, n, up, x, c, p, e
<1>12. p \in Caches /\ p # c
  BY <1>2, <1>5, ParentOf
<1>13. ASSUME NEW k \in Caches, Parent[k][x] = c
       PROVE  state[k][x] \notin {"E", "M"} /\ (f.type = "INV" => state[k][x] = "I")
  <2>1. c \in Inner
    BY <1>2, <1>12, <1>13, ParentOf, HierarchyAssumption DEF Inner
  <2>2. CASE dir[c][x].sharers = {}
    <3>1. View.calls[t][n].pc # "top" /\ View.calls[t][n].c = c
      BY <1>1, <1>9
    <3>2. View.state[k][x] = "I"
      BY <1>1, <1>2, <1>5, <1>10, <1>13, <2>1, <2>2, <3>1, NoChild
    <3> QED
      BY <1>10, <3>2
  <2>3. CASE f.type = "INVX" /\ ~ DirExclusive(c, x) /\ dir[c][x].sharers # {}
    <3>1. ~ View.dir[c][x].exclusive
      <4>1. View.dir[c][x].exclusive \in BOOLEAN
        <5>1. dir \in [Inner -> [Lines -> [sharers : SUBSET Caches, exclusive : BOOLEAN]]]
          BY <1>1 DEF TypeOK
        <5>2. dir[c][x] \in [sharers : SUBSET Caches, exclusive : BOOLEAN]
          BY <1>2, <2>1, <5>1
        <5> QED
          BY <1>10, <5>2
      <4>2. ~ (View.dir[c][x].exclusive = TRUE /\ View.dir[c][x].sharers # {})
        BY <1>1, <1>2, <2>1, <2>3, ExclusiveEntry
      <4> QED
        BY <1>10, <2>3, <4>1, <4>2
    <3>2. Entry(View, c, x)
      BY <1>1, <1>2, <2>1 DEF Sound, Directory
    <3> QED
      BY <1>10, <1>13, <2>3, <3>1, <3>2 DEF Entry, Excl
  <2> QED
    BY <1>11, <2>1, <2>2, <2>3
<1>14. /\ n \in Nat /\ n \in 2 .. View.depth[t] /\ n - 1 \in 1 .. View.depth[t]
       /\ n - 2 \in Nat /\ n = View.depth[t] /\ n \in 1 .. View.depth[t]
       /\ f = View.calls[t][n] /\ f \in Frame /\ up = View.calls[t][n - 1] /\ up \in Frame
       /\ f.pc = "inv" /\ f.type \in {"INV", "INVX"}
  BY <1>1, <1>2, <1>3, <1>4, <1>9
<1>15. /\ up.pc \in {"evict", "top", "inv"} /\ up.type \notin Puts
       /\ f.line = IF up.pc = "evict" THEN up.victim ELSE up.line
       /\ f.c \in Caches /\ up.c \in Caches /\ f.line \in Lines /\ up.c # f.c
       /\ Parent[f.c][f.line] = up.c /\ state[f.c][f.line] # "I"
       /\ e \in Frame
       /\ e.c = up.c /\ e.type = up.type /\ e.pc = up.pc /\ e.line = up.line
       /\ e.victim = up.victim
       /\ e.wb <=> up.wb \/ PullsUp(f)
  BY <1>2, <1>5, <1>6, <1>8, <1>9, <1>10, <1>12
<1>16. \A k \in Caches : Parent[k][f.line] = f.c =>
           /\ state[k][f.line] \notin {"E", "M"}
           /\ f.type = "INV" => state[k][f.line] = "I"
  BY <1>13 DEF x, c
<1>17. /\ state' = [state EXCEPT ![f.c][f.line] = IF f.type = "INV" THEN "I" ELSE "S"]
       /\ fresh' = [fresh EXCEPT ![f.line] =
           IF f.type = "INV"
           THEN (IF PullsUp(f) THEN Moved(f.line, f.c, up.c) ELSE fresh[f.line]) \ {f.c}
           ELSE (IF PullsUp(f) THEN Moved(f.line, f.c, up.c) ELSE fresh[f.line])]
       /\ stack' = [stack EXCEPT ![t] = <<e>> \o Tail(Tail(@))]
  BY <1>7 DEF x, c, p
<1>18. Finishing(t, n, f, up, e)
  BY <1>14, <1>15, <1>16, <1>17 DEF Finishing
<1> QED
  BY <1>1, <1>18 DEF e, up, n
\* An invalidation ends: dirty data, its own or from below, goes to the caller,
\* which notes that it has pulled it up; a clean copy is the same above.
LEMMA finishInvalidateData ==
    ASSUME DataInv, NEW t \in Threads, finishInvalidate(t) PROVE Data(View', fresh')
<1> DEFINE n == View.depth[t]
           f == View.calls[t][n]
           up == View.calls[t][n - 1]
           x == f.line
           c == f.c
           p == up.c
           e == [up EXCEPT !.wb = @ \/ PullsUp(f)]
           m == n - 2
<1>1. MESIInv /\ TypeOK /\ Sound(View) /\ StackType
  BY DEF DataInv, MESIInv, TypeOK, StackType
<1>2. Finishing(t, n, f, up, e)
  BY <1>1, Finishes
<1>3. /\ View.state = state /\ View'.state = state' /\ n = View.depth[t]
      /\ x = f.line /\ c = f.c /\ p = up.c /\ View.calls[t][n] = f
      /\ up = View.calls[t][n - 1]
  BY ViewFields, ViewFieldsNext
<1> HIDE DEF n, f, up, x, c, p, e
<1>4. /\ n \in Nat /\ n \in 2 .. View.depth[t] /\ n - 1 \in 1 .. View.depth[t] /\ m \in Nat
      /\ n \in 1 .. View.depth[t] /\ f \in Frame /\ up \in Frame /\ e \in Frame
      /\ c \in Caches /\ p \in Caches /\ x \in Lines /\ p # c /\ Parent[c][x] = p
      /\ state[c][x] # "I" /\ f.pc = "inv" /\ f.type \in {"INV", "INVX"}
      /\ n = m + 2 /\ n - 1 = m + 1 /\ m <= View.depth[t] /\ m \in 0 .. View.depth[t]
      /\ View.depth[t] >= 2
  <2>1. /\ n \in Nat /\ n \in 2 .. View.depth[t] /\ n - 1 \in 1 .. View.depth[t]
        /\ n - 2 \in Nat /\ n \in 1 .. View.depth[t]
        /\ f \in Frame /\ up \in Frame /\ e \in Frame
    BY <1>2 DEF Finishing
  <2>2. /\ f.c \in Caches /\ up.c \in Caches /\ f.line \in Lines /\ up.c # f.c
        /\ Parent[f.c][f.line] = up.c
        /\ state[f.c][f.line] # "I" /\ f.pc = "inv" /\ f.type \in {"INV", "INVX"}
    BY <1>2 DEF Finishing
  <2>3. /\ m \in Nat /\ n = m + 2 /\ n - 1 = m + 1 /\ m <= View.depth[t]
        /\ m \in 0 .. View.depth[t] /\ View.depth[t] >= 2
    BY <1>3, <2>1
  <2> QED
    BY <1>3, <2>1, <2>2, <2>3
<1>5. /\ Below(View, View', t, m) /\ View'.depth[t] = n - 1 /\ View'.calls[t][n - 1] = e
  <2>1. View.depth[t] >= 2 /\ stack' = [stack EXCEPT ![t] = <<e>> \o Tail(Tail(@))]
    <3>1. stack' = [stack EXCEPT ![t] = <<e>> \o Tail(Tail(@))]
      BY <1>2 DEF Finishing
    <3> QED
      BY <1>4, <3>1
  <2> QED
    BY <1>1, <1>3, <1>4, <2>1, AfterFinish
<1>6. /\ \A k \in Caches : Parent[k][x] = c =>
             state[k][x] \notin {"E", "M"} /\ (f.type = "INV" => state[k][x] = "I")
      /\ e.wb <=> up.wb \/ PullsUp(f)
  BY <1>2, <1>3 DEF Finishing
<1>7. /\ state' = [state EXCEPT ![c][x] = IF f.type = "INV" THEN "I" ELSE "S"]
      /\ fresh' = [fresh EXCEPT ![x] =
             IF f.type = "INV"
             THEN (IF PullsUp(f) THEN Moved(x, c, p) ELSE fresh[x]) \ {c}
             ELSE (IF PullsUp(f) THEN Moved(x, c, p) ELSE fresh[x])]
  BY <1>2 DEF Finishing, x, c, p
<1>8. c \in fresh[x]
  BY <1>4, <1>6, Current
<1>9. /\ state'[c][x] = IF f.type = "INV" THEN "I" ELSE "S"
      /\ \A k \in Caches, l \in Lines : k # c \/ l # x => state'[k][l] = state[k][l]
  BY <1>1, <1>4, <1>7 DEF TypeOK
<1>10. /\ PullsUp(f) => p \in fresh'[x]
       /\ \A k \in fresh[x] : k # c => k \in fresh'[x]
       /\ \A k \in fresh'[x] : k \in fresh[x] \/ (k = p /\ PullsUp(f))
       /\ f.type = "INVX" => c \in fresh'[x]
       /\ \A l \in Lines \ {x} : fresh'[l] = fresh[l]
  BY <1>1, <1>4, <1>7, <1>8 DEF TypeOK, Moved
<1>11. state[c][x] \in {"E", "M"} => p \in fresh'[x]
  <2> SUFFICES ASSUME state[c][x] \in {"E", "M"}, ~ PullsUp(f) PROVE p \in fresh'[x]
    BY <1>10
  <2>1. state[c][x] = "E" /\ ~ f.wb
    BY <1>3 DEF PullsUp
  <2>2. HasBcc(View, t, n) /\ ~ Pulled(View.calls[t][n], x)
    BY <1>3, <1>4, <2>1 DEF HasBcc, Pulled
  <2>3. ~ PulledUp(View, c, x)
    BY <1>1, <1>3, <1>4, <2>2, NothingPulled
  <2>4. p \in fresh[x]
    BY <1>4, <1>8, <2>1, <2>3, CleanAbove
  <2> QED
    BY <1>4, <1>10, <2>4
<1>12. /\ \A l : Pulled(up, l) => Pulled(e, l)
       /\ PullsUp(f) => Pulled(e, x)
  BY <1>2, <1>3, <1>6 DEF Finishing, Pulled
<1>13. \A l : Pulled(e, l) => PulledUp(View', p, l)
  <2>1. e.c = up.c
    BY <1>2 DEF Finishing
  <2>2. e.c = p /\ n - 1 \in 1 .. View'.depth[t]
    BY <1>3, <1>4, <1>5, <2>1
  <2> QED
    BY <1>5, <2>2 DEF PulledUp
<1>14. \A l : Pulled(f, l) => l = x
  BY <1>3, <1>4 DEF Pulled
<1>15. \A d \in m + 1 .. View.depth[t] : d = n - 1 \/ d = n
  BY <1>3, <1>4
<1>16. \A d \in m + 1 .. View.depth[t] : \A l \in Lines \ {x} :
           Pulled(View.calls[t][d], l) => PulledUp(View', View.calls[t][d].c, l)
  BY <1>3, <1>12, <1>13, <1>14, <1>15
<1>17. ASSUME NEW k \in Caches, k # c, PulledUp(View, k, x)
       PROVE  PulledUp(View', k, x)
  <2>1. m <= View'.depth[t] /\ View'.depth[t] \in Nat /\ View.depth[t] \in Nat
    BY <1>3, <1>4, <1>5
  <2>2. PulledUp(View', k, x) \/ PulledAbove(View, t, m, k, x)
    BY <1>4, <1>5, <1>17, <2>1, PulledKept
  <2>3. PulledAbove(View, t, m, k, x) => PulledUp(View', k, x)
    BY <1>3, <1>12, <1>13, <1>15, <1>17 DEF PulledAbove
  <2> QED
    BY <2>2, <2>3
<1>18. LineData(View', fresh'[x], x)
  <2>1. LineData(View, fresh[x], x)
    BY <1>4 DEF DataInv, Data
  <2>2. /\ View.state[c][x] # "I" /\ View'.state[c][x] \in {"I", "S"}
        /\ \A k \in Caches : k # c => View'.state[k][x] = View.state[k][x]
        /\ View'.state[c][x] = "S" => c \in fresh'[x]
        /\ View'.state[c][x] = "I" =>
               \A k \in Caches : Parent[k][x] = c => View.state[k][x] = "I"
    BY <1>3, <1>4, <1>6, <1>9, <1>10
  <2>3. /\ \A k \in fresh'[x] : k \in fresh[x] \/ k = p
        /\ Excl(View, c, x) => p \in fresh'[x]
        /\ p \in fresh'[x] /\ p \notin fresh[x] => PulledUp(View', p, x)
    BY <1>3, <1>10, <1>11, <1>12, <1>13 DEF Excl
  <2> QED
    BY <1>4, <1>10, <1>17, <2>1, <2>2, <2>3, LineTaken
<1>19. Delivered
  <2>1. /\ HasBcc(View, t, n) /\ View.calls[t][n].pc # "top" /\ View.calls[t][n].c = c
    BY <1>3, <1>4 DEF HasBcc
  <2>2. \A l \in Lines : \A k \in fresh[l] : k # c => k \in fresh'[l]
    BY <1>10
  <2> QED
    BY <1>1, <1>4, <2>1, <2>2, NoneLost
<1>20. \A d \in m + 1 .. View'.depth[t] : CallData(View'.calls[t][d], fresh')
  <2>1. CallData(up, fresh)
    BY <1>3, <1>4 DEF DataInv, Data
  <2>2. /\ e.c = up.c /\ e.type = up.type /\ e.pc = up.pc /\ e.line = up.line
        /\ e.victim = up.victim /\ up.type \notin Puts
    BY <1>2 DEF Finishing
  <2>3. CallData(e, fresh')
    BY <2>1, <2>2 DEF CallData, Access, Puts
  <2>4. \A d \in m + 1 .. View'.depth[t] : d = n - 1
    BY <1>4, <1>5
  <2> QED
    BY <1>5, <2>3, <2>4
<1> HIDE DEF m
<1>21. m \in Nat /\ m <= View.depth[t] /\ m <= View'.depth[t] /\ View'.depth[t] \in Nat
  BY <1>3, <1>4, <1>5
<1>22. \A k \in Threads : \A j \in 1 .. View.depth[k] :
           (k # t \/ j <= m) => Delivers(View.calls[k][j], fresh, fresh')
  BY <1>19 DEF Delivered
<1>23. /\ \A l \in Lines \ {x} : fresh'[l] = fresh[l]
       /\ \A k \in Caches, l \in Lines \ {x} : state'[k][l] = state[k][l]
  BY <1>9, <1>10
<1> QED
  BY <1>4, <1>5, <1>16, <1>18, <1>20, <1>21, <1>22, <1>23, CopiesMove
-----------------------------------------------------------------------------
(* A core stores.                                                          *)

\* A core that may write l: every other cache with a copy has a child that may
\* write it, for it is on the way from the core to the memory.
LEMMA WriterPath ==
    ASSUME NEW h, Directory(h), Included(h), NEW l \in Lines,
           NEW j \in Leaves, Excl(h, j, l)
    PROVE  /\ Owned(h, Mem, l)
           /\ \A c \in Serving(l) : h.state[c][l] # "I" /\ c # j => Owned(h, c, l)
<1> DEFINE A == Above(j, l)
<1>1. /\ Leaves \subseteq Caches /\ j \in Caches
      /\ \A c \in Caches : Parent[c][l] \notin Leaves
      /\ \A c \in Caches : Parent[c][l] # Mem => Parent[c][l] \in Inner
      /\ \A c \in Caches : Within(h, c, l)
      /\ \A c \in Inner : Entry(h, c, l) /\ c \in Caches
  BY HierarchyAssumption DEF Inner, Included, Directory
<1>2. /\ j \in A /\ A \subseteq Caches /\ UpClosed(A, l)
      /\ \A U \in SUBSET Caches : j \in U /\ UpClosed(U, l) => A \subseteq U
  BY <1>1, AboveLeast
<1> HIDE DEF A
<1>3. \A k \in A : Excl(h, k, l)
  <2> DEFINE U == {k \in Caches : Excl(h, k, l)}
  <2>1. UpClosed(U, l)
    BY <1>1 DEF UpClosed, Within, Excl
  <2>2. U \in SUBSET Caches /\ j \in U
    BY <1>1
  <2> QED
    BY <1>2, <2>1, <2>2
<1>4. Serving(l) \in SUBSET Caches /\ UpClosed(Serving(l), l) /\ j \in Serving(l)
  BY <1>1, ParentOf DEF UpClosed, Serving
<1>5. A \subseteq Serving(l)
  BY <1>2, <1>4
<1>6. PICK r \in A : Parent[r][l] = Mem
  <2>1. PICK r \in A : Parent[r][l] \notin A
    <3>1. A \in SUBSET Caches /\ A # {}
      BY <1>2
    <3> QED
      BY <3>1, Topmost
  <2> QED
    BY <1>2, <2>1 DEF UpClosed
<1>7. Owned(h, Mem, l)
  BY <1>2, <1>3, <1>6 DEF Owned
<1>8. ASSUME NEW c \in A, c # j
      PROVE  \E k \in A : Parent[k][l] = c
  <2> SUFFICES ASSUME \A k \in A : Parent[k][l] # c PROVE FALSE
    OBVIOUS
  <2>1. UpClosed(A \ {c}, l)
    BY <1>2 DEF UpClosed
  <2>2. A \ {c} \in SUBSET Caches /\ j \in A \ {c}
    BY <1>2, <1>8
  <2> QED
    BY <1>2, <1>8, <2>1, <2>2
<1>9. ASSUME NEW c \in Serving(l), h.state[c][l] # "I", c # j
      PROVE  Owned(h, c, l)
  <2>1. CASE c \in A
    <3>1. PICK k \in A : Parent[k][l] = c
      BY <1>8, <1>9, <2>1
    <3> QED
      BY <1>2, <1>3, <3>1 DEF Owned
  <2>2. CASE c \notin A
    <3> DEFINE B == Above(c, l)
    <3>1. c \in Caches
      BY <1>4
    <3>2. /\ c \in B /\ B \subseteq Caches /\ UpClosed(B, l)
          /\ \A U \in SUBSET Caches : c \in U /\ UpClosed(U, l) => B \subseteq U
      BY <3>1, AboveLeast
    <3> HIDE DEF B
    <3>3. \A k \in B : h.state[k][l] # "I"
      <4> DEFINE W == {k \in Caches : h.state[k][l] # "I"}
      <4>1. UpClosed(W, l)
        BY <1>1 DEF UpClosed, Within
      <4>2. W \in SUBSET Caches /\ c \in W
        BY <1>9, <3>1
      <4> QED
        BY <3>2, <4>1, <4>2
    <3>4. B \subseteq Serving(l)
      BY <1>4, <1>9, <3>2
    <3>5. PICK d \in B \ A : Parent[d][l] \notin B \ A
      <4>1. B \ A \in SUBSET Caches /\ B \ A # {}
        BY <2>2, <3>2
      <4> QED
        BY <4>1, Topmost
    <3>6. Parent[d][l] # Mem
      <4> SUFFICES ASSUME Parent[d][l] = Mem PROVE FALSE
        OBVIOUS
      <4>1. d \in Serving(l) /\ r \in Serving(l) /\ l \in Lines
        BY <1>5, <3>4
      <4>2. d = r
        BY <1>6, <4>1, TreeAssumption
      <4> QED
        BY <1>6, <3>5, <4>2
    <3> DEFINE p == Parent[d][l]
    <3>7. p \in A /\ p \in Inner /\ p # j /\ d \in Caches
      BY <1>1, <3>2, <3>5, <3>6 DEF UpClosed
    <3>8. PICK k \in A : Parent[k][l] = p
      BY <1>8, <3>7
    <3>9. /\ k \in Caches /\ Excl(h, k, l) /\ h.state[k][l] # "S" /\ h.state[k][l] # "I"
          /\ d # k /\ h.state[d][l] # "I" /\ Entry(h, p, l)
      BY <1>1, <1>2, <1>3, <3>3, <3>5, <3>7, <3>8 DEF Excl
    <3> HIDE DEF p
    <3>10. Parent[d][l] = p
      BY DEF p
    <3>11. k \in h.dir[p][l].sharers
      BY <3>8, <3>9 DEF Entry
    <3>12. h.dir[p][l].exclusive
      BY <3>9, <3>11 DEF Entry
    <3>13. d \in h.dir[p][l].sharers
      BY <3>7, <3>9, <3>10, <3>12 DEF Entry
    <3> QED
      BY <3>9, <3>11, <3>12, <3>13 DEF Entry
  <2> QED
    BY <2>1, <2>2
<1> QED
  BY <1>7, <1>9
\* Core t stores to line l, in its M copy.
Storing(t, l) ==
    /\ fresh' = [fresh EXCEPT ![l] = {t}]
    /\ state'[t][l] = "M"
    /\ \A c \in Caches, y \in Lines : c # t \/ y # l => state'[c][y] = state[c][y]
    /\ state[t][l] # "I" \/ Parent[t][l] = Mem
    /\ Below(View, View', t, 0)
    /\ View'.depth[t] \in Nat
    /\ \A d \in 1 .. View'.depth[t] : CallData(View'.calls[t][d], fresh')
    /\ \A d \in 1 .. View.depth[t], y \in Lines : ~ Pulled(View.calls[t][d], y)

\* No dirty copy of the line is being put back then.
LEMMA NoPut ==
    ASSUME DataInv, MESIInv', NEW t \in Threads, NEW l \in Lines, Storing(t, l),
           NEW u \in Threads, u # t, NEW j \in 1 .. View.depth[u],
           View.calls[u][j].type = "PUTX", View.calls[u][j].pc = "top"
    PROVE  View.calls[u][j].line # l
<1> SUFFICES ASSUME View.calls[u][j].line = l PROVE FALSE
  OBVIOUS
<1>1. /\ MESIInv /\ Sound(View) /\ Sound(View') /\ View.depth[u] \in Nat
      /\ View.state = state /\ View'.state = state'
  BY ViewFields, ViewFieldsNext DEF DataInv, MESIInv, Sound, Typed
<1>2. j = View.depth[u]
  <2> SUFFICES ASSUME j # View.depth[u] PROVE FALSE
    OBVIOUS
  <2>1. j \in 1 .. View.depth[u] - 1
    BY <1>1
  <2>2. View.calls[u][j].type \in Gets \cup Invs
    BY <1>1, <2>1, Waiting
  <2> QED
    BY <2>2 DEF Gets, Invs
<1>3. stack[u] # << >> /\ View.calls[u][j] = Top(u)
  <2>1. Len(stack[u]) = View.depth[u]
    BY ViewFields
  <2>2. stack[u] # << >>
    BY <1>1, <2>1
  <2> QED
    BY <1>1, <1>2, <2>2, ActingData
<1> DEFINE ch == Caller(u).c
           d == View.depth[u] - 1
<1>4. /\ View.depth[u] \in 2 .. View.depth[u] /\ Caller(u) = View.calls[u][d]
      /\ ch \in Caches /\ Top(u).c = Parent[ch][l] /\ Top(u).c \in Inner
      /\ Asked(View, Top(u), ch)
      /\ \A k \in Caches : Parent[k][l] = ch => state[k][l] = "I"
  BY <1>1, <1>3, PutChild DEF Puts
<1>5. d \in 1 .. View.depth[u] /\ InAccess(View, u, d) /\ Top(u).pc = "top"
  BY <1>1, <1>3, HandingOver
<1>6. state[ch][l] = "M"
  BY <1>1, <1>3, <1>4, <1>5 DEF Asked, Puts
<1>7. ch # t
  <2> SUFFICES ASSUME ch = t PROVE FALSE
    OBVIOUS
  <2>1. Shaped(View, u, d)
    BY <1>1, <1>5 DEF Sound, CallsSound, CallSound
  <2>2. Access(View.calls[u][d]) /\ View.calls[u][d].c = t /\ t \in Leaves
    BY <1>4, <1>5 DEF InAccess, Threads
  <2> HIDE DEF d
  <2>3. View.calls[u][d].c = u
    BY <2>1, <2>2 DEF Shaped
  <2> QED
    BY <2>2, <2>3
<1> HIDE DEF ch, d
<1>8. state'[ch][l] = "M" /\ state'[t][l] = "M"
  BY <1>4, <1>6, <1>7 DEF Storing
<1>9. LineData(View, fresh[l], l)
  BY DEF DataInv, Data
<1>10. ch \in Serving(l)
  BY <1>1, <1>4, <1>6, <1>9 DEF LineData
<1>11. Owned(View', ch, l)
  <2>1. Directory(View') /\ Included(View') /\ t \in Leaves /\ Excl(View', t, l)
    BY <1>1, <1>8 DEF Sound, Excl, Threads
  <2> QED
    BY <1>1, <1>7, <1>8, <1>10, <2>1, WriterPath
<1>12. PICK k \in Caches : Parent[k][l] = ch /\ state'[k][l] \in {"E", "M"}
  BY <1>1, <1>11 DEF Owned, Excl
<1>13. state[k][l] = "I"
  BY <1>4, <1>12
<1>14. k = t
  BY <1>12, <1>13 DEF Storing
<1>15. ch = Mem
  BY <1>12, <1>13, <1>14 DEF Storing
<1> QED
  BY <1>4, <1>15, ParentOf

\* Then the core's copy is the only one, and nobody reads another before it is
\* taken away.
LEMMA StoringData ==
    ASSUME DataInv, MESIInv', NEW t \in Threads, NEW l \in Lines, Storing(t, l)
    PROVE  Data(View', fresh')
<1>1. /\ MESIInv /\ Sound(View) /\ Sound(View') /\ View.depth[t] \in Nat
      /\ View.state = state /\ View'.state = state' /\ TypeOK /\ t \in Leaves /\ t \in Caches
  BY ViewFields, ViewFieldsNext, HierarchyAssumption
  DEF DataInv, MESIInv, Sound, Typed, Threads
<1> DEFINE m == 0
<1>2. /\ Below(View, View', t, m) /\ View'.depth[t] \in Nat
      /\ m \in Nat /\ m <= View.depth[t] /\ m <= View'.depth[t]
      /\ \A d \in m + 1 .. View'.depth[t] : CallData(View'.calls[t][d], fresh')
      /\ \A d \in m + 1 .. View.depth[t] : \A y \in Lines \ {l} :
             Pulled(View.calls[t][d], y) => PulledUp(View', View.calls[t][d].c, y)
  <2>1. /\ Below(View, View', t, 0) /\ View'.depth[t] \in Nat
        /\ \A d \in 1 .. View'.depth[t] : CallData(View'.calls[t][d], fresh')
        /\ \A d \in 1 .. View.depth[t] : \A y \in Lines : ~ Pulled(View.calls[t][d], y)
    BY DEF Storing
  <2>2. /\ m \in Nat /\ m <= View.depth[t] /\ m <= View'.depth[t]
        /\ \A d \in m + 1 .. View'.depth[t] : d \in 1 .. View'.depth[t]
        /\ \A d \in m + 1 .. View.depth[t] : d \in 1 .. View.depth[t]
        /\ m = 0
    BY <1>1, <2>1
  <2> HIDE DEF m
  <2> QED
    BY <2>1, <2>2
<1>3. fresh'[l] = {t} /\ \A y \in Lines \ {l} : fresh'[y] = fresh[y]
  BY <1>1 DEF Storing, TypeOK
<1>4. \A c \in Caches, y \in Lines \ {l} : state'[c][y] = state[c][y]
  BY DEF Storing
<1>5. LineData(View', fresh'[l], l)
  <2>1. Directory(View') /\ Included(View') /\ Excl(View', t, l) /\ state'[t][l] = "M"
    BY <1>1 DEF Sound, Excl, Storing
  <2>2. Owned(View', Mem, l)
    BY <1>1, <2>1, WriterPath
  <2>3. \A c \in Serving(l) : state'[c][l] # "I" /\ c # t => Owned(View', c, l)
    BY <1>1, <2>1, WriterPath
  <2>4. LineData(View, fresh[l], l) /\ t \in Serving(l)
    BY <1>1 DEF DataInv, Data, Serving
  <2>5. \A c \in Caches : state'[c][l] # "I" => c \in Serving(l)
    BY <1>1, <2>4 DEF LineData, Storing
  <2> QED
    BY <1>1, <1>3, <2>1, <2>2, <2>3, <2>5 DEF LineData
<1>6. ASSUME NEW k \in Threads, NEW j \in 1 .. View.depth[k], k # t \/ j <= m
      PROVE  Delivers(View.calls[k][j], fresh, fresh')
  <2>1. k # t
    BY <1>1, <1>6
  <2>2. View.calls[k][j] \in Frame
    BY <1>1 DEF Sound, Typed
  <2>3. View.calls[k][j].line \in Lines
    BY <2>2, FrameFields
  <2>4. /\ View.calls[k][j].type = "PUTX" /\ View.calls[k][j].pc = "top"
        => View.calls[k][j].line # l
    BY <2>1, NoPut
  <2> QED
    BY <1>3, <2>3, <2>4 DEF Delivers
<1>7. \A k \in Threads : \A j \in 1 .. View.depth[k] :
          (k # t \/ j <= m) => Delivers(View.calls[k][j], fresh, fresh')
  BY <1>6
<1>8. \A y \in Lines \ {l} : fresh'[y] = fresh[y]
  BY <1>3
<1> HIDE DEF m
<1> QED
  BY <1>2, <1>4, <1>5, <1>7, <1>8, CopiesMove

\* A core stores at the end of a GETX.
LEMMA StoresData ==
    ASSUME DataInv, MESIInv', NEW t \in Threads,
           accessHere(t) \/ accessMem(t) \/ accessReturn(t), ~ Reads(Top(t))
    PROVE  Data(View', fresh')
<1> DEFINE f == Top(t)
           l == f.line
           e == [f EXCEPT !.pc = "end"]
           n == View.depth[t]
<1>1. stack[t] # << >> /\ f.c \in Leaves /\ f.type = "GETX" /\ f.pc \in {"acc", "accret"}
  BY DEF Reads, accessHere, accessMem, accessReturn, At
<1>2. /\ CallData(f, fresh) /\ f \in Frame /\ TypeOK /\ Shaped(View, t, n)
      /\ View.calls[t][n] = f /\ Own(View, f, TRUE) /\ n \in 1 .. View.depth[t]
      /\ View.state = state
  BY <1>1, ActingData, ViewFields
<1>3. n = 1 /\ f.c = t /\ t \in Caches /\ l \in Lines
  BY <1>1, <1>2, HierarchyAssumption, FrameFields DEF Shaped, Access, Gets, Threads
<1>4. Become(t, e) /\ fresh' = [fresh EXCEPT ![l] = {t}]
  BY <1>1, <1>3 DEF accessHere, accessMem, accessReturn, Goto, AfterBcc, Stored
<1>5. /\ state'[t][l] = "M" /\ (state[t][l] # "I" \/ Parent[t][l] = Mem)
      /\ \A c \in Caches, y \in Lines : c # t \/ y # l => state'[c][y] = state[c][y]
  <2>1. CASE accessHere(t)
    <3>1. state' = IF state[t][l] = "E" THEN [state EXCEPT ![t][l] = "M"] ELSE state
      BY <1>1, <1>3, <2>1 DEF accessHere
    <3>2. state[t][l] \in {"E", "M"}
      <4>1. state[t][l] \in MESI
        BY <1>2, <1>3 DEF TypeOK
      <4> QED
        BY <1>1, <1>3, <2>1, <4>1 DEF accessHere, NeedsParent, MESI
    <3> QED
      BY <1>2, <1>3, <3>1, <3>2 DEF TypeOK
  <2>2. CASE accessMem(t)
    <3>1. state' = [state EXCEPT ![t][l] = "M"] /\ Parent[t][l] = Mem
      BY <1>1, <1>3, <2>2 DEF accessMem
    <3> QED
      BY <1>2, <1>3, <3>1 DEF TypeOK
  <2>3. CASE accessReturn(t)
    <3>1. state[t][l] = "M" /\ state' = state
      BY <1>1, <1>2, <1>3, <2>3 DEF accessReturn, At, Own
    <3> QED
      BY <3>1
  <2> QED
    BY <2>1, <2>2, <2>3
<1>6. /\ e \in Frame /\ e.c = f.c /\ e.line = l /\ e.type = "GETX" /\ e.pc = "end"
      /\ e.victim = f.victim
  BY <1>1, <1>2 DEF Frame
<1> HIDE DEF e
<1>7. CallData(e, fresh')
  BY <1>1, <1>2, <1>6 DEF CallData, Access, Gets, Puts
<1>8. Below(View, View', t, 0) /\ View'.depth[t] = 1 /\ View'.calls[t][1] = e
  <2>1. StackType
    BY <1>2 DEF TypeOK, StackType
  <2> QED
    BY <1>1, <1>3, <1>4, <1>6, <2>1, AfterBecome DEF n
<1>9. \A y \in Lines : ~ Pulled(f, y)
  BY <1>1 DEF Pulled
<1>10. Storing(t, l)
  <2>1. \A d \in 1 .. View'.depth[t] : CallData(View'.calls[t][d], fresh')
    BY <1>7, <1>8
  <2>2. \A d \in 1 .. View.depth[t], y \in Lines : ~ Pulled(View.calls[t][d], y)
    BY <1>2, <1>3, <1>9
  <2> QED
    BY <1>4, <1>5, <1>8, <2>1, <2>2 DEF Storing
<1> QED
  BY <1>3, <1>10, StoringData

\* A core stores in a line its filter holds.
LEMMA StoreHitData ==
    ASSUME DataInv, MESIInv', OneProcess, NEW t \in Threads, NEW l \in Lines, StoreHit(t, l)
    PROVE  Data(View', fresh')
<1>1. /\ MESIInv /\ Sound(View) /\ View.state = state /\ View.filter = filter
      /\ View.depth[t] = 0 /\ stack' = stack /\ state' = state
      /\ filter[t].wr = l /\ fresh' = [fresh EXCEPT ![l] = {t}]
  BY ViewFields DEF DataInv, MESIInv, StoreHit
<1>2. state[t][l] = "M"
  BY <1>1, HierarchyAssumption DEF Sound, Filtered
<1>3. Below(View, View', t, 0) /\ View'.depth[t] = 0
  BY <1>1 DEF View, Below
<1>4. /\ \A d \in 1 .. View'.depth[t] : CallData(View'.calls[t][d], fresh')
      /\ \A d \in 1 .. View.depth[t], y \in Lines : ~ Pulled(View.calls[t][d], y)
  BY <1>1, <1>3
<1>5. /\ state'[t][l] = "M" /\ state[t][l] # "I" /\ View'.depth[t] \in Nat
      /\ \A c \in Caches, y \in Lines : c # t \/ y # l => state'[c][y] = state[c][y]
  BY <1>1, <1>2, <1>3
<1>6. Storing(t, l)
  BY <1>1, <1>3, <1>4, <1>5 DEF Storing
<1> QED
  BY <1>6, StoringData
-----------------------------------------------------------------------------
(* The invariant.                                                          *)

\* At first memory has every line and no cache has any.
LEMMA InitData == Init => DataInv
<1> SUFFICES ASSUME Init PROVE DataInv
  OBVIOUS
<1>1. MESIInv
  BY InitInv
<1>2. /\ View.state = state
      /\ \A t \in Threads : View.depth[t] = 0
      /\ \A c \in Caches, l \in Lines : state[c][l] = "I"
      /\ \A l \in Lines : fresh[l] = {Mem}
  BY ViewFields DEF Init, Threads
<1>3. \A l \in Lines : LineData(View, fresh[l], l)
  BY <1>2 DEF LineData
<1>4. \A t \in Threads : \A d \in 1 .. View.depth[t] : FALSE
  BY <1>2
<1> QED
  BY <1>1, <1>3, <1>4 DEF DataInv, Data

\* What a thread does inside an access.
LEMMA WorkData ==
    ASSUME DataInv, MESIInv', NEW t \in Threads, Work(t) PROVE Data(View', fresh')
<1>1. CASE startAccessTcc(t) BY <1>1, startAccessTccData
<1>2. CASE startAccessBcc(t) BY <1>2, startAccessBccData
<1>3. CASE LookupHit(t) BY <1>3, LookupHitData
<1>4. CASE InsertFree(t) BY <1>4, InsertFreeData
<1>5. CASE \E v \in Lines : preinsert(t, v) BY <1>5, preinsertData
<1>6. CASE evictChild(t) BY <1>6, evictChildData
<1>7. CASE evictInvalid(t) BY <1>7, evictInvalidData
<1>8. CASE evictToMem(t) BY <1>8, evictToMemData
<1>9. CASE evictToParent(t) BY <1>9, evictToParentData
<1>10. CASE postinsert(t) BY <1>10, postinsertData
<1>11. CASE accessHere(t) BY <1>11, accessHereData, StoresData
<1>12. CASE accessMem(t) BY <1>12, accessMemData, StoresData
<1>13. CASE accessParent(t) BY <1>13, accessParentData
<1>14. CASE accessReturn(t) BY <1>14, accessReturnData, StoresData
<1>15. CASE topPut(t) BY <1>15, topPutData
<1>16. CASE topGetE(t) BY <1>16, topGetData
<1>17. CASE topDowngrade(t) BY <1>17, topDowngradeData
<1>18. CASE topGetS(t) BY <1>18, topGetData
<1>19. CASE topInvalidate(t) BY <1>19, topInvalidateData
<1>20. CASE topGetX(t) BY <1>20, topGetData
<1>21. CASE endAccess(t) BY <1>21, endAccessData
<1>22. CASE endReplace(t) BY <1>22, endReplaceData
<1>23. CASE startInv(t) BY <1>23, startInvData
<1>24. CASE invalidateFilter(t) BY <1>24, invalidateFilterData
<1>25. CASE invChild(t) BY <1>25, invChildData
<1>26. CASE finishInvalidate(t) BY <1>26, finishInvalidateData
<1> QED
  BY <1>1, <1>2, <1>3, <1>4, <1>5, <1>6, <1>7, <1>8, <1>9, <1>10, <1>11, <1>12,
     <1>13, <1>14, <1>15, <1>16, <1>17, <1>18, <1>19, <1>20, <1>21, <1>22, <1>23,
     <1>24, <1>25, <1>26 DEF Work

\* Every action keeps it.
LEMMA NextData == ASSUME OneProcess PROVE DataInv /\ [Next]_vars => DataInv'
<1> SUFFICES ASSUME DataInv, [Next]_vars PROVE DataInv'
  OBVIOUS
<1>1. MESIInv'
  BY NextInv DEF DataInv
<1>2. CASE UNCHANGED vars
  <2>1. Data(View', fresh')
    BY <1>2, contextSwitchData DEF vars
  <2> QED
    BY <1>1, <2>1 DEF DataInv
<1>3. ASSUME NEW t \in Threads, Work(t) PROVE Data(View', fresh')
  BY <1>1, <1>3, WorkData
<1>4. ASSUME NEW t \in Threads, NEW l \in Lines, StoreHit(t, l)
      PROVE  Data(View', fresh')
  BY <1>1, <1>4, StoreHitData
<1>5. ASSUME NEW t \in Threads, NEW l \in Lines, NEW type \in Gets, replace(t, type, l)
      PROVE  Data(View', fresh')
  BY <1>5, replaceData
<1>6. ASSUME NEW t \in Threads, contextSwitch(t) PROVE Data(View', fresh')
  <2>1. UNCHANGED <<stack, state, fresh>>
    BY <1>6 DEF contextSwitch
  <2> QED
    BY <2>1, contextSwitchData
<1>7. CASE Next
  <2>1. Data(View', fresh')
    BY <1>3, <1>4, <1>5, <1>6, <1>7 DEF Next
  <2> QED
    BY <1>1, <2>1 DEF DataInv
<1> QED
  BY <1>2, <1>7

\* Every copy holds the last store unless a child may have overwritten it, and
\* what a clean copy holds the level above holds as well, in every state any
\* interleaving of accesses, evictions and invalidations reaches.
THEOREM DataInvariant == ASSUME OneProcess PROVE Spec => []DataInv
<1>1. Init => DataInv
  BY InitData
<1>2. DataInv /\ [Next]_vars => DataInv'
  BY NextData
<1> QED
  BY <1>1, <1>2, PTL DEF Spec

\* A set of caches has one that is the parent of none of them.
LEMMA Bottommost ==
    ASSUME NEW X \in SUBSET Caches, X # {}, NEW l \in Lines
    PROVE  \E c \in X : \A k \in X : Parent[k][l] # c
<1>1. PICK depth \in [Caches -> 0 .. Cardinality(Caches)] :
          \A c \in Caches : Parent[c][l] # Mem => depth[Parent[c][l]] < depth[c]
  BY TreeAssumption
<1> DEFINE N == Cardinality(Caches)
           D == {N - depth[c] : c \in X}
<1>2. N \in Nat
  BY TreeAssumption, FS_CardinalityType
<1>3. \A c \in Caches : depth[c] \in 0 .. N
  BY <1>1
<1> HIDE DEF N
<1>4. D \in SUBSET Nat /\ D # {}
  BY <1>2, <1>3
<1>5. PICK n \in D : \A m \in D : n <= m
  BY <1>4, LeastNat
<1>6. PICK c \in X : n = N - depth[c]
  BY <1>5
<1>7. ASSUME NEW k \in X, Parent[k][l] = c
      PROVE  FALSE
  <2>1. Parent[k][l] # Mem
    BY <1>7, HierarchyAssumption
  <2>2. depth[c] < depth[k] /\ N - depth[k] \in D
    BY <1>1, <1>7, <2>1
  <2>3. depth[k] \in 0 .. N /\ depth[c] \in 0 .. N
    BY <1>3
  <2> QED
    BY <1>2, <1>5, <1>6, <2>2, <2>3
<1> QED
  BY <1>7

\* A core's copy holds the last store, and the last store is in memory, in a
\* dirty copy, or on its way into one.
LEMMA InvKept == ASSUME DataInv PROVE StoresKept
<1>1. MESIInv /\ Sound(View) /\ View.state = state
  BY ViewFields DEF DataInv, MESIInv
<1>2. \A l \in Lines : LineData(View, fresh[l], l)
  BY DEF DataInv, Data
<1>3. ReadsLastStore
  <2> SUFFICES ASSUME NEW l \in Lines, NEW c \in Leaves, state[c][l] # "I"
               PROVE  c \in fresh[l]
    BY DEF ReadsLastStore
  <2>1. c \in Caches /\ \A k \in Caches : Parent[k][l] # c
    BY HierarchyAssumption
  <2> QED
    BY <2>1, Current
<1>4. LastStoreKept
  <2> SUFFICES ASSUME NEW l \in Lines, Mem \notin fresh[l],
                      ~ \E c \in fresh[l] \ {Mem} : state[c][l] = "M"
               PROVE  \E t \in Threads : \E i \in DOMAIN stack[t] :
                          LET f == stack[t][i] IN
                          /\ f.wb
                          /\ f.c \in fresh[l]
                          /\ l = IF f.victim = None THEN f.line ELSE f.victim
    BY DEF LastStoreKept
  <2> DEFINE X == {c \in Caches : Excl(View, c, l)}
             Y == {c \in X : c \in fresh[l]}
  <2>1. X \in SUBSET Caches /\ X # {}
    BY <1>2 DEF LineData, Owned
  <2>2. PICK b \in X : \A k \in X : Parent[k][l] # b
    BY <2>1, Bottommost
  <2>3. b \in Y
    <3>1. b \in Caches /\ state[b][l] # "I"
      BY <1>1 DEF Excl
    <3>2. \A k \in Caches : Parent[k][l] = b => state[k][l] \notin {"E", "M"}
      BY <1>1, <2>2 DEF Excl
    <3> QED
      BY <3>1, <3>2, Current
  <2>4. PICK c \in Y : Parent[c][l] \notin Y
    <3>1. Y \in SUBSET Caches /\ Y # {}
      BY <2>3
    <3> HIDE DEF Y
    <3> QED
      BY <3>1, Topmost
  <2>5. c \in Caches /\ c # Mem /\ c \in fresh[l] /\ state[c][l] = "E"
    BY <1>1, HierarchyAssumption DEF Excl
  <2>6. Parent[c][l] \notin fresh[l]
    <3> SUFFICES ASSUME Parent[c][l] \in fresh[l] PROVE FALSE
      OBVIOUS
    <3>1. Parent[c][l] # Mem
      OBVIOUS
    <3>2. Parent[c][l] \in Caches
      BY <2>5, <3>1, ParentOf
    <3>3. Within(View, c, l)
      BY <1>1, <2>5 DEF Sound, Included
    <3>4. Excl(View, Parent[c][l], l)
      BY <1>1, <2>5, <3>1, <3>3 DEF Within, Excl
    <3> QED
      BY <2>4, <3>2, <3>4
  <2>7. PulledUp(View, c, l)
    BY <2>5, <2>6, CleanAbove
  <2> HIDE DEF X, Y
  <2>8. PICK t \in Threads : \E d \in 1 .. View.depth[t] :
            View.calls[t][d].c = c /\ Pulled(View.calls[t][d], l)
    BY <2>7 DEF PulledUp
  <2>9. PICK d \in 1 .. View.depth[t] :
            View.calls[t][d].c = c /\ Pulled(View.calls[t][d], l)
    BY <2>8
  <2> DEFINE f == View.calls[t][d]
             i == Len(stack[t]) + 1 - d
  <2>10. CallData(f, fresh)
    BY DEF DataInv, Data
  <2>11. /\ f.wb /\ f.c \in fresh[l]
         /\ l = IF f.victim = None THEN f.line ELSE f.victim
    BY <2>5, <2>9, <2>10, HierarchyAssumption DEF Pulled, CallData
  <2>12. i \in DOMAIN stack[t] /\ stack[t][i] = f
    <3>1. stack[t] \in Seq(Frame)
      BY <1>1 DEF MESIInv, TypeOK
    <3>2. View.depth[t] = Len(stack[t]) /\ f = stack[t][i]
      BY ViewFields
    <3>3. Len(stack[t]) \in Nat /\ DOMAIN stack[t] = 1 .. Len(stack[t])
      BY <3>1
    <3>4. i \in 1 .. Len(stack[t])
      BY <3>2, <3>3
    <3> QED
      BY <3>2, <3>3, <3>4
  <2> HIDE DEF f, i
  <2> QED
    BY <2>11, <2>12
<1> QED
  BY <1>3, <1>4 DEF StoresKept

\* Every copy of a core holds the last store to its line, and the last store is
\* never lost, whatever evictions, invalidations and accesses go on.
THEOREM AllStoresKept == ASSUME OneProcess PROVE Spec => []StoresKept
<1>1. DataInv => StoresKept
  BY InvKept
<1> QED
  BY <1>1, DataInvariant, PTL
=============================================================================
