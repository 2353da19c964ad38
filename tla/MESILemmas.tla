----------------------------- MODULE MESILemmas -----------------------------
(***************************************************************************)
(* Proofs about the MESI cache hierarchy, for any tree of caches of any    *)
(* sizes and any lines.                                                    *)
(*                                                                         *)
(* The invariant is stated of a view h of the state in which a call is     *)
(* named by its thread and its number counted from the leaf: it keeps its  *)
(* name while calls are made and return above it.  It says what each call  *)
(* in progress holds and knows (Locked, Alone, CallsSound), and how far    *)
(* the levels agree at any moment (Directory, Included, Filtered).         *)
(***************************************************************************)
EXTENDS MESIHierarchy, SetLemmas

View ==
    [state |-> state, tags |-> tags, dir |-> dir, bcc |-> bccLock,
     tcc |-> tccLock, flt |-> filterLock, filter |-> filter,
     depth |-> [t \in Threads |-> Len(stack[t])],
     calls |-> [t \in Threads |-> [d \in 1 .. Len(stack[t]) |->
                                       stack[t][Len(stack[t]) + 1 - d]]]]

Access(f) == f.type \in Gets \cup Puts
Excl(h, c, l) == h.state[c][l] \in {"E", "M"}

\* Call d of t is inside startAccess .. endAccess or startInv .. processInval.
\* It does not hold the lock while it waits for an access it made itself.
HasBcc(h, t, d) ==
    LET pc == h.calls[t][d].pc IN
    \/ pc \in {"lookup", "evict", "acc", "top", "end", "iflock", "inv"}
    \/ pc \in {"evput", "accret"} /\ d = h.depth[t]

\* Only one access at a time is in a cache: at a leaf that of its own core.
InAccess(h, t, d) == Access(h.calls[t][d]) /\ h.calls[t][d].pc # "tcc"

\* Each call holds the locks it took.
Locked(h) ==
    \A t \in Threads : \A d \in 1 .. h.depth[t] :
        LET f == h.calls[t][d] IN
        /\ HasBcc(h, t, d) => h.bcc[f.c] = t
        /\ InAccess(h, t, d) /\ f.c \in Inner => h.tcc[f.c] = t
        /\ f.pc = "inv" /\ f.c \in Leaves => h.flt[f.c] = t

\* No two calls of a thread hold one lock.
Alone(h) ==
    \A t \in Threads : \A d, e \in 1 .. h.depth[t] :
        /\ h.calls[t][d].c = h.calls[t][e].c
        /\ \/ HasBcc(h, t, d) /\ HasBcc(h, t, e)
           \/ InAccess(h, t, d) /\ InAccess(h, t, e)
        => d = e

\* An access goes up first; what it makes of invalidations goes down.
UpThenDown(h) ==
    \A t \in Threads : \A d, e \in 1 .. h.depth[t] :
        d < e /\ Access(h.calls[t][e]) => Access(h.calls[t][d])

\* What a call can be and where it can be.
Shaped(h, t, d) ==
    LET f == h.calls[t][d] IN
    /\ d = 1 <=> Access(f) /\ f.c \in Leaves
    /\ d = 1 => f.c = t /\ f.type \in Gets /\ f.init = "I"
    /\ f.type \in Gets =>
           f.pc \in {"tcc", "bcc", "lookup", "evict", "evput", "acc", "accret",
                     "top", "end"}
    /\ f.type \in Puts => f.pc \in {"tcc", "bcc", "lookup", "acc", "top", "end"}
    /\ f.type \in Invs => f.pc \in {"ilock", "iflock", "inv"}
    /\ f.pc \in {"tcc", "top"} => f.c \in Inner
    /\ f.pc = "iflock" => f.c \in Leaves
    /\ f.pc \in {"evict", "evput"} => f.victim \in h.tags[f.c]

\* Call f was made by call g.
Linked(h, g, f) ==
    \/ /\ f.type = g.type /\ f.type \in Gets
       /\ g.pc = "accret"
       /\ f.line = g.line /\ f.c = Parent[g.c][f.line]
    \/ /\ f.type \in Puts
       /\ g.pc = "evput"
       /\ f.line = g.victim /\ f.c = Parent[g.c][f.line]
    \/ /\ f.type \in Invs
       /\ \/ g.pc = "evict" /\ f.type = "INV" /\ f.line = g.victim
          \/ g.pc = "top" /\ g.type = "GETX" /\ f.type = "INV" /\ f.line = g.line
          \/ g.pc = "top" /\ g.type = "GETS" /\ f.type = "INVX" /\ f.line = g.line
          \/ g.pc = "inv" /\ f.type = g.type /\ f.line = g.line
       /\ g.c \in Inner
       /\ f.c \in h.dir[g.c][f.line].sharers
       /\ f.type = "INVX" => h.dir[g.c][f.line].exclusive

\* What call f knows of its own cache; last: it waits for no other.
Own(h, f, last) ==
    LET here == h.state[f.c][f.line]
        there == h.state[f.c][f.victim]
    IN
    /\ f.wb => f.pc \in {"evict", "evput", "top", "end", "inv"}
    /\ f.wb /\ f.pc = "evict" => Excl(h, f.c, f.victim)
    /\ f.wb /\ f.pc \in {"top", "inv"} => Excl(h, f.c, f.line)
    /\ f.pc = "top" \/ (f.pc = "end" /\ f.c \in Leaves) =>
           /\ f.type = "GETS" => here # "I"
           /\ f.type = "GETX" => here = "M"
    /\ f.pc = "accret" /\ last =>
           /\ f.type = "GETS" => here \in {"S", "E"}
           /\ f.type = "GETX" => here = "M"
    /\ f.pc = "evput" /\ last => there = "I"
    /\ f.pc = "evput" /\ f.c \in Inner => h.dir[f.c][f.victim].sharers = {}
    /\ f.type \in Gets /\ f.pc \in {"acc", "accret", "top", "end"} =>
           f.line \in h.tags[f.c]

\* What access f knows of the cache ch that sent it.
Asked(h, f, ch) ==
    LET now == h.state[ch][f.line] IN
    /\ f.type = "GETS" =>
           IF f.pc = "end" THEN now \in {"S", "E"} ELSE f.init = "I" /\ now = "I"
    /\ f.type = "GETX" =>
           IF f.pc = "end" THEN now = "M"
           ELSE f.init \in {"I", "S"} /\ now \in {"I", f.init}
    /\ f.type \in Puts =>
           CASE f.pc = "end" -> now = "I"
             [] f.pc \in {"tcc", "bcc"} ->
                    /\ f.init \in IF f.type = "PUTX" THEN {"M"} ELSE {"S", "E"}
                    /\ now \in {"I", "S", f.init}
             [] OTHER -> now \in IF f.type = "PUTX" THEN {"M"} ELSE {"S", "E"}

CallSound(h, t, d) ==
    LET f == h.calls[t][d]
        g == h.calls[t][d - 1]
    IN
    /\ Shaped(h, t, d)
    /\ Own(h, f, d = h.depth[t])
    /\ d > 1 => Linked(h, g, f)
    /\ d > 1 /\ Access(f) => Asked(h, f, g.c)

CallsSound(h) == \A t \in Threads : \A d \in 1 .. h.depth[t] : CallSound(h, t, d)

\* Child k asks p to write l: topInvalidate has taken it off the directory.
Upgrading(h, p, l, k) ==
    \E t \in Threads : \E d \in 2 .. h.depth[t] :
        /\ h.calls[t][d].c = p /\ h.calls[t][d].line = l
        /\ h.calls[t][d].type = "GETX" /\ h.calls[t][d].pc = "top"
        /\ h.calls[t][d - 1].c = k

\* The entry of line l in cache p lists the children with a copy, but for one
\* that upgrades; an exclusive one is the only one.
Entry(h, p, l) ==
    LET e == h.dir[p][l] IN
    /\ \A k \in e.sharers :
          /\ Parent[k][l] = p
          /\ h.state[k][l] # "I"
          /\ Excl(h, k, l) <=> e.exclusive
    /\ e.exclusive => \A j, k \in e.sharers : j = k
    /\ \A k \in Caches \ e.sharers :
          Parent[k][l] = p /\ h.state[k][l] # "I" =>
              ~ e.exclusive /\ h.state[k][l] = "S" /\ Upgrading(h, p, l, k)

Directory(h) == \A p \in Inner, l \in Lines : Entry(h, p, l)

\* Inclusion, of one line in one cache.
Within(h, c, l) ==
    LET p == Parent[c][l] IN
    h.state[c][l] # "I" =>
        /\ l \in h.tags[c]
        /\ p # Mem => h.state[p][l] # "I"
        /\ p # Mem /\ Excl(h, c, l) => Excl(h, p, l)

Included(h) == \A c \in Caches, l \in Lines : Within(h, c, l)

OneProcess == \A k, j \in Leaves \cup Lines : Proc[k] = Proc[j]

\* The filter of a core that is not in an access, and of one whose line is
\* being invalidated.
Filtered(h) ==
    OneProcess =>
        /\ \A t \in Threads :
              /\ h.depth[t] = 0 /\ h.filter[t].rd # None =>
                     h.state[t][h.filter[t].rd] # "I"
              /\ h.depth[t] = 0 /\ h.filter[t].wr # None =>
                     h.state[t][h.filter[t].wr] = "M"
              /\ h.filter[t].wr \in {None, h.filter[t].rd}
        /\ \A t \in Threads : \A d \in 1 .. h.depth[t] :
              LET f == h.calls[t][d] IN
              f.pc = "inv" /\ f.c \in Leaves => h.filter[f.c].rd # f.line

Typed(h) ==
    /\ h.state \in [Caches -> [Lines -> MESI]]
    /\ h.tags \in [Caches -> SUBSET Lines]
    /\ h.dir \in [Inner -> [Lines -> [sharers : SUBSET Caches,
                                     exclusive : BOOLEAN]]]
    /\ h.bcc \in [Caches -> Threads \cup {None}]
    /\ h.tcc \in [Inner -> Threads \cup {None}]
    /\ h.flt \in [Leaves -> Threads \cup {None}]
    /\ h.filter \in [Leaves -> [rd : Lines \cup {None}, wr : Lines \cup {None}]]
    /\ h.depth \in [Threads -> Nat]
    /\ \A t \in Threads : \A d \in 1 .. h.depth[t] : h.calls[t][d] \in Frame
    /\ \A c \in Caches : IsFiniteSet(h.tags[c]) /\ Cardinality(h.tags[c]) <= Ways[c]

Sound(h) ==
    /\ Typed(h)
    /\ Locked(h)
    /\ Alone(h)
    /\ UpThenDown(h)
    /\ CallsSound(h)
    /\ Directory(h)
    /\ Included(h)
    /\ Filtered(h)

MESIInv == TypeOK /\ Sound(View)
-----------------------------------------------------------------------------
(* How the calls in progress change.                                       *)

\* The view has the variables as fields.
LEMMA ViewFields ==
    /\ View.state = state /\ View.tags = tags /\ View.dir = dir
    /\ View.bcc = bccLock /\ View.tcc = tccLock /\ View.flt = filterLock
    /\ View.filter = filter
    /\ \A t \in Threads :
          /\ View.depth[t] = Len(stack[t])
          /\ \A d \in 1 .. Len(stack[t]) :
                View.calls[t][d] = stack[t][Len(stack[t]) + 1 - d]
BY DEF View

\* The same after a step.
LEMMA ViewFieldsNext ==
    /\ View'.state = state' /\ View'.tags = tags' /\ View'.dir = dir'
    /\ View'.bcc = bccLock' /\ View'.tcc = tccLock' /\ View'.flt = filterLock'
    /\ View'.filter = filter'
    /\ \A t \in Threads :
          /\ View'.depth[t] = Len(stack'[t])
          /\ \A d \in 1 .. Len(stack'[t]) :
                View'.calls[t][d] = stack'[t][Len(stack'[t]) + 1 - d]
BY DEF View

\* A sequence with another head, and one without its head.
LEMMA NewHead ==
    ASSUME NEW S, NEW s \in Seq(S), s # << >>, NEW f \in S
    PROVE  /\ Len(s) \in Nat /\ Len(s) >= 1
           /\ <<f>> \o Tail(s) \in Seq(S)
           /\ Len(<<f>> \o Tail(s)) = Len(s)
           /\ (<<f>> \o Tail(s))[1] = f
           /\ \A i \in 2 .. Len(s) : (<<f>> \o Tail(s))[i] = s[i]
           /\ Tail(s) \in Seq(S)
           /\ Len(Tail(s)) = Len(s) - 1
           /\ \A i \in 1 .. Len(s) - 1 : Tail(s)[i] = s[i + 1]
OBVIOUS

\* A call f makes another one, e.
LEMMA NewHeads ==
    ASSUME NEW S, NEW s \in Seq(S), s # << >>, NEW f \in S, NEW e \in S
    PROVE  /\ <<e, f>> \o Tail(s) \in Seq(S)
           /\ Len(<<e, f>> \o Tail(s)) = Len(s) + 1
           /\ (<<e, f>> \o Tail(s))[1] = e
           /\ (<<e, f>> \o Tail(s))[2] = f
           /\ \A i \in 2 .. Len(s) : (<<e, f>> \o Tail(s))[i + 1] = s[i]
<1> DEFINE r == Tail(s)
<1>1. /\ r \in Seq(S) /\ Len(r) = Len(s) - 1 /\ Len(s) \in Nat /\ Len(s) >= 1
      /\ \A i \in 1 .. Len(s) - 1 : r[i] = s[i + 1]
  BY NewHead
<1> HIDE DEF r
<1>2. /\ <<e, f>> \o r \in Seq(S)
      /\ Len(<<e, f>> \o r) = Len(s) + 1
      /\ (<<e, f>> \o r)[1] = e
      /\ (<<e, f>> \o r)[2] = f
  BY <1>1
<1>3. \A i \in 2 .. Len(s) : (<<e, f>> \o r)[i + 1] = s[i]
  <2> TAKE i \in 2 .. Len(s)
  <2>1. (<<e, f>> \o r)[i + 1] = r[i - 1]
    BY <1>1
  <2>2. i - 1 \in 1 .. Len(s) - 1 /\ (i - 1) + 1 = i
    BY <1>1
  <2> QED
    BY <1>1, <2>1, <2>2
<1> QED
  BY <1>2, <1>3 DEF r

\* A call returns and its caller goes on as f.
LEMMA NextHead ==
    ASSUME NEW S, NEW s \in Seq(S), Len(s) >= 2, NEW f \in S
    PROVE  /\ <<f>> \o Tail(Tail(s)) \in Seq(S)
           /\ Len(<<f>> \o Tail(Tail(s))) = Len(s) - 1
           /\ (<<f>> \o Tail(Tail(s)))[1] = f
           /\ \A i \in 3 .. Len(s) : (<<f>> \o Tail(Tail(s)))[i - 1] = s[i]
<1> DEFINE r == Tail(s)
<1>1. /\ r \in Seq(S) /\ Len(r) = Len(s) - 1 /\ Len(s) \in Nat
      /\ \A i \in 1 .. Len(s) - 1 : r[i] = s[i + 1]
  BY NewHead
<1> HIDE DEF r
<1>2. r # << >>
  BY <1>1
<1>3. /\ <<f>> \o Tail(r) \in Seq(S)
      /\ Len(<<f>> \o Tail(r)) = Len(r)
      /\ (<<f>> \o Tail(r))[1] = f
      /\ \A i \in 2 .. Len(r) : (<<f>> \o Tail(r))[i] = r[i]
  BY <1>1, <1>2, NewHead
<1>4. \A i \in 3 .. Len(s) : (<<f>> \o Tail(r))[i - 1] = s[i]
  <2> TAKE i \in 3 .. Len(s)
  <2>1. i - 1 \in 2 .. Len(r) /\ i - 1 \in 1 .. Len(s) - 1 /\ (i - 1) + 1 = i
    BY <1>1
  <2> QED
    BY <1>1, <1>3, <2>1
<1> QED
  BY <1>1, <1>3, <1>4 DEF r

\* The calls of the other threads, and those of t below call m, stay.
Below(h, g, t, m) ==
    /\ \A u \in Threads \ {t} :
          g.depth[u] = h.depth[u] /\ g.calls[u] = h.calls[u]
    /\ \A d \in 1 .. m : g.calls[t][d] = h.calls[t][d]

StackType == stack \in [Threads -> Seq(Frame)]

\* The innermost call of t and the one that made it.
LEMMA Innermost ==
    ASSUME StackType, NEW t \in Threads, stack[t] # << >>
    PROVE  /\ View.depth[t] \in Nat /\ View.depth[t] >= 1
           /\ Top(t) = View.calls[t][View.depth[t]]
           /\ View.depth[t] >= 2 => Caller(t) = View.calls[t][View.depth[t] - 1]
           /\ Top(t) \in Frame
<1>1. stack[t] \in Seq(Frame) /\ Len(stack[t]) \in Nat /\ Len(stack[t]) >= 1
  BY DEF StackType
<1>2. Top(t) = stack[t][1] /\ stack[t][1] \in Frame
  BY <1>1 DEF Top
<1> DEFINE N == Len(stack[t])
<1>3. View.depth[t] = N /\ \A d \in 1 .. N : View.calls[t][d] = stack[t][N + 1 - d]
  BY ViewFields
<1>4. View.calls[t][N] = stack[t][1]
  BY <1>1, <1>3
<1>5. N >= 2 => View.calls[t][N - 1] = stack[t][2]
  BY <1>1, <1>3
<1> QED
  BY <1>1, <1>2, <1>3, <1>4, <1>5 DEF Caller
\* The innermost call goes on as f.
LEMMA AfterBecome ==
    ASSUME StackType, NEW t \in Threads, stack[t] # << >>,
           NEW f \in Frame, Become(t, f)
    PROVE  /\ StackType'
           /\ Below(View, View', t, View.depth[t] - 1)
           /\ View'.depth[t] = View.depth[t]
           /\ View'.calls[t][View.depth[t]] = f
<1> DEFINE s == stack[t]
           N == Len(stack[t])
<1>1. /\ s \in Seq(Frame) /\ s # << >>
      /\ stack' = [stack EXCEPT ![t] = <<f>> \o Tail(s)]
  BY DEF StackType, Become
<1>2. /\ N \in Nat /\ N >= 1 /\ <<f>> \o Tail(s) \in Seq(Frame)
      /\ Len(<<f>> \o Tail(s)) = N
      /\ (<<f>> \o Tail(s))[1] = f
      /\ \A i \in 2 .. N : (<<f>> \o Tail(s))[i] = s[i]
  BY <1>1, NewHead
<1>3. stack'[t] = <<f>> \o Tail(s) /\ \A u \in Threads \ {t} : stack'[u] = stack[u]
  BY <1>1 DEF StackType
<1>4. StackType'
  BY <1>1, <1>2 DEF StackType
<1>5. View.depth[t] = N /\ View'.depth[t] = N
  BY <1>2, <1>3, ViewFields, ViewFieldsNext
<1>6. /\ \A d \in 1 .. N : View.calls[t][d] = s[N + 1 - d]
      /\ \A d \in 1 .. N : View'.calls[t][d] = (<<f>> \o Tail(s))[N + 1 - d]
  <2>1. \A d \in 1 .. N : View.calls[t][d] = s[N + 1 - d]
    BY ViewFields
  <2>2. Len(stack'[t]) = N
    BY <1>2, <1>3
  <2>3. \A d \in 1 .. N : View'.calls[t][d] = stack'[t][N + 1 - d]
    BY <2>2, ViewFieldsNext
  <2> QED
    BY <1>3, <2>1, <2>3
<1>7. \A d \in 1 .. N - 1 : View'.calls[t][d] = View.calls[t][d]
  <2> TAKE d \in 1 .. N - 1
  <2>1. N + 1 - d \in 2 .. N /\ d \in 1 .. N
    BY <1>2
  <2> QED
    BY <1>2, <1>6, <2>1
<1>8. View'.calls[t][N] = f
  <2>1. N \in 1 .. N /\ N + 1 - N = 1
    BY <1>2
  <2> QED
    BY <1>2, <1>6, <2>1
<1>9. \A u \in Threads \ {t} :
          View'.depth[u] = View.depth[u] /\ View'.calls[u] = View.calls[u]
  BY <1>3 DEF View
<1> QED
  BY <1>4, <1>5, <1>7, <1>8, <1>9 DEF Below

\* The innermost call goes on as f and makes call e.
LEMMA AfterInvoke ==
    ASSUME StackType, NEW t \in Threads, stack[t] # << >>,
           NEW f \in Frame, NEW e \in Frame, Invoke(t, f, e)
    PROVE  /\ StackType'
           /\ Below(View, View', t, View.depth[t] - 1)
           /\ View'.depth[t] = View.depth[t] + 1
           /\ View'.calls[t][View.depth[t]] = f
           /\ View'.calls[t][View.depth[t] + 1] = e
<1> DEFINE s == stack[t]
           N == Len(stack[t])
           r == <<e, f>> \o Tail(s)
<1>1. /\ s \in Seq(Frame) /\ s # << >>
      /\ stack' = [stack EXCEPT ![t] = r]
  BY DEF StackType, Invoke
<1>2. /\ N \in Nat /\ N >= 1 /\ r \in Seq(Frame)
      /\ Len(r) = N + 1
      /\ r[1] = e /\ r[2] = f
      /\ \A i \in 2 .. N : r[i + 1] = s[i]
  BY <1>1, NewHead, NewHeads
<1>3. stack'[t] = r /\ \A u \in Threads \ {t} : stack'[u] = stack[u]
  BY <1>1 DEF StackType
<1> HIDE DEF r
<1>4. StackType'
  BY <1>1, <1>2 DEF StackType
<1>5. View.depth[t] = N /\ View'.depth[t] = N + 1
  BY <1>2, <1>3, ViewFields, ViewFieldsNext
<1>6. /\ \A d \in 1 .. N : View.calls[t][d] = s[N + 1 - d]
      /\ \A d \in 1 .. N + 1 : View'.calls[t][d] = r[N + 2 - d]
  <2>1. \A d \in 1 .. N + 1 : (N + 1) + 1 - d = N + 2 - d
    BY <1>2
  <2>2. \A d \in 1 .. N : View.calls[t][d] = s[N + 1 - d]
    BY ViewFields
  <2>3. Len(stack'[t]) = N + 1
    BY <1>2, <1>3
  <2>4. \A d \in 1 .. N + 1 : View'.calls[t][d] = stack'[t][(N + 1) + 1 - d]
    BY <2>3, ViewFieldsNext
  <2> QED
    BY <1>3, <2>1, <2>2, <2>4
<1>7. \A d \in 1 .. N - 1 : View'.calls[t][d] = View.calls[t][d]
  <2> TAKE d \in 1 .. N - 1
  <2>1. N + 1 - d \in 2 .. N /\ d \in 1 .. N /\ d \in 1 .. N + 1
        /\ N + 2 - d = (N + 1 - d) + 1
    BY <1>2
  <2> QED
    BY <1>2, <1>6, <2>1
<1>8. View'.calls[t][N] = f /\ View'.calls[t][N + 1] = e
  <2>1. N \in 1 .. N + 1 /\ N + 2 - N = 2 /\ N + 1 \in 1 .. N + 1
        /\ N + 2 - (N + 1) = 1
    BY <1>2
  <2> QED
    BY <1>2, <1>6, <2>1
<1>9. \A u \in Threads \ {t} :
          View'.depth[u] = View.depth[u] /\ View'.calls[u] = View.calls[u]
  BY <1>3 DEF View
<1> QED
  BY <1>4, <1>5, <1>7, <1>8, <1>9 DEF Below

\* The innermost call returns.
LEMMA AfterReturn ==
    ASSUME StackType, NEW t \in Threads, stack[t] # << >>, Return(t)
    PROVE  /\ StackType'
           /\ Below(View, View', t, View.depth[t] - 1)
           /\ View'.depth[t] = View.depth[t] - 1
<1> DEFINE s == stack[t]
           N == Len(stack[t])
           r == Tail(s)
<1>1. /\ s \in Seq(Frame) /\ s # << >>
      /\ stack' = [stack EXCEPT ![t] = r]
  BY DEF StackType, Return
<1>2. /\ N \in Nat /\ N >= 1 /\ r \in Seq(Frame)
      /\ Len(r) = N - 1
      /\ \A i \in 1 .. N - 1 : r[i] = s[i + 1]
  BY <1>1, NewHead
<1>3. stack'[t] = r /\ \A u \in Threads \ {t} : stack'[u] = stack[u]
  BY <1>1 DEF StackType
<1> HIDE DEF r
<1>4. StackType'
  BY <1>1, <1>2 DEF StackType
<1>5. View.depth[t] = N /\ View'.depth[t] = N - 1
  BY <1>2, <1>3, ViewFields, ViewFieldsNext
<1>6. /\ \A d \in 1 .. N : View.calls[t][d] = s[N + 1 - d]
      /\ \A d \in 1 .. N - 1 : View'.calls[t][d] = r[N - d]
  <2>1. \A d \in 1 .. N - 1 : (N - 1) + 1 - d = N - d
    BY <1>2
  <2>2. \A d \in 1 .. N : View.calls[t][d] = s[N + 1 - d]
    BY ViewFields
  <2>3. Len(stack'[t]) = N - 1
    BY <1>2, <1>3
  <2>4. \A d \in 1 .. N - 1 : View'.calls[t][d] = stack'[t][(N - 1) + 1 - d]
    BY <2>3, ViewFieldsNext
  <2> QED
    BY <1>3, <2>1, <2>2, <2>4
<1>7. \A d \in 1 .. N - 1 : View'.calls[t][d] = View.calls[t][d]
  <2> TAKE d \in 1 .. N - 1
  <2>1. N - d \in 1 .. N - 1 /\ d \in 1 .. N /\ N + 1 - d = (N - d) + 1
    BY <1>2
  <2> QED
    BY <1>2, <1>6, <2>1
<1>9. \A u \in Threads \ {t} :
          View'.depth[u] = View.depth[u] /\ View'.calls[u] = View.calls[u]
  BY <1>3 DEF View
<1> QED
  BY <1>4, <1>5, <1>7, <1>9 DEF Below

\* The innermost call returns, and its caller goes on as f.
LEMMA AfterFinish ==
    ASSUME StackType, NEW t \in Threads, View.depth[t] >= 2, NEW f \in Frame,
           stack' = [stack EXCEPT ![t] = <<f>> \o Tail(Tail(@))]
    PROVE  /\ StackType'
           /\ Below(View, View', t, View.depth[t] - 2)
           /\ View'.depth[t] = View.depth[t] - 1
           /\ View'.calls[t][View.depth[t] - 1] = f
<1> DEFINE s == stack[t]
           N == Len(s)
           r == <<f>> \o Tail(Tail(s))
<1>0. View.depth[t] = N /\ s \in Seq(Frame) /\ N \in Nat
  BY ViewFields DEF StackType
<1>1. /\ s # << >> /\ N >= 2
      /\ stack' = [stack EXCEPT ![t] = r]
  BY <1>0 DEF StackType
<1>2. /\ r \in Seq(Frame)
      /\ Len(r) = N - 1
      /\ r[1] = f
      /\ \A i \in 3 .. N : r[i - 1] = s[i]
  <2> HIDE DEF s
  <2>1. s \in Seq(Frame) /\ Len(s) >= 2
    BY <1>0, <1>1 DEF s
  <2> QED
    BY <2>1, NextHead
<1>3. stack'[t] = r /\ \A u \in Threads \ {t} : stack'[u] = stack[u]
  BY <1>1 DEF StackType
<1> HIDE DEF r
<1>4. StackType'
  BY <1>1, <1>2 DEF StackType
<1>5. View'.depth[t] = N - 1
  BY <1>2, <1>3, ViewFieldsNext
<1>6. /\ \A d \in 1 .. N : View.calls[t][d] = s[N + 1 - d]
      /\ \A d \in 1 .. N - 1 : View'.calls[t][d] = r[N - d]
  <2>1. \A d \in 1 .. N - 1 : (N - 1) + 1 - d = N - d
    BY <1>0
  <2>2. \A d \in 1 .. N : View.calls[t][d] = s[N + 1 - d]
    BY ViewFields
  <2>3. Len(stack'[t]) = N - 1
    BY <1>2, <1>3
  <2>4. \A d \in 1 .. N - 1 : View'.calls[t][d] = stack'[t][(N - 1) + 1 - d]
    BY <2>3, ViewFieldsNext
  <2> QED
    BY <1>3, <2>1, <2>2, <2>4
<1>7. \A d \in 1 .. N - 2 : View'.calls[t][d] = View.calls[t][d]
  <2> TAKE d \in 1 .. N - 2
  <2>1. N + 1 - d \in 3 .. N /\ d \in 1 .. N /\ d \in 1 .. N - 1
        /\ N - d = (N + 1 - d) - 1
    BY <1>0, <1>1
  <2> QED
    BY <1>2, <1>6, <2>1
<1>8. View'.calls[t][N - 1] = f
  <2>1. N - 1 \in 1 .. N - 1 /\ N - (N - 1) = 1
    BY <1>0, <1>1
  <2> QED
    BY <1>2, <1>6, <2>1
<1>9. \A u \in Threads \ {t} :
          View'.depth[u] = View.depth[u] /\ View'.calls[u] = View.calls[u]
  BY <1>3 DEF View
<1> QED
  BY <1>0, <1>4, <1>5, <1>7, <1>8, <1>9 DEF Below

\* A thread that is in no call makes call e.
LEMMA AfterFirst ==
    ASSUME StackType, NEW t \in Threads, stack[t] = << >>, NEW e \in Frame,
           stack' = [stack EXCEPT ![t] = <<e>>]
    PROVE  /\ StackType'
           /\ View.depth[t] = 0
           /\ Below(View, View', t, 0)
           /\ View'.depth[t] = 1
           /\ View'.calls[t][1] = e
<1>1. stack'[t] = <<e>> /\ \A u \in Threads \ {t} : stack'[u] = stack[u]
  BY DEF StackType
<1>2. StackType'
  BY DEF StackType
<1>3. View.depth[t] = 0 /\ View'.depth[t] = 1
  BY <1>1, ViewFields, ViewFieldsNext
<1>4. View'.calls[t][1] = e
  <2>1. 1 \in 1 .. Len(stack'[t]) /\ Len(stack'[t]) + 1 - 1 = 1 /\ stack'[t][1] = e
    BY <1>1
  <2> QED
    BY <2>1, ViewFieldsNext
<1>5. \A u \in Threads \ {t} :
          View'.depth[u] = View.depth[u] /\ View'.calls[u] = View.calls[u]
  BY <1>1 DEF View
<1> QED
  BY <1>2, <1>3, <1>4, <1>5 DEF Below
-----------------------------------------------------------------------------
(* What the calls of a view know, and when they still know it.             *)

\* Where a cache's parent is.
LEMMA ParentOf ==
    ASSUME NEW c \in Caches, NEW l \in Lines
    PROVE  /\ Parent[c][l] \in Inner \cup {Mem}
           /\ Parent[c][l] # c
           /\ Mem \notin Caches
           /\ Parent[c][l] # Mem <=> Parent[c][l] \in Inner
           /\ Inner \subseteq Caches
<1>1. /\ Parent[c][l] \in Inner \cup {Mem} /\ Mem \notin Caches
      /\ Inner \subseteq Caches
  BY HierarchyAssumption DEF Inner
<1>2. PICK depth \in [Caches -> 0 .. Cardinality(Caches)] :
          Parent[c][l] # Mem => depth[Parent[c][l]] < depth[c]
  BY TreeAssumption
<1>3. Cardinality(Caches) \in Nat
  BY TreeAssumption, FS_CardinalityType
<1>4. depth[c] \in 0 .. Cardinality(Caches)
  BY <1>2
<1>5. Parent[c][l] # c
  <2>1. depth[c] \in Nat
    BY <1>3, <1>4
  <2>2. ~ (depth[c] < depth[c])
    BY <2>1
  <2> QED
    BY <1>1, <1>2, <2>2
<1> QED
  BY <1>1, <1>5

\* The fields of a call.
LEMMA FrameFields ==
    ASSUME NEW f \in Frame
    PROVE  /\ f.c \in Caches /\ f.line \in Lines /\ f.init \in MESI
           /\ f.type \in {"GETS", "GETX", "PUTS", "PUTX", "INV", "INVX"}
           /\ f.pc \in {"tcc", "bcc", "lookup", "evict", "evput", "acc", "accret",
                        "top", "end", "ilock", "iflock", "inv"}
           /\ f.victim \in Lines \cup {None} /\ f.wb \in BOOLEAN
BY DEF Frame, Gets, Puts, Invs

\* Call d of u still knows what it knew if what it relies on has not changed.
LEMMA Keep ==
    ASSUME NEW h, NEW g, NEW u \in Threads, NEW d \in Nat,
           CallSound(h, u, d),
           NEW f \in Frame, f = h.calls[u][d], f = g.calls[u][d],
           d > 1 => g.calls[u][d - 1] = h.calls[u][d - 1],
           d = g.depth[u] => d = h.depth[u],
           Access(f) /\ f.pc # "tcc" => g.tags[f.c] = h.tags[f.c],
           \/ f.pc = "evict"
           \/ f.pc = "evput" /\ d = g.depth[u]
           => g.state[f.c][f.victim] = h.state[f.c][f.victim],
           \/ f.pc \in {"top", "inv", "end"}
           \/ f.pc = "accret" /\ d = g.depth[u]
           => g.state[f.c][f.line] = h.state[f.c][f.line],
           f.pc = "evput" /\ f.c \in Inner =>
               g.dir[f.c][f.victim].sharers \subseteq h.dir[f.c][f.victim].sharers,
           Access(f) /\ d > 1 =>
               LET ch == h.calls[u][d - 1].c
                   old == h.state[ch][f.line]
                   new == g.state[ch][f.line]
               IN  \/ new = old
                   \/ /\ f.pc # "end"
                      /\ f.type \in Gets \/ f.pc \in {"tcc", "bcc"}
                      /\ new = "I" \/ (new = "S" /\ old \in {"E", "M"}),
           f.type \in Invs /\ d > 1 =>
               LET p == h.calls[u][d - 1].c
               IN  g.dir[p][f.line] = h.dir[p][f.line]
    PROVE  CallSound(g, u, d)
<1> DEFINE last == d = h.depth[u]
           lastg == d = g.depth[u]
           up == h.calls[u][d - 1]
<1>1. /\ Shaped(h, u, d)
      /\ Own(h, f, last)
      /\ d > 1 => Linked(h, up, f)
      /\ d > 1 /\ Access(f) => Asked(h, f, up.c)
  BY DEF CallSound
<1>2. Shaped(g, u, d)
  <2>1. f.pc \in {"evict", "evput"} => f.victim \in h.tags[f.c]
    BY <1>1 DEF Shaped
  <2>2. f.pc \in {"evict", "evput"} => f.type \in Gets
    BY <1>1, FrameFields DEF Shaped, Gets, Puts, Invs
  <2>3. f.pc \in {"evict", "evput"} => f.victim \in g.tags[f.c]
    BY <2>1, <2>2 DEF Access
  <2> QED
    BY <1>1, <2>3 DEF Shaped
<1>3. Own(g, f, lastg)
  BY <1>1, FrameFields DEF Own, Excl, Access, Gets, Puts
<1>4. d > 1 => Linked(g, up, f)
  BY <1>1 DEF Linked
<1>5. d > 1 /\ Access(f) => Asked(g, f, up.c)
  <2> SUFFICES ASSUME d > 1, Access(f)
               PROVE  Asked(g, f, up.c)
    OBVIOUS
  <2> DEFINE old == h.state[up.c][f.line]
             new == g.state[up.c][f.line]
  <2>1. Asked(h, f, up.c)
    BY <1>1
  <2>2. \/ new = old
        \/ /\ f.pc # "end"
           /\ f.type \in Gets \/ f.pc \in {"tcc", "bcc"}
           /\ new = "I" \/ (new = "S" /\ old \in {"E", "M"})
    OBVIOUS
  <2>3. CASE f.type \in Gets
    BY <2>1, <2>2, <2>3 DEF Asked, Gets, Puts
  <2>4. CASE f.type \in Puts
    BY <2>1, <2>2, <2>4 DEF Asked, Gets, Puts
  <2> QED
    BY <2>3, <2>4 DEF Access
<1> QED
  BY <1>2, <1>3, <1>4, <1>5 DEF CallSound
\* An access that was sent by another one, and what that one holds.
LEMMA AccessSentBy ==
    ASSUME NEW h, Sound(h), NEW u \in Threads, NEW d \in 2 .. h.depth[u],
           Access(h.calls[u][d])
    PROVE  LET f == h.calls[u][d]
               up == h.calls[u][d - 1]
           IN  /\ d - 1 \in 1 .. h.depth[u]
               /\ f \in Frame /\ up \in Frame
               /\ up.pc \in {"accret", "evput"} /\ up.type \in Gets
               /\ InAccess(h, u, d - 1)
               /\ Parent[up.c][f.line] = f.c
               /\ f.c \in Inner
<1> DEFINE f == h.calls[u][d]
           up == h.calls[u][d - 1]
<1>1. /\ d \in Nat /\ d >= 2 /\ d \in 1 .. h.depth[u] /\ d - 1 \in 1 .. h.depth[u]
      /\ h.depth[u] \in Nat
  BY DEF Sound, Typed
<1>2. f \in Frame /\ up \in Frame
  BY <1>1 DEF Sound, Typed
<1>3. CallSound(h, u, d) /\ CallSound(h, u, d - 1)
  BY <1>1 DEF Sound, CallsSound
<1>4. Linked(h, up, f) /\ Shaped(h, u, d) /\ Shaped(h, u, d - 1)
  BY <1>1, <1>3 DEF CallSound
<1>5. Access(f)
  OBVIOUS
<1> HIDE DEF f, up
<1>6. up.pc \in {"accret", "evput"} /\ Parent[up.c][f.line] = f.c
  BY <1>4, <1>5 DEF Linked, Access, Gets, Puts, Invs
<1>7. up.type \in Gets
  <2>1. up.type \in Puts => up.pc \in {"tcc", "bcc", "lookup", "acc", "top", "end"}
    BY <1>4 DEF Shaped, up
  <2>2. up.type \in Invs => up.pc \in {"ilock", "iflock", "inv"}
    BY <1>4 DEF Shaped, up
  <2> QED
    BY <1>2, <1>6, <2>1, <2>2, FrameFields DEF Gets, Puts, Invs
<1>8. InAccess(h, u, d - 1)
  BY <1>6, <1>7 DEF InAccess, Access, up
<1>9. f.c \in Inner
  BY <1>2, <1>6, FrameFields, ParentOf
<1> QED
  BY <1>1, <1>2, <1>6, <1>7, <1>8, <1>9 DEF f, up

\* An invalidation that was sent by another call, and what that one holds.
LEMMA InvSentBy ==
    ASSUME NEW h, Sound(h), NEW u \in Threads, NEW d \in 2 .. h.depth[u],
           h.calls[u][d].type \in Invs
    PROVE  LET f == h.calls[u][d]
               up == h.calls[u][d - 1]
           IN  /\ d - 1 \in 1 .. h.depth[u]
               /\ f \in Frame /\ up \in Frame
               /\ up.pc \in {"evict", "top", "inv"}
               /\ HasBcc(h, u, d - 1)
               /\ up.c \in Inner
               /\ Parent[f.c][f.line] = up.c
               /\ f.c \in h.dir[up.c][f.line].sharers
               /\ h.state[f.c][f.line] # "I"
               /\ f.type = "INVX" => Excl(h, f.c, f.line)
<1> DEFINE f == h.calls[u][d]
           up == h.calls[u][d - 1]
<1>1. /\ d \in Nat /\ d >= 2 /\ d \in 1 .. h.depth[u] /\ d - 1 \in 1 .. h.depth[u]
      /\ h.depth[u] \in Nat
  BY DEF Sound, Typed
<1>2. f \in Frame /\ up \in Frame
  BY <1>1 DEF Sound, Typed
<1>3. CallSound(h, u, d)
  BY <1>1 DEF Sound, CallsSound
<1>4. Linked(h, up, f)
  BY <1>1, <1>3 DEF CallSound
<1>5. f.type \in Invs
  OBVIOUS
<1> HIDE DEF f, up
<1>6. /\ up.pc \in {"evict", "top", "inv"}
      /\ up.c \in Inner
      /\ f.c \in h.dir[up.c][f.line].sharers
      /\ f.type = "INVX" => h.dir[up.c][f.line].exclusive
  BY <1>4, <1>5 DEF Linked, Gets, Puts, Invs
<1>7. HasBcc(h, u, d - 1)
  BY <1>6 DEF HasBcc, up
<1>8. Entry(h, up.c, f.line)
  BY <1>2, <1>6, FrameFields DEF Sound, Directory
<1>9. /\ Parent[f.c][f.line] = up.c
      /\ h.state[f.c][f.line] # "I"
      /\ Excl(h, f.c, f.line) <=> h.dir[up.c][f.line].exclusive
  BY <1>6, <1>8 DEF Entry
<1> QED
  BY <1>1, <1>2, <1>6, <1>7, <1>9 DEF f, up

\* Thread t is in an access that is in cache k.
Busy(h, k, t) == (k \in Inner /\ h.tcc[k] = t) \/ k = t

\* What a step of t may change, given the locks it holds.
Effect(h, g, t) ==
    /\ \A k \in Caches : g.tags[k] = h.tags[k] \/ Busy(h, k, t)
    /\ \A p \in Inner, l \in Lines :
          \/ g.dir[p][l] = h.dir[p][l]
          \/ /\ h.bcc[p] = t
             /\ \/ h.tcc[p] = t
                \/ g.dir[p][l].sharers \subseteq h.dir[p][l].sharers
    /\ \A k \in Caches, l \in Lines :
          LET p == Parent[k][l]
              old == h.state[k][l]
              new == g.state[k][l]
          IN
          \/ new = old
          \/ /\ h.bcc[k] = t \/ (p \in Inner /\ h.bcc[p] = t)
             /\ \/ Busy(h, k, t)
                \/ /\ p \in Inner /\ h.bcc[p] = t /\ h.bcc[k] = t
                   /\ new = "I" \/ (new = "S" /\ old \in {"E", "M"})

\* What the calls of the other threads know is out of its reach.
LEMMA OthersKeep ==
    ASSUME NEW h, NEW g, NEW t \in Threads, NEW m, Sound(h), Below(h, g, t, m),
           Effect(h, g, t),
           NEW u \in Threads \ {t}, NEW d \in 1 .. g.depth[u]
    PROVE  CallSound(g, u, d)
<1> DEFINE f == h.calls[u][d]
           up == h.calls[u][d - 1]
<1>1. /\ g.depth[u] = h.depth[u] /\ g.calls[u] = h.calls[u]
      /\ d \in 1 .. h.depth[u] /\ d \in Nat
      /\ f \in Frame
  BY DEF Below, Sound, Typed
<1>2. /\ CallSound(h, u, d)
      /\ Shaped(h, u, d)
  BY <1>1 DEF Sound, CallsSound, CallSound
<1>3. /\ HasBcc(h, u, d) => h.bcc[f.c] = u
      /\ InAccess(h, u, d) => ~ Busy(h, f.c, t)
      /\ f.c \in Caches /\ f.line \in Lines
  <2>1. /\ HasBcc(h, u, d) => h.bcc[f.c] = u
        /\ InAccess(h, u, d) /\ f.c \in Inner => h.tcc[f.c] = u
    BY <1>1 DEF Sound, Locked
  <2>2. InAccess(h, u, d) /\ f.c \in Leaves => f.c = u
    BY <1>2 DEF Shaped, InAccess
  <2>3. f.c \in Caches /\ f.line \in Lines
    BY <1>1, FrameFields
  <2>4. f.c = t => f.c \in Leaves
    BY DEF Threads
  <2> QED
    BY <2>1, <2>2, <2>3, <2>4 DEF Busy, Inner
<1>4. Access(f) /\ f.pc # "tcc" => g.tags[f.c] = h.tags[f.c]
  BY <1>3 DEF Effect, InAccess
<1>5. ASSUME f.pc \in {"evict", "top", "end"} \/ (f.pc \in {"evput", "accret"} /\ d = g.depth[u]),
             NEW l \in Lines
      PROVE  g.state[f.c][l] = h.state[f.c][l]
  <2>1. Access(f) /\ HasBcc(h, u, d) /\ InAccess(h, u, d)
    BY <1>1, <1>2, <1>5, FrameFields
       DEF Shaped, Access, Gets, Puts, Invs, HasBcc, InAccess
  <2> QED
    BY <1>3, <2>1 DEF Effect
<1>6. f.pc = "inv" => g.state[f.c][f.line] = h.state[f.c][f.line]
  <2> SUFFICES ASSUME f.pc = "inv" PROVE g.state[f.c][f.line] = h.state[f.c][f.line]
    OBVIOUS
  <2>1. f.type \in Invs /\ HasBcc(h, u, d)
    BY <1>1, <1>2, FrameFields DEF Shaped, Gets, Puts, Invs, HasBcc
  <2>2. d \in 2 .. h.depth[u]
    BY <1>1, <1>2, <2>1 DEF Shaped, Gets, Invs
  <2>3. Parent[f.c][f.line] = up.c /\ HasBcc(h, u, d - 1) /\ d - 1 \in 1 .. h.depth[u]
    <3>1. u \in Threads /\ d \in 2 .. h.depth[u] /\ h.calls[u][d].type \in Invs
      BY <2>1, <2>2
    <3> HIDE DEF f, up
    <3>2. /\ Parent[h.calls[u][d].c][h.calls[u][d].line] = h.calls[u][d - 1].c
          /\ HasBcc(h, u, d - 1) /\ d - 1 \in 1 .. h.depth[u]
      BY <3>1, InvSentBy
    <3> QED
      BY <3>2 DEF f, up
  <2>4. h.bcc[up.c] = u
    BY <2>3 DEF Sound, Locked
  <2> QED
    BY <1>3, <2>1, <2>3, <2>4 DEF Effect
<1>7. f.pc \in {"evict", "evput"} => f.victim \in Lines
  <2>1. f.pc \in {"evict", "evput"} => f.victim \in h.tags[f.c]
    BY <1>2 DEF Shaped
  <2>2. h.tags[f.c] \subseteq Lines
    BY <1>3 DEF Sound, Typed
  <2> QED
    BY <2>1, <2>2
<1>8. f.pc = "evput" /\ f.c \in Inner =>
          g.dir[f.c][f.victim].sharers \subseteq h.dir[f.c][f.victim].sharers
  <2> SUFFICES ASSUME f.pc = "evput", f.c \in Inner
               PROVE  g.dir[f.c][f.victim].sharers \subseteq h.dir[f.c][f.victim].sharers
    OBVIOUS
  <2>1. InAccess(h, u, d)
    BY <1>1, <1>2, FrameFields DEF Shaped, Access, Gets, Puts, Invs, InAccess
  <2>2. h.tcc[f.c] # t
    BY <1>3, <2>1 DEF Busy
  <2> QED
    BY <1>7, <2>2 DEF Effect
<1>9. ASSUME Access(f), d > 1
      PROVE  LET old == h.state[up.c][f.line]
                 new == g.state[up.c][f.line]
             IN  \/ new = old
                 \/ /\ f.pc # "end"
                    /\ f.type \in Gets \/ f.pc \in {"tcc", "bcc"}
                    /\ new = "I" \/ (new = "S" /\ old \in {"E", "M"})
  <2>1. d \in 2 .. h.depth[u]
    BY <1>1, <1>9
  <2>2. /\ d - 1 \in 1 .. h.depth[u] /\ up \in Frame
        /\ InAccess(h, u, d - 1)
        /\ Parent[up.c][f.line] = f.c
        /\ f.c \in Inner
    <3>1. u \in Threads
      OBVIOUS
    <3> QED
      BY <1>9, <2>1, <3>1, AccessSentBy
  <2>3. ~ Busy(h, up.c, t) /\ up.c \in Caches
    <3>1. InAccess(h, u, d - 1) /\ up.c \in Inner => h.tcc[up.c] = u
      BY <2>2 DEF Sound, Locked
    <3>2. InAccess(h, u, d - 1) /\ up.c \in Leaves => up.c = u
      BY <2>2 DEF Shaped, InAccess, Sound, CallsSound, CallSound
    <3>3. up.c = t => up.c \in Leaves
      BY DEF Threads
    <3>4. up.c \in Caches
      BY <2>2, FrameFields
    <3> QED
      BY <2>2, <3>1, <3>2, <3>3, <3>4 DEF Busy, Inner
  <2> DEFINE old == h.state[up.c][f.line]
             new == g.state[up.c][f.line]
  <2>7. \/ new = old
        \/ /\ f.c \in Inner /\ h.bcc[f.c] = t
           /\ new = "I" \/ (new = "S" /\ old \in {"E", "M"})
    <3>1. f.line \in Lines /\ up.c \in Caches
      BY <1>3, <2>3
    <3>2. LET p == Parent[up.c][f.line] IN
          \/ new = old
          \/ /\ h.bcc[up.c] = t \/ (p \in Inner /\ h.bcc[p] = t)
             /\ \/ Busy(h, up.c, t)
                \/ /\ p \in Inner /\ h.bcc[p] = t /\ h.bcc[up.c] = t
                   /\ new = "I" \/ (new = "S" /\ old \in {"E", "M"})
      BY <3>1, Zenon DEF Effect
    <3> QED
      BY <2>2, <2>3, <3>2
  <2>4. CASE HasBcc(h, u, d)
    <3>1. h.bcc[f.c] # t
      BY <1>3, <2>4
    <3> QED
      BY <2>7, <3>1
  <2>5. CASE ~ HasBcc(h, u, d)
    <3>1. f.pc # "end" /\ (f.type \in Gets \/ f.pc \in {"tcc", "bcc"})
      BY <1>1, <1>2, <1>9, <2>5, FrameFields
         DEF Shaped, Access, Gets, Puts, Invs, HasBcc
    <3> QED
      BY <2>7, <3>1
  <2> QED
    BY <2>4, <2>5
<1>10. ASSUME f.type \in Invs, d > 1
       PROVE  g.dir[up.c][f.line] = h.dir[up.c][f.line]
  <2>1. d \in 2 .. h.depth[u]
    BY <1>1, <1>10
  <2>2. d - 1 \in 1 .. h.depth[u] /\ HasBcc(h, u, d - 1) /\ up.c \in Inner
    BY <1>10, <2>1, InvSentBy
  <2>3. h.bcc[up.c] # t
    BY <2>2 DEF Sound, Locked
  <2> QED
    BY <1>3, <2>2, <2>3 DEF Effect
<1> HIDE DEF f
<1>11. /\ f = h.calls[u][d] /\ f = g.calls[u][d] /\ f \in Frame /\ u \in Threads
       /\ g.calls[u][d - 1] = h.calls[u][d - 1]
       /\ d = g.depth[u] => d = h.depth[u]
  BY <1>1 DEF f
<1>12. \/ f.pc = "evict"
       \/ f.pc = "evput" /\ d = g.depth[u]
       => g.state[f.c][f.victim] = h.state[f.c][f.victim]
  BY <1>5, <1>7
<1>13. \/ f.pc \in {"top", "inv", "end"}
       \/ f.pc = "accret" /\ d = g.depth[u]
       => g.state[f.c][f.line] = h.state[f.c][f.line]
  BY <1>3, <1>5, <1>6
<1> QED
  <2>1. CallSound(h, u, d) /\ d \in Nat
    BY <1>1, <1>2
  <2> QED
    BY <1>4, <1>8, <1>9, <1>10, <1>11, <1>12, <1>13, <2>1, Keep
\* A call that waits for another one.
LEMMA Waiting ==
    ASSUME NEW h, Sound(h), NEW u \in Threads, NEW d \in 1 .. h.depth[u] - 1
    PROVE  LET f == h.calls[u][d]
           IN  /\ d \in 1 .. h.depth[u] /\ d + 1 \in 2 .. h.depth[u] /\ f \in Frame
               /\ \/ /\ f.type \in Gets /\ Access(f)
                     /\ f.pc \in {"accret", "evput", "evict", "top"}
                     /\ InAccess(h, u, d)
                  \/ /\ f.type \in Invs /\ f.pc = "inv"
                     /\ HasBcc(h, u, d) /\ ~ Access(f)
<1> DEFINE f == h.calls[u][d]
           e == h.calls[u][d + 1]
<1>1. /\ d \in Nat /\ d >= 1 /\ d \in 1 .. h.depth[u] /\ d + 1 \in 1 .. h.depth[u]
      /\ h.depth[u] \in Nat /\ (d + 1) - 1 = d /\ d + 1 > 1
      /\ d + 1 \in 2 .. h.depth[u]
  <2>1. h.depth[u] \in Nat
    BY DEF Sound, Typed
  <2> QED
    BY <2>1
<1>2. f \in Frame /\ e \in Frame
  <2>1. \A j \in 1 .. h.depth[u] : h.calls[u][j] \in Frame
    BY DEF Sound, Typed
  <2> QED
    BY <1>1, <2>1
<1>3. CallSound(h, u, d) /\ CallSound(h, u, d + 1)
  BY <1>1 DEF Sound, CallsSound
<1>4. Shaped(h, u, d)
  BY <1>3 DEF CallSound
<1>5. Linked(h, f, e)
  BY <1>1, <1>3 DEF CallSound
<1> HIDE DEF f, e
<1>6. f.pc \in {"accret", "evput", "evict", "top", "inv"}
  BY <1>5 DEF Linked
<1>7. /\ f.type \in Puts => f.pc \in {"tcc", "bcc", "lookup", "acc", "top", "end"}
      /\ f.type \in Invs => f.pc \in {"ilock", "iflock", "inv"}
      /\ f.type \in Gets => f.pc # "inv"
  BY <1>4 DEF Shaped, f
<1>8. f.type \notin Puts
  <2> SUFFICES ASSUME f.type \in Puts PROVE FALSE
    OBVIOUS
  <2>1. f.pc = "top"
    BY <1>6, <1>7
  <2> QED
    BY <1>5, <2>1 DEF Linked, Gets, Puts, Invs
<1>9. CASE f.type \in Gets
  <2>1. Access(f) /\ f.pc \in {"accret", "evput", "evict", "top"}
    BY <1>6, <1>7, <1>9 DEF Access
  <2>2. InAccess(h, u, d)
    BY <2>1 DEF InAccess, f
  <2> QED
    BY <1>1, <1>2, <1>9, <2>1, <2>2 DEF f
<1>10. CASE f.type \in Invs
  <2>1. ~ Access(f) /\ f.pc = "inv"
    BY <1>6, <1>7, <1>10 DEF Access, Gets, Puts, Invs
  <2>2. HasBcc(h, u, d)
    BY <2>1 DEF HasBcc, f
  <2> QED
    BY <1>1, <1>2, <1>10, <2>1, <2>2 DEF f
<1> QED
  BY <1>2, <1>8, <1>9, <1>10, FrameFields DEF Gets, Puts, Invs

\* The calls up to m are what they were but for what they learn.
Alike(h, g, t, m) ==
    /\ \A u \in Threads \ {t} :
          g.depth[u] = h.depth[u] /\ g.calls[u] = h.calls[u]
    /\ \A d \in 1 .. m :
          LET f == h.calls[t][d]
              e == g.calls[t][d]
          IN  /\ e.c = f.c /\ e.type = f.type /\ e.pc = f.pc
              /\ e.line = f.line /\ e.victim = f.victim

\* Unchanged calls are alike.
LEMMA BelowAlike ==
    ASSUME NEW h, NEW g, NEW t, NEW m, Below(h, g, t, m)
    PROVE  Alike(h, g, t, m)
BY DEF Below, Alike

\* What the innermost call of t, number n in cache c, does to the locks.
Locking(h, g, t, n) ==
    LET c == h.calls[t][n].c IN
    /\ \A k \in Caches :
          \/ g.bcc[k] = h.bcc[k]
          \/ h.bcc[k] = None /\ g.bcc[k] = t
          \/ k = c /\ HasBcc(h, t, n) /\ g.bcc[k] = None
    /\ \A k \in Inner :
          \/ g.tcc[k] = h.tcc[k]
          \/ h.tcc[k] = None /\ g.tcc[k] = t
          \/ k = c /\ InAccess(h, t, n) /\ g.tcc[k] = None
    /\ \A k \in Leaves :
          \/ g.flt[k] = h.flt[k]
          \/ h.flt[k] = None /\ g.flt[k] = t
          \/ k = c /\ HasBcc(h, t, n) /\ g.flt[k] = None /\ h.calls[t][n].pc = "inv"
    /\ \A d \in 1 .. g.depth[t] :
          d >= n \/ d = g.depth[t] =>
              LET k == g.calls[t][d].c IN
              /\ HasBcc(g, t, d) =>
                    /\ g.bcc[k] = t
                    /\ \/ d <= n /\ k = h.calls[t][d].c /\ HasBcc(h, t, d)
                       \/ d = g.depth[t] /\ h.bcc[k] = None
              /\ InAccess(g, t, d) /\ k \in Inner =>
                    /\ g.tcc[k] = t
                    /\ \/ d <= n /\ k = h.calls[t][d].c /\ InAccess(h, t, d)
                       \/ d = g.depth[t] /\ h.tcc[k] = None
              /\ g.calls[t][d].pc = "inv" /\ k \in Leaves => g.flt[k] = t

\* Locks stay with one call each.
LEMMA LocksKept ==
    ASSUME NEW h, NEW g, NEW t \in Threads, NEW n \in Nat, Sound(h),
           n = h.depth[t], n >= 1, g.depth[t] \in Nat, g.depth[t] <= n + 1,
           Alike(h, g, t, n - 1), Locking(h, g, t, n), Typed(g), CallsSound(g)
    PROVE  Locked(g) /\ Alone(g)
<1> DEFINE c == h.calls[t][n].c
           N == g.depth[t]
           K(d) == g.calls[t][d].c
<1>1. Locked(h) /\ Alone(h) /\ n \in 1 .. h.depth[t]
  BY DEF Sound
<1>2. t # None /\ \A u \in Threads : u # None
  BY HierarchyAssumption DEF Threads
<1>3. \A k \in Leaves : k \in Caches /\ k \notin Inner
  BY HierarchyAssumption DEF Inner
<1>4. ASSUME NEW d \in 1 .. N, d < n, d < N
      PROVE  /\ d \in 1 .. h.depth[t] /\ d # n /\ d \in 1 .. n - 1
             /\ K(d) = h.calls[t][d].c
             /\ HasBcc(g, t, d) <=> HasBcc(h, t, d)
             /\ InAccess(g, t, d) <=> InAccess(h, t, d)
             /\ g.calls[t][d].pc = h.calls[t][d].pc
  <2>1. d \in 1 .. h.depth[t] /\ d # n /\ d \in 1 .. n - 1
        /\ d # N /\ d # h.depth[t]
    BY <1>4
  <2> QED
    BY <2>1 DEF Alike, HasBcc, InAccess, Access
<1>5. ASSUME NEW d \in 1 .. N, HasBcc(g, t, d)
      PROVE  /\ g.bcc[K(d)] = t
             /\ \/ d \in 1 .. h.depth[t] /\ HasBcc(h, t, d) /\ K(d) = h.calls[t][d].c
                \/ d = N /\ h.bcc[K(d)] = None
  <2>1. CASE d >= n \/ d = N
    BY <1>1, <1>5, <2>1 DEF Locking
  <2>2. CASE ~ (d >= n \/ d = N)
    <3>1. /\ d \in 1 .. h.depth[t] /\ d # n
          /\ K(d) = h.calls[t][d].c /\ HasBcc(h, t, d)
      BY <1>4, <1>5, <2>2
    <3>2. h.bcc[K(d)] = t
      BY <1>1, <3>1 DEF Locked
    <3>3. K(d) = c => ~ HasBcc(h, t, n)
      BY <1>1, <3>1 DEF Alone
    <3>4. K(d) \in Caches
      BY <3>1, FrameFields DEF Sound, Typed
    <3> QED
      BY <1>2, <3>1, <3>2, <3>3, <3>4 DEF Locking
  <2> QED
    BY <2>1, <2>2
<1>6. ASSUME NEW d \in 1 .. N, InAccess(g, t, d), K(d) \in Inner
      PROVE  /\ g.tcc[K(d)] = t
             /\ \/ d \in 1 .. h.depth[t] /\ InAccess(h, t, d) /\ K(d) = h.calls[t][d].c
                \/ d = N /\ h.tcc[K(d)] = None
  <2>1. CASE d >= n \/ d = N
    BY <1>1, <1>6, <2>1 DEF Locking
  <2>2. CASE ~ (d >= n \/ d = N)
    <3>1. /\ d \in 1 .. h.depth[t] /\ d # n
          /\ K(d) = h.calls[t][d].c /\ InAccess(h, t, d)
      BY <1>4, <1>6, <2>2
    <3>2. h.tcc[K(d)] = t
      BY <1>1, <1>6, <3>1 DEF Locked
    <3>3. K(d) = c => ~ InAccess(h, t, n)
      BY <1>1, <3>1 DEF Alone
    <3> QED
      BY <1>2, <1>6, <3>1, <3>2, <3>3 DEF Locking
  <2> QED
    BY <2>1, <2>2
<1>7. ASSUME NEW d \in 1 .. N, g.calls[t][d].pc = "inv", K(d) \in Leaves
      PROVE  g.flt[K(d)] = t
  <2>1. CASE d >= n \/ d = N
    BY <1>7, <2>1 DEF Locking
  <2>2. CASE ~ (d >= n \/ d = N)
    <3>1. /\ d \in 1 .. h.depth[t] /\ d # n
          /\ K(d) = h.calls[t][d].c /\ h.calls[t][d].pc = "inv"
      BY <1>4, <1>7, <2>2
    <3>2. h.flt[K(d)] = t
      BY <1>1, <1>7, <3>1 DEF Locked
    <3>3. K(d) = c => ~ HasBcc(h, t, n)
      BY <1>1, <3>1 DEF Alone, HasBcc
    <3> QED
      BY <1>2, <1>7, <3>1, <3>2, <3>3 DEF Locking
  <2> QED
    BY <2>1, <2>2
<1>8. ASSUME NEW u \in Threads \ {t}, NEW d \in 1 .. g.depth[u]
      PROVE  LET f == g.calls[u][d] IN
             /\ HasBcc(g, u, d) => g.bcc[f.c] = u
             /\ InAccess(g, u, d) /\ f.c \in Inner => g.tcc[f.c] = u
             /\ f.pc = "inv" /\ f.c \in Leaves => g.flt[f.c] = u
  <2> DEFINE f == h.calls[u][d]
  <2>1. /\ d \in 1 .. h.depth[u] /\ f = g.calls[u][d] /\ f \in Frame
        /\ HasBcc(g, u, d) <=> HasBcc(h, u, d)
        /\ InAccess(g, u, d) <=> InAccess(h, u, d)
    BY DEF Alike, HasBcc, InAccess, Access, Sound, Typed
  <2>2. /\ HasBcc(h, u, d) => h.bcc[f.c] = u
        /\ InAccess(h, u, d) /\ f.c \in Inner => h.tcc[f.c] = u
        /\ f.pc = "inv" /\ f.c \in Leaves => h.flt[f.c] = u
    BY <1>1, <2>1 DEF Locked
  <2>3. /\ HasBcc(h, t, n) => h.bcc[c] = t
        /\ InAccess(h, t, n) /\ c \in Inner => h.tcc[c] = t
        /\ h.calls[t][n].pc = "inv" /\ c \in Leaves => h.flt[c] = t
    BY <1>1 DEF Locked
  <2>4. f.c \in Caches
    BY <2>1, FrameFields
  <2> HIDE DEF f, c
  <2>5. HasBcc(h, u, d) => g.bcc[f.c] = u
    BY <1>2, <2>2, <2>3, <2>4 DEF Locking, c
  <2>6. InAccess(h, u, d) /\ f.c \in Inner => g.tcc[f.c] = u
    BY <1>2, <2>2, <2>3, <2>4 DEF Locking, c
  <2>7. f.pc = "inv" /\ f.c \in Leaves => g.flt[f.c] = u
    BY <1>2, <2>2, <2>3, <2>4 DEF Locking, c
  <2> QED
    BY <2>1, <2>5, <2>6, <2>7
<1>9. Locked(g)
  BY <1>5, <1>6, <1>7, <1>8 DEF Locked
<1>10. ASSUME NEW d \in 1 .. N, NEW e \in 1 .. N, K(d) = K(e),
              HasBcc(g, t, d), HasBcc(g, t, e)
       PROVE  d = e
  <2>1. \A j \in 1 .. h.depth[t] :
            HasBcc(h, t, j) => h.bcc[h.calls[t][j].c] # None
    BY <1>1, <1>2 DEF Locked
  <2> QED
    BY <1>1, <1>5, <1>10, <2>1 DEF Alone
<1>11. ASSUME NEW d \in 1 .. N, NEW e \in 1 .. N, K(d) = K(e),
              InAccess(g, t, d), InAccess(g, t, e)
       PROVE  d = e
  <2>1. \A j \in 1 .. h.depth[t] :
            InAccess(h, t, j) /\ h.calls[t][j].c \in Inner =>
                h.tcc[h.calls[t][j].c] # None
    BY <1>1, <1>2 DEF Locked
  <2>2. CASE K(d) \in Inner
    BY <1>1, <1>6, <1>11, <2>1, <2>2 DEF Alone
  <2>3. CASE K(d) \notin Inner
    <3>1. \A j \in 1 .. N : Shaped(g, t, j)
      BY DEF CallsSound, CallSound
    <3>2. \A j \in 1 .. N : InAccess(g, t, j) /\ K(j) \notin Inner => j = 1
      <4> TAKE j \in 1 .. N
      <4> HAVE InAccess(g, t, j) /\ K(j) \notin Inner
      <4>1. Access(g.calls[t][j])
        BY DEF InAccess
      <4>2. K(j) \in Caches
        BY FrameFields DEF Typed
      <4> QED
        BY <3>1, <4>1, <4>2 DEF Shaped, Inner
    <3> QED
      BY <1>11, <2>3, <3>2
  <2> QED
    BY <2>2, <2>3
<1>12. ASSUME NEW u \in Threads \ {t}, NEW d \in 1 .. g.depth[u], NEW e \in 1 .. g.depth[u],
              g.calls[u][d].c = g.calls[u][e].c,
              \/ HasBcc(g, u, d) /\ HasBcc(g, u, e)
              \/ InAccess(g, u, d) /\ InAccess(g, u, e)
       PROVE  d = e
  BY <1>1, <1>12 DEF Alike, Alone, HasBcc, InAccess
<1> QED
  BY <1>9, <1>10, <1>11, <1>12 DEF Alone
\* What the step of the innermost call of t, number n in cache c, changes: the
\* line ids of c; the states of c, or only downwards and for its line if it
\* invalidates; the state of the line it asks for in the cache that asked; the
\* directory of c, or what it takes off that of the cache that invalidates.
Reach(h, g, t, n) ==
    LET f == h.calls[t][n]
        up == h.calls[t][n - 1]
    IN
    /\ \A k \in Caches :
          g.tags[k] = h.tags[k] \/ (k = f.c /\ InAccess(h, t, n))
    /\ \A k \in Caches, l \in Lines :
          LET old == h.state[k][l]
              new == g.state[k][l]
          IN
          \/ new = old
          \/ k = f.c /\ HasBcc(h, t, n) /\ InAccess(h, t, n)
          \/ /\ k = f.c /\ l = f.line /\ n > 1 /\ f.type \in Invs /\ f.pc = "inv"
             /\ new = "I" \/ (new = "S" /\ old \in {"E", "M"})
          \/ /\ n > 1 /\ k = up.c /\ l = f.line /\ f.pc = "top" /\ Access(f)
             /\ g.depth[t] = n
    /\ \A p \in Inner, l \in Lines :
          \/ g.dir[p][l] = h.dir[p][l]
          \/ p = f.c /\ HasBcc(h, t, n) /\ InAccess(h, t, n)
          \/ /\ n > 1 /\ p = up.c /\ f.type \in Invs
             /\ g.dir[p][l].sharers \subseteq h.dir[p][l].sharers

\* The innermost call of t.
LEMMA Inmost ==
    ASSUME NEW h, Sound(h), NEW t \in Threads, h.depth[t] >= 1
    PROVE  LET n == h.depth[t]
               f == h.calls[t][n]
           IN  /\ n \in Nat /\ n \in 1 .. h.depth[t]
               /\ f \in Frame /\ CallSound(h, t, n) /\ Shaped(h, t, n) /\ Own(h, f, TRUE)
               /\ HasBcc(h, t, n) => h.bcc[f.c] = t
               /\ InAccess(h, t, n) /\ f.c \in Inner => h.tcc[f.c] = t
               /\ InAccess(h, t, n) => Busy(h, f.c, t)
               /\ f.pc = "inv" /\ f.c \in Leaves => h.flt[f.c] = t
<1> DEFINE n == h.depth[t]
           f == h.calls[t][n]
<1>1. n \in Nat
  BY DEF Sound, Typed
<1>2. n \in 1 .. h.depth[t]
  BY <1>1
<1>3. f \in Frame
  BY <1>2 DEF Sound, Typed
<1>4. CallSound(h, t, n)
  BY <1>2 DEF Sound, CallsSound
<1>5. Shaped(h, t, n) /\ Own(h, f, TRUE)
  BY <1>4 DEF CallSound
<1>6. /\ HasBcc(h, t, n) => h.bcc[f.c] = t
      /\ InAccess(h, t, n) /\ f.c \in Inner => h.tcc[f.c] = t
      /\ f.pc = "inv" /\ f.c \in Leaves => h.flt[f.c] = t
  BY <1>2 DEF Sound, Locked
<1>7. InAccess(h, t, n) => Busy(h, f.c, t)
  <2>1. f.c \in Caches
    BY <1>3, FrameFields
  <2>2. InAccess(h, t, n) /\ f.c \in Leaves => f.c = t
    BY <1>5 DEF Shaped, InAccess
  <2> QED
    BY <1>6, <2>1, <2>2 DEF Busy, Inner
<1> QED
  BY <1>1, <1>2, <1>3, <1>4, <1>5, <1>6, <1>7

\* It is within what the locks of t protect.
LEMMA ReachEffect ==
    ASSUME NEW h, NEW g, NEW t \in Threads, Sound(h), h.depth[t] >= 1,
           Reach(h, g, t, h.depth[t])
    PROVE  Effect(h, g, t)
<1> DEFINE n == h.depth[t]
           f == h.calls[t][n]
           up == h.calls[t][n - 1]
<1>1. /\ n \in Nat /\ n \in 1 .. h.depth[t] /\ f \in Frame /\ Shaped(h, t, n)
      /\ HasBcc(h, t, n) => h.bcc[f.c] = t
      /\ InAccess(h, t, n) /\ f.c \in Inner => h.tcc[f.c] = t
      /\ InAccess(h, t, n) => Busy(h, f.c, t)
  BY Inmost
<1>2. f.c \in Caches /\ f.line \in Lines
  BY <1>1, FrameFields
<1>3. ASSUME n > 1, Access(f)
      PROVE  /\ Parent[up.c][f.line] = f.c /\ f.c \in Inner
             /\ Busy(h, up.c, t)
  <2>1. n \in 2 .. h.depth[t]
    BY <1>1, <1>3
  <2>2. /\ InAccess(h, t, n - 1) /\ Parent[up.c][f.line] = f.c /\ f.c \in Inner
        /\ n - 1 \in 1 .. h.depth[t] /\ up \in Frame
    BY <1>3, <2>1, AccessSentBy
  <2>3. up.c \in Caches
    BY <2>2, FrameFields
  <2>4. up.c \in Inner => h.tcc[up.c] = t
    BY <2>2 DEF Sound, Locked
  <2>5. up.c \in Leaves => up.c = t
    <3>1. Shaped(h, t, n - 1)
      BY <2>2 DEF Sound, CallsSound, CallSound
    <3> QED
      BY <2>2, <3>1 DEF Shaped, InAccess
  <2> QED
    BY <2>2, <2>3, <2>4, <2>5 DEF Busy, Inner
<1>4. ASSUME n > 1, f.type \in Invs
      PROVE  /\ up.c \in Inner /\ Parent[f.c][f.line] = up.c
             /\ h.bcc[up.c] = t
  <2>1. n \in 2 .. h.depth[t]
    BY <1>1, <1>4
  <2>2. /\ HasBcc(h, t, n - 1) /\ Parent[f.c][f.line] = up.c /\ up.c \in Inner
        /\ n - 1 \in 1 .. h.depth[t]
    BY <1>4, <2>1, InvSentBy
  <2> QED
    BY <2>2 DEF Sound, Locked
<1>5. f.pc = "top" \/ f.pc = "inv" => HasBcc(h, t, n)
  BY DEF HasBcc
<1> HIDE DEF f, up
<1>6. \A k \in Caches : g.tags[k] = h.tags[k] \/ Busy(h, k, t)
  BY <1>1 DEF Reach, f
<1>7. ASSUME NEW p \in Inner, NEW l \in Lines
      PROVE  \/ g.dir[p][l] = h.dir[p][l]
             \/ /\ h.bcc[p] = t
                /\ \/ h.tcc[p] = t
                   \/ g.dir[p][l].sharers \subseteq h.dir[p][l].sharers
  <2>1. \/ g.dir[p][l] = h.dir[p][l]
        \/ p = f.c /\ HasBcc(h, t, n) /\ InAccess(h, t, n)
        \/ /\ n > 1 /\ p = up.c /\ f.type \in Invs
           /\ g.dir[p][l].sharers \subseteq h.dir[p][l].sharers
    BY DEF Reach, f, up
  <2> QED
    BY <1>1, <1>4, <2>1
<1>8. ASSUME NEW k \in Caches, NEW l \in Lines
      PROVE  LET p == Parent[k][l]
                 old == h.state[k][l]
                 new == g.state[k][l]
             IN
             \/ new = old
             \/ /\ h.bcc[k] = t \/ (p \in Inner /\ h.bcc[p] = t)
                /\ \/ Busy(h, k, t)
                   \/ /\ p \in Inner /\ h.bcc[p] = t /\ h.bcc[k] = t
                      /\ new = "I" \/ (new = "S" /\ old \in {"E", "M"})
  <2> DEFINE old == h.state[k][l]
             new == g.state[k][l]
  <2>1. \/ new = old
        \/ k = f.c /\ HasBcc(h, t, n) /\ InAccess(h, t, n)
        \/ /\ k = f.c /\ l = f.line /\ n > 1 /\ f.type \in Invs /\ f.pc = "inv"
           /\ new = "I" \/ (new = "S" /\ old \in {"E", "M"})
        \/ /\ n > 1 /\ k = up.c /\ l = f.line /\ f.pc = "top" /\ Access(f)
    BY DEF Reach, f, up
  <2> QED
    BY <1>1, <1>3, <1>4, <1>5, <2>1
<1> QED
  BY <1>6, <1>7, <1>8 DEF Effect
\* The calls below the innermost one of t keep what they know.
LEMMA LowerKeep ==
    ASSUME NEW h, NEW g, NEW t \in Threads, NEW m \in Nat, Sound(h), h.depth[t] >= 1,
           Below(h, g, t, m), Reach(h, g, t, h.depth[t]), g.depth[t] \in Nat,
           NEW d \in 1 .. m, d < h.depth[t], d < g.depth[t]
    PROVE  CallSound(g, t, d)
<1> DEFINE n == h.depth[t]
           F == h.calls[t][n]
           UP == h.calls[t][n - 1]
           f == h.calls[t][d]
           up == h.calls[t][d - 1]
<1>1. /\ n \in Nat /\ n \in 1 .. h.depth[t] /\ F \in Frame /\ Shaped(h, t, n)
      /\ n > 1
  <2>1. n \in Nat /\ n \in 1 .. h.depth[t] /\ F \in Frame /\ Shaped(h, t, n)
    BY Inmost
  <2> QED
    BY <2>1
<1>2. /\ d \in Nat /\ d >= 1 /\ d \in 1 .. n - 1 /\ d \in 1 .. n
      /\ d > 1 => d - 1 \in 1 .. n /\ d - 1 \in 1 .. m /\ d - 1 # n
  BY <1>1
<1>3. /\ f \in Frame
      /\ \/ /\ f.type \in Gets /\ Access(f)
            /\ f.pc \in {"accret", "evput", "evict", "top"}
            /\ InAccess(h, t, d)
         \/ /\ f.type \in Invs /\ f.pc = "inv"
            /\ HasBcc(h, t, d) /\ ~ Access(f)
  BY <1>2, Waiting
<1>4. CallSound(h, t, d) /\ Shaped(h, t, d)
  BY <1>2 DEF Sound, CallsSound, CallSound
<1>5. g.calls[t][d] = f /\ (d > 1 => g.calls[t][d - 1] = up)
  BY <1>2 DEF Below
<1>6. Alone(h) /\ f.c \in Caches /\ f.line \in Lines
  BY <1>3, FrameFields DEF Sound
<1>7. /\ InAccess(h, t, d) /\ InAccess(h, t, n) => f.c # F.c
      /\ HasBcc(h, t, d) /\ HasBcc(h, t, n) => f.c # F.c
      /\ InAccess(h, t, d) /\ InAccess(h, t, n - 1) /\ d # n - 1 => f.c # UP.c
      /\ HasBcc(h, t, d) /\ HasBcc(h, t, n - 1) /\ d # n - 1 => f.c # UP.c
      /\ d > 1 /\ HasBcc(h, t, d - 1) /\ HasBcc(h, t, n) => up.c # F.c
      /\ d > 1 /\ HasBcc(h, t, d - 1) /\ HasBcc(h, t, n - 1) => up.c # UP.c
      /\ d > 1 /\ InAccess(h, t, d - 1) /\ InAccess(h, t, n) => up.c # F.c
      /\ d > 1 /\ InAccess(h, t, d - 1) /\ InAccess(h, t, n - 1) => up.c # UP.c
  <2>1. n - 1 \in 1 .. h.depth[t] /\ n - 1 # n /\ d # n
    BY <1>1, <1>2
  <2>2. d > 1 => d - 1 # n - 1 /\ d - 1 # n
    BY <1>1, <1>2
  <2> QED
    BY <1>1, <1>2, <1>6, <2>1, <2>2 DEF Alone
<1>8. Access(F) => InAccess(h, t, n - 1) /\ UP.type \in Gets
  <2>1. n \in 2 .. h.depth[t]
    BY <1>1
  <2> QED
    BY <2>1, AccessSentBy
<1>9. F.type \in Invs => HasBcc(h, t, n - 1)
  <2>1. n \in 2 .. h.depth[t]
    BY <1>1
  <2> QED
    BY <2>1, InvSentBy
<1>10. Access(F) => Access(f)
  BY <1>1, <1>2 DEF Sound, UpThenDown
<1>11. F.pc \in {"top", "inv"} => HasBcc(h, t, n)
  BY DEF HasBcc
<1>12. Access(f) /\ f.pc # "tcc" => g.tags[f.c] = h.tags[f.c]
  BY <1>3, <1>6, <1>7 DEF Reach
<1>13. ASSUME f.pc \in {"evict", "top", "inv"}, NEW l \in Lines
       PROVE  g.state[f.c][l] = h.state[f.c][l]
  <2>1. HasBcc(h, t, d)
    BY <1>13 DEF HasBcc
  <2>2. f.pc # "inv" => InAccess(h, t, d)
    BY <1>3, <1>13 DEF InAccess
  <2>3. \/ g.state[f.c][l] = h.state[f.c][l]
        \/ f.c = F.c /\ HasBcc(h, t, n)
        \/ /\ n > 1 /\ f.c = UP.c /\ F.pc = "top" /\ Access(F) /\ l = F.line
    BY <1>6, <1>11 DEF Reach
  <2>4. ASSUME f.c = UP.c, F.pc = "top", Access(F)
        PROVE  FALSE
    <3>1. InAccess(h, t, d)
      BY <1>3, <1>10, <2>4
    <3>2. d = n - 1
      BY <1>7, <1>8, <2>4, <3>1
    <3>3. n \in 2 .. h.depth[t]
      BY <1>1
    <3>4. UP.pc \in {"accret", "evput"}
      BY <2>4, <3>3, AccessSentBy
    <3> QED
      BY <1>13, <3>2, <3>4
  <2> QED
    BY <1>7, <2>1, <2>3, <2>4
<1>14. f.pc \in {"evict", "evput"} => f.victim \in Lines
  <2>1. f.pc \in {"evict", "evput"} => f.victim \in h.tags[f.c]
    BY <1>4 DEF Shaped
  <2>2. h.tags[f.c] \subseteq Lines
    BY <1>6 DEF Sound, Typed
  <2> QED
    BY <2>1, <2>2
<1>15. f.pc = "evput" /\ f.c \in Inner =>
          g.dir[f.c][f.victim].sharers \subseteq h.dir[f.c][f.victim].sharers
  <2> SUFFICES ASSUME f.pc = "evput", f.c \in Inner
               PROVE  g.dir[f.c][f.victim].sharers \subseteq h.dir[f.c][f.victim].sharers
    OBVIOUS
  <2>1. InAccess(h, t, d)
    BY <1>3
  <2> QED
    BY <1>7, <1>14, <2>1 DEF Reach
<1>16. ASSUME Access(f), d > 1
       PROVE  LET old == h.state[up.c][f.line]
                  new == g.state[up.c][f.line]
              IN  \/ new = old
                  \/ /\ f.pc # "end"
                     /\ f.type \in Gets \/ f.pc \in {"tcc", "bcc"}
                     /\ new = "I" \/ (new = "S" /\ old \in {"E", "M"})
  <2>1. d \in 2 .. h.depth[t] /\ t \in Threads
    BY <1>2, <1>16
  <2>2. InAccess(h, t, d - 1) /\ up \in Frame
    BY <1>16, <2>1, AccessSentBy
  <2>3. up.c \in Caches
    BY <2>2, FrameFields
  <2>4. f.type \in Gets /\ f.pc # "end"
    BY <1>3, <1>16
  <2> DEFINE old == h.state[up.c][f.line]
             new == g.state[up.c][f.line]
  <2>5. \/ new = old
        \/ up.c = F.c /\ InAccess(h, t, n)
        \/ new = "I" \/ (new = "S" /\ old \in {"E", "M"})
        \/ up.c = UP.c /\ Access(F)
    BY <1>6, <2>3 DEF Reach
  <2> QED
    BY <1>7, <1>8, <1>16, <2>2, <2>4, <2>5
<1>17. ASSUME f.type \in Invs, d > 1
       PROVE  g.dir[up.c][f.line] = h.dir[up.c][f.line]
  <2>1. d \in 2 .. h.depth[t] /\ t \in Threads
    BY <1>2, <1>17
  <2>2. HasBcc(h, t, d - 1) /\ up.c \in Inner
    BY <1>17, <2>1, InvSentBy
  <2>3. \/ g.dir[up.c][f.line] = h.dir[up.c][f.line]
        \/ up.c = F.c /\ HasBcc(h, t, n)
        \/ up.c = UP.c /\ F.type \in Invs
    BY <1>6, <2>2 DEF Reach
  <2> QED
    BY <1>7, <1>9, <1>17, <2>2, <2>3
<1> HIDE DEF f
<1>18. /\ f = h.calls[t][d] /\ f = g.calls[t][d] /\ f \in Frame
       /\ d > 1 => g.calls[t][d - 1] = h.calls[t][d - 1]
       /\ d = g.depth[t] => d = h.depth[t]
       /\ d \in Nat /\ CallSound(h, t, d) /\ d # g.depth[t]
  BY <1>2, <1>3, <1>4, <1>5 DEF f
<1>19. \/ f.pc = "evict"
       \/ f.pc = "evput" /\ d = g.depth[t]
       => g.state[f.c][f.victim] = h.state[f.c][f.victim]
  BY <1>13, <1>14, <1>18
<1>20. \/ f.pc \in {"top", "inv", "end"}
       \/ f.pc = "accret" /\ d = g.depth[t]
       => g.state[f.c][f.line] = h.state[f.c][f.line]
  BY <1>3, <1>6, <1>13, <1>18
<1> QED
  BY <1>12, <1>15, <1>16, <1>17, <1>18, <1>19, <1>20, Keep
\* A step of thread t that leaves its first m calls as they are.
Step(h, g, t, m) ==
    LET n == h.depth[t] IN
    /\ n >= 1 /\ m < n /\ g.depth[t] \in {n - 1, n, n + 1}
    /\ Alike(h, g, t, n - 1)
    /\ Below(h, g, t, m)
    /\ \A d \in n .. g.depth[t] :
          Access(g.calls[t][d]) =>
              Access(h.calls[t][n]) /\ Access(g.calls[t][n])
    /\ Reach(h, g, t, n)
    /\ Locking(h, g, t, n)
    /\ \A d \in 1 .. g.depth[t] : d > m \/ d = g.depth[t] => CallSound(g, t, d)

\* Such a step is right about the calls and their locks.
LEMMA StepCalls ==
    ASSUME NEW h, NEW g, NEW t \in Threads, NEW m \in Nat, Sound(h), Typed(g),
           Step(h, g, t, m)
    PROVE  Locked(g) /\ Alone(g) /\ UpThenDown(g) /\ CallsSound(g)
<1> DEFINE n == h.depth[t]
           N == g.depth[t]
<1>1. /\ n \in Nat /\ n >= 1 /\ n \in 1 .. n /\ m < n /\ N \in Nat /\ N <= n + 1
      /\ Alike(h, g, t, n - 1) /\ Below(h, g, t, m)
      /\ Reach(h, g, t, n) /\ Locking(h, g, t, n)
      /\ \A d \in n .. N : Access(g.calls[t][d]) =>
             Access(h.calls[t][n]) /\ Access(g.calls[t][n])
      /\ \A d \in 1 .. N : d > m \/ d = N => CallSound(g, t, d)
  <2>1. n \in Nat /\ n >= 1
    BY DEF Sound, Typed, Step
  <2> QED
    BY <2>1 DEF Step
<1>2. Effect(h, g, t)
  BY <1>1, ReachEffect
<1>3. CallsSound(g)
  <2>1. \A u \in Threads \ {t} : \A d \in 1 .. g.depth[u] : CallSound(g, u, d)
    BY <1>1, <1>2, OthersKeep
  <2>2. ASSUME NEW d \in 1 .. N PROVE CallSound(g, t, d)
    <3>1. CASE d > m \/ d = N
      BY <1>1, <3>1
    <3>2. CASE ~ (d > m \/ d = N)
      <4>1. d \in 1 .. m /\ d < n /\ d < N
        BY <1>1, <3>2
      <4> QED
        BY <1>1, <4>1, LowerKeep
    <3> QED
      BY <3>1, <3>2
  <2> QED
    BY <2>1, <2>2 DEF CallsSound
<1>4. Locked(g) /\ Alone(g)
  BY <1>1, <1>3, LocksKept
<1>5. UpThenDown(g)
  <2>1. UpThenDown(h)
    BY DEF Sound
  <2>2. ASSUME NEW u \in Threads \ {t}, NEW d \in 1 .. g.depth[u], NEW e \in 1 .. g.depth[u],
               d < e, Access(g.calls[u][e])
        PROVE  Access(g.calls[u][d])
    BY <1>1, <2>1, <2>2 DEF UpThenDown, Alike
  <2>3. ASSUME NEW d \in 1 .. N, NEW e \in 1 .. N, d < e, Access(g.calls[t][e])
        PROVE  Access(g.calls[t][d])
    <3>1. \A j \in 1 .. n - 1 : Access(g.calls[t][j]) <=> Access(h.calls[t][j])
      BY <1>1 DEF Alike, Access
    <3>2. CASE e < n
      <4>1. e \in 1 .. n - 1 /\ d \in 1 .. n - 1 /\ e \in 1 .. n /\ d \in 1 .. n
        BY <1>1, <2>3, <3>2
      <4> QED
        BY <2>1, <2>3, <3>1, <4>1 DEF UpThenDown
    <3>3. CASE e >= n
      <4>1. Access(h.calls[t][n]) /\ Access(g.calls[t][n])
        <5>1. e \in n .. N
          BY <1>1, <3>3
        <5> QED
          BY <1>1, <2>3, <5>1
      <4>2. d = n \/ (d \in 1 .. n - 1 /\ d \in 1 .. n /\ d < n)
        BY <1>1, <2>3
      <4> QED
        BY <1>1, <2>1, <3>1, <4>1, <4>2 DEF UpThenDown
    <3> QED
      BY <1>1, <3>2, <3>3
  <2> QED
    BY <2>2, <2>3 DEF UpThenDown
<1> QED
  BY <1>3, <1>4, <1>5
-----------------------------------------------------------------------------
(* How far the levels agree, and when they still do.                       *)

\* A GETX that invalidates is at it until it is granted.
Proceeds(h, g, t) ==
    LET n == h.depth[t]
        f == h.calls[t][n]
        e == g.calls[t][n]
    IN  f.pc = "top" /\ f.type = "GETX" =>
            /\ g.depth[t] >= n
            /\ e.c = f.c /\ e.line = f.line /\ e.type = "GETX" /\ e.pc = "top"

\* The upgrades of a view are upgrades after a step of t, its own excepted.
LEMMA UpgradingKept ==
    ASSUME NEW h, NEW g, NEW t \in Threads, Typed(h), Typed(g),
           Alike(h, g, t, h.depth[t] - 1), g.depth[t] >= h.depth[t] - 1,
           NEW p, NEW l, NEW k, Upgrading(h, p, l, k),
           \/ Proceeds(h, g, t)
           \/ p # h.calls[t][h.depth[t]].c
           \/ l # h.calls[t][h.depth[t]].line
    PROVE  Upgrading(g, p, l, k)
<1>0. PICK u \in Threads :
          \E d \in 2 .. h.depth[u] :
              /\ h.calls[u][d].c = p /\ h.calls[u][d].line = l
              /\ h.calls[u][d].type = "GETX" /\ h.calls[u][d].pc = "top"
              /\ h.calls[u][d - 1].c = k
  BY DEF Upgrading
<1>1. PICK d \in 2 .. h.depth[u] :
          /\ h.calls[u][d].c = p /\ h.calls[u][d].line = l
          /\ h.calls[u][d].type = "GETX" /\ h.calls[u][d].pc = "top"
          /\ h.calls[u][d - 1].c = k
  BY <1>0
<1>2. h.depth[t] \in Nat /\ h.depth[u] \in Nat /\ g.depth[t] \in Nat
  BY DEF Typed
<1>3. d \in Nat /\ d >= 2 /\ d <= h.depth[u]
  BY <1>2
<1>4. CASE u # t
  <2>1. /\ d \in 2 .. g.depth[u]
        /\ g.calls[u] = h.calls[u]
    BY <1>4 DEF Alike
  <2> QED
    BY <1>1, <2>1 DEF Upgrading
<1>5. CASE u = t /\ d < h.depth[t]
  <2>1. /\ d \in 1 .. h.depth[t] - 1 /\ d - 1 \in 1 .. h.depth[t] - 1
        /\ d \in 2 .. g.depth[t]
    BY <1>2, <1>3, <1>5
  <2>2. /\ g.calls[t][d].c = p /\ g.calls[t][d].line = l
        /\ g.calls[t][d].type = "GETX" /\ g.calls[t][d].pc = "top"
        /\ g.calls[t][d - 1].c = k
    BY <1>1, <1>5, <2>1 DEF Alike
  <2> QED
    BY <2>1, <2>2 DEF Upgrading
<1>6. CASE u = t /\ d = h.depth[t]
  <2>1. Proceeds(h, g, t)
    BY <1>1, <1>6
  <2>2. /\ d - 1 \in 1 .. h.depth[t] - 1 /\ d \in 2 .. h.depth[t]
    BY <1>2, <1>3, <1>6
  <2>3. /\ g.depth[t] >= d
        /\ g.calls[t][d].c = p /\ g.calls[t][d].line = l
        /\ g.calls[t][d].type = "GETX" /\ g.calls[t][d].pc = "top"
    BY <1>1, <1>6, <2>1 DEF Proceeds
  <2>4. g.calls[t][d - 1].c = k
    BY <1>1, <1>6, <2>2 DEF Alike
  <2>5. d \in 2 .. g.depth[t]
    BY <1>2, <1>3, <2>3
  <2> QED
    BY <2>3, <2>4, <2>5 DEF Upgrading
<1> QED
  BY <1>2, <1>3, <1>4, <1>5, <1>6

\* A call that keeps others out of a cache is the only one to upgrade there.
LEMMA OnlyUpgrade ==
    ASSUME NEW h, Sound(h), NEW t \in Threads, NEW d \in 1 .. h.depth[t],
           NEW p \in Inner, NEW l, NEW k, p = h.calls[t][d].c,
           HasBcc(h, t, d) \/ InAccess(h, t, d), Upgrading(h, p, l, k)
    PROVE  /\ h.calls[t][d].pc = "top" /\ h.calls[t][d].type = "GETX"
           /\ h.calls[t][d].line = l
           /\ d >= 2 /\ h.calls[t][d - 1].c = k
<1>0. PICK u \in Threads :
          \E e \in 2 .. h.depth[u] :
              /\ h.calls[u][e].c = p /\ h.calls[u][e].line = l
              /\ h.calls[u][e].type = "GETX" /\ h.calls[u][e].pc = "top"
              /\ h.calls[u][e - 1].c = k
  BY DEF Upgrading
<1>1. PICK e \in 2 .. h.depth[u] :
          /\ h.calls[u][e].c = p /\ h.calls[u][e].line = l
          /\ h.calls[u][e].type = "GETX" /\ h.calls[u][e].pc = "top"
          /\ h.calls[u][e - 1].c = k
  BY <1>0
<1>2. h.depth[u] \in Nat /\ e \in 1 .. h.depth[u] /\ e >= 2
  <2>1. h.depth[u] \in Nat
    BY DEF Sound, Typed
  <2> QED
    BY <2>1
<1>3. HasBcc(h, u, e) /\ InAccess(h, u, e)
  BY <1>1 DEF HasBcc, InAccess, Access, Gets
<1>4. h.bcc[p] = u /\ h.tcc[p] = u
  BY <1>1, <1>2, <1>3 DEF Sound, Locked
<1>5. u = t
  <2>1. HasBcc(h, t, d) => h.bcc[p] = t
    BY DEF Sound, Locked
  <2>2. InAccess(h, t, d) => h.tcc[p] = t
    BY DEF Sound, Locked
  <2> QED
    BY <1>4, <2>1, <2>2
<1>6. e = d
  BY <1>1, <1>2, <1>3, <1>5 DEF Sound, Alone
<1> QED
  BY <1>1, <1>2, <1>5, <1>6

\* A cache that has no sharers of a line, and no upgrade, has no children
\* with a copy of it.
LEMMA NoChild ==
    ASSUME NEW h, Sound(h), NEW t \in Threads, NEW d \in 1 .. h.depth[t],
           NEW l \in Lines, h.calls[t][d].c \in Inner,
           HasBcc(h, t, d) \/ InAccess(h, t, d),
           \/ h.calls[t][d].pc # "top"
           \/ h.calls[t][d].type # "GETX"
           \/ h.calls[t][d].line # l,
           h.dir[h.calls[t][d].c][l].sharers = {},
           NEW k \in Caches, Parent[k][l] = h.calls[t][d].c
    PROVE  h.state[k][l] = "I"
<1> DEFINE p == h.calls[t][d].c
<1>1. ~ Upgrading(h, p, l, k)
  <2> HIDE DEF p
  <2> SUFFICES ASSUME Upgrading(h, p, l, k) PROVE FALSE
    OBVIOUS
  <2>1. /\ h.calls[t][d].pc = "top" /\ h.calls[t][d].type = "GETX"
        /\ h.calls[t][d].line = l
    <3>1. p = h.calls[t][d].c /\ p \in Inner
      BY DEF p
    <3> QED
      BY <3>1, OnlyUpgrade
  <2> QED
    BY <2>1
<1>2. Entry(h, p, l)
  BY DEF Sound, Directory
<1> QED
  BY <1>1, <1>2 DEF Entry

\* The code's test for an exclusive sharer.
LEMMA ExclusiveEntry ==
    ASSUME Sound(View), NEW c \in Inner, NEW l \in Lines
    PROVE  DirExclusive(c, l) <=>
               View.dir[c][l].exclusive = TRUE /\ View.dir[c][l].sharers # {}
<1> DEFINE e == View.dir[c][l]
<1>1. Entry(View, c, l) /\ e.exclusive \in BOOLEAN
  BY DEF Sound, Directory, Typed
<1>2. e = dir[c][l]
  BY ViewFields
<1>3. ASSUME e.exclusive, e.sharers # {}
      PROVE  Cardinality(e.sharers) = 1
  <2>1. PICK x \in e.sharers : TRUE
    BY <1>3
  <2>2. e.sharers = {x}
    BY <1>1, <1>3, <2>1 DEF Entry
  <2> QED
    BY <2>2, FS_Singleton
<1>4. Cardinality(e.sharers) = 1 => e.sharers # {}
  <2>1. Cardinality({}) = 0
    BY FS_EmptySet
  <2>2. Cardinality({}) # 1
    BY <2>1
  <2> QED
    BY <2>2, Zenon
<1> HIDE DEF e
<1>5. DirExclusive(c, l) <=> Cardinality(e.sharers) = 1 /\ e.exclusive
  BY <1>2 DEF DirExclusive
<1> QED
  BY <1>1, <1>3, <1>4, <1>5 DEF e

\* An entry whose children have not changed.
LEMMA EntryKept ==
    ASSUME NEW h, NEW g, NEW p \in Inner, NEW l \in Lines, Entry(h, p, l),
           h.dir[p][l].sharers \subseteq Caches, g.dir[p][l] = h.dir[p][l],
           \A k \in Caches : Parent[k][l] = p =>
               \/ g.state[k][l] = h.state[k][l]
               \/ Excl(h, k, l) /\ Excl(g, k, l),
           \A k \in Caches : Upgrading(h, p, l, k) => Upgrading(g, p, l, k)
    PROVE  Entry(g, p, l)
<1> DEFINE e == h.dir[p][l]
<1>1. \A k \in e.sharers :
          /\ Parent[k][l] = p
          /\ g.state[k][l] # "I"
          /\ Excl(g, k, l) <=> e.exclusive
  <2> TAKE k \in e.sharers
  <2>1. /\ Parent[k][l] = p /\ k \in Caches
        /\ h.state[k][l] # "I"
        /\ Excl(h, k, l) <=> e.exclusive
    BY DEF Entry
  <2>2. \/ g.state[k][l] = h.state[k][l]
        \/ Excl(h, k, l) /\ Excl(g, k, l)
    BY <2>1
  <2> QED
    BY <2>1, <2>2 DEF Excl
<1>2. e.exclusive => \A j, k \in e.sharers : j = k
  BY DEF Entry
<1>3. \A k \in Caches \ e.sharers :
          Parent[k][l] = p /\ g.state[k][l] # "I" =>
              ~ e.exclusive /\ g.state[k][l] = "S" /\ Upgrading(g, p, l, k)
  <2> TAKE k \in Caches \ e.sharers
  <2> HAVE Parent[k][l] = p /\ g.state[k][l] # "I"
  <2>1. \/ g.state[k][l] = h.state[k][l]
        \/ Excl(h, k, l) /\ Excl(g, k, l)
    OBVIOUS
  <2>2. h.state[k][l] # "I"
    BY <2>1 DEF Excl
  <2>3. ~ e.exclusive /\ h.state[k][l] = "S" /\ Upgrading(h, p, l, k)
    BY <2>2 DEF Entry
  <2> QED
    BY <2>1, <2>3 DEF Excl
<1> QED
  BY <1>1, <1>2, <1>3 DEF Entry
\* Inclusion of a line whose states have not changed.
LEMMA WithinKept ==
    ASSUME NEW h, NEW g, NEW c \in Caches, NEW l \in Lines, Within(h, c, l),
           l \in h.tags[c] => l \in g.tags[c] \/ g.state[c][l] = "I",
           \/ g.state[c][l] = h.state[c][l]
           \/ Excl(h, c, l) /\ Excl(g, c, l)
           \/ g.state[c][l] = "I",
           LET p == Parent[c][l] IN
           p # Mem => \/ g.state[p][l] = h.state[p][l]
                      \/ Excl(h, p, l) /\ Excl(g, p, l)
    PROVE  Within(g, c, l)
BY DEF Within, Excl

\* The step of a call in an access or an invalidation leaves the leaves of the
\* cores that are in no access as their filters have it.
LEMMA FilteredKept ==
    ASSUME NEW h, NEW g, NEW t \in Threads, NEW m \in Nat, Sound(h), Typed(g),
           Step(h, g, t, m), g.filter = h.filter, g.depth[t] >= 1,
           \A d \in h.depth[t] .. g.depth[t] :
               ~ (g.calls[t][d].pc = "inv" /\ g.calls[t][d].c \in Leaves)
    PROVE  Filtered(g)
<1> SUFFICES ASSUME OneProcess PROVE
        /\ \A u \in Threads :
              /\ g.depth[u] = 0 /\ g.filter[u].rd # None =>
                     g.state[u][g.filter[u].rd] # "I"
              /\ g.depth[u] = 0 /\ g.filter[u].wr # None =>
                     g.state[u][g.filter[u].wr] = "M"
              /\ g.filter[u].wr \in {None, g.filter[u].rd}
        /\ \A u \in Threads : \A d \in 1 .. g.depth[u] :
              g.calls[u][d].pc = "inv" /\ g.calls[u][d].c \in Leaves =>
                  g.filter[g.calls[u][d].c].rd # g.calls[u][d].line
  BY DEF Filtered
<1> DEFINE n == h.depth[t]
           F == h.calls[t][n]
           UP == h.calls[t][n - 1]
<1>0. h.depth[t] >= 1 /\ Alike(h, g, t, n - 1) /\ Reach(h, g, t, n)
  BY DEF Step
<1>1. /\ n \in Nat /\ n \in 1 .. h.depth[t] /\ F \in Frame /\ Shaped(h, t, n)
      /\ g.depth[t] \in Nat
  <2>1. n \in Nat /\ n \in 1 .. h.depth[t] /\ F \in Frame /\ Shaped(h, t, n)
    BY <1>0, Inmost
  <2> QED
    BY <2>1 DEF Typed
<1>2. /\ \A u \in Threads :
            /\ h.depth[u] = 0 /\ h.filter[u].rd # None =>
                   h.state[u][h.filter[u].rd] # "I"
            /\ h.depth[u] = 0 /\ h.filter[u].wr # None =>
                   h.state[u][h.filter[u].wr] = "M"
            /\ h.filter[u].wr \in {None, h.filter[u].rd}
      /\ \A u \in Threads : \A d \in 1 .. h.depth[u] :
            h.calls[u][d].pc = "inv" /\ h.calls[u][d].c \in Leaves =>
                h.filter[h.calls[u][d].c].rd # h.calls[u][d].line
  <2>1. Filtered(h)
    BY DEF Sound
  <2> QED
    BY <2>1 DEF Filtered
<1>3. \A u \in Threads : /\ h.filter[u].rd \in Lines \cup {None}
                         /\ h.filter[u].wr \in Lines \cup {None}
                         /\ u \in Leaves /\ u \in Caches
  BY HierarchyAssumption DEF Sound, Typed, Threads
<1>4. ASSUME NEW u \in Threads, g.depth[u] = 0, NEW l \in Lines, l = h.filter[u].rd
      PROVE  h.depth[u] = 0 /\ g.state[u][l] = h.state[u][l]
  <2>1. u # t
    BY <1>4
  <2>2. h.depth[u] = 0 /\ u \in Leaves /\ u \in Caches
    BY <1>0, <1>3, <1>4, <2>1 DEF Alike
  <2>3. \/ g.state[u][l] = h.state[u][l]
        \/ u = F.c /\ InAccess(h, t, n)
        \/ u = F.c /\ l = F.line /\ F.pc = "inv"
        \/ n > 1 /\ u = UP.c /\ Access(F)
    BY <1>0, <2>2 DEF Reach
  <2>4. ~ (u = F.c /\ InAccess(h, t, n))
    BY <1>1, <2>1, <2>2 DEF Shaped, InAccess
  <2>5. ~ (u = F.c /\ l = F.line /\ F.pc = "inv")
    BY <1>1, <1>2, <1>4, <2>2
  <2>6. ~ (n > 1 /\ u = UP.c /\ Access(F))
    <3> SUFFICES ASSUME n > 1, u = UP.c, Access(F) PROVE FALSE
      OBVIOUS
    <3>1. n \in 2 .. h.depth[t]
      BY <1>1
    <3>2. InAccess(h, t, n - 1) /\ n - 1 \in 1 .. h.depth[t]
      BY <3>1, AccessSentBy
    <3>3. Shaped(h, t, n - 1)
      BY <3>2 DEF Sound, CallsSound, CallSound
    <3> QED
      BY <2>1, <2>2, <3>2, <3>3 DEF Shaped, InAccess
  <2> QED
    BY <2>2, <2>3, <2>4, <2>5, <2>6
<1>5. ASSUME NEW u \in Threads
      PROVE  /\ g.depth[u] = 0 /\ g.filter[u].rd # None =>
                    g.state[u][g.filter[u].rd] # "I"
             /\ g.depth[u] = 0 /\ g.filter[u].wr # None =>
                    g.state[u][g.filter[u].wr] = "M"
             /\ g.filter[u].wr \in {None, g.filter[u].rd}
  BY <1>2, <1>3, <1>4
<1>6. ASSUME NEW u \in Threads, NEW d \in 1 .. g.depth[u],
             g.calls[u][d].pc = "inv", g.calls[u][d].c \in Leaves
      PROVE  g.filter[g.calls[u][d].c].rd # g.calls[u][d].line
  <2>1. CASE u # t
    <3>1. g.calls[u] = h.calls[u] /\ d \in 1 .. h.depth[u]
      BY <1>0, <2>1 DEF Alike
    <3> QED
      BY <1>2, <1>6, <3>1
  <2>2. CASE u = t
    <3>1. d < n
      <4>1. ~ (d \in n .. g.depth[t])
        BY <1>6, <2>2
      <4> QED
        BY <1>1, <2>2, <4>1
    <3>2. d \in 1 .. n - 1 /\ d \in 1 .. h.depth[t]
      BY <1>1, <3>1
    <3>3. /\ g.calls[t][d].c = h.calls[t][d].c /\ g.calls[t][d].pc = h.calls[t][d].pc
          /\ g.calls[t][d].line = h.calls[t][d].line
      BY <1>0, <3>2 DEF Alike
    <3> QED
      BY <1>2, <1>6, <2>2, <3>2, <3>3
  <2> QED
    BY <2>1, <2>2
<1> QED
  BY <1>5, <1>6

\* A step that leaves the directories alone, gives a copy up or gets one only
\* if the cache is below the memory, and else turns E into M at most.
LEMMA NoDirStep ==
    ASSUME NEW h, NEW g, NEW t \in Threads, NEW m \in Nat, Sound(h), Typed(g),
           Step(h, g, t, m), Proceeds(h, g, t), g.dir = h.dir,
           \A k \in Caches, l \in Lines :
              \/ g.state[k][l] = h.state[k][l]
              \/ Excl(h, k, l) /\ Excl(g, k, l)
              \/ /\ Parent[k][l] = Mem
                 /\ g.state[k][l] = "I" =>
                        \A j \in Caches : Parent[j][l] = k => h.state[j][l] = "I"
                 /\ Excl(h, k, l) /\ g.state[k][l] # "I" => Excl(g, k, l)
                 /\ g.state[k][l] # "I" => l \in g.tags[k],
           \A k \in Caches, l \in Lines :
              l \in h.tags[k] => l \in g.tags[k] \/ g.state[k][l] = "I"
    PROVE  Directory(g) /\ Included(g)
<1>1. /\ Directory(h) /\ Included(h) /\ Typed(h)
      /\ Alike(h, g, t, h.depth[t] - 1) /\ g.depth[t] >= h.depth[t] - 1
  <2>1. h.depth[t] \in Nat
    BY DEF Sound, Typed
  <2> QED
    BY <2>1 DEF Sound, Step
<1>2. ASSUME NEW p \in Inner, NEW l \in Lines
      PROVE  Entry(g, p, l)
  <2>1. Entry(h, p, l) /\ h.dir[p][l].sharers \subseteq Caches
    BY <1>1 DEF Directory, Typed
  <2>2. p # Mem
    BY HierarchyAssumption DEF Inner
  <2>3. \A k \in Caches : Upgrading(h, p, l, k) => Upgrading(g, p, l, k)
    BY <1>1, UpgradingKept
  <2>4. g.dir[p][l] = h.dir[p][l]
    OBVIOUS
  <2>5. \A k \in Caches : Parent[k][l] = p =>
               \/ g.state[k][l] = h.state[k][l]
               \/ Excl(h, k, l) /\ Excl(g, k, l)
    BY <2>2
  <2> QED
    BY <2>1, <2>3, <2>4, <2>5, EntryKept
<1>3. ASSUME NEW c \in Caches, NEW l \in Lines
      PROVE  Within(g, c, l)
  <2> DEFINE p == Parent[c][l]
  <2>1. p # Mem => p \in Caches
    BY ParentOf
  <2>2. Within(h, c, l)
    BY <1>1 DEF Included
  <2>3. \/ g.state[c][l] = h.state[c][l]
        \/ Excl(h, c, l) /\ Excl(g, c, l)
        \/ p = Mem /\ (g.state[c][l] # "I" => l \in g.tags[c])
    OBVIOUS
  <2>4. p # Mem =>
            \/ g.state[p][l] = h.state[p][l]
            \/ Excl(h, p, l) /\ Excl(g, p, l)
            \/ /\ g.state[p][l] = "I" => h.state[c][l] = "I"
               /\ Excl(h, p, l) /\ g.state[p][l] # "I" => Excl(g, p, l)
    BY <2>1
  <2>5. l \in h.tags[c] => l \in g.tags[c] \/ g.state[c][l] = "I"
    OBVIOUS
  <2> HIDE DEF p
  <2>6. CASE p = Mem
    BY <2>2, <2>3, <2>5, <2>6 DEF Within, Excl, p
  <2>7. CASE p # Mem
    <3>1. \/ g.state[c][l] = h.state[c][l]
          \/ Excl(h, c, l) /\ Excl(g, c, l)
      BY <2>3, <2>7
    <3> QED
      BY <2>2, <2>4, <2>5, <2>7, <3>1 DEF Within, Excl, p
  <2> QED
    BY <2>6, <2>7
<1> QED
  BY <1>2, <1>3 DEF Directory, Included
\* A step in which the innermost call f of t goes on as e, in a cache whose
\* directory stays as it is.
LEMMA BecomeSound ==
    ASSUME NEW h, NEW g, NEW t \in Threads, NEW n \in Nat,
           Sound(h), Typed(g), n >= 1, h.depth[t] = n, g.depth[t] = n,
           Below(h, g, t, n - 1),
           Access(g.calls[t][n]) => Access(h.calls[t][n]),
           h.calls[t][n].type # "GETX" \/ h.calls[t][n].pc # "top",
           ~ (g.calls[t][n].pc = "inv" /\ g.calls[t][n].c \in Leaves),
           g.dir = h.dir, g.filter = h.filter,
           \A k \in Caches : \/ g.tags[k] = h.tags[k]
                             \/ k = h.calls[t][n].c /\ InAccess(h, t, n),
           \A k \in Caches, l \in Lines :
              l \in h.tags[k] => l \in g.tags[k] \/ g.state[k][l] = "I",
           \A k \in Caches, l \in Lines :
              \/ g.state[k][l] = h.state[k][l]
              \/ k = h.calls[t][n].c /\ HasBcc(h, t, n) /\ InAccess(h, t, n),
           \A k \in Caches, l \in Lines :
              \/ g.state[k][l] = h.state[k][l]
              \/ Excl(h, k, l) /\ Excl(g, k, l)
              \/ /\ Parent[k][l] = Mem
                 /\ g.state[k][l] = "I" =>
                        \A j \in Caches : Parent[j][l] = k => h.state[j][l] = "I"
                 /\ Excl(h, k, l) /\ g.state[k][l] # "I" => Excl(g, k, l)
                 /\ g.state[k][l] # "I" => l \in g.tags[k],
           Locking(h, g, t, n),
           Shaped(g, t, n), Own(g, g.calls[t][n], TRUE),
           n > 1 => Linked(g, h.calls[t][n - 1], g.calls[t][n]),
           n > 1 /\ Access(g.calls[t][n]) =>
               Asked(g, g.calls[t][n], h.calls[t][n - 1].c)
    PROVE  Sound(g)
<1>1. n - 1 \in Nat /\ n \in 1 .. g.depth[t] /\ (n > 1 => n - 1 \in 1 .. n - 1)
  OBVIOUS
<1>2. n > 1 => g.calls[t][n - 1] = h.calls[t][n - 1]
  BY <1>1 DEF Below
<1>3. CallSound(g, t, n)
  BY <1>2 DEF CallSound
<1>4. Reach(h, g, t, n)
  BY DEF Reach
<1>5. Step(h, g, t, n - 1)
  <2>1. Alike(h, g, t, n - 1)
    BY BelowAlike
  <2>2. \A d \in 1 .. g.depth[t] : d > n - 1 \/ d = g.depth[t] => d = n
    OBVIOUS
  <2>3. \A d \in n .. g.depth[t] : d = n
    OBVIOUS
  <2> QED
    BY <1>3, <1>4, <2>1, <2>2, <2>3 DEF Step
<1>6. Locked(g) /\ Alone(g) /\ UpThenDown(g) /\ CallsSound(g)
  BY <1>1, <1>5, StepCalls
<1>7. Proceeds(h, g, t)
  BY DEF Proceeds
<1>8. Directory(g) /\ Included(g)
  BY <1>1, <1>5, <1>7, NoDirStep
<1>9. Filtered(g)
  <2>1. \A d \in h.depth[t] .. g.depth[t] : d = n
    OBVIOUS
  <2> QED
    BY <1>1, <1>5, <2>1, FilteredKept
<1> QED
  BY <1>6, <1>8, <1>9 DEF Sound

\* The innermost call n of t stays as it is, or waits with the program counter
\* the call it makes is due to, and makes a call.
Calling(h, g, t, n) ==
    /\ n >= 1 /\ h.depth[t] = n /\ g.depth[t] = n + 1
    /\ Below(h, g, t, n - 1)
    /\ g.calls[t][n].c = h.calls[t][n].c
    /\ g.calls[t][n].type = h.calls[t][n].type
    /\ g.calls[t][n].line = h.calls[t][n].line
    /\ h.calls[t][n].pc = "top" => g.calls[t][n].pc = "top"
    /\ Access(g.calls[t][n + 1]) => Access(h.calls[t][n])
    /\ ~ (g.calls[t][n].pc = "inv" /\ g.calls[t][n].c \in Leaves)
    /\ g.calls[t][n + 1].pc \in {"tcc", "ilock"}
    /\ g.tags = h.tags /\ g.dir = h.dir /\ g.filter = h.filter
    /\ \A k \in Caches, l \in Lines :
           \/ g.state[k][l] = h.state[k][l]
           \/ /\ k = h.calls[t][n].c /\ HasBcc(h, t, n) /\ InAccess(h, t, n)
              /\ Excl(h, k, l) /\ Excl(g, k, l)
    /\ Locking(h, g, t, n)
    /\ Shaped(g, t, n) /\ Own(g, g.calls[t][n], FALSE)
    /\ n > 1 => Linked(g, h.calls[t][n - 1], g.calls[t][n])
    /\ n > 1 /\ Access(g.calls[t][n]) =>
           Asked(g, g.calls[t][n], h.calls[t][n - 1].c)
    /\ Shaped(g, t, n + 1) /\ Own(g, g.calls[t][n + 1], TRUE)
    /\ Linked(g, g.calls[t][n], g.calls[t][n + 1])
    /\ Access(g.calls[t][n + 1]) =>
           Asked(g, g.calls[t][n + 1], g.calls[t][n].c)

\* Such a step keeps the invariant.
LEMMA InvokeSound ==
    ASSUME NEW h, NEW g, NEW t \in Threads, NEW n \in Nat,
           Sound(h), Typed(g), Calling(h, g, t, n)
    PROVE  Sound(g)
<1> USE DEF Calling
<1> DEFINE f == h.calls[t][n]
           b == g.calls[t][n]
           e == g.calls[t][n + 1]
<1>1. /\ n - 1 \in Nat /\ n \in 1 .. g.depth[t] /\ (n > 1 => n - 1 \in 1 .. n - 1)
      /\ n + 1 \in 1 .. g.depth[t] /\ n + 1 > 1 /\ n + 1 - 1 = n /\ n # n + 1
  OBVIOUS
<1>2. n > 1 => g.calls[t][n - 1] = h.calls[t][n - 1]
  BY <1>1 DEF Below
<1>3. CallSound(g, t, n) /\ CallSound(g, t, n + 1)
  <2>1. Own(g, b, n = g.depth[t])
    BY <1>1 DEF Own
  <2>2. Own(g, e, n + 1 = g.depth[t])
    BY <1>1 DEF Own
  <2> QED
    BY <1>1, <1>2, <2>1, <2>2 DEF CallSound
<1>4. Reach(h, g, t, n)
  BY DEF Reach
<1>5. Step(h, g, t, n - 1)
  <2>1. Alike(h, g, t, n - 1)
    BY BelowAlike
  <2>2. \A d \in 1 .. g.depth[t] : d > n - 1 \/ d = g.depth[t] => d = n \/ d = n + 1
    OBVIOUS
  <2>3. \A d \in n .. g.depth[t] : d = n \/ d = n + 1
    OBVIOUS
  <2>4. Access(f) <=> Access(b)
    BY DEF Access
  <2> QED
    BY <1>3, <1>4, <2>1, <2>2, <2>3, <2>4 DEF Step
<1>6. Locked(g) /\ Alone(g) /\ UpThenDown(g) /\ CallsSound(g)
  BY <1>1, <1>5, StepCalls
<1>7. Proceeds(h, g, t)
  BY DEF Proceeds
<1>8. Directory(g) /\ Included(g)
  BY <1>1, <1>5, <1>7, NoDirStep
<1>9. Filtered(g)
  <2>1. \A d \in h.depth[t] .. g.depth[t] : d = n \/ d = n + 1
    OBVIOUS
  <2>2. e.pc # "inv"
    OBVIOUS
  <2>3. \A d \in h.depth[t] .. g.depth[t] :
            ~ (g.calls[t][d].pc = "inv" /\ g.calls[t][d].c \in Leaves)
    BY <2>1, <2>2
  <2>4. n - 1 \in Nat /\ g.depth[t] >= 1
    BY <1>1
  <2> QED
    BY <1>5, <2>3, <2>4, FilteredKept
<1> QED
  BY <1>6, <1>8, <1>9 DEF Sound

\* A call that takes and gives up no lock.
LEMMA SameLocks ==
    ASSUME NEW h, NEW g, NEW t \in Threads, NEW n \in Nat, Sound(h),
           n >= 1, h.depth[t] = n, g.depth[t] = n,
           g.calls[t][n].c = h.calls[t][n].c,
           g.bcc = h.bcc, g.tcc = h.tcc, g.flt = h.flt,
           HasBcc(g, t, n) => HasBcc(h, t, n),
           InAccess(g, t, n) => InAccess(h, t, n),
           ~ (g.calls[t][n].pc = "inv" /\ g.calls[t][n].c \in Leaves)
    PROVE  Locking(h, g, t, n)
<1> DEFINE f == h.calls[t][n]
           e == g.calls[t][n]
<1>1. \A d \in 1 .. g.depth[t] : d >= n \/ d = g.depth[t] => d = n
  OBVIOUS
<1>2. /\ HasBcc(h, t, n) => h.bcc[f.c] = t
      /\ InAccess(h, t, n) /\ f.c \in Inner => h.tcc[f.c] = t
  BY Inmost
<1> QED
  BY <1>1, <1>2 DEF Locking
=============================================================================
