------------------------------ MODULE Harness ------------------------------
(***************************************************************************)
(* The harness (zsim_harness.cpp) and the processes it launches, restarts  *)
(* and watches, with what a process announces of its start and its end in  *)
(* the process tree (process_tree.cpp).  Signal handlers run between any   *)
(* two steps of the main program; SIGCHLD may come late, so that the main  *)
(* loop finds a dead child before its handler does.                        *)
(***************************************************************************)
EXTENDS Integers, FiniteSets

CONSTANTS
    Procs,      \* 0 .. n-1, the processes of the configuration
    Confs,      \* configurations: see Init
    StallLimit, \* 120 seconds, in sleeps of the main loop
    MaxPhases   \* bounds the phases of the simulation

VARIABLES
    conf,
    main,       \* where the main program is
    next,       \* the process it launches next
    child,      \* childInfo[i].status
    os,         \* the operating system's view of process i
    code,       \* how it died
    started,    \* ProcessTreeNode::started
    restartsLeft, procExited, active, inFF, term, phases, ready,
    attached,   \* globzinfo is set
    woken,      \* a signal interrupted sleep()
    stalled, lastPhases, termStatus,
    todo,       \* events from outside still to come
    lost,       \* history: a restart the harness did not see
    seen, silent \* history: phases at the last sample, sleeps without one since

sys  == <<os, code, started, restartsLeft, procExited, active, inFF, term, phases, ready>>
harn == <<main, next, child, attached, woken, stalled, lastPhases, termStatus>>
vars == <<conf, sys, harn, todo, lost, seen, silent>>

Init ==
    /\ conf \in Confs
    /\ main = "fork" /\ next = 0
    /\ child = [i \in Procs |-> "INVALID"]
    /\ os = [i \in Procs |-> "none"] /\ code = [i \in Procs |-> "ok"]
    /\ started = [i \in Procs |-> FALSE]
    /\ restartsLeft = conf.restarts
    /\ procExited = [i \in Procs |-> "RUNNING"]
    /\ active = 0 /\ inFF = {} /\ term = FALSE /\ phases = 0 /\ ready = FALSE
    /\ attached = FALSE /\ woken = FALSE /\ stalled = 0 /\ lastPhases = 0 /\ termStatus = "OK"
    /\ todo = conf.todo
    /\ lost = {} /\ seen = 0 /\ silent = 0

Gone == main \in {"done", "killed", "panic"}
Live(i) == os[i] \in {"up", "running", "ending"}

(***************************************************************************)
(* The processes.                                                          *)
(***************************************************************************)
\* main() of zsim.cpp up to notifyStart; process 0 initializes the shared state first.
notifyStart(i) ==
    /\ os[i] = "up" /\ (i # 0 => ready)
    /\ ready' = TRUE
    /\ IF started[i] THEN os' = [os EXCEPT ![i] = "running"] /\ UNCHANGED <<active, started, code>>
       ELSE /\ started' = [started EXCEPT ![i] = TRUE]
            /\ active' = active + 1
            /\ IF i # 0 /\ active = 0
               THEN os' = [os EXCEPT ![i] = "zombie"] /\ code' = [code EXCEPT ![i] = "panic"]
               ELSE os' = [os EXCEPT ![i] = "running"] /\ UNCHANGED code
    /\ UNCHANGED <<conf, harn, restartsLeft, procExited, inFF, term, phases, todo, lost, seen, silent>>

\* The faulty form counts a process out although it will be restarted.
notifyEnd_CountsOut(i) ==
    /\ os[i] = "running" /\ procExited[i] = "RUNNING"
    /\ inFF' = inFF \ {i}
    /\ os' = [os EXCEPT ![i] = "ending"]
    /\ active' = active - 1
    /\ IF restartsLeft[i] > 0 /\ ~term
       THEN /\ restartsLeft' = [restartsLeft EXCEPT ![i] = @ - 1]
            /\ procExited' = [procExited EXCEPT ![i] = "RESTARTME"]
       ELSE /\ procExited' = [procExited EXCEPT ![i] = "EXITED"]
            /\ UNCHANGED restartsLeft
    /\ UNCHANGED <<conf, harn, code, started, term, phases, ready, todo, lost, seen, silent>>

\* SimEnd up to the wait of process 0.
notifyEnd(i) ==
    /\ os[i] = "running" /\ procExited[i] = "RUNNING"
    /\ inFF' = inFF \ {i}
    /\ os' = [os EXCEPT ![i] = "ending"]
    /\ IF restartsLeft[i] > 0 /\ ~term
       THEN /\ restartsLeft' = [restartsLeft EXCEPT ![i] = @ - 1]
            /\ procExited' = [procExited EXCEPT ![i] = "RESTARTME"]
            /\ UNCHANGED active
       ELSE /\ procExited' = [procExited EXCEPT ![i] = "EXITED"]
            /\ active' = active - 1
            /\ UNCHANGED restartsLeft
    /\ UNCHANGED <<conf, harn, code, started, term, phases, ready, todo, lost, seen, silent>>

SimExit(i) ==
    /\ os[i] = "ending" /\ (i = 0 => active = 0)
    /\ os' = [os EXCEPT ![i] = "zombie"] /\ code' = [code EXCEPT ![i] = "ok"]
    /\ UNCHANGED <<conf, harn, started, restartsLeft, procExited, active, inFF, term, phases, ready, todo, lost, seen, silent>>

\* The process dies without SimEnd, or a process of its panics.
Crash(i) ==
    /\ todo.crash > 0 /\ os[i] \in {"up", "running"}
    /\ todo' = [todo EXCEPT !.crash = @ - 1]
    /\ os' = [os EXCEPT ![i] = "zombie"]
    /\ \E c \in {"crash", "panic"} : code' = [code EXCEPT ![i] = c]
    /\ UNCHANGED <<conf, harn, started, restartsLeft, procExited, active, inFF, term, phases, ready, lost, seen, silent>>

simShouldAdvance == Cardinality(inFF) < active

Phase ==
    /\ phases < MaxPhases /\ simShouldAdvance /\ \E i \in Procs : os[i] = "running" /\ i \notin inFF
    /\ phases' = phases + 1
    /\ UNCHANGED <<conf, harn, os, code, started, restartsLeft, procExited, active, inFF, term, ready, todo, lost, seen, silent>>

SwitchFF(i) ==
    /\ todo.ff > 0 /\ os[i] = "running"
    /\ todo' = [todo EXCEPT !.ff = @ - 1]
    /\ inFF' = IF i \in inFF THEN inFF \ {i} ELSE inFF \cup {i}
    /\ UNCHANGED <<conf, harn, os, code, started, restartsLeft, procExited, active, term, phases, ready, lost, seen, silent>>

Terminate ==
    /\ todo.term > 0 /\ ready
    /\ todo' = [todo EXCEPT !.term = 0]
    /\ term' = TRUE
    /\ UNCHANGED <<conf, harn, os, code, started, restartsLeft, procExited, active, inFF, phases, ready, lost, seen, silent>>

(***************************************************************************)
(* LaunchProcess: fork(), then the parent stores the child's id, without   *)
(* which eraseChild cannot find it.                                        *)
(***************************************************************************)
Fork ==
    /\ main = "fork"
    /\ os' = [os EXCEPT ![next] = "up"]
    /\ main' = "store"
    /\ UNCHANGED <<conf, code, started, restartsLeft, procExited, active, inFF, term, phases, ready,
                   next, child, attached, woken, stalled, lastPhases, termStatus, todo, lost, seen, silent>>

Store ==
    /\ main = "store"
    /\ child' = [child EXCEPT ![next] = "RUNNING"]
    /\ next' = next + 1
    /\ main' = IF next + 1 \in Procs THEN "fork" ELSE "loop"
    /\ UNCHANGED <<conf, sys, attached, woken, stalled, lastPhases, termStatus, todo, lost, seen, silent>>

\* The harness ends with everybody: panic, exit handler and PR_SET_PDEATHSIG.
Ends(how) ==
    /\ main' = how
    /\ os' = [i \in Procs |-> "none"]

(***************************************************************************)
(* The main loop.                                                          *)
(***************************************************************************)
Children == {i \in Procs : child[i] = "RUNNING"}

LoopHead ==
    /\ main = "loop"
    /\ IF Children = {} THEN main' = "done" /\ UNCHANGED <<attached, woken>>
       ELSE ready /\ attached' = TRUE /\ main' = "sleep" /\ woken' = FALSE
    /\ UNCHANGED <<conf, sys, next, child, stalled, lastPhases, termStatus, todo, lost, seen, silent>>

\* The faulty forms forget that phases have gone by, and how long there was none.
StalledFor_Last(slept) == IF phases <= lastPhases THEN slept ELSE 0

StalledFor_NoReset(slept) == stalled + slept

StalledFor(slept) == IF phases <= lastPhases THEN stalled + slept ELSE 0

Sleep ==
    /\ main = "sleep"
    /\ \E slept \in IF woken THEN {0, 1} ELSE {1} :
        /\ IF conf.deadlockDetection /\ simShouldAdvance
           THEN stalled' = StalledFor(slept) /\ lastPhases' = IF phases <= lastPhases THEN lastPhases ELSE phases
           ELSE /\ UNCHANGED stalled
                /\ lastPhases' = IF conf.deadlockDetection /\ active > 0 THEN phases ELSE lastPhases
        /\ silent' = IF phases # seen THEN 0 ELSE IF simShouldAdvance /\ silent <= StallLimit THEN silent + slept ELSE silent
    /\ seen' = phases
    /\ main' = "reap"
    /\ UNCHANGED <<conf, sys, next, child, attached, woken, termStatus, todo, lost>>

\* The catch in the loop: no look at procExited.
InLoopReap(i) ==
    /\ main = "reap" /\ os[i] = "zombie"
    /\ os' = [os EXCEPT ![i] = "none"]
    /\ child' = [child EXCEPT ![i] = "DONE"]
    /\ lost' = IF procExited[i] = "RESTARTME" THEN lost \cup {i} ELSE lost
    /\ UNCHANGED <<conf, code, started, restartsLeft, procExited, active, inFF, term, phases, ready,
                   main, next, attached, woken, stalled, lastPhases, termStatus, todo, seen, silent>>

CheckStall ==
    /\ main = "reap"
    /\ IF stalled > StallLimit THEN Ends("killed") ELSE main' = "loop" /\ UNCHANGED os
    /\ UNCHANGED <<conf, code, started, restartsLeft, procExited, active, inFF, term, phases, ready,
                   next, child, attached, woken, stalled, lastPhases, termStatus, todo, lost, seen, silent>>

(***************************************************************************)
(* Signal handlers.                                                        *)
(***************************************************************************)
Anomalous(i) == code[i] = "panic" \/ (attached /\ procExited[i] = "RUNNING")

Restarted(i) == [procExited EXCEPT ![i] = "RUNNING"]

chldSigHandler(i) ==
    /\ ~Gone /\ os[i] = "zombie"
    /\ woken' = TRUE
    /\ \/ /\ child[i] # "RUNNING" \/ Anomalous(i)
          /\ Ends("panic")
          /\ UNCHANGED <<child, procExited, lost>>
       \/ /\ child[i] = "RUNNING" /\ ~Anomalous(i) /\ attached /\ procExited[i] = "RESTARTME"
          /\ procExited' = Restarted(i)
          /\ os' = [os EXCEPT ![i] = "up"]
          /\ UNCHANGED <<child, main, lost>>
       \/ /\ child[i] = "RUNNING" /\ ~Anomalous(i) /\ ~(attached /\ procExited[i] = "RESTARTME")
          /\ child' = [child EXCEPT ![i] = "DONE"]
          /\ os' = [os EXCEPT ![i] = "none"]
          /\ lost' = IF procExited[i] = "RESTARTME" THEN lost \cup {i} ELSE lost
          /\ UNCHANGED <<main, procExited>>
    /\ UNCHANGED <<conf, code, started, restartsLeft, active, inFF, term, phases, ready,
                   next, attached, stalled, lastPhases, termStatus, todo, seen, silent>>

\* SIGINT kills the children, a second one everything.
sigHandler ==
    /\ ~Gone /\ todo.int > 0
    /\ todo' = [todo EXCEPT !.int = @ - 1]
    /\ woken' = TRUE
    /\ IF termStatus = "OK"
       THEN /\ termStatus' = "GRACEFUL"
            /\ os' = [i \in Procs |-> IF i \in Children /\ Live(i) THEN "zombie" ELSE os[i]]
            /\ code' = [i \in Procs |-> IF i \in Children /\ Live(i) THEN "killed" ELSE code[i]]
            /\ UNCHANGED main
       ELSE Ends("killed") /\ termStatus' = "KILL" /\ UNCHANGED code
    /\ UNCHANGED <<conf, started, restartsLeft, procExited, active, inFF, term, phases, ready,
                   next, child, attached, stalled, lastPhases, lost, seen, silent>>

MainProgram == Fork \/ Store \/ LoopHead \/ Sleep \/ CheckStall \/ \E i \in Procs : InLoopReap(i)

Process(i) == notifyStart(i) \/ notifyEnd(i) \/ SimExit(i)

Outside == Terminate \/ sigHandler \/ \E i \in Procs : Crash(i) \/ SwitchFF(i)

Next ==
    /\ ~Gone
    /\ \/ MainProgram \/ Phase \/ Outside
       \/ \E i \in Procs : Process(i) \/ chldSigHandler(i)

Spec == Init /\ [][Next]_vars

FairSpec ==
    /\ Spec
    /\ WF_vars(~Gone /\ MainProgram)
    /\ \A i \in Procs : WF_vars(~Gone /\ Process(i)) /\ WF_vars(~Gone /\ chldSigHandler(i))

(***************************************************************************)
(* Properties.                                                             *)
(***************************************************************************)
\* The children the harness waits for are those that exist: none is waited
\* for in vain and none outlives the loop, between fork() and the store of
\* its id excepted.
ChildrenTracked ==
    ~Gone => \A i \in Procs :
        (child[i] = "RUNNING") = (os[i] # "none" /\ ~(main = "store" /\ next = i))

\* globalActiveProcs counts the processes that will still announce their
\* end, those that wait for their restart included.
ActiveExact ==
    ~Gone => active = Cardinality({i \in Procs : started[i] /\ procExited[i] # "EXITED"})

\* The harness reports that all children are done only after every process
\* ended and was restarted as often as its configuration says, or the
\* simulation was terminated - except that a process whose end the main loop
\* noticed first, or that ended before the harness found the shared state,
\* is not restarted, and that a panic the main loop noticed first is passed over.
DoneMeansDone ==
    main = "done" /\ termStatus = "OK" /\ conf.todo.crash = 0 =>
        \/ active = 0 /\ \A i \in Procs : procExited[i] = "EXITED" /\ (restartsLeft[i] = 0 \/ term)
        \/ lost # {} \/ \E i \in Procs : code[i] = "panic"

\* Panics of the harness have a cause: a process that crashed or was killed,
\* one that started after all others had ended, or one that ended before
\* fork() had returned in the harness.
PanicsExplained ==
    main = "panic" =>
        \/ conf.todo.crash > todo.crash \/ termStatus # "OK"
        \/ \E i \in Procs : code[i] = "panic"
        \/ next \in Procs /\ child[next] = "INVALID"

\* The harness kills a simulation as deadlocked only if no phase ended for
\* StallLimit sleeps, unless fast-forwarding came between, which hides
\* progress from it.
StallsReal == main = "killed" /\ termStatus = "OK" /\ conf.todo.ff = 0 => silent > StallLimit

Over == Gone \/ ~conf.deadlockDetection \/ inFF # {} \/ (~ready /\ ~Live(0) /\ main # "fork")

\* With deadlock detection the harness always comes to an end, also when a
\* restart is lost or process 0 waits for itself because it is to be
\* restarted.  Two things defeat it: processes that stay in fast-forward, and
\* process 0 gone before it set up the shared state the loop waits for.
HarnessEnds == <>Over
=============================================================================
