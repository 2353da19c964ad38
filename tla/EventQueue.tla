----------------------------- MODULE EventQueue ------------------------------
(***************************************************************************)
(* What a queue of timing events promises: an object is dequeued once, at  *)
(* the cycle it was enqueued for, and no object is due before it.          *)
(***************************************************************************)
EXTENDS Integers

CONSTANTS Objs

VARIABLES
    due,    \* due[o]: the cycle o is queued for, or NotQueued
    last    \* the cycle of the last dequeue

NotQueued == -1

Init == due = [o \in Objs |-> NotQueued] /\ last = 0

\* The caller does not enqueue into the past.
Enqueue(o) ==
    /\ due[o] = NotQueued
    /\ due'[o] \in Nat /\ due'[o] >= last
    /\ due' = [due EXCEPT ![o] = due'[o]]
    /\ UNCHANGED last

Dequeue(o) ==
    /\ due[o] # NotQueued
    /\ \A p \in Objs : due[p] = NotQueued \/ due[p] >= due[o]
    /\ last' = due[o]
    /\ due' = [due EXCEPT ![o] = NotQueued]

Next == \E o \in Objs : Enqueue(o) \/ Dequeue(o)

Spec == Init /\ [][Next]_<<due, last>>
=============================================================================
