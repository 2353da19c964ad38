----------------------------- MODULE MCEventSim ------------------------------
(* Domains and cores for TLC. *)
EXTENDS EventSim, TLC

CONSTANTS c1, c2, t1, t2

\* A domain per thread, or both in one.
OneOrTwoThreads == {(t1 :> {0}) @@ (t2 :> {1}), (t1 :> {0, 1}) @@ (t2 :> {})}
HomeZero == (c1 :> 0) @@ (c2 :> 0)
Rec(kind, mem, lat) == [kind |-> kind, mem |-> mem, lat |-> lat]
Mixed == (c1 :> {Rec("miss", 1, 2), Rec("put", 1, 0)}) @@ (c2 :> {Rec("get", 1, 2)})
=============================================================================
