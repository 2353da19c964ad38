-------------------------- MODULE MCMESIHierarchy --------------------------
(* Small hierarchies for TLC.                                              *)
EXTENDS MESIHierarchy, TLC

CONSTANTS a1, b1, c1,   \* leaves
          a2,           \* a second-level cache
          top,          \* the last level
          x, y          \* lines

\* The leaves directly below one shared cache.
FlatParent == [c \in Caches |-> [l \in Lines |-> IF c = top THEN Mem ELSE top]]

\* a1 has the private second-level cache a2; b1 is directly below the last
\* level.
DeepParent ==
    [c \in Caches |-> [l \in Lines |->
        CASE c = top -> Mem
          [] c = a1 -> a2
          [] OTHER -> top]]

\* The two lines behave alike when they belong to one process.
LineSymmetry == Permutations(Lines)

\* All cores run one process, or each runs its own.
OneProc == [k \in Leaves \cup Lines |-> 0]
TwoProcs == [k \in Leaves \cup Lines |-> IF k \in {b1, y} THEN 1 ELSE 0]

OneWay == [c \in Caches |-> 1]
TwoWayTop == [c \in Caches |-> IF c = top THEN 2 ELSE 1]
============================================================================
