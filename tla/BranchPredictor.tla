--------------------------- MODULE BranchPredictor ---------------------------
(***************************************************************************)
(* The two-level branch predictor of the out-of-order core                 *)
(* (BranchPredictorPAg in ooo_core.h): a history per branch, which selects *)
(* a counter of two bits that all branches share.                          *)
(***************************************************************************)
EXTENDS Integers, Bitwise

CONSTANTS
    PCs,            \* addresses of branches
    NB,             \* 2^NB histories,
    HB,             \* of HB bits,
    LB              \* and 2^LB counters, NB <= LB <= HB

VARIABLES
    bhsr,           \* the histories
    pht,            \* the counters
    seen            \* history: how often each branch has gone the same way since any branch last
                    \* went the other way, and whether the last one was predicted

vars == <<bhsr, pht, seen>>

Init ==
    /\ bhsr = [i \in 0 .. 2^NB - 1 |-> 0]
    /\ pht = [i \in 0 .. 2^LB - 1 |-> 1]
    /\ seen = [taken |-> FALSE, streak |-> [p \in PCs |-> 0], learnt |-> FALSE, right |-> TRUE]

bhsrIdx(pc) == (pc \div 2) % (2^NB)

\* The high bits of the history are folded into the low ones.
phtIdx(h) == (h ^^ ((h - (h % 2^LB)) \div 2^(HB - LB))) % 2^LB

\* Faulty form: the counter moves only when the prediction was right.
Counter_Right(n, taken) ==
    IF taken THEN (IF n > 1 THEN 3 ELSE n) ELSE (IF n > 1 THEN n ELSE 0)

\* The counter of two bits goes to its end when the prediction was right.
Counter(n, taken) ==
    IF taken THEN (IF n > 1 THEN 3 ELSE n + 1) ELSE (IF n > 1 THEN n - 1 ELSE 0)

Shift(h, taken) == ((2 * h) % 2^HB) + (IF taken THEN 1 ELSE 0)

\* How many times in a row a branch must go one way before the predictor has to
\* expect it: until its history is full, and the counter has crossed over.
Warmup == HB + 2

Streak(pc, taken) ==
    LET s == IF taken = seen.taken THEN seen.streak ELSE [p \in PCs |-> 0]
    IN  [s EXCEPT ![pc] = IF @ < Warmup THEN @ + 1 ELSE @]

predict(pc, taken) ==
    \E i \in {bhsrIdx(pc)} : \E j \in {phtIdx(bhsr[i])} :
        /\ pht' = [pht EXCEPT ![j] = Counter(@, taken)]
        /\ bhsr' = [bhsr EXCEPT ![i] = Shift(@, taken)]
        /\ seen' = [taken |-> taken, streak |-> Streak(pc, taken), right |-> (taken = (pht[j] > 1)),
                    learnt |-> taken = seen.taken /\ seen.streak[pc] = Warmup]

Next == \E pc \in PCs, taken \in BOOLEAN : predict(pc, taken)

Spec == Init /\ [][Next]_vars

-----------------------------------------------------------------------------
(* Properties *)

\* Whatever the tables held, a branch that has gone one way often enough, while
\* no branch went the other way, is predicted (predict): counters and histories
\* that branches share are trained, and none gets stuck.
Learns == seen.learnt => seen.right

=============================================================================
