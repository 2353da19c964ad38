---------------------------- MODULE MCScheduler -----------------------------
(* Instances of Scheduler for TLC. *)
EXTENDS Scheduler, TLC

OneProcess == [g \in Gids |-> 1]
OwnProcess == [g \in Gids |-> g]

AnyCore == {Cores}
AllMasks == (SUBSET Cores) \ {{}}
Pinned == {Cores, {0}}

ThreadSymmetry == Permutations(Gids)
=============================================================================
