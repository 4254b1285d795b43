---------------------------- MODULE MCGameState ----------------------------
(* GameState on a small instance.  MaxRounds and MaxScore bound the two    *)
(* counters nothing else bounds.                                           *)
EXTENDS GameState, TLC

CONSTANTS MaxRounds, MaxScore

Bounded == round' <= MaxRounds /\ \A p \in Ids : score'[p] <= MaxScore

MCNext == GameNext /\ Bounded

MCSpec == GameInit /\ [][MCNext]_gameVars

Symmetry == Permutations(Ids)
=============================================================================
