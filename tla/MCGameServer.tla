---------------------------- MODULE MCGameServer ----------------------------
EXTENDS GameServer, TLC

Symmetry == Permutations(Ids)
=============================================================================
