--------------------------- MODULE MCRoleDealing ---------------------------
EXTENDS RoleDealing, TLC

Symmetry == Permutations(Ids)
=============================================================================
