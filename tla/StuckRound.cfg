SPECIFICATION Spec
CONSTANTS
  Ids = {p1, p2, p3}
  Nobody = Nobody
  MinPlayers = 2
  MaxPlayers = 6
  MaxVotes = 2
  MaxLeaves = 1
SYMMETRY Symmetry
INVARIANTS VotedRoundsAreResolved
CHECK_DEADLOCK FALSE
