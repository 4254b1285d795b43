SPECIFICATION Spec
CONSTANTS
  Ids = {p1, p2, p3}
  Nobody = Nobody
  MinPlayers = 3
  MaxPlayers = 6
  MaxVotes = 3
  MaxLeaves = 0
SYMMETRY Symmetry
PROPERTIES PointsOncePerRound
CHECK_DEADLOCK FALSE
