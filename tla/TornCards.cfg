SPECIFICATION DealSpec
CONSTANTS
  Ids = {p1, p2, p3}
  Nobody = Nobody
  MinPlayers = 3
  MaxPlayers = 6
  MaxVotes = 0
  MaxLeaves = 0
SYMMETRY Symmetry
INVARIANTS CardsMatch
CHECK_DEADLOCK FALSE
