SPECIFICATION DealSpec
CONSTANTS
  Ids = {p1, p2}
  Nobody = Nobody
  MinPlayers = 2
  MaxPlayers = 2
  MaxVotes = 3
  MaxLeaves = 1
SYMMETRY Symmetry
INVARIANTS DealTypeOK SecretKept
CHECK_DEADLOCK FALSE
