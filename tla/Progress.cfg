SPECIFICATION FairSpec
CONSTANTS
  Ids = {p1, p2}
  Nobody = Nobody
  MinPlayers = 1
  MaxPlayers = 2
  MaxVotes = 2
  MaxLeaves = 2
PROPERTIES RoundGetsStarted
CHECK_DEADLOCK FALSE
