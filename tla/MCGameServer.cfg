SPECIFICATION Spec
CONSTANTS
  Ids = {p1, p2, p3}
  Nobody = Nobody
  MinPlayers = 2
  MaxPlayers = 3
  MaxVotes = 1
  MaxLeaves = 2
SYMMETRY Symmetry
INVARIANTS TypeOK VotesAmongPlayers LiarIsPlaying LiarIsHunted QuietGameIsRunning
 
CHECK_DEADLOCK FALSE
