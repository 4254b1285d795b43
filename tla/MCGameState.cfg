SPECIFICATION MCSpec
CONSTANTS
  Ids = {p1, p2, p3, p4}
  Nobody = Nobody
  MinPlayers = 2
  MaxPlayers = 3
  MaxRounds = 2
  MaxScore = 2
SYMMETRY Symmetry
INVARIANTS GameTypeOK VotesAmongPlayers LiarMatchesRoles IdleIsBlank
PROPERTIES ScoresSurvive
