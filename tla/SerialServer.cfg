SPECIFICATION SerialSpec
CONSTANTS
  Ids = {p1, p2, p3}
  Nobody = Nobody
  MinPlayers = 2
  MaxPlayers = 3
  MaxVotes = 4
  MaxLeaves = 2
INVARIANTS RoundIsPlayable VotedRoundsAreResolved EveryoneIsBriefed LobbyTypeOK LobbiesAgree
PROPERTIES PointsOncePerRound BallotsAreKept PlaysLiarLine
CHECK_DEADLOCK FALSE
