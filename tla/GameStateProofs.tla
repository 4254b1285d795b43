-------------------------- MODULE GameStateProofs --------------------------
(***************************************************************************)
(* GameState never loses its shape, whatever the number of clients and the *)
(* limits on players.  First what each method does to the type invariant   *)
(* and to the votes, in lemmas that module GameServerProofs cites too,     *)
(* then the theorems of GameSpec.                                          *)
(***************************************************************************)
EXTENDS GameState, TLAPS

----------------------------------------------------------------------------
(* Each method keeps the types.                                            *)

(* The constructor establishes the types.                                  *)
LEMMA InitType == GameInit => GameTypeOK
<1> SUFFICES ASSUME GameInit PROVE GameTypeOK
  OBVIOUS
<1>1. /\ players \subseteq Ids
      /\ role \in [Ids -> Roles]
      /\ score \in [Ids -> Nat]
      /\ \A p \in Ids \ players : role[p] = "NONE" /\ score[p] = 0
  BY DEF GameInit, NoRoles, Roles
<1>2. liar \in Ids \cup {Nobody} /\ votes \in [Ids -> Ids \cup {Nobody}]
  BY DEF GameInit, NoVotes
<1>3. round \in Nat /\ topic \in 0..round /\ word \in 0..round
  BY DEF GameInit
<1>4. roundActive \in BOOLEAN
  BY DEF GameInit
<1> QED
  BY <1>1, <1>2, <1>3, <1>4 DEF GameTypeOK

(* addPlayer keeps them.                                                   *)
LEMMA AddPlayerType ==
  ASSUME GameTypeOK, NEW id \in Ids, AddPlayer(id)
  PROVE  GameTypeOK'
BY DEF AddPlayer, GameTypeOK, Roles

(* removePlayer keeps them, and leaves no entry of the player.             *)
LEMMA RemovePlayerType ==
  ASSUME GameTypeOK, NEW id \in Ids, RemovePlayer(id)
  PROVE  GameTypeOK'
<1>1. players' \subseteq Ids /\ role' \in [Ids -> Roles] /\ score' \in [Ids -> Nat]
  BY DEF RemovePlayer, EraseState, GameTypeOK, Roles
<1>2. \A p \in Ids \ players' : role'[p] = "NONE" /\ score'[p] = 0
  BY DEF RemovePlayer, EraseState, GameTypeOK
<1>3. liar' \in Ids \cup {Nobody} /\ votes' \in [Ids -> Ids \cup {Nobody}]
  BY DEF RemovePlayer, VotesErased, LiarErased, GameTypeOK
<1> QED
  BY <1>1, <1>2, <1>3 DEF RemovePlayer, GameTypeOK

(* startNewRound keeps them; the draws it numbers stay within round.       *)
LEMMA StartNewRoundType ==
  ASSUME GameTypeOK, StartNewRound
  PROVE  GameTypeOK'
<1>1. CASE ~CanStartRound
  BY <1>1 DEF StartNewRound, gameVars, GameTypeOK
<1>2. CASE CanStartRound
  <2>1. PICK l \in players : liar' = l /\ role' = RolesDealt(l)
    BY <1>2 DEF StartNewRound
  <2>2. /\ round' = round + 1 /\ topic' = round' /\ word' = round'
        /\ votes' = NoVotes /\ roundActive' = TRUE
        /\ UNCHANGED <<players, score>>
    BY <1>2 DEF StartNewRound
  <2>3. /\ role' \in [Ids -> Roles]
        /\ \A p \in Ids \ players : role'[p] = "NONE"
    BY <2>1 DEF GameTypeOK, RolesDealt, Roles
  <2>4. votes' \in [Ids -> Ids \cup {Nobody}]
    BY <2>2 DEF NoVotes
  <2> QED
    BY <2>1, <2>2, <2>3, <2>4 DEF GameTypeOK
<1> QED
  BY <1>1, <1>2

(* submitVote keeps them.                                                  *)
LEMMA SubmitVoteType ==
  ASSUME GameTypeOK, NEW voter \in Ids, NEW target \in Ids,
         SubmitVote(voter, target)
  PROVE  GameTypeOK'
BY DEF SubmitVote, GameTypeOK

(* Points go to players only, one or two at a time.                        *)
LEMMA ScoresType ==
  ASSUME GameTypeOK, NEW caught, NEW id, NEW majority, NEW seen,
         CalculateAndApplyScores(caught, id, majority, seen)
  PROVE  /\ GameTypeOK'
         /\ \A p \in Ids : score'[p] >= score[p]
<1> DEFINE Points == Award(CorrectGuessers \cap seen, 1)
           Bounty == Award({liar} \cap players \cap seen, 2)
<1>1. score' \in {Points, Bounty, score}
  BY DEF CalculateAndApplyScores
<1>2. /\ Points \in [Ids -> Nat]
      /\ \A p \in Ids : Points[p] >= score[p]
      /\ \A p \in Ids \ players : Points[p] = score[p]
  BY DEF Award, CorrectGuessers, GameTypeOK
<1>3. /\ Bounty \in [Ids -> Nat]
      /\ \A p \in Ids : Bounty[p] >= score[p]
      /\ \A p \in Ids \ players : Bounty[p] = score[p]
  BY DEF Award, GameTypeOK
<1>4. /\ score' \in [Ids -> Nat]
      /\ \A p \in Ids : score'[p] >= score[p]
      /\ \A p \in Ids \ players : score'[p] = score[p]
  <2> HIDE DEF Points, Bounty
  <2> QED BY <1>1, <1>2, <1>3 DEF GameTypeOK
<1> QED
  BY <1>4 DEF CalculateAndApplyScores, GameTypeOK

(* The stores of clearRound, one by one and together.                      *)
LEMMA StoreTypes ==
  ASSUME GameTypeOK, UNCHANGED <<players, score, round>>,
         ClearFlag   \/ UNCHANGED roundActive,
         ClearTopic  \/ UNCHANGED topic,
         ClearWord   \/ UNCHANGED word,
         ClearLiar   \/ UNCHANGED liar,
         ClearBallot \/ UNCHANGED votes,
         ClearRoles  \/ UNCHANGED role \/ \E p \in Ids : role' = [role EXCEPT ![p] = "NONE"]
  PROVE  GameTypeOK'
<1>1. /\ role' \in [Ids -> Roles]
      /\ \A p \in Ids \ players : role'[p] = "NONE" /\ score[p] = 0
  BY DEF ClearRoles, NoRoles, Roles, GameTypeOK
<1>2. liar' \in Ids \cup {Nobody} /\ votes' \in [Ids -> Ids \cup {Nobody}]
  BY DEF ClearLiar, ClearBallot, NoVotes, GameTypeOK
<1>3. topic' \in 0..round /\ word' \in 0..round
  BY DEF ClearTopic, ClearWord, GameTypeOK
<1>4. roundActive' \in BOOLEAN
  BY DEF ClearFlag, GameTypeOK
<1> QED
  BY <1>1, <1>2, <1>3, <1>4 DEF GameTypeOK

(* clearAllPlayers keeps them.                                             *)
LEMMA ClearAllPlayersType ==
  ASSUME GameTypeOK, ClearAllPlayers
  PROVE  GameTypeOK'
<1>1. role' \in [Ids -> Roles] /\ score' \in [Ids -> Nat]
  BY DEF ClearAllPlayers, ClearRoles, NoRoles, Roles
<1>2. \A p \in Ids : role'[p] = "NONE" /\ score'[p] = 0
  BY DEF ClearAllPlayers, ClearRoles, NoRoles
<1>3. liar' \in Ids \cup {Nobody} /\ votes' \in [Ids -> Ids \cup {Nobody}]
  BY DEF ClearAllPlayers, ClearLiar, ClearBallot, NoVotes
<1>4. /\ players' = {}
      /\ round' \in Nat /\ topic' \in 0..round' /\ word' \in 0..round'
  BY DEF ClearAllPlayers, ClearTopic, ClearWord, GameTypeOK
<1>5. roundActive' \in BOOLEAN
  BY DEF ClearAllPlayers, ClearFlag
<1> QED
  BY <1>1, <1>2, <1>3, <1>4, <1>5 DEF GameTypeOK

----------------------------------------------------------------------------
(* Every field has its type and the absent have no entry, always.          *)
THEOREM GameType == GameSpec => []GameTypeOK
<1>1. GameInit => GameTypeOK
  BY InitType
<1>2. GameTypeOK /\ [GameNext]_gameVars => GameTypeOK'
  <2> SUFFICES ASSUME GameTypeOK, [GameNext]_gameVars PROVE GameTypeOK'
    OBVIOUS
  <2>1. CASE \E id \in Ids : AddPlayer(id) \/ RemovePlayer(id)
    BY <2>1, AddPlayerType, RemovePlayerType
  <2>2. CASE StartNewRound
    BY <2>2, StartNewRoundType
  <2>3. CASE \E voter, target \in Ids : SubmitVote(voter, target)
    BY <2>3, SubmitVoteType
  <2>4. CASE ClearVotes
    BY <2>4, StoreTypes DEF ClearVotes, ClearBallot
  <2>5. CASE \E liarCaught, hasMajority \in BOOLEAN, votedOutId \in Ids \cup {Nobody} :
               CalculateAndApplyScores(liarCaught, votedOutId, hasMajority, Ids)
    BY <2>5, ScoresType
  <2>6. CASE ClearRound
    BY <2>6, StoreTypes DEF ClearRound
  <2>7. CASE ClearAllPlayers
    BY <2>7, ClearAllPlayersType
  <2>8. CASE UNCHANGED gameVars
    BY <2>8 DEF gameVars, GameTypeOK
  <2> QED
    BY <2>1, <2>2, <2>3, <2>4, <2>5, <2>6, <2>7, <2>8 DEF GameNext
<1> QED
  BY <1>1, <1>2, PTL DEF GameSpec

----------------------------------------------------------------------------
(* Votes are cast by players for players: the methods that add a vote or   *)
(* take away a player.                                                     *)

(* submitVote records a vote of a player for a player.                     *)
LEMMA VoteKeepsVotes ==
  ASSUME GameTypeOK, VotesAmongPlayers, NEW voter \in Ids, NEW target \in Ids,
         VoteCounts(voter, target), votes' = [votes EXCEPT ![voter] = target],
         UNCHANGED players
  PROVE  VotesAmongPlayers'
BY DEF VoteCounts, VotesAmongPlayers, HasPlayerVoted, GameTypeOK

(* removePlayer forgets the votes by and for the player it removes.        *)
LEMMA RemovePlayerKeepsVotes ==
  ASSUME GameTypeOK, VotesAmongPlayers, NEW id \in Ids, RemovePlayer(id)
  PROVE  VotesAmongPlayers'
BY DEF RemovePlayer, VotesErased, VotesAmongPlayers, HasPlayerVoted, GameTypeOK

(* An empty votes_ is a vote of nobody for nobody.                         *)
LEMMA NoVotesAmongPlayers ==
  ASSUME votes' = NoVotes
  PROVE  VotesAmongPlayers'
BY DEF NoVotes, VotesAmongPlayers, HasPlayerVoted

(* Votes stay among players when nobody leaves.                            *)
LEMMA MorePlayersKeepVotes ==
  ASSUME VotesAmongPlayers, UNCHANGED votes, players \subseteq players'
  PROVE  VotesAmongPlayers'
BY DEF VotesAmongPlayers, HasPlayerVoted

(* startNewRound empties votes_ or does nothing.                           *)
LEMMA StartNewRoundKeepsVotes ==
  ASSUME VotesAmongPlayers, StartNewRound
  PROVE  VotesAmongPlayers'
BY NoVotesAmongPlayers, MorePlayersKeepVotes DEF StartNewRound, gameVars

(* No vote is ever left behind by a player that is gone, or for one.       *)
THEOREM GameVotes == GameSpec => []VotesAmongPlayers
<1>1. GameInit => VotesAmongPlayers
  BY DEF GameInit, NoVotes, VotesAmongPlayers, HasPlayerVoted
<1>2. GameTypeOK /\ VotesAmongPlayers /\ [GameNext]_gameVars => VotesAmongPlayers'
  <2> SUFFICES ASSUME GameTypeOK, VotesAmongPlayers, [GameNext]_gameVars
               PROVE  VotesAmongPlayers'
    OBVIOUS
  <2>1. CASE \E id \in Ids : AddPlayer(id) \/ RemovePlayer(id)
    BY <2>1, MorePlayersKeepVotes, RemovePlayerKeepsVotes DEF AddPlayer
  <2>2. CASE StartNewRound
    BY <2>2, StartNewRoundKeepsVotes
  <2>3. CASE \E voter, target \in Ids : SubmitVote(voter, target)
    BY <2>3, VoteKeepsVotes DEF SubmitVote
  <2>4. CASE ClearVotes \/ ClearRound \/ ClearAllPlayers
    BY <2>4, NoVotesAmongPlayers DEF ClearVotes, ClearRound, ClearAllPlayers, ClearBallot
  <2>5. CASE \E liarCaught, hasMajority \in BOOLEAN, votedOutId \in Ids \cup {Nobody} :
               CalculateAndApplyScores(liarCaught, votedOutId, hasMajority, Ids)
    BY <2>5, MorePlayersKeepVotes DEF CalculateAndApplyScores
  <2>6. CASE UNCHANGED gameVars
    BY <2>6, MorePlayersKeepVotes DEF gameVars
  <2> QED
    BY <2>1, <2>2, <2>3, <2>4, <2>5, <2>6 DEF GameNext
<1> QED
  BY <1>1, <1>2, GameType, PTL DEF GameSpec

----------------------------------------------------------------------------
(* currentLiarId_ and the roles agree, and an idle game is blank: both at  *)
(* once, method by method.                                                 *)

RoundOK == LiarMatchesRoles /\ IdleIsBlank

(* clearRound and clearAllPlayers leave no round behind.                   *)
LEMMA BlankRound ==
  ASSUME liar' = Nobody, votes' = NoVotes, role' = NoRoles, topic' = 0, word' = 0
  PROVE  RoundOK'
BY GameStateAssumption
   DEF RoundOK, LiarMatchesRoles, IdleIsBlank, NoRoles

(* addPlayer gives a newcomer no role.                                     *)
LEMMA AddPlayerKeepsRound ==
  ASSUME GameTypeOK, RoundOK, NEW id \in Ids, AddPlayer(id)
  PROVE  RoundOK'
<1>1. role' = role
  BY DEF AddPlayer, GameTypeOK
<1> QED
  BY <1>1 DEF AddPlayer, RoundOK, LiarMatchesRoles, IdleIsBlank

(* removePlayer forgets the liar together with its role.                   *)
LEMMA RemovePlayerKeepsRound ==
  ASSUME GameTypeOK, RoundOK, NEW id \in Ids, RemovePlayer(id)
  PROVE  RoundOK'
<1>1. LiarMatchesRoles'
  <2> SUFFICES ASSUME NEW p \in Ids PROVE role'[p] = "LIAR" <=> liar' = p
    BY DEF LiarMatchesRoles
  <2>1. CASE p = id
    BY <2>1, GameStateAssumption
       DEF RemovePlayer, EraseState, LiarErased, GameTypeOK
  <2>2. CASE p # id
    BY <2>2, GameStateAssumption
       DEF RemovePlayer, EraseState, LiarErased, GameTypeOK, RoundOK, LiarMatchesRoles
  <2> QED BY <2>1, <2>2
<1>2. IdleIsBlank'
  <2> SUFFICES ASSUME ~roundActive
               PROVE  topic' = 0 /\ word' = 0 /\ liar' = Nobody
                      /\ votes' = NoVotes /\ role' = NoRoles
    BY DEF IdleIsBlank, RemovePlayer
  <2>1. topic = 0 /\ word = 0 /\ liar = Nobody /\ votes = NoVotes /\ role = NoRoles
    BY DEF RoundOK, IdleIsBlank
  <2>2. votes' = NoVotes /\ role' = NoRoles
    BY <2>1 DEF RemovePlayer, EraseState, VotesErased, NoVotes, NoRoles
  <2> QED
    BY <2>1, <2>2 DEF RemovePlayer, LiarErased
<1> QED
  BY <1>1, <1>2 DEF RoundOK

(* startNewRound makes one player the liar and takes the role from all     *)
(* others.                                                                 *)
LEMMA StartNewRoundKeepsRound ==
  ASSUME GameTypeOK, RoundOK, StartNewRound
  PROVE  RoundOK'
<1>1. CASE ~CanStartRound
  BY <1>1 DEF StartNewRound, gameVars, RoundOK, LiarMatchesRoles, IdleIsBlank
<1>2. CASE CanStartRound
  <2>1. PICK l \in players : liar' = l /\ role' = RolesDealt(l)
    BY <1>2 DEF StartNewRound
  <2>2. roundActive'
    BY <1>2 DEF StartNewRound
  <2> QED
    BY <2>1, <2>2 DEF RoundOK, LiarMatchesRoles, IdleIsBlank, RolesDealt, GameTypeOK
<1> QED
  BY <1>1, <1>2

(* Liar and roles never contradict each other, and nothing of a round is   *)
(* left when it is over.                                                   *)
THEOREM GameRound == GameSpec => [](LiarMatchesRoles /\ IdleIsBlank)
<1>1. GameInit => RoundOK
  BY GameStateAssumption
     DEF GameInit, RoundOK, LiarMatchesRoles, IdleIsBlank, NoRoles
<1>2. GameTypeOK /\ RoundOK /\ [GameNext]_gameVars => RoundOK'
  <2> SUFFICES ASSUME GameTypeOK, RoundOK, [GameNext]_gameVars PROVE RoundOK'
    OBVIOUS
  <2>1. CASE \E id \in Ids : AddPlayer(id) \/ RemovePlayer(id)
    BY <2>1, AddPlayerKeepsRound, RemovePlayerKeepsRound
  <2>2. CASE StartNewRound
    BY <2>2, StartNewRoundKeepsRound
  <2>3. CASE \E voter, target \in Ids : SubmitVote(voter, target)
    BY <2>3 DEF SubmitVote, VoteCounts, RoundOK, LiarMatchesRoles, IdleIsBlank
  <2>4. CASE ClearVotes
    BY <2>4 DEF ClearVotes, RoundOK, LiarMatchesRoles, IdleIsBlank
  <2>5. CASE \E liarCaught, hasMajority \in BOOLEAN, votedOutId \in Ids \cup {Nobody} :
               CalculateAndApplyScores(liarCaught, votedOutId, hasMajority, Ids)
    BY <2>5 DEF CalculateAndApplyScores, RoundOK, LiarMatchesRoles, IdleIsBlank
  <2>6. CASE ClearRound \/ ClearAllPlayers
    BY <2>6, BlankRound
       DEF ClearRound, ClearAllPlayers, ClearTopic, ClearWord, ClearLiar, ClearBallot, ClearRoles
  <2>7. CASE UNCHANGED gameVars
    BY <2>7 DEF gameVars, RoundOK, LiarMatchesRoles, IdleIsBlank
  <2> QED
    BY <2>1, <2>2, <2>3, <2>4, <2>5, <2>6, <2>7 DEF GameNext
<1>3. RoundOK => LiarMatchesRoles /\ IdleIsBlank
  BY DEF RoundOK
<1> QED
  BY <1>1, <1>2, <1>3, GameType, PTL DEF GameSpec

(* Nothing of a round, neither its liar nor its roles nor its votes, is    *)
(* left when it is over.                                                   *)
THEOREM GameIdle == GameSpec => []IdleIsBlank
BY GameRound, PTL

(* A player never loses a point while it stays in the game.                *)
THEOREM GameScores == GameSpec => ScoresSurvive
<1>1. GameTypeOK /\ [GameNext]_gameVars =>
        [\A p \in players \cap players' : score'[p] >= score[p]]_gameVars
  <2> SUFFICES ASSUME GameTypeOK, GameNext, NEW p \in players \cap players'
               PROVE  score'[p] >= score[p]
    BY DEF GameTypeOK
  <2>0. score \in [Ids -> Nat] /\ p \in Ids /\ score[p] >= score[p]
    BY DEF GameTypeOK
  <2>1. CASE \E id \in Ids : AddPlayer(id) \/ RemovePlayer(id)
    BY <2>0, <2>1 DEF AddPlayer, RemovePlayer, EraseState
  <2>2. CASE \E liarCaught, hasMajority \in BOOLEAN, votedOutId \in Ids \cup {Nobody} :
               CalculateAndApplyScores(liarCaught, votedOutId, hasMajority, Ids)
    BY <2>0, <2>2, ScoresType
  <2>3. CASE ClearAllPlayers
    BY <2>3 DEF ClearAllPlayers
  <2>4. CASE UNCHANGED score
    BY <2>0, <2>4
  <2> QED
    BY <2>1, <2>2, <2>3, <2>4
       DEF GameNext, StartNewRound, gameVars, SubmitVote, ClearVotes, ClearRound
<1> QED
  BY <1>1, GameType, PTL DEF GameSpec, ScoresSurvive
=============================================================================
