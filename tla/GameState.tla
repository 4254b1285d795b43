----------------------------- MODULE GameState -----------------------------
(***************************************************************************)
(* The class net::GameState (src/common/game_state.cpp): the players of    *)
(* the game, the running round and its votes.                              *)
(*                                                                         *)
(* Every public method but clearRound takes mutex_ for its whole body.     *)
(* Here each is one action, the class being used by one thread.  Module    *)
(* GameServer, where clearRound is called without the lock and so runs in  *)
(* the middle of the others, takes apart the methods that can show it.     *)
(*                                                                         *)
(* Usernames never influence the state kept here and are left out.  The    *)
(* topic and the word of a round are the number of the draw that produced  *)
(* them, 0 standing for the empty string: two draws are told apart even    *)
(* when chance repeats a word.                                             *)
(***************************************************************************)
EXTENDS Naturals, FiniteSets

CONSTANTS Ids,         (* client ids: the values nextClientId_ hands out    *)
          Nobody,      (* the id 0, which is never handed out               *)
          MinPlayers,  (* 3 in the code                                     *)
          MaxPlayers   (* 6 in the code                                     *)

ASSUME GameStateAssumption ==
  /\ IsFiniteSet(Ids)
  /\ Nobody \notin Ids
  /\ MinPlayers \in Nat \ {0}
  /\ MaxPlayers \in Nat
  /\ MinPlayers <= MaxPlayers

VARIABLES players,      (* the keys of players_                             *)
          role,         (* players_[id].role, NONE for an absent id         *)
          score,        (* players_[id].score, 0 for an absent id           *)
          roundActive,  (* roundActive_                                     *)
          topic,        (* currentTopic_                                    *)
          word,         (* currentWord_                                     *)
          liar,         (* currentLiarId_                                   *)
          votes,        (* votes_: voter -> target, Nobody for no vote      *)
          round         (* history: how many topics have been drawn         *)

gameVars ==
  <<players, role, score, roundActive, topic, word, liar, votes, round>>

Roles   == {"NONE", "LIAR", "GUESSER"}
NoRoles == [p \in Ids |-> "NONE"]
NoVotes == [p \in Ids |-> Nobody]

----------------------------------------------------------------------------
(* Queries, each made under mutex_.                                        *)

CanStartRound == Cardinality(players) \in MinPlayers..MaxPlayers

HasPlayerVoted(id) == votes[id] # Nobody

VoteTally == [t \in Ids |-> Cardinality({v \in Ids : votes[v] = t})]

(* Faulty variants of VoteCounts, for the runs to reject.                  *)
VoteCountsAgain(voter, target)      == {voter, target} \subseteq players
VoteCountsForTheGone(voter, target) == ~HasPlayerVoted(voter) /\ voter \in players

(* What submitVote checks, after roundActive_, before it records the vote. *)
VoteCounts(voter, target) ==
  /\ ~HasPlayerVoted(voter)
  /\ {voter, target} \subseteq players

----------------------------------------------------------------------------
(* Constructor and methods.                                                *)

GameInit ==
  /\ players = {}
  /\ role = NoRoles
  /\ score = [p \in Ids |-> 0]
  /\ roundActive = FALSE
  /\ topic = 0
  /\ word = 0
  /\ liar = Nobody
  /\ votes = NoVotes
  /\ round = 0

AddPlayer(id) ==
  /\ id \notin players
  /\ players' = players \cup {id}
  /\ role' = [role EXCEPT ![id] = "NONE"]
  /\ score' = [score EXCEPT ![id] = 0]
  /\ UNCHANGED <<roundActive, topic, word, liar, votes, round>>

(* What erasing a player from players_ and votes_ leaves, each after a     *)
(* faulty variant.                                                         *)
EraseNothing(id) == UNCHANGED <<role, score>>
EraseState(id) == /\ role' = [role EXCEPT ![id] = "NONE"]
                  /\ score' = [score EXCEPT ![id] = 0]

OwnVoteErased(id) == [votes EXCEPT ![id] = Nobody]
VotesErased(id) ==
  [v \in Ids |-> IF id \in {v, votes[v]} THEN Nobody ELSE votes[v]]

LiarKept(id) == liar
LiarErased(id) == IF liar = id THEN Nobody ELSE liar

RemovePlayer(id) ==
  /\ id \in players
  /\ players' = players \ {id}
  /\ EraseState(id)
  /\ votes' = VotesErased(id)
  /\ liar' = LiarErased(id)
  /\ UNCHANGED <<roundActive, topic, word, round>>

(* The roles handed out when l is the liar, who may be nobody; the faulty  *)
(* variant skips those who still have one.                                 *)
RolesDealtOver(l) ==
  [p \in Ids |-> IF p \notin players \/ (p # l /\ role[p] # "NONE") THEN role[p]
                 ELSE IF p = l THEN "LIAR" ELSE "GUESSER"]
RolesDealt(l) ==
  [p \in Ids |-> IF p \notin players THEN "NONE"
                 ELSE IF p = l THEN "LIAR" ELSE "GUESSER"]

(* startNewRound checks the number of players again and does nothing when  *)
(* it is out of range; it does not look at roundActive_.                   *)
StartNewRound ==
  \/ /\ ~CanStartRound
     /\ UNCHANGED gameVars
  \/ /\ CanStartRound
     /\ \E l \in players : liar' = l /\ role' = RolesDealt(l)
     /\ round' = round + 1
     /\ topic' = round'
     /\ word' = round'
     /\ votes' = NoVotes
     /\ roundActive' = TRUE
     /\ UNCHANGED <<players, score>>

SubmitVote(voter, target) ==
  /\ roundActive
  /\ VoteCounts(voter, target)
  /\ votes' = [votes EXCEPT ![voter] = target]
  /\ UNCHANGED <<players, role, score, roundActive, topic, word, liar, round>>

ClearVotes ==
  /\ votes' = NoVotes
  /\ UNCHANGED <<players, role, score, roundActive, topic, word, liar, round>>

(* += points for each of ids; the faulty variant assigns.                  *)
AwardAssigned(ids, points) ==
  [p \in Ids |-> IF p \in ids THEN points ELSE score[p]]
Award(ids, points) ==
  [p \in Ids |-> IF p \in ids THEN score[p] + points ELSE score[p]]

CorrectGuessers ==
  {p \in players : role[p] = "GUESSER" /\ votes[p] = liar}

(* The players in `seen` still had what is asked of them when the loop     *)
(* came to them: everybody, in a class used by one thread.                 *)
CalculateAndApplyScores(liarCaught, votedOutId, hasMajority, seen) ==
  LET counts   == roundActive /\ liar # Nobody
      caught   == liarCaught /\ votedOutId = liar /\ hasMajority
      survived == ~liarCaught /\ hasMajority /\ votedOutId # liar
  IN  /\ score' = CASE counts /\ caught   -> Award(CorrectGuessers \cap seen, 1)
                    [] counts /\ survived -> Award({liar} \cap players \cap seen, 2)
                    [] OTHER              -> score
      /\ UNCHANGED <<players, role, roundActive, topic, word, liar, votes, round>>

(* The stores of clearRound, in program order.                             *)
ClearFlag   == roundActive' = FALSE
ClearTopic  == topic' = 0
ClearWord   == word' = 0
ClearLiar   == liar' = Nobody
KeepBallot  == UNCHANGED votes      (* faulty variant of ClearBallot        *)
ClearBallot == votes' = NoVotes
ClearRoles  == role' = NoRoles

ClearRound ==
  /\ ClearFlag /\ ClearTopic /\ ClearWord /\ ClearLiar /\ ClearBallot /\ ClearRoles
  /\ UNCHANGED <<players, score, round>>

ClearAllPlayers ==
  /\ players' = {}
  /\ score' = [p \in Ids |-> 0]
  /\ ClearFlag /\ ClearTopic /\ ClearWord /\ ClearLiar /\ ClearBallot /\ ClearRoles
  /\ UNCHANGED round

----------------------------------------------------------------------------
(* The class used by one thread: any method, with any argument, any time.  *)

GameNext ==
  \/ \E id \in Ids : AddPlayer(id) \/ RemovePlayer(id)
  \/ StartNewRound
  \/ \E voter, target \in Ids : SubmitVote(voter, target)
  \/ ClearVotes
  \/ \E liarCaught, hasMajority \in BOOLEAN, votedOutId \in Ids \cup {Nobody} :
       CalculateAndApplyScores(liarCaught, votedOutId, hasMajority, Ids)
  \/ ClearRound
  \/ ClearAllPlayers

GameSpec == GameInit /\ [][GameNext]_gameVars

----------------------------------------------------------------------------
(* Properties.                                                             *)

(* Every field has its type, and an id that is not in players_ has the     *)
(* default PlayerState.                                                    *)
GameTypeOK ==
  /\ players \subseteq Ids
  /\ role \in [Ids -> Roles]
  /\ score \in [Ids -> Nat]
  /\ \A p \in Ids \ players : role[p] = "NONE" /\ score[p] = 0
  /\ roundActive \in BOOLEAN
  /\ liar \in Ids \cup {Nobody}
  /\ votes \in [Ids -> Ids \cup {Nobody}]
  /\ round \in Nat
  /\ topic \in 0..round
  /\ word \in 0..round

(* removePlayer leaves no dangling vote: whoever voted, and whoever is     *)
(* voted for, is in the game.                                              *)
VotesAmongPlayers ==
  \A v \in Ids : HasPlayerVoted(v) => {v, votes[v]} \subseteq players

(* currentLiarId_ and the roles kept in players_ tell the same story: the  *)
(* current liar is the one player whose role is LIAR, also after the liar  *)
(* left or a second round was started over the first.                      *)
LiarMatchesRoles ==
  \A p \in Ids : role[p] = "LIAR" <=> liar = p

(* Nothing of a round outlives it: no topic, word, liar, vote or role.     *)
IdleIsBlank ==
  ~roundActive => /\ topic = 0 /\ word = 0
                  /\ liar = Nobody
                  /\ votes = NoVotes
                  /\ role = NoRoles

(* A player keeps its points whatever happens to rounds, votes and the     *)
(* other players; only its own departure forgets them.                     *)
ScoresSurvive ==
  [][\A p \in players \cap players' : score'[p] >= score[p]]_gameVars
=============================================================================
