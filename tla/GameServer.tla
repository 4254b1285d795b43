----------------------------- MODULE GameServer -----------------------------
(***************************************************************************)
(* The packet callback of the game server (src/server/game_server.cpp) run *)
(* by the handler threads of Server::handleClient, one per client.         *)
(*                                                                         *)
(* The callback takes no lock of its own.  Each of its calls into          *)
(* GameState locks and unlocks mutex_ separately, so between any two of    *)
(* them every other thread may run: one action per such call, pc[c] naming *)
(* the call the thread of client c makes next and frame[c] holding the     *)
(* local variables that outlive a call.  clearRound is called here without *)
(* the lock.  It is one action per store, and these stores fall between    *)
(* those of another thread's call too: startNewRound, submitVote and       *)
(* calculateAndApplyScores, which such a store can surprise, are taken     *)
(* apart where it can.  In the others the order of the two makes no        *)
(* difference, so they remain one action.  A store is atomic, and so is    *)
(* one look into, or change of, a container; find and operator[] with the  *)
(* same key (game_state.cpp:272-273 and 279-280) are taken as one look.    *)
(*                                                                         *)
(* A client sends PLAYER_JOIN first and then lines of chat, as             *)
(* game_client.cpp does; the lines that are not /vote commands change      *)
(* nothing in the game.  The packets that keep the list of players of the  *)
(* clients up to date (GAME_STATE_UPDATE, PLAYER_JOINED, PLAYER_LEAVE)     *)
(* read the game and change nothing in it either: module LobbyView.        *)
(***************************************************************************)
EXTENDS GameState

CONSTANTS MaxVotes,   (* bound: /vote commands the clients send in all      *)
          MaxLeaves   (* bound: clients that disconnect                     *)

ASSUME BoundsAssumption == MaxVotes \in Nat /\ MaxLeaves \in Nat

VARIABLES pc,        (* what the thread of a client does next               *)
          frame,     (* its local variables                                 *)
          sent,      (* how many /vote commands have been sent              *)
          scored     (* history: the last round that changed a score        *)

vars == <<gameVars, pc, frame, sent, scored>>

(* Threads with no packet to handle.                                       *)
Home == {"new", "recv", "gone"}

(* clearRound, one stage per store.                                        *)
ClearStages == {"clearFlag", "clearTopic", "clearWord", "clearLiar",
                "clearBallot", "clearRoles"}

(* startNewRound, from its clearRound to its last store.                   *)
Starting == {"pickWord", "pickLiar", "dealRoles"}

StartStages == {"canStart", "isActive", "start", "deal"} \cup Starting

VoteStages  == {"lookup", "submit", "record", "total", "snapshot", "count",
                "verdict", "score"}

LeaveStages == {"remove", "enough"}

Stages == Home \cup ClearStages \cup StartStages \cup VoteStages \cup LeaveStages

(* The verdict on a round: winnerId, hasMajority and liarCaught.           *)
Verdicts == [winner : Ids \cup {Nobody}, majority : BOOLEAN, caught : BOOLEAN]

Frames == [target    : Ids \cup {Nobody},     (* targetId                   *)
           total     : Nat,                   (* totalPlayers               *)
           toVisit   : SUBSET Ids,            (* those a loop has yet to    *)
                                              (* come to                    *)
           counted   : Nat,                   (* votesCount                 *)
           tally     : [Ids -> Nat],
           verdict   : Verdicts,
           wasActive : BOOLEAN]               (* roundWasActive             *)

Blank == [target |-> Nobody, total |-> 0, toVisit |-> {}, counted |-> 0,
          tally |-> [p \in Ids |-> 0],
          verdict |-> [winner |-> Nobody, majority |-> FALSE, caught |-> FALSE],
          wasActive |-> FALSE]

Init ==
  /\ GameInit
  /\ pc = [c \in Ids |-> "new"]
  /\ frame = [c \in Ids |-> Blank]
  /\ sent = 0
  /\ scored = 0

----------------------------------------------------------------------------
(* The thread of c, having done stage `from`, goes on to stage `to`.       *)
Goto(c, from, to) ==
  /\ pc[c] = from
  /\ pc' = [pc EXCEPT ![c] = to]

(* Where a finished handler goes: back to recv(), or out of handleClient   *)
(* when it was the one that removed the player.                            *)
Return(c) == IF c \in players THEN "recv" ELSE "gone"

(* A call that only reads the game.                                        *)
Reads == UNCHANGED <<gameVars, sent, scored>>

(* A call that writes the game and no local variable.                      *)
Keep == UNCHANGED <<frame, sent, scored>>

(* The local variables go out of scope.                                    *)
Drop(c) == frame' = [frame EXCEPT ![c] = Blank]

(* Stages between which a thread keeps mutex_.                             *)
Locking == Starting \cup {"record"}

(* c can lock mutex_, or has it.                                           *)
MutexFree(c) == \A d \in Ids \ {c} : pc[d] \notin Locking

(* Another thread may be in the middle of clearRound.                      *)
OthersClear(c) == \E d \in Ids \ {c} : pc[d] \in ClearStages

----------------------------------------------------------------------------
(* startNewRoundIfPossible.                                                *)

TestCanStart(c) ==
  /\ Goto(c, "canStart", IF CanStartRound THEN "isActive" ELSE Return(c))
  /\ Reads /\ UNCHANGED frame

TestActive(c) ==
  /\ Goto(c, "isActive", IF roundActive THEN Return(c) ELSE "start")
  /\ Reads /\ UNCHANGED frame

(* Faulty variant: no clearRound, since the callers have called it.        *)
BeginRoundUncleared(c) ==
  \/ /\ Goto(c, "start", "deal")
     /\ ~CanStartRound
     /\ Reads /\ UNCHANGED frame
  \/ /\ Goto(c, "start", "pickWord")
     /\ CanStartRound
     /\ round' = round + 1
     /\ topic' = round'
     /\ Keep
     /\ UNCHANGED <<players, role, score, roundActive, word, liar, votes>>

(* startNewRound: the call of clearRound and the store of the topic, then  *)
(* one step for each of the stores that follow.                            *)
BeginRound(c) ==
  \/ /\ Goto(c, "start", "deal")
     /\ ~CanStartRound
     /\ Reads /\ UNCHANGED frame
  \/ /\ Goto(c, "start", "pickWord")
     /\ CanStartRound
     /\ round' = round + 1
     /\ ClearFlag /\ ClearWord /\ ClearLiar /\ ClearBallot /\ ClearRoles
     /\ topic' = round'
     /\ Keep
     /\ UNCHANGED <<players, score>>

PickWord(c) ==
  /\ Goto(c, "pickWord", "pickLiar")
  /\ word' = round
  /\ Keep
  /\ UNCHANGED <<players, role, score, roundActive, topic, liar, votes, round>>

PickLiar(c) ==
  /\ Goto(c, "pickLiar", "dealRoles")
  /\ \E l \in players : liar' = l
  /\ Keep
  /\ UNCHANGED <<players, role, score, roundActive, topic, word, votes, round>>

(* The loop asks currentLiarId_ who is the liar: somebody else's           *)
(* clearRound may have set it to 0, and then there are guessers only.      *)
DealRoles(c) ==
  /\ Goto(c, "dealRoles", "deal")
  /\ role' = RolesDealt(liar)
  /\ roundActive' = TRUE
  /\ Keep
  /\ UNCHANGED <<players, score, topic, word, liar, votes, round>>

(* The getters and the ROLE_ASSIGNMENT packets that follow change nothing  *)
(* in the game; module RoleDealing takes them one by one.                  *)
Deal(c) ==
  /\ Goto(c, "deal", Return(c))
  /\ Reads /\ UNCHANGED frame

----------------------------------------------------------------------------
(* case PLAYER_JOIN.                                                       *)

Join(c) ==
  /\ Goto(c, "new", "canStart")
  /\ AddPlayer(c)
  /\ Keep

----------------------------------------------------------------------------
(* case CHAT_MESSAGE, a "/vote <username>" line.                           *)

(* Without a running round the command changes nothing and is not counted. *)
VoteCommand(c) ==
  /\ sent < MaxVotes
  /\ sent' = sent + 1
  /\ roundActive
  /\ Goto(c, "recv", "lookup")
  /\ UNCHANGED <<gameVars, frame, scored>>

(* The first player, in hash order, that bears the name; usernames need    *)
(* not be unique, so that may be any player.  Or no player bears it.       *)
Lookup(c) ==
  \/ \E t \in players :
       /\ Goto(c, "lookup", "submit")
       /\ frame' = [frame EXCEPT ![c].target = t]
       /\ Reads
  \/ Goto(c, "lookup", "recv") /\ Reads /\ UNCHANGED frame

(* submitVote: the round is looked at first and the vote recorded last.    *)
Submit(c) ==
  \/ roundActive /\ Goto(c, "submit", "record") /\ Reads /\ UNCHANGED frame
  \/ ~roundActive /\ Goto(c, "submit", "recv") /\ Reads /\ Drop(c)

Record(c) ==
  \/ /\ Goto(c, "record", "total")
     /\ VoteCounts(c, frame[c].target)
     /\ votes' = [votes EXCEPT ![c] = frame[c].target]
     /\ Drop(c)
     /\ UNCHANGED <<players, role, score, roundActive, topic, word, liar, round,
                    sent, scored>>
  \/ /\ Goto(c, "record", "recv")
     /\ ~VoteCounts(c, frame[c].target)
     /\ Drop(c)
     /\ Reads

ReadTotal(c) ==
  /\ Goto(c, "total", "snapshot")
  /\ frame' = [frame EXCEPT ![c].total = Cardinality(players)]
  /\ Reads

Snapshot(c) ==
  /\ Goto(c, "snapshot", "count")
  /\ frame' = [frame EXCEPT ![c].toVisit = players]
  /\ Reads

(* hasPlayerVoted locks once for every player of the snapshot.             *)
CountVote(c) ==
  \E p \in frame[c].toVisit :
    /\ pc[c] = "count"
    /\ frame' = [frame EXCEPT ![c].toVisit = @ \ {p},
                              ![c].counted = IF HasPlayerVoted(p) THEN @ + 1 ELSE @]
    /\ UNCHANGED <<gameVars, pc, sent, scored>>

EveryoneVoted(c) == frame[c].toVisit = {} /\ frame[c].counted >= frame[c].total

StopCounting(c) ==
  /\ frame[c].toVisit = {}
  /\ ~EveryoneVoted(c)
  /\ Goto(c, "count", "recv")
  /\ Drop(c)
  /\ Reads

ReadTally(c) ==
  /\ EveryoneVoted(c)
  /\ Goto(c, "count", "verdict")
  /\ frame' = [frame EXCEPT ![c].tally = VoteTally, ![c].counted = 0]
  /\ Reads

(* The target the loop over the tally ends with: the first, in hash order, *)
(* with the most votes, or 0 for an empty tally.                           *)
Winners(tally) ==
  IF \A p \in Ids : tally[p] = 0
  THEN {Nobody}
  ELSE {p \in Ids : \A q \in Ids : tally[q] <= tally[p]}

HasPlurality(tally, winner, total) ==     (* faulty variant: half is enough *)
  winner # Nobody /\ tally[winner] >= total \div 2

HasMajority(tally, winner, total) ==
  winner # Nobody /\ tally[winner] > total \div 2

(* getCurrentLiarId, the verdict and the VOTE_RESULT broadcast.            *)
ReadLiarAndJudge(c) ==
  \E w \in Winners(frame[c].tally) :
    LET majority == HasMajority(frame[c].tally, w, frame[c].total)
    IN  /\ frame' = [frame EXCEPT ![c] =
              [Blank EXCEPT !.verdict = [winner   |-> w,
                                         majority |-> majority,
                                         caught   |-> majority /\ w = liar]]]
        /\ Goto(c, "verdict", "score")
        /\ Reads

(* Whose role and vote are still there when calculateAndApplyScores comes  *)
(* to them: some, if clearRound is running meanwhile.                      *)
Seen(c) == IF OthersClear(c) THEN SUBSET Ids ELSE {Ids}

(* Faulty variant: only the votes are cleared, the round goes on.          *)
ApplyScoresAndVoteOn(c) ==
  LET v == frame[c].verdict
  IN  /\ Goto(c, "score", "clearBallot")
      /\ \E seen \in Seen(c) :
           CalculateAndApplyScores(v.caught, v.winner, v.majority, seen)
      /\ scored' = IF score' = score THEN scored ELSE round
      /\ Drop(c)
      /\ UNCHANGED sent

ApplyScores(c) ==
  LET v == frame[c].verdict
  IN  /\ Goto(c, "score", "clearFlag")
      /\ \E seen \in Seen(c) :
           CalculateAndApplyScores(v.caught, v.winner, v.majority, seen)
      /\ scored' = IF score' = score THEN scored ELSE round
      /\ Drop(c)
      /\ UNCHANGED sent

----------------------------------------------------------------------------
(* gameState.clearRound(), called without mutex_ after a vote and after a  *)
(* departure: five stores and a loop over the players.                     *)

StoreFlag(c) ==
  /\ Goto(c, "clearFlag", "clearTopic") /\ ClearFlag /\ Keep
  /\ UNCHANGED <<players, role, score, topic, word, liar, votes, round>>

StoreTopic(c) ==
  /\ Goto(c, "clearTopic", "clearWord") /\ ClearTopic /\ Keep
  /\ UNCHANGED <<players, role, score, roundActive, word, liar, votes, round>>

StoreWord(c) ==
  /\ Goto(c, "clearWord", "clearLiar") /\ ClearWord /\ Keep
  /\ UNCHANGED <<players, role, score, roundActive, topic, liar, votes, round>>

StoreLiar(c) ==
  /\ Goto(c, "clearLiar", "clearBallot") /\ ClearLiar /\ Keep
  /\ UNCHANGED <<players, role, score, roundActive, topic, word, votes, round>>

(* Faulty variant: the loop over the players is forgotten.                 *)
StoreBallotLast(c) ==
  /\ Goto(c, "clearBallot", "clearRoles") /\ ClearBallot /\ Keep
  /\ UNCHANGED <<players, role, score, roundActive, topic, word, liar, round>>

(* Every id is visited, now or after it joined: the loop may meet a player *)
(* that joins meanwhile, or miss it.                                       *)
StoreBallot(c) ==
  /\ Goto(c, "clearBallot", "clearRoles") /\ ClearBallot
  /\ frame' = [frame EXCEPT ![c].toVisit = Ids]
  /\ UNCHANGED <<players, role, score, roundActive, topic, word, liar, round,
                 sent, scored>>

StoreRole(c) ==
  \E p \in frame[c].toVisit :
    /\ pc[c] = "clearRoles"
    /\ role' = [role EXCEPT ![p] = "NONE"]
    /\ frame' = [frame EXCEPT ![c].toVisit = @ \ {p}]
    /\ UNCHANGED <<players, score, roundActive, topic, word, liar, votes, round,
                   pc, sent, scored>>

EndClear(c) ==
  /\ frame[c].toVisit = {}
  /\ Goto(c, "clearRoles", IF c \in players THEN "canStart" ELSE "enough")
  /\ Reads /\ UNCHANGED frame

----------------------------------------------------------------------------
(* case PLAYER_LEAVE: recv() reported the end of the connection.           *)

Departed == {c \in Ids : pc[c] = "remove" \/ (pc[c] # "new" /\ c \notin players)}

Leave(c) ==
  /\ Cardinality(Departed) < MaxLeaves
  /\ Goto(c, "recv", "remove")
  /\ frame' = [frame EXCEPT ![c].wasActive = roundActive]
  /\ Reads

(* Faulty variant: the round goes on without the player.                   *)
RemoveOnly(c) ==
  /\ Goto(c, "remove", "enough")
  /\ RemovePlayer(c)
  /\ Drop(c)
  /\ UNCHANGED <<sent, scored>>

Remove(c) ==
  /\ Goto(c, "remove", IF frame[c].wasActive THEN "clearFlag" ELSE "enough")
  /\ RemovePlayer(c)
  /\ Drop(c)
  /\ UNCHANGED <<sent, scored>>

(* Faulty variant: off by one.                                             *)
TestMoreThanEnough(c) ==
  /\ Goto(c, "enough", IF Cardinality(players) <= MinPlayers THEN "gone" ELSE "canStart")
  /\ Reads /\ UNCHANGED frame

TestEnough(c) ==
  /\ Goto(c, "enough", IF Cardinality(players) < MinPlayers THEN "gone" ELSE "canStart")
  /\ Reads /\ UNCHANGED frame

----------------------------------------------------------------------------
StartRoundStep(c) ==
  \/ TestCanStart(c) \/ TestActive(c)
  \/ BeginRound(c) \/ PickWord(c) \/ PickLiar(c) \/ DealRoles(c)

VoteStep(c) ==
  \/ Lookup(c) \/ Submit(c) \/ Record(c)
  \/ ReadTotal(c) \/ Snapshot(c) \/ CountVote(c) \/ StopCounting(c)
  \/ ReadTally(c) \/ ReadLiarAndJudge(c) \/ ApplyScores(c)

ClearStep(c) ==
  \/ StoreFlag(c) \/ StoreTopic(c) \/ StoreWord(c)
  \/ StoreLiar(c) \/ StoreBallot(c) \/ StoreRole(c) \/ EndClear(c)

LeaveStep(c) == Remove(c) \/ TestEnough(c)

(* What a thread does once it has a packet, and what clients make it have: *)
(* calls that need mutex_, clearRound and the sending, which do not.       *)
LockedStep(c)  == MutexFree(c) /\ (StartRoundStep(c) \/ VoteStep(c) \/ LeaveStep(c))
HandlerStep(c) == LockedStep(c) \/ ClearStep(c) \/ Deal(c)
Packet(c)      == MutexFree(c) /\ (Join(c) \/ VoteCommand(c) \/ Leave(c))

Next == \E c \in Ids : HandlerStep(c) \/ Packet(c)

(* The operating system runs every handler thread; no client has to send.  *)
Fairness == \A c \in Ids : WF_vars(HandlerStep(c))

(* No other thread has a packet to handle, and none at all has.            *)
Alone(c) == \A d \in Ids \ {c} : pc[d] \in Home
Quiet    == \A c \in Ids : pc[c] \in Home

Spec     == Init /\ [][Next]_vars
FairSpec == Spec /\ Fairness
----------------------------------------------------------------------------
(* Properties that hold whatever the threads do.                           *)

(* The game is well-typed, and so is what the threads have in hand.        *)
TypeOK ==
  /\ GameTypeOK
  /\ pc \in [Ids -> Stages]
  /\ frame \in [Ids -> Frames]
  /\ sent \in 0..MaxVotes
  /\ scored \in 0..round

(* A vote may be recorded outside a round: clearRound, which does not wait *)
(* for mutex_, can run between the check of roundActive_ and the store in  *)
(* submitVote (game_state.cpp:223 and 236), and nobody is left to clear    *)
(* that vote.  It never counts: a round starts without votes.              *)
LateVotesAreForgotten ==
  [][~roundActive /\ roundActive' => votes' = NoVotes]_vars

(* removePlayer and startNewRound exclude each other, so the player that   *)
(* is hunted is never one that left (game_state.cpp:59).                   *)
LiarIsPlaying == liar # Nobody => liar \in players

(* Who has the role of liar is the player the guessers hunt, or is about   *)
(* to lose the role to a clearRound on its way (game_state.cpp:145-155 and *)
(* 167-172), however rounds start and are cleared over one another.        *)
WillVisit(c, p) ==
  \/ pc[c] = "clearBallot"
  \/ pc[c] = "clearRoles" /\ p \in frame[c].toVisit

LiarIsHunted ==
  \A p \in Ids : role[p] = "LIAR" => liar = p \/ \E c \in Ids : WillVisit(c, p)

(* README.md:18-19, "immediately starts the next round", "the next round   *)
(* is started once enough players remain": between packets, with 3 to 6    *)
(* players in the game, a round is running.  Whatever overlapping joins,   *)
(* votes and departures did, somebody was left to start it.                *)
QuietGameIsRunning == Quiet /\ CanStartRound => roundActive

(* The same as progress: a game that could run a round and does not gets   *)
(* one, or loses its players.                                              *)
RoundGetsStarted ==
  CanStartRound /\ ~roundActive ~> ~CanStartRound \/ roundActive

----------------------------------------------------------------------------
(* Properties that hold of packets handled one at a time, and that the     *)
(* concurrent server breaks.                                               *)

(* README.md:23-24: a round gives points once.                             *)
PointsOncePerRound ==
  [][(\E p \in Ids : score'[p] > score[p]) => scored < round]_vars

(* README.md:37, "each player can vote once per round": until its round is *)
(* over a vote stays what it is, unless its voter or its target leaves.    *)
BallotsAreKept ==
  [][\A v \in players : HasPlayerVoted(v) =>
       \/ votes'[v] = votes[v]
       \/ ~roundActive'
       \/ round' # round
       \/ ~({v, votes[v]} \subseteq players')]_vars

(* README.md:10 and 38: between packets, a round that is running has a     *)
(* liar and the players it takes.                                          *)
RoundIsPlayable ==
  Quiet /\ roundActive => liar # Nobody /\ Cardinality(players) >= MinPlayers

(* README.md:18, "when every connected player has voted the server reveals *)
(* the results": between packets, somebody has yet to vote.                *)
VotedRoundsAreResolved ==
  Quiet /\ roundActive => \E p \in players : ~HasPlayerVoted(p)
=============================================================================
