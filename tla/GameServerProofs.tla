-------------------------- MODULE GameServerProofs --------------------------
(***************************************************************************)
(* What the game server guarantees however its threads interleave, for any *)
(* number of clients, votes and departures and any limits on the players.  *)
(***************************************************************************)
EXTENDS GameServer, GameStateProofs, FiniteSetTheorems

----------------------------------------------------------------------------
(* Types.                                                                  *)

(* A blank frame, the locals of a thread with no packet, is a frame.       *)
LEMMA BlankType == Blank \in Frames
BY DEF Blank, Frames, Verdicts

(* Whatever is counted about players is a number.                          *)
LEMMA Counts ==
  ASSUME GameTypeOK
  PROVE  Cardinality(players) \in Nat /\ VoteTally \in [Ids -> Nat]
<1>1. \A S \in SUBSET Ids : Cardinality(S) \in Nat
  BY GameStateAssumption, FS_Subset, FS_CardinalityType
<1> QED
  BY <1>1 DEF GameTypeOK, VoteTally

(* Moving one thread to another stage keeps pc well-typed.                 *)
LEMMA GotoType ==
  ASSUME pc \in [Ids -> Stages], NEW c \in Ids, NEW from, NEW to \in Stages,
         Goto(c, from, to)
  PROVE  pc' \in [Ids -> Stages]
BY DEF Goto

(* A thread whose locals go out of scope is left with a frame.             *)
LEMMA DropType ==
  ASSUME frame \in [Ids -> Frames], NEW c \in Ids, Drop(c)
  PROVE  frame' \in [Ids -> Frames]
BY BlankType DEF Drop

(* Setting local variables to values of their types.                       *)
LEMMA LocalType ==
  ASSUME NEW f \in Frames
  PROVE  /\ \A t \in Ids \cup {Nobody} : [f EXCEPT !.target = t] \in Frames
         /\ \A n \in Nat : [f EXCEPT !.total = n] \in Frames
         /\ \A S \in SUBSET Ids : [f EXCEPT !.toVisit = S] \in Frames
         /\ \A S \in SUBSET Ids, n \in Nat :
              [f EXCEPT !.toVisit = S, !.counted = n] \in Frames
         /\ \A t \in [Ids -> Nat] : [f EXCEPT !.tally = t, !.counted = 0] \in Frames
         /\ \A b \in BOOLEAN : [f EXCEPT !.wasActive = b] \in Frames
BY DEF Frames

(* A call that only reads the game keeps the types of what it leaves       *)
(* alone.                                                                  *)
LEMMA ReadsType ==
  ASSUME TypeOK, Reads
  PROVE  GameTypeOK' /\ sent' \in 0..MaxVotes /\ scored' \in 0..round'
BY DEF Reads, gameVars, TypeOK, GameTypeOK

(* So does a call that writes the game, if the game stays well-typed.      *)
LEMMA KeepType ==
  ASSUME TypeOK, Keep, GameTypeOK', round' \in {round, round + 1}
  PROVE  sent' \in 0..MaxVotes /\ scored' \in 0..round' /\ frame' \in [Ids -> Frames]
BY DEF Keep, TypeOK, GameTypeOK

(* startNewRoundIfPossible keeps the types.                                *)
LEMMA StartRoundStepType ==
  ASSUME TypeOK, NEW c \in Ids, StartRoundStep(c) \/ Deal(c)
  PROVE  TypeOK'
<1> USE DEF TypeOK
<1>1. pc' \in [Ids -> Stages]
  BY DEF StartRoundStep, TestCanStart, TestActive, BeginRound, PickWord, PickLiar,
         DealRoles, Deal, Goto, Return, Stages, StartStages, Starting, Home
<1>2. CASE Reads /\ UNCHANGED frame
  BY <1>1, <1>2, ReadsType
<1>3. CASE BeginRound(c) /\ CanStartRound
  <2>1. /\ round' = round + 1 /\ topic' = round'
        /\ ClearFlag /\ ClearWord /\ ClearLiar /\ ClearBallot /\ ClearRoles
        /\ UNCHANGED <<players, score>> /\ Keep
    BY <1>3 DEF BeginRound
  <2>2. role' \in [Ids -> Roles] /\ \A p \in Ids : role'[p] = "NONE"
    BY <2>1 DEF ClearRoles, NoRoles, Roles
  <2>3. liar' \in Ids \cup {Nobody} /\ votes' \in [Ids -> Ids \cup {Nobody}]
    BY <2>1 DEF ClearLiar, ClearBallot, NoVotes
  <2>4. GameTypeOK'
    <3>1. /\ players' \subseteq Ids /\ score' \in [Ids -> Nat]
          /\ \A p \in Ids \ players' : score'[p] = 0
      BY <2>1 DEF GameTypeOK
    <3>2. round' \in Nat /\ topic' \in 0..round' /\ word' \in 0..round'
      BY <2>1 DEF ClearWord, GameTypeOK
    <3>3. roundActive' \in BOOLEAN
      BY <2>1 DEF ClearFlag
    <3> QED
      BY <2>2, <2>3, <3>1, <3>2, <3>3 DEF GameTypeOK
  <2> QED
    BY <1>1, <2>1, <2>4, KeepType
<1>4. CASE PickWord(c)
  BY <1>1, <1>4, KeepType DEF PickWord, GameTypeOK
<1>5. CASE PickLiar(c)
  BY <1>1, <1>5, KeepType DEF PickLiar, GameTypeOK
<1>6. CASE DealRoles(c)
  <2>1. role' \in [Ids -> Roles] /\ \A p \in Ids \ players : role'[p] = "NONE"
    BY <1>6 DEF DealRoles, RolesDealt, Roles
  <2>2. GameTypeOK'
    BY <1>6, <2>1 DEF DealRoles, GameTypeOK
  <2> QED
    BY <1>1, <1>6, <2>2, KeepType DEF DealRoles
<1> QED
  BY <1>2, <1>3, <1>4, <1>5, <1>6
     DEF StartRoundStep, TestCanStart, TestActive, BeginRound, Deal

(* Handling a /vote command, from lookup to scores, keeps the types.       *)
LEMMA VoteStepType ==
  ASSUME TypeOK, NEW c \in Ids, VoteStep(c)
  PROVE  TypeOK'
<1> USE DEF TypeOK
<1>1. CASE Lookup(c)
  <2>1. pc' \in [Ids -> Stages]
    BY <1>1 DEF Lookup, Goto, Stages, VoteStages, Home
  <2>2. frame' \in [Ids -> Frames]
    <3>1. CASE UNCHANGED frame
      BY <3>1
    <3>2. ASSUME NEW t \in players, frame' = [frame EXCEPT ![c].target = t]
          PROVE  frame' \in [Ids -> Frames]
      <4>1. [frame[c] EXCEPT !.target = t] \in Frames
        BY LocalType DEF GameTypeOK
      <4> QED
        BY <3>2, <4>1
    <3> QED
      BY <1>1, <3>1, <3>2 DEF Lookup
  <2> QED
    BY <1>1, <2>1, <2>2, ReadsType DEF Lookup
<1>2. CASE Submit(c) \/ Record(c)
  <2>1. pc' \in [Ids -> Stages] /\ frame' \in [Ids -> Frames]
    BY <1>2, DropType DEF Submit, Record, Reads, Goto, Stages, VoteStages, Home
  <2>2. CASE Reads
    BY <2>1, <2>2, ReadsType
  <2>3. CASE /\ VoteCounts(c, frame[c].target)
             /\ votes' = [votes EXCEPT ![c] = frame[c].target]
             /\ UNCHANGED <<players, role, score, roundActive, topic, word, liar, round,
                            sent, scored>>
    BY <2>1, <2>3 DEF VoteCounts, GameTypeOK
  <2> QED
    BY <1>2, <2>2, <2>3 DEF Submit, Record
<1>3. CASE ReadTotal(c) \/ Snapshot(c) \/ ReadTally(c)
  <2>1. pc' \in [Ids -> Stages]
    BY <1>3 DEF ReadTotal, Snapshot, ReadTally, Goto, Stages, VoteStages
  <2>2. frame' \in [Ids -> Frames]
    <3>1. CASE ReadTotal(c)
      BY <3>1, Counts, LocalType DEF ReadTotal
    <3>2. CASE Snapshot(c)
      BY <3>2, LocalType DEF Snapshot, GameTypeOK
    <3>3. CASE ReadTally(c)
      BY <3>3, Counts, LocalType DEF ReadTally
    <3> QED
      BY <1>3, <3>1, <3>2, <3>3
  <2> QED
    BY <1>3, <2>1, <2>2, ReadsType DEF ReadTotal, Snapshot, ReadTally
<1>4. CASE CountVote(c)
  <2>1. frame' \in [Ids -> Frames]
    <3>1. PICK p \in frame[c].toVisit :
            frame' = [frame EXCEPT ![c].toVisit = @ \ {p},
                                   ![c].counted = IF HasPlayerVoted(p) THEN @ + 1 ELSE @]
      BY <1>4 DEF CountVote
    <3>2. /\ frame[c].toVisit \ {p} \in SUBSET Ids
          /\ (IF HasPlayerVoted(p) THEN frame[c].counted + 1 ELSE frame[c].counted) \in Nat
      BY DEF Frames
    <3> QED
      BY <3>1, <3>2, LocalType
  <2> QED
    BY <1>4, <2>1, ReadsType DEF CountVote, Reads
<1>5. CASE StopCounting(c)
  <2>1. pc' \in [Ids -> Stages]
    BY <1>5 DEF StopCounting, Goto, Stages, Home
  <2> QED
    BY <1>5, <2>1, DropType, ReadsType DEF StopCounting
<1>6. CASE ReadLiarAndJudge(c)
  <2>1. PICK w \in Winners(frame[c].tally) :
          LET majority == HasMajority(frame[c].tally, w, frame[c].total)
          IN  /\ frame' = [frame EXCEPT ![c] =
                    [Blank EXCEPT !.verdict = [winner   |-> w,
                                               majority |-> majority,
                                               caught   |-> majority /\ w = liar]]]
              /\ Goto(c, "verdict", "score")
              /\ Reads
    BY <1>6 DEF ReadLiarAndJudge
  <2>2. w \in Ids \cup {Nobody}
    BY DEF Winners
  <2>3. HasMajority(frame[c].tally, w, frame[c].total) \in BOOLEAN
    BY DEF HasMajority
  <2>4. pc' \in [Ids -> Stages]
    BY <2>1 DEF Goto, Stages, VoteStages
  <2>5. \A v \in Verdicts : [Blank EXCEPT !.verdict = v] \in Frames
    BY BlankType DEF Frames
  <2>6. \A m \in BOOLEAN :
          [winner |-> w, majority |-> m, caught |-> m /\ w = liar] \in Verdicts
    BY <2>2 DEF Verdicts
  <2>7. frame' \in [Ids -> Frames]
    BY <2>1, <2>3, <2>5, <2>6
  <2> QED
    BY <2>1, <2>4, <2>7, ReadsType
<1>7. CASE ApplyScores(c)
  <2>1. pc' \in [Ids -> Stages]
    BY <1>7 DEF ApplyScores, Goto, Stages, ClearStages
  <2>2. GameTypeOK' /\ round' = round
    BY <1>7, ScoresType DEF ApplyScores, CalculateAndApplyScores
  <2>3. scored' \in 0..round'
    BY <1>7, <2>2 DEF ApplyScores, GameTypeOK
  <2> QED
    BY <1>7, <2>1, <2>2, <2>3, DropType DEF ApplyScores
<1> QED
  BY <1>1, <1>2, <1>3, <1>4, <1>5, <1>6, <1>7 DEF VoteStep

(* Every store of clearRound keeps the types.                              *)
LEMMA ClearStepType ==
  ASSUME TypeOK, NEW c \in Ids, ClearStep(c)
  PROVE  TypeOK'
<1> USE DEF TypeOK
<1>1. pc' \in [Ids -> Stages]
  BY DEF ClearStep, StoreFlag, StoreTopic, StoreWord, StoreLiar, StoreBallot, StoreRole,
         EndClear, Reads, Goto, Stages, ClearStages, StartStages, LeaveStages
<1>2. frame' \in [Ids -> Frames]
  <2>1. CASE UNCHANGED frame
    BY <2>1
  <2>2. CASE \E S \in SUBSET Ids : frame' = [frame EXCEPT ![c].toVisit = S]
    <3>1. PICK S \in SUBSET Ids : frame' = [frame EXCEPT ![c].toVisit = S]
      BY <2>2
    <3> QED
      BY <3>1, LocalType
  <2>3. CASE StoreRole(c)
    <3>1. PICK p \in frame[c].toVisit :
            frame' = [frame EXCEPT ![c].toVisit = frame[c].toVisit \ {p}]
      BY <2>3 DEF StoreRole
    <3>2. [frame[c] EXCEPT !.toVisit = frame[c].toVisit \ {p}] \in Frames
      <4>1. frame[c].toVisit \ {p} \in SUBSET Ids
        BY DEF Frames
      <4> QED
        BY <4>1, LocalType
    <3> QED
      BY <3>1, <3>2
  <2> QED
    BY <2>1, <2>2, <2>3 DEF ClearStep, StoreFlag, StoreTopic, StoreWord, StoreLiar,
                            StoreBallot, EndClear, Keep
<1>3. GameTypeOK'
  <2>1. CASE StoreRole(c)
    <3>1. frame[c].toVisit \subseteq Ids
      BY DEF Frames
    <3> QED
      BY <2>1, <3>1, StoreTypes DEF StoreRole
  <2>2. CASE ~StoreRole(c)
    BY <2>2, StoreTypes DEF ClearStep, StoreFlag, StoreTopic, StoreWord, StoreLiar,
                            StoreBallot, EndClear, Reads, gameVars
  <2> QED
    BY <2>1, <2>2
<1>4. UNCHANGED <<sent, scored, round>>
  BY DEF ClearStep, StoreFlag, StoreTopic, StoreWord, StoreLiar, StoreBallot,
         StoreRole, EndClear, Keep, Reads, gameVars
<1> QED
  BY <1>1, <1>2, <1>3, <1>4

(* Handling PLAYER_LEAVE keeps the types.                                  *)
LEMMA LeaveStepType ==
  ASSUME TypeOK, NEW c \in Ids, LeaveStep(c)
  PROVE  TypeOK'
<1> USE DEF TypeOK
<1>1. CASE Remove(c)
  <2>1. pc' \in [Ids -> Stages]
    BY <1>1 DEF Remove, Goto, Stages, ClearStages, LeaveStages
  <2> QED
    BY <1>1, <2>1, RemovePlayerType, DropType DEF Remove, RemovePlayer
<1>2. CASE TestEnough(c)
  <2>1. pc' \in [Ids -> Stages]
    BY <1>2 DEF TestEnough, Goto, Stages, StartStages, Home
  <2> QED
    BY <1>2, <2>1, ReadsType DEF TestEnough
<1> QED
  BY <1>1, <1>2 DEF LeaveStep

(* Taking a packet out of recv() keeps the types.                          *)
LEMMA PacketType ==
  ASSUME TypeOK, NEW c \in Ids, Packet(c)
  PROVE  TypeOK'
<1> USE DEF TypeOK
<1>1. pc' \in [Ids -> Stages]
  BY DEF Packet, Join, VoteCommand, Leave, Goto, Stages, StartStages,
         VoteStages, LeaveStages
<1>2. CASE Join(c)
  BY <1>1, <1>2, AddPlayerType, KeepType DEF Join, AddPlayer
<1>3. CASE VoteCommand(c)
  <2>1. sent' \in 0..MaxVotes
    BY <1>3, BoundsAssumption DEF VoteCommand
  <2> QED
    BY <1>1, <1>3, <2>1 DEF VoteCommand, gameVars, GameTypeOK
<1>4. CASE Leave(c)
  <2>1. frame' \in [Ids -> Frames]
    BY <1>4, LocalType DEF Leave, GameTypeOK
  <2> QED
    BY <1>1, <1>4, <2>1, ReadsType DEF Leave
<1> QED
  BY <1>2, <1>3, <1>4 DEF Packet

(* Every variable of the server has its type in every reachable state.     *)
THEOREM ServerType == Spec => []TypeOK
<1>1. Init => TypeOK
  BY InitType, BlankType, BoundsAssumption
     DEF Init, TypeOK, Stages, Home, GameInit
<1>2. TypeOK /\ [Next]_vars => TypeOK'
  <2>1. TypeOK /\ UNCHANGED vars => TypeOK'
    BY DEF vars, gameVars, TypeOK, GameTypeOK
  <2>2. ASSUME TypeOK, NEW c \in Ids, HandlerStep(c) \/ Packet(c) PROVE TypeOK'
    BY <2>2, StartRoundStepType, VoteStepType, ClearStepType, LeaveStepType, PacketType
       DEF HandlerStep, LockedStep
  <2> QED
    BY <2>1, <2>2 DEF Next
<1> QED
  BY <1>1, <1>2, PTL DEF Spec

----------------------------------------------------------------------------
(* What a step does to the votes, the liar and the roles: stores made      *)
(* under mutex_, a store of clearRound, or nothing.                        *)

BeginsRound ==
  /\ UNCHANGED players
  /\ round' = round + 1
  /\ ~roundActive' /\ votes' = NoVotes /\ role' = NoRoles /\ liar' = Nobody

PicksLiar(c) ==
  /\ pc[c] = "pickLiar"
  /\ liar' \in players
  /\ UNCHANGED <<players, role, votes, roundActive, round>>

Deals(c) ==
  /\ pc[c] = "dealRoles"
  /\ role' = RolesDealt(liar)
  /\ UNCHANGED <<players, votes, liar, round>>

Records(c) ==
  /\ \E t \in Ids : VoteCounts(c, t) /\ votes' = [votes EXCEPT ![c] = t]
  /\ UNCHANGED <<players, role, liar, roundActive, round>>

(* Whatever is stored is the value that stands for nothing; it is followed *)
(* by the loop over the roles when that is the liar.                       *)
Erases(c) ==
  /\ UNCHANGED <<players, round>>
  /\ \A p \in Ids : role'[p] \in {role[p], "NONE"}
  /\ role' = role \/ role' \in [Ids -> Roles]
  /\ votes' \in {votes, NoVotes}
  /\ liar' = liar \/ (liar' = Nobody /\ pc'[c] = "clearBallot")
  /\ roundActive' => roundActive

Effect(c) ==
  \/ AddPlayer(c)
  \/ RemovePlayer(c)
  \/ BeginsRound
  \/ PicksLiar(c)
  \/ Deals(c)
  \/ Records(c)
  \/ Erases(c)

(* Reading the game erases nothing.                                        *)
LEMMA ReadsErase ==
  ASSUME NEW c \in Ids, Reads
  PROVE  Erases(c)
BY DEF Reads, gameVars, Erases

(* A store of clearRound erases.                                           *)
LEMMA ClearErases ==
  ASSUME TypeOK, NEW c \in Ids, ClearStep(c)
  PROVE  Erases(c)
<1>1. CASE StoreFlag(c) \/ StoreTopic(c) \/ StoreWord(c) \/ StoreLiar(c) \/ StoreBallot(c)
  BY <1>1 DEF StoreFlag, StoreTopic, StoreWord, StoreLiar, StoreBallot, Goto, TypeOK,
              ClearFlag, ClearLiar, ClearBallot, Erases
<1>2. CASE StoreRole(c)
  <2>1. PICK p \in frame[c].toVisit : role' = [role EXCEPT ![p] = "NONE"]
    BY <1>2 DEF StoreRole
  <2>2. role' \in [Ids -> Roles] /\ \A q \in Ids : role'[q] \in {role[q], "NONE"}
    BY <2>1 DEF TypeOK, GameTypeOK, Roles
  <2> QED
    BY <1>2, <2>2 DEF StoreRole, Erases
<1>3. CASE EndClear(c)
  BY <1>3, ReadsErase DEF EndClear
<1> QED
  BY <1>1, <1>2, <1>3 DEF ClearStep

(* Starting a round has one of the effects above.                          *)
LEMMA StartEffect ==
  ASSUME NEW c \in Ids, StartRoundStep(c)
  PROVE  Effect(c)
<1>1. CASE TestCanStart(c) \/ TestActive(c)
  BY <1>1, ReadsErase DEF TestCanStart, TestActive, Effect
<1>2. CASE BeginRound(c)
  BY <1>2, ReadsErase
     DEF BeginRound, ClearFlag, ClearLiar, ClearBallot, ClearRoles, BeginsRound, Effect
<1>3. CASE PickWord(c)
  BY <1>3 DEF PickWord, Erases, Effect
<1>4. CASE PickLiar(c)
  BY <1>4 DEF PickLiar, Goto, PicksLiar, Effect
<1>5. CASE DealRoles(c)
  BY <1>5 DEF DealRoles, Goto, Deals, Effect
<1> QED
  BY <1>1, <1>2, <1>3, <1>4, <1>5 DEF StartRoundStep

(* So does handling a vote.                                                *)
LEMMA VoteEffect ==
  ASSUME TypeOK, NEW c \in Ids, VoteStep(c)
  PROVE  Effect(c)
<1>1. CASE Record(c)
  BY <1>1, ReadsErase DEF Record, VoteCounts, TypeOK, GameTypeOK, Records, Effect
<1>2. CASE ApplyScores(c)
  BY <1>2 DEF ApplyScores, CalculateAndApplyScores, Erases, Effect
<1>3. CASE CountVote(c)
  BY <1>3, ReadsErase DEF CountVote, Reads, Effect
<1> QED
  BY <1>1, <1>2, <1>3, ReadsErase
     DEF VoteStep, Lookup, Submit, ReadTotal, Snapshot, StopCounting, ReadTally,
         ReadLiarAndJudge, Effect

(* A step of any thread has one of the effects above on the game.          *)
LEMMA StepEffect ==
  ASSUME TypeOK, NEW c \in Ids, HandlerStep(c) \/ Packet(c)
  PROVE  Effect(c)
<1>1. CASE Deal(c)
  BY <1>1, ReadsErase DEF Deal, Effect
<1>2. CASE ClearStep(c)
  BY <1>2, ClearErases DEF Effect
<1>3. CASE LeaveStep(c)
  BY <1>3, ReadsErase DEF LeaveStep, Remove, TestEnough, Effect
<1>4. CASE Packet(c)
  BY <1>4, ReadsErase DEF Packet, Join, VoteCommand, Leave, gameVars, Erases, Effect
<1> QED
  BY <1>1, <1>2, <1>3, <1>4, StartEffect, VoteEffect DEF HandlerStep, LockedStep

----------------------------------------------------------------------------
(* No interleaving leaves a vote by or for somebody who has left.          *)
THEOREM ServerVotes == Spec => []VotesAmongPlayers
<1>1. Init => VotesAmongPlayers
  BY DEF Init, GameInit, NoVotes, VotesAmongPlayers, HasPlayerVoted
<1>2. TypeOK /\ VotesAmongPlayers /\ [Next]_vars => VotesAmongPlayers'
  <2>1. ASSUME TypeOK, VotesAmongPlayers, NEW c \in Ids, HandlerStep(c) \/ Packet(c)
        PROVE  VotesAmongPlayers'
    <3>0. GameTypeOK
      BY <2>1 DEF TypeOK
    <3>1. CASE UNCHANGED votes /\ players \subseteq players'
      BY <2>1, <3>1, MorePlayersKeepVotes
    <3>2. CASE RemovePlayer(c)
      BY <2>1, <3>0, <3>2, RemovePlayerKeepsVotes
    <3>3. CASE votes' = NoVotes
      BY <3>3, NoVotesAmongPlayers
    <3>4. CASE Records(c)
      BY <2>1, <3>0, <3>4, VoteKeepsVotes DEF Records
    <3>5. Effect(c)
      BY <2>1, StepEffect
    <3> QED
      BY <3>1, <3>2, <3>3, <3>4, <3>5
         DEF Effect, AddPlayer, BeginsRound, PicksLiar, Deals, Erases
  <2>2. VotesAmongPlayers /\ UNCHANGED vars => VotesAmongPlayers'
    BY MorePlayersKeepVotes DEF vars, gameVars
  <2> QED
    BY <2>1, <2>2 DEF Next
<1> QED
  BY <1>1, <1>2, ServerType, PTL DEF Spec

(* The player the guessers hunt is in the game.                            *)
THEOREM ServerLiar == Spec => []LiarIsPlaying
<1>1. Init => LiarIsPlaying
  BY DEF Init, GameInit, LiarIsPlaying
<1>2. TypeOK /\ LiarIsPlaying /\ [Next]_vars => LiarIsPlaying'
  <2>1. ASSUME TypeOK, LiarIsPlaying, NEW c \in Ids, Effect(c)
        PROVE  LiarIsPlaying'
    BY <2>1
       DEF Effect, AddPlayer, RemovePlayer, LiarErased, BeginsRound, PicksLiar, Deals,
           Records, Erases, LiarIsPlaying
  <2>2. LiarIsPlaying /\ UNCHANGED vars => LiarIsPlaying'
    BY DEF vars, gameVars, LiarIsPlaying
  <2> QED
    BY <2>1, <2>2, StepEffect DEF Next
<1> QED
  BY <1>1, <1>2, ServerType, PTL DEF Spec

----------------------------------------------------------------------------
(* mutex_: one thread at a time is between its lock and its unlock, and    *)
(* while a round is being started nobody has a role or a vote.             *)

OneHolder == \A c, d \in Ids : {pc[c], pc[d]} \subseteq Locking => c = d

StartsFromBlank ==
  \A c \in Ids : pc[c] \in Starting => role = NoRoles /\ votes = NoVotes

LockOK == OneHolder /\ StartsFromBlank

(* A thread moves no thread but itself.                                    *)
LEMMA GotoIsLocal ==
  ASSUME TypeOK, NEW c \in Ids, NEW from, NEW to, Goto(c, from, to)
  PROVE  /\ pc[c] = from /\ pc'[c] = to
         /\ \A d \in Ids \ {c} : pc'[d] = pc[d]
BY DEF Goto, TypeOK

(* A step changes the stage and the local variables of one thread.         *)
LEMMA OneThreadMoves ==
  ASSUME TypeOK, NEW c \in Ids, HandlerStep(c) \/ Packet(c)
  PROVE  /\ pc' = [pc EXCEPT ![c] = pc'[c]]
         /\ frame' = [frame EXCEPT ![c] = frame'[c]]
<1>0. pc \in [Ids -> Stages] /\ frame \in [Ids -> Frames]
  BY DEF TypeOK
<1>1. CASE StartRoundStep(c) \/ Deal(c)
  BY <1>0, <1>1 DEF StartRoundStep, TestCanStart, TestActive, BeginRound, PickWord,
     PickLiar, DealRoles, Deal, Goto, Keep
<1>2. CASE VoteStep(c)
  <2>1. CASE Lookup(c) \/ Submit(c) \/ Record(c) \/ ReadTotal(c) \/ Snapshot(c)
    BY <1>0, <2>1 DEF Lookup, Submit, Record, ReadTotal, Snapshot, Goto, Drop
  <2>2. CASE StopCounting(c) \/ ReadTally(c) \/ CountVote(c)
    BY <1>0, <2>2 DEF StopCounting, ReadTally, CountVote, Goto, Drop
  <2>3. CASE ReadLiarAndJudge(c) \/ ApplyScores(c)
    BY <1>0, <2>3 DEF ReadLiarAndJudge, ApplyScores, Goto, Drop
  <2> QED
    BY <1>2, <2>1, <2>2, <2>3 DEF VoteStep
<1>3. CASE ClearStep(c)
  BY <1>0, <1>3 DEF ClearStep, StoreFlag, StoreTopic, StoreWord, StoreLiar, StoreBallot,
     StoreRole, EndClear, Goto, Keep
<1>4. CASE LeaveStep(c)
  BY <1>0, <1>4 DEF LeaveStep, Remove, TestEnough, Goto, Drop
<1>5. CASE Packet(c)
  BY <1>0, <1>5 DEF Packet, Join, VoteCommand, Leave, Goto, Keep
<1> QED
  BY <1>1, <1>2, <1>3, <1>4, <1>5 DEF HandlerStep, LockedStep

(* Clearing and sending need no lock and take none.                        *)
LEMMA UnlockedGoes ==
  ASSUME TypeOK, NEW c \in Ids, ClearStep(c) \/ Deal(c)
  PROVE  pc'[c] \notin Locking
<1>1. CASE StoreRole(c)
  BY <1>1 DEF StoreRole, Locking, Starting
<1>2. CASE ~StoreRole(c)
  <2>1. PICK from, to : Goto(c, from, to) /\ to \notin Locking
    BY <1>2 DEF ClearStep, StoreFlag, StoreTopic, StoreWord, StoreLiar, StoreBallot,
                EndClear, Deal, Return, Locking, Starting
  <2> QED
    BY <2>1, GotoIsLocal
<1> QED
  BY <1>1, <1>2

(* Who comes to a stage of Starting found the game blank or made it so.    *)
LEMMA StartingIsBlank ==
  ASSUME TypeOK, StartsFromBlank, NEW c \in Ids, LockedStep(c) \/ Packet(c),
         pc'[c] \in Starting
  PROVE  /\ role' = NoRoles /\ votes' = NoVotes
         /\ pc[c] \in Starting \/ BeginsRound
<1>1. CASE BeginRound(c)
  <2>1. CASE CanStartRound
    BY <1>1, <2>1 DEF BeginRound, ClearFlag, ClearLiar, ClearRoles, ClearBallot, BeginsRound
  <2>2. CASE ~CanStartRound
    <3>1. Goto(c, "start", "deal")
      BY <1>1, <2>2 DEF BeginRound
    <3> QED
      BY <3>1, GotoIsLocal DEF Starting
  <2> QED
    BY <2>1, <2>2
<1>2. CASE PickWord(c) \/ PickLiar(c)
  <2>1. pc[c] \in Starting /\ UNCHANGED <<role, votes>>
    BY <1>2 DEF PickWord, PickLiar, Goto, Starting
  <2> QED
    BY <2>1 DEF StartsFromBlank
<1>3. CASE ~BeginRound(c) /\ ~PickWord(c) /\ ~PickLiar(c)
  <2>1. \/ pc[c] = "count" /\ UNCHANGED pc
        \/ \E from, to : Goto(c, from, to) /\ to \notin Starting
    <3>1. CASE VoteStep(c)
      <4>1. CASE Lookup(c) \/ Submit(c) \/ Record(c) \/ ReadTotal(c) \/ Snapshot(c)
        BY <4>1 DEF Lookup, Submit, Record, ReadTotal, Snapshot, Starting
      <4>2. CASE CountVote(c)
        BY <4>2 DEF CountVote
      <4>3. CASE StopCounting(c) \/ ReadTally(c)
        BY <4>3 DEF StopCounting, ReadTally, Starting
      <4>4. CASE ReadLiarAndJudge(c) \/ ApplyScores(c)
        BY <4>4 DEF ReadLiarAndJudge, ApplyScores, Starting
      <4> QED
        BY <3>1, <4>1, <4>2, <4>3, <4>4 DEF VoteStep
    <3>2. CASE StartRoundStep(c)
      BY <1>3, <3>2 DEF StartRoundStep, TestCanStart, TestActive, DealRoles, Return,
                        Starting
    <3>3. CASE LeaveStep(c) \/ Packet(c)
      BY <3>3 DEF LeaveStep, Remove, TestEnough, Packet, Join, VoteCommand, Leave, Starting
    <3> QED
      BY <3>1, <3>2, <3>3 DEF LockedStep
  <2> QED
    BY <2>1, GotoIsLocal DEF Starting
<1> QED
  BY <1>1, <1>2, <1>3

(* The lock works, and nothing but a clearRound, which erases, comes       *)
(* between the stores of startNewRound.                                    *)
LEMMA LockKept ==
  ASSUME TypeOK, LockOK, NEW c \in Ids, HandlerStep(c) \/ Packet(c)
  PROVE  LockOK'
<1>1. \A d \in Ids \ {c} : pc'[d] = pc[d]
  BY OneThreadMoves DEF TypeOK
<1>2. CASE LockedStep(c) \/ Packet(c)
  <2>1. \A d \in Ids \ {c} : pc'[d] \notin Locking
    BY <1>1, <1>2 DEF LockedStep, Packet, MutexFree
  <2>2. OneHolder'
    BY <2>1 DEF OneHolder
  <2>3. StartsFromBlank'
    BY <1>2, <2>1, StartingIsBlank DEF LockOK, StartsFromBlank, Locking
  <2> QED
    BY <2>2, <2>3 DEF LockOK
<1>3. CASE ClearStep(c) \/ Deal(c)
  <2>1. pc'[c] \notin Locking
    BY <1>3, UnlockedGoes
  <2>2. OneHolder'
    BY <1>1, <2>1 DEF LockOK, OneHolder
  <2>3. Erases(c)
    BY <1>3, ClearErases, ReadsErase DEF Deal
  <2>4. role = NoRoles /\ votes = NoVotes => role' = NoRoles /\ votes' = NoVotes
    BY <2>3 DEF Erases, NoRoles
  <2>5. StartsFromBlank'
    BY <1>1, <2>1, <2>4 DEF LockOK, StartsFromBlank, Locking
  <2> QED
    BY <2>2, <2>5 DEF LockOK
<1> QED
  BY <1>2, <1>3 DEF HandlerStep

(* So it does in every reachable state.                                    *)
LEMMA ServerLock == Spec => []LockOK
<1>1. Init => LockOK
  BY DEF Init, LockOK, OneHolder, StartsFromBlank, Locking, Starting
<1>2. TypeOK /\ LockOK /\ [Next]_vars => LockOK'
  <2>1. LockOK /\ UNCHANGED vars => LockOK'
    BY DEF vars, gameVars, LockOK, OneHolder, StartsFromBlank
  <2> QED
    BY <2>1, LockKept DEF Next
<1> QED
  BY <1>1, <1>2, ServerType, PTL DEF Spec

(* A vote that was recorded too late counts in no round.                   *)
THEOREM ServerForgetsLateVotes == Spec => LateVotesAreForgotten
<1>1. TypeOK /\ LockOK /\ [Next]_vars =>
        [~roundActive /\ roundActive' => votes' = NoVotes]_vars
  <2> SUFFICES ASSUME TypeOK, LockOK, NEW c \in Ids, HandlerStep(c) \/ Packet(c),
                      ~roundActive, roundActive'
               PROVE  votes' = NoVotes
    BY DEF Next
  <2>1. Effect(c)
    BY StepEffect
  <2>2. CASE Deals(c)
    BY <2>2 DEF Deals, LockOK, StartsFromBlank, Starting
  <2> QED
    BY <2>1, <2>2
       DEF Effect, AddPlayer, RemovePlayer, BeginsRound, PicksLiar, Records, Erases
<1> QED
  BY <1>1, ServerType, ServerLock, PTL DEF Spec, LateVotesAreForgotten

----------------------------------------------------------------------------
(* The stage a thread leaves, by the kind of its step.                     *)
LEMMA StagesLeft ==
  ASSUME NEW c \in Ids
  PROVE  /\ StartRoundStep(c) \/ Deal(c) => pc[c] \in StartStages
         /\ VoteStep(c) => pc[c] \in VoteStages
         /\ ClearStep(c) => pc[c] \in ClearStages
         /\ LeaveStep(c) => pc[c] \in LeaveStages
         /\ Packet(c) => pc[c] \in Home
<1>1. StartRoundStep(c) \/ Deal(c) => pc[c] \in StartStages
  BY DEF StartRoundStep, TestCanStart, TestActive, BeginRound, PickWord, PickLiar,
         DealRoles, Deal, Goto, StartStages, Starting
<1>2. VoteStep(c) => pc[c] \in VoteStages
  BY DEF VoteStep, Lookup, Submit, Record, ReadTotal, Snapshot, CountVote, StopCounting,
         ReadTally, ReadLiarAndJudge, ApplyScores, Goto, VoteStages
<1>3. ClearStep(c) => pc[c] \in ClearStages
  BY DEF ClearStep, StoreFlag, StoreTopic, StoreWord, StoreLiar, StoreBallot, StoreRole,
         EndClear, Goto, ClearStages
<1>4. LeaveStep(c) => pc[c] \in LeaveStages
  BY DEF LeaveStep, Remove, TestEnough, Goto, LeaveStages
<1>5. Packet(c) => pc[c] \in Home
  BY DEF Packet, Join, VoteCommand, Leave, Goto, Home
<1> QED
  BY <1>1, <1>2, <1>3, <1>4, <1>5

(* A thread that will come to a player in the loop of clearRound does, or  *)
(* still will.                                                             *)
LEMMA VisitStays ==
  ASSUME TypeOK, NEW c \in Ids, NEW d \in Ids, NEW p \in Ids,
         HandlerStep(c) \/ Packet(c), WillVisit(d, p)
  PROVE  WillVisit(d, p)' \/ role'[p] # "LIAR"
<1>1. CASE d # c
  <2>1. pc'[d] = pc[d] /\ frame'[d] = frame[d]
    BY <1>1, OneThreadMoves DEF TypeOK
  <2> QED
    BY <2>1 DEF WillVisit
<1>2. CASE d = c
  <2>1. pc[c] \in {"clearBallot", "clearRoles"}
    BY <1>2 DEF WillVisit
  <2>2. ClearStep(c)
    BY <2>1, StagesLeft
       DEF HandlerStep, LockedStep, StartStages, Starting, VoteStages, LeaveStages, Home
  <2>3. CASE StoreBallot(c)
    <3>1. pc'[c] = "clearRoles" /\ frame'[c].toVisit = Ids
      BY <2>3 DEF StoreBallot, Goto, TypeOK, Frames
    <3> QED
      BY <1>2, <3>1 DEF WillVisit
  <2>4. CASE StoreRole(c)
    <3>1. PICK q \in frame[c].toVisit :
            /\ role' = [role EXCEPT ![q] = "NONE"] /\ UNCHANGED pc /\ pc[c] = "clearRoles"
            /\ frame' = [frame EXCEPT ![c].toVisit = @ \ {q}]
      BY <2>4 DEF StoreRole
    <3>2. frame'[c].toVisit = frame[c].toVisit \ {q}
      BY <3>1 DEF TypeOK, Frames
    <3>3. p = q => role'[p] # "LIAR"
      BY <3>1 DEF TypeOK, GameTypeOK
    <3> QED
      BY <1>2, <3>1, <3>2, <3>3 DEF WillVisit
  <2>5. CASE EndClear(c)
    BY <1>2, <2>5 DEF EndClear, Goto, WillVisit
  <2> QED
    BY <2>1, <2>2, <2>3, <2>4, <2>5
       DEF ClearStep, StoreFlag, StoreTopic, StoreWord, StoreLiar, Goto
<1> QED
  BY <1>1, <1>2

(* Whoever still has the role of liar is hunted, or about to lose it.      *)
THEOREM ServerHuntsTheLiar == Spec => []LiarIsHunted
<1>1. Init => LiarIsHunted
  BY DEF Init, GameInit, NoRoles, LiarIsHunted
<1>2. TypeOK /\ LockOK /\ LiarIsHunted /\ [Next]_vars => LiarIsHunted'
  <2>1. ASSUME TypeOK, LockOK, LiarIsHunted, NEW c \in Ids, HandlerStep(c) \/ Packet(c)
        PROVE  LiarIsHunted'
    <3> SUFFICES ASSUME NEW p \in Ids, role'[p] = "LIAR"
                 PROVE  liar' = p \/ \E d \in Ids : WillVisit(d, p)'
      BY DEF LiarIsHunted
    <3>1. Effect(c)
      BY <2>1, StepEffect
    <3>2. CASE BeginsRound \/ PicksLiar(c)
      <4>1. role'[p] = "NONE"
        BY <2>1, <3>2
           DEF BeginsRound, PicksLiar, NoRoles, LockOK, StartsFromBlank, Starting
      <4> QED
        BY <4>1
    <3>3. CASE Deals(c)
      BY <3>3 DEF Deals, RolesDealt
    <3>4. CASE AddPlayer(c) \/ RemovePlayer(c) \/ Records(c) \/ Erases(c)
      <4>1. role[p] = "LIAR"
        BY <2>1, <3>4
           DEF AddPlayer, RemovePlayer, EraseState, Records, Erases, TypeOK, GameTypeOK
      <4>2. CASE liar = p
        <5>1. p # c \/ ~RemovePlayer(c)
          BY <2>1 DEF RemovePlayer, EraseState, TypeOK, GameTypeOK
        <5>2. liar' = p \/ pc'[c] = "clearBallot"
          BY <3>4, <4>2, <5>1 DEF AddPlayer, RemovePlayer, LiarErased, Records, Erases
        <5> QED
          BY <5>2 DEF WillVisit
      <4>3. CASE liar # p
        <5>1. PICK d \in Ids : WillVisit(d, p)
          BY <2>1, <4>1, <4>3 DEF LiarIsHunted
        <5> QED
          BY <2>1, <5>1, VisitStays
      <4> QED
        BY <4>2, <4>3
    <3> QED
      BY <3>1, <3>2, <3>3, <3>4 DEF Effect
  <2>2. LiarIsHunted /\ UNCHANGED vars => LiarIsHunted'
    BY DEF vars, gameVars, LiarIsHunted, WillVisit
  <2> QED
    BY <2>1, <2>2 DEF Next
<1> QED
  BY <1>1, <1>2, ServerType, ServerLock, PTL DEF Spec

----------------------------------------------------------------------------
(* A game that could run a round and does not has a thread that is about   *)
(* to find out: this is what makes QuietGameIsRunning inductive.           *)

Starters == {"canStart", "isActive", "start", "enough"} \cup Starting \cup ClearStages

StartIsPending ==
  CanStartRound /\ ~roundActive => \E c \in Ids : pc[c] \in Starters

(* No step of any thread makes the game forget the round it owes its       *)
(* players.                                                                *)
LEMMA StartStaysPending ==
  ASSUME TypeOK, StartIsPending, NEW c \in Ids, HandlerStep(c) \/ Packet(c)
  PROVE  StartIsPending'
<1> DEFINE Arrives == pc'[c] \in Starters
           Passes  == UNCHANGED <<players, roundActive>> /\ pc[c] \notin Starters
<1>0. pc \in [Ids -> Stages] /\ \A d \in Ids \ {c} : pc'[d] = pc[d]
  BY OneThreadMoves DEF TypeOK
<1>1. CASE Arrives
  BY <1>1 DEF StartIsPending
<1>2. CASE Passes
  <2>1. (\E d \in Ids : pc[d] \in Starters) => \E d \in Ids : pc'[d] \in Starters
    BY <1>0, <1>2
  <2> QED
    BY <1>2, <2>1 DEF StartIsPending, CanStartRound
<1>3. CASE StartRoundStep(c) \/ Deal(c)
  <2>1. CASE TestCanStart(c)
    <3>1. CASE CanStartRound
      BY <1>0, <1>1, <2>1, <3>1 DEF TestCanStart, Goto, Starters
    <3>2. CASE ~CanStartRound
      BY <2>1, <3>2 DEF TestCanStart, Reads, gameVars, StartIsPending, CanStartRound
    <3> QED BY <3>1, <3>2
  <2>2. CASE TestActive(c)
    <3>1. CASE roundActive
      BY <2>2, <3>1 DEF TestActive, Reads, gameVars, StartIsPending
    <3>2. CASE ~roundActive
      BY <1>0, <1>1, <2>2, <3>2 DEF TestActive, Goto, Starters
    <3> QED BY <3>1, <3>2
  <2>3. CASE BeginRound(c)
    <3>1. CASE CanStartRound
      BY <1>0, <1>1, <2>3, <3>1 DEF BeginRound, Goto, Starters, Starting
    <3>2. CASE ~CanStartRound
      BY <2>3, <3>2 DEF BeginRound, Reads, gameVars, StartIsPending, CanStartRound
    <3> QED BY <3>1, <3>2
  <2>4. CASE PickWord(c) \/ PickLiar(c)
    BY <1>0, <1>1, <2>4 DEF PickWord, PickLiar, Goto, Starters, Starting
  <2>5. CASE DealRoles(c)
    BY <2>5 DEF DealRoles, StartIsPending
  <2>6. CASE Deal(c)
    BY <1>2, <2>6 DEF Deal, Goto, Reads, gameVars, Starters, Starting, ClearStages
  <2> QED
    BY <1>3, <2>1, <2>2, <2>3, <2>4, <2>5, <2>6 DEF StartRoundStep
<1>4. CASE VoteStep(c)
  <2>1. CASE ApplyScores(c)
    BY <1>0, <1>1, <2>1 DEF ApplyScores, Goto, Starters, ClearStages
  <2>2. CASE ~ApplyScores(c)
    <3>1. pc[c] \notin Starters
      BY <1>4, StagesLeft DEF VoteStages, Starters, Starting, ClearStages
    <3>2. UNCHANGED <<players, roundActive>>
      BY <1>4, <2>2
         DEF VoteStep, Lookup, Submit, Record, ReadTotal, Snapshot, CountVote,
             StopCounting, ReadTally, ReadLiarAndJudge, Reads, gameVars
    <3> QED
      BY <1>2, <3>1, <3>2
  <2> QED BY <2>1, <2>2
<1>5. CASE ClearStep(c)
  <2>1. CASE StoreRole(c)
    BY <1>1, <2>1 DEF StoreRole, Starters, ClearStages
  <2>2. CASE ~StoreRole(c)
    BY <1>0, <1>1, <1>5, <2>2
       DEF ClearStep, StoreFlag, StoreTopic, StoreWord, StoreLiar, StoreBallot,
           EndClear, Goto, Starters, ClearStages
  <2> QED
    BY <2>1, <2>2
<1>6. CASE LeaveStep(c)
  <2>1. CASE Remove(c)
    BY <1>0, <1>1, <2>1 DEF Remove, Goto, Starters, ClearStages
  <2>2. CASE TestEnough(c)
    <3>1. CASE Cardinality(players) < MinPlayers
      <4>1. ~CanStartRound
        BY <3>1, GameStateAssumption, Counts DEF CanStartRound, TypeOK
      <4> QED
        BY <2>2, <4>1 DEF TestEnough, Reads, gameVars, StartIsPending, CanStartRound
    <3>2. CASE ~(Cardinality(players) < MinPlayers)
      BY <1>0, <1>1, <2>2, <3>2 DEF TestEnough, Goto, Starters
    <3> QED BY <3>1, <3>2
  <2> QED
    BY <1>6, <2>1, <2>2 DEF LeaveStep
<1>7. CASE Packet(c)
  <2>1. CASE Join(c)
    BY <1>0, <1>1, <2>1 DEF Join, Goto, Starters
  <2>2. CASE VoteCommand(c) \/ Leave(c)
    <3>1. pc[c] \notin Starters
      BY <1>7, StagesLeft DEF Home, Starters, Starting, ClearStages
    <3> QED
      BY <1>2, <2>2, <3>1 DEF VoteCommand, Leave, Reads, gameVars
  <2> QED
    BY <1>7, <2>1, <2>2 DEF Packet
<1> QED
  BY <1>3, <1>4, <1>5, <1>6, <1>7 DEF HandlerStep, LockedStep

(* No interleaving of joins, votes and departures lets the game fall       *)
(* asleep with enough players in it.                                       *)
THEOREM ServerKeepsPlaying == Spec => []QuietGameIsRunning
<1>1. Init => StartIsPending
  <2>1. Init => Cardinality(players) = 0
    BY FS_EmptySet DEF Init, GameInit
  <2> QED
    BY <2>1, GameStateAssumption DEF StartIsPending, CanStartRound
<1>2. TypeOK /\ StartIsPending /\ [Next]_vars => StartIsPending'
  <2>1. StartIsPending /\ UNCHANGED vars => StartIsPending'
    BY DEF vars, gameVars, StartIsPending, CanStartRound
  <2> QED
    BY <2>1, StartStaysPending DEF Next
<1>3. StartIsPending => QuietGameIsRunning
  BY DEF StartIsPending, QuietGameIsRunning, Quiet, Home, Starters, Starting, ClearStages
<1> QED
  BY <1>1, <1>2, <1>3, ServerType, PTL DEF Spec
=============================================================================
