---------------------------- MODULE SerialServer ----------------------------
(***************************************************************************)
(* The server when its clients never have two packets handled at the same  *)
(* time: a packet arrives only while every other thread waits in recv().   *)
(* Nothing in the code sees to that, so this is a special case of          *)
(* GameServer, RoleDealing and LobbyView, and the one the authors of the   *)
(* callback had in mind.  Here the code plays the game of module LiarLine. *)
(***************************************************************************)
EXTENDS LobbyView

SerialStep(c) == Alone(c) /\ LobbyStep(c)

SerialNext == \E c \in Ids : SerialStep(c)

(* A thread that has a packet finishes with it.                            *)
SerialFairness ==
  \A c \in Ids : WF_lobbyVars(Alone(c) /\ pc[c] \notin Home /\ LobbyStep(c))

SerialSpec == LobbyInit /\ [][SerialNext]_lobbyVars /\ SerialFairness

----------------------------------------------------------------------------
(* A round lasts until its points are given or its first player has left:  *)
(* from then on the thread that did it is on its way through clearRound.   *)
Running == roundActive /\ \A c \in Ids : pc[c] \notin ClearStages

Game == INSTANCE LiarLine WITH
  seated   <- players,
  running  <- Running,
  liar     <- IF Running THEN liar ELSE Nobody,
  guessers <- IF Running THEN {p \in Ids : role[p] = "GUESSER"} ELSE {},
  ballot   <- IF Running THEN votes ELSE NoVotes,
  points   <- score

(* The server implements the game of README.md, "Round Flow" and           *)
(* "Scoring", and makes it progress.                                       *)
PlaysLiarLine == Game!Spec
=============================================================================
