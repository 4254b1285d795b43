------------------------------ MODULE LobbyView ------------------------------
(***************************************************************************)
(* The list of players and scores the clients show, and the packets by     *)
(* which the callback keeps it up to date: GAME_STATE_UPDATE,              *)
(* PLAYER_JOINED and PLAYER_LEAVE (src/server/game_server.cpp), handled    *)
(* in src/client/game_client.cpp.  To send one, a thread asks the game for *)
(* what to send, then connectionManager_ for the connections, then sends   *)
(* to one connection after another: three kinds of steps, with no lock     *)
(* around them.  Every other step is RoleDealing's.                        *)
(*                                                                         *)
(* A connection keeps the order of the packets sent on it (module          *)
(* PacketStream), so a client is said to show what it will show once it    *)
(* has handled everything sent so far.  All clients are connected before   *)
(* the first joins.                                                        *)
(***************************************************************************)
EXTENDS RoleDealing, Sequences

VARIABLES errand,    (* the lobby packets a thread still has to send        *)
          shown      (* `players` of each client: the score of each player  *)

lobbyVars == <<dealVars, errand, shown>>

(* The calls of sendPacket, broadcast and broadcastExcept in the callback. *)
Mailings == {"welcome", "joined", "left", "update"}

IsLobby(l) == DOMAIN l \subseteq Ids /\ l \in [DOMAIN l -> Nat]

IsErrand(e) ==
  /\ IsLobby(e.news)
  /\ e \in [todo : Seq(Mailings),               (* the first is under way   *)
            at   : {"read", "list", "send"},
            news : {e.news},                    (* what the packet says     *)
            to   : SUBSET Ids]                  (* who has not got it yet   *)

NoLobby == [p \in {} |-> 0]
NoErrand == [todo |-> <<>>, at |-> "read", news |-> NoLobby, to |-> {}]

LobbyInit ==
  /\ DealInit
  /\ errand = [c \in Ids |-> NoErrand]
  /\ shown = [c \in Ids |-> NoLobby]

----------------------------------------------------------------------------
(* What is sent.                                                           *)

(* A newcomer gets the list and is announced, a player that left is        *)
(* announced and the list sent round, as it is after a vote.               *)
Due(c) ==
  CASE pc[c] = "new" /\ pc'[c] = "canStart"        -> <<"welcome", "joined">>
    [] pc[c] = "clearRoles" /\ pc'[c] = "canStart" -> <<"update">>
    [] pc[c] # "enough" /\ pc'[c] = "enough"       -> <<"left", "update">>
    [] OTHER                                       -> <<>>

Busy(c) == errand[c].todo # <<>>
Current(c) == Head(errand[c].todo)
Mails(c, at) == Busy(c) /\ errand[c].at = at

(* One PlayerState or all of them; of a player that left only the id       *)
(* matters.                                                                *)
About(c) == IF Current(c) \in {"welcome", "update"} THEN players ELSE {c}

Read(c) ==
  /\ Mails(c, "read") /\ MutexFree(c)
  /\ errand' = [errand EXCEPT ![c].news = [p \in About(c) |-> score[p]],
                              ![c].at = "list"]
  /\ UNCHANGED <<dealVars, shown>>

(* getActiveConnections.                                                   *)
Connections == {p \in Ids : pc[p] = "new" \/ Online(p)}

(* Faulty variant: the list does not go to the client it is about.         *)
RecipientsButSelf(c) == IF Current(c) = "welcome" THEN {c} ELSE Connections \ {c}

(* sendPacket, broadcast and broadcastExcept.                              *)
Recipients(c) ==
  CASE Current(c) = "welcome" -> {c}
    [] Current(c) = "update"  -> Connections
    [] OTHER                  -> Connections \ {c}

List(c) ==
  /\ Mails(c, "list")
  /\ errand' = [errand EXCEPT ![c].to = Recipients(c), ![c].at = "send"]
  /\ UNCHANGED <<dealVars, shown>>

(* The client, having handled the packet.  A GAME_STATE_UPDATE replaces    *)
(* its list, so nothing is kept of what came before a client's first.      *)
Handled(mailing, news, lobby) ==
  CASE mailing = "joined" ->
         [p \in DOMAIN lobby \cup DOMAIN news |->
            IF p \in DOMAIN news THEN news[p] ELSE lobby[p]]
    [] mailing = "left" -> [p \in DOMAIN lobby \ DOMAIN news |-> lobby[p]]
    [] OTHER -> news

SendNews(c, p) ==
  /\ Mails(c, "send")
  /\ p \in errand[c].to
  /\ errand' = [errand EXCEPT ![c].to = @ \ {p}]
  /\ shown' = IF Online(p)
              THEN [shown EXCEPT ![p] = Handled(Current(c), errand[c].news, @)]
              ELSE shown
  /\ UNCHANGED dealVars

Sent(c) ==
  /\ Mails(c, "send")
  /\ errand[c].to = {}
  /\ errand' = [errand EXCEPT ![c] = [NoErrand EXCEPT !.todo = Tail(errand[c].todo)]]
  /\ UNCHANGED <<dealVars, shown>>

MailStep(c) == Read(c) \/ List(c) \/ (\E p \in Ids : SendNews(c, p)) \/ Sent(c)

----------------------------------------------------------------------------
(* A step of the game, after which there may be something to send.  A      *)
(* client that leaves shows nothing any more.                              *)
GameStep(c) ==
  /\ ~Busy(c)
  /\ DealStep(c) \/ OtherStep(c)
  /\ errand' = [errand EXCEPT ![c].todo = Due(c)]
  /\ shown' = [p \in Ids |-> IF p \in players \ players' THEN NoLobby ELSE shown[p]]

LobbyStep(c) == MailStep(c) \/ GameStep(c)

LobbyNext == \E c \in Ids : LobbyStep(c)

LobbySpec == LobbyInit /\ [][LobbyNext]_lobbyVars

----------------------------------------------------------------------------
(* Properties.                                                             *)

(* The packets being sent and the lists the clients show are well-typed,   *)
(* and only players show one.                                              *)
LobbyTypeOK ==
  /\ DealTypeOK
  /\ \A c \in Ids : /\ IsErrand(errand[c]) /\ IsLobby(shown[c])
                    /\ c \notin players => shown[c] = NoLobby

(* game_server.cpp:126-135, 262-266 and 305-311: between packets every     *)
(* player's client shows the players there are and their scores.  Holds of *)
(* packets handled one at a time (module SerialServer); otherwise an older *)
(* list may be sent after a newer one.                                     *)
LobbiesAgree ==
  Quiet => \A p \in players : shown[p] = [q \in players |-> score[q]]
=============================================================================
