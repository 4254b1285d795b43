---------------------------- MODULE RoleDealing ----------------------------
(***************************************************************************)
(* The second half of startNewRoundIfPossible: having called startNewRound,*)
(* the thread asks for the topic, the word, the liar and the players in    *)
(* four separate calls, each under mutex_, and sends a ROLE_ASSIGNMENT to  *)
(* every player, under no lock.  Refines the one step Deal of GameServer;  *)
(* every other step is GameServer's.                                       *)
(***************************************************************************)
EXTENDS GameServer

VARIABLES hand,      (* local variables of startNewRoundIfPossible          *)
          told       (* the last ROLE_ASSIGNMENT sent to a client           *)

dealVars == <<vars, hand, told>>

Reading == {"topic", "word", "liar", "roles", "send"}

Hands == [at    : Reading,
          topic : Nat,
          word  : Nat,
          seats : [Ids -> Roles]]             (* players still to be told   *)

EmptyHand == [at |-> "topic", topic |-> 0, word |-> 0, seats |-> NoRoles]

Assignments == [role : Roles, topic : Nat, word : Nat]
Untold      == [role |-> "NONE", topic |-> 0, word |-> 0]

DealInit ==
  /\ Init
  /\ hand = [c \in Ids |-> EmptyHand]
  /\ told = [c \in Ids |-> Untold]

----------------------------------------------------------------------------
(* c is dealing and has come to the call `at`.                             *)
At(c, at) == pc[c] = "deal" /\ hand[c].at = at

ReadTopic(c) ==
  /\ At(c, "topic") /\ MutexFree(c)
  /\ hand' = [hand EXCEPT ![c].topic = topic, ![c].at = "word"]
  /\ UNCHANGED <<vars, told>>

ReadWord(c) ==
  /\ At(c, "word") /\ MutexFree(c)
  /\ hand' = [hand EXCEPT ![c].word = word, ![c].at = "liar"]
  /\ UNCHANGED <<vars, told>>

(* "Round started but topic/liar not set properly": nothing is sent.       *)
ReadLiar(c) ==
  /\ At(c, "liar") /\ MutexFree(c)
  /\ IF liar = Nobody \/ hand[c].topic = 0
     THEN Deal(c) /\ hand' = [hand EXCEPT ![c] = EmptyHand]
     ELSE UNCHANGED vars /\ hand' = [hand EXCEPT ![c].at = "roles"]
  /\ UNCHANGED told

ReadRoles(c) ==
  /\ At(c, "roles") /\ MutexFree(c)
  /\ hand' = [hand EXCEPT ![c].seats = role, ![c].at = "send"]
  /\ UNCHANGED <<vars, told>>

(* connectionManager_ has p ACTIVE: handleClient removes the connection    *)
(* before it calls the callback with PLAYER_LEAVE.  The faulty variant     *)
(* does not ask.                                                           *)
OnlineOnce(p) == TRUE
Online(p) == p \in players /\ pc[p] # "remove"

(* One ROLE_ASSIGNMENT; the liar's carries no word.  sendPacket drops it   *)
(* when the connection is gone.                                            *)
AssignmentOfTheMoment(c, p) ==          (* faulty variant: asks for the word *)
  [role  |-> hand[c].seats[p],
   topic |-> hand[c].topic,
   word  |-> IF hand[c].seats[p] = "GUESSER" THEN word ELSE 0]

Assignment(c, p) ==
  [role  |-> hand[c].seats[p],
   topic |-> hand[c].topic,
   word  |-> IF hand[c].seats[p] = "GUESSER" THEN hand[c].word ELSE 0]

Send(c, p) ==
  /\ At(c, "send")
  /\ hand[c].seats[p] # "NONE"
  /\ hand' = [hand EXCEPT ![c].seats[p] = "NONE"]
  /\ told' = IF Online(p) THEN [told EXCEPT ![p] = Assignment(c, p)] ELSE told
  /\ UNCHANGED vars

DealtToSome(c) ==                       (* faulty variant: may stop early   *)
  /\ At(c, "send")
  /\ hand' = [hand EXCEPT ![c] = EmptyHand]
  /\ Deal(c)
  /\ UNCHANGED told

Dealt(c) ==
  /\ At(c, "send")
  /\ hand[c].seats = NoRoles
  /\ hand' = [hand EXCEPT ![c] = EmptyHand]
  /\ Deal(c)
  /\ UNCHANGED told

DealStep(c) ==
  \/ ReadTopic(c) \/ ReadWord(c) \/ ReadLiar(c) \/ ReadRoles(c)
  \/ \E p \in Ids : Send(c, p)
  \/ Dealt(c)

(* A step of GameServer other than Deal.  Nothing is remembered of what a  *)
(* client that left had been told.                                         *)
OtherStep(c) ==
  /\ pc[c] # "deal"
  /\ HandlerStep(c) \/ Packet(c)
  /\ told' = [p \in Ids |-> IF p \in players \ players' THEN Untold ELSE told[p]]
  /\ UNCHANGED hand

DealNext == \E c \in Ids : DealStep(c) \/ OtherStep(c)

DealSpec == DealInit /\ [][DealNext]_dealVars

----------------------------------------------------------------------------
(* Properties.                                                             *)

(* The cards being dealt and the cards the clients hold are well-typed:    *)
(* who does not deal has no cards in hand, who does not play holds none.   *)
DealTypeOK ==
  /\ TypeOK
  /\ hand \in [Ids -> Hands]
  /\ told \in [Ids -> Assignments]
  /\ \A p \in Ids : /\ pc[p] # "deal" => hand[p] = EmptyHand
                    /\ p \notin players => told[p] = Untold

(* README.md:12, "Liar only sees the topic": nobody ever tells the current *)
(* liar the word of the current round, however many rounds are being dealt *)
(* at once.  The order of the reads in the callback is what ensures it: a  *)
(* word is read before the roles it is sent by.                            *)
SecretKept == liar # Nobody => told[liar].word # round

(* When no packet is being handled, every player with a role in the        *)
(* running round has been told that role, its topic and, the liar          *)
(* excepted, its word.                                                     *)
EveryoneIsBriefed ==
  Quiet /\ roundActive =>
    \A p \in players : role[p] # "NONE" =>
      told[p] = [role |-> role[p], topic |-> topic,
                 word |-> IF role[p] = "LIAR" THEN 0 ELSE word]

(* README.md:11-12, the server picks a topic and guessers see the word: a  *)
(* client that is told a topic and a word is told those of one round.      *)
CardsMatch == \A p \in Ids : told[p].word \in {0, told[p].topic}
=============================================================================
