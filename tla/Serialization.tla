---------------------------- MODULE Serialization ----------------------------
(***************************************************************************)
(* The payloads of packets (src/common/serialization.cpp): how the server  *)
(* writes them and how the client reads them.  Every read checks the size  *)
(* first and keeps the default of what it cannot read.  Roles are their    *)
(* numbers in PlayerRole, 0 NONE, 1 LIAR, 2 GUESSER; any number is cast to *)
(* a role.  VoteCommand packets are never sent (a vote is a line of chat). *)
(***************************************************************************)
EXTENDS Packet, SequencesExt

Least(a, b) == IF a <= b THEN a ELSE b

(* uint32_t, and the strings whose length it can say.                      *)
Word32 == {n \in Nat : n \div 16777216 \in Byte}
Texts  == {text \in Seq(Byte) : Len(text) \in Word32}

(* A string: its length and its bytes.                                     *)
Str(text) == U32(Len(text)) \o text

(* The string at `at`, when there is that much; where the next field is.   *)
ReadStr(bytes, at) ==
  LET length == ReadU32(bytes, at)
      fits   == at + WORD + length <= Len(bytes)
  IN  [text |-> IF fits THEN SubSeq(bytes, at + WORD + 1, at + WORD + length) ELSE <<>>,
       next |-> at + WORD + IF fits THEN length ELSE 0]

----------------------------------------------------------------------------
(* PlayerState: PLAYER_JOINED, PLAYER_LEAVE, and GAME_STATE_UPDATE, a list. *)

PlayerStates == [id : Word32, role : Word32, score : Word32, username : Texts]

NoPlayer == [id |-> 0, role |-> 0, score |-> 0, username |-> <<>>]

SerializePlayerState(state) ==
  U32(state.id) \o U32(state.role) \o U32(state.score) \o Str(state.username)

DeserializePlayerState(bytes) ==
  IF Len(bytes) < 4 * WORD
  THEN NoPlayer
  ELSE [id       |-> ReadU32(bytes, 0),
        role     |-> ReadU32(bytes, WORD),
        score    |-> ReadU32(bytes, 2 * WORD),
        username |-> ReadStr(bytes, 3 * WORD).text]

SerializeGameState(states) ==
  U32(Len(states)) \o
  FlattenSeq([i \in DOMAIN states |-> SerializePlayerState(states[i])])

(* The size of the player at `at`, its username included.                  *)
PlayerSize(bytes, at) == 4 * WORD + ReadU32(bytes, at + 3 * WORD)

(* The loop ends with the count or with the first player that is not all   *)
(* there.                                                                  *)
ExtractGameStateUpdate(bytes) ==
  LET count == ReadU32(bytes, 0)
      loop[at \in WORD..Len(bytes), left \in 0..count] ==
        IF \/ left = 0
           \/ Len(bytes) < at + 4 * WORD
           \/ Len(bytes) < at + PlayerSize(bytes, at)
        THEN <<>>
        ELSE <<DeserializePlayerState(SubSeq(bytes, at + 1, at + PlayerSize(bytes, at)))>>
               \o loop[at + PlayerSize(bytes, at), left - 1]
  IN  IF Len(bytes) < WORD THEN <<>> ELSE loop[WORD, count]

----------------------------------------------------------------------------
(* ChatMessage: CHAT_BROADCAST.                                            *)

ChatMessages == [sender : Word32, username : Texts, text : Texts]

NoChat == [sender |-> 0, username |-> <<>>, text |-> <<>>]

SerializeChatMessage(chat) == U32(chat.sender) \o Str(chat.username) \o Str(chat.text)

DeserializeChatMessage(bytes) ==
  IF Len(bytes) < 3 * WORD
  THEN NoChat
  ELSE LET username == ReadStr(bytes, WORD)
       IN  [sender   |-> ReadU32(bytes, 0),
            username |-> username.text,
            text     |-> IF username.next + WORD > Len(bytes) THEN <<>>
                         ELSE ReadStr(bytes, username.next).text]

----------------------------------------------------------------------------
(* RoleAssignment: ROLE_ASSIGNMENT.                                        *)

RoleAssignments == [player : Word32, role : Word32, topic : Texts, word : Texts]

NoCard == [player |-> 0, role |-> 0, topic |-> <<>>, word |-> <<>>]

SerializeRoleAssignment(card) ==
  U32(card.player) \o U32(card.role) \o Str(card.topic) \o Str(card.word)

DeserializeRoleAssignment(bytes) ==
  IF Len(bytes) < 3 * WORD
  THEN NoCard
  ELSE LET topic == ReadStr(bytes, 2 * WORD)
       IN  [player |-> ReadU32(bytes, 0),
            role   |-> ReadU32(bytes, WORD),
            topic  |-> topic.text,
            word   |-> IF topic.next + WORD > Len(bytes) THEN <<>>
                       ELSE ReadStr(bytes, topic.next).text]

----------------------------------------------------------------------------
(* VoteResult: VOTE_RESULT.  The tally maps targets to numbers of votes;   *)
(* its entries are written in the order of the hash table, any order here. *)

NoResult == [tally |-> <<>>, winner |-> 0, caught |-> FALSE]

Entries(tally, order) ==
  FlattenSeq([i \in DOMAIN order |-> U32(order[i]) \o U32(tally[order[i]])])

SerializeVoteResult(result, order) ==
  U32(Len(order)) \o Entries(result.tally, order)
    \o U32(result.winner) \o U32(IF result.caught THEN 1 ELSE 0)

(* How many of the entries announced are there.                            *)
EntriesRead(bytes) ==
  Least(ReadU32(bytes, 0), (Len(bytes) - WORD) \div (2 * WORD))

(* A later entry for a target replaces an earlier one.                     *)
DeserializeVoteResult(bytes) ==
  IF Len(bytes) < 3 * WORD
  THEN NoResult
  ELSE LET count     == EntriesRead(bytes)
           target(i) == ReadU32(bytes, WORD + (i - 1) * 2 * WORD)
           votes(i)  == ReadU32(bytes, 2 * WORD + (i - 1) * 2 * WORD)
           last(t)   == CHOOSE i \in 1..count :
                          /\ target(i) = t
                          /\ \A j \in i+1..count : target(j) # t
           at        == WORD + count * 2 * WORD
           ends      == Len(bytes) >= at + 2 * WORD
       IN  [tally  |-> [t \in {target(i) : i \in 1..count} |-> votes(last(t))],
            winner |-> IF ends THEN ReadU32(bytes, at) ELSE 0,
            caught |-> ends /\ ReadU32(bytes, at + WORD) # 0]
=============================================================================
