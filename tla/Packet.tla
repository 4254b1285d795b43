------------------------------- MODULE Packet -------------------------------
(***************************************************************************)
(* net::Packet (src/common/packet.cpp): a type and data, sent as a header  *)
(* of SIZE bytes (the length of the whole packet, the type) and the data.  *)
(* Operators only; a vector of bytes is a sequence of numbers, a pointer   *)
(* and a size into one the sequence from there on.                         *)
(***************************************************************************)
EXTENDS Naturals, Sequences

Byte == 0..255

WORD == 4        \* sizeof(uint32_t)
SIZE == 6        \* PacketHeader::SIZE

ECHO              == 1
PLAYER_JOIN       == 10
PLAYER_LEAVE      == 13
GAME_STATE_UPDATE == 14
PLAYER_JOINED     == 15
CHAT_MESSAGE      == 16
CHAT_BROADCAST    == 17
ROLE_ASSIGNMENT   == 19
VOTE_RESULT       == 22

(* htonl and htons: the most significant byte comes first.                 *)
U32(n) == <<(n \div 16777216) % 256, (n \div 65536) % 256, (n \div 256) % 256, n % 256>>
U16(n) == <<(n \div 256) % 256, n % 256>>

(* ntohl and ntohs of the bytes that follow the first `at`.                *)
ReadU32(bytes, at) ==
  16777216 * bytes[at+1] + 65536 * bytes[at+2] + 256 * bytes[at+3] + bytes[at+4]
ReadU16(bytes, at) == 256 * bytes[at+1] + bytes[at+2]

(* What is left of a vector once its first n bytes are erased.             *)
From(bytes, n) == SubSeq(bytes, n + 1, Len(bytes))

----------------------------------------------------------------------------
(* updateHeader.                                                           *)
LengthOf(data) == SIZE + Len(data)

NewPacket(type, data) == [length |-> LengthOf(data), type |-> type, data |-> data]
EmptyPacket           == [length |-> 0, type |-> 0, data |-> <<>>]

TotalSize(packet) == SIZE + Len(packet.data)

Serialize(packet) == U32(packet.length) \o U16(packet.type) \o packet.data

(* The header is kept even when its length makes no sense; the packet has  *)
(* no data then.                                                           *)
Deserialize(buffer) ==
  IF Len(buffer) < SIZE
  THEN EmptyPacket
  ELSE LET length == ReadU32(buffer, 0)
       IN  [length |-> length,
            type   |-> ReadU16(buffer, WORD),
            data   |-> IF length \in SIZE..Len(buffer)
                       THEN SubSeq(buffer, SIZE + 1, length)
                       ELSE <<>>]

IsCompletePacket(buffer) == Len(buffer) >= SIZE /\ ReadU32(buffer, 0) <= Len(buffer)
=============================================================================
