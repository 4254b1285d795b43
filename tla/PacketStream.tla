---------------------------- MODULE PacketStream ----------------------------
(***************************************************************************)
(* Packets on TCP connections.  sendPacket turns a packet into bytes and   *)
(* hands them to send(), which may take only the first of them; the rest   *)
(* is then never sent.  recv() returns what has arrived in pieces that     *)
(* have nothing to do with packets, and the receiver puts packets together *)
(* again: on uplinks Server::handleClient (src/server/server.cpp), which   *)
(* pushes them on messageQueue_ and calls the callback, on downlinks       *)
(* Client::receivePacket (src/client/client.cpp).                          *)
(*                                                                         *)
(* Messages are what the sender means and the callback understands: tagged *)
(* records, written and read by module Serialization.  The bytes of one    *)
(* send() stay together also when several handlers send to one client.     *)
(* Connections end in module Lifecycle, not here.                          *)
(***************************************************************************)
EXTENDS Serialization, MessageQueue

CONSTANTS Uplinks,     (* connections, as the server reads them             *)
          Downlinks,   (* connections, as the clients read them             *)
          Names,       (* usernames the clients join with                   *)
          Lines,       (* lines of chat, none of them empty                 *)
          Messages,    (* what the server sends                             *)
          BufferSize,  (* BUFFER_SIZE: what recv() returns at most          *)
          Stubs,       (* bound: how much a send() may take of a packet     *)
          MaxSends     (* bound: calls of send() in all                     *)

Links == Uplinks \cup Downlinks

ASSUME StreamAssumption ==
  /\ Uplinks \cap Downlinks = {}
  /\ <<>> \notin Lines
  /\ BufferSize \in Nat \ {0}
  /\ Stubs \subseteq Nat \ {0}
  /\ MaxSends \in Nat

VARIABLES sent,     (* history: messages sent, up to the first one cut short *)
          torn,     (* history: has one been cut short                      *)
          sends,    (* how many send() have been called                     *)
          net,      (* bytes on their way                                   *)
          buffer,   (* packetBuffer, packetBuffer_                          *)
          at,       (* what the receiving thread does next                  *)
          handled   (* history: messages given to the callback              *)

senderVars == <<sent, torn, sends>>
vars == <<senderVars, net, buffer, at, handled, queueVars>>

Init ==
  /\ QueueInit
  /\ sent = [l \in Links |-> <<>>]
  /\ torn = [l \in Links |-> FALSE]
  /\ sends = 0
  /\ net = [l \in Links |-> <<>>]
  /\ buffer = [l \in Links |-> <<>>]
  /\ at = [l \in Links |-> IF l \in Uplinks THEN "recv" ELSE "look"]
  /\ handled = [l \in Links |-> <<>>]

----------------------------------------------------------------------------
(* What is sent.                                                           *)

(* The payloads a message may be written as; there are several because a   *)
(* tally is written in hash order.                                         *)
Payloads(m) ==
  CASE m.kind = GAME_STATE_UPDATE -> {SerializeGameState(m.states)}
    [] m.kind \in {PLAYER_JOINED, PLAYER_LEAVE} -> {SerializePlayerState(m.state)}
    [] m.kind = CHAT_BROADCAST  -> {SerializeChatMessage(m.chat)}
    [] m.kind = ROLE_ASSIGNMENT -> {SerializeRoleAssignment(m.card)}
    [] m.kind = VOTE_RESULT ->
         {SerializeVoteResult(m.result, order) : order \in SetToSeqs(DOMAIN m.result.tally)}
    [] OTHER -> {m.text}

(* A client joins first and chats afterwards; the server may send anything *)
(* at any time, from the handlers of all clients.                          *)
Offered(l) ==
  IF l \in Downlinks
  THEN Messages
  ELSE IF sent[l] = <<>> /\ ~torn[l]
  THEN {[kind |-> PLAYER_JOIN, text |-> name] : name \in Names}
  ELSE {[kind |-> CHAT_MESSAGE, text |-> line] : line \in Lines}

(* Client::sendPacket, Server::sendPacket.                                 *)
SendPacket(l) ==
  \E m \in Offered(l) : \E payload \in Payloads(m) :
    /\ sends < MaxSends
    /\ sends' = sends + 1
    /\ net' = [net EXCEPT ![l] = @ \o Serialize(NewPacket(m.kind, payload))]
    /\ sent' = IF torn[l] THEN sent ELSE [sent EXCEPT ![l] = Append(@, m)]
    /\ UNCHANGED <<torn, buffer, at, handled, queueVars>>

(* send() takes a part only.  Both callers of send() leave it at that; one *)
(* such send per connection is enough to see what comes of it.             *)
SendPart(l) ==
  \E m \in Offered(l) : \E payload \in Payloads(m) :
    LET bytes == Serialize(NewPacket(m.kind, payload))
    IN  /\ sends < MaxSends
        /\ ~torn[l]
        /\ sends' = sends + 1
        /\ torn' = [torn EXCEPT ![l] = TRUE]
        /\ \E n \in Stubs \cap 1 .. Len(bytes) - 1 :
             net' = [net EXCEPT ![l] = @ \o SubSeq(bytes, 1, n)]
        /\ UNCHANGED <<sent, buffer, at, handled, queueVars>>

----------------------------------------------------------------------------
(* What is received.                                                       *)

Goto(l, from, to) == at[l] = from /\ at' = [at EXCEPT ![l] = to]

(* recv() returns some of the bytes that have arrived.                     *)
Recv(l) ==
  \E n \in 1 .. Least(Len(net[l]), BufferSize) :
    /\ buffer' = [buffer EXCEPT ![l] = @ \o SubSeq(net[l], 1, n)]
    /\ net' = [net EXCEPT ![l] = From(@, n)]

(* The packet at the head of the buffer, if it is all there.               *)
Complete(l) == {packet \in {Deserialize(buffer[l])} : IsCompletePacket(buffer[l])}

(* The offset is advanced past the packet.  Faulty variant: what follows   *)
(* the packet is erased with it.                                           *)
EraseAll(l, packet) == buffer' = [buffer EXCEPT ![l] = <<>>]
Erase(l, packet)    == buffer' = [buffer EXCEPT ![l] = From(@, TotalSize(packet))]

(* handleClient.                                                           *)

ServerReceives(l) ==
  /\ Goto(l, "recv", "parse")
  /\ Recv(l)
  /\ UNCHANGED <<senderVars, handled, queueVars>>

(* Faulty variant: the type is not looked at.                              *)
PushAnyPacket(l) ==
  \E packet \in Complete(l) :
    /\ Goto(l, "parse", "call")
    /\ Push(packet)
    /\ UNCHANGED <<senderVars, net, buffer, handled>>

PushPacket(l) ==
  \E packet \in Complete(l) :
    /\ packet.type # 0
    /\ Goto(l, "parse", "call")
    /\ Push(packet)
    /\ UNCHANGED <<senderVars, net, buffer, handled>>

(* Only what follows a torn packet can look like a packet of type 0.       *)
SkipPacket(l) ==
  \E packet \in Complete(l) :
    /\ packet.type = 0
    /\ Goto(l, "parse", "parse")
    /\ Erase(l, packet)
    /\ UNCHANGED <<senderVars, net, handled, queueVars>>

(* The callback of the game server takes the data for text.                *)
CallTo(l, next) ==
  \E packet \in Complete(l) :
    /\ Goto(l, "call", next)
    /\ handled' = [handled EXCEPT ![l] =
                     Append(@, [kind |-> packet.type, text |-> packet.data])]
    /\ Erase(l, packet)
    /\ UNCHANGED <<senderVars, net, queueVars>>

(* Faulty variant: one packet per recv().                                  *)
CallAndReceive(l) == CallTo(l, "recv")
Call(l)           == CallTo(l, "parse")

ServerWantsMore(l) ==
  /\ Complete(l) = {}
  /\ Goto(l, "parse", "recv")
  /\ UNCHANGED <<senderVars, net, buffer, handled, queueVars>>

HandleClient(l) ==
  \/ ServerReceives(l)
  \/ PushPacket(l) \/ SkipPacket(l) \/ Call(l)
  \/ ServerWantsMore(l)

(* receivePacket and receivingThread.                                      *)

(* The callback of the game client.                                        *)
Understood(type, bytes) ==
  CASE type = GAME_STATE_UPDATE ->
         [kind |-> type, states |-> ExtractGameStateUpdate(bytes)]
    [] type \in {PLAYER_JOINED, PLAYER_LEAVE} ->
         [kind |-> type, state |-> DeserializePlayerState(bytes)]
    [] type = CHAT_BROADCAST ->
         [kind |-> type, chat |-> DeserializeChatMessage(bytes)]
    [] type = ROLE_ASSIGNMENT ->
         [kind |-> type, card |-> DeserializeRoleAssignment(bytes)]
    [] type = VOTE_RESULT ->
         [kind |-> type, result |-> DeserializeVoteResult(bytes)]
    [] OTHER -> [kind |-> type, text |-> bytes]

(* Fields hold what their types can, and no packet is larger than its      *)
(* length can say.  A list is read back as it was written; of the other    *)
(* payloads that is proved.                                                *)
ReadBack(m) ==
  \A payload \in Payloads(m) : payload \in Seq(Byte) /\ Understood(m.kind, payload) = m

ASSUME MessagesAssumption ==
  /\ \A text \in Names \cup Lines : text \in Texts /\ LengthOf(text) \in Word32
  /\ \A m \in Messages :
       /\ \/ m \in [kind : {PLAYER_JOINED, PLAYER_LEAVE}, state : PlayerStates]
          \/ m \in [kind : {CHAT_BROADCAST}, chat : ChatMessages]
          \/ m \in [kind : {ROLE_ASSIGNMENT}, card : RoleAssignments]
          \/ m.kind \in {GAME_STATE_UPDATE, VOTE_RESULT} /\ ReadBack(m)
       /\ \A payload \in Payloads(m) : LengthOf(payload) \in Word32

(* A packet of type 0 is dropped by receivePacket returning false.         *)
TakePacket(l) ==
  \E packet \in Complete(l) :
    /\ Goto(l, "look", "look")
    /\ handled' = IF packet.type = 0 THEN handled
                  ELSE [handled EXCEPT ![l] =
                          Append(@, Understood(packet.type, packet.data))]
    /\ Erase(l, packet)
    /\ UNCHANGED <<senderVars, net, queueVars>>

ClientWantsMore(l) ==
  /\ Complete(l) = {}
  /\ Goto(l, "look", "recv")
  /\ UNCHANGED <<senderVars, net, buffer, handled, queueVars>>

ClientReceives(l) ==
  /\ Goto(l, "recv", "look")
  /\ Recv(l)
  /\ UNCHANGED <<senderVars, handled, queueVars>>

ReceivePacket(l) == TakePacket(l) \/ ClientWantsMore(l) \/ ClientReceives(l)

----------------------------------------------------------------------------
(* Consumers of messageQueue_.                                             *)
streamVars == <<senderVars, net, buffer, at, handled>>

Consume == ConsumerStep /\ UNCHANGED streamVars

Next ==
  \/ \E l \in Links : SendPacket(l) \/ SendPart(l)
  \/ \E l \in Uplinks : HandleClient(l)
  \/ \E l \in Downlinks : ReceivePacket(l)
  \/ Consume

(* What has been sent arrives, and receiving threads run.  Nobody has to   *)
(* send or to consume.                                                     *)
Fairness ==
  /\ \A l \in Uplinks : WF_vars(HandleClient(l))
  /\ \A l \in Downlinks : WF_vars(ReceivePacket(l))

Spec == Init /\ [][Next]_vars /\ Fairness
----------------------------------------------------------------------------
(* Properties.                                                             *)

(* What is on its way, in buffers and in the queue is made of bytes, the   *)
(* threads are where they can be, and messageQueue_ holds packets with a   *)
(* type only, also when a torn packet has been taken for another.          *)
StreamTypeOK ==
  /\ \A l \in Links : /\ net[l] \in Seq(Byte)
                      /\ buffer[l] \in Seq(Byte)
                      /\ torn[l] \in BOOLEAN
  /\ \A l \in Uplinks : at[l] \in {"recv", "parse", "call"}
  /\ \A l \in Downlinks : at[l] \in {"look", "recv"}
  /\ \A i \in DOMAIN queue : queue[i].type # 0 /\ queue[i].data \in Seq(Byte)
  /\ consumer \in [Consumers -> Places]
  /\ sends \in 0..MaxSends

(* server.cpp:226, client.cpp:117: one recv() may bring several packets.   *)
(* No receiver goes back to recv() while a complete packet lies in its     *)
(* buffer, where it would stay until the other end happens to send more.   *)
NobodyWaitsOnAPacket ==
  \A l \in Links : at[l] = "recv" => Complete(l) = {}

(* Packets are handled once each, in order and as they were meant, however *)
(* recv() cuts the stream; one cut short by send() (server.cpp:150,        *)
(* client.cpp:100) damages nothing that was sent before it.                *)
Channel == INSTANCE PacketChannel
IsAChannel == Channel!Spec

(* message_queue.cpp:8 and 14: as long as a consumer sleeps in pop(), one  *)
(* is awake for every packet in the queue, whoever takes packets in        *)
(* between and whatever wakes a consumer for nothing.                      *)
NoLostWakeUp ==
  At("waiting") # {} => Cardinality(At("woken")) >= Len(queue)
=============================================================================
