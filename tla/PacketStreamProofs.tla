------------------------- MODULE PacketStreamProofs -------------------------
(***************************************************************************)
(* Connections, whatever is sent, however the stream is cut and whoever    *)
(* consumes the queue: no receiver waits for bytes with a packet in its    *)
(* buffer, no wake-up of messageQueue_ is lost, what is kept is bytes and  *)
(* packets, and packets are handled once each, in order and as they were   *)
(* meant.  For that payloads have to be read back as they were written:    *)
(* proved here for player states, chat and cards.                          *)
(***************************************************************************)
EXTENDS PacketStream, PacketProofs, FiniteSetTheorems

----------------------------------------------------------------------------
(* Receivers.                                                              *)

(* A buffer and a place for every connection, and the property itself.     *)
ReceiversOK ==
  /\ buffer = [l \in Links |-> buffer[l]]
  /\ at = [l \in Links |-> at[l]]
  /\ NobodyWaitsOnAPacket

(* Nothing changes for a receiver.                                         *)
LEMMA ReceiversStutter ==
  ASSUME ReceiversOK, UNCHANGED <<buffer, at>>
  PROVE  ReceiversOK'
BY DEF ReceiversOK, NobodyWaitsOnAPacket, Complete

(* A receiver does something and does not wait afterwards.                 *)
LEMMA ReceiversGoOn ==
  ASSUME ReceiversOK, NEW l \in Links, NEW place, place # "recv", NEW bytes,
         at' = [at EXCEPT ![l] = place], buffer' = [buffer EXCEPT ![l] = bytes]
  PROVE  ReceiversOK'
BY DEF ReceiversOK, NobodyWaitsOnAPacket, Complete

(* A receiver waits, having seen that no packet is complete.               *)
LEMMA ReceiversWait ==
  ASSUME ReceiversOK, NEW l \in Links, Complete(l) = {},
         at' = [at EXCEPT ![l] = "recv"], UNCHANGED buffer
  PROVE  ReceiversOK'
BY DEF ReceiversOK, NobodyWaitsOnAPacket, Complete

(* Every step of the thread that serves a client.                          *)
LEMMA HandlerKeepsReceivers ==
  ASSUME ReceiversOK, NEW l \in Uplinks, HandleClient(l)
  PROVE  ReceiversOK'
<1>0. l \in Links
  BY DEF Links
<1>1. CASE ServerReceives(l)
  BY <1>0, <1>1, ReceiversGoOn DEF ServerReceives, Goto, Recv
<1>2. CASE PushPacket(l)
  <2>1. at' = [at EXCEPT ![l] = "call"] /\ UNCHANGED buffer
    BY <1>2 DEF PushPacket, Goto
  <2>2. buffer' = [buffer EXCEPT ![l] = buffer[l]]
    BY <2>1 DEF ReceiversOK
  <2> QED
    BY <1>0, <2>1, <2>2, ReceiversGoOn
<1>3. CASE SkipPacket(l)
  BY <1>0, <1>3, ReceiversGoOn DEF SkipPacket, Goto, Erase
<1>4. CASE Call(l)
  BY <1>0, <1>4, ReceiversGoOn DEF Call, CallTo, Goto, Erase
<1>5. CASE ServerWantsMore(l)
  BY <1>0, <1>5, ReceiversWait DEF ServerWantsMore, Goto
<1> QED
  BY <1>1, <1>2, <1>3, <1>4, <1>5 DEF HandleClient

(* Every step of a client's receiving thread.                              *)
LEMMA ClientKeepsReceivers ==
  ASSUME ReceiversOK, NEW l \in Downlinks, ReceivePacket(l)
  PROVE  ReceiversOK'
<1>0. l \in Links
  BY DEF Links
<1>1. CASE TakePacket(l)
  <2>1. PICK packet \in Complete(l) : at' = [at EXCEPT ![l] = "look"] /\ Erase(l, packet)
    BY <1>1 DEF TakePacket, Goto
  <2> DEFINE bytes == From(buffer[l], TotalSize(packet))
  <2>2. buffer' = [buffer EXCEPT ![l] = bytes]
    BY <2>1 DEF Erase
  <2> HIDE DEF bytes
  <2> QED
    BY <1>0, <2>1, <2>2, ReceiversGoOn
<1>2. CASE ClientWantsMore(l)
  BY <1>0, <1>2, ReceiversWait DEF ClientWantsMore, Goto
<1>3. CASE ClientReceives(l)
  BY <1>0, <1>3, ReceiversGoOn DEF ClientReceives, Goto, Recv
<1> QED
  BY <1>1, <1>2, <1>3 DEF ReceivePacket

(* server.cpp:226, client.cpp:117: nobody waits in recv() while a complete *)
(* packet lies in its buffer.                                              *)
THEOREM ReceiversTakeWhatIsThere == Spec => []NobodyWaitsOnAPacket
<1>1. Init => ReceiversOK
  <2>1. ~IsCompletePacket(<<>>)
    BY DEF IsCompletePacket, SIZE
  <2> QED
    BY <2>1 DEF Init, ReceiversOK, NobodyWaitsOnAPacket, Complete
<1>2. ReceiversOK /\ [Next]_vars => ReceiversOK'
  <2> SUFFICES ASSUME ReceiversOK, [Next]_vars PROVE ReceiversOK'
    OBVIOUS
  <2>1. CASE UNCHANGED vars
    BY <2>1, ReceiversStutter DEF vars
  <2>2. ASSUME NEW l \in Links, SendPacket(l) \/ SendPart(l) PROVE ReceiversOK'
    BY <2>2, ReceiversStutter DEF SendPacket, SendPart
  <2>3. CASE Consume
    BY <2>3, ReceiversStutter DEF Consume, streamVars
  <2> QED
    BY <2>1, <2>2, <2>3, HandlerKeepsReceivers, ClientKeepsReceivers DEF Next
<1>3. ReceiversOK => NobodyWaitsOnAPacket
  BY DEF ReceiversOK
<1> QED
  BY <1>1, <1>2, <1>3, PTL DEF Spec

----------------------------------------------------------------------------
(* The queue.                                                              *)

IsSequence(q) == \E S : q \in Seq(S)

(* The queue is one, every consumer is somewhere, and the property.        *)
QueueOK ==
  /\ IsSequence(queue)
  /\ consumer \in [Consumers -> Places]
  /\ NoLostWakeUp

(* How many consumers are awake in pop() when one of them wakes up, or     *)
(* when one that was awake has left or gone back to sleep.                 *)
LEMMA Woken ==
  ASSUME consumer \in [Consumers -> Places], NEW k \in Consumers, NEW place \in Places,
         consumer' = [consumer EXCEPT ![k] = place]
  PROVE  /\ Cardinality(At("woken")) \in Nat /\ Cardinality(At("woken")') \in Nat
         /\ consumer' \in [Consumers -> Places]
         /\ place = "woken" /\ consumer[k] # "woken" =>
              Cardinality(At("woken")') = Cardinality(At("woken")) + 1
         /\ place # "woken" /\ consumer[k] = "woken" =>
              Cardinality(At("woken")') = Cardinality(At("woken")) - 1
         /\ place # "woken" /\ consumer[k] # "woken" =>
              Cardinality(At("woken")') = Cardinality(At("woken"))
<1>1. /\ IsFiniteSet(At("woken")) /\ Cardinality(At("woken")) \in Nat
      /\ Cardinality(At("woken")') \in Nat
  <2>1. At("woken") \subseteq Consumers /\ At("woken")' \subseteq Consumers
    BY DEF At
  <2> QED
    BY <2>1, ConsumersAssumption, FS_Subset, FS_CardinalityType
<1>2. consumer' \in [Consumers -> Places]
  OBVIOUS
<1>3. CASE place = "woken" /\ consumer[k] # "woken"
  <2>1. At("woken")' = At("woken") \cup {k} /\ k \notin At("woken")
    BY <1>3 DEF At
  <2> QED
    BY <1>1, <1>2, <1>3, <2>1, FS_AddElement
<1>4. CASE place # "woken" /\ consumer[k] = "woken"
  <2>1. At("woken")' = At("woken") \ {k} /\ k \in At("woken")
    BY <1>4 DEF At
  <2> QED
    BY <1>1, <1>2, <1>4, <2>1, FS_RemoveElement
<1>5. CASE place # "woken" /\ consumer[k] # "woken"
  <2>1. At("woken")' = At("woken")
    BY <1>5 DEF At
  <2> QED
    BY <1>1, <1>2, <1>5, <2>1
<1> QED
  BY <1>1, <1>2, <1>3, <1>4, <1>5

(* Sequences of anything.                                                  *)
LEMMA Longer ==
  ASSUME NEW q, IsSequence(q), NEW e
  PROVE  IsSequence(Append(q, e)) /\ Len(q) \in Nat /\ Len(Append(q, e)) = Len(q) + 1
<1>1. PICK S : q \in Seq(S)
  BY DEF IsSequence
<1>2. q \in Seq(S \cup {e}) /\ e \in S \cup {e}
  BY <1>1, SeqMonotonic
<1> QED
  BY <1>2, AppendProperties, LenProperties DEF IsSequence

(* What is left of a queue whose first packet is taken, or of a cleared    *)
(* one.                                                                    *)
LEMMA Shorter ==
  ASSUME NEW q, IsSequence(q)
  PROVE  /\ Len(q) \in Nat /\ Len(<<>>) = 0 /\ IsSequence(<<>>)
         /\ q # <<>> => IsSequence(Tail(q)) /\ Len(Tail(q)) = Len(q) - 1
<1>1. PICK S : q \in Seq(S)
  BY DEF IsSequence
<1> QED
  BY <1>1, HeadTailProperties, LenProperties, EmptySeq DEF IsSequence

(* A packet more, and a consumer that sleeps is woken for it.              *)
LEMMA PushKeepsQueue ==
  ASSUME QueueOK, NEW packet, Push(packet)
  PROVE  QueueOK'
<1>1. IsSequence(queue') /\ Len(queue) \in Nat /\ Len(queue') = Len(queue) + 1
  BY Longer DEF QueueOK, Push
<1>2. CASE At("waiting") = {}
  BY <1>1, <1>2 DEF QueueOK, Push, NotifyOne, NoLostWakeUp, At
<1>3. CASE At("waiting") # {}
  <2>1. PICK k \in At("waiting") : consumer' = [consumer EXCEPT ![k] = "woken"]
    BY <1>3 DEF Push, NotifyOne
  <2>2. k \in Consumers /\ consumer[k] # "woken"
    BY DEF At
  <2>3. /\ consumer' \in [Consumers -> Places]
        /\ Cardinality(At("woken")) \in Nat
        /\ Cardinality(At("woken")') = Cardinality(At("woken")) + 1
    BY <2>1, <2>2, Woken DEF QueueOK, Places
  <2>4. Cardinality(At("woken")) >= Len(queue)
    BY <1>3 DEF QueueOK, NoLostWakeUp
  <2>5. NoLostWakeUp'
    BY <1>1, <2>3, <2>4 DEF NoLostWakeUp
  <2> QED
    BY <1>1, <2>3, <2>5 DEF QueueOK
<1> QED
  BY <1>2, <1>3

(* A packet less, or a consumer that goes to sleep.                        *)
LEMMA LookKeepsQueue ==
  ASSUME QueueOK, NEW k \in Consumers, Pop(k) \/ Wake(k)
  PROVE  QueueOK'
<1>1. consumer[k] \in {"away", "woken"} /\ Look(k)
  BY DEF Pop, Wake
<1>2. /\ Len(queue) \in Nat /\ Len(<<>>) = 0
      /\ queue # <<>> => IsSequence(Tail(queue)) /\ Len(Tail(queue)) = Len(queue) - 1
  BY Shorter DEF QueueOK
<1>3. CASE queue # <<>>
  <2>1. queue' = Tail(queue) /\ consumer' = [consumer EXCEPT ![k] = "away"]
    BY <1>1, <1>3 DEF Look
  <2>2. /\ consumer' \in [Consumers -> Places]
        /\ Cardinality(At("woken")) \in Nat
        /\ Cardinality(At("woken")') \in Nat
        /\ \/ Cardinality(At("woken")') = Cardinality(At("woken"))
           \/ Cardinality(At("woken")') = Cardinality(At("woken")) - 1
    <3>1. "away" \in Places /\ "away" # "woken" /\ consumer \in [Consumers -> Places]
      BY DEF Places, QueueOK
    <3> QED
      BY <2>1, <3>1, Woken
  <2>3. At("waiting")' \subseteq At("waiting")
    BY <2>1 DEF At, QueueOK
  <2>4. NoLostWakeUp'
    BY <1>2, <1>3, <2>1, <2>2, <2>3 DEF NoLostWakeUp, QueueOK
  <2> QED
    BY <1>2, <1>3, <2>1, <2>2, <2>4 DEF QueueOK
<1>4. CASE queue = <<>>
  <2>1. queue' = <<>> /\ consumer' = [consumer EXCEPT ![k] = "waiting"]
    BY <1>1, <1>4 DEF Look
  <2>2. /\ consumer' \in [Consumers -> Places]
        /\ Cardinality(At("woken")') \in Nat
    BY <1>1, <2>1, Woken DEF QueueOK, Places
  <2> QED
    BY <1>2, <1>4, <2>1, <2>2 DEF QueueOK, NoLostWakeUp
<1> QED
  BY <1>3, <1>4

(* Every step of a consumer, or of clear() and notifyAll().                *)
LEMMA ConsumersKeepQueue ==
  ASSUME QueueOK, ConsumerStep
  PROVE  QueueOK'
<1>1. /\ Len(queue) \in Nat /\ Len(<<>>) = 0 /\ IsSequence(<<>>)
      /\ queue # <<>> => IsSequence(Tail(queue)) /\ Len(Tail(queue)) = Len(queue) - 1
  BY Shorter DEF QueueOK
<1>2. Cardinality(At("woken")) \in Nat
  <2>1. At("woken") \subseteq Consumers
    BY DEF At
  <2> QED
    BY <2>1, ConsumersAssumption, FS_Subset, FS_CardinalityType
<1>3. ASSUME NEW k \in Consumers, Pop(k) \/ Wake(k) PROVE QueueOK'
  BY <1>3, LookKeepsQueue
<1>4. ASSUME NEW k \in Consumers, TryPop(k) PROVE QueueOK'
  BY <1>1, <1>2, <1>4 DEF TryPop, QueueOK, NoLostWakeUp, At
<1>5. ASSUME NEW k \in Consumers, WakeSpuriously(k) PROVE QueueOK'
  <2>1. /\ consumer[k] # "woken" /\ At("waiting") # {} /\ UNCHANGED queue
        /\ consumer' = [consumer EXCEPT ![k] = "woken"]
    BY <1>5 DEF WakeSpuriously, At
  <2>2. /\ consumer' \in [Consumers -> Places]
        /\ Cardinality(At("woken")') = Cardinality(At("woken")) + 1
    BY <1>5, <2>1, Woken DEF QueueOK, Places
  <2>3. Cardinality(At("woken")) >= Len(queue)
    BY <2>1 DEF QueueOK, NoLostWakeUp
  <2>4. NoLostWakeUp'
    BY <1>1, <1>2, <2>1, <2>2, <2>3 DEF NoLostWakeUp
  <2> QED
    BY <2>1, <2>2, <2>4 DEF QueueOK
<1>6. CASE Clear
  BY <1>1, <1>2, <1>6 DEF Clear, QueueOK, NoLostWakeUp, At
<1>7. CASE NotifyAll
  <2>1. consumer' \in [Consumers -> Places] /\ UNCHANGED queue
    BY <1>7 DEF NotifyAll, QueueOK, Places
  <2>2. At("waiting")' = {}
    BY <1>7 DEF NotifyAll, At
  <2> QED
    BY <2>1, <2>2 DEF QueueOK, NoLostWakeUp
<1> QED
  BY <1>3, <1>4, <1>5, <1>6, <1>7 DEF ConsumerStep

(* message_queue.cpp:8 and 14: while a consumer sleeps in pop(), one is    *)
(* awake for every packet in the queue.                                    *)
THEOREM WakeUpsAreNotLost == Spec => []NoLostWakeUp
<1>1. Init => QueueOK
  <2>1. \A S : <<>> \in Seq(S)
    BY EmptySeq
  <2> QED
    BY <2>1 DEF Init, QueueInit, QueueOK, IsSequence, NoLostWakeUp, At, Places
<1>2. QueueOK /\ [Next]_vars => QueueOK'
  <2> SUFFICES ASSUME QueueOK, [Next]_vars PROVE QueueOK'
    OBVIOUS
  <2>1. UNCHANGED queueVars => QueueOK'
    BY DEF queueVars, QueueOK, NoLostWakeUp, At
  <2>2. CASE UNCHANGED vars
    BY <2>1, <2>2 DEF vars
  <2>3. ASSUME NEW l \in Links, SendPacket(l) \/ SendPart(l) PROVE QueueOK'
    BY <2>1, <2>3 DEF SendPacket, SendPart
  <2>4. ASSUME NEW l \in Uplinks, HandleClient(l) PROVE QueueOK'
    <3>1. CASE PushPacket(l)
      BY <3>1, PushKeepsQueue DEF PushPacket
    <3>2. CASE UNCHANGED queueVars
      BY <2>1, <3>2
    <3> QED
      BY <2>4, <3>1, <3>2
         DEF HandleClient, ServerReceives, SkipPacket, Call, CallTo, ServerWantsMore
  <2>5. ASSUME NEW l \in Downlinks, ReceivePacket(l) PROVE QueueOK'
    BY <2>1, <2>5 DEF ReceivePacket, TakePacket, ClientWantsMore, ClientReceives
  <2>6. CASE Consume
    BY <2>6, ConsumersKeepQueue DEF Consume
  <2> QED
    BY <2>2, <2>3, <2>4, <2>5, <2>6 DEF Next
<1>3. QueueOK => NoLostWakeUp
  BY DEF QueueOK
<1> QED
  BY <1>1, <1>2, <1>3, PTL DEF Spec

----------------------------------------------------------------------------
(* Types.                                                                  *)

(* Two spellings of uint32_t.                                              *)
LEMMA WordsAreLong == Word32 = Long
<1>1. \A n \in Nat : n \div 16777216 \in 0..255 <=> n < 4294967296
  BY SMT
<1> QED
  BY <1>1, SMT DEF Word32, Long, Byte

Associate(a, b, c) == (a \o b) \o c = a \o (b \o c)

(* It does not matter which bytes are put together first.                  *)
LEMMA BytesAssociate == \A a, b, c \in Seq(Byte) : Associate(a, b, c)
BY ConcatAssociative DEF Associate

(* Some bytes out of others.                                               *)
LEMMA PartsAreBytes ==
  ASSUME NEW bytes \in Seq(Byte), NEW m \in Nat, NEW n \in Nat, n <= Len(bytes)
  PROVE  SubSeq(bytes, m + 1, n) \in Seq(Byte)
<1>1. Len(bytes) \in Nat
  BY LenProperties
<1>2. \A i \in m+1..n : bytes[i] \in Byte
  BY <1>1, ElementOfSeq
<1> QED
  BY <1>2, SubSeqProperties

(* The first n bytes of others.                                            *)
LEMMA FrontIsBytes ==
  ASSUME NEW bytes \in Seq(Byte), NEW n \in Nat, n <= Len(bytes)
  PROVE  SubSeq(bytes, 1, n) \in Seq(Byte)
<1>1. Len(bytes) \in Nat
  BY LenProperties
<1>2. \A i \in 1..n : bytes[i] \in Byte
  BY <1>1, ElementOfSeq
<1> QED
  BY <1>2, SubSeqProperties

(* What is left of bytes once the first n are erased.                      *)
LEMMA RestIsBytes ==
  ASSUME NEW bytes \in Seq(Byte), NEW n \in Nat
  PROVE  From(bytes, n) \in Seq(Byte)
<1>1. Len(bytes) \in Nat /\ Len(bytes) <= Len(bytes)
  BY LenProperties
<1> QED
  BY <1>1, PartsAreBytes DEF From

(* A packet as it is read, whatever the bytes mean.                        *)
Packets == [length : Nat, type : Nat, data : Seq(Byte)]

(* packet.cpp:63-90: whatever bytes are there, a packet is made of bytes.  *)
LEMMA AnyBytesAreAPacket ==
  ASSUME NEW bytes \in Seq(Byte)
  PROVE  Deserialize(bytes) \in Packets
<1>1. Len(bytes) \in Nat /\ SIZE = 6
  BY LenProperties DEF SIZE
<1>2. CASE Len(bytes) < SIZE
  BY <1>2, EmptySeq DEF Deserialize, EmptyPacket, Packets
<1>3. CASE Len(bytes) >= SIZE
  <2> DEFINE length == ReadU32(bytes, 0)
             data == IF length \in SIZE..Len(bytes)
                     THEN SubSeq(bytes, SIZE + 1, length) ELSE <<>>
  <2>1. \A i \in 1..6 : bytes[i] \in Nat
    <3>1. \A i \in 1..6 : i \in 1..Len(bytes)
      BY <1>1, <1>3
    <3>2. \A i \in 1..6 : bytes[i] \in Byte
      BY <3>1, ElementOfSeq
    <3>3. Byte \subseteq Nat
      BY DEF Byte
    <3> QED
      BY <3>2, <3>3
  <2>2. length \in Nat
    <3> DEFINE a == bytes[1]
               b == bytes[2]
               c == bytes[3]
               d == bytes[4]
    <3>1. a \in Nat /\ b \in Nat /\ c \in Nat /\ d \in Nat
      BY <2>1
    <3>2. length = 16777216 * a + 65536 * b + 256 * c + d
      BY SMT DEF ReadU32
    <3> HIDE DEF length, a, b, c, d
    <3>3. /\ 16777216 * a \in Nat /\ 65536 * b \in Nat /\ 256 * c \in Nat
      BY ONLY <3>1, SMT
    <3> DEFINE x == 16777216 * a
               y == 65536 * b
               z == 256 * c
    <3>4. x \in Nat /\ y \in Nat /\ z \in Nat /\ length = x + y + z + d
      BY ONLY <3>2, <3>3
    <3> HIDE DEF x, y, z
    <3> QED
      BY ONLY <3>1, <3>4, SMT
  <2>3. ReadU16(bytes, WORD) \in Nat
    <3> DEFINE a == bytes[WORD + 1]
               b == bytes[WORD + 2]
    <3>1. a \in Nat /\ b \in Nat
      BY <2>1 DEF WORD
    <3>2. ReadU16(bytes, WORD) = 256 * a + b
      BY SMT DEF ReadU16
    <3> HIDE DEF a, b
    <3> QED
      BY ONLY <3>1, <3>2, SMT
  <2> HIDE DEF length
  <2>4. data \in Seq(Byte)
    <3>1. CASE length \in SIZE..Len(bytes)
      <4>1. SubSeq(bytes, SIZE + 1, length) \in Seq(Byte)
        BY <1>1, <2>2, <3>1, PartsAreBytes
      <4> QED
        BY <3>1, <4>1
    <3>2. CASE length \notin SIZE..Len(bytes)
      BY <3>2, EmptySeq
    <3> QED
      BY <3>1, <3>2
  <2>5. Deserialize(bytes) = [length |-> length, type |-> ReadU16(bytes, WORD), data |-> data]
    BY <1>1, <1>3 DEF Deserialize, length
  <2> HIDE DEF data
  <2> QED
    BY <2>2, <2>3, <2>4, <2>5 DEF Packets
<1> QED
  BY <1>1, <1>2, <1>3

(* A complete packet is as long as it says, and what follows it is bytes.  *)
LEMMA CompletePacket ==
  ASSUME NEW bytes \in Seq(Byte), IsCompletePacket(bytes)
  PROVE  /\ Deserialize(bytes) \in Packets
         /\ From(bytes, TotalSize(Deserialize(bytes))) \in Seq(Byte)
<1>1. Deserialize(bytes) \in Packets
  BY AnyBytesAreAPacket
<1>2. TotalSize(Deserialize(bytes)) \in Nat /\ Len(bytes) \in Nat
  <2>1. Len(Deserialize(bytes).data) \in Nat
    BY <1>1, LenProperties DEF Packets
  <2> QED
    BY <2>1, LenProperties DEF TotalSize, SIZE
<1> QED
  BY <1>1, <1>2, RestIsBytes

----------------------------------------------------------------------------
(* Payloads.                                                               *)

(* The bytes of a field are those of h that follow the first m.            *)
FieldAt(h, m, field) == \A i \in 1..Len(field) : h[m + i] = field[i]

(* What has been written stays where it is when more is written.           *)
LEMMA FieldsStay ==
  ASSUME NEW h \in Seq(Byte), NEW more \in Seq(Byte), NEW field \in Seq(Byte),
         NEW m \in Nat, m + Len(field) <= Len(h), FieldAt(h, m, field)
  PROVE  FieldAt(h \o more, m, field)
<1>1. /\ Len(h) \in Nat /\ Len(field) \in Nat
      /\ \A i \in 1..Len(h) : (h \o more)[i] = h[i]
  BY LenProperties, Joined
<1>2. \A i \in 1..Len(field) : m + i \in 1..Len(h)
  BY <1>1
<1> QED
  BY <1>1, <1>2 DEF FieldAt

(* A field is written behind what there is.                                *)
LEMMA FieldIsWritten ==
  ASSUME NEW h \in Seq(Byte), NEW field \in Seq(Byte)
  PROVE  /\ h \o field \in Seq(Byte)
         /\ Len(h) \in Nat /\ Len(field) \in Nat
         /\ Len(h \o field) = Len(h) + Len(field)
         /\ FieldAt(h \o field, Len(h), field)
BY Joined DEF FieldAt

(* Three fields one behind the other.                                      *)
LEMMA ThreeFields ==
  ASSUME NEW a \in Seq(Byte), NEW b \in Seq(Byte), NEW c \in Seq(Byte)
  PROVE  LET h == a \o b \o c
         IN  /\ h \in Seq(Byte) /\ Len(h) = Len(a) + Len(b) + Len(c)
             /\ Len(a) \in Nat /\ Len(b) \in Nat /\ Len(c) \in Nat
             /\ FieldAt(h, 0, a) /\ FieldAt(h, Len(a), b) /\ FieldAt(h, Len(a) + Len(b), c)
<1> DEFINE ab == a \o b
<1>1. /\ ab \in Seq(Byte) /\ Len(a) \in Nat /\ Len(b) \in Nat
      /\ Len(ab) = Len(a) + Len(b) /\ FieldAt(ab, Len(a), b)
  BY FieldIsWritten
<1>2. FieldAt(a, 0, a)
  BY <1>1 DEF FieldAt
<1>3. FieldAt(ab, 0, a)
  BY <1>1, <1>2, FieldsStay
<1> HIDE DEF ab
<1>4. /\ ab \o c \in Seq(Byte) /\ Len(c) \in Nat /\ Len(ab \o c) = Len(ab) + Len(c)
      /\ FieldAt(ab \o c, Len(ab), c)
  BY <1>1, FieldIsWritten
<1>5. FieldAt(ab \o c, 0, a) /\ FieldAt(ab \o c, Len(a), b)
  BY <1>1, <1>3, FieldsStay
<1>6. FieldAt(ab \o c, Len(a) + Len(b), c) /\ Len(ab \o c) = Len(a) + Len(b) + Len(c)
  BY <1>1, <1>4
<1> QED
  BY <1>1, <1>4, <1>5, <1>6 DEF ab

Four(h, a, b, c, d) == h = a \o b \o c \o d

(* Four fields.                                                            *)
LEMMA FourFields ==
  ASSUME NEW a \in Seq(Byte), NEW b \in Seq(Byte), NEW c \in Seq(Byte), NEW d \in Seq(Byte),
         NEW h, Four(h, a, b, c, d)
  PROVE  /\ h \in Seq(Byte) /\ Len(h) = Len(a) + Len(b) + Len(c) + Len(d)
         /\ FieldAt(h, 0, a) /\ FieldAt(h, Len(a), b) /\ FieldAt(h, Len(a) + Len(b), c)
         /\ FieldAt(h, Len(a) + Len(b) + Len(c), d)
<1> DEFINE abc == a \o b \o c
<1>1. /\ abc \in Seq(Byte) /\ Len(abc) = Len(a) + Len(b) + Len(c)
      /\ Len(a) \in Nat /\ Len(b) \in Nat /\ Len(c) \in Nat
      /\ FieldAt(abc, 0, a) /\ FieldAt(abc, Len(a), b) /\ FieldAt(abc, Len(a) + Len(b), c)
  BY ThreeFields
<1> HIDE DEF abc
<1>2. /\ abc \o d \in Seq(Byte) /\ Len(d) \in Nat /\ Len(abc \o d) = Len(abc) + Len(d)
      /\ FieldAt(abc \o d, Len(abc), d)
  BY <1>1, FieldIsWritten
<1>3. /\ FieldAt(abc \o d, 0, a) /\ FieldAt(abc \o d, Len(a), b)
      /\ FieldAt(abc \o d, Len(a) + Len(b), c)
  BY <1>1, FieldsStay
<1>4. /\ FieldAt(abc \o d, Len(a) + Len(b) + Len(c), d)
      /\ Len(abc \o d) = Len(a) + Len(b) + Len(c) + Len(d)
  BY <1>1, <1>2
<1> QED
  BY <1>2, <1>3, <1>4 DEF abc, Four

(* serialization.cpp: htonl and ntohl of a field.                          *)
LEMMA WordIsRead ==
  ASSUME NEW n \in Word32
  PROVE  /\ U32(n) \in Seq(Byte) /\ Len(U32(n)) = WORD
         /\ \A h : \A m \in Nat : FieldAt(h, m, U32(n)) => ReadU32(h, m) = n
<1>1. /\ U32(n) \in Seq(Byte) /\ Len(U32(n)) = WORD
      /\ n = 16777216 * U32(n)[1] + 65536 * U32(n)[2] + 256 * U32(n)[3] + U32(n)[4]
  BY BytesOfLong, WordsAreLong, SMT
<1>2. ASSUME NEW h, NEW m \in Nat, FieldAt(h, m, U32(n)) PROVE ReadU32(h, m) = n
  <2>1. /\ h[m + 1] = U32(n)[1] /\ h[m + 2] = U32(n)[2]
        /\ h[m + 3] = U32(n)[3] /\ h[m + 4] = U32(n)[4]
    BY <1>1, <1>2, SMT DEF FieldAt, WORD
  <2> QED
    BY ONLY <1>1, <2>1, SMT DEF ReadU32
<1> QED
  BY <1>1, <1>2

(* A string takes the place of its length and of its text.                 *)
LEMMA StringIsWritten ==
  ASSUME NEW text \in Texts
  PROVE  /\ Str(text) \in Seq(Byte) /\ Len(Str(text)) = WORD + Len(text)
         /\ Len(text) \in Nat /\ Len(text) \in Word32 /\ text \in Seq(Byte) /\ WORD = 4
         /\ FieldAt(Str(text), 0, U32(Len(text))) /\ FieldAt(Str(text), WORD, text)
<1> DEFINE n == Len(text)
<1>1. text \in Seq(Byte) /\ n \in Word32 /\ n \in Nat /\ WORD = 4
  BY LenProperties DEF Texts, WORD
<1>2. U32(n) \in Seq(Byte) /\ Len(U32(n)) = WORD
  BY <1>1, WordIsRead
<1>3. /\ Str(text) \in Seq(Byte) /\ Len(Str(text)) = WORD + n
      /\ FieldAt(Str(text), WORD, text)
  BY <1>1, <1>2, FieldIsWritten DEF Str
<1>4. FieldAt(Str(text), 0, U32(n))
  <2>1. FieldAt(U32(n), 0, U32(n))
    BY <1>1, <1>2 DEF FieldAt
  <2> QED
    BY <1>1, <1>2, <2>1, FieldsStay DEF Str
<1> QED
  BY <1>1, <1>3, <1>4

(* It is read back, and the next field found.                              *)
LEMMA StringIsRead ==
  ASSUME NEW text, NEW field, NEW n, NEW h, NEW m,
         text \in Texts, field = Str(text), n = Len(text),
         h \in Seq(Byte), m \in Nat, FieldAt(h, m, field), m + WORD + n <= Len(h)
  PROVE  ReadStr(h, m).text = text /\ ReadStr(h, m).next = m + WORD + n
<1>1. /\ text \in Seq(Byte) /\ n \in Word32 /\ n \in Nat /\ WORD = 4
      /\ Len(field) = WORD + n /\ FieldAt(field, 0, U32(n)) /\ FieldAt(field, WORD, text)
      /\ U32(n) \in Seq(Byte) /\ Len(U32(n)) = WORD
  BY StringIsWritten, WordIsRead
<1>2. ReadU32(h, m) = n
  <2>1. FieldAt(h, m, U32(n))
    BY <1>1 DEF FieldAt
  <2> QED
    BY <1>1, <2>1, WordIsRead
<1>3. \A i \in 1..n : h[m + WORD + i] = text[i]
  <2> SUFFICES ASSUME NEW i \in 1..n PROVE h[m + WORD + i] = text[i]
    OBVIOUS
  <2>1. WORD + i \in 1..Len(field) /\ m + (WORD + i) = m + WORD + i
    BY <1>1
  <2>2. field[WORD + i] = text[i]
    BY <1>1 DEF FieldAt
  <2>3. h[m + (WORD + i)] = field[WORD + i]
    BY <2>1 DEF FieldAt
  <2> QED
    BY <2>1, <2>2, <2>3
<1>4. SubSeq(h, m + WORD + 1, m + WORD + n) = text
  <2> DEFINE from == m + WORD
             last == from + n
  <2>1. /\ h \in Seq(Byte) /\ text \in Seq(Byte) /\ from \in Nat /\ n = Len(text)
        /\ last = from + n /\ last <= Len(h) /\ \A i \in 1..n : h[from + i] = text[i]
    BY <1>1, <1>3
  <2> HIDE DEF from, last
  <2>2. SubSeq(h, from + 1, last) = text
    BY ONLY <2>1, Within
  <2> QED
    BY <2>2 DEF from, last
<1> QED
  BY <1>1, <1>2, <1>4 DEF ReadStr

(* serialization.cpp: the state of a player is read as it was written,     *)
(* whatever the name.                                                      *)
THEOREM PlayersAreReadBack ==
  ASSUME NEW state \in PlayerStates
  PROVE  /\ SerializePlayerState(state) \in Seq(Byte)
         /\ DeserializePlayerState(SerializePlayerState(state)) = state
<1> DEFINE name == state.username
           a == U32(state.id)
           b == U32(state.role)
           c == U32(state.score)
           d == Str(name)
           h == a \o b \o c \o d
           n == Len(name)
           fourth == 3 * WORD
<1>1. /\ state.id \in Word32 /\ state.role \in Word32 /\ state.score \in Word32
      /\ name \in Texts /\ d = Str(name) /\ n = Len(name)
      /\ state = [id |-> state.id, role |-> state.role, score |-> state.score,
                  username |-> name]
  BY DEF PlayerStates
<1>2. /\ a \in Seq(Byte) /\ Len(a) = WORD /\ b \in Seq(Byte) /\ Len(b) = WORD
      /\ c \in Seq(Byte) /\ Len(c) = WORD
  BY <1>1, WordIsRead
<1>3. d \in Seq(Byte) /\ Len(d) = WORD + n /\ n \in Nat /\ WORD = 4
  BY <1>1, StringIsWritten
<1> HIDE DEF name, a, b, c, d, n
<1>4. /\ h \in Seq(Byte) /\ Len(h) = Len(a) + Len(b) + Len(c) + Len(d)
      /\ FieldAt(h, 0, a) /\ FieldAt(h, Len(a), b) /\ FieldAt(h, Len(a) + Len(b), c)
      /\ FieldAt(h, Len(a) + Len(b) + Len(c), d)
  <2>1. /\ a \in Seq(Byte) /\ b \in Seq(Byte) /\ c \in Seq(Byte) /\ d \in Seq(Byte)
        /\ Four(h, a, b, c, d)
    BY <1>2, <1>3 DEF Four
  <2> HIDE DEF h
  <2> QED
    BY ONLY <2>1, FourFields
<1>5. SerializePlayerState(state) = h
  BY DEF SerializePlayerState, name, a, b, c, d
<1> HIDE DEF h
<1>6. /\ Len(h) = 4 * WORD + n /\ FieldAt(h, 0, a) /\ FieldAt(h, WORD, b)
      /\ FieldAt(h, 2 * WORD, c) /\ FieldAt(h, fourth, d)
      /\ WORD \in Nat /\ 2 * WORD \in Nat /\ fourth \in Nat
      /\ fourth + WORD + n <= Len(h) /\ ~(Len(h) < 4 * WORD)
  BY <1>2, <1>3, <1>4
<1>7. /\ ReadU32(h, 0) = state.id /\ ReadU32(h, WORD) = state.role
      /\ ReadU32(h, 2 * WORD) = state.score
  BY <1>1, <1>6, WordIsRead DEF a, b, c
<1> HIDE DEF fourth
<1>8. ReadStr(h, fourth).text = name
  <2>1. /\ name \in Texts /\ d = Str(name) /\ n = Len(name) /\ h \in Seq(Byte) /\ fourth \in Nat
        /\ FieldAt(h, fourth, d) /\ fourth + WORD + n <= Len(h)
    BY <1>1, <1>4, <1>6
  <2> QED
    BY ONLY <2>1, StringIsRead
<1>9. DeserializePlayerState(h) = state
  BY <1>1, <1>6, <1>7, <1>8 DEF DeserializePlayerState, fourth
<1> QED
  BY <1>4, <1>5, <1>9

(* serialization.cpp: so is a line of chat.                                *)
THEOREM ChatIsReadBack ==
  ASSUME NEW chat \in ChatMessages
  PROVE  /\ SerializeChatMessage(chat) \in Seq(Byte)
         /\ DeserializeChatMessage(SerializeChatMessage(chat)) = chat
<1> DEFINE name == chat.username
           text == chat.text
           a == U32(chat.sender)
           b == Str(name)
           c == Str(text)
           h == a \o b \o c
           m == Len(name)
           n == Len(text)
           second == WORD
           third == second + WORD + m
<1>1. /\ chat.sender \in Word32 /\ name \in Texts /\ text \in Texts
      /\ chat = [sender |-> chat.sender, username |-> name, text |-> text]
      /\ b = Str(name) /\ m = Len(name) /\ c = Str(text) /\ n = Len(text)
  BY DEF ChatMessages
<1>2. a \in Seq(Byte) /\ Len(a) = WORD
  BY <1>1, WordIsRead
<1>3. /\ b \in Seq(Byte) /\ Len(b) = WORD + m /\ m \in Nat /\ WORD = 4
      /\ c \in Seq(Byte) /\ Len(c) = WORD + n /\ n \in Nat
  BY <1>1, StringIsWritten
<1> HIDE DEF name, text, a, b, c, m, n
<1>4. /\ h \in Seq(Byte) /\ Len(h) = Len(a) + Len(b) + Len(c)
      /\ FieldAt(h, 0, a) /\ FieldAt(h, Len(a), b) /\ FieldAt(h, Len(a) + Len(b), c)
  BY <1>2, <1>3, ThreeFields
<1>5. SerializeChatMessage(chat) = h
  <2>1. \A x, y, z \in Seq(Byte) : x \o y \o z = x \o (y \o z)
    BY BytesAssociate DEF Associate
  <2> QED
    BY <1>2, <1>3, <2>1 DEF SerializeChatMessage, name, text, a, b, c
<1> HIDE DEF h
<1>6. /\ Len(h) = 3 * WORD + m + n /\ FieldAt(h, 0, a) /\ FieldAt(h, second, b)
      /\ FieldAt(h, third, c)
      /\ second \in Nat /\ third \in Nat /\ third = second + WORD + m
      /\ second + WORD + m <= Len(h)
      /\ third + WORD + n <= Len(h) /\ ~(Len(h) < 3 * WORD)
      /\ ~(third + WORD > Len(h))
  BY <1>2, <1>3, <1>4
<1> HIDE DEF second, third
<1>7. ReadU32(h, 0) = chat.sender
  BY <1>1, <1>6, WordIsRead DEF a
<1>8. ReadStr(h, second).text = name /\ ReadStr(h, second).next = third
  <2>1. /\ name \in Texts /\ b = Str(name) /\ m = Len(name) /\ h \in Seq(Byte) /\ second \in Nat
        /\ FieldAt(h, second, b) /\ second + WORD + m <= Len(h)
    BY <1>1, <1>4, <1>6
  <2>2. ReadStr(h, second).text = name /\ ReadStr(h, second).next = second + WORD + m
    BY ONLY <2>1, StringIsRead
  <2> QED
    BY <1>6, <2>2
<1>9. ReadStr(h, third).text = text
  <2>1. /\ text \in Texts /\ c = Str(text) /\ n = Len(text) /\ h \in Seq(Byte) /\ third \in Nat
        /\ FieldAt(h, third, c) /\ third + WORD + n <= Len(h)
    BY <1>1, <1>4, <1>6
  <2> QED
    BY ONLY <2>1, StringIsRead
<1>10. DeserializeChatMessage(h) = chat
  BY <1>1, <1>6, <1>7, <1>8, <1>9 DEF DeserializeChatMessage, second
<1> QED
  BY <1>4, <1>5, <1>10

(* serialization.cpp: so are a role, its topic and its word.               *)
THEOREM RolesAreReadBack ==
  ASSUME NEW card \in RoleAssignments
  PROVE  /\ SerializeRoleAssignment(card) \in Seq(Byte)
         /\ DeserializeRoleAssignment(SerializeRoleAssignment(card)) = card
<1> DEFINE topic == card.topic
           word == card.word
           a == U32(card.player)
           b == U32(card.role)
           c == Str(topic)
           d == Str(word)
           h == a \o b \o c \o d
           m == Len(topic)
           n == Len(word)
           third  == 2 * WORD
           fourth == third + WORD + m
<1>1. /\ card.player \in Word32 /\ card.role \in Word32
      /\ topic \in Texts /\ word \in Texts
      /\ card = [player |-> card.player, role |-> card.role, topic |-> topic, word |-> word]
      /\ c = Str(topic) /\ m = Len(topic) /\ d = Str(word) /\ n = Len(word)
  BY DEF RoleAssignments
<1>2. a \in Seq(Byte) /\ Len(a) = WORD /\ b \in Seq(Byte) /\ Len(b) = WORD
  BY <1>1, WordIsRead
<1>3. /\ c \in Seq(Byte) /\ Len(c) = WORD + m /\ m \in Nat /\ WORD = 4
      /\ d \in Seq(Byte) /\ Len(d) = WORD + n /\ n \in Nat
  BY <1>1, StringIsWritten
<1> HIDE DEF topic, word, a, b, c, d, m, n
<1>4. /\ h \in Seq(Byte) /\ Len(h) = Len(a) + Len(b) + Len(c) + Len(d)
      /\ FieldAt(h, 0, a) /\ FieldAt(h, Len(a), b) /\ FieldAt(h, Len(a) + Len(b), c)
      /\ FieldAt(h, Len(a) + Len(b) + Len(c), d)
  <2>1. /\ a \in Seq(Byte) /\ b \in Seq(Byte) /\ c \in Seq(Byte) /\ d \in Seq(Byte)
        /\ Four(h, a, b, c, d)
    BY <1>2, <1>3 DEF Four
  <2> HIDE DEF h
  <2> QED
    BY ONLY <2>1, FourFields
<1>5. SerializeRoleAssignment(card) = h
  BY DEF SerializeRoleAssignment, topic, word, a, b, c, d
<1> HIDE DEF h
<1>6. /\ Len(h) = 4 * WORD + m + n /\ FieldAt(h, 0, a) /\ FieldAt(h, WORD, b)
      /\ FieldAt(h, third, c) /\ FieldAt(h, fourth, d)
      /\ WORD \in Nat /\ third \in Nat /\ fourth \in Nat
      /\ fourth = third + WORD + m /\ third + WORD + m <= Len(h)
      /\ fourth + WORD + n <= Len(h) /\ ~(Len(h) < 3 * WORD)
      /\ ~(fourth + WORD > Len(h))
  BY <1>2, <1>3, <1>4
<1> HIDE DEF fourth
<1>7. ReadU32(h, 0) = card.player /\ ReadU32(h, WORD) = card.role
  BY <1>1, <1>6, WordIsRead DEF a, b
<1> HIDE DEF third
<1>8. ReadStr(h, third).text = topic /\ ReadStr(h, third).next = fourth
  <2>1. /\ topic \in Texts /\ c = Str(topic) /\ m = Len(topic) /\ h \in Seq(Byte) /\ third \in Nat
        /\ FieldAt(h, third, c) /\ third + WORD + m <= Len(h)
    BY <1>1, <1>4, <1>6
  <2>2. ReadStr(h, third).text = topic /\ ReadStr(h, third).next = third + WORD + m
    BY ONLY <2>1, StringIsRead
  <2> QED
    BY <1>6, <2>2
<1>9. ReadStr(h, fourth).text = word
  <2>1. /\ word \in Texts /\ d = Str(word) /\ n = Len(word) /\ h \in Seq(Byte) /\ fourth \in Nat
        /\ FieldAt(h, fourth, d) /\ fourth + WORD + n <= Len(h)
    BY <1>1, <1>4, <1>6
  <2> QED
    BY ONLY <2>1, StringIsRead
<1>10. DeserializeRoleAssignment(h) = card
  BY <1>1, <1>6, <1>7, <1>8, <1>9 DEF DeserializeRoleAssignment, third
<1> QED
  BY <1>4, <1>5, <1>10

----------------------------------------------------------------------------
(* Messages.                                                               *)

(* What may be sent on a connection, and what its receiver takes a packet  *)
(* for.                                                                    *)
Sendable(l) ==
  IF l \in Downlinks
  THEN Messages
  ELSE [kind : {PLAYER_JOIN}, text : Names] \cup [kind : {CHAT_MESSAGE}, text : Lines]

Meaning(l, packet) ==
  IF l \in Downlinks
  THEN Understood(packet.type, packet.data)
  ELSE [kind |-> packet.type, text |-> packet.data]

(* Packets a message may be sent as.                                       *)
PacketsOf(m) == {NewPacket(m.kind, payload) : payload \in Payloads(m)}

(* A kind is a number that is not 0 and goes into its field.               *)
LEMMA KindsFit ==
  \A kind \in {PLAYER_JOIN, PLAYER_LEAVE, GAME_STATE_UPDATE, PLAYER_JOINED, CHAT_MESSAGE,
               CHAT_BROADCAST, ROLE_ASSIGNMENT, VOTE_RESULT} : kind \in Short /\ kind # 0
BY SMT DEF PLAYER_JOIN, PLAYER_LEAVE, GAME_STATE_UPDATE, PLAYER_JOINED, CHAT_MESSAGE,
           CHAT_BROADCAST, ROLE_ASSIGNMENT, VOTE_RESULT, Short

(* game_client.cpp: what the server sends is understood as it was meant.   *)
LEMMA ServerIsUnderstood ==
  ASSUME NEW m \in Messages, NEW payload \in Payloads(m)
  PROVE  /\ m.kind \in Short /\ m.kind # 0
         /\ payload \in Seq(Byte) /\ LengthOf(payload) \in Word32
         /\ Understood(m.kind, payload) = m
<1>1. LengthOf(payload) \in Word32
  BY MessagesAssumption
<1>2. CASE m \in [kind : {PLAYER_JOINED, PLAYER_LEAVE}, state : PlayerStates]
  <2>1. /\ m.kind \in {PLAYER_JOINED, PLAYER_LEAVE} /\ m.state \in PlayerStates
        /\ m = [kind |-> m.kind, state |-> m.state]
        /\ m.kind \notin {GAME_STATE_UPDATE, CHAT_BROADCAST, ROLE_ASSIGNMENT, VOTE_RESULT}
    BY <1>2 DEF PLAYER_JOINED, PLAYER_LEAVE, GAME_STATE_UPDATE, CHAT_BROADCAST,
                ROLE_ASSIGNMENT, VOTE_RESULT
  <2>2. payload = SerializePlayerState(m.state)
    BY <2>1 DEF Payloads
  <2>3. /\ payload \in Seq(Byte) /\ DeserializePlayerState(payload) = m.state
    BY <2>1, <2>2, PlayersAreReadBack
  <2>4. Understood(m.kind, payload) = [kind |-> m.kind, state |-> m.state]
    BY <2>1, <2>3 DEF Understood
  <2> QED
    BY <1>1, <2>1, <2>3, <2>4, KindsFit
<1>3. CASE m \in [kind : {CHAT_BROADCAST}, chat : ChatMessages]
  <2>1. /\ m.kind = CHAT_BROADCAST /\ m.chat \in ChatMessages
        /\ m = [kind |-> m.kind, chat |-> m.chat]
        /\ m.kind \notin {PLAYER_JOINED, PLAYER_LEAVE, GAME_STATE_UPDATE, ROLE_ASSIGNMENT,
                          VOTE_RESULT}
    BY <1>3 DEF PLAYER_JOINED, PLAYER_LEAVE, GAME_STATE_UPDATE, CHAT_BROADCAST,
                ROLE_ASSIGNMENT, VOTE_RESULT
  <2>2. payload = SerializeChatMessage(m.chat)
    BY <2>1 DEF Payloads
  <2>3. payload \in Seq(Byte) /\ DeserializeChatMessage(payload) = m.chat
    BY <2>1, <2>2, ChatIsReadBack
  <2>4. Understood(m.kind, payload) = [kind |-> m.kind, chat |-> m.chat]
    BY <2>1, <2>3 DEF Understood
  <2> QED
    BY <1>1, <2>1, <2>3, <2>4, KindsFit
<1>4. CASE m \in [kind : {ROLE_ASSIGNMENT}, card : RoleAssignments]
  <2>1. /\ m.kind = ROLE_ASSIGNMENT /\ m.card \in RoleAssignments
        /\ m = [kind |-> m.kind, card |-> m.card]
        /\ m.kind \notin {PLAYER_JOINED, PLAYER_LEAVE, GAME_STATE_UPDATE, CHAT_BROADCAST,
                          VOTE_RESULT}
    BY <1>4 DEF PLAYER_JOINED, PLAYER_LEAVE, GAME_STATE_UPDATE, CHAT_BROADCAST,
                ROLE_ASSIGNMENT, VOTE_RESULT
  <2>2. payload = SerializeRoleAssignment(m.card)
    BY <2>1 DEF Payloads
  <2>3. payload \in Seq(Byte) /\ DeserializeRoleAssignment(payload) = m.card
    BY <2>1, <2>2, RolesAreReadBack
  <2>4. Understood(m.kind, payload) = [kind |-> m.kind, card |-> m.card]
    BY <2>1, <2>3 DEF Understood
  <2> QED
    BY <1>1, <2>1, <2>3, <2>4, KindsFit
<1>5. CASE m.kind \in {GAME_STATE_UPDATE, VOTE_RESULT} /\ ReadBack(m)
  BY <1>1, <1>5, KindsFit DEF ReadBack
<1> QED
  BY <1>2, <1>3, <1>4, <1>5, MessagesAssumption

(* Any packet that is sent has the size its header says, a type other than *)
(* 0, and the meaning it was sent with.                                    *)
LEMMA MessagesAreUnderstood ==
  ASSUME NEW l \in Links, NEW m \in Sendable(l), NEW packet \in PacketsOf(m)
  PROVE  Fit(packet) /\ packet.type # 0 /\ Meaning(l, packet) = m
<1>1. PICK payload \in Payloads(m) : packet = NewPacket(m.kind, payload)
  BY DEF PacketsOf
<1>2. packet.type = m.kind /\ packet.data = payload
  BY <1>1 DEF NewPacket
<1>3. CASE l \in Downlinks
  <2>1. /\ m.kind \in Short /\ m.kind # 0 /\ payload \in Seq(Byte)
        /\ LengthOf(payload) \in Long /\ Understood(m.kind, payload) = m
    BY <1>3, ServerIsUnderstood, WordsAreLong DEF Sendable
  <2> QED
    BY <1>1, <1>2, <1>3, <2>1, NewPacketsFit DEF Meaning
<1>4. CASE l \notin Downlinks
  <2>1. /\ m.kind \in {PLAYER_JOIN, CHAT_MESSAGE} /\ m.text \in Names \cup Lines
        /\ m = [kind |-> m.kind, text |-> m.text]
        /\ m.kind \notin {PLAYER_JOINED, PLAYER_LEAVE, GAME_STATE_UPDATE, CHAT_BROADCAST,
                          ROLE_ASSIGNMENT, VOTE_RESULT}
    BY <1>4 DEF Sendable, PLAYER_JOINED, PLAYER_LEAVE, GAME_STATE_UPDATE, CHAT_BROADCAST,
                ROLE_ASSIGNMENT, VOTE_RESULT, PLAYER_JOIN, CHAT_MESSAGE
  <2>2. payload = m.text
    BY <2>1 DEF Payloads
  <2>3. payload \in Seq(Byte) /\ LengthOf(payload) \in Long
    BY <2>1, <2>2, WordsAreLong, MessagesAssumption DEF Texts
  <2>4. m.kind \in Short /\ m.kind # 0
    BY <2>1, KindsFit
  <2> QED
    BY <1>1, <1>2, <1>4, <2>1, <2>2, <2>3, <2>4, NewPacketsFit DEF Meaning
<1> QED
  BY <1>3, <1>4

----------------------------------------------------------------------------
(* Connections.                                                            *)

(* The bytes of a packet are as many as its size says.                     *)
LEMMA PacketsAreBytes ==
  ASSUME NEW packet, Fit(packet)
  PROVE  /\ Serialize(packet) \in Seq(Byte)
         /\ TotalSize(packet) \in Nat /\ Len(Serialize(packet)) = TotalSize(packet)
<1> DEFINE long  == U32(packet.length)
           short == U16(packet.type)
           data  == packet.data
<1>1. long \in Seq(Byte) /\ Len(long) = WORD /\ short \in Seq(Byte) /\ Len(short) = HALF
  BY BytesOfLong, BytesOfShort DEF Fit
<1>2. data \in Seq(Byte) /\ Len(data) \in Nat /\ WORD + HALF = SIZE /\ SIZE \in Nat
  BY LenProperties DEF Fit, WORD, HALF, SIZE
<1>3. Serialize(packet) = long \o short \o data /\ TotalSize(packet) = SIZE + Len(data)
  BY DEF Serialize, TotalSize
<1> HIDE DEF long, short, data
<1>4. /\ long \o short \o data \in Seq(Byte)
      /\ Len(long \o short \o data) = Len(long) + Len(short) + Len(data)
  BY <1>1, <1>2, ThreeFields
<1> QED
  BY <1>1, <1>2, <1>3, <1>4

(* A stream in two parts.                                                  *)
Parts(stream, front, back) == stream = front \o back

(* Of two fronts of a stream the longer one begins with the other.         *)
LEMMA Splits ==
  ASSUME NEW a \in Seq(Byte), NEW n \in Seq(Byte), NEW p \in Seq(Byte), NEW r \in Seq(Byte),
         NEW stream, Parts(stream, a, n), Parts(stream, p, r), Len(p) <= Len(a)
  PROVE  /\ From(a, Len(p)) \in Seq(Byte)
         /\ Parts(a, p, From(a, Len(p)))
         /\ Parts(r, From(a, Len(p)), n)
<1> DEFINE t == From(a, Len(p))
<1>1. /\ Len(a) \in Nat /\ Len(p) \in Nat
      /\ \A i \in 1..Len(a) : (a \o n)[i] = a[i]
      /\ \A i \in 1..Len(p) : (p \o r)[i] = p[i]
  BY LenProperties, Joined
<1>2. t \in Seq(Byte)
  BY <1>1, RestIsBytes
<1>3. /\ Len(t) = Len(a) - Len(p)
      /\ \A i \in 1..Len(a) - Len(p) : t[i] = a[Len(p) + i]
  <2>1. \A i \in Len(p)+1..Len(a) : a[i] \in Byte
    BY <1>1, ElementOfSeq
  <2>2. /\ Len(t) = IF Len(p) + 1 <= Len(a) THEN Len(a) - (Len(p) + 1) + 1 ELSE 0
        /\ \A i \in 1 .. Len(a) - (Len(p) + 1) + 1 : t[i] = a[Len(p) + 1 + i - 1]
    BY <1>1, <2>1, SubSeqProperties DEF From
  <2> HIDE DEF t
  <2> QED
    BY <1>1, <2>2
<1> HIDE DEF t
<1>4. /\ p \o t \in Seq(Byte) /\ Len(p \o t) = Len(p) + Len(t)
      /\ \A i \in 1..Len(p) : (p \o t)[i] = p[i]
      /\ \A i \in 1..Len(t) : (p \o t)[Len(p) + i] = t[i]
  BY <1>2, Joined
<1>5. a = p \o t
  <2> DEFINE pt == p \o t
  <2> HIDE DEF pt
  <2>0. /\ pt \in Seq(Byte) /\ Len(pt) = Len(p) + Len(t)
        /\ \A i \in 1..Len(p) : pt[i] = p[i]
        /\ \A i \in 1..Len(t) : pt[Len(p) + i] = t[i]
    BY <1>4 DEF pt
  <2>1. Len(a) = Len(pt)
    BY <1>1, <1>3, <2>0
  <2>2. ASSUME NEW i \in 1..Len(a) PROVE a[i] = pt[i]
    <3> DEFINE h == a \o n
    <3>0. /\ h = p \o r
          /\ \A k \in 1..Len(a) : h[k] = a[k]
          /\ \A k \in 1..Len(p) : h[k] = p[k]
      BY <1>1 DEF Parts
    <3> HIDE DEF h
    <3>1. CASE i <= Len(p)
      BY <1>1, <2>0, <3>0, <3>1
    <3>2. CASE i > Len(p)
      <4> DEFINE j == i - Len(p)
      <4>1. /\ j \in 1..Len(a) - Len(p) /\ j \in 1..Len(t) /\ Len(p) + j = i
        BY <1>1, <1>3, <3>2
      <4> HIDE DEF j
      <4>2. t[j] = a[Len(p) + j] /\ pt[Len(p) + j] = t[j]
        BY ONLY <1>3, <2>0, <4>1
      <4> QED
        BY <4>1, <4>2
    <3> QED
      BY <1>1, <3>1, <3>2
  <2>3. a = pt
    BY <2>0, <2>1, <2>2, SeqEqual
  <2> QED
    BY <2>3 DEF pt
<1>6. t \o n = r
  <2>1. t \o n \in Seq(Byte)
    BY <1>2, Joined
  <2>2. (p \o t) \o n = p \o (t \o n)
    <3>1. p \in Seq(Byte) /\ t \in Seq(Byte) /\ n \in Seq(Byte)
      BY <1>2
    <3>2. Associate(p, t, n)
      BY ONLY <3>1, BytesAssociate
    <3> QED
      BY ONLY <3>2 DEF Associate
  <2>3. p \o (t \o n) = p \o r
    <3>1. a \o n = p \o r
      BY DEF Parts
    <3>2. a \o n = (p \o t) \o n
      BY ONLY <1>5
    <3> QED
      BY ONLY <2>2, <3>1, <3>2
  <2>4. \A u, v, w \in Seq(Byte) : u \o v = u \o w => v = w
    BY ConcatSimplifications
  <2> QED
    BY <2>1, <2>3, <2>4
<1> QED
  BY <1>2, <1>5, <1>6 DEF t, Parts

(* A receiver that finds a packet complete in its buffer, with more on its *)
(* way, finds the one that was sent first, and leaves what follows it.     *)
LEMMA HeadIsTaken ==
  ASSUME NEW packet, Fit(packet), NEW b \in Seq(Byte), NEW n \in Seq(Byte),
         NEW rest \in Seq(Byte), NEW stream, Parts(stream, b, n),
         Parts(stream, Serialize(packet), rest), IsCompletePacket(b)
  PROVE  Deserialize(b) = packet /\ Parts(rest, From(b, TotalSize(packet)), n)
<1>0. b \o n = Serialize(packet) \o rest
  BY DEF Parts
<1> DEFINE p == Serialize(packet)
<1>1. p \in Seq(Byte) /\ TotalSize(packet) \in Nat /\ Len(p) = TotalSize(packet)
  BY PacketsAreBytes
<1>2. Len(b) \in Nat /\ Len(b) <= Len(b \o n) /\ \A i \in 1..Len(b) : (b \o n)[i] = b[i]
  BY Joined
<1>3. TotalSize(packet) <= Len(b)
  <2> SUFFICES ASSUME Len(b) < TotalSize(packet) PROVE FALSE
    BY <1>1, <1>2
  <2>1. SubSeq(p \o rest, 1, Len(b)) = b
    <3> DEFINE h == b \o n
               last == Len(b)
    <3>1. h \in Seq(Byte)
      BY Joined
    <3>2. /\ h \in Seq(Byte) /\ b \in Seq(Byte) /\ 0 \in Nat /\ last = Len(b) /\ last = 0 + last
          /\ last <= Len(h) /\ \A i \in 1..last : h[0 + i] = b[i]
      BY <1>2, <3>1
    <3> HIDE DEF h, last
    <3>3. SubSeq(h, 0 + 1, last) = b
      BY ONLY <3>2, Within
    <3> QED
      BY <1>0, <3>3 DEF h, last
  <2>2. Len(b) \in 0..TotalSize(packet) - 1
    BY <1>1, <1>2
  <2>3. ~IsCompletePacket(SubSeq(p \o rest, 1, Len(b)))
    BY <2>2, NoPacketTooEarly
  <2> QED
    BY <2>1, <2>3
<1>4. /\ From(b, Len(p)) \in Seq(Byte)
      /\ b = p \o From(b, Len(p)) /\ Parts(rest, From(b, Len(p)), n)
  <2>1. /\ b \in Seq(Byte) /\ n \in Seq(Byte) /\ p \in Seq(Byte) /\ rest \in Seq(Byte)
        /\ Parts(b \o n, b, n) /\ Parts(b \o n, p, rest) /\ Len(p) <= Len(b)
    BY <1>0, <1>1, <1>3 DEF Parts
  <2> HIDE DEF p
  <2>2. /\ From(b, Len(p)) \in Seq(Byte)
        /\ Parts(b, p, From(b, Len(p))) /\ Parts(rest, From(b, Len(p)), n)
    BY ONLY <2>1, Splits
  <2> QED
    BY <2>2 DEF Parts
<1>5. Deserialize(p \o From(b, Len(p))) = packet
  BY <1>4, PacketsAreFramed
<1> QED
  BY <1>1, <1>4, <1>5

(* Of the messages s, the first k have been handled; bytes are what of the *)
(* others is in the buffer or on its way: their packets, one behind the    *)
(* other, then one of ends.  rests[j] is what follows the j-th.            *)
Follow(s, k, ends, rests) ==
  /\ rests[Len(s)] \in ends
  /\ \A j \in k .. Len(s) - 1 :
       \E packet \in PacketsOf(s[j + 1]) : Parts(rests[j], Serialize(packet), rests[j + 1])

InOrder(s, k, ends, bytes) ==
  /\ k > Len(s) => ends = Seq(Byte)
  /\ k <= Len(s) =>
       \E rests \in [0..Len(s) -> Seq(Byte)] : rests[k] = bytes /\ Follow(s, k, ends, rests)

(* Nothing follows the last packet, or anything when one was cut short.    *)
Ends == {{<<>>}, Seq(Byte)}

(* The next packet a receiver finds is that of the next message, with its  *)
(* type and meaning, and the rest stays in order; after the last message   *)
(* there is no packet unless one was cut short.                            *)
LEMMA NextIsFirst ==
  ASSUME NEW l \in Links, NEW s \in Seq(Sendable(l)), NEW k \in Nat, NEW ends \in Ends,
         NEW b \in Seq(Byte), NEW n \in Seq(Byte), NEW bytes, Parts(bytes, b, n),
         InOrder(s, k, ends, bytes), IsCompletePacket(b),
         NEW packet, packet = Deserialize(b),
         NEW rest, Parts(rest, From(b, TotalSize(packet)), n)
  PROVE  \/ /\ k < Len(s)
            /\ packet.type # 0 /\ Meaning(l, packet) = s[k + 1]
            /\ InOrder(s, k + 1, ends, rest)
         \/ /\ k >= Len(s) /\ ends = Seq(Byte)
            /\ InOrder(s, k, ends, rest) /\ InOrder(s, k + 1, ends, rest)
<1>1. Len(s) \in Nat /\ Len(b) \in Nat
  BY LenProperties
<1>2. rest \in Seq(Byte)
  BY CompletePacket, Joined DEF Parts
<1>3. CASE k < Len(s)
  <2>1. k <= Len(s) /\ ~(k + 1 > Len(s)) /\ k + 1 <= Len(s)
    BY <1>1, <1>3
  <2>2. PICK rests \in [0..Len(s) -> Seq(Byte)] :
          rests[k] = bytes /\ Follow(s, k, ends, rests)
    BY <2>1 DEF InOrder
  <2>3. k \in k .. Len(s) - 1 /\ k + 1 \in 1..Len(s) /\ k + 1 \in 0..Len(s)
    BY <1>1, <1>3
  <2>4. PICK first \in PacketsOf(s[k + 1]) : Parts(bytes, Serialize(first), rests[k + 1])
    BY <2>2, <2>3 DEF Follow
  <2>5. Fit(first) /\ first.type # 0 /\ Meaning(l, first) = s[k + 1]
    <3>1. s[k + 1] \in Sendable(l)
      BY <2>3, ElementOfSeq
    <3> QED
      BY <2>4, <3>1, MessagesAreUnderstood
  <2>6. rests[k + 1] \in Seq(Byte)
    BY <2>3
  <2>7. Deserialize(b) = first /\ Parts(rests[k + 1], From(b, TotalSize(first)), n)
    BY <2>4, <2>5, <2>6, HeadIsTaken
  <2>8. packet = first /\ rests[k + 1] = rest
    BY <2>7 DEF Parts
  <2>9. Follow(s, k + 1, ends, rests)
    <3>1. \A j \in k + 1 .. Len(s) - 1 : j \in k .. Len(s) - 1
      BY <1>1
    <3> QED
      BY <2>2, <3>1 DEF Follow
  <2>10. InOrder(s, k + 1, ends, rest)
    BY <2>1, <2>8, <2>9 DEF InOrder
  <2> QED
    BY <1>3, <2>5, <2>8, <2>10
<1>4. CASE k = Len(s)
  <2>1. PICK rests \in [0..Len(s) -> Seq(Byte)] :
          rests[k] = bytes /\ Follow(s, k, ends, rests)
    <3>1. k <= Len(s)
      BY <1>1, <1>4
    <3> QED
      BY <3>1 DEF InOrder
  <2>2. ends = Seq(Byte)
    <3> SUFFICES ASSUME ends = {<<>>} PROVE FALSE
      BY DEF Ends
    <3>1. b \o n = <<>>
      BY <1>4, <2>1 DEF Follow, Parts
    <3>2. b = <<>>
      BY <3>1, ConcatEqualIffEmpty
    <3> QED
      BY <3>2 DEF IsCompletePacket, SIZE
  <2>3. InOrder(s, k, ends, rest)
    <3> DEFINE after == [rests EXCEPT ![k] = rest]
    <3>1. after \in [0..Len(s) -> Seq(Byte)] /\ after[k] = rest /\ after[Len(s)] = rest
      BY <1>1, <1>2, <1>4
    <3> HIDE DEF after
    <3>2. ~(k > Len(s)) /\ \A j \in k .. Len(s) - 1 : FALSE
      BY <1>1, <1>4
    <3>3. Follow(s, k, ends, after)
      BY <1>2, <2>2, <3>1, <3>2 DEF Follow
    <3> QED
      BY <3>1, <3>2, <3>3 DEF InOrder
  <2>4. InOrder(s, k + 1, ends, rest)
    <3>1. ~(k + 1 <= Len(s))
      BY <1>1, <1>4
    <3> QED
      BY <2>2, <3>1 DEF InOrder
  <2> QED
    BY <1>1, <1>4, <2>2, <2>3, <2>4
<1>5. CASE k > Len(s)
  <2>1. ~(k <= Len(s)) /\ ~(k + 1 <= Len(s)) /\ k >= Len(s)
    BY <1>1, <1>5
  <2>2. ends = Seq(Byte)
    BY <1>5 DEF InOrder
  <2> QED
    BY <2>1, <2>2 DEF InOrder
<1> QED
  BY <1>1, <1>3, <1>4, <1>5

(* What follows each message when bytes are added to those on their way.   *)
Extended(s, rests, more) == [j \in 0..Len(s) |-> rests[j] \o more]

(* They are behind all the packets that were there.                        *)
LEMMA MoreFollows ==
  ASSUME NEW M, NEW s \in Seq(M), NEW k \in Nat, NEW ends \in Ends,
         NEW rests \in [0..Len(s) -> Seq(Byte)], Follow(s, k, ends, rests),
         NEW more \in Seq(Byte),
         \A m \in M : \A packet \in PacketsOf(m) : Fit(packet),
         NEW after, after = Extended(s, rests, more)
  PROVE  /\ after \in [0..Len(s) -> Seq(Byte)]
         /\ \A j \in k .. Len(s) - 1 :
              \E packet \in PacketsOf(s[j + 1]) :
                Parts(after[j], Serialize(packet), after[j + 1])
<1>0. after = [j \in 0..Len(s) |-> rests[j] \o more]
  BY DEF Extended
<1>1. Len(s) \in Nat /\ \A j \in 0..Len(s) : rests[j] \in Seq(Byte)
  BY LenProperties
<1>2. after \in [0..Len(s) -> Seq(Byte)]
  <2>1. \A j \in 0..Len(s) : rests[j] \o more \in Seq(Byte)
    BY <1>1, Joined
  <2> QED
    BY <1>0, <2>1
<1>3. ASSUME NEW j \in k .. Len(s) - 1
      PROVE  \E packet \in PacketsOf(s[j + 1]) :
               Parts(after[j], Serialize(packet), after[j + 1])
  <2>1. j \in 0..Len(s) /\ j + 1 \in 0..Len(s) /\ j + 1 \in 1..Len(s)
    BY <1>1
  <2>2. PICK packet \in PacketsOf(s[j + 1]) :
          Parts(rests[j], Serialize(packet), rests[j + 1])
    BY DEF Follow
  <2> DEFINE p == Serialize(packet)
             x == rests[j]
             y == rests[j + 1]
  <2>3. p \in Seq(Byte) /\ y \in Seq(Byte)
    <3>1. s[j + 1] \in M
      BY <2>1, ElementOfSeq
    <3> QED
      BY <1>1, <2>1, <2>2, <3>1, PacketsAreBytes
  <2>4. x = p \o y
    BY <2>2 DEF Parts
  <2>5. after[j] = x \o more /\ after[j + 1] = y \o more
    BY <1>0, <2>1
  <2> HIDE DEF p, x, y
  <2>6. (p \o y) \o more = p \o (y \o more)
    <3>1. p \in Seq(Byte) /\ y \in Seq(Byte) /\ more \in Seq(Byte)
      BY <2>3
    <3>2. Associate(p, y, more)
      BY ONLY <3>1, BytesAssociate
    <3> QED
      BY ONLY <3>2 DEF Associate
  <2>7. after[j] = p \o after[j + 1]
    BY ONLY <2>4, <2>5, <2>6
  <2> QED
    BY <2>2, <2>7 DEF Parts, p
<1> QED
  BY <1>2, <1>3

----------------------------------------------------------------------------
(* Types of the state.                                                     *)

Queued == {packet \in Packets : packet.type # 0}

(* Where a receiver may be.                                                *)
Stations(l) == IF l \in Uplinks THEN {"recv", "parse", "call"} ELSE {"look", "recv"}

StreamOK ==
  /\ net \in [Links -> Seq(Byte)]
  /\ buffer \in [Links -> Seq(Byte)]
  /\ torn \in [Links -> BOOLEAN]
  /\ at = [l \in Links |-> at[l]] /\ \A l \in Links : at[l] \in Stations(l)
  /\ queue \in Seq(Queued)
  /\ consumer \in [Consumers -> Places]
  /\ sends \in 0..MaxSends

(* What is sent is a message that may be, in one of its packets.           *)
LEMMA SentIsBytes ==
  ASSUME NEW l \in Links, NEW m \in Offered(l), NEW payload \in Payloads(m)
  PROVE  LET packet == NewPacket(m.kind, payload)
         IN  /\ m \in Sendable(l) /\ packet \in PacketsOf(m)
             /\ Serialize(packet) \in Seq(Byte)
<1>1. m \in Sendable(l)
  BY DEF Offered, Sendable
<1>2. NewPacket(m.kind, payload) \in PacketsOf(m)
  BY DEF PacketsOf
<1> QED
  BY <1>1, <1>2, MessagesAreUnderstood, PacketsAreBytes

(* recv() moves bytes from the connection to the end of the buffer.        *)
LEMMA RecvMovesBytes ==
  ASSUME NEW l \in Links, buffer \in [Links -> Seq(Byte)], net \in [Links -> Seq(Byte)],
         Recv(l)
  PROVE  \E b, n \in Seq(Byte) :
           /\ buffer' = [buffer EXCEPT ![l] = b]
           /\ net' = [net EXCEPT ![l] = n]
           /\ b \o n = buffer[l] \o net[l]
<1>1. PICK k \in 1 .. Least(Len(net[l]), BufferSize) :
        /\ buffer' = [buffer EXCEPT ![l] = @ \o SubSeq(net[l], 1, k)]
        /\ net' = [net EXCEPT ![l] = From(@, k)]
  BY DEF Recv
<1> DEFINE a == buffer[l]
           h == net[l]
           front == SubSeq(h, 1, k)
           back  == From(h, k)
<1>2. a \in Seq(Byte) /\ h \in Seq(Byte)
  OBVIOUS
<1>3. Len(h) \in Nat /\ k \in 1..Len(h) /\ k \in Nat
  BY <1>2, LenProperties, StreamAssumption DEF Least
<1> HIDE DEF a, h
<1>4. front \in Seq(Byte) /\ back \in Seq(Byte)
  <2>1. SubSeq(h, 1, k) \in Seq(Byte)
    BY <1>2, <1>3, FrontIsBytes
  <2>2. From(h, k) \in Seq(Byte)
    <3>1. h \in Seq(Byte) /\ k \in Nat
      BY <1>2, <1>3
    <3> QED
      BY ONLY <3>1, RestIsBytes
  <2> QED
    BY ONLY <2>1, <2>2
<1>5. front \o back = h
  <2>1. SubSeq(h, 1, k) \o SubSeq(h, k + 1, Len(h)) = SubSeq(h, 1, Len(h))
    BY <1>2, <1>3, ConcatAdjacentSubSeq
  <2>2. SubSeq(h, 1, Len(h)) = h
    BY <1>2, SubSeqFull
  <2>3. back = SubSeq(h, k + 1, Len(h))
    BY DEF From
  <2>4. front = SubSeq(h, 1, k)
    OBVIOUS
  <2> HIDE DEF front, back
  <2> QED
    BY ONLY <2>1, <2>2, <2>3, <2>4, Zenon
<1> HIDE DEF front, back
<1>6. (a \o front) \o back = a \o (front \o back)
  <2>1. a \in Seq(Byte) /\ front \in Seq(Byte) /\ back \in Seq(Byte)
    BY <1>2, <1>4
  <2>2. Associate(a, front, back)
    BY ONLY <2>1, BytesAssociate
  <2> QED
    BY ONLY <2>2 DEF Associate
<1>7. (a \o front) \in Seq(Byte) /\ (a \o front) \o back = a \o h
  <2>1. (a \o front) \in Seq(Byte)
    BY <1>2, <1>4, Joined
  <2>2. (a \o front) \o back = a \o h
    BY ONLY <1>5, <1>6
  <2> QED
    BY <2>1, <2>2
<1>8. buffer' = [buffer EXCEPT ![l] = a \o front] /\ net' = [net EXCEPT ![l] = back]
  BY <1>1 DEF a, h, front, back
<1> DEFINE b == a \o front
<1>9. b \in Seq(Byte) /\ b \o back = a \o h /\ buffer' = [buffer EXCEPT ![l] = b]
  BY <1>7, <1>8
<1> HIDE DEF b
<1>10. b \o back = buffer[l] \o net[l]
  BY <1>9 DEF a, h
<1> QED
  BY <1>4, <1>8, <1>9, <1>10

(* A complete packet.                                                      *)
LEMMA CompleteIsRead ==
  ASSUME NEW l \in Links, buffer[l] \in Seq(Byte), NEW packet \in Complete(l)
  PROVE  /\ packet = Deserialize(buffer[l]) /\ IsCompletePacket(buffer[l])
         /\ packet \in Packets
         /\ From(buffer[l], TotalSize(packet)) \in Seq(Byte)
<1>1. packet = Deserialize(buffer[l]) /\ IsCompletePacket(buffer[l])
  BY DEF Complete
<1> QED
  BY <1>1, CompletePacket

(* A step of a receiver moves it to a station of its own.                  *)
LEMMA ReceiverKeepsTypes ==
  ASSUME StreamOK, NEW l \in Links, NEW b \in Seq(Byte), NEW n \in Seq(Byte),
         NEW place \in Stations(l), at' = [at EXCEPT ![l] = place],
         buffer' = [buffer EXCEPT ![l] = b], net' = [net EXCEPT ![l] = n],
         queue' \in Seq(Queued), consumer' \in [Consumers -> Places],
         UNCHANGED <<torn, sends>>
  PROVE  StreamOK'
BY DEF StreamOK, Stations

(* A push puts a packet with a type into the queue.                        *)
LEMMA PushKeepsTypes ==
  ASSUME StreamOK, NEW packet \in Queued, Push(packet)
  PROVE  queue' \in Seq(Queued) /\ consumer' \in [Consumers -> Places]
<1>1. queue' \in Seq(Queued)
  BY AppendProperties DEF StreamOK, Push
<1>2. consumer' \in [Consumers -> Places]
  <2>1. CASE At("waiting") = {}
    BY <2>1 DEF StreamOK, Push, NotifyOne
  <2>2. CASE At("waiting") # {}
    BY <2>2 DEF StreamOK, Push, NotifyOne, Places
  <2> QED
    BY <2>1, <2>2
<1> QED
  BY <1>1, <1>2

(* Every step of the thread that serves a client.                          *)
LEMMA HandlerKeepsTypes ==
  ASSUME StreamOK, NEW l \in Uplinks, HandleClient(l)
  PROVE  StreamOK'
<1>1. /\ l \in Links /\ buffer[l] \in Seq(Byte) /\ net[l] \in Seq(Byte)
      /\ buffer = [buffer EXCEPT ![l] = buffer[l]] /\ net = [net EXCEPT ![l] = net[l]]
      /\ "recv" \in Stations(l) /\ "parse" \in Stations(l) /\ "call" \in Stations(l)
      /\ queue \in Seq(Queued) /\ consumer \in [Consumers -> Places]
  BY DEF StreamOK, Links, Stations
<1>2. CASE ServerReceives(l)
  <2>1. PICK b, n \in Seq(Byte) :
          /\ buffer' = [buffer EXCEPT ![l] = b]
          /\ net' = [net EXCEPT ![l] = n]
          /\ b \o n = buffer[l] \o net[l]
    <3>1. buffer \in [Links -> Seq(Byte)] /\ net \in [Links -> Seq(Byte)] /\ Recv(l)
      BY <1>2 DEF ServerReceives, StreamOK
    <3> QED
      BY ONLY <1>1, <3>1, RecvMovesBytes
  <2>2. /\ at' = [at EXCEPT ![l] = "parse"]
        /\ UNCHANGED <<torn, sends, queue, consumer>>
    BY <1>2 DEF ServerReceives, Goto, senderVars, queueVars
  <2> QED
    BY <1>1, <2>1, <2>2, ReceiverKeepsTypes
<1>3. CASE PushPacket(l)
  <2>1. PICK packet \in Complete(l) :
          /\ packet.type # 0 /\ at' = [at EXCEPT ![l] = "call"] /\ Push(packet)
          /\ UNCHANGED <<torn, sends, net, buffer>>
    BY <1>3 DEF PushPacket, Goto, senderVars
  <2>2. packet \in Queued
    BY <1>1, <2>1, CompleteIsRead DEF Queued
  <2>3. queue' \in Seq(Queued) /\ consumer' \in [Consumers -> Places]
    BY <2>1, <2>2, PushKeepsTypes
  <2>4. buffer' = [buffer EXCEPT ![l] = buffer[l]] /\ net' = [net EXCEPT ![l] = net[l]]
    BY <1>1, <2>1
  <2> QED
    BY <1>1, <2>1, <2>3, <2>4, ReceiverKeepsTypes
<1>4. ASSUME NEW packet \in Complete(l), at' = [at EXCEPT ![l] = "parse"], Erase(l, packet),
             UNCHANGED <<torn, sends, net, queue, consumer>>
      PROVE  StreamOK'
  <2> DEFINE b == From(buffer[l], TotalSize(packet))
  <2>1. b \in Seq(Byte)
    BY <1>1, CompleteIsRead
  <2>2. buffer' = [buffer EXCEPT ![l] = b] /\ net' = [net EXCEPT ![l] = net[l]]
    BY <1>1, <1>4 DEF Erase
  <2>3. queue' \in Seq(Queued) /\ consumer' \in [Consumers -> Places]
    BY <1>1, <1>4
  <2> HIDE DEF b
  <2> QED
    BY <1>1, <1>4, <2>1, <2>2, <2>3, ReceiverKeepsTypes
<1>5. CASE SkipPacket(l) \/ Call(l)
  BY <1>4, <1>5 DEF SkipPacket, Call, CallTo, Goto, senderVars, queueVars
<1>6. CASE ServerWantsMore(l)
  <2>1. /\ at' = [at EXCEPT ![l] = "recv"]
        /\ UNCHANGED <<torn, sends, net, buffer, queue, consumer>>
    BY <1>6 DEF ServerWantsMore, Goto, senderVars, queueVars
  <2>2. buffer' = [buffer EXCEPT ![l] = buffer[l]] /\ net' = [net EXCEPT ![l] = net[l]]
    BY <1>1, <2>1
  <2>3. queue' \in Seq(Queued) /\ consumer' \in [Consumers -> Places]
    BY <1>1, <2>1
  <2> QED
    BY <1>1, <2>1, <2>2, <2>3, ReceiverKeepsTypes
<1> QED
  BY <1>2, <1>3, <1>5, <1>6 DEF HandleClient

(* Every step of a client's receiving thread.                              *)
LEMMA ClientKeepsTypes ==
  ASSUME StreamOK, NEW l \in Downlinks, ReceivePacket(l)
  PROVE  StreamOK'
<1>1. /\ l \in Links /\ buffer[l] \in Seq(Byte) /\ net[l] \in Seq(Byte)
      /\ buffer = [buffer EXCEPT ![l] = buffer[l]] /\ net = [net EXCEPT ![l] = net[l]]
      /\ "recv" \in Stations(l) /\ "look" \in Stations(l)
      /\ queue \in Seq(Queued) /\ consumer \in [Consumers -> Places]
  BY StreamAssumption DEF StreamOK, Links, Stations
<1>2. ReceivePacket(l) => UNCHANGED <<torn, sends, queue, consumer>>
  BY DEF ReceivePacket, TakePacket, ClientWantsMore, ClientReceives, senderVars, queueVars
<1>3. queue' \in Seq(Queued) /\ consumer' \in [Consumers -> Places]
  BY <1>1, <1>2
<1>4. CASE ClientReceives(l)
  <2>1. PICK b, n \in Seq(Byte) :
          /\ buffer' = [buffer EXCEPT ![l] = b]
          /\ net' = [net EXCEPT ![l] = n]
          /\ b \o n = buffer[l] \o net[l]
    <3>1. buffer \in [Links -> Seq(Byte)] /\ net \in [Links -> Seq(Byte)] /\ Recv(l)
      BY <1>4 DEF ClientReceives, StreamOK
    <3> QED
      BY ONLY <1>1, <3>1, RecvMovesBytes
  <2>2. at' = [at EXCEPT ![l] = "look"]
    BY <1>4 DEF ClientReceives, Goto
  <2> QED
    BY <1>1, <1>2, <1>3, <2>1, <2>2, ReceiverKeepsTypes
<1>5. CASE TakePacket(l)
  <2>1. PICK packet \in Complete(l) :
          at' = [at EXCEPT ![l] = "look"] /\ Erase(l, packet) /\ UNCHANGED net
    BY <1>5 DEF TakePacket, Goto
  <2> DEFINE b == From(buffer[l], TotalSize(packet))
  <2>2. b \in Seq(Byte)
    BY <1>1, <2>1, CompleteIsRead
  <2>3. buffer' = [buffer EXCEPT ![l] = b] /\ net' = [net EXCEPT ![l] = net[l]]
    BY <1>1, <2>1 DEF Erase
  <2> HIDE DEF b
  <2> QED
    BY <1>1, <1>2, <1>3, <2>1, <2>2, <2>3, ReceiverKeepsTypes
<1>6. CASE ClientWantsMore(l)
  <2>1. at' = [at EXCEPT ![l] = "recv"] /\ UNCHANGED <<net, buffer>>
    BY <1>6 DEF ClientWantsMore, Goto
  <2>2. buffer' = [buffer EXCEPT ![l] = buffer[l]] /\ net' = [net EXCEPT ![l] = net[l]]
    BY <1>1, <2>1
  <2> QED
    BY <1>1, <1>2, <1>3, <2>1, <2>2, ReceiverKeepsTypes
<1> QED
  BY <1>4, <1>5, <1>6 DEF ReceivePacket

(* Sends add bytes to those on their way.                                  *)
LEMMA SendKeepsTypes ==
  ASSUME StreamOK, NEW l \in Links, SendPacket(l) \/ SendPart(l)
  PROVE  StreamOK'
<1>1. /\ UNCHANGED <<buffer, at, queue, consumer>> /\ sends' \in 0..MaxSends
      /\ torn' \in [Links -> BOOLEAN]
  <2>1. sends < MaxSends /\ sends' = sends + 1 /\ UNCHANGED <<buffer, at, queue, consumer>>
    BY DEF SendPacket, SendPart, queueVars
  <2>2. sends' \in 0..MaxSends
    BY <2>1, StreamAssumption DEF StreamOK
  <2>3. torn' = torn \/ torn' = [torn EXCEPT ![l] = TRUE]
    BY DEF SendPacket, SendPart
  <2> QED
    BY <2>1, <2>2, <2>3 DEF StreamOK
<1>2. net' \in [Links -> Seq(Byte)]
  <2>1. net \in [Links -> Seq(Byte)] /\ net[l] \in Seq(Byte)
    BY DEF StreamOK
  <2>2. PICK m \in Offered(l) : \E payload \in Payloads(m) :
          LET bytes == Serialize(NewPacket(m.kind, payload))
          IN  \/ net' = [net EXCEPT ![l] = @ \o bytes]
              \/ \E n \in Stubs \cap 1 .. Len(bytes) - 1 :
                   net' = [net EXCEPT ![l] = @ \o SubSeq(bytes, 1, n)]
    BY DEF SendPacket, SendPart
  <2>3. PICK payload \in Payloads(m) :
          LET bytes == Serialize(NewPacket(m.kind, payload))
          IN  \/ net' = [net EXCEPT ![l] = @ \o bytes]
              \/ \E n \in Stubs \cap 1 .. Len(bytes) - 1 :
                   net' = [net EXCEPT ![l] = @ \o SubSeq(bytes, 1, n)]
    BY <2>2
  <2> DEFINE bytes == Serialize(NewPacket(m.kind, payload))
             h == net[l]
  <2>4. bytes \in Seq(Byte) /\ h \in Seq(Byte)
    BY <2>1, SentIsBytes
  <2>5. \/ net' = [net EXCEPT ![l] = h \o bytes]
        \/ \E n \in Stubs \cap 1 .. Len(bytes) - 1 :
             net' = [net EXCEPT ![l] = h \o SubSeq(bytes, 1, n)]
    BY <2>3
  <2> HIDE DEF bytes, h
  <2>6. CASE net' = [net EXCEPT ![l] = h \o bytes]
    <3>1. h \o bytes \in Seq(Byte)
      BY <2>4, Joined
    <3> QED
      BY <2>1, <2>6, <3>1
  <2>7. ASSUME NEW n \in 1 .. Len(bytes) - 1,
               net' = [net EXCEPT ![l] = h \o SubSeq(bytes, 1, n)]
        PROVE  net' \in [Links -> Seq(Byte)]
    <3>1. Len(bytes) \in Nat /\ n \in Nat /\ n <= Len(bytes)
      BY <2>4, LenProperties
    <3>3. SubSeq(bytes, 1, n) \in Seq(Byte)
      BY <2>4, <3>1, FrontIsBytes
    <3>4. h \o SubSeq(bytes, 1, n) \in Seq(Byte)
      BY <2>4, <3>3, Joined
    <3> QED
      BY <2>1, <2>7, <3>4
  <2> QED
    BY <2>5, <2>6, <2>7
<1> QED
  BY <1>1, <1>2 DEF StreamOK

(* Consumers take packets away and move between their places.              *)
LEMMA ConsumersKeepTypes ==
  ASSUME StreamOK, Consume
  PROVE  StreamOK'
<1>1. /\ queue \in Seq(Queued) /\ <<>> \in Seq(Queued)
      /\ queue # <<>> => Tail(queue) \in Seq(Queued)
  BY EmptySeq, HeadTailProperties DEF StreamOK
<1>2. queue' \in Seq(Queued)
  BY <1>1 DEF Consume, ConsumerStep, Pop, Wake, Look, TryPop, WakeSpuriously, Clear, NotifyAll
<1>3. consumer' \in [Consumers -> Places]
  <2>1. consumer \in [Consumers -> Places]
    BY DEF StreamOK
  <2>2. \A k \in Consumers : Look(k) => consumer' \in [Consumers -> Places]
    BY <2>1 DEF Look, Places
  <2> QED
    BY <2>1, <2>2 DEF Consume, ConsumerStep, Pop, Wake, TryPop, WakeSpuriously, Clear,
                      NotifyAll, Places
<1> QED
  BY <1>2, <1>3 DEF StreamOK, Consume, streamVars, senderVars

(* Types hold at the start and whatever happens.                           *)
LEMMA TypesAreKept ==
  /\ Init => StreamOK
  /\ StreamOK /\ [Next]_vars => StreamOK'
<1>1. Init => StreamOK
  <2>1. <<>> \in Seq(Byte) /\ <<>> \in Seq(Queued) /\ 0 \in 0..MaxSends
    BY EmptySeq, StreamAssumption
  <2> QED
    BY <2>1 DEF Init, QueueInit, StreamOK, Stations, Links, Places
<1>2. StreamOK /\ [Next]_vars => StreamOK'
  <2> SUFFICES ASSUME StreamOK, [Next]_vars PROVE StreamOK'
    OBVIOUS
  <2>1. CASE UNCHANGED vars
    BY <2>1 DEF vars, StreamOK, senderVars, queueVars
  <2>2. CASE Next
    BY <2>2, SendKeepsTypes, HandlerKeepsTypes, ClientKeepsTypes, ConsumersKeepTypes DEF Next
  <2> QED
    BY <2>1, <2>2
<1> QED
  BY <1>1, <1>2

(* server.cpp:235: whatever bytes arrive, what is kept is bytes, the       *)
(* threads are at their places, and the queue holds packets with a type.   *)
THEOREM StreamType == Spec => []StreamTypeOK
<1>1. StreamOK => StreamTypeOK
  <2> SUFFICES ASSUME StreamOK PROVE StreamTypeOK
    OBVIOUS
  <2>1. \A i \in DOMAIN queue : queue[i] \in Queued
    <3>1. DOMAIN queue = 1..Len(queue) /\ queue \in Seq(Queued)
      BY LenProperties DEF StreamOK
    <3> QED
      BY <3>1, ElementOfSeq
  <2>2. \A i \in DOMAIN queue : queue[i].type # 0 /\ queue[i].data \in Seq(Byte)
    BY <2>1 DEF Queued, Packets
  <2>3. \A l \in Links : at[l] \in Stations(l) /\ torn[l] \in BOOLEAN
                         /\ net[l] \in Seq(Byte) /\ buffer[l] \in Seq(Byte)
    BY DEF StreamOK
  <2>4. /\ \A l \in Uplinks : at[l] \in {"recv", "parse", "call"}
        /\ \A l \in Downlinks : at[l] \in {"look", "recv"}
    BY <2>3, StreamAssumption DEF Stations, Links
  <2> QED
    BY <2>2, <2>3, <2>4 DEF StreamTypeOK, StreamOK
<1> QED
  BY <1>1, TypesAreKept, PTL DEF Spec

----------------------------------------------------------------------------
(* The channel.                                                            *)

(* A message more, and its packet behind the others.                       *)
LEMMA SendKeepsOrder ==
  ASSUME NEW l \in Links, NEW s \in Seq(Sendable(l)), NEW k \in Nat,
         NEW bytes, InOrder(s, k, {<<>>}, bytes),
         NEW m \in Sendable(l), NEW packet \in PacketsOf(m),
         NEW next, Parts(next, bytes, Serialize(packet))
  PROVE  InOrder(Append(s, m), k, {<<>>}, next)
<1> DEFINE t == Append(s, m)
           more == Serialize(packet)
<1>1. /\ Len(s) \in Nat /\ Len(t) = Len(s) + 1 /\ t[Len(s) + 1] = m
      /\ \A j \in 1..Len(s) : t[j] = s[j]
  BY AppendProperties, LenProperties
<1>2. more \in Seq(Byte) /\ <<>> \in Seq(Byte)
  BY MessagesAreUnderstood, PacketsAreBytes, EmptySeq
<1>3. k <= Len(s) /\ ~(k > Len(t)) /\ k <= Len(t)
  <2>1. <<0>> \in Seq(Byte) /\ <<0>> # <<>>
    BY DEF Byte
  <2>2. ~(k > Len(s))
    BY <2>1 DEF InOrder
  <2> QED
    BY <1>1, <2>2
<1>4. PICK rests \in [0..Len(s) -> Seq(Byte)] :
        rests[k] = bytes /\ Follow(s, k, {<<>>}, rests)
  BY <1>3 DEF InOrder
<1> DEFINE after == Extended(s, rests, more)
           then  == [j \in 0..Len(t) |-> IF j = Len(t) THEN <<>> ELSE after[j]]
<1>5. /\ after \in [0..Len(s) -> Seq(Byte)] /\ after[Len(s)] = more
      /\ \A j \in k .. Len(s) - 1 :
           \E p \in PacketsOf(s[j + 1]) : Parts(after[j], Serialize(p), after[j + 1])
  <2>1. \A x \in Sendable(l) : \A p \in PacketsOf(x) : Fit(p)
    BY MessagesAreUnderstood
  <2>2. {<<>>} \in Ends /\ after = Extended(s, rests, more)
    BY DEF Ends
  <2> DEFINE M == Sendable(l)
             ends == {<<>>}
  <2>3. /\ s \in Seq(M) /\ k \in Nat /\ ends \in Ends /\ rests \in [0..Len(s) -> Seq(Byte)]
        /\ Follow(s, k, ends, rests) /\ more \in Seq(Byte)
        /\ \A x \in M : \A p \in PacketsOf(x) : Fit(p)
    BY <1>2, <1>4, <2>1, <2>2
  <2> HIDE DEF after, more, M, ends
  <2>4. /\ after \in [0..Len(s) -> Seq(Byte)]
        /\ \A j \in k .. Len(s) - 1 :
             \E p \in PacketsOf(s[j + 1]) : Parts(after[j], Serialize(p), after[j + 1])
    BY ONLY <2>2, <2>3, MoreFollows
  <2>5. after[Len(s)] = more
    <3>1. rests[Len(s)] = <<>> /\ Len(s) \in 0..Len(s)
      BY <1>1, <1>4 DEF Follow
    <3>2. <<>> \o more = more
      BY <1>2, ConcatEmptySeq
    <3> QED
      BY <3>1, <3>2 DEF after, Extended
  <2> QED
    BY <2>4, <2>5
<1>6. after[k] = next
  <2>1. k \in 0..Len(s)
    BY <1>1, <1>3
  <2> QED
    BY <1>4, <2>1 DEF Parts, Extended
<1> HIDE DEF t, more, after
<1>7. then \in [0..Len(t) -> Seq(Byte)] /\ then[Len(t)] = <<>> /\ then[k] = next
  <2>1. \A j \in 0..Len(t) : j # Len(t) => j \in 0..Len(s)
    BY <1>1
  <2>2. k \in 0..Len(t) /\ k # Len(t) /\ Len(t) \in 0..Len(t)
    BY <1>1, <1>3
  <2> QED
    BY <1>2, <1>5, <1>6, <2>1, <2>2
<1>8. ASSUME NEW j \in k .. Len(t) - 1
      PROVE  \E p \in PacketsOf(t[j + 1]) : Parts(then[j], Serialize(p), then[j + 1])
  <2>1. j \in 0..Len(t) /\ j + 1 \in 0..Len(t) /\ j # Len(t)
    BY <1>1
  <2>2. CASE j = Len(s)
    <3>1. then[j] = more /\ then[j + 1] = <<>> /\ t[j + 1] = m
      BY <1>1, <1>5, <2>1, <2>2
    <3>2. more = more \o <<>>
      BY <1>2, ConcatEmptySeq
    <3> QED
      BY <3>1, <3>2 DEF Parts, more
  <2>3. CASE j # Len(s)
    <3>1. j \in k .. Len(s) - 1 /\ j + 1 # Len(t) /\ j + 1 \in 1..Len(s)
      BY <1>1, <2>3
    <3>2. then[j] = after[j] /\ then[j + 1] = after[j + 1] /\ t[j + 1] = s[j + 1]
      BY <1>1, <2>1, <3>1
    <3> HIDE DEF then
    <3> QED
      BY <1>5, <3>1, <3>2
  <2> QED
    BY <2>2, <2>3
<1> HIDE DEF then
<1>9. Follow(t, k, {<<>>}, then)
  BY <1>7, <1>8 DEF Follow
<1>10. InOrder(t, k, {<<>>}, next)
  BY <1>3, <1>7, <1>9 DEF InOrder
<1> QED
  BY <1>10 DEF t

(* Bytes more, once a packet has been cut short.                           *)
LEMMA MoreKeepsOrder ==
  ASSUME NEW l \in Links, NEW s \in Seq(Sendable(l)), NEW k \in Nat, NEW ends \in Ends,
         NEW bytes, InOrder(s, k, ends, bytes),
         NEW more \in Seq(Byte), NEW next, Parts(next, bytes, more)
  PROVE  InOrder(s, k, Seq(Byte), next)
<1>1. Len(s) \in Nat
  BY LenProperties
<1>2. CASE k <= Len(s)
  <2>1. PICK rests \in [0..Len(s) -> Seq(Byte)] :
          rests[k] = bytes /\ Follow(s, k, ends, rests)
    BY <1>2 DEF InOrder
  <2> DEFINE after == Extended(s, rests, more)
  <2>2. /\ after \in [0..Len(s) -> Seq(Byte)]
        /\ \A j \in k .. Len(s) - 1 :
             \E p \in PacketsOf(s[j + 1]) : Parts(after[j], Serialize(p), after[j + 1])
    <3>1. \A x \in Sendable(l) : \A p \in PacketsOf(x) : Fit(p)
      BY MessagesAreUnderstood
    <3>2. after = Extended(s, rests, more)
      OBVIOUS
    <3> DEFINE M == Sendable(l)
    <3>3. /\ s \in Seq(M) /\ k \in Nat /\ ends \in Ends /\ rests \in [0..Len(s) -> Seq(Byte)]
          /\ Follow(s, k, ends, rests) /\ more \in Seq(Byte)
          /\ \A x \in M : \A p \in PacketsOf(x) : Fit(p)
      BY <2>1, <3>1
    <3> HIDE DEF after, M
    <3> QED
      BY ONLY <3>2, <3>3, MoreFollows
  <2>3. after[k] = next
    <3>1. k \in 0..Len(s)
      BY <1>1, <1>2
    <3> QED
      BY <2>1, <3>1 DEF Parts, Extended
  <2> HIDE DEF after
  <2>4. Len(s) \in 0..Len(s) /\ ~(k > Len(s))
    BY <1>1, <1>2
  <2>5. Follow(s, k, Seq(Byte), after)
    BY <2>2, <2>4 DEF Follow
  <2> QED
    BY <2>2, <2>3, <2>4, <2>5 DEF InOrder
<1>3. CASE ~(k <= Len(s))
  BY <1>3 DEF InOrder
<1> QED
  BY <1>2, <1>3

(* What may follow the last packet sent on a connection.                   *)
EndOf(l) == IF torn[l] THEN Seq(Byte) ELSE {<<>>}

(* What is in the buffer of a receiver and on its way to it.               *)
Pending(l) == buffer[l] \o net[l]

(* The messages that may be sent have been, and what has been sent and not *)
(* been handled is pending, in order.                                      *)
ChannelOK ==
  /\ sent = [l \in Links |-> sent[l]] /\ handled = [l \in Links |-> handled[l]]
  /\ \A l \in Links : /\ sent[l] \in Seq(Sendable(l)) /\ IsSequence(handled[l])
                      /\ InOrder(sent[l], Len(handled[l]), EndOf(l), Pending(l))

(* Nothing has happened on the other connections.                          *)
LEMMA OneLinkChanges ==
  ASSUME StreamOK, ChannelOK, NEW l \in Links,
         NEW s, s \in Seq(Sendable(l)), sent' = [sent EXCEPT ![l] = s],
         NEW h, IsSequence(h), handled' = [handled EXCEPT ![l] = h],
         NEW b, buffer' = [buffer EXCEPT ![l] = b],
         NEW n, net' = [net EXCEPT ![l] = n],
         \A x \in Links : x # l => torn'[x] = torn[x],
         InOrder(s, Len(h), EndOf(l)', b \o n)
  PROVE  ChannelOK'
<1>1. /\ sent' = [x \in Links |-> sent'[x]] /\ handled' = [x \in Links |-> handled'[x]]
      /\ sent'[l] = s /\ handled'[l] = h /\ buffer'[l] = b /\ net'[l] = n
      /\ \A x \in Links : x # l => /\ sent'[x] = sent[x] /\ handled'[x] = handled[x]
                                   /\ buffer'[x] = buffer[x] /\ net'[x] = net[x]
  BY DEF ChannelOK, StreamOK
<1>2. \A x \in Links : x # l => EndOf(x)' = EndOf(x) /\ Pending(x)' = Pending(x)
  BY <1>1 DEF EndOf, Pending
<1>3. Pending(l)' = b \o n
  BY <1>1 DEF Pending
<1>4. ASSUME NEW x \in Links
      PROVE  /\ sent'[x] \in Seq(Sendable(x)) /\ IsSequence(handled'[x])
             /\ InOrder(sent'[x], Len(handled'[x]), EndOf(x)', Pending(x)')
  <2>1. CASE x = l
    BY <1>1, <1>3, <2>1
  <2>2. CASE x # l
    BY <1>1, <1>2, <2>2 DEF ChannelOK
  <2> QED
    BY <2>1, <2>2
<1> QED
  BY <1>1, <1>4 DEF ChannelOK

(* What is appended is behind all there was.                               *)
LEMMA AppendGrows ==
  ASSUME NEW q, IsSequence(q), NEW e
  PROVE  Channel!Grows(q, Append(q, e)) /\ IsSequence(Append(q, e))
<1>1. PICK S : q \in Seq(S)
  BY DEF IsSequence
<1> DEFINE T == S \cup {e}
           r == Append(q, e)
<1>2. q \in Seq(T) /\ e \in T
  BY <1>1, SeqMonotonic
<1>3. /\ r \in Seq(T) /\ Len(r) = Len(q) + 1 /\ Len(q) \in Nat
      /\ \A i \in 1..Len(q) : r[i] = q[i]
  BY <1>2, AppendProperties, LenProperties
<1> HIDE DEF T, r
<1>4. \A i \in 1..Len(q) : r[i] \in T
  BY <1>2, <1>3, ElementOfSeq
<1>5. /\ SubSeq(r, 1, Len(q)) \in Seq(T)
      /\ Len(SubSeq(r, 1, Len(q))) = IF 1 <= Len(q) THEN Len(q) - 1 + 1 ELSE 0
      /\ \A i \in 1 .. Len(q) - 1 + 1 : SubSeq(r, 1, Len(q))[i] = r[1 + i - 1]
  BY <1>3, <1>4, SubSeqProperties
<1>6. SubSeq(r, 1, Len(q)) = q
  <2> DEFINE u == SubSeq(r, 1, Len(q))
  <2>1. u \in Seq(T) /\ Len(u) = Len(q) /\ \A i \in 1..Len(u) : u[i] = q[i]
    BY <1>3, <1>5
  <2> HIDE DEF u
  <2>2. u = q
    BY <1>2, <2>1, SeqEqual
  <2> QED
    BY <2>2 DEF u
<1> QED
  BY <1>3, <1>6 DEF Channel!Grows, IsSequence, r

(* A link before a step.                                                   *)
LEMMA LinkBefore ==
  ASSUME StreamOK, ChannelOK, NEW l \in Links
  PROVE  /\ sent[l] \in Seq(Sendable(l)) /\ IsSequence(handled[l]) /\ Len(handled[l]) \in Nat
         /\ buffer[l] \in Seq(Byte) /\ net[l] \in Seq(Byte) /\ Pending(l) \in Seq(Byte)
         /\ EndOf(l) \in Ends /\ torn[l] \in BOOLEAN /\ (EndOf(l) = Seq(Byte) => torn[l])
         /\ Parts(Pending(l), buffer[l], net[l])
         /\ InOrder(sent[l], Len(handled[l]), EndOf(l), Pending(l))
         /\ sent = [sent EXCEPT ![l] = sent[l]] /\ handled = [handled EXCEPT ![l] = handled[l]]
         /\ buffer = [buffer EXCEPT ![l] = buffer[l]] /\ net = [net EXCEPT ![l] = net[l]]
<1>1. /\ sent[l] \in Seq(Sendable(l)) /\ IsSequence(handled[l])
      /\ buffer[l] \in Seq(Byte) /\ net[l] \in Seq(Byte) /\ torn[l] \in BOOLEAN
      /\ InOrder(sent[l], Len(handled[l]), EndOf(l), Pending(l))
  BY DEF StreamOK, ChannelOK
<1>2. /\ sent = [sent EXCEPT ![l] = sent[l]] /\ handled = [handled EXCEPT ![l] = handled[l]]
      /\ buffer = [buffer EXCEPT ![l] = buffer[l]] /\ net = [net EXCEPT ![l] = net[l]]
  BY DEF StreamOK, ChannelOK
<1>3. Len(handled[l]) \in Nat
  BY <1>1, Longer
<1>4. Pending(l) \in Seq(Byte) /\ Parts(Pending(l), buffer[l], net[l])
  BY <1>1, Joined DEF Pending, Parts
<1>5. EndOf(l) \in Ends /\ (EndOf(l) = Seq(Byte) => torn[l])
  <2>1. <<0>> \in Seq(Byte) /\ <<0>> # <<>>
    BY DEF Byte
  <2> QED
    BY <1>1, <2>1 DEF EndOf, Ends
<1> QED
  BY <1>1, <1>2, <1>3, <1>4, <1>5

(* The step is one of the channel, or nothing to it.                       *)
ChannelStep == Channel!Next \/ UNCHANGED Channel!vars

(* Bytes added behind those on their way are behind all that is pending.   *)
LEMMA AddedAtTheEnd ==
  ASSUME NEW b \in Seq(Byte), NEW n \in Seq(Byte), NEW more \in Seq(Byte)
  PROVE  Parts(b \o (n \o more), b \o n, more)
<1>1. b \in Seq(Byte) /\ n \in Seq(Byte) /\ more \in Seq(Byte)
  OBVIOUS
<1>2. Associate(b, n, more)
  BY ONLY <1>1, BytesAssociate
<1> QED
  BY ONLY <1>2 DEF Associate, Parts

(* sendPacket: a packet more to come.                                      *)
LEMMA SendKeepsChannel ==
  ASSUME StreamOK, ChannelOK, NEW l \in Links, SendPacket(l)
  PROVE  ChannelOK' /\ ChannelStep
<1>1. PICK m \in Offered(l) : \E payload \in Payloads(m) :
        /\ net' = [net EXCEPT ![l] = @ \o Serialize(NewPacket(m.kind, payload))]
        /\ sent' = IF torn[l] THEN sent ELSE [sent EXCEPT ![l] = Append(@, m)]
        /\ UNCHANGED <<torn, buffer, handled>>
  BY DEF SendPacket
<1>2. PICK payload \in Payloads(m) :
        /\ net' = [net EXCEPT ![l] = @ \o Serialize(NewPacket(m.kind, payload))]
        /\ sent' = IF torn[l] THEN sent ELSE [sent EXCEPT ![l] = Append(@, m)]
        /\ UNCHANGED <<torn, buffer, handled>>
  BY <1>1
<1> DEFINE packet == NewPacket(m.kind, payload)
           more   == Serialize(packet)
           b      == buffer[l]
           n      == net[l]
           s      == sent[l]
           h      == handled[l]
           next   == b \o (n \o more)
<1>3. /\ m \in Sendable(l) /\ packet \in PacketsOf(m) /\ more \in Seq(Byte)
  BY SentIsBytes
<1>4. /\ s \in Seq(Sendable(l)) /\ Len(h) \in Nat /\ IsSequence(h) /\ EndOf(l) \in Ends
      /\ b \in Seq(Byte) /\ n \in Seq(Byte) /\ InOrder(s, Len(h), EndOf(l), Pending(l))
  BY LinkBefore
<1>5. Parts(next, Pending(l), more)
  BY <1>3, <1>4, AddedAtTheEnd DEF Pending
<1>6. /\ net' = [net EXCEPT ![l] = n \o more] /\ buffer' = [buffer EXCEPT ![l] = b]
      /\ handled' = [handled EXCEPT ![l] = h] /\ UNCHANGED <<torn, handled>>
      /\ EndOf(l)' = EndOf(l)
  BY <1>2, LinkBefore DEF EndOf
<1>7. CASE torn[l]
  <2>1. UNCHANGED sent /\ sent' = [sent EXCEPT ![l] = s] /\ EndOf(l) = Seq(Byte)
    BY <1>2, <1>7, LinkBefore DEF EndOf
  <2> HIDE DEF packet, more, b, n, s, h, next
  <2>2. InOrder(s, Len(h), Seq(Byte), next)
    BY <1>3, <1>4, <1>5, MoreKeepsOrder
  <2>3. ChannelOK'
    <3> DEFINE later == n \o more
    <3>1. /\ StreamOK /\ ChannelOK /\ l \in Links
          /\ s \in Seq(Sendable(l)) /\ sent' = [sent EXCEPT ![l] = s]
          /\ IsSequence(h) /\ handled' = [handled EXCEPT ![l] = h]
          /\ buffer' = [buffer EXCEPT ![l] = b] /\ net' = [net EXCEPT ![l] = later]
          /\ \A x \in Links : x # l => torn'[x] = torn[x]
          /\ InOrder(s, Len(h), EndOf(l)', b \o later)
      BY <1>4, <1>6, <2>1, <2>2 DEF next
    <3> HIDE DEF later
    <3> QED
      BY ONLY <3>1, OneLinkChanges
  <2> QED
    BY <1>6, <2>1, <2>3 DEF ChannelStep, Channel!vars
<1>8. CASE ~torn[l]
  <2> DEFINE t == Append(s, m)
  <2>1. sent' = [sent EXCEPT ![l] = t] /\ EndOf(l) = {<<>>} /\ sent'[l] = t
    BY <1>2, <1>8 DEF EndOf, ChannelOK
  <2>2. t \in Seq(Sendable(l)) /\ IsSequence(s)
    BY <1>3, <1>4, AppendProperties DEF IsSequence
  <2> HIDE DEF packet, more, b, n, h, next
  <2>3. InOrder(t, Len(h), {<<>>}, next)
    <3>1. InOrder(s, Len(h), {<<>>}, Pending(l))
      BY <1>4, <2>1
    <3> HIDE DEF s
    <3> QED
      BY <1>3, <1>4, <1>5, <3>1, SendKeepsOrder DEF more
  <2>4. Channel!Grows(s, t)
    BY <2>2, AppendGrows
  <2>5. Channel!Send(l)
    BY <1>6, <1>8, <2>1, <2>4 DEF Channel!Send
  <2> HIDE DEF s, t
  <2>6. ChannelOK'
    <3> DEFINE later == n \o more
    <3>1. /\ StreamOK /\ ChannelOK /\ l \in Links
          /\ t \in Seq(Sendable(l)) /\ sent' = [sent EXCEPT ![l] = t]
          /\ IsSequence(h) /\ handled' = [handled EXCEPT ![l] = h]
          /\ buffer' = [buffer EXCEPT ![l] = b] /\ net' = [net EXCEPT ![l] = later]
          /\ \A x \in Links : x # l => torn'[x] = torn[x]
          /\ InOrder(t, Len(h), EndOf(l)', b \o later)
      BY <1>4, <1>6, <2>1, <2>2, <2>3 DEF next
    <3> HIDE DEF later
    <3> QED
      BY ONLY <3>1, OneLinkChanges
  <2> QED
    BY <2>5, <2>6 DEF ChannelStep, Channel!Next
<1> QED
  BY <1>7, <1>8

(* A packet cut short: what follows may be anything.                       *)
LEMMA PartKeepsChannel ==
  ASSUME StreamOK, ChannelOK, NEW l \in Links, SendPart(l)
  PROVE  ChannelOK' /\ ChannelStep
<1>1. PICK m \in Offered(l) : \E payload \in Payloads(m) :
        LET bytes == Serialize(NewPacket(m.kind, payload))
        IN  /\ ~torn[l] /\ torn' = [torn EXCEPT ![l] = TRUE]
            /\ \E k \in Stubs \cap 1 .. Len(bytes) - 1 :
                 net' = [net EXCEPT ![l] = @ \o SubSeq(bytes, 1, k)]
            /\ UNCHANGED <<sent, buffer, handled>>
  BY DEF SendPart
<1>2. PICK payload \in Payloads(m) :
        LET bytes == Serialize(NewPacket(m.kind, payload))
        IN  /\ ~torn[l] /\ torn' = [torn EXCEPT ![l] = TRUE]
            /\ \E k \in Stubs \cap 1 .. Len(bytes) - 1 :
                 net' = [net EXCEPT ![l] = @ \o SubSeq(bytes, 1, k)]
            /\ UNCHANGED <<sent, buffer, handled>>
  BY <1>1
<1> DEFINE bytes == Serialize(NewPacket(m.kind, payload))
           b == buffer[l]
           n == net[l]
           s == sent[l]
           h == handled[l]
<1>3. PICK k \in 1 .. Len(bytes) - 1 : net' = [net EXCEPT ![l] = n \o SubSeq(bytes, 1, k)]
  BY <1>2
<1> DEFINE more == SubSeq(bytes, 1, k)
           next == b \o (n \o more)
<1>4. more \in Seq(Byte)
  <2>1. bytes \in Seq(Byte)
    BY SentIsBytes
  <2> HIDE DEF bytes
  <2>2. Len(bytes) \in Nat /\ k \in Nat /\ k <= Len(bytes)
    BY <2>1, LenProperties
  <2> QED
    BY <2>1, <2>2, FrontIsBytes
<1>5. /\ s \in Seq(Sendable(l)) /\ Len(h) \in Nat /\ IsSequence(h) /\ EndOf(l) \in Ends
      /\ b \in Seq(Byte) /\ n \in Seq(Byte) /\ InOrder(s, Len(h), EndOf(l), Pending(l))
  BY LinkBefore
<1>6. /\ net' = [net EXCEPT ![l] = n \o more] /\ buffer' = [buffer EXCEPT ![l] = b]
      /\ handled' = [handled EXCEPT ![l] = h] /\ sent' = [sent EXCEPT ![l] = s]
      /\ UNCHANGED <<sent, handled>> /\ ~torn[l] /\ torn' = [torn EXCEPT ![l] = TRUE]
  BY <1>2, <1>3, LinkBefore
<1>7. torn'[l] /\ \A x \in Links : x # l => torn'[x] = torn[x]
  BY <1>6 DEF StreamOK
<1>8. EndOf(l)' = Seq(Byte)
  BY <1>7 DEF EndOf
<1> HIDE DEF bytes, more
<1>9. Parts(next, Pending(l), more)
  BY <1>4, <1>5, AddedAtTheEnd DEF Pending
<1> HIDE DEF b, n, s, h, next
<1>10. InOrder(s, Len(h), Seq(Byte), next)
  BY <1>4, <1>5, <1>9, MoreKeepsOrder
<1>11. ChannelOK'
  <2> DEFINE later == n \o more
  <2>1. /\ StreamOK /\ ChannelOK /\ l \in Links
        /\ s \in Seq(Sendable(l)) /\ sent' = [sent EXCEPT ![l] = s]
        /\ IsSequence(h) /\ handled' = [handled EXCEPT ![l] = h]
        /\ buffer' = [buffer EXCEPT ![l] = b] /\ net' = [net EXCEPT ![l] = later]
        /\ \A x \in Links : x # l => torn'[x] = torn[x]
        /\ InOrder(s, Len(h), EndOf(l)', b \o later)
    BY <1>5, <1>6, <1>7, <1>8, <1>10 DEF next
  <2> HIDE DEF later
  <2> QED
    BY ONLY <2>1, OneLinkChanges
<1>12. Channel!Tear(l)
  BY <1>6 DEF Channel!Tear
<1> QED
  BY <1>11, <1>12 DEF ChannelStep, Channel!Next

(* recv(): what is pending has moved.                                      *)
LEMMA RecvKeepsChannel ==
  ASSUME StreamOK, ChannelOK, NEW l \in Links, Recv(l), UNCHANGED <<senderVars, handled>>
  PROVE  ChannelOK' /\ ChannelStep
<1>1. /\ l \in Links /\ buffer \in [Links -> Seq(Byte)] /\ net \in [Links -> Seq(Byte)] /\ Recv(l)
  BY DEF StreamOK
<1>2. PICK b, n \in Seq(Byte) :
        /\ buffer' = [buffer EXCEPT ![l] = b]
        /\ net' = [net EXCEPT ![l] = n]
        /\ b \o n = buffer[l] \o net[l]
  BY ONLY <1>1, RecvMovesBytes
<1>3. UNCHANGED <<sent, torn, handled>>
  BY DEF senderVars
<1> DEFINE s == sent[l]
           h == handled[l]
<1>4. b \o n = Pending(l)
  BY <1>2 DEF Pending
<1>5. /\ StreamOK /\ ChannelOK /\ l \in Links
      /\ s \in Seq(Sendable(l)) /\ sent' = [sent EXCEPT ![l] = s]
      /\ IsSequence(h) /\ handled' = [handled EXCEPT ![l] = h]
      /\ buffer' = [buffer EXCEPT ![l] = b] /\ net' = [net EXCEPT ![l] = n]
      /\ \A x \in Links : x # l => torn'[x] = torn[x]
      /\ EndOf(l)' = EndOf(l) /\ InOrder(s, Len(h), EndOf(l), Pending(l))
  BY <1>2, <1>3, LinkBefore DEF EndOf
<1> HIDE DEF s, h
<1>6. InOrder(s, Len(h), EndOf(l)', b \o n)
  BY ONLY <1>4, <1>5
<1>7. ChannelOK'
  BY ONLY <1>5, <1>6, OneLinkChanges
<1> QED
  BY <1>3, <1>7 DEF ChannelStep, Channel!vars

(* The packet at the head of the buffer is taken from it, and handled or   *)
(* not.                                                                    *)
LEMMA TakingKeepsChannel ==
  ASSUME StreamOK, ChannelOK, NEW l \in Links, NEW packet \in Complete(l),
         Erase(l, packet), UNCHANGED <<senderVars, net>>,
         \/ handled' = [handled EXCEPT ![l] = Append(@, Meaning(l, packet))]
         \/ packet.type = 0 /\ UNCHANGED handled
  PROVE  ChannelOK' /\ ChannelStep
<1> DEFINE s    == sent[l]
           h    == handled[l]
           k    == Len(h)
           n    == net[l]
           b    == From(buffer[l], TotalSize(packet))
           rest == b \o n
           ends == EndOf(l)
           m    == Meaning(l, packet)
<1>1. /\ s \in Seq(Sendable(l)) /\ k \in Nat /\ ends \in Ends /\ IsSequence(h)
      /\ buffer[l] \in Seq(Byte) /\ n \in Seq(Byte) /\ Parts(Pending(l), buffer[l], n)
      /\ InOrder(s, k, ends, Pending(l)) /\ (ends = Seq(Byte) => torn[l])
      /\ sent = [sent EXCEPT ![l] = s] /\ handled = [handled EXCEPT ![l] = h]
      /\ net = [net EXCEPT ![l] = n]
  BY LinkBefore
<1>2. packet = Deserialize(buffer[l]) /\ IsCompletePacket(buffer[l])
  BY <1>1, CompleteIsRead
<1>3. /\ UNCHANGED <<sent, torn, net>> /\ sent' = [sent EXCEPT ![l] = s]
      /\ net' = [net EXCEPT ![l] = n] /\ buffer' = [buffer EXCEPT ![l] = b]
      /\ EndOf(l)' = ends
  BY <1>1 DEF senderVars, Erase, EndOf
<1>4. \/ /\ k < Len(s) /\ packet.type # 0 /\ m = s[k + 1]
         /\ InOrder(s, k + 1, ends, rest)
      \/ /\ k >= Len(s) /\ ends = Seq(Byte)
         /\ InOrder(s, k, ends, rest) /\ InOrder(s, k + 1, ends, rest)
  <2> DEFINE whole == buffer[l]
             bytes == Pending(l)
  <2>1. /\ l \in Links /\ s \in Seq(Sendable(l)) /\ k \in Nat /\ ends \in Ends
        /\ whole \in Seq(Byte) /\ n \in Seq(Byte) /\ Parts(bytes, whole, n)
        /\ InOrder(s, k, ends, bytes) /\ IsCompletePacket(whole)
        /\ packet = Deserialize(whole) /\ Parts(rest, From(whole, TotalSize(packet)), n)
    BY <1>1, <1>2 DEF Parts
  <2> HIDE DEF s, k, n, b, rest, ends, whole, bytes
  <2> QED
    BY ONLY <2>1, NextIsFirst DEF m
<1>5. CASE handled' = [handled EXCEPT ![l] = Append(@, Meaning(l, packet))]
  <2> DEFINE g == Append(h, m)
  <2>1. /\ Channel!Grows(h, g) /\ IsSequence(g) /\ Len(g) = k + 1
    BY <1>1, AppendGrows, Longer
  <2>2. handled' = [handled EXCEPT ![l] = g] /\ handled'[l] = g
    BY <1>5 DEF ChannelOK
  <2>3. InOrder(s, Len(g), EndOf(l)', rest)
    BY <1>3, <1>4, <2>1
  <2>4. ChannelOK'
    <3>1. /\ StreamOK /\ ChannelOK /\ l \in Links
          /\ s \in Seq(Sendable(l)) /\ sent' = [sent EXCEPT ![l] = s]
          /\ IsSequence(g) /\ handled' = [handled EXCEPT ![l] = g]
          /\ buffer' = [buffer EXCEPT ![l] = b] /\ net' = [net EXCEPT ![l] = n]
          /\ \A x \in Links : x # l => torn'[x] = torn[x]
          /\ InOrder(s, Len(g), EndOf(l)', b \o n)
      BY <1>1, <1>3, <2>1, <2>2, <2>3
    <3> HIDE DEF s, g, b, n
    <3> QED
      BY ONLY <3>1, OneLinkChanges
  <2>5. CASE k < Len(s)
    <3>1. Len(s) \in Nat
      BY <1>1, LenProperties
    <3>2. m = s[k + 1]
      BY <1>1, <1>4, <2>5, <3>1
    <3>3. handled' = [handled EXCEPT ![l] = Append(handled[l], sent[l][Len(handled[l]) + 1])]
      BY <2>2, <3>2
    <3>4. Channel!Deliver(l)
      BY <1>3, <2>5, <3>3 DEF Channel!Deliver, Channel!Owed
    <3> QED
      BY <2>4, <3>4 DEF ChannelStep, Channel!Next
  <2>6. CASE ~(k < Len(s))
    <3>1. torn[l]
      BY <1>1, <1>4, <2>6
    <3>2. Channel!Garble(l)
      BY <1>3, <2>1, <2>2, <2>6, <3>1 DEF Channel!Garble, Channel!Owed
    <3> QED
      BY <2>4, <3>2 DEF ChannelStep, Channel!Next
  <2> QED
    BY <2>5, <2>6
<1>6. CASE packet.type = 0 /\ UNCHANGED handled
  <2>1. InOrder(s, k, ends, rest)
    BY <1>4, <1>6
  <2>2. ChannelOK'
    <3>1. /\ StreamOK /\ ChannelOK /\ l \in Links
          /\ s \in Seq(Sendable(l)) /\ sent' = [sent EXCEPT ![l] = s]
          /\ IsSequence(h) /\ handled' = [handled EXCEPT ![l] = h]
          /\ buffer' = [buffer EXCEPT ![l] = b] /\ net' = [net EXCEPT ![l] = n]
          /\ \A x \in Links : x # l => torn'[x] = torn[x]
          /\ InOrder(s, Len(h), EndOf(l)', b \o n)
      BY <1>1, <1>3, <1>6, <2>1
    <3> HIDE DEF s, h, b, n
    <3> QED
      BY ONLY <3>1, OneLinkChanges
  <2> QED
    BY <1>3, <1>6, <2>2 DEF ChannelStep, Channel!vars
<1> QED
  BY <1>5, <1>6

(* Nothing happens to what is sent, pending or handled.                    *)
LEMMA ChannelStutter ==
  ASSUME ChannelOK, UNCHANGED <<sent, torn, net, buffer, handled>>
  PROVE  ChannelOK' /\ ChannelStep
<1>1. \A l \in Links : EndOf(l)' = EndOf(l) /\ Pending(l)' = Pending(l)
  BY DEF EndOf, Pending
<1>2. ChannelOK'
  BY <1>1 DEF ChannelOK
<1> QED
  BY <1>2 DEF ChannelStep, Channel!vars

(* Every step of the thread that serves a client.                          *)
LEMMA HandlerKeepsChannel ==
  ASSUME StreamOK, ChannelOK, NEW l \in Uplinks, HandleClient(l)
  PROVE  ChannelOK' /\ ChannelStep
<1>1. l \in Links /\ l \notin Downlinks
  BY StreamAssumption DEF Links
<1>2. CASE ServerReceives(l)
  BY <1>1, <1>2, RecvKeepsChannel DEF ServerReceives
<1>3. CASE PushPacket(l) \/ ServerWantsMore(l)
  <2>1. UNCHANGED <<sent, torn, net, buffer, handled>>
    BY <1>3 DEF PushPacket, ServerWantsMore, senderVars
  <2> QED
    BY <2>1, ChannelStutter
<1>4. CASE SkipPacket(l)
  <2>1. PICK packet \in Complete(l) :
          packet.type = 0 /\ Erase(l, packet) /\ UNCHANGED <<senderVars, net, handled>>
    BY <1>4 DEF SkipPacket
  <2> QED
    BY <1>1, <2>1, TakingKeepsChannel
<1>5. CASE Call(l)
  <2>1. PICK packet \in Complete(l) :
          /\ handled' = [handled EXCEPT ![l] =
                           Append(@, [kind |-> packet.type, text |-> packet.data])]
          /\ Erase(l, packet) /\ UNCHANGED <<senderVars, net>>
    BY <1>5 DEF Call, CallTo
  <2>2. Meaning(l, packet) = [kind |-> packet.type, text |-> packet.data]
    BY <1>1 DEF Meaning
  <2>3. handled' = [handled EXCEPT ![l] = Append(@, Meaning(l, packet))]
    BY <2>1, <2>2
  <2> QED
    BY <1>1, <2>1, <2>3, TakingKeepsChannel
<1> QED
  BY <1>2, <1>3, <1>4, <1>5 DEF HandleClient

(* Every step of a client's receiving thread.                              *)
LEMMA ClientKeepsChannel ==
  ASSUME StreamOK, ChannelOK, NEW l \in Downlinks, ReceivePacket(l)
  PROVE  ChannelOK' /\ ChannelStep
<1>1. l \in Links
  BY DEF Links
<1>2. CASE ClientReceives(l)
  BY <1>1, <1>2, RecvKeepsChannel DEF ClientReceives
<1>3. CASE ClientWantsMore(l)
  <2>1. UNCHANGED <<sent, torn, net, buffer, handled>>
    BY <1>3 DEF ClientWantsMore, senderVars
  <2> QED
    BY <2>1, ChannelStutter
<1>4. CASE TakePacket(l)
  <2>1. PICK packet \in Complete(l) :
          /\ handled' = IF packet.type = 0 THEN handled
                        ELSE [handled EXCEPT ![l] =
                                Append(@, Understood(packet.type, packet.data))]
          /\ Erase(l, packet) /\ UNCHANGED <<senderVars, net>>
    BY <1>4 DEF TakePacket
  <2>2. Meaning(l, packet) = Understood(packet.type, packet.data)
    BY DEF Meaning
  <2>3. \/ handled' = [handled EXCEPT ![l] = Append(@, Meaning(l, packet))]
        \/ packet.type = 0 /\ UNCHANGED handled
    BY <2>1, <2>2
  <2> QED
    BY <1>1, <2>1, <2>3, TakingKeepsChannel
<1> QED
  BY <1>2, <1>3, <1>4 DEF ReceivePacket

(* At the start nothing has been sent, and nothing is pending.             *)
LEMMA ChannelStarts == Init => ChannelOK /\ Channel!Init
<1> SUFFICES ASSUME Init PROVE ChannelOK /\ Channel!Init
  OBVIOUS
<1>1. Channel!Init
  BY DEF Init, Channel!Init
<1>2. ASSUME NEW l \in Links
      PROVE  /\ sent[l] \in Seq(Sendable(l)) /\ IsSequence(handled[l])
             /\ InOrder(sent[l], Len(handled[l]), EndOf(l), Pending(l))
  <2>1. /\ sent[l] = <<>> /\ handled[l] = <<>> /\ buffer[l] = <<>> /\ net[l] = <<>>
        /\ ~torn[l]
    BY DEF Init
  <2>2. /\ \A S : <<>> \in Seq(S)
        /\ Len(<<>>) = 0 /\ <<>> \o <<>> = <<>>
    <3>1. <<>> \in Seq(Byte)
      BY EmptySeq
    <3>2. <<>> \o <<>> = <<>>
      BY <3>1, ConcatEmptySeq
    <3> QED
      BY <3>2, EmptySeq
  <2>3. Pending(l) = <<>> /\ EndOf(l) = {<<>>}
    BY <2>1, <2>2 DEF Pending, EndOf
  <2> DEFINE rests == [j \in 0 .. 0 |-> <<>>]
  <2>4. rests \in [0 .. 0 -> Seq(Byte)] /\ rests[0] = <<>>
    BY <2>2
  <2>5. \A j \in 0 .. 0 - 1 : FALSE
    OBVIOUS
  <2>6. Follow(<<>>, 0, {<<>>}, rests)
    <3> HIDE DEF rests
    <3> QED
      BY <2>2, <2>4, <2>5 DEF Follow
  <2>7. InOrder(<<>>, 0, {<<>>}, <<>>)
    <3> HIDE DEF rests
    <3> QED
      BY <2>2, <2>4, <2>6 DEF InOrder
  <2> QED
    BY <2>1, <2>2, <2>3, <2>7 DEF IsSequence
<1> QED
  BY <1>1, <1>2 DEF ChannelOK, Init

(* Order is kept whatever happens, and every step is one of the channel.   *)
LEMMA OrderIsKept ==
  ASSUME StreamOK, ChannelOK, [Next]_vars
  PROVE  ChannelOK' /\ ChannelStep
<1>1. CASE UNCHANGED vars
  <2>1. UNCHANGED <<sent, torn, net, buffer, handled>>
    BY <1>1 DEF vars, senderVars
  <2> QED
    BY <2>1, ChannelStutter
<1>2. CASE Consume
  <2>1. UNCHANGED <<sent, torn, net, buffer, handled>>
    BY <1>2 DEF Consume, streamVars, senderVars
  <2> QED
    BY <2>1, ChannelStutter
<1>3. CASE \E l \in Links : SendPacket(l) \/ SendPart(l)
  BY <1>3, SendKeepsChannel, PartKeepsChannel
<1>4. CASE \E l \in Uplinks : HandleClient(l)
  BY <1>4, HandlerKeepsChannel
<1>5. CASE \E l \in Downlinks : ReceivePacket(l)
  BY <1>5, ClientKeepsChannel
<1> QED
  BY <1>1, <1>2, <1>3, <1>4, <1>5 DEF Next

(* server.cpp:226, client.cpp:117: however recv() cuts it up, messages     *)
(* are handled once each, in order and as they were meant, and one cut     *)
(* short (server.cpp:150, client.cpp:100) damages nothing sent before it.  *)
(* That what was sent is handled in the end is not part of this.           *)
THEOREM StreamIsAChannel == Spec => Channel!Init /\ [][Channel!Next]_(Channel!vars)
<1>1. Init => StreamOK /\ ChannelOK /\ Channel!Init
  BY TypesAreKept, ChannelStarts
<1>2. StreamOK /\ ChannelOK /\ [Next]_vars => StreamOK' /\ ChannelOK'
  BY TypesAreKept, OrderIsKept
<1>3. StreamOK /\ ChannelOK /\ [Next]_vars => [Channel!Next]_(Channel!vars)
  BY OrderIsKept DEF ChannelStep
<1> QED
  BY <1>1, <1>2, <1>3, PTL DEF Spec
=============================================================================
