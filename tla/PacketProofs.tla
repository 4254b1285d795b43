---------------------------- MODULE PacketProofs ----------------------------
(***************************************************************************)
(* Packets are framed so that a receiver finds their ends, whatever their  *)
(* type and data and whatever follows them in the stream.                  *)
(***************************************************************************)
EXTENDS Packet, SequenceTheorems, TLAPS

Long  == {n \in Nat : n < 4294967296}     \* uint32_t
Short == {n \in Nat : n < 65536}          \* uint16_t
HALF  == 2                                \* sizeof(uint16_t)

(* A number is the sum of its bytes.                                       *)
LEMMA BytesOfLong ==
  ASSUME NEW n \in Long
  PROVE  /\ U32(n) \in Seq(Byte)
         /\ Len(U32(n)) = WORD
         /\ n = 16777216 * U32(n)[1] + 65536 * U32(n)[2] + 256 * U32(n)[3] + U32(n)[4]
<1> DEFINE a == n \div 16777216
           b == n \div 65536
           c == n \div 256
<1>1. a \in Nat /\ b \in Nat /\ c \in Nat /\ a < 256
  BY SMT DEF Long
<1>2. n % 256 \in Byte /\ n = 256 * c + (n % 256)
  BY SMT DEF Long, Byte
<1>3. c % 256 \in Byte /\ c = 256 * b + (c % 256)
  BY SMT DEF Long, Byte
<1>4. b % 256 \in Byte /\ b = 256 * a + (b % 256)
  BY SMT DEF Long, Byte
<1>5. a % 256 \in Byte /\ a % 256 = a
  BY <1>1, SMT DEF Byte
<1>6. U32(n) = <<a % 256, b % 256, c % 256, n % 256>>
  BY SMT DEF U32
<1> HIDE DEF a, b, c
<1>7. n = 16777216 * (a % 256) + 65536 * (b % 256) + 256 * (c % 256) + (n % 256)
  BY <1>1, <1>2, <1>3, <1>4, <1>5, SMT DEF Byte
<1> QED
  BY <1>2, <1>3, <1>4, <1>5, <1>6, <1>7, SMT DEF Byte, WORD

(* The same of a shorter number.                                           *)
LEMMA BytesOfShort ==
  ASSUME NEW n \in Short
  PROVE  /\ U16(n) \in Seq(Byte)
         /\ Len(U16(n)) = HALF
         /\ n = 256 * U16(n)[1] + U16(n)[2]
<1> DEFINE a == n \div 256
<1>1. a \in Byte /\ a % 256 = a
  BY SMT DEF Short, Byte
<1>2. n % 256 \in Byte /\ n = 256 * a + (n % 256)
  BY SMT DEF Short, Byte
<1>3. U16(n) = <<a % 256, n % 256>>
  BY SMT DEF U16
<1> HIDE DEF a
<1> QED
  BY <1>1, <1>2, <1>3, SMT DEF Byte, HALF

(* Bytes h, made of s and of t behind it.                                  *)
LEMMA Joined ==
  ASSUME NEW s, NEW t, NEW h, NEW m, NEW n,
         s \in Seq(Byte), t \in Seq(Byte), h = s \o t, m = Len(s), n = Len(t)
  PROVE  /\ m \in Nat /\ n \in Nat /\ h \in Seq(Byte) /\ Len(h) = m + n
         /\ \A i \in 1..m : h[i] = s[i]
         /\ \A i \in 1..n : h[m + i] = t[i]
<1>1. s \in Seq(Byte) /\ t \in Seq(Byte)
  OBVIOUS
<1>2. /\ Len(s) \in Nat /\ Len(t) \in Nat /\ s \o t \in Seq(Byte)
      /\ Len(s \o t) = Len(s) + Len(t)
      /\ \A i \in 1..Len(s) : (s \o t)[i] = s[i]
      /\ \A i \in 1..Len(t) : (s \o t)[Len(s) + i] = t[i]
  BY ONLY <1>1, SMT
<1>3. h = s \o t /\ m = Len(s) /\ n = Len(t)
  OBVIOUS
<1> QED
  BY ONLY <1>2, <1>3

(* Bytes t within h, at m.                                                 *)
LEMMA Within ==
  ASSUME NEW h, NEW t, NEW m, NEW n, NEW last,
         h \in Seq(Byte), t \in Seq(Byte), m \in Nat, n = Len(t), last = m + n,
         last <= Len(h), \A i \in 1..n : h[m + i] = t[i]
  PROVE  SubSeq(h, m + 1, last) = t
<1> DEFINE cut == SubSeq(h, m + 1, last)
<1>1. h \in Seq(Byte) /\ t \in Seq(Byte)
  OBVIOUS
<1>2. n \in Nat /\ Len(h) \in Nat /\ last \in Nat /\ last = m + n
  BY LenProperties
<1>3. \A i \in m+1..last : h[i] \in Byte
  BY <1>1, <1>2, ElementOfSeq
<1>4. /\ cut \in Seq(Byte)
      /\ Len(cut) = IF m + 1 <= last THEN last - (m + 1) + 1 ELSE 0
      /\ \A i \in 1..last - (m + 1) + 1 : cut[i] = h[m + 1 + i - 1]
  BY <1>2, <1>3, SubSeqProperties
<1> HIDE DEF cut
<1>5. m \in Nat /\ n = Len(t) /\ \A i \in 1..n : h[m + i] = t[i]
  OBVIOUS
<1>6. Len(cut) = n /\ \A i \in 1..n : cut[i] = t[i]
  BY ONLY <1>2, <1>4, <1>5, SMT
<1>7. cut = t
  BY ONLY <1>1, <1>4, <1>5, <1>6, SeqEqual
<1> QED
  BY <1>7 DEF cut

(* A packet that may be sent: what its header has room for.                *)
Fit(packet) ==
  /\ packet \in [length : Long, type : Short, data : Seq(Byte)]
  /\ packet.length = LengthOf(packet.data)

(* Packets are made so, as long as their size fits into the header.        *)
LEMMA NewPacketsFit ==
  ASSUME NEW type \in Short, NEW data \in Seq(Byte), LengthOf(data) \in Long
  PROVE  Fit(NewPacket(type, data))
BY DEF Fit, NewPacket

(* packet.cpp:39-57: the header of a serialized packet can be read from    *)
(* the stream, whatever comes behind it, and the data is where it says.    *)
LEMMA HeaderIsReadable ==
  ASSUME NEW packet, Fit(packet), NEW rest \in Seq(Byte)
  PROVE  LET stream == Serialize(packet) \o rest
         IN  /\ stream \in Seq(Byte)
             /\ Len(stream) = SIZE + Len(packet.data) + Len(rest)
             /\ ReadU32(stream, 0) = SIZE + Len(packet.data)
             /\ ReadU16(stream, WORD) = packet.type
             /\ SubSeq(stream, SIZE + 1, SIZE + Len(packet.data)) = packet.data
             /\ From(stream, SIZE + Len(packet.data)) = rest
<1> DEFINE long   == U32(packet.length)
           short  == U16(packet.type)
           data   == packet.data
           header == long \o short
           whole  == header \o data
           stream == Serialize(packet) \o rest
           n      == Len(data)
           r      == Len(rest)
           size   == WORD + HALF
           all    == size + n
<1>1. packet.length \in Long /\ packet.type \in Short
  BY DEF Fit
<1>2. packet.length = SIZE + n /\ SIZE = size /\ WORD \in Nat /\ HALF \in Nat
  BY DEF Fit, LengthOf, SIZE, WORD, HALF
<1>3. long \in Seq(Byte) /\ short \in Seq(Byte) /\ WORD = Len(long) /\ HALF = Len(short)
  BY <1>1, BytesOfLong, BytesOfShort
<1>4. data \in Seq(Byte) /\ rest \in Seq(Byte) /\ n = Len(data) /\ r = Len(rest)
  BY DEF Fit
<1>5. header = long \o short /\ whole = header \o data /\ stream = whole \o rest
  BY DEF Serialize
<1>6. size = WORD + HALF /\ all = size + n
  OBVIOUS
<1> HIDE DEF long, short, data, header, whole, stream, n, r, size, all
<1>7. /\ header \in Seq(Byte) /\ Len(header) = WORD + HALF
      /\ \A i \in 1..WORD : header[i] = long[i]
      /\ \A i \in 1..HALF : header[WORD + i] = short[i]
  BY ONLY <1>3, <1>5, Joined
<1>8. header \in Seq(Byte) /\ size = Len(header)
  BY ONLY <1>6, <1>7
<1>9. /\ n \in Nat /\ whole \in Seq(Byte) /\ Len(whole) = size + n
      /\ \A i \in 1..size : whole[i] = header[i]
      /\ \A i \in 1..n : whole[size + i] = data[i]
  BY ONLY <1>4, <1>5, <1>8, Joined
<1>10. whole \in Seq(Byte) /\ all = Len(whole)
  BY ONLY <1>6, <1>9
<1>11. /\ r \in Nat /\ stream \in Seq(Byte) /\ Len(stream) = all + r
       /\ \A i \in 1..all : stream[i] = whole[i]
       /\ \A i \in 1..r : stream[all + i] = rest[i]
  <2>1. /\ whole \in Seq(Byte) /\ rest \in Seq(Byte) /\ stream = whole \o rest
        /\ all = Len(whole) /\ r = Len(rest)
    BY ONLY <1>4, <1>5, <1>10
  <2> QED
    BY ONLY <2>1, Joined
<1>12. /\ \A i \in 1..WORD : stream[i] = long[i]
       /\ \A i \in 1..HALF : stream[WORD + i] = short[i]
       /\ \A i \in 1..n : stream[size + i] = data[i]
  BY ONLY <1>2, <1>6, <1>7, <1>9, <1>11, SMT
<1>13. ReadU32(stream, 0) = packet.length
  BY <1>1, <1>12, BytesOfLong, SMT DEF ReadU32, long, WORD
<1>14. ReadU16(stream, WORD) = packet.type
  BY <1>1, <1>12, BytesOfShort, SMT DEF ReadU16, short, WORD, HALF
<1>15. SubSeq(stream, size + 1, all) = data
  <2>1. size \in Nat /\ all <= Len(stream)
    BY ONLY <1>2, <1>6, <1>9, <1>11, SMT
  <2>2. /\ stream \in Seq(Byte) /\ data \in Seq(Byte) /\ n = Len(data) /\ all = size + n
        /\ \A i \in 1..n : stream[size + i] = data[i]
    BY ONLY <1>4, <1>6, <1>11, <1>12
  <2> QED
    BY ONLY <2>1, <2>2, Within
<1>16. From(stream, all) = rest
  <2>1. all \in Nat /\ Len(stream) <= Len(stream)
    BY ONLY <1>2, <1>6, <1>9, <1>11, SMT
  <2> QED
    BY ONLY <2>1, <1>4, <1>11, Within DEF From
<1> QED
  BY <1>2, <1>6, <1>11, <1>13, <1>14, <1>15, <1>16 DEF stream, data, n, r

(* packet.cpp:63-104 read a packet back: at the head of a stream, with any *)
(* bytes behind it, it is complete, deserialize returns it, and what is    *)
(* left of the stream once its size is erased is what comes behind it.     *)
THEOREM PacketsAreFramed ==
  ASSUME NEW packet, Fit(packet), NEW rest \in Seq(Byte)
  PROVE  LET stream == Serialize(packet) \o rest
         IN  /\ IsCompletePacket(stream)
             /\ Deserialize(stream) = packet
             /\ From(stream, TotalSize(packet)) = rest
<1> DEFINE stream == Serialize(packet) \o rest
           n      == Len(packet.data)
<1>1. /\ Len(stream) = SIZE + n + Len(rest)
      /\ ReadU32(stream, 0) = SIZE + n
      /\ ReadU16(stream, WORD) = packet.type
      /\ SubSeq(stream, SIZE + 1, SIZE + n) = packet.data
      /\ From(stream, SIZE + n) = rest
  BY HeaderIsReadable
<1>2. n \in Nat /\ Len(rest) \in Nat
  BY LenProperties DEF Fit
<1>3. /\ packet = [length |-> packet.length, type |-> packet.type, data |-> packet.data]
      /\ packet.length = SIZE + n
  BY DEF Fit, LengthOf
<1> HIDE DEF stream, n
<1>4. /\ Len(stream) >= SIZE /\ ReadU32(stream, 0) <= Len(stream)
      /\ ReadU32(stream, 0) \in SIZE..Len(stream)
  BY ONLY <1>1, <1>2, SMT DEF SIZE
<1>5. Deserialize(stream) = packet
  BY <1>1, <1>2, <1>3, <1>4 DEF Deserialize, SIZE
<1> QED
  BY <1>1, <1>4, <1>5 DEF IsCompletePacket, TotalSize, stream, n

(* packet.cpp:92-104: a packet is not taken before its last byte is there, *)
(* wherever recv() cuts the stream.                                        *)
THEOREM NoPacketTooEarly ==
  ASSUME NEW packet, Fit(packet), NEW rest \in Seq(Byte),
         NEW m \in 0..TotalSize(packet) - 1
  PROVE  ~IsCompletePacket(SubSeq(Serialize(packet) \o rest, 1, m))
<1> DEFINE stream == Serialize(packet) \o rest
           part   == SubSeq(stream, 1, m)
           n      == Len(packet.data)
           total  == TotalSize(packet)
<1>1. /\ stream \in Seq(Byte)
      /\ Len(stream) = SIZE + n + Len(rest)
      /\ ReadU32(stream, 0) = SIZE + n
  BY HeaderIsReadable
<1>2. packet.data \in Seq(Byte) /\ total = SIZE + n /\ m \in 0..total - 1
  BY DEF Fit, TotalSize
<1> HIDE DEF total
<1>3. n \in Nat /\ Len(rest) \in Nat
  BY <1>2, LenProperties
<1> HIDE DEF stream, n
<1>4. /\ m \in Nat /\ m < SIZE + n
      /\ \A i \in 1..m : i \in 1..Len(stream)
  BY ONLY <1>1, <1>2, <1>3, SMT DEF SIZE
<1>5. \A i \in 1..m : stream[i] \in Byte
  BY <1>1, <1>4, ElementOfSeq
<1>6. /\ Len(part) = IF 1 <= m THEN m - 1 + 1 ELSE 0
      /\ \A i \in 1..m - 1 + 1 : part[i] = stream[1 + i - 1]
  BY <1>4, <1>5, SubSeqProperties
<1> HIDE DEF part
<1>7. Len(part) = m /\ \A i \in 1..m : part[i] = stream[i]
  BY ONLY <1>4, <1>6, SMT
<1>8. ASSUME m < SIZE PROVE ~IsCompletePacket(part)
  BY <1>4, <1>7, <1>8, SMT DEF IsCompletePacket, SIZE
<1>9. ASSUME m >= SIZE PROVE ~IsCompletePacket(part)
  <2>1. /\ part[1] = stream[1] /\ part[2] = stream[2]
        /\ part[3] = stream[3] /\ part[4] = stream[4]
    BY ONLY <1>4, <1>7, <1>9, SMT DEF SIZE
  <2>2. ReadU32(part, 0) = SIZE + n
    BY ONLY <1>1, <2>1, SMT DEF ReadU32
  <2> QED
    BY ONLY <1>4, <1>7, <1>3, <2>2, SMT DEF IsCompletePacket, SIZE
<1>10. ~IsCompletePacket(part)
  <2>1. m < SIZE \/ m >= SIZE
    BY ONLY <1>4, SMT DEF SIZE
  <2> QED
    BY <2>1, <1>8, <1>9
<1> QED
  BY <1>10 DEF part, stream
=============================================================================
