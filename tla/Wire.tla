-------------------------------- MODULE Wire --------------------------------
(***************************************************************************)
(* Bytes: the layouts of protocol/Messages.h, ByteWriter and ByteReader,   *)
(* and how NetTransport finds messages in a TCP stream and in a datagram.  *)
(* A byte has Base values instead of 256; a float is the word its bits     *)
(* make.  Constant definitions only: SessionsOnWire says what they are to  *)
(* do for a session.                                                       *)
(***************************************************************************)
EXTENDS Integers, SequencesExt, Functions

CONSTANTS
  Base,       \* values of a byte
  UdpBuffer   \* size of the receive buffer of startUdpReceive

ASSUME WireAssumption == Base \in Nat \ {0, 1} /\ UdpBuffer \in Nat

HeaderSize == 8   \* sizeof(MsgHeader): length, msgId, seq

-----------------------------------------------------------------------------
(* ByteWriter and ByteReader: little endian.  A layout is the sequence of   *)
(* the widths of a message's fields.                                        *)

\* writeU8, writeU16, writeU32 and, with its bits, writeF32; what does not
\* fit is cut off.
Word(width, n) == [i \in 1..width |-> (n \div Base^(i - 1)) % Base]

Value(bytes) == SumFunction([i \in DOMAIN bytes |-> bytes[i] * Base^(i - 1)])

Undecodable == << "undecodable" >>

Fits(bytes, pos, width) == pos + width <= Len(bytes)

Field(bytes, pos, width) == Value(SubSeq(bytes, pos + 1, pos + width))

Size(layout) == SumFunction(layout)
At(layout, k) == Size(SubSeq(layout, 1, k - 1))

Encode(layout, fields) == FlattenSeq([k \in DOMAIN layout |-> Word(layout[k], fields[k])])

\* A decoder reads field after field and fails at the first that does not fit;
\* bytes behind the last one are ignored.
Decode(layout, bytes) ==
  IF \A k \in DOMAIN layout : Fits(bytes, At(layout, k), layout[k])
    THEN [k \in DOMAIN layout |-> Field(bytes, At(layout, k), layout[k])]
    ELSE Undecodable

-----------------------------------------------------------------------------
(* Messages.                                                                *)

U8 == 1
U16 == 2
U32 == 4
F32 == 4
Several(n, width) == [i \in 1..n |-> width]

Layout ==
  [Ping         |-> << U32 >>,
   Pong         |-> << U32, U32 >>,
   UdpBind      |-> << U32 >>,
   JoinAccept   |-> << U32, U16 >>,
   InputCommand |-> << U32, U16, U32 >> \o Several(4, F32) \o << U32 >>,
   Player       |-> << U32, U32 >> \o Several(8, F32) \o Several(4, U8) \o << U32, U16, U16 >>,
   GameEvent    |-> << U8, U32, U32, U32, U8, U8, U32 >> \o Several(6, F32)]

MsgId == [JoinRequest |-> 1, JoinAccept |-> 2, Ping |-> 16, Pong |-> 17, UdpBind |-> 32,
          InputCommand |-> 48, WorldSnapshot |-> 64, GameEvent |-> 80]

\* DecodeJoinRequest; readString takes its length from the two bytes before it.
DecodeJoinRequest(bytes) ==
  IF Fits(bytes, 0, U16) /\ Fits(bytes, U16, U16)
       /\ Fits(bytes, U16 + U16, Field(bytes, U16, U16))
    THEN << Field(bytes, 0, U16),
            SubSeq(bytes, U16 + U16 + 1, U16 + U16 + Field(bytes, U16, U16)) >>
    ELSE Undecodable

\* EncodeWorldSnapshot: as many players as the 16 bits of their count say.
EncodeWorldSnapshot(tick, players) ==
  LET count == Value(Word(U16, Len(players)))
  IN Word(U32, tick) \o Word(U16, count)
       \o FlattenSeq([i \in 1..count |-> Encode(Layout.Player, players[i])])

\* Bug: the length of the payload alone.
TotalLength_Payload(payload) == Len(payload)
TotalLength(payload) == HeaderSize + Len(payload)

\* Header and payload, as every handler of GameServer puts them together.
Packed(id, payload) ==
  Word(U16, TotalLength(payload)) \o Word(U16, id) \o Word(U32, 0) \o payload

-----------------------------------------------------------------------------
(* NetTransport.                                                            *)

\* Bug: the header is taken for a part of what follows it.
PayloadSize_Total(length) == length
PayloadSize(length) == IF length > HeaderSize THEN length - HeaderSize ELSE 0

Msg(id, payload) == [id |-> id, payload |-> payload]

HeaderId(bytes)     == Field(bytes, U16, U16)
HeaderLength(bytes) == Field(bytes, 0, U16)

\* The messages that startTcpRead, handleTcpReadHeader and handleTcpReadBody
\* hand to OnMessage from the bytes that have arrived: header, body, header,
\* and so on, each read waiting until it is complete.
RECURSIVE Handled(_)
Handled(stream) ==
  LET size == PayloadSize(HeaderLength(stream))
  IN IF Len(stream) < HeaderSize THEN << >>
     ELSE IF Len(stream) < HeaderSize + size THEN << >>
     ELSE << Msg(HeaderId(stream), SubSeq(stream, HeaderSize + 1, HeaderSize + size)) >>
            \o Handled(SubSeq(stream, HeaderSize + size + 1, Len(stream)))

\* The messages, one or none, that startUdpReceive takes from a datagram: a
\* payload that is not all there is taken for none.
Received(datagram) ==
  LET bytes == SubSeq(datagram, 1, Min({UdpBuffer, Len(datagram)}))
      size  == PayloadSize(HeaderLength(bytes))
  IN IF Len(bytes) < HeaderSize THEN << >>
     ELSE << Msg(HeaderId(bytes),
                 IF Fits(bytes, HeaderSize, size)
                   THEN SubSeq(bytes, HeaderSize + 1, HeaderSize + size) ELSE << >>) >>
=============================================================================
