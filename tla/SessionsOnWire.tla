--------------------------- MODULE SessionsOnWire ---------------------------
(***************************************************************************)
(* What Sessions takes for granted when it makes a message one step: that  *)
(* each is found whole in the bytes its connection carries.  The bytes are *)
(* module Wire's; what a client sends and how it reads is the other side   *)
(* of the same layouts.                                                    *)
(***************************************************************************)
EXTENDS Sessions, Wire

-----------------------------------------------------------------------------
(* Samples: fields that are empty, full, and in between.                    *)

Corner(width, i) == << 0, 1, Base^width \div 2 + 1, Base^width - 1 >>[(i % 4) + 1]
Samples(layout) == {[k \in DOMAIN layout |-> Corner(layout[k], k + r)] : r \in 0..3}

JoinRequest(version, name) == Word(U16, version) \o Word(U16, Len(name)) \o name

\* Messages of a client's TCP stream, with the bytes it sends them as.  One has
\* no payload, one a name that looks like a header, and one says that it is
\* shorter than its header.
Sent(id, payload) == [msg |-> Msg(id, payload), bytes |-> Packed(id, payload)]
TcpSamples ==
  {Sent(MsgId.Ping, Encode(Layout.Ping, f)) : f \in Samples(Layout.Ping)} \cup
  {Sent(MsgId.Ping, << >>),
   Sent(MsgId.JoinRequest, JoinRequest(1, Packed(MsgId.Ping, << >>))),
   [msg |-> Msg(MsgId.UdpBind, << >>), bytes |-> Word(U16, 3) \o Word(U16, MsgId.UdpBind) \o Word(U32, 0)]}

Streams == UNION {[1..n -> TcpSamples] : n \in 1..3}
BytesOf(s) == FlattenSeq([k \in DOMAIN s |-> s[k].bytes])

\* Of a stream of which n bytes have arrived: the messages that are complete.
Complete(s, n) ==
  LET whole == {k \in 1..Len(s) : Len(BytesOf(SubSeq(s, 1, k))) <= n}
  IN [k \in whole |-> s[k].msg]

StreamsWhole ==
  \A s \in Streams : LET bytes == BytesOf(s) IN
    \A n \in 0..Len(bytes) : Handled(SubSeq(bytes, 1, n)) = Complete(s, n)

\* A datagram of which n bytes arrive, which may be more than were sent.
DatagramsWhole ==
  \A layout \in {Layout.Ping, Layout.UdpBind, Layout.InputCommand} : \A f \in Samples(layout) :
    LET d == Packed(MsgId.InputCommand, Encode(layout, f))
    IN \A n \in HeaderSize..(Len(d) + U32) :
         Decode(layout, Received(SubSeq(d \o Word(U32, 1), 1, n))[1].payload)
           = IF Len(d) <= n /\ Len(d) <= UdpBuffer THEN f ELSE Undecodable

NamesWhole ==
  \A name \in UNION {[1..k -> {0, Base - 1}] : k \in 0..2}, more \in {<< >>, << 1 >>} :
    LET b == JoinRequest(Base + 1, name)
    IN /\ DecodeJoinRequest(b \o more) = << Base + 1, name >>
       /\ \A n \in 0..(Len(b) - 1) : DecodeJoinRequest(SubSeq(b, 1, n)) = Undecodable

-----------------------------------------------------------------------------
(* What the client finds in a packet.                                       *)

Readable(id, layout, f) ==
  LET payload == Encode(layout, f)
  IN /\ Handled(Packed(id, payload)) = << Msg(id, payload) >>
     /\ Decode(layout, payload) = f

AcceptsReadable == \A p \in Player : Readable(MsgId.JoinAccept, Layout.JoinAccept, << p, 1 >>)
PongsReadable   == \A f \in Samples(Layout.Pong) : Readable(MsgId.Pong, Layout.Pong, f)

StateOf(p) == [k \in DOMAIN Layout.Player |-> IF k = 1 THEN p ELSE Corner(Layout.Player[k], k)]
SnapshotBegin == U32 + U16
PlayersIn(payload) ==
  [i \in 1..Field(payload, U32, U16) |->
     Decode(Layout.Player, SubSeq(payload, SnapshotBegin + (i - 1) * Size(Layout.Player) + 1,
                                   Len(payload)))]

\* Snapshots of one player more than the length in the header has room for: the
\* last is the first whose message a reader does not find.
Room == (Base^U16 - 1 - HeaderSize - SnapshotBegin) \div Size(Layout.Player)
SnapshotsReadable ==
  \A n \in 0..(Room + 1) :
    LET payload == EncodeWorldSnapshot(1, [i \in 1..n |-> StateOf(i)])
    IN /\ PlayersIn(payload) = [i \in 1..n |-> StateOf(i)]
       /\ n <= Room <=> Handled(Packed(MsgId.WorldSnapshot, payload))
                          = << Msg(MsgId.WorldSnapshot, payload) >>

EventsReadable == \A f \in Samples(Layout.GameEvent) : Readable(MsgId.GameEvent, Layout.GameEvent, f)

-----------------------------------------------------------------------------
(* Properties.                                                              *)

\* A connection that is being read hands over the client's messages, each once
\* and whole, in their order, wherever the bytes that have arrived end; and from
\* an endpoint that is bound a datagram is taken as it was sent or, cut short,
\* as nothing that decodes (handleTcpReadHeader, startUdpReceive, ByteReader).
InboundWhole ==
  /\ \A c \in reading : StreamsWhole /\ NamesWhole
  /\ \A e \in DOMAIN endpointToConn : DatagramsWhole

\* Whatever waits in the outgoing queue is read back by the client as it was
\* meant, with one message to a packet, as long as a snapshot's length fits the
\* 16 bits of its header (Serializer.cpp, CollectOutgoing).
OutboundReadable ==
  \A k \in DOMAIN outgoing :
    CASE outgoing[k].kind = "JoinAccept" -> AcceptsReadable
      [] outgoing[k].kind = "Pong"       -> PongsReadable
      [] outgoing[k].kind = "Snapshot"   -> SnapshotsReadable /\ EventsReadable
=============================================================================
