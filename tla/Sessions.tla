------------------------------ MODULE Sessions ------------------------------
(***************************************************************************)
(* Connections, players and the packets between them: NetTransport, the    *)
(* session half of GameServer, the actor list of PhysicsWorld, and the     *)
(* loop of main().  One thread runs everything: a round is io.poll(),      *)
(* which runs handlers in any order, then GameServer::Tick, then           *)
(* CollectOutgoing with sendPackets.                                       *)
(*                                                                         *)
(* A message is what its handler does with it: one that does not decode,   *)
(* an unknown one and an InputCommand (module InputPipeline) change        *)
(* nothing here.  A packet is its kind, its channel and, for a JoinAccept, *)
(* the player id it carries.                                               *)
(***************************************************************************)
EXTENDS Integers, Sequences, FiniteSets

CONSTANTS
  Endpoint,     \* UDP endpoints datagrams come from
  MaxConns,     \* bound: connections the server accepts
  MaxPlayers,   \* bound: JoinRequests that are decoded
  MaxQueue      \* bound: packets handlers queue in one round

ASSUME SessionAssumption ==
  MaxConns \in Nat /\ MaxPlayers \in Nat /\ MaxQueue \in Nat

Conn   == 1..MaxConns
Player == 1..MaxPlayers

VARIABLES
  phase,           \* of a round of main(): "poll", "tick", "flush"
  accepting,       \* an async_accept is outstanding
  nextConn,        \* _nextConnId: the id of the connection being accepted
  connections,     \* keys of _connections
  reading,         \* connections with an async_read outstanding
  udpEndpoints,    \* _udpEndpoints: connection -> endpoint
  endpointToConn,  \* _endpointToConn
  clients,         \* _clients: connection -> playerId; each entry has its hero
  nextPlayer,      \* _nextPlayerId
  actors,          \* ids in PhysicsWorld::_actors
  outgoing,        \* _outgoing
  told,            \* ghost: connection -> last player id a JoinAccept told it
  replaced,        \* ghost: players whose ClientInfo a later join overwrote
  early            \* ghost: a snapshot went to a connection never told its id

netVars   == << accepting, nextConn, connections, reading >>
routeVars == << udpEndpoints, endpointToConn >>
gameVars  == << clients, nextPlayer, actors, replaced >>
sentVars  == << told, early >>
vars == << phase, netVars, routeVars, gameVars, outgoing, sentVars >>

NoPlayer == 0

\* A function with one more entry, or a new value for an old one; and without
\* one entry.
With(f, x, y) == [z \in DOMAIN f \cup {x} |-> IF z = x THEN y ELSE f[z]]
Without(f, x) == [z \in DOMAIN f \ {x} |-> f[z]]

Accept(c, p) == [kind |-> "JoinAccept", tcp |-> TRUE, conn |-> c, player |-> p]
Datagram(kind, c) == [kind |-> kind, tcp |-> FALSE, conn |-> c, player |-> NoPlayer]

-----------------------------------------------------------------------------
\* NetTransport::Start arms the acceptor and the UDP receive, which is always
\* armed again.
Init ==
  /\ phase = "poll"
  /\ accepting = TRUE /\ nextConn = 1 /\ connections = {} /\ reading = {}
  /\ udpEndpoints = << >> /\ endpointToConn = << >>
  /\ clients = << >> /\ nextPlayer = 1 /\ actors = {} /\ outgoing = << >>
  /\ told = [c \in Conn |-> NoPlayer] /\ replaced = {} /\ early = FALSE

-----------------------------------------------------------------------------
(* TCP handlers, run by io.poll().                                          *)

\* onAccepted: the connection is entered and read, and the next one awaited.
OnAccepted ==
  /\ phase = "poll" /\ accepting /\ nextConn <= MaxConns
  /\ connections' = connections \cup {nextConn}
  /\ reading' = reading \cup {nextConn}
  /\ nextConn' = nextConn + 1
  /\ UNCHANGED << phase, accepting, routeVars, gameVars, outgoing, sentVars >>

\* onAccepted with an error returns before it calls doAccept.
OnAcceptError ==
  /\ phase = "poll" /\ accepting
  /\ accepting' = FALSE
  /\ UNCHANGED << phase, nextConn, connections, reading, routeVars, gameVars,
                  outgoing, sentVars >>

\* Bug: the actor of the connection that leaves stays behind.
OnConnectionClosed_KeepActor(c) ==
  /\ clients' = Without(clients, c)
  /\ UNCHANGED actors

\* GameServer::OnConnectionClosed
OnConnectionClosed(c) ==
  /\ clients' = Without(clients, c)
  /\ actors' = IF c \in DOMAIN clients THEN actors \ {clients[c]} ELSE actors

\* Bug: the game server is told, but the connection stays in the table.
TcpReadError_NoErase(c) ==
  /\ phase = "poll" /\ c \in reading
  /\ OnConnectionClosed(c)
  /\ reading' = reading \ {c}
  /\ UNCHANGED << phase, accepting, nextConn, connections, routeVars, nextPlayer,
                  replaced, outgoing, sentVars >>

\* handleTcpReadHeader or handleTcpReadBody with an error.  The endpoint maps
\* keep their entries.
TcpReadError(c) ==
  /\ phase = "poll" /\ c \in reading
  /\ OnConnectionClosed(c)
  /\ connections' = connections \ {c}
  /\ reading' = reading \ {c}
  /\ UNCHANGED << phase, accepting, nextConn, routeVars, nextPlayer, replaced,
                  outgoing, sentVars >>

-----------------------------------------------------------------------------
(* GameServer::OnMessage, from a TCP read or a UDP datagram.                *)

\* Bug: the answer goes out like a Pong does.
JoinAnswer_Udp(c, p) == [Accept(c, p) EXCEPT !.tcp = FALSE]
JoinAnswer(c, p) == Accept(c, p)

\* Bug: the id is advanced before the capsule is registered under it.
RegisteredId_Advanced == nextPlayer + 1
RegisteredId == nextPlayer

\* Bug: emplace, which leaves the entry of a client that joins again as it is.
Joined_Emplace(c) == IF c \in DOMAIN clients THEN clients ELSE With(clients, c, nextPlayer)
Joined(c) == With(clients, c, nextPlayer)

\* handleJoinRequest: whatever the connection had before is overwritten, its
\* actor is not unregistered, and nothing asks whether the connection exists.
HandleJoinRequest(c) ==
  /\ nextPlayer <= MaxPlayers /\ Len(outgoing) < MaxQueue
  /\ nextPlayer' = nextPlayer + 1
  /\ clients' = Joined(c)
  /\ actors' = actors \cup {RegisteredId}
  /\ replaced' = IF c \in DOMAIN clients THEN replaced \cup {clients[c]} ELSE replaced
  /\ outgoing' = Append(outgoing, JoinAnswer(c, nextPlayer))

\* handlePing answers over UDP whatever the Ping came by, joined or not.
HandlePing(c) ==
  /\ Len(outgoing) < MaxQueue
  /\ outgoing' = Append(outgoing, Datagram("Pong", c))
  /\ UNCHANGED gameVars

TcpMessage(c) ==
  /\ phase = "poll" /\ c \in reading
  /\ HandleJoinRequest(c) \/ HandlePing(c)
  /\ UNCHANGED << phase, netVars, routeVars, sentVars >>

-----------------------------------------------------------------------------
(* The UDP receive handler.                                                 *)

\* FindConnIdByPlayerId over _clients, in whatever order the map has.
UdpBind(e) ==
  /\ phase = "poll"
  /\ \E c \in DOMAIN clients :
       /\ udpEndpoints' = With(udpEndpoints, c, e)
       /\ endpointToConn' = With(endpointToConn, e, c)
  /\ UNCHANGED << phase, netVars, gameVars, outgoing, sentVars >>

UdpMessage(e) ==
  /\ phase = "poll" /\ e \in DOMAIN endpointToConn
  /\ HandleJoinRequest(endpointToConn[e]) \/ HandlePing(endpointToConn[e])
  /\ UNCHANGED << phase, netVars, routeVars, sentVars >>

-----------------------------------------------------------------------------
(* The rest of the loop.                                                    *)

PollReturns ==
  /\ phase = "poll"
  /\ phase' = "tick"
  /\ UNCHANGED << netVars, routeVars, gameVars, outgoing, sentVars >>

\* Bug: the tick's packets go before those the handlers queued.
Queued_Front(pkts) == pkts \o outgoing
Queued(pkts) == outgoing \o pkts

\* Tick's BroadcastGameEvent and snapshot, as one packet to every client; a
\* tick may have neither.  UpdateActorCapsule moves actors, it adds none.
Tick ==
  /\ phase = "tick"
  /\ \/ UNCHANGED outgoing
     \/ \E order \in [1..Cardinality(DOMAIN clients) -> DOMAIN clients] :
          /\ \A c \in DOMAIN clients : \E i \in DOMAIN order : order[i] = c
          /\ outgoing' = Queued([i \in DOMAIN order |-> Datagram("Snapshot", order[i])])
  /\ phase' = "flush"
  /\ UNCHANGED << netVars, routeVars, gameVars, sentVars >>

\* Packets sendPackets does not skip.
Sendable(pkt) ==
  /\ pkt.conn \in connections
  /\ pkt.tcp \/ pkt.conn \in DOMAIN udpEndpoints

\* What connection c has been told after the first n packets went out.
ToldAfter(c, n) ==
  LET accepts == {i \in 1..n : /\ Sendable(outgoing[i]) /\ outgoing[i].conn = c
                               /\ outgoing[i].kind = "JoinAccept"}
  IN IF accepts = {} THEN told[c]
     ELSE outgoing[CHOOSE i \in accepts : \A j \in accepts : j <= i].player

\* CollectOutgoing and sendPackets.
Flush ==
  /\ phase = "flush"
  /\ told' = [c \in Conn |-> ToldAfter(c, Len(outgoing))]
  /\ early' = \/ early
                \/ \E i \in DOMAIN outgoing :
                     /\ Sendable(outgoing[i]) /\ outgoing[i].kind = "Snapshot"
                     /\ ToldAfter(outgoing[i].conn, i - 1) = NoPlayer
  /\ outgoing' = << >>
  /\ phase' = "poll"
  /\ UNCHANGED << netVars, routeVars, gameVars >>

Next ==
  \/ OnAccepted \/ OnAcceptError
  \/ \E c \in Conn : TcpReadError(c) \/ TcpMessage(c)
  \/ \E e \in Endpoint : UdpBind(e) \/ UdpMessage(e)
  \/ PollReturns \/ Tick \/ Flush

Spec == Init /\ [][Next]_vars

\* The loop of main() goes round for ever; io.poll() returns once the handlers
\* that are ready have run.
FairSpec == Spec /\ WF_vars(PollReturns) /\ WF_vars(Tick) /\ WF_vars(Flush)

-----------------------------------------------------------------------------
(* Properties.                                                              *)

PartialFn(S, T) == UNION {[D -> T] : D \in SUBSET S}

Packet == [kind : {"JoinAccept", "Pong", "Snapshot"}, tcp : BOOLEAN,
           conn : Conn, player : Player \cup {NoPlayer}]

TypeOK ==
  /\ phase \in {"poll", "tick", "flush"} /\ accepting \in BOOLEAN
  /\ nextConn \in 1..(MaxConns + 1) /\ nextPlayer \in 1..(MaxPlayers + 1)
  /\ connections \subseteq Conn /\ reading = connections
  /\ udpEndpoints \in PartialFn(Conn, Endpoint)
  /\ endpointToConn \in PartialFn(Endpoint, Conn)
  /\ clients \in PartialFn(Conn, Player)
  /\ actors \subseteq Player /\ replaced \subseteq Player
  /\ outgoing \in Seq(Packet)
  /\ told \in [Conn -> Player \cup {NoPlayer}] /\ early \in BOOLEAN

\* Every client has a player id of its own and that player's capsule in the
\* physics world: FindConnIdByPlayerId has one answer, and a hero can be hit
\* from the moment it has joined until it leaves.
OwnActor ==
  /\ \A c, d \in DOMAIN clients : clients[c] = clients[d] => c = d
  /\ \A c \in DOMAIN clients : clients[c] \in actors

\* A capsule without a client is what a second JoinRequest on the same
\* connection left behind, and nothing else: a disconnection, whenever it
\* comes, takes its hero's capsule along.
StrayOnlyFromRejoin ==
  actors \subseteq {clients[c] : c \in DOMAIN clients} \cup replaced

\* Players and capsules keep in step, through joins, joins that repeat and
\* disconnections in any order.
ActorsInStep == OwnActor /\ StrayOnlyFromRejoin

\* A connected client is told the id it is known by: the last JoinAccept that
\* was written to it, or is on its way, carries its present player id,
\* however often it joins and over whichever channel.
KnowsItsId ==
  \A c \in connections \cap DOMAIN clients : ToldAfter(c, Len(outgoing)) = clients[c]

\* No snapshot or event is sent to a client before it has been told which
\* player it is, even if its endpoint was bound in the round of its join.
IdBeforeSnapshots == ~early

\* A join is answered: the client stays with its id untold only if it leaves,
\* or joins again.
JoinAnswered ==
  \A c \in Conn, p \in Player :
    (c \in DOMAIN clients /\ clients[c] = p /\ c \in connections)
      ~> (told[c] >= p \/ c \notin connections)

\* What the comment at the registration says: a registered capsule is one
\* whose position is updated in each tick, which Tick does for clients only.
ActorsAreClients == actors \subseteq {clients[c] : c \in DOMAIN clients}

\* What the comments at the broadcasts say: _clients are the connected ones.
ClientsConnected == DOMAIN clients \subseteq connections
=============================================================================
