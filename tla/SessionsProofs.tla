--------------------------- MODULE SessionsProofs ---------------------------
(***************************************************************************)
(* For any number of connections, joins and endpoints.  First players and  *)
(* their capsules: only joins and disconnections touch them; a player id   *)
(* is never handed out twice, so the capsule a disconnection removes is no *)
(* other player's.  Then what a client has been told: the queue is in the  *)
(* order of the joins, and a connection id is never used again.            *)
(***************************************************************************)
EXTENDS Sessions, FiniteSetTheorems, SequenceTheorems, TLAPS

SessionInv ==
  /\ nextPlayer \in Nat \ {0}
  /\ \A c \in DOMAIN clients : clients[c] \in 1..(nextPlayer - 1)
  /\ OwnActor
  /\ StrayOnlyFromRejoin

-----------------------------------------------------------------------------
\* The invariant of players and capsules: ids are not handed out twice.
THEOREM SessionInvariant == Spec => []SessionInv
\* No player, no capsule.
<1>1. Init => SessionInv
  <2> SUFFICES ASSUME Init PROVE SessionInv
    OBVIOUS
  <2>1. DOMAIN clients = {} /\ nextPlayer = 1 /\ actors = {}
    BY DEF Init
  <2>2. QED BY <2>1 DEF SessionInv, OwnActor, StrayOnlyFromRejoin
\* Whatever leaves players, capsules and the history of joins alone.
<1>2. ASSUME SessionInv, UNCHANGED gameVars PROVE SessionInv'
  BY <1>2 DEF SessionInv, OwnActor, StrayOnlyFromRejoin, gameVars
\* A join hands out an id above all others and registers it.
<1>3. ASSUME SessionInv, NEW c, HandleJoinRequest(c) PROVE SessionInv'
  <2> USE <1>3
  <2>1. /\ DOMAIN clients' = DOMAIN clients \cup {c}
        /\ clients'[c] = nextPlayer
        /\ \A d \in DOMAIN clients \ {c} : clients'[d] = clients[d]
    BY DEF HandleJoinRequest, Joined, With
  <2>2. /\ nextPlayer' = nextPlayer + 1 /\ actors' = actors \cup {nextPlayer}
        /\ replaced' = IF c \in DOMAIN clients THEN replaced \cup {clients[c]} ELSE replaced
    BY DEF HandleJoinRequest, RegisteredId
  <2>3. \A d \in DOMAIN clients : clients[d] \in 1..(nextPlayer - 1) /\ clients[d] # nextPlayer
    BY DEF SessionInv
  <2>4. nextPlayer' \in Nat \ {0} /\ \A d \in DOMAIN clients' : clients'[d] \in 1..(nextPlayer' - 1)
    <3>1. nextPlayer \in 1..(nextPlayer' - 1) /\ nextPlayer' \in Nat \ {0}
      BY <2>2 DEF SessionInv
    <3>2. \A d \in DOMAIN clients : clients[d] \in 1..(nextPlayer' - 1)
      BY <2>2, <2>3 DEF SessionInv
    <3>3. QED BY <2>1, <3>1, <3>2
  <2>5. OwnActor'
    <3>1. ASSUME NEW d \in DOMAIN clients', NEW e \in DOMAIN clients', clients'[d] = clients'[e]
          PROVE  d = e
      BY <2>1, <2>3, <3>1 DEF SessionInv, OwnActor
    <3>2. ASSUME NEW d \in DOMAIN clients' PROVE clients'[d] \in actors'
      BY <2>1, <2>2 DEF SessionInv, OwnActor
    <3>3. QED BY <3>1, <3>2 DEF OwnActor
  <2>6. StrayOnlyFromRejoin'
    <3>1. ASSUME NEW p \in actors'
          PROVE  p \in replaced' \/ \E d \in DOMAIN clients' : p = clients'[d]
      <4>1. CASE p = nextPlayer
        BY <4>1, <2>1
      <4>2. CASE p \in replaced
        BY <4>2, <2>2
      <4>3. ASSUME NEW d \in DOMAIN clients, p = clients[d]
            PROVE  p \in replaced' \/ \E f \in DOMAIN clients' : p = clients'[f]
        BY <4>3, <2>1, <2>2
      <4>4. p = nextPlayer \/ p \in replaced \/ \E d \in DOMAIN clients : p = clients[d]
        BY <3>1, <2>2 DEF SessionInv, StrayOnlyFromRejoin
      <4>5. QED BY <4>1, <4>2, <4>3, <4>4
    <3>2. QED BY <3>1 DEF StrayOnlyFromRejoin
  <2>7. QED BY <2>4, <2>5, <2>6 DEF SessionInv
\* A disconnection removes one client and the capsule that is its alone.
<1>4. ASSUME SessionInv, NEW c, OnConnectionClosed(c), UNCHANGED << nextPlayer, replaced >>
      PROVE  SessionInv'
  <2> USE <1>4
  <2>1. /\ DOMAIN clients' = DOMAIN clients \ {c}
        /\ \A d \in DOMAIN clients' : clients'[d] = clients[d]
    BY DEF OnConnectionClosed, Without
  <2>2. actors' = IF c \in DOMAIN clients THEN actors \ {clients[c]} ELSE actors
    BY DEF OnConnectionClosed
  <2>3. nextPlayer' \in Nat \ {0} /\ \A d \in DOMAIN clients' : clients'[d] \in 1..(nextPlayer' - 1)
    BY <2>1 DEF SessionInv
  <2>4. OwnActor'
    <3>1. ASSUME NEW d \in DOMAIN clients' PROVE clients'[d] \in actors'
      BY <2>1, <2>2 DEF SessionInv, OwnActor
    <3>2. \A d, e \in DOMAIN clients' : clients'[d] = clients'[e] => d = e
      BY <2>1 DEF SessionInv, OwnActor
    <3>3. QED BY <3>1, <3>2 DEF OwnActor
  <2>5. StrayOnlyFromRejoin'
    <3>1. ASSUME NEW p \in actors'
          PROVE  p \in replaced' \/ \E d \in DOMAIN clients' : p = clients'[d]
      <4>1. p \in replaced \/ \E d \in DOMAIN clients : p = clients[d]
        BY <3>1, <2>2 DEF SessionInv, StrayOnlyFromRejoin
      <4>2. ASSUME NEW d \in DOMAIN clients, p = clients[d]
            PROVE  \E e \in DOMAIN clients' : p = clients'[e]
        BY <4>2, <3>1, <2>1, <2>2
      <4>3. QED BY <4>1, <4>2
    <3>2. QED BY <3>1 DEF StrayOnlyFromRejoin
  <2>6. QED BY <2>3, <2>4, <2>5 DEF SessionInv
\* The invariant is inductive.
<1>5. SessionInv /\ [Next]_vars => SessionInv'
  <2> SUFFICES ASSUME SessionInv, [Next]_vars PROVE SessionInv'
    OBVIOUS
  <2>1. CASE OnAccepted \/ OnAcceptError
    BY <2>1, <1>2 DEF OnAccepted, OnAcceptError
  <2>2. ASSUME NEW c \in Conn, TcpReadError(c) PROVE SessionInv'
    BY <2>2, <1>4 DEF TcpReadError
  <2>3. ASSUME NEW c \in Conn, TcpMessage(c) PROVE SessionInv'
    BY <2>3, <1>3, <1>2 DEF TcpMessage, HandlePing
  <2>4. ASSUME NEW e \in Endpoint, UdpBind(e) PROVE SessionInv'
    BY <2>4, <1>2 DEF UdpBind
  <2>5. ASSUME NEW e \in Endpoint, UdpMessage(e) PROVE SessionInv'
    BY <2>5, <1>3, <1>2 DEF UdpMessage, HandlePing
  <2>6. CASE PollReturns \/ Tick \/ Flush
    BY <2>6, <1>2 DEF PollReturns, Tick, Flush
  <2>7. CASE UNCHANGED vars
    BY <2>7, <1>2 DEF vars
  <2>8. QED BY <2>1, <2>2, <2>3, <2>4, <2>5, <2>6, <2>7 DEF Next
<1>6. QED BY <1>1, <1>5, PTL DEF Spec

-----------------------------------------------------------------------------
\* Players and capsules keep in step: every client always has an id and a
\* capsule of its own, and a capsule outlives its client only through a second
\* join.
THEOREM PlayersKeepActors == Spec => []ActorsInStep
<1>1. SessionInv => ActorsInStep
  BY DEF SessionInv, ActorsInStep
<1>2. QED BY <1>1, SessionInvariant, PTL

-----------------------------------------------------------------------------
(* Ids of connections: whatever names one names one that was accepted, so   *)
(* the connection that is accepted next is new to all tables.               *)
Known == 1..(nextConn - 1)

RouteInv ==
  /\ connections \subseteq Known /\ DOMAIN clients \subseteq Known
  /\ \A e \in DOMAIN endpointToConn : endpointToConn[e] \in Known
  /\ \A i \in DOMAIN outgoing : outgoing[i].conn \in Known

(* What a connected client is going to believe: what it was told, if no     *)
(* answer to a join is on its way to it, or else what the last one says.    *)
IsAccept(i, c) == outgoing[i].kind = "JoinAccept" /\ outgoing[i].conn = c

LastWord(c) ==
  \/ told[c] = clients[c] /\ \A i \in DOMAIN outgoing : ~IsAccept(i, c)
  \/ \E i \in DOMAIN outgoing :
       /\ IsAccept(i, c) /\ outgoing[i].player = clients[c]
       /\ \A j \in DOMAIN outgoing : IsAccept(j, c) => j <= i

AnswerInv ==
  /\ \A i \in DOMAIN outgoing : outgoing[i].kind = "JoinAccept" =>
       /\ outgoing[i].tcp
       /\ outgoing[i].conn \in connections => outgoing[i].conn \in DOMAIN clients
  /\ \A c \in connections \cap DOMAIN clients : LastWord(c)

(* Snapshots are queued by a tick, behind all answers, for clients.         *)
OrderInv ==
  \A i \in DOMAIN outgoing : outgoing[i].kind = "Snapshot" =>
    /\ phase = "flush" /\ outgoing[i].conn \in DOMAIN clients
    /\ \A j \in DOMAIN outgoing : outgoing[j].kind = "JoinAccept" => j < i

KnowsInv == TypeOK /\ RouteInv /\ AnswerInv /\ OrderInv /\ IdBeforeSnapshots

-----------------------------------------------------------------------------
\* A connected client is told its id as soon as all answers to it are out.
LEMMA ToldInTime ==
  ASSUME TypeOK, AnswerInv, NEW c \in connections \cap DOMAIN clients,
         NEW n \in 0..Len(outgoing),
         \A i \in DOMAIN outgoing : IsAccept(i, c) => i <= n
  PROVE  ToldAfter(c, n) = clients[c]
<1> DEFINE accepts == {i \in 1..n : /\ Sendable(outgoing[i]) /\ outgoing[i].conn = c
                                   /\ outgoing[i].kind = "JoinAccept"}
<1>1. outgoing \in Seq(Packet) /\ DOMAIN outgoing = 1..Len(outgoing) /\ Len(outgoing) \in Nat
  BY DEF TypeOK
<1>2. \A i : i \in accepts <=> i \in DOMAIN outgoing /\ IsAccept(i, c)
  BY <1>1 DEF AnswerInv, IsAccept, Sendable
<1>3. CASE \A i \in DOMAIN outgoing : ~IsAccept(i, c)
  BY <1>2, <1>3 DEF AnswerInv, LastWord, ToldAfter
<1>4. ASSUME NEW i \in DOMAIN outgoing, IsAccept(i, c), outgoing[i].player = clients[c],
             \A j \in DOMAIN outgoing : IsAccept(j, c) => j <= i
      PROVE  ToldAfter(c, n) = clients[c]
  <2>1. i \in accepts /\ \A j \in accepts : j <= i
    BY <1>2, <1>4
  <2>2. \A k \in accepts : (\A j \in accepts : j <= k) => k = i
    BY <2>1, <1>1
  <2>3. (CHOOSE k \in accepts : \A j \in accepts : j <= k) = i
    BY <2>1, <2>2
  <2>4. QED BY <2>1, <2>3, <1>4 DEF ToldAfter
<1>5. QED BY <1>3, <1>4 DEF AnswerInv, LastWord

\* Every run of the sessions is well typed, and every step keeps what clients have
\* been told in line with their sessions.
THEOREM KnowsInvariant == Spec => [](TypeOK /\ KnowsInv)
\* Entering, replacing and removing an entry of a table.
<1>1. ASSUME NEW S, NEW T, NEW f \in PartialFn(S, T), NEW x \in S, NEW y \in T
      PROVE  /\ DOMAIN f \subseteq S /\ \A z \in DOMAIN f : f[z] \in T
             /\ With(f, x, y) \in PartialFn(S, T)
             /\ Without(f, x) \in PartialFn(S, T)
  <2> USE <1>1
  <2>1. PICK D \in SUBSET S : f \in [D -> T]
    BY DEF PartialFn
  <2>2. With(f, x, y) \in [D \cup {x} -> T] /\ D \cup {x} \in SUBSET S
    BY <2>1 DEF With
  <2>3. Without(f, x) \in [D \ {x} -> T] /\ D \ {x} \in SUBSET S
    BY <2>1 DEF Without
  <2>4. QED BY <2>1, <2>2, <2>3 DEF PartialFn
\* A join: its answer is behind all others, and over TCP.
<1>2. ASSUME KnowsInv, NEW c \in Known, c \in Conn, phase = "poll", HandleJoinRequest(c),
             UNCHANGED << phase, netVars, routeVars, sentVars >>
      PROVE  KnowsInv'
  <2> USE <1>2
  <2>0. PICK n \in Nat : n = Len(outgoing)
    BY DEF KnowsInv, TypeOK
  <2>1. /\ nextPlayer \in Player /\ nextPlayer' = nextPlayer + 1 /\ nextPlayer' \in 1..(MaxPlayers + 1)
        /\ outgoing' = Append(outgoing, Accept(c, nextPlayer))
        /\ outgoing \in Seq(Packet)
    BY SessionAssumption DEF KnowsInv, TypeOK, HandleJoinRequest, JoinAnswer, Player
  <2>2. /\ DOMAIN clients' = DOMAIN clients \cup {c} /\ clients'[c] = nextPlayer
        /\ \A d \in DOMAIN clients \ {c} : clients'[d] = clients[d]
    BY DEF HandleJoinRequest, Joined, With
  <2>3. /\ Accept(c, nextPlayer) \in Packet
        /\ outgoing' \in Seq(Packet)
        /\ DOMAIN outgoing = 1..n /\ DOMAIN outgoing' = 1..(n + 1)
        /\ outgoing'[n + 1] = Accept(c, nextPlayer)
        /\ \A i \in DOMAIN outgoing : i \in DOMAIN outgoing' /\ outgoing'[i] = outgoing[i]
        /\ \A i \in DOMAIN outgoing' : i \in DOMAIN outgoing \/ i = n + 1
    <3>1. Accept(c, nextPlayer) \in Packet
      BY <2>1 DEF Accept, Packet
    <3>2. QED BY <2>0, <2>1, <3>1
  <2>4. TypeOK'
    <3>1. clients' \in PartialFn(Conn, Player)
      BY <2>1, <1>1 DEF KnowsInv, TypeOK, HandleJoinRequest, Joined
    <3>2. actors' \subseteq Player /\ replaced' \subseteq Player
      <4>1. c \in DOMAIN clients => clients[c] \in Player
        BY <2>1, <1>1 DEF KnowsInv, TypeOK
      <4>2. QED BY <4>1, <2>1 DEF KnowsInv, TypeOK, HandleJoinRequest, RegisteredId
    <3>3. QED
      BY <3>1, <3>2, <2>1, <2>3 DEF KnowsInv, TypeOK, netVars, routeVars, sentVars
  <2>5. RouteInv'
    BY <2>2, <2>3 DEF KnowsInv, RouteInv, Known, Accept, netVars, routeVars
  <2>6. AnswerInv'
    <3>1. \A i \in DOMAIN outgoing' : outgoing'[i].kind = "JoinAccept" =>
            /\ outgoing'[i].tcp
            /\ outgoing'[i].conn \in connections' => outgoing'[i].conn \in DOMAIN clients'
      BY <2>2, <2>3 DEF KnowsInv, AnswerInv, Accept, netVars
    <3>2. ASSUME NEW d \in connections' \cap DOMAIN clients' PROVE LastWord(d)'
      <4>1. CASE d = c
        <5>1. IsAccept(n + 1, c)' /\ outgoing'[n + 1].player = clients'[c] /\ n + 1 \in DOMAIN outgoing'
          BY <2>1, <2>2, <2>3 DEF IsAccept, Accept
        <5>2. \A j \in DOMAIN outgoing' : j <= n + 1
          BY <2>1, <2>3
        <5>3. QED BY <4>1, <5>1, <5>2 DEF LastWord
      <4>2. CASE d # c
        <5>1. \A i \in DOMAIN outgoing : IsAccept(i, d)' <=> IsAccept(i, d)
          BY <2>3 DEF IsAccept
        <5>2. ~IsAccept(n + 1, d)'
          BY <4>2, <2>3 DEF IsAccept, Accept
        <5>3. d \in connections \cap DOMAIN clients /\ clients'[d] = clients[d] /\ told'[d] = told[d]
          BY <3>2, <4>2, <2>2 DEF netVars, sentVars
        <5>4. LastWord(d)
          BY <5>3 DEF KnowsInv, AnswerInv
        <5>5. CASE told[d] = clients[d] /\ \A i \in DOMAIN outgoing : ~IsAccept(i, d)
          BY <5>5, <5>1, <5>2, <5>3, <2>3 DEF LastWord
        <5>6. ASSUME NEW i \in DOMAIN outgoing, IsAccept(i, d), outgoing[i].player = clients[d],
                     \A j \in DOMAIN outgoing : IsAccept(j, d) => j <= i
              PROVE  LastWord(d)'
          BY <5>6, <5>1, <5>2, <5>3, <2>3 DEF LastWord
        <5>7. QED BY <5>4, <5>5, <5>6 DEF LastWord
      <4>3. QED BY <4>1, <4>2
    <3>3. QED BY <3>1, <3>2 DEF AnswerInv
  <2>7. OrderInv'
    BY <2>3 DEF KnowsInv, OrderInv, Accept
  <2>8. QED BY <2>4, <2>5, <2>6, <2>7 DEF KnowsInv, IdBeforeSnapshots, sentVars
\* A tick's packets come behind the answers, and go to clients.
<1>3. ASSUME KnowsInv, Tick PROVE KnowsInv'
  <2> USE <1>3
  <2>0. PICK n \in Nat : n = Len(outgoing)
    BY DEF KnowsInv, TypeOK
  <2>1. /\ UNCHANGED << clients, nextPlayer, actors, replaced, told, early, connections,
                        nextConn, accepting, reading, udpEndpoints, endpointToConn >>
        /\ phase' = "flush" /\ phase = "tick"
    BY DEF Tick, gameVars, netVars, routeVars, sentVars
  <2>2. outgoing \in Seq(Packet) /\ DOMAIN outgoing = 1..n
    BY <2>0 DEF KnowsInv, TypeOK
  <2>3. /\ outgoing' \in Seq(Packet)
        /\ DOMAIN outgoing \subseteq DOMAIN outgoing'
        /\ \A i \in DOMAIN outgoing : outgoing'[i] = outgoing[i]
        /\ \A i \in DOMAIN outgoing' \ DOMAIN outgoing :
             /\ outgoing'[i].kind = "Snapshot" /\ outgoing'[i].conn \in DOMAIN clients
             /\ i \in Nat /\ i > n
    <3>1. CASE UNCHANGED outgoing
      BY <3>1, <2>2
    <3>2. ASSUME NEW order \in [1..Cardinality(DOMAIN clients) -> DOMAIN clients],
                 outgoing' = Queued([i \in DOMAIN order |-> Datagram("Snapshot", order[i])])
          PROVE  <2>3
      <4>1. DOMAIN clients \subseteq Conn
        BY DEF KnowsInv, TypeOK, PartialFn
      <4>2. Cardinality(DOMAIN clients) \in Nat
        <5>1. IsFiniteSet(Conn)
          BY FS_Interval, SessionAssumption DEF Conn
        <5>2. QED BY <4>1, <5>1, FS_Subset, FS_CardinalityType
      <4>3. PICK k \in Nat : k = Cardinality(DOMAIN clients)
        BY <4>2
      <4>4. PICK pkts : pkts = [i \in 1..k |-> Datagram("Snapshot", order[i])]
        OBVIOUS
      <4>5. /\ pkts \in Seq(Packet) /\ Len(pkts) = k
            /\ \A i \in 1..k : pkts[i].kind = "Snapshot" /\ pkts[i].conn \in DOMAIN clients
        <5>1. \A i \in 1..k : order[i] \in DOMAIN clients
          BY <4>3
        <5>2. \A i \in 1..k : Datagram("Snapshot", order[i]) \in Packet
          BY <5>1, <4>1 DEF Datagram, Packet
        <5>3. QED BY <4>3, <4>4, <5>1, <5>2 DEF Datagram
      <4>6. outgoing' = outgoing \o pkts
        BY <3>2, <4>3, <4>4 DEF Queued
      <4>7. /\ outgoing' \in Seq(Packet) /\ Len(outgoing') = n + k
            /\ \A i \in 1..(n + k) : outgoing'[i] = IF i <= n THEN outgoing[i] ELSE pkts[i - n]
        BY <4>5, <4>6, <2>0, <2>2, ConcatProperties
      <4>8. ASSUME NEW i \in DOMAIN outgoing', i \notin DOMAIN outgoing
            PROVE  i \in Nat /\ i > n /\ i - n \in 1..k /\ outgoing'[i] = pkts[i - n]
        BY <4>7, <4>8, <2>2
      <4>9. QED BY <4>5, <4>7, <4>8, <2>2
    <3>3. QED BY <3>1, <3>2 DEF Tick
  <2>4. TypeOK'
    BY <2>1, <2>3 DEF KnowsInv, TypeOK
  <2>5. RouteInv'
    BY <2>1, <2>3 DEF KnowsInv, RouteInv, Known
  <2>6. AnswerInv'
    <3>1. /\ \A d : \A i \in DOMAIN outgoing : IsAccept(i, d)' <=> IsAccept(i, d)
          /\ \A d : \A i \in DOMAIN outgoing' \ DOMAIN outgoing : ~IsAccept(i, d)'
      BY <2>3 DEF IsAccept
    <3>2. ASSUME NEW d \in connections' \cap DOMAIN clients' PROVE LastWord(d)'
      <4>1. LastWord(d)
        BY <2>1, <3>2 DEF KnowsInv, AnswerInv
      <4>2. CASE told[d] = clients[d] /\ \A i \in DOMAIN outgoing : ~IsAccept(i, d)
        BY <4>2, <2>1, <2>3, <3>1 DEF LastWord
      <4>3. ASSUME NEW i \in DOMAIN outgoing, IsAccept(i, d), outgoing[i].player = clients[d],
                   \A j \in DOMAIN outgoing : IsAccept(j, d) => j <= i
            PROVE  LastWord(d)'
        BY <4>3, <2>1, <2>3, <3>1 DEF LastWord
      <4>4. QED BY <4>1, <4>2, <4>3 DEF LastWord
    <3>3. \A i \in DOMAIN outgoing' : outgoing'[i].kind = "JoinAccept" =>
            /\ outgoing'[i].tcp
            /\ outgoing'[i].conn \in connections' => outgoing'[i].conn \in DOMAIN clients'
      BY <2>1, <2>3 DEF KnowsInv, AnswerInv
    <3>4. QED BY <3>2, <3>3 DEF AnswerInv
  <2>7. OrderInv'
    <3>1. \A i \in DOMAIN outgoing : outgoing[i].kind # "Snapshot"
      BY <2>1 DEF KnowsInv, OrderInv
    <3>2. QED BY <2>1, <2>2, <2>3, <3>1 DEF OrderInv
  <2>8. QED BY <2>1, <2>4, <2>5, <2>6, <2>7 DEF KnowsInv, IdBeforeSnapshots
\* When the queue goes out, every connected client is told its id, and what
\* is a snapshot finds it told.
<1>4. ASSUME KnowsInv, Flush PROVE KnowsInv'
  <2> USE <1>4
  <2>0. PICK n \in Nat : n = Len(outgoing) /\ DOMAIN outgoing = 1..n /\ outgoing \in Seq(Packet)
    BY DEF KnowsInv, TypeOK
  <2>1. /\ UNCHANGED << clients, nextPlayer, actors, replaced, connections, nextConn, accepting,
                        reading, udpEndpoints, endpointToConn >>
        /\ phase' = "poll" /\ outgoing' = << >> /\ phase = "flush"
        /\ told' = [c \in Conn |-> ToldAfter(c, n)]
    BY <2>0 DEF Flush, gameVars, netVars, routeVars
  <2>2. \A c \in DOMAIN clients : clients[c] \in Player
    BY DEF KnowsInv, TypeOK, PartialFn
  <2>3. ASSUME NEW c \in connections \cap DOMAIN clients PROVE ToldAfter(c, n) = clients[c]
    BY <2>0, ToldInTime DEF KnowsInv
  <2>4. ASSUME NEW c \in Conn PROVE ToldAfter(c, n) \in Player \cup {NoPlayer}
    <3>1. CASE c \in connections \cap DOMAIN clients
      BY <3>1, <2>2, <2>3
    <3>2. CASE c \notin connections \cap DOMAIN clients
      <4>1. \A i \in 1..n : ~(/\ Sendable(outgoing[i]) /\ outgoing[i].conn = c
                              /\ outgoing[i].kind = "JoinAccept")
        BY <3>2, <2>0 DEF KnowsInv, AnswerInv, Sendable
      <4>2. ToldAfter(c, n) = told[c]
        BY <4>1 DEF ToldAfter
      <4>3. QED BY <4>2 DEF KnowsInv, TypeOK
    <3>3. QED BY <3>1, <3>2
  <2>5. TypeOK'
    <3>1. told' \in [Conn -> Player \cup {NoPlayer}]
      BY <2>1, <2>4
    <3>2. early' \in BOOLEAN
      BY DEF Flush, KnowsInv, IdBeforeSnapshots
    <3>3. outgoing' \in Seq(Packet)
      BY <2>1
    <3>4. QED BY <2>1, <3>1, <3>2, <3>3 DEF KnowsInv, TypeOK
  <2>6. RouteInv'
    BY <2>1 DEF KnowsInv, RouteInv, Known
  <2>7. AnswerInv'
    <3>1. ASSUME NEW c \in connections' \cap DOMAIN clients' PROVE told'[c] = clients'[c]
      <4>1. c \in Conn /\ c \in connections \cap DOMAIN clients
        BY <2>1, <3>1 DEF KnowsInv, TypeOK
      <4>2. QED BY <2>1, <2>3, <4>1
    <3>2. QED BY <2>1, <3>1 DEF AnswerInv, LastWord
  <2>8. OrderInv'
    BY <2>1 DEF OrderInv
  <2>9. IdBeforeSnapshots'
    <3>1. ASSUME NEW i \in DOMAIN outgoing, Sendable(outgoing[i]), outgoing[i].kind = "Snapshot"
          PROVE  ToldAfter(outgoing[i].conn, i - 1) # NoPlayer
      <4>1. PICK c : c = outgoing[i].conn
        OBVIOUS
      <4>2. c \in connections \cap DOMAIN clients
        BY <3>1, <4>1 DEF KnowsInv, OrderInv, Sendable
      <4>3. \A j \in DOMAIN outgoing : IsAccept(j, c) => j <= i - 1
        BY <3>1, <2>0 DEF KnowsInv, OrderInv, IsAccept
      <4>4. i - 1 \in 0..Len(outgoing)
        BY <2>0
      <4>5. ToldAfter(c, i - 1) = clients[c]
        BY <4>2, <4>3, <4>4, ToldInTime DEF KnowsInv
      <4>6. clients[c] \in Player
        BY <2>2, <4>2
      <4>7. QED BY <4>1, <4>5, <4>6, SessionAssumption DEF Player, NoPlayer
    <3>2. QED BY <3>1 DEF Flush, KnowsInv, IdBeforeSnapshots
  <2>10. QED BY <2>5, <2>6, <2>7, <2>8, <2>9 DEF KnowsInv
\* No one is known and nothing is queued.
<1>5. Init => KnowsInv
  <2> SUFFICES ASSUME Init PROVE KnowsInv
    OBVIOUS
  <2>1. DOMAIN clients = {} /\ DOMAIN endpointToConn = {} /\ DOMAIN outgoing = {}
    BY DEF Init
  <2>2. << >> \in PartialFn(Conn, Endpoint) /\ << >> \in PartialFn(Endpoint, Conn)
          /\ << >> \in PartialFn(Conn, Player)
    <3>1. \A S, T : << >> \in [{} -> T] /\ {} \in SUBSET S
      OBVIOUS
    <3>2. QED BY <3>1 DEF PartialFn
  <2>3. outgoing \in Seq(Packet) /\ told \in [Conn -> Player \cup {NoPlayer}]
    BY DEF Init
  <2>4. nextConn \in 1..(MaxConns + 1) /\ nextPlayer \in 1..(MaxPlayers + 1)
    BY SessionAssumption DEF Init
  <2>5. TypeOK
    <3>1. phase \in {"poll", "tick", "flush"} /\ accepting \in BOOLEAN /\ early \in BOOLEAN
      BY DEF Init
    <3>2. /\ connections \subseteq Conn /\ reading = connections
          /\ actors \subseteq Player /\ replaced \subseteq Player
      BY DEF Init
    <3>3. udpEndpoints = << >> /\ endpointToConn = << >> /\ clients = << >>
      BY DEF Init
    <3>4. QED BY <3>1, <3>2, <3>3, <2>2, <2>3, <2>4 DEF TypeOK
  <2>6. QED
    BY <2>1, <2>5 DEF Init, KnowsInv, RouteInv, AnswerInv, OrderInv, IdBeforeSnapshots
\* A Pong in the queue tells nobody anything.
<1>6. ASSUME KnowsInv, NEW c \in Known, c \in Conn, phase = "poll", HandlePing(c),
             UNCHANGED << phase, netVars, routeVars, sentVars >>
      PROVE  KnowsInv'
  <2> USE <1>6
  <2>0. PICK n \in Nat : n = Len(outgoing)
    BY DEF KnowsInv, TypeOK
  <2>1. /\ DOMAIN outgoing = 1..n /\ DOMAIN outgoing' = 1..(n + 1)
        /\ outgoing' \in Seq(Packet)
        /\ outgoing'[n + 1] = Datagram("Pong", c)
        /\ \A i \in DOMAIN outgoing : i \in DOMAIN outgoing' /\ outgoing'[i] = outgoing[i]
        /\ \A i \in DOMAIN outgoing' : i \in DOMAIN outgoing \/ i = n + 1
    <3>1. Datagram("Pong", c) \in Packet
      BY DEF Datagram, Packet
    <3>2. outgoing \in Seq(Packet) /\ outgoing' = Append(outgoing, Datagram("Pong", c))
      BY DEF KnowsInv, TypeOK, HandlePing
    <3>3. QED BY <2>0, <3>1, <3>2
  <2>2. UNCHANGED << clients, nextPlayer, actors, replaced, told, early, connections, nextConn,
                     accepting, reading, udpEndpoints, endpointToConn, phase >>
    BY DEF HandlePing, gameVars, netVars, routeVars, sentVars
  <2>3. TypeOK'
    BY <2>1, <2>2 DEF KnowsInv, TypeOK
  <2>4. RouteInv'
    BY <2>1, <2>2 DEF KnowsInv, RouteInv, Known, Datagram
  <2>5. AnswerInv'
    <3>1. /\ \A d : \A i \in DOMAIN outgoing : IsAccept(i, d)' <=> IsAccept(i, d)
          /\ \A d : ~IsAccept(n + 1, d)'
      BY <2>1 DEF IsAccept, Datagram
    <3>2. ASSUME NEW d \in connections' \cap DOMAIN clients' PROVE LastWord(d)'
      <4>1. LastWord(d)
        BY <2>2, <3>2 DEF KnowsInv, AnswerInv
      <4>2. CASE told[d] = clients[d] /\ \A i \in DOMAIN outgoing : ~IsAccept(i, d)
        BY <4>2, <2>1, <2>2, <3>1 DEF LastWord
      <4>3. ASSUME NEW i \in DOMAIN outgoing, IsAccept(i, d), outgoing[i].player = clients[d],
                   \A j \in DOMAIN outgoing : IsAccept(j, d) => j <= i
            PROVE  LastWord(d)'
        BY <4>3, <2>1, <2>2, <3>1 DEF LastWord
      <4>4. QED BY <4>1, <4>2, <4>3 DEF LastWord
    <3>3. \A i \in DOMAIN outgoing' : outgoing'[i].kind = "JoinAccept" =>
            /\ outgoing'[i].tcp
            /\ outgoing'[i].conn \in connections' => outgoing'[i].conn \in DOMAIN clients'
      BY <2>1, <2>2 DEF KnowsInv, AnswerInv, Datagram
    <3>4. QED BY <3>2, <3>3 DEF AnswerInv
  <2>6. OrderInv'
    BY <2>1, <2>2 DEF KnowsInv, OrderInv, Datagram
  <2>7. QED BY <2>2, <2>3, <2>4, <2>5, <2>6 DEF KnowsInv, IdBeforeSnapshots
\* A disconnection takes the client along, and its answers with it.
<1>7. ASSUME KnowsInv, NEW c \in Conn, TcpReadError(c) PROVE KnowsInv'
  <2> USE <1>7
  <2>1. /\ DOMAIN clients' = DOMAIN clients \ {c} /\ connections' = connections \ {c}
        /\ reading' = reading \ {c}
        /\ \A d \in DOMAIN clients' : clients'[d] = clients[d]
        /\ UNCHANGED << phase, accepting, nextConn, udpEndpoints, endpointToConn, nextPlayer,
                        replaced, outgoing, told, early >>
    BY DEF TcpReadError, OnConnectionClosed, Without, routeVars, sentVars
  <2>2. TypeOK'
    <3>1. PICK D \in SUBSET Conn : clients \in [D -> Player]
      BY DEF KnowsInv, TypeOK, PartialFn
    <3>2. Without(clients, c) \in [D \ {c} -> Player] /\ D \ {c} \in SUBSET Conn
      BY <3>1 DEF Without
    <3>3. clients' \in PartialFn(Conn, Player)
      BY <3>2 DEF TcpReadError, OnConnectionClosed, PartialFn
    <3>4. actors' \subseteq Player
      BY DEF KnowsInv, TypeOK, TcpReadError, OnConnectionClosed
    <3>5. QED BY <2>1, <3>3, <3>4 DEF KnowsInv, TypeOK
  <2>3. RouteInv'
    BY <2>1 DEF KnowsInv, RouteInv, Known
  <2>4. AnswerInv'
    <3>1. ASSUME NEW d \in connections' \cap DOMAIN clients' PROVE LastWord(d)'
      <4>1. LastWord(d) /\ clients'[d] = clients[d]
        BY <2>1, <3>1 DEF KnowsInv, AnswerInv
      <4>2. QED BY <2>1, <4>1 DEF LastWord, IsAccept
    <3>2. QED BY <2>1, <3>1 DEF KnowsInv, AnswerInv
  <2>5. OrderInv'
    BY <2>1 DEF KnowsInv, OrderInv, TcpReadError
  <2>6. QED BY <2>1, <2>2, <2>3, <2>4, <2>5 DEF KnowsInv, IdBeforeSnapshots
\* The invariant is inductive.
<1>8. KnowsInv /\ [Next]_vars => KnowsInv'
  <2> SUFFICES ASSUME KnowsInv, [Next]_vars PROVE KnowsInv'
    OBVIOUS
  <2> nextConn \in 1..(MaxConns + 1) /\ MaxConns \in Nat
    BY SessionAssumption DEF KnowsInv, TypeOK
  <2>0. ASSUME accepting' \in BOOLEAN, phase' = phase \/ (phase = "poll" /\ phase' = "tick"),
               UNCHANGED << nextConn, connections, reading, udpEndpoints, endpointToConn, clients,
                            nextPlayer, actors, replaced, outgoing, told, early >>
        PROVE  KnowsInv'
    <3>1. TypeOK'
      BY <2>0 DEF KnowsInv, TypeOK
    <3>2. RouteInv' /\ IdBeforeSnapshots'
      BY <2>0 DEF KnowsInv, RouteInv, Known, IdBeforeSnapshots
    <3>3. AnswerInv'
      BY <2>0 DEF KnowsInv, AnswerInv, LastWord, IsAccept
    <3>4. OrderInv'
      BY <2>0 DEF KnowsInv, OrderInv
    <3>5. QED BY <3>1, <3>2, <3>3, <3>4 DEF KnowsInv
  <2>1. CASE OnAccepted
    <3>1. /\ nextConn \in Conn /\ nextConn' = nextConn + 1 /\ nextConn' \in 1..(MaxConns + 1)
          /\ connections' = connections \cup {nextConn} /\ reading' = reading \cup {nextConn}
          /\ UNCHANGED << phase, accepting, udpEndpoints, endpointToConn, clients, nextPlayer,
                          actors, replaced, outgoing, told, early >>
      BY <2>1 DEF OnAccepted, Conn, routeVars, gameVars, sentVars
    <3>2. TypeOK'
      BY <3>1 DEF KnowsInv, TypeOK
    <3>3. RouteInv'
      <4>1. Known' = Known \cup {nextConn} /\ nextConn \notin Known
        BY <3>1 DEF Known
      <4>2. QED BY <3>1, <4>1 DEF KnowsInv, RouteInv
    <3>4. AnswerInv'
      <4>1. nextConn \notin DOMAIN clients /\ \A i \in DOMAIN outgoing : outgoing[i].conn # nextConn
        BY DEF KnowsInv, RouteInv, Known
      <4>2. QED BY <3>1, <4>1 DEF KnowsInv, AnswerInv, LastWord, IsAccept
    <3>5. QED BY <3>1, <3>2, <3>3, <3>4 DEF KnowsInv, OrderInv, IdBeforeSnapshots
  <2>2. CASE OnAcceptError
    BY <2>0, <2>2 DEF OnAcceptError, KnowsInv, TypeOK, routeVars, gameVars, sentVars
  <2>3. ASSUME NEW c \in Conn, TcpReadError(c) PROVE KnowsInv'
    BY <2>3, <1>7
  <2>4. ASSUME NEW c \in Conn, TcpMessage(c) PROVE KnowsInv'
    <3>1. c \in Known
      BY <2>4 DEF TcpMessage, KnowsInv, TypeOK, RouteInv
    <3>2. QED BY <2>4, <3>1, <1>2, <1>6 DEF TcpMessage
  <2>5. ASSUME NEW e \in Endpoint, UdpBind(e) PROVE KnowsInv'
    <3>1. PICK c \in DOMAIN clients : /\ udpEndpoints' = With(udpEndpoints, c, e)
                                      /\ endpointToConn' = With(endpointToConn, e, c)
      BY <2>5 DEF UdpBind
    <3>2. UNCHANGED << phase, accepting, nextConn, connections, reading, clients, nextPlayer,
                       actors, replaced, outgoing, told, early >>
      BY <2>5 DEF UdpBind, netVars, gameVars, sentVars
    <3>3. c \in Conn /\ c \in Known
      BY DEF KnowsInv, TypeOK, PartialFn, RouteInv
    <3>4. /\ udpEndpoints' \in PartialFn(Conn, Endpoint)
          /\ endpointToConn' \in PartialFn(Endpoint, Conn)
      BY <3>1, <3>3, <1>1 DEF KnowsInv, TypeOK
    <3>5. TypeOK'
      BY <3>2, <3>4 DEF KnowsInv, TypeOK
    <3>6. RouteInv'
      BY <3>1, <3>2, <3>3 DEF KnowsInv, RouteInv, Known, With
    <3>7. QED
      BY <3>2, <3>5, <3>6 DEF KnowsInv, AnswerInv, LastWord, IsAccept, OrderInv, IdBeforeSnapshots
  <2>6. ASSUME NEW e \in Endpoint, UdpMessage(e) PROVE KnowsInv'
    <3>1. endpointToConn[e] \in Known /\ endpointToConn[e] \in Conn
      <4>1. endpointToConn[e] \in Known
        BY <2>6 DEF UdpMessage, KnowsInv, RouteInv
      <4>2. QED BY <4>1 DEF Known, Conn
    <3>2. QED BY <2>6, <3>1, <1>2, <1>6 DEF UdpMessage
  <2>7. CASE PollReturns
    BY <2>0, <2>7 DEF PollReturns, KnowsInv, TypeOK, netVars, routeVars, gameVars, sentVars
  <2>8. CASE Tick
    BY <2>8, <1>3
  <2>9. CASE Flush
    BY <2>9, <1>4
  <2>10. CASE UNCHANGED vars
    BY <2>0, <2>10 DEF vars, KnowsInv, TypeOK, netVars, routeVars, gameVars, sentVars
  <2>11. QED BY <2>1, <2>2, <2>3, <2>4, <2>5, <2>6, <2>7, <2>8, <2>9, <2>10 DEF Next
<1>9. KnowsInv => TypeOK
  BY DEF KnowsInv
<1>10. QED BY <1>5, <1>8, <1>9, PTL DEF Spec

\* A connected client knows, or is about to be told, the id it is known by.
THEOREM ClientsKnowTheirId == Spec => []KnowsItsId
<1>1. KnowsInv => KnowsItsId
  <2> SUFFICES ASSUME KnowsInv, NEW c \in connections \cap DOMAIN clients
               PROVE  ToldAfter(c, Len(outgoing)) = clients[c]
    BY DEF KnowsItsId
  <2>1. Len(outgoing) \in 0..Len(outgoing) /\ \A i \in DOMAIN outgoing : i <= Len(outgoing)
    BY DEF KnowsInv, TypeOK
  <2>2. QED BY <2>1, ToldInTime DEF KnowsInv
<1>2. QED BY <1>1, KnowsInvariant, PTL

\* No client gets a snapshot before it has been told which player it is.
THEOREM IdComesFirst == Spec => []IdBeforeSnapshots
<1>1. KnowsInv => IdBeforeSnapshots
  BY DEF KnowsInv
<1>2. QED BY <1>1, KnowsInvariant, PTL
=============================================================================
