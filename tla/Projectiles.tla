---------------------------- MODULE Projectiles ----------------------------
(***************************************************************************)
(* The end of GameServer::Tick: the shots the heroes queued are spawned or *)
(* resolved, ProjectileSystem::Tick moves what is in flight, the events    *)
(* are broadcast, and the snapshot timer sends what is due.                *)
(*                                                                         *)
(* Distances are measured along a shot's own ray, in whole units, and so   *)
(* is time.  The static world is the stretch of one wall on that ray,      *)
(* settled when the shot is fired; actors move, so the stretch an actor    *)
(* covers is any of Actors at every query.                                 *)
(***************************************************************************)
EXTENDS Integers, Sequences, FiniteSets

CONSTANTS
  Kinds,        \* ProjectileKind: "Hitscan", "Linear"
  Speeds,       \* SpawnDesc::speed
  MaxDistance,  \* SpawnDesc::maxDistance
  LifeTime,     \* SpawnDesc::lifeTime
  Walls,        \* stretches << near, far >> the static world can have on a ray,
                \* around the muzzle or ahead of it
  Actors,       \* stretches an actor can cover on a ray
  Interval,     \* SNAPSHOT_INTERVAL_SEC
  TickWidth,    \* serverTick counts modulo this (2^32 in the code)
  Dts,          \* tick lengths the main loop measures
  MaxSpawns,    \* bound: heroes that fire in one tick
  MaxIds        \* bound: shots fired

ASSUME ProjectileAssumption ==
  /\ Kinds \subseteq {"Hitscan", "Linear"} /\ Speeds \subseteq Nat
  /\ MaxDistance \in Nat \ {0} /\ LifeTime \in Nat \ {0}
  /\ Walls \subseteq Int \X Nat /\ Actors \subseteq Int \X Int
  /\ \A w \in Walls \cup Actors : w[1] <= w[2]
  /\ Interval \in Nat \ {0} /\ TickWidth \in Nat \ {0}
  /\ Dts # {} /\ Dts \subseteq Nat \ {0}
  /\ MaxSpawns \in Nat /\ MaxIds \in Nat

Id     == 1..MaxIds
NoWall == << -1, -1 >>     \* nothing on the ray
Miss   == -1

VARIABLES
  phase,       \* "idle", or where in Tick: "spawn", "fly", "collect", "snapshot"
  dt,          \* the tick's length
  pending,     \* pendingSpawns: the descriptors still to be handled
  wallOf,      \* shot -> the static world on its ray
  flying,      \* _projectiles, in the vector's order
  cursor,      \* the index i of ProjectileSystem::Tick
  nextId,      \* _nextId
  events,      \* _events
  timer,       \* _snapshotTimer
  serverTick,  \* _serverTick
  announced,   \* ghost: shots whose ProjectileSpawn was broadcast
  reported,    \* ghost: shots whose hit was broadcast, and how often
  ends,        \* ghost: shot -> how often it hit, and how often it expired
  moved,       \* ghost: shots advanced in this tick
  elapsed      \* ghost: time of all ticks, modulo what serverTick can count

vars == << phase, dt, pending, wallOf, flying, cursor, nextId, events, timer, serverTick,
           announced, reported, ends, moved, elapsed >>

clock  == << timer, serverTick, elapsed >>
ghosts == << announced, reported, ends, moved >>

Desc == [kind : Kinds, speed : Speeds]

-----------------------------------------------------------------------------
(* Rays: how far from x, looking d ahead, a stretch is met.                 *)

\* Bug: a box met exactly at the end of the ray is left to the next one,
\* which starts on its face.
RayBox_Open(w, x, d) ==
  IF w # NoWall /\ w[1] < x + d /\ x <= w[2]
  THEN IF w[1] > x THEN w[1] - x ELSE 0
  ELSE Miss

\* RaycastObb: from inside a box the hit is at once.
RayBox(w, x, d) ==
  IF w # NoWall /\ w[1] <= x + d /\ x <= w[2]
  THEN IF w[1] > x THEN w[1] - x ELSE 0
  ELSE Miss

\* RaycastCapsule: from inside an end sphere the hit is where the ray leaves
\* it.  (From inside between the two it may be nearer, or none: what another
\* stretch would give.)
RayCapsule(a, x, d) ==
  LET t == IF a[1] >= x THEN a[1] - x ELSE a[2] - x
  IN IF a # NoWall /\ t >= 0 /\ t <= d THEN t ELSE Miss

\* The nearer of the two hits; the world's, if they are equally far.
Best(world, actor) ==
  IF actor # Miss /\ (world = Miss \/ actor < world)
  THEN [type |-> "HitActor", t |-> actor]
  ELSE [type |-> "HitWorld", t |-> world]

NothingHit(hit) == hit.t = Miss

Hit(id, hit, x) == [type |-> hit.type, id |-> id, at |-> x + hit.t]

Ended(id, how) == [ends EXCEPT ![id][how] = @ + 1]

-----------------------------------------------------------------------------
Init ==
  /\ phase = "idle" /\ dt = 0 /\ pending = << >>
  /\ wallOf = [id \in Id |-> NoWall] /\ flying = << >> /\ cursor = 1
  /\ nextId = 1 /\ events = << >> /\ timer = 0 /\ serverTick = 0
  /\ announced = {} /\ reported = [id \in Id |-> 0]
  /\ ends = [id \in Id |-> [hit |-> 0, expired |-> 0]] /\ moved = {} /\ elapsed = 0

\* The heroes have been ticked; what they fired is in pendingSpawns.
BeginTick ==
  /\ phase = "idle"
  /\ \E d \in Dts, n \in 0..MaxSpawns :
       /\ nextId + n <= MaxIds + 1
       /\ \E spawns \in [1..n -> Desc] : pending' = spawns
       /\ dt' = d
       /\ elapsed' = (elapsed + d) % (Interval * TickWidth)
  /\ phase' = "spawn" /\ moved' = {}
  /\ UNCHANGED << wallOf, flying, cursor, nextId, events, timer, serverTick,
                  announced, reported, ends >>

\* ProjectileSystem::FireHitscan: the whole range in one query.
FireHitscan(desc) ==
  /\ desc.kind = "Hitscan"
  /\ \E a \in Actors \cup {NoWall} :
       LET hit == Best(RayBox(wallOf'[nextId], 0, MaxDistance),
                       RayCapsule(a, 0, MaxDistance))
       IN IF NothingHit(hit) THEN UNCHANGED << events, ends >>
          ELSE /\ events' = Append(events, Hit(nextId, hit, 0))
               /\ ends' = Ended(nextId, "hit")
  /\ UNCHANGED flying

\* ProjectileSystem::Spawn
Spawn(desc) ==
  /\ desc.kind = "Linear"
  /\ flying' = Append(flying, [id |-> nextId, x |-> 0, speed |-> desc.speed,
                               life |-> LifeTime, distance |-> MaxDistance])
  /\ UNCHANGED << events, ends >>

\* One entry of pendingSpawns; its ProjectileSpawn is broadcast at once.
HandleSpawn ==
  /\ phase = "spawn" /\ pending # << >>
  /\ \E w \in Walls \cup {NoWall} : wallOf' = [wallOf EXCEPT ![nextId] = w]
  /\ FireHitscan(Head(pending)) \/ Spawn(Head(pending))
  /\ nextId' = nextId + 1
  /\ announced' = announced \cup {nextId}
  /\ pending' = Tail(pending)
  /\ UNCHANGED << phase, dt, cursor, clock, reported, moved >>

SpawnsDone ==
  /\ phase = "spawn" /\ pending = << >>
  /\ phase' = "fly" /\ cursor' = 1
  /\ UNCHANGED << dt, pending, wallOf, flying, nextId, events, clock, ghosts >>

-----------------------------------------------------------------------------
(* ProjectileSystem::Tick                                                   *)

\* Bug: the last step goes on past the range.
StepLength_Full(p) == p.speed * dt
StepLength(p) ==
  IF p.speed * dt < p.distance THEN p.speed * dt ELSE p.distance

\* Bug: a hit in the last moment of a shot's life counts as both.
Expires_Always(p, hit) == p.life <= 0 \/ p.distance <= 0
Expires(p, hit) == NothingHit(hit) /\ (p.life <= 0 \/ p.distance <= 0)

\* Bug: the index moves on although the last entry has filled this position.
CursorAfter_Always(removed) == cursor + 1
CursorAfter(removed) == IF removed THEN cursor ELSE cursor + 1

\* Entry i gives way to the last one.
RemoveAt(s, i) == [k \in 1..(Len(s) - 1) |-> IF k = i THEN s[Len(s)] ELSE s[k]]

\* What the queries of one step find; a projectile that stands still asks none.
Struck(p, a) ==
  IF p.speed * dt > 0
  THEN Best(RayBox(wallOf[p.id], p.x, StepLength(p)), RayCapsule(a, p.x, StepLength(p)))
  ELSE Best(Miss, Miss)

Advanced(p, hit) ==
  LET d == IF NothingHit(hit) THEN StepLength(p) ELSE 0
  IN [p EXCEPT !.x = @ + d, !.distance = @ - d, !.life = @ - dt]

FlyNext ==
  /\ phase = "fly" /\ cursor <= Len(flying)
  /\ \E a \in Actors \cup {NoWall} :
       LET p       == flying[cursor]
           hit     == Struck(p, a)
           q       == Advanced(p, hit)
           hits    == IF NothingHit(hit) THEN << >> ELSE << Hit(p.id, hit, p.x) >>
           expires == IF Expires(q, hit)
                      THEN << [type |-> "Expired", id |-> p.id, at |-> Miss] >> ELSE << >>
           removed == hits \o expires # << >>
       IN /\ events' = events \o hits \o expires
          /\ ends' = [ends EXCEPT ![p.id] = [hit |-> @.hit + Len(hits),
                                             expired |-> @.expired + Len(expires)]]
          /\ flying' = IF removed THEN RemoveAt(flying, cursor)
                                  ELSE [flying EXCEPT ![cursor] = q]
          /\ cursor' = CursorAfter(removed)
          /\ moved' = moved \cup {p.id}
  /\ UNCHANGED << phase, dt, pending, wallOf, nextId, clock, announced, reported >>

FlightDone ==
  /\ phase = "fly" /\ cursor > Len(flying)
  /\ phase' = "collect"
  /\ UNCHANGED << dt, pending, wallOf, flying, cursor, nextId, events, clock, ghosts >>

-----------------------------------------------------------------------------
(* Events and snapshots go out.                                             *)

\* An expiry is not broadcast.
Told(ev) == ev.type \in {"HitActor", "HitWorld"}
HitsOf(id) == {k \in DOMAIN events : Told(events[k]) /\ events[k].id = id}

\* CollectEvents empties _events; each hit is broadcast.
Collect ==
  /\ phase = "collect"
  /\ reported' = [id \in Id |-> reported[id] + Cardinality(HitsOf(id))]
  /\ events' = << >>
  /\ timer' = timer + dt
  /\ phase' = "snapshot"
  /\ UNCHANGED << dt, pending, wallOf, flying, cursor, nextId, serverTick, announced, ends,
                  moved, elapsed >>

\* Bug: a full interval is not yet due.
Due_Late == timer > Interval
Due == timer >= Interval

\* A snapshot of the present state; after a long tick several of the same.
SendSnapshot ==
  /\ phase = "snapshot" /\ Due
  /\ timer' = timer - Interval
  /\ serverTick' = (serverTick + 1) % TickWidth
  /\ UNCHANGED << phase, dt, pending, wallOf, flying, cursor, nextId, events, ghosts, elapsed >>

EndTick ==
  /\ phase = "snapshot" /\ ~Due
  /\ phase' = "idle" /\ dt' = 0 /\ cursor' = 1 /\ moved' = {}
  /\ UNCHANGED << pending, wallOf, flying, nextId, events, clock, announced, reported,
                  ends >>

Next ==
  \/ BeginTick
  \/ HandleSpawn \/ SpawnsDone
  \/ FlyNext \/ FlightDone
  \/ Collect \/ SendSnapshot \/ EndTick

Spec == Init /\ [][Next]_vars

-----------------------------------------------------------------------------
(* Properties.                                                              *)

Projectile == [id : Id, x : 0..MaxDistance, speed : Speeds, life : Int,
               distance : 0..MaxDistance]

Event == [type : {"HitWorld", "HitActor", "Expired"}, id : Id, at : Miss..MaxDistance]

\* Types; neither a position nor a hit lies beyond the range.
TypeOK ==
  /\ phase \in {"idle", "spawn", "fly", "collect", "snapshot"}
  /\ dt \in Dts \cup {0}
  /\ pending \in Seq(Desc) /\ wallOf \in [Id -> Walls \cup {NoWall}]
  /\ flying \in Seq(Projectile)
  /\ cursor \in Nat \ {0} /\ nextId \in 1..(MaxIds + 1)
  /\ events \in Seq(Event)
  /\ timer \in Nat /\ serverTick \in 0..(TickWidth - 1)
  /\ announced \subseteq Id /\ moved \subseteq Id
  /\ reported \in [Id -> Nat] /\ ends \in [Id -> [hit : Nat, expired : Nat]]
  /\ elapsed \in 0..(Interval * TickWidth - 1)

\* Every projectile in flight is advanced exactly once per tick, although a
\* removal moves the last one into the place the walk stands on: none is
\* advanced twice, and when the walk is over none has been passed over.
InFlight == {flying[k].id : k \in DOMAIN flying}
MovedOnce ==
  /\ phase = "fly" => \A k \in cursor..Len(flying) : flying[k].id \notin moved
  /\ phase = "collect" => InFlight \subseteq moved

\* A shot ends once, and is told once: it is in flight under an id of its own,
\* or it has hit, or it has expired, though a step may hit, use up the range
\* and use up the life all at the same time, and a hitscan takes its id from
\* the same counter.  Its hit is broadcast in the tick in which it happens,
\* after its ProjectileSpawn.
EndsOnce ==
  /\ \A j, k \in DOMAIN flying : flying[j].id = flying[k].id => j = k
  /\ \A id \in Id : ends[id].hit + ends[id].expired + (IF id \in InFlight THEN 1 ELSE 0) <= 1
  /\ announced = 1..(nextId - 1)
  /\ phase \in {"snapshot", "idle"} => \A id \in Id : reported[id] = ends[id].hit
  /\ \A id \in Id : reported[id] > 0 => id \in announced

\* No shot is passed over, moved twice, ended twice or told twice.
ShotsCounted == MovedOnce /\ EndsOnce

\* Nothing passes a wall, whatever the steps add up to: once it has moved, a
\* shot is never found at or beyond the face in flight, a step that ends
\* exactly on the face hits it, and no actor behind the wall is hit through it.
Before(id, x) == wallOf[id] # NoWall => x < wallOf[id][1]
WallStops ==
  /\ \A k \in DOMAIN flying : flying[k].x > 0 => Before(flying[k].id, flying[k].x)
  /\ \A k \in DOMAIN events :
       events[k].type = "HitActor" /\ events[k].at > 0 => Before(events[k].id, events[k].at)

\* Snapshots keep pace with time: after each tick as many have been sent as
\* whole intervals have passed, however the ticks divide them.
SnapshotPace ==
  phase = "idle" =>
    /\ timer < Interval
    /\ (serverTick * Interval + timer) % (Interval * TickWidth) = elapsed
=============================================================================
