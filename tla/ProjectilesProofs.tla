------------------------- MODULE ProjectilesProofs --------------------------
(***************************************************************************)
(* For any world, any speeds and any lengths of a tick: nothing passes a   *)
(* wall, no shot is passed over, ended twice or told twice, and snapshots  *)
(* keep pace with time.                                                    *)
(***************************************************************************)
EXTENDS Projectiles, FiniteSetTheorems, SequenceTheorems, TLAPS

(* The ids that have been handed out.                                       *)
Given == 1..(nextId - 1)

(* Each projectile has an id of its own and is on its way between its       *)
(* muzzle and its range.  During the walk, those before the index are the   *)
(* ones that have been moved, also after the last has filled a gap.         *)
FlightInv ==
  /\ \A k \in DOMAIN flying : /\ flying[k].id \in Given
                              /\ flying[k].x + flying[k].distance = MaxDistance
  /\ \A j, k \in DOMAIN flying : flying[j].id = flying[k].id => j = k
  /\ phase = "spawn" => moved = {}
  /\ phase = "fly" => \A k \in DOMAIN flying : flying[k].id \in moved <=> k < cursor
  /\ phase = "collect" => \A k \in DOMAIN flying : flying[k].id \in moved

(* A shot that is handled is given the next id, and there is one.           *)
SpawnInv ==
  /\ phase # "spawn" => pending = << >>
  /\ nextId + Len(pending) <= MaxIds + 1
  /\ \A k \in DOMAIN events : events[k].id \in Given

ShotInv == TypeOK /\ FlightInv /\ SpawnInv /\ WallStops

(* Of flying, having hit and having expired a shot does at most one, once,  *)
(* and nothing before its id is handed out.  A hit has been told, or its    *)
(* event waits to be collected.                                             *)
CountInv ==
  /\ \A id \in Id : ends[id].hit + ends[id].expired + (IF id \in InFlight THEN 1 ELSE 0) <= 1
  /\ \A id \in Id \ Given : ends[id].hit = 0 /\ ends[id].expired = 0
  /\ \A id \in Id : reported[id] + Cardinality(HitsOf(id)) = ends[id].hit
  /\ phase \in {"idle", "snapshot"} => events = << >>
  /\ announced = Given

(* The time that the timer has not been told of yet.                        *)
Unadded == IF phase \in {"spawn", "fly", "collect"} THEN dt ELSE 0

(* The snapshots sent, the timer and what it has not been told of make up   *)
(* all the time there was.                                                  *)
PaceInv ==
  /\ phase = "idle" => timer < Interval
  /\ (serverTick * Interval + timer + Unadded) % (Interval * TickWidth) = elapsed

-----------------------------------------------------------------------------
\* What a query finds lies within its length, and not behind the wall; and if it
\* finds nothing, the wall is further away.
LEMMA RayHits ==
  ASSUME NEW w \in Walls \cup {NoWall}, NEW a \in Actors \cup {NoWall},
         NEW x \in Nat, NEW d \in Nat, NEW hit,
         hit = Best(RayBox(w, x, d), RayCapsule(a, x, d))
  PROVE  /\ hit.type \in {"HitWorld", "HitActor"} /\ hit.t \in Miss..d
         /\ w # NoWall /\ (x = 0 \/ x < w[1]) =>
              /\ NothingHit(hit) => x + d < w[1]
              /\ hit.type = "HitActor" => x + hit.t < w[1]
<1>1. w[1] \in Int /\ w[2] \in Int /\ a[1] \in Int /\ a[2] \in Int /\ w[1] <= w[2]
  BY ProjectileAssumption DEF NoWall
<1>2. w # NoWall => w[2] >= 0
  BY ProjectileAssumption
<1>3. PICK world : world = RayBox(w, x, d)
  OBVIOUS
<1>4. PICK actor : actor = RayCapsule(a, x, d)
  OBVIOUS
<1>5. /\ world \in Miss..d
      /\ w # NoWall /\ (x = 0 \/ x < w[1]) =>
           /\ world = Miss => x + d < w[1]
           /\ world > 0 => x + world = w[1]
  BY <1>1, <1>2, <1>3 DEF RayBox, Miss
<1>6. actor \in Miss..d
  BY <1>1, <1>4 DEF RayCapsule, Miss
<1>7. hit = IF actor # Miss /\ (world = Miss \/ actor < world)
            THEN [type |-> "HitActor", t |-> actor] ELSE [type |-> "HitWorld", t |-> world]
  BY <1>3, <1>4 DEF Best
<1>8. CASE actor # Miss /\ (world = Miss \/ actor < world)
  <2>1. hit.type = "HitActor" /\ hit.t = actor
    BY <1>7, <1>8
  <2>2. QED BY <2>1, <1>5, <1>6, <1>8, <1>1 DEF Miss, NothingHit
<1>9. CASE ~(actor # Miss /\ (world = Miss \/ actor < world))
  <2>1. hit.type = "HitWorld" /\ hit.t = world
    BY <1>7, <1>9
  <2>2. QED BY <2>1, <1>5, <1>6, <1>9, <1>1 DEF Miss, NothingHit
<1>10. QED BY <1>8, <1>9

\* One projectile's turn in the walk: it hits, it expires, or it flies on; in
\* the first two the last takes its place and is next.
LEMMA FlyNextCases ==
  ASSUME ShotInv, FlyNext
  PROVE  \E hit : \E p \in Projectile :
    /\ p = flying[cursor] /\ cursor \in DOMAIN flying /\ phase = "fly"
    /\ hit.type \in {"HitWorld", "HitActor"} /\ hit.t \in Miss..StepLength(p)
    /\ StepLength(p) \in 0..p.distance
    /\ hit.type = "HitActor" => Before(p.id, p.x + hit.t)
    /\ NothingHit(hit) /\ p.x + StepLength(p) > 0 => Before(p.id, p.x + StepLength(p))
    /\ moved' = moved \cup {p.id}
    /\ \/ /\ ~NothingHit(hit)
          /\ events' = Append(events, Hit(p.id, hit, p.x))
          /\ ends' = [ends EXCEPT ![p.id] = [hit |-> @.hit + 1, expired |-> @.expired]]
          /\ flying' = RemoveAt(flying, cursor) /\ cursor' = cursor
       \/ /\ NothingHit(hit)
          /\ events' = Append(events, [type |-> "Expired", id |-> p.id, at |-> Miss])
          /\ ends' = [ends EXCEPT ![p.id] = [hit |-> @.hit, expired |-> @.expired + 1]]
          /\ flying' = RemoveAt(flying, cursor) /\ cursor' = cursor
       \/ /\ NothingHit(hit)
          /\ events' = events /\ ends' = ends
          /\ flying' = [flying EXCEPT ![cursor] = Advanced(p, hit)] /\ cursor' = cursor + 1
<1>1. PICK a \in Actors \cup {NoWall} :
        LET p       == flying[cursor]
            hit     == Struck(p, a)
            q       == Advanced(p, hit)
            hits    == IF NothingHit(hit) THEN << >> ELSE << Hit(p.id, hit, p.x) >>
            expires == IF Expires(q, hit)
                       THEN << [type |-> "Expired", id |-> p.id, at |-> Miss] >> ELSE << >>
            removed == hits \o expires # << >>
        IN /\ events' = events \o hits \o expires
           /\ ends' = [ends EXCEPT ![p.id] = [hit |-> @.hit + Len(hits),
                                              expired |-> @.expired + Len(expires)]]
           /\ flying' = IF removed THEN RemoveAt(flying, cursor)
                                   ELSE [flying EXCEPT ![cursor] = q]
           /\ cursor' = CursorAfter(removed)
           /\ moved' = moved \cup {p.id}
  BY DEF FlyNext
<1>2. PICK p : p = flying[cursor]
  OBVIOUS
<1>3. PICK hit : hit = Struck(p, a)
  OBVIOUS
<1>4. /\ phase = "fly" /\ cursor \in DOMAIN flying /\ p \in Projectile
      /\ wallOf[p.id] \in Walls \cup {NoWall}
  <2>1. phase = "fly" /\ cursor <= Len(flying)
    BY DEF FlyNext
  <2>2. /\ flying \in Seq(Projectile) /\ cursor \in Nat \ {0}
        /\ wallOf \in [Id -> Walls \cup {NoWall}]
    BY DEF ShotInv, TypeOK
  <2>3. cursor \in DOMAIN flying /\ p \in Projectile
    BY <1>2, <2>1, <2>2
  <2>4. QED BY <2>1, <2>2, <2>3 DEF Projectile
<1>5. p.x \in Nat /\ p.distance \in Nat /\ p.speed \in Nat /\ dt \in Nat
  <2>1. p.x \in 0..MaxDistance /\ p.distance \in 0..MaxDistance /\ p.speed \in Speeds
    BY <1>4 DEF Projectile
  <2>2. dt \in Dts \cup {0}
    BY DEF ShotInv, TypeOK
  <2>3. MaxDistance \in Nat /\ Speeds \subseteq Nat /\ Dts \subseteq Nat
    BY ProjectileAssumption
  <2>4. p.x \in Nat /\ p.distance \in Nat
    BY <2>1, <2>3
  <2>5. p.speed \in Nat
    BY <2>1, <2>3
  <2>6. dt \in Nat
    BY <2>2, <2>3
  <2>7. QED BY <2>4, <2>5, <2>6
<1>6. PICK s \in Nat : s = p.speed * dt
  <2>1. \A m, n \in Nat : m * n \in Nat
    OBVIOUS
  <2>2. QED BY <2>1, <1>5
<1>7. StepLength(p) \in 0..p.distance /\ StepLength(p) \in Nat /\ (s = 0 => StepLength(p) = 0)
  BY <1>5, <1>6 DEF StepLength
<1>8. /\ hit.type \in {"HitWorld", "HitActor"} /\ hit.t \in Miss..StepLength(p)
      /\ hit.type = "HitActor" => Before(p.id, p.x + hit.t)
      /\ NothingHit(hit) /\ p.x + StepLength(p) > 0 => Before(p.id, p.x + StepLength(p))
  <2>1. p.x > 0 => Before(p.id, p.x)
    BY <1>2, <1>4 DEF ShotInv, WallStops
  <2>2. CASE s > 0
    <3>1. hit = Best(RayBox(wallOf[p.id], p.x, StepLength(p)), RayCapsule(a, p.x, StepLength(p)))
      BY <2>2, <1>3, <1>6 DEF Struck
    <3>2. p.x = 0 \/ p.x > 0
      BY <1>5
    <3>3. QED BY <3>1, <3>2, <2>1, <1>4, <1>5, <1>7, RayHits DEF Before
  <2>3. CASE s = 0
    <3>1. hit = [type |-> "HitWorld", t |-> Miss]
      BY <2>3, <1>3, <1>6 DEF Struck, Best
    <3>2. QED BY <3>1, <2>1, <2>3, <1>5, <1>7 DEF Miss
  <2>4. QED BY <2>2, <2>3
<1>9. events \in Seq(Event) /\ p.id \in Id /\ ends \in [Id -> [hit : Nat, expired : Nat]]
  BY <1>4 DEF Projectile, ShotInv, TypeOK
<1>10. CASE ~NothingHit(hit)
  <2>1. ~Expires(Advanced(p, hit), hit)
    BY <1>10 DEF Expires
  <2>2. << Hit(p.id, hit, p.x) >> \o << >> # << >> /\ << Hit(p.id, hit, p.x) >> \o << >> = << Hit(p.id, hit, p.x) >>
    OBVIOUS
  <2>3. events' = Append(events, Hit(p.id, hit, p.x)) /\ moved' = moved \cup {p.id}
    <3>1. events' = events \o << Hit(p.id, hit, p.x) >> \o << >>
      BY <1>1, <1>2, <1>3, <1>10, <2>1
    <3>2. moved' = moved \cup {p.id}
      BY <1>1, <1>2
    <3>3. \A e : events \o << e >> \o << >> = Append(events, e)
      BY <1>9
    <3>4. QED BY <3>1, <3>2, <3>3
  <2>4. flying' = RemoveAt(flying, cursor) /\ cursor' = cursor
    BY <1>1, <1>2, <1>3, <1>10, <2>1, <2>2 DEF CursorAfter
  <2>5. ends' = [ends EXCEPT ![p.id] = [hit |-> @.hit + 1, expired |-> @.expired]]
    <3>1. ends' = [ends EXCEPT ![p.id] = [hit |-> @.hit + Len(<< Hit(p.id, hit, p.x) >>),
                                          expired |-> @.expired + Len(<< >>)]]
      BY <1>1, <1>2, <1>3, <1>10, <2>1, Zenon
    <3>2. Len(<< Hit(p.id, hit, p.x) >>) = 1 /\ ends[p.id].expired + Len(<< >>) = ends[p.id].expired
      BY <1>9
    <3>3. QED BY <3>1, <3>2, Zenon
  <2>6. QED BY <1>2, <1>4, <1>7, <1>8, <1>10, <2>3, <2>4, <2>5
<1>11. CASE NothingHit(hit) /\ Expires(Advanced(p, hit), hit)
  <2>1. PICK e : e = [type |-> "Expired", id |-> p.id, at |-> Miss]
    OBVIOUS
  <2>2. << >> \o << e >> # << >> /\ << >> \o << e >> = << e >>
    OBVIOUS
  <2>3. events' = Append(events, e) /\ moved' = moved \cup {p.id}
    <3>1. events' = events \o << >> \o << e >>
      BY <1>1, <1>2, <1>3, <1>11, <2>1
    <3>2. moved' = moved \cup {p.id}
      BY <1>1, <1>2
    <3>3. events \o << >> \o << e >> = Append(events, e)
      BY <1>9
    <3>4. QED BY <3>1, <3>2, <3>3
  <2>4. flying' = RemoveAt(flying, cursor) /\ cursor' = cursor
    BY <1>1, <1>2, <1>3, <1>11, <2>1, <2>2 DEF CursorAfter
  <2>5. ends' = [ends EXCEPT ![p.id] = [hit |-> @.hit, expired |-> @.expired + 1]]
    <3>1. ends' = [ends EXCEPT ![p.id] = [hit |-> @.hit + Len(<< >>),
                                          expired |-> @.expired + Len(<< e >>)]]
      BY <1>1, <1>2, <1>3, <1>11, <2>1, Zenon
    <3>2. Len(<< e >>) = 1 /\ ends[p.id].hit + Len(<< >>) = ends[p.id].hit
      BY <1>9
    <3>3. QED BY <3>1, <3>2, Zenon
  <2>6. QED BY <1>2, <1>4, <1>7, <1>8, <1>11, <2>1, <2>3, <2>4, <2>5
<1>12. CASE NothingHit(hit) /\ ~Expires(Advanced(p, hit), hit)
  <2>1. << >> \o << >> = << >>
    OBVIOUS
  <2>2. events' = events /\ moved' = moved \cup {p.id}
    BY <1>1, <1>2, <1>3, <1>9, <1>12
  <2>3. flying' = [flying EXCEPT ![cursor] = Advanced(p, hit)] /\ cursor' = cursor + 1
    BY <1>1, <1>2, <1>3, <1>12, <2>1 DEF CursorAfter
  <2>4. ends' = ends
    BY <1>1, <1>2, <1>3, <1>9, <1>12
  <2>5. QED BY <1>2, <1>4, <1>7, <1>8, <1>12, <2>2, <2>3, <2>4
<1>13. QED BY <1>10, <1>11, <1>12

\* Types hold, and neither a position nor a hit lies beyond the range: every step
\* keeps the shots' types, their places in the walk and the walls whole.
THEOREM ShotInvariant == Spec => [](TypeOK /\ ShotInv)
<1>1. Init => ShotInv
  BY ProjectileAssumption DEF Init, ShotInv, TypeOK, FlightInv, SpawnInv, WallStops, NoWall, Id, Given
<1>2. ASSUME ShotInv, BeginTick PROVE ShotInv'
  <2> USE <1>2
  <2>1. PICK d \in Dts, n \in 0..MaxSpawns :
          /\ nextId + n <= MaxIds + 1 /\ dt' = d
          /\ \E spawns \in [1..n -> Desc] : pending' = spawns
          /\ elapsed' = (elapsed + d) % (Interval * TickWidth)
    BY DEF BeginTick
  <2>2. pending' \in Seq(Desc) /\ Len(pending') = n
    BY <2>1
  <2>3. elapsed' \in 0..(Interval * TickWidth - 1)
    <3>1. PICK m \in Nat \ {0} : m = Interval * TickWidth
      <4>1. \A j, k \in Nat \ {0} : j * k \in Nat \ {0}
        OBVIOUS
      <4>2. QED BY <4>1, ProjectileAssumption
    <3>2. elapsed + d \in Nat
      BY <3>1, ProjectileAssumption DEF ShotInv, TypeOK
    <3>3. QED BY <2>1, <3>1, <3>2
  <2>4. TypeOK'
    BY <2>1, <2>2, <2>3 DEF ShotInv, TypeOK, BeginTick
  <2>5. FlightInv' /\ WallStops'
    BY DEF ShotInv, FlightInv, WallStops, Before, BeginTick, Given
  <2>6. SpawnInv'
    BY <2>1, <2>2 DEF ShotInv, SpawnInv, BeginTick, Given
  <2>7. QED BY <2>4, <2>5, <2>6 DEF ShotInv
<1>3. ASSUME ShotInv, HandleSpawn PROVE ShotInv'
  <2> USE <1>3
  <2>1. PICK w \in Walls \cup {NoWall} : wallOf' = [wallOf EXCEPT ![nextId] = w]
    BY DEF HandleSpawn
  <2>2. /\ Head(pending) \in Desc /\ Tail(pending) \in Seq(Desc)
        /\ Len(Tail(pending)) = Len(pending) - 1 /\ Len(pending) > 0
    BY DEF HandleSpawn, ShotInv, TypeOK
  <2>3. nextId \in Id /\ nextId + 1 + Len(Tail(pending)) <= MaxIds + 1 /\ nextId + 1 \in 1..(MaxIds + 1)
    BY <2>2, ProjectileAssumption DEF ShotInv, SpawnInv, TypeOK, Id
  <2>4. /\ wallOf' \in [Id -> Walls \cup {NoWall}] /\ wallOf'[nextId] = w
        /\ \A id \in Given : wallOf'[id] = wallOf[id]
    BY <2>1, <2>3 DEF ShotInv, TypeOK, Given
  <2>5. /\ events' \in Seq(Event) /\ ends' \in [Id -> [hit : Nat, expired : Nat]]
        /\ \A k \in DOMAIN events' :
             \/ k \in DOMAIN events /\ events'[k] = events[k]
             \/ /\ events'[k].id = nextId
                /\ events'[k].type = "HitActor" /\ w # NoWall => events'[k].at < w[1]
    <3>1. CASE FireHitscan(Head(pending))
      <4>1. PICK a, hit :
              /\ a \in Actors \cup {NoWall}
              /\ hit = Best(RayBox(wallOf'[nextId], 0, MaxDistance), RayCapsule(a, 0, MaxDistance))
              /\ IF NothingHit(hit) THEN UNCHANGED << events, ends >>
                 ELSE /\ events' = Append(events, Hit(nextId, hit, 0))
                      /\ ends' = Ended(nextId, "hit")
        BY <3>1 DEF FireHitscan
      <4>2. /\ hit.type \in {"HitWorld", "HitActor"} /\ hit.t \in Miss..MaxDistance
            /\ w # NoWall /\ hit.type = "HitActor" => hit.t < w[1]
        <5>1. 0 \in Nat /\ MaxDistance \in Nat
          BY ProjectileAssumption
        <5>2. hit = Best(RayBox(w, 0, MaxDistance), RayCapsule(a, 0, MaxDistance))
          BY <4>1, <2>4
        <5>3. /\ hit.type \in {"HitWorld", "HitActor"} /\ hit.t \in Miss..MaxDistance
              /\ w # NoWall /\ hit.type = "HitActor" => 0 + hit.t < w[1]
          BY <4>1, <5>1, <5>2, RayHits
        <5>4. hit.t \in Int
          BY <5>1, <5>3 DEF Miss
        <5>5. QED BY <5>3, <5>4
      <4>3. CASE NothingHit(hit)
        BY <4>1, <4>3 DEF ShotInv, TypeOK
      <4>4. CASE ~NothingHit(hit)
        <5>1. PICK e : e = Hit(nextId, hit, 0)
          OBVIOUS
        <5>2. e \in Event /\ e.id = nextId /\ e.type = hit.type /\ e.at = hit.t
          BY <5>1, <4>2, <2>3, ProjectileAssumption DEF Event, Hit
        <5>3. events \in Seq(Event) /\ events' = Append(events, e)
          BY <4>1, <4>4, <5>1 DEF ShotInv, TypeOK
        <5>4. ends' \in [Id -> [hit : Nat, expired : Nat]]
          <6>1. ends \in [Id -> [hit : Nat, expired : Nat]]
            BY DEF ShotInv, TypeOK
          <6>2. \A r \in [hit : Nat, expired : Nat] :
                  [r EXCEPT !["hit"] = @ + 1] \in [hit : Nat, expired : Nat]
            OBVIOUS
          <6>3. ends' = Ended(nextId, "hit")
            BY <4>1, <4>4
          <6>4. PICK r \in [hit : Nat, expired : Nat] : r = ends[nextId]
            BY <6>1, <2>3
          <6>5. ends' = [ends EXCEPT ![nextId] = [r EXCEPT !["hit"] = @ + 1]]
            BY <6>3, <6>4, <6>1, <2>3 DEF Ended
          <6>6. QED BY <6>1, <6>2, <6>5, <2>3
        <5>5. e.type = "HitActor" /\ w # NoWall => e.at < w[1]
          BY <5>2, <4>2
        <5>6. QED BY <5>2, <5>3, <5>4, <5>5
      <4>5. QED BY <4>3, <4>4
    <3>2. CASE Spawn(Head(pending))
      BY <3>2 DEF Spawn, ShotInv, TypeOK
    <3>3. QED BY <3>1, <3>2 DEF HandleSpawn
  <2>6. /\ flying' \in Seq(Projectile)
        /\ \A k \in DOMAIN flying' :
             \/ k \in DOMAIN flying /\ flying'[k] = flying[k]
             \/ /\ k = Len(flying) + 1 /\ flying'[k].id = nextId
                /\ flying'[k].x = 0 /\ flying'[k].distance = MaxDistance
    <3>1. CASE FireHitscan(Head(pending))
      BY <3>1 DEF FireHitscan, ShotInv, TypeOK
    <3>2. CASE Spawn(Head(pending))
      <4>1. PICK p : p = [id |-> nextId, x |-> 0, speed |-> Head(pending).speed,
                          life |-> LifeTime, distance |-> MaxDistance]
        OBVIOUS
      <4>2. p \in Projectile
        BY <4>1, <2>2, <2>3, ProjectileAssumption DEF Projectile, Desc
      <4>3. flying \in Seq(Projectile) /\ flying' = Append(flying, p)
        BY <3>2, <4>1 DEF Spawn, ShotInv, TypeOK
      <4>4. QED BY <4>1, <4>2, <4>3
    <3>3. QED BY <3>1, <3>2 DEF HandleSpawn
  <2>7. TypeOK'
    BY <2>2, <2>3, <2>4, <2>5, <2>6 DEF ShotInv, TypeOK, HandleSpawn, clock
  <2>8. FlightInv'
    <3>1. phase = "spawn" /\ phase' = "spawn" /\ moved' = moved /\ nextId' = nextId + 1
      BY DEF HandleSpawn
    <3>2. nextId \notin Given /\ Given' = Given \cup {nextId}
      BY <3>1, <2>3 DEF Given, Id
    <3>3. FlightInv
      BY DEF ShotInv
    <3>4. \A k \in DOMAIN flying' : flying'[k].id \in Given' /\ flying'[k].x + flying'[k].distance = MaxDistance
      BY <2>6, <3>2, <3>3, ProjectileAssumption DEF FlightInv
    <3>5. \A j, k \in DOMAIN flying' : flying'[j].id = flying'[k].id => j = k
      BY <2>6, <3>2, <3>3 DEF FlightInv
    <3>6. QED BY <3>1, <3>3, <3>4, <3>5 DEF FlightInv
  <2>9. SpawnInv'
    <3>1. nextId' = nextId + 1 /\ pending' = Tail(pending) /\ phase' = "spawn"
      BY DEF HandleSpawn
    <3>2. Given \subseteq Given' /\ nextId \in Given'
      BY <3>1, <2>3 DEF Given, Id
    <3>3. \A k \in DOMAIN events : events[k].id \in Given
      BY DEF ShotInv, SpawnInv
    <3>4. \A k \in DOMAIN events' : events'[k].id \in Given'
      BY <2>5, <3>2, <3>3
    <3>5. nextId' + Len(pending') <= MaxIds + 1
      BY <2>3, <3>1
    <3>6. QED BY <3>1, <3>4, <3>5 DEF SpawnInv
  <2>10. WallStops'
    <3>1. \A k \in DOMAIN flying' : flying'[k].x > 0 => (Before(flying[k].id, flying[k].x))'
      BY <2>4, <2>6 DEF ShotInv, WallStops, Before, FlightInv
    <3>2. \A k \in DOMAIN events' :
            events'[k].type = "HitActor" /\ events'[k].at > 0 => (Before(events[k].id, events[k].at))'
      <4>1. SUFFICES ASSUME NEW k \in DOMAIN events', events'[k].type = "HitActor", events'[k].at > 0
                     PROVE  wallOf'[events'[k].id] # NoWall => events'[k].at < wallOf'[events'[k].id][1]
        BY DEF Before
      <4>2. CASE k \in DOMAIN events /\ events'[k] = events[k]
        <5>1. events[k].id \in Given /\ Before(events[k].id, events[k].at)
          BY <4>1, <4>2 DEF ShotInv, WallStops, SpawnInv
        <5>2. QED BY <5>1, <4>2, <2>4 DEF Before
      <4>3. CASE /\ events'[k].id = nextId
                 /\ events'[k].type = "HitActor" /\ w # NoWall => events'[k].at < w[1]
        BY <4>1, <4>3, <2>4
      <4>4. QED BY <4>2, <4>3, <2>5
    <3>3. QED BY <3>1, <3>2 DEF WallStops
  <2>11. QED BY <2>7, <2>8, <2>9, <2>10 DEF ShotInv
<1>4. ASSUME ShotInv, SpawnsDone PROVE ShotInv'
  <2>1. TypeOK'
    BY <1>4 DEF ShotInv, TypeOK, SpawnsDone, clock, ghosts
  <2>2. FlightInv'
    BY <1>4 DEF ShotInv, TypeOK, FlightInv, SpawnsDone, ghosts, Given
  <2>3. SpawnInv' /\ WallStops'
    BY <1>4 DEF ShotInv, SpawnInv, WallStops, Before, SpawnsDone, Given
  <2>4. QED BY <2>1, <2>2, <2>3 DEF ShotInv
<1>5. ASSUME ShotInv, FlyNext PROVE ShotInv'
  <2> USE <1>5
  <2>1. PICK p, hit :
    /\ p \in Projectile
    /\ p = flying[cursor] /\ cursor \in DOMAIN flying /\ phase = "fly"
    /\ hit.type \in {"HitWorld", "HitActor"} /\ hit.t \in Miss..StepLength(p)
    /\ StepLength(p) \in 0..p.distance
    /\ hit.type = "HitActor" => Before(p.id, p.x + hit.t)
    /\ NothingHit(hit) /\ p.x + StepLength(p) > 0 => Before(p.id, p.x + StepLength(p))
    /\ moved' = moved \cup {p.id}
    /\ \/ /\ ~NothingHit(hit)
          /\ events' = Append(events, Hit(p.id, hit, p.x))
          /\ ends' = [ends EXCEPT ![p.id] = [hit |-> @.hit + 1, expired |-> @.expired]]
          /\ flying' = RemoveAt(flying, cursor) /\ cursor' = cursor
       \/ /\ NothingHit(hit)
          /\ events' = Append(events, [type |-> "Expired", id |-> p.id, at |-> Miss])
          /\ ends' = [ends EXCEPT ![p.id] = [hit |-> @.hit, expired |-> @.expired + 1]]
          /\ flying' = RemoveAt(flying, cursor) /\ cursor' = cursor
       \/ /\ NothingHit(hit)
          /\ events' = events /\ ends' = ends
          /\ flying' = [flying EXCEPT ![cursor] = Advanced(p, hit)] /\ cursor' = cursor + 1
    BY FlyNextCases
  <2>2. /\ UNCHANGED << phase, dt, pending, wallOf, nextId, clock, announced, reported >>
        /\ flying \in Seq(Projectile) /\ cursor \in 1..Len(flying) /\ Len(flying) \in Nat
        /\ MaxDistance \in Nat /\ p.id \in Given /\ p.x + p.distance = MaxDistance
        /\ p.id \in Id /\ p.x \in Nat /\ p.distance \in Nat
    <3>1. UNCHANGED << phase, dt, pending, wallOf, nextId, clock, announced, reported >>
      BY DEF FlyNext
    <3>2. flying \in Seq(Projectile) /\ cursor \in 1..Len(flying) /\ Len(flying) \in Nat
      <4>1. flying \in Seq(Projectile)
        BY DEF ShotInv, TypeOK
      <4>2. QED BY <4>1, <2>1
    <3>3. p.id \in Given /\ p.x + p.distance = MaxDistance
      BY <2>1 DEF ShotInv, FlightInv
    <3>4. MaxDistance \in Nat
      BY ProjectileAssumption
    <3>5. p.id \in Id /\ p.x \in Nat /\ p.distance \in Nat
      BY <2>1, <3>4 DEF Projectile
    <3>6. QED BY <3>1, <3>2, <3>3, <3>4, <3>5
  <2>3. TypeOK /\ FlightInv /\ SpawnInv /\ WallStops
    BY DEF ShotInv
  <2>4. /\ events' \in Seq(Event) /\ ends' \in [Id -> [hit : Nat, expired : Nat]]
        /\ \A k \in DOMAIN events' :
             \/ k \in DOMAIN events /\ events'[k] = events[k]
             \/ /\ events'[k].id = p.id
                /\ events'[k].type = "HitActor" => Before(p.id, events'[k].at)
    <3>1. events \in Seq(Event) /\ ends \in [Id -> [hit : Nat, expired : Nat]]
      BY <2>3 DEF TypeOK
    <3>2. ends' \in [Id -> [hit : Nat, expired : Nat]]
      <4>1. PICK r \in [hit : Nat, expired : Nat] : r = ends[p.id]
        BY <2>2, <3>1
      <4>2. /\ [hit |-> r.hit + 1, expired |-> r.expired] \in [hit : Nat, expired : Nat]
            /\ [hit |-> r.hit, expired |-> r.expired + 1] \in [hit : Nat, expired : Nat]
        OBVIOUS
      <4>3. \E q \in [hit : Nat, expired : Nat] : ends' = [ends EXCEPT ![p.id] = q] \/ ends' = ends
        BY <4>1, <4>2, <2>1, Zenon
      <4>4. QED BY <4>3, <2>2, <3>1
    <3>3. \/ events' = events
          \/ \E e \in Event : /\ events' = Append(events, e) /\ e.id = p.id
                              /\ e.type = "HitActor" => Before(p.id, e.at)
      <4>1. CASE NothingHit(hit)
        <5>1. PICK e : e = [type |-> "Expired", id |-> p.id, at |-> Miss]
          OBVIOUS
        <5>2. e \in Event /\ e.id = p.id /\ e.type # "HitActor"
          BY <5>1, <2>2 DEF Event, Miss
        <5>3. QED BY <5>1, <5>2, <2>1, <4>1
      <4>2. CASE ~NothingHit(hit)
        <5>1. PICK e : e = Hit(p.id, hit, p.x)
          OBVIOUS
        <5>2. hit.t \in 0..p.distance
          BY <2>1, <2>2, <4>2 DEF NothingHit, Miss
        <5>3. p.x + hit.t \in Miss..MaxDistance
          BY <5>2, <2>2 DEF Miss
        <5>4. e \in Event /\ e.id = p.id /\ e.type = hit.type /\ e.at = p.x + hit.t
          BY <5>1, <5>3, <2>1, <2>2 DEF Event, Hit
        <5>5. events' = Append(events, e)
          BY <5>1, <2>1, <4>2
        <5>6. QED BY <5>4, <5>5, <2>1
      <4>3. QED BY <4>1, <4>2
    <3>4. CASE events' = events
      BY <3>1, <3>2, <3>4
    <3>5. CASE \E e \in Event : /\ events' = Append(events, e) /\ e.id = p.id
                                /\ e.type = "HitActor" => Before(p.id, e.at)
      <4>1. PICK e \in Event : /\ events' = Append(events, e) /\ e.id = p.id
                               /\ e.type = "HitActor" => Before(p.id, e.at)
        BY <3>5
      <4>2. /\ events' \in Seq(Event)
            /\ \A k \in DOMAIN events' : (k \in DOMAIN events /\ events'[k] = events[k]) \/ events'[k] = e
        BY <3>1, <4>1
      <4>3. QED BY <3>2, <4>1, <4>2
    <3>6. QED BY <3>3, <3>4, <3>5
  <2>5. CASE flying' = RemoveAt(flying, cursor) /\ cursor' = cursor
    <3>1. /\ flying' \in Seq(Projectile) /\ Len(flying') = Len(flying) - 1
          /\ \A k \in DOMAIN flying' :
               flying'[k] = IF k = cursor THEN flying[Len(flying)] ELSE flying[k]
          /\ DOMAIN flying' = 1..(Len(flying) - 1)
      BY <2>2, <2>5 DEF RemoveAt
    <3>2. \A k \in DOMAIN flying' : \E m \in DOMAIN flying :
            /\ flying'[k] = flying[m] /\ m # cursor /\ (k < cursor <=> m < cursor)
            /\ m = IF k = cursor THEN Len(flying) ELSE k
      BY <2>2, <3>1
    <3>3. \A m \in DOMAIN flying : m # cursor => flying[m].id # p.id
      BY <2>1, <2>3 DEF FlightInv
    <3>4. TypeOK'
      BY <2>2, <2>3, <2>4, <2>5, <3>1, <2>1 DEF TypeOK, clock
    <3>5. FlightInv'
      <4>1. \A k \in DOMAIN flying' : /\ flying'[k].id \in Given
                                      /\ flying'[k].x + flying'[k].distance = MaxDistance
        BY <2>3, <3>2 DEF FlightInv
      <4>5. ASSUME NEW j \in DOMAIN flying', NEW k \in DOMAIN flying', flying'[j].id = flying'[k].id
            PROVE  j = k
        <5>1. PICK m \in DOMAIN flying :
                flying'[j] = flying[m] /\ m = IF j = cursor THEN Len(flying) ELSE j
          BY <3>2
        <5>2. PICK n \in DOMAIN flying :
                flying'[k] = flying[n] /\ n = IF k = cursor THEN Len(flying) ELSE k
          BY <3>2
        <5>3. m = n
          BY <2>3, <4>5, <5>1, <5>2 DEF FlightInv
        <5>4. QED BY <2>2, <3>1, <5>1, <5>2, <5>3
      <4>2. \A k \in DOMAIN flying' : flying'[k].id \in moved' <=> k < cursor'
        BY <2>1, <2>3, <2>5, <3>2, <3>3 DEF FlightInv
      <4>3. Given' = Given /\ phase' = "fly"
        BY <2>1, <2>2 DEF Given
      <4>4. QED BY <4>1, <4>2, <4>3, <4>5, <2>1 DEF FlightInv
    <3>6. WallStops'
      <4>1. \A id, x : Before(id, x)' <=> Before(id, x)
        BY <2>2 DEF Before
      <4>2. \A k \in DOMAIN flying' : flying'[k].x > 0 => Before(flying'[k].id, flying'[k].x)
        BY <2>3, <3>2 DEF WallStops
      <4>3. \A k \in DOMAIN events' : events'[k].type = "HitActor" /\ events'[k].at > 0 =>
              Before(events'[k].id, events'[k].at)
        BY <2>3, <2>4 DEF WallStops
      <4>4. QED BY <4>1, <4>2, <4>3 DEF WallStops
    <3>7. SpawnInv'
      BY <2>2, <2>3, <2>4 DEF SpawnInv, Given
    <3>8. QED BY <3>4, <3>5, <3>6, <3>7 DEF ShotInv
  <2>6. CASE /\ NothingHit(hit)
             /\ flying' = [flying EXCEPT ![cursor] = Advanced(p, hit)] /\ cursor' = cursor + 1
    <3>1. PICK q : q = Advanced(p, hit)
      OBVIOUS
    <3>2. /\ q \in Projectile /\ q.id = p.id /\ q.x = p.x + StepLength(p)
          /\ q.x + q.distance = MaxDistance
      <4>1. q = [p EXCEPT !.x = @ + StepLength(p), !.distance = @ - StepLength(p), !.life = @ - dt]
        BY <2>6, <3>1 DEF Advanced
      <4>2. p.life - dt \in Int
        <5>1. p.life \in Int
          BY <2>1 DEF Projectile
        <5>2. dt \in Int
          BY <2>3, ProjectileAssumption DEF TypeOK
        <5>3. QED BY <5>1, <5>2
      <4>3. p.x + StepLength(p) \in 0..MaxDistance /\ p.distance - StepLength(p) \in 0..MaxDistance
        BY SMTT(30), <2>1, <2>2
      <4>4. /\ q = [id |-> p.id, x |-> p.x + StepLength(p), speed |-> p.speed, life |-> p.life - dt,
                    distance |-> p.distance - StepLength(p)]
            /\ p.speed \in Speeds
        BY <2>1, <4>1 DEF Projectile
      <4>5. q.x + q.distance = MaxDistance
        <5>1. \A d \in 0..p.distance : (p.x + d) + (p.distance - d) = MaxDistance
          BY <2>2
        <5>2. QED BY <4>4, <5>1, <2>1
      <4>6. q \in Projectile
        BY <4>2, <4>3, <4>4, <2>2 DEF Projectile
      <4>7. QED BY <4>4, <4>5, <4>6
    <3>3. /\ flying' \in Seq(Projectile) /\ DOMAIN flying' = DOMAIN flying
          /\ \A k \in DOMAIN flying' : flying'[k] = IF k = cursor THEN q ELSE flying[k]
      BY <2>2, <2>6, <3>1, <3>2
    <3>4. TypeOK'
      <4>1. cursor' \in Nat \ {0} /\ moved' \subseteq Id
        <5>1. moved' = moved \cup {p.id} /\ moved \subseteq Id
          BY <2>1, <2>3 DEF TypeOK
        <5>2. QED BY <5>1, <2>2, <2>6
      <4>2. QED BY <4>1, <2>2, <2>3, <2>4, <3>3 DEF TypeOK, clock
    <3>5. FlightInv'
      <4>1. /\ \A k \in DOMAIN flying' : /\ flying'[k].id \in Given
                                         /\ flying'[k].x + flying'[k].distance = MaxDistance
            /\ \A k \in DOMAIN flying' : flying'[k].id = flying[k].id
        BY <2>1, <2>2, <2>3, <3>2, <3>3 DEF FlightInv
      <4>2. \A j, k \in DOMAIN flying' : flying'[j].id = flying'[k].id => j = k
        BY <4>1, <3>3, <2>3 DEF FlightInv
      <4>3. \A k \in DOMAIN flying' : flying'[k].id \in moved' <=> k < cursor'
        BY <2>1, <2>2, <2>3, <2>6, <3>3, <4>1 DEF FlightInv
      <4>4. Given' = Given /\ phase' = "fly"
        BY <2>1, <2>2 DEF Given
      <4>5. QED BY <4>1, <4>2, <4>3, <4>4 DEF FlightInv
    <3>6. WallStops'
      <4>1. \A k \in DOMAIN flying' : flying'[k].x > 0 => Before(flying'[k].id, flying'[k].x)
        BY <2>1, <2>3, <2>6, <3>2, <3>3 DEF WallStops
      <4>2. \A k \in DOMAIN events' :
              events'[k].type = "HitActor" /\ events'[k].at > 0 => Before(events'[k].id, events'[k].at)
        BY <2>3, <2>4 DEF WallStops
      <4>3. wallOf' = wallOf
        BY <2>2
      <4>4. QED BY <4>1, <4>2, <4>3 DEF WallStops, Before
    <3>7. SpawnInv'
      BY <2>2, <2>3, <2>4 DEF SpawnInv, Given
    <3>8. QED BY <3>4, <3>5, <3>6, <3>7 DEF ShotInv
  <2>7. QED BY <2>1, <2>5, <2>6
<1>6. ASSUME ShotInv, FlightDone PROVE ShotInv'
  <2>1. TypeOK'
    BY <1>6 DEF ShotInv, TypeOK, FlightDone, clock, ghosts
  <2>2. FlightInv'
    BY <1>6 DEF ShotInv, TypeOK, FlightInv, FlightDone, ghosts, Given
  <2>3. SpawnInv' /\ WallStops'
    BY <1>6 DEF ShotInv, SpawnInv, WallStops, Before, FlightDone, Given
  <2>4. QED BY <2>1, <2>2, <2>3 DEF ShotInv
<1>7. ASSUME ShotInv, Collect PROVE ShotInv'
  <2>1. \A id : Cardinality(HitsOf(id)) \in Nat
    <3>1. IsFiniteSet(DOMAIN events)
      BY <1>7, FS_Interval DEF ShotInv, TypeOK
    <3>2. \A id : HitsOf(id) \subseteq DOMAIN events
      BY DEF HitsOf
    <3>3. QED BY <3>1, <3>2, FS_Subset, FS_CardinalityType
  <2>2. TypeOK'
    <3>1. reported' \in [Id -> Nat]
      BY <1>7, <2>1 DEF ShotInv, TypeOK, Collect
    <3>2. dt \in Nat
      BY <1>7, ProjectileAssumption DEF ShotInv, TypeOK
    <3>3. timer' \in Nat
      BY <1>7, <3>2 DEF ShotInv, TypeOK, Collect
    <3>4. QED BY <1>7, <3>1, <3>3 DEF ShotInv, TypeOK, Collect
  <2>3. FlightInv' /\ SpawnInv' /\ WallStops'
    BY <1>7 DEF ShotInv, FlightInv, SpawnInv, WallStops, Before, Collect, Given
  <2>4. QED BY <2>2, <2>3 DEF ShotInv
<1>8. ASSUME ShotInv, SendSnapshot PROVE ShotInv'
  <2>1. timer' \in Nat /\ serverTick' \in 0..(TickWidth - 1)
    BY <1>8, ProjectileAssumption DEF ShotInv, TypeOK, SendSnapshot, Due
  <2>2. TypeOK'
    BY <1>8, <2>1 DEF ShotInv, TypeOK, SendSnapshot, ghosts
  <2>3. FlightInv' /\ SpawnInv' /\ WallStops'
    BY <1>8 DEF ShotInv, FlightInv, SpawnInv, WallStops, Before, SendSnapshot, Given
  <2>4. QED BY <2>2, <2>3 DEF ShotInv
<1>9. ASSUME ShotInv, EndTick PROVE ShotInv'
  <2>1. TypeOK'
    BY <1>9 DEF ShotInv, TypeOK, EndTick, clock
  <2>2. FlightInv' /\ SpawnInv' /\ WallStops'
    BY <1>9 DEF ShotInv, FlightInv, SpawnInv, WallStops, Before, EndTick, Given
  <2>3. QED BY <2>1, <2>2 DEF ShotInv
<1>10. ASSUME ShotInv, UNCHANGED vars PROVE ShotInv'
  BY <1>10 DEF ShotInv, TypeOK, FlightInv, SpawnInv, WallStops, Before, Given, vars
<1>11. ShotInv /\ [Next]_vars => ShotInv'
  BY <1>2, <1>3, <1>4, <1>5, <1>6, <1>7, <1>8, <1>9, <1>10 DEF Next
<1>12. ShotInv => TypeOK
  BY DEF ShotInv
<1>13. QED BY <1>1, <1>11, <1>12, PTL DEF Spec

\* Nothing passes a wall, whatever lengths of ticks and speeds the steps add up
\* from, and no actor behind it is hit.
THEOREM WallsStopShots == Spec => []WallStops
<1>1. ShotInv => WallStops
  BY DEF ShotInv
<1>2. QED BY <1>1, ShotInvariant, PTL

-----------------------------------------------------------------------------
\* A shot flies under one id, ends once and is told once; the walk passes over
\* none and moves none twice.
THEOREM EachShotCounted == Spec => []ShotsCounted
<1>1. Init => CountInv
  <2>1. {k \in DOMAIN << >> : FALSE} = {} /\ Cardinality({}) = 0
    BY FS_EmptySet
  <2>2. ASSUME Init, NEW id \in Id PROVE HitsOf(id) = {} /\ InFlight = {}
    BY <2>2 DEF Init, HitsOf, InFlight
  <2>3. Init => Given = {}
    BY DEF Init, Given
  <2>4. ASSUME Init, NEW id \in Id
        PROVE  /\ ends[id].hit = 0 /\ ends[id].expired = 0 /\ reported[id] = 0
               /\ Cardinality(HitsOf(id)) = 0 /\ id \notin InFlight
    BY <2>1, <2>2, <2>4 DEF Init
  <2>5. QED BY <2>3, <2>4 DEF Init, CountInv
<1>2. ASSUME ShotInv, CountInv, NEW e, events' = Append(events, e), NEW id \in Id
      PROVE  Cardinality((HitsOf(id))') =
               Cardinality(HitsOf(id)) + (IF Told(e) /\ e.id = id THEN 1 ELSE 0)
  <2>1. events \in Seq(Event)
    BY <1>2 DEF ShotInv, TypeOK
  <2>2. IsFiniteSet(HitsOf(id)) /\ Cardinality(HitsOf(id)) \in Nat /\ Len(events) + 1 \notin HitsOf(id)
    <3>1. IsFiniteSet(DOMAIN events)
      BY <2>1, FS_Interval
    <3>2. HitsOf(id) \subseteq DOMAIN events
      BY DEF HitsOf
    <3>3. QED BY <2>1, <3>1, <3>2, FS_Subset, FS_CardinalityType
  <2>3. (HitsOf(id))' = IF Told(e) /\ e.id = id THEN HitsOf(id) \cup {Len(events) + 1} ELSE HitsOf(id)
    BY <1>2, <2>1 DEF HitsOf
  <2>4. CASE Told(e) /\ e.id = id
    <3>1. Cardinality(HitsOf(id) \cup {Len(events) + 1}) = Cardinality(HitsOf(id)) + 1
      BY <2>2, FS_AddElement
    <3>2. QED BY <2>3, <2>4, <3>1
  <2>5. CASE ~(Told(e) /\ e.id = id)
    BY <2>2, <2>3, <2>5
  <2>6. QED BY <2>4, <2>5
<1>3. ASSUME ShotInv, CountInv, NEW id \in Id, NEW e,
             ends[id].hit = 0, ends[id].expired = 0,
             ends'[id].hit = IF Told(e) THEN 1 ELSE 0, ends'[id].expired = IF Told(e) THEN 0 ELSE 1,
             \A other \in Id \ {id} : ends'[other] = ends[other],
             events' = Append(events, e), e.id = id,
             InFlight' \subseteq InFlight \ {id}, reported' = reported,
             Given \subseteq Given', id \in Given', announced' = Given',
             phase' \notin {"idle", "snapshot"}
      PROVE  CountInv'
  <2> USE <1>3
  <2>1. ends \in [Id -> [hit : Nat, expired : Nat]] /\ reported \in [Id -> Nat]
    BY DEF ShotInv, TypeOK
  <2>2. /\ ends'[id].hit = (IF Told(e) THEN 1 ELSE 0) /\ ends'[id].expired = IF Told(e) THEN 0 ELSE 1
        /\ \A other \in Id \ {id} : ends'[other] = ends[other]
    OBVIOUS
  <2>3. \A other \in Id :
          ends'[other].hit + ends'[other].expired + (IF other \in InFlight' THEN 1 ELSE 0) <= 1
    <3>1. TAKE other \in Id
    <3>2. CASE other = id
      BY <2>2, <3>2
    <3>3. CASE other # id
      <4>1. ends[other].hit \in Nat /\ ends[other].expired \in Nat
        BY <2>1
      <4>2. QED BY <2>2, <3>3, <4>1 DEF CountInv
    <3>4. QED BY <3>2, <3>3
  <2>4. \A other \in Id \ Given' : ends'[other].hit = 0 /\ ends'[other].expired = 0
    BY <2>2 DEF CountInv
  <2>5. \A other \in Id : reported'[other] + Cardinality((HitsOf(other))') = ends'[other].hit
    <3>1. TAKE other \in Id
    <3>2. Cardinality((HitsOf(other))') =
            Cardinality(HitsOf(other)) + (IF Told(e) /\ e.id = other THEN 1 ELSE 0)
      BY <1>2
    <3>3. Cardinality(HitsOf(other)) \in Nat /\ reported[other] \in Nat
      <4>1. IsFiniteSet(DOMAIN events) /\ HitsOf(other) \subseteq DOMAIN events
        BY FS_Interval DEF ShotInv, TypeOK, HitsOf
      <4>2. QED BY <2>1, <4>1, FS_Subset, FS_CardinalityType
    <3>4. reported[other] + Cardinality(HitsOf(other)) = ends[other].hit
      BY DEF CountInv
    <3>5. CASE other = id
      <4>1. reported[other] = 0 /\ Cardinality(HitsOf(other)) = 0
        BY <3>3, <3>4, <3>5
      <4>2. Cardinality((HitsOf(other))') = IF Told(e) THEN 1 ELSE 0
        BY <3>2, <3>5, <4>1
      <4>3. QED BY <2>2, <3>5, <4>1, <4>2
    <3>6. CASE other # id
      BY <2>2, <3>2, <3>3, <3>4, <3>6
    <3>7. QED BY <3>5, <3>6
  <2>6. QED BY <2>3, <2>4, <2>5 DEF CountInv
<1>4. ASSUME CountInv, UNCHANGED << nextId, announced, events, ends, reported, flying >>,
             phase' \in {"idle", "snapshot"} => phase \in {"idle", "snapshot"}
      PROVE  CountInv'
  BY <1>4 DEF CountInv, Given, InFlight, HitsOf
<1>5. ASSUME ShotInv, CountInv, HandleSpawn PROVE CountInv'
  <2> USE <1>5
  <2>1. /\ nextId \in Id \ Given /\ Given' = Given \cup {nextId} /\ announced' = announced \cup {nextId}
        /\ reported' = reported /\ phase' = phase /\ phase = "spawn"
    <3>1. nextId + Len(pending) <= MaxIds + 1 /\ Len(pending) > 0
      BY DEF HandleSpawn, ShotInv, SpawnInv, TypeOK
    <3>2. nextId \in Id /\ nextId' = nextId + 1
      BY <3>1, ProjectileAssumption DEF HandleSpawn, ShotInv, TypeOK, Id
    <3>3. QED BY <3>2 DEF HandleSpawn, Given, Id
  <2>2. nextId \notin InFlight /\ ends \in [Id -> [hit : Nat, expired : Nat]]
    BY <2>1 DEF ShotInv, FlightInv, TypeOK, InFlight
  <2>3. CASE flying' = flying /\ UNCHANGED << events, ends >>
    BY <2>1, <2>3 DEF CountInv, InFlight, HitsOf
  <2>4. CASE Spawn(Head(pending))
    <3>1. InFlight' \subseteq InFlight \cup {nextId} /\ events' = events /\ ends' = ends
      BY <2>4 DEF Spawn, InFlight, ShotInv, TypeOK
    <3>2. \A id \in Id : ends'[id].hit + ends'[id].expired + (IF id \in InFlight' THEN 1 ELSE 0) <= 1
      BY <2>1, <2>2, <3>1 DEF CountInv
    <3>3. QED BY <2>1, <3>1, <3>2 DEF CountInv, HitsOf
  <2>5. CASE FireHitscan(Head(pending))
    <3>1. PICK hit : /\ hit.type \in {"HitWorld", "HitActor"}
                     /\ flying' = flying
                     /\ IF NothingHit(hit) THEN UNCHANGED << events, ends >>
                        ELSE /\ events' = Append(events, Hit(nextId, hit, 0))
                             /\ ends' = Ended(nextId, "hit")
      <4>1. \A w, a : Best(w, a).type \in {"HitWorld", "HitActor"}
        BY DEF Best
      <4>2. QED BY <4>1, <2>5 DEF FireHitscan
    <3>2. CASE NothingHit(hit)
      BY <3>1, <3>2, <2>3
    <3>3. CASE ~NothingHit(hit)
      <4>1. PICK e : e = Hit(nextId, hit, 0)
        OBVIOUS
      <4>2. e.id = nextId /\ Told(e) /\ events' = Append(events, e)
        BY <3>1, <3>3, <4>1 DEF Hit, Told
      <4>3. InFlight' \subseteq InFlight \ {nextId} /\ ends[nextId].hit = 0 /\ ends[nextId].expired = 0
        BY <3>1, <2>1, <2>2 DEF InFlight, CountInv
      <4>4. /\ ends'[nextId].hit = 1 /\ ends'[nextId].expired = 0
            /\ \A other \in Id \ {nextId} : ends'[other] = ends[other]
        <5>1. PICK r \in [hit : Nat, expired : Nat] : r = ends[nextId]
          BY <2>1, <2>2
        <5>2. ends' = [ends EXCEPT ![nextId] = [r EXCEPT !["hit"] = @ + 1]]
          BY <3>1, <3>3, <5>1, <2>1, <2>2 DEF Ended
        <5>3. PICK q : q = [r EXCEPT !["hit"] = @ + 1]
          OBVIOUS
        <5>4. q.hit = r.hit + 1 /\ q.expired = r.expired
          BY <5>3
        <5>5. QED BY <5>1, <5>2, <5>3, <5>4, <4>3, <2>1, <2>2
      <4>5. nextId \in Given' /\ Given \subseteq Given' /\ announced' = Given'
        BY <2>1 DEF CountInv
      <4>6. QED BY <4>2, <4>3, <4>4, <4>5, <2>1, <1>3
    <3>4. QED BY <3>2, <3>3
  <2>6. QED BY <2>4, <2>5 DEF HandleSpawn
<1>6. ASSUME ShotInv, CountInv, FlyNext PROVE CountInv'
  <2> USE <1>6
  <2>1. PICK p, hit :
    /\ p \in Projectile
    /\ p = flying[cursor] /\ cursor \in DOMAIN flying /\ phase = "fly"
    /\ hit.type \in {"HitWorld", "HitActor"} /\ hit.t \in Miss..StepLength(p)
    /\ StepLength(p) \in 0..p.distance
    /\ hit.type = "HitActor" => Before(p.id, p.x + hit.t)
    /\ NothingHit(hit) /\ p.x + StepLength(p) > 0 => Before(p.id, p.x + StepLength(p))
    /\ moved' = moved \cup {p.id}
    /\ \/ /\ ~NothingHit(hit)
          /\ events' = Append(events, Hit(p.id, hit, p.x))
          /\ ends' = [ends EXCEPT ![p.id] = [hit |-> @.hit + 1, expired |-> @.expired]]
          /\ flying' = RemoveAt(flying, cursor) /\ cursor' = cursor
       \/ /\ NothingHit(hit)
          /\ events' = Append(events, [type |-> "Expired", id |-> p.id, at |-> Miss])
          /\ ends' = [ends EXCEPT ![p.id] = [hit |-> @.hit, expired |-> @.expired + 1]]
          /\ flying' = RemoveAt(flying, cursor) /\ cursor' = cursor
       \/ /\ NothingHit(hit)
          /\ events' = events /\ ends' = ends
          /\ flying' = [flying EXCEPT ![cursor] = Advanced(p, hit)] /\ cursor' = cursor + 1
    BY FlyNextCases
  <2>2. /\ flying \in Seq(Projectile) /\ ends \in [Id -> [hit : Nat, expired : Nat]]
        /\ phase' = "fly" /\ Given' = Given /\ announced' = announced /\ reported' = reported
        /\ p.id \in Given /\ p.id \in Id /\ p.id \in InFlight
    <3>1. flying \in Seq(Projectile) /\ ends \in [Id -> [hit : Nat, expired : Nat]]
      BY DEF ShotInv, TypeOK
    <3>2. phase' = "fly" /\ Given' = Given /\ announced' = announced /\ reported' = reported
      BY <2>1 DEF FlyNext, Given
    <3>3. p.id \in Given /\ p.id \in InFlight
      BY <2>1 DEF ShotInv, FlightInv, InFlight
    <3>4. p.id \in Id
      BY <2>1 DEF Projectile
    <3>5. QED BY <3>1, <3>2, <3>3, <3>4
  <2>3. PICK r \in [hit : Nat, expired : Nat] : r = ends[p.id] /\ r.hit = 0 /\ r.expired = 0
    <3>1. PICK r \in [hit : Nat, expired : Nat] : r = ends[p.id]
      BY <2>2
    <3>2. r.hit + r.expired + 1 <= 1
      BY <2>2, <3>1 DEF CountInv
    <3>3. QED BY <3>1, <3>2
  <2>4. ASSUME flying' = RemoveAt(flying, cursor) PROVE InFlight' \subseteq InFlight \ {p.id}
    <3>1. \A k \in DOMAIN flying' : \E m \in DOMAIN flying : m # cursor /\ flying'[k] = flying[m]
      BY SMTT(30), <2>1, <2>2, <2>4 DEF RemoveAt
    <3>2. \A m \in DOMAIN flying : m # cursor => flying[m].id # p.id
      BY <2>1 DEF ShotInv, FlightInv
    <3>3. QED BY <3>1, <3>2 DEF InFlight
  <2>5. Given \subseteq Given' /\ p.id \in Given' /\ announced' = Given'
    BY <2>2 DEF CountInv
  <2>6. CASE /\ events' = Append(events, Hit(p.id, hit, p.x))
             /\ ends' = [ends EXCEPT ![p.id] = [hit |-> @.hit + 1, expired |-> @.expired]]
             /\ flying' = RemoveAt(flying, cursor)
    <3>1. PICK e : e = Hit(p.id, hit, p.x)
      OBVIOUS
    <3>2. e.id = p.id /\ Told(e) /\ events' = Append(events, e)
      BY <2>1, <2>6, <3>1 DEF Hit, Told
    <3>3. /\ ends'[p.id].hit = 1 /\ ends'[p.id].expired = 0
          /\ \A other \in Id \ {p.id} : ends'[other] = ends[other]
      BY <2>2, <2>3, <2>6
    <3>4. QED BY <3>2, <3>3, <2>2, <2>3, <2>4, <2>5, <2>6, <1>3
  <2>7. CASE /\ events' = Append(events, [type |-> "Expired", id |-> p.id, at |-> Miss])
             /\ ends' = [ends EXCEPT ![p.id] = [hit |-> @.hit, expired |-> @.expired + 1]]
             /\ flying' = RemoveAt(flying, cursor)
    <3>1. PICK e : e = [type |-> "Expired", id |-> p.id, at |-> Miss]
      OBVIOUS
    <3>2. e.id = p.id /\ ~Told(e) /\ events' = Append(events, e)
      BY <2>7, <3>1 DEF Told
    <3>3. /\ ends'[p.id].hit = 0 /\ ends'[p.id].expired = 1
          /\ \A other \in Id \ {p.id} : ends'[other] = ends[other]
      BY <2>2, <2>3, <2>7
    <3>4. QED BY <3>2, <3>3, <2>2, <2>3, <2>4, <2>5, <2>7, <1>3
  <2>8. CASE /\ events' = events /\ ends' = ends
             /\ flying' = [flying EXCEPT ![cursor] = Advanced(p, hit)]
    <3>1. Advanced(p, hit).id = p.id
      BY DEF Advanced, Projectile
    <3>2. InFlight' = InFlight
      BY <2>1, <2>2, <2>8, <3>1 DEF InFlight
    <3>3. QED BY <2>2, <2>8, <3>2 DEF CountInv, HitsOf
  <2>9. QED BY <2>1, <2>6, <2>7, <2>8
<1>7. ASSUME ShotInv, CountInv, Collect PROVE CountInv'
  <2>1. /\ reported' = [id \in Id |-> reported[id] + Cardinality(HitsOf(id))]
        /\ events' = << >> /\ ends' = ends
    BY <1>7 DEF Collect
  <2>2. \A id \in Id : (HitsOf(id))' = {} /\ Cardinality((HitsOf(id))') = 0
    BY <2>1, FS_EmptySet DEF HitsOf
  <2>3. \A id \in Id : reported'[id] + Cardinality((HitsOf(id))') = ends'[id].hit
    BY <1>7, <2>1, <2>2 DEF CountInv, ShotInv, TypeOK
  <2>4. QED BY <1>7, <2>1, <2>3 DEF CountInv, Collect, InFlight, Given
<1>8. ShotInv /\ CountInv /\ [Next]_vars => CountInv'
  <2>1. ShotInv /\ CountInv /\ BeginTick => CountInv'
    BY <1>4 DEF BeginTick
  <2>2. ShotInv /\ CountInv /\ (SpawnsDone \/ FlightDone) => CountInv'
    BY <1>4 DEF SpawnsDone, FlightDone, ghosts
  <2>3. ShotInv /\ CountInv /\ (SendSnapshot \/ EndTick) => CountInv'
    BY <1>4 DEF SendSnapshot, EndTick, ghosts
  <2>4. ShotInv /\ CountInv /\ UNCHANGED vars => CountInv'
    BY <1>4 DEF vars
  <2>5. QED BY <2>1, <2>2, <2>3, <2>4, <1>5, <1>6, <1>7 DEF Next
<1>9. ShotInv /\ CountInv => ShotsCounted
  <2> SUFFICES ASSUME ShotInv, CountInv PROVE ShotsCounted
    OBVIOUS
  <2>1. MovedOnce
    BY DEF ShotInv, FlightInv, TypeOK, MovedOnce, InFlight
  <2>2. \A id \in Id : /\ reported[id] \in Nat /\ ends[id].hit \in Nat /\ Cardinality(HitsOf(id)) \in Nat
                       /\ events = << >> => Cardinality(HitsOf(id)) = 0
    <3>1. reported \in [Id -> Nat] /\ ends \in [Id -> [hit : Nat, expired : Nat]] /\ events \in Seq(Event)
      BY DEF ShotInv, TypeOK
    <3>2. \A id : HitsOf(id) \subseteq DOMAIN events /\ (events = << >> => HitsOf(id) = {})
      BY DEF HitsOf
    <3>3. IsFiniteSet(DOMAIN events)
      BY <3>1, FS_Interval
    <3>4. QED BY <3>1, <3>2, <3>3, FS_Subset, FS_CardinalityType, FS_EmptySet
  <2>3. /\ phase \in {"snapshot", "idle"} => \A id \in Id : reported[id] = ends[id].hit
        /\ \A id \in Id : reported[id] > 0 => id \in announced
    BY <2>2 DEF CountInv
  <2>4. EndsOnce
    BY <2>3 DEF EndsOnce, CountInv, ShotInv, FlightInv, Given
  <2>5. QED BY <2>1, <2>4 DEF ShotsCounted
<1>10. QED BY <1>1, <1>8, <1>9, ShotInvariant, PTL DEF Spec

-----------------------------------------------------------------------------
\* Whatever the lengths of the ticks and the interval, after each tick as many
\* snapshots have been sent as whole intervals have passed.
THEOREM SnapshotsKeepPace == Spec => []SnapshotPace
<1>1. PICK m \in Nat : m = Interval * TickWidth /\ m > 0
  <2>1. \A j, k \in Nat \ {0} : j * k \in Nat /\ j * k > 0
    OBVIOUS
  <2>2. QED BY <2>1, ProjectileAssumption
<1>2. ASSUME NEW a \in Nat, NEW n \in Nat, n > 0
      PROVE  /\ a % n \in 0..(n - 1) /\ (a + n) % n = a % n
             /\ \A d \in Nat : ((a % n) + d) % n = (a + d) % n
  <2> USE <1>2
  <2>1. \A b \in Int : b = n * (b \div n) + (b % n) /\ b \div n \in Int /\ b % n \in 0..(n - 1)
    OBVIOUS
  <2>2. \A q \in Int, r \in 0..(n - 1) : (q * n + r) % n = r
    OBVIOUS
  <2>3. PICK q \in Int, r \in 0..(n - 1) : a = q * n + r /\ a % n = r
    BY <2>1
  <2>4. (a + n) % n = a % n
    <3>1. a + n = (q + 1) * n + r
      BY <2>3
    <3>2. QED BY <2>2, <2>3, <3>1
  <2>5. ASSUME NEW d \in Nat PROVE ((a % n) + d) % n = (a + d) % n
    <3>1. PICK b \in Int : b = r + d
      OBVIOUS
    <3>2. PICK p \in Int : p = b \div n
      BY <2>1
    <3>3. PICK s \in 0..(n - 1) : s = b % n
      BY <2>1
    <3>4. b = p * n + s
      BY <2>1, <3>2, <3>3
    <3>5. a + d = (q + p) * n + s /\ q + p \in Int
      BY <2>3, <3>1, <3>4
    <3>6. (a + d) % n = s
      BY <2>2, <3>5
    <3>7. QED BY <2>3, <3>1, <3>3, <3>6
  <2>6. QED BY <2>3, <2>4, <2>5
<1>3. /\ \A a \in Nat : a % m \in 0..(m - 1) /\ (a + m) % m = a % m
      /\ \A a, d \in Nat : ((a % m) + d) % m = (a + d) % m
  BY <1>1, <1>2
<1>4. ASSUME ShotInv PROVE /\ serverTick \in Nat /\ timer \in Nat /\ Unadded \in Nat /\ dt \in Nat
                           /\ serverTick < TickWidth /\ serverTick * Interval \in Nat
  <2>1. serverTick \in Nat /\ serverTick < TickWidth /\ timer \in Nat /\ dt \in Nat
    BY <1>4, ProjectileAssumption DEF ShotInv, TypeOK
  <2>2. \A j, k \in Nat : j * k \in Nat
    OBVIOUS
  <2>3. QED BY <2>1, <2>2, ProjectileAssumption DEF Unadded
<1>5. Init => PaceInv
  <2>1. ASSUME Init PROVE serverTick * Interval + timer + Unadded = 0
    BY <2>1, ProjectileAssumption DEF Init, Unadded
  <2>2. 0 % m = 0
    BY <1>1
  <2>3. QED BY <1>1, <2>1, <2>2, ProjectileAssumption DEF Init, PaceInv
<1>6. ASSUME ShotInv, PaceInv, BeginTick PROVE PaceInv'
  <2>1. PICK d \in Nat : dt' = d /\ elapsed' = (elapsed + d) % m
    BY <1>1, <1>6, ProjectileAssumption DEF BeginTick
  <2>2. UNCHANGED << timer, serverTick >> /\ phase = "idle" /\ phase' = "spawn"
    BY <1>6 DEF BeginTick
  <2>3. PICK a \in Nat : a = serverTick * Interval + timer
    BY <1>4, <1>6
  <2>4. serverTick * Interval + timer + Unadded = a
    BY <2>2, <2>3 DEF Unadded
  <2>5. (serverTick * Interval + timer + Unadded)' = a + d
    BY <2>1, <2>2, <2>3 DEF Unadded
  <2>6. a % m = elapsed
    BY <1>1, <1>6, <2>4 DEF PaceInv
  <2>7. (a + d) % m = elapsed'
    BY <2>1, <2>6, <1>3
  <2>8. QED BY <1>1, <2>2, <2>5, <2>7 DEF PaceInv
<1>7. ASSUME PaceInv, UNCHANGED << timer, serverTick, elapsed >>, Unadded' = Unadded,
             phase' = "idle" => phase = "idle" \/ timer < Interval
      PROVE  PaceInv'
  BY <1>7 DEF PaceInv
<1>8. ASSUME ShotInv, PaceInv, Collect PROVE PaceInv'
  <2>1. (serverTick * Interval + timer + Unadded)' = serverTick * Interval + timer + Unadded
    BY <1>4, <1>8 DEF Collect, Unadded
  <2>2. QED BY <1>8, <2>1 DEF PaceInv, Collect
<1>9. ASSUME ShotInv, PaceInv, SendSnapshot PROVE PaceInv'
  <2>1. /\ timer' = timer - Interval /\ timer >= Interval /\ serverTick' = (serverTick + 1) % TickWidth
        /\ phase' = phase /\ phase = "snapshot" /\ elapsed' = elapsed
    BY <1>9 DEF SendSnapshot, Due
  <2>2. PICK b \in Nat : b = timer - Interval
    BY <1>4, <1>9, <2>1, ProjectileAssumption
  <2>3. PICK n \in Nat : n = serverTick
    BY <1>4, <1>9
  <2>4. n * Interval \in Nat /\ (n + 1) * Interval = n * Interval + Interval
    BY <1>4, <1>9, <2>3, ProjectileAssumption
  <2>5. serverTick * Interval + timer + Unadded = (n + 1) * Interval + b
    BY <2>1, <2>2, <2>3, <2>4, <1>4, <1>9, ProjectileAssumption DEF Unadded
  <2>6. ((n + 1) * Interval + b) % m = elapsed
    BY <1>1, <1>9, <2>5 DEF PaceInv
  <2>7. CASE n + 1 < TickWidth
    <3>1. serverTick' = n + 1
      BY <2>1, <2>3, <2>7, ProjectileAssumption
    <3>2. (serverTick * Interval + timer + Unadded)' = (n + 1) * Interval + b
      <4>1. Unadded' = 0 /\ timer' = b
        BY <2>1, <2>2 DEF Unadded
      <4>2. PICK c \in Nat : c = (n + 1) * Interval
        BY <2>4, ProjectileAssumption
      <4>3. serverTick' * Interval = c
        BY <3>1, <4>2
      <4>4. c + b + 0 = c + b
        OBVIOUS
      <4>5. QED BY <4>1, <4>2, <4>3, <4>4
    <3>3. QED BY <1>1, <2>1, <2>6, <3>2 DEF PaceInv
  <2>8. CASE ~(n + 1 < TickWidth)
    <3>1. n + 1 = TickWidth /\ serverTick' = 0
      BY <1>4, <1>9, <2>1, <2>3, <2>8, ProjectileAssumption
    <3>2. (n + 1) * Interval = m
      BY <1>1, <3>1, ProjectileAssumption
    <3>3. b % m = elapsed
      BY <2>6, <3>2, <1>3, <1>1
    <3>4. (serverTick * Interval + timer + Unadded)' = b
      BY <3>1, <2>1, <2>2, ProjectileAssumption DEF Unadded
    <3>5. QED BY <1>1, <2>1, <3>3, <3>4 DEF PaceInv
  <2>9. QED BY <2>7, <2>8
<1>10. ShotInv /\ PaceInv /\ [Next]_vars => PaceInv'
  <2>1. ShotInv /\ PaceInv /\ (HandleSpawn \/ SpawnsDone \/ FlyNext \/ FlightDone) => PaceInv'
    BY <1>7 DEF HandleSpawn, SpawnsDone, FlyNext, FlightDone, Unadded, clock
  <2>2. ShotInv /\ PaceInv /\ EndTick => PaceInv'
    BY <1>4, <1>7, ProjectileAssumption DEF EndTick, Unadded, clock, Due
  <2>3. ShotInv /\ PaceInv /\ UNCHANGED vars => PaceInv'
    BY <1>7 DEF vars, Unadded
  <2>4. QED BY <2>1, <2>2, <2>3, <1>6, <1>8, <1>9 DEF Next
<1>11. PaceInv /\ ShotInv => SnapshotPace
  BY <1>4 DEF PaceInv, SnapshotPace, Unadded
<1>12. QED BY <1>5, <1>10, <1>11, ShotInvariant, PTL DEF Spec
=============================================================================
