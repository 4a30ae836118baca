-------------------------------- MODULE KCC --------------------------------
(***************************************************************************)
(* The character controller (src/server/kcc): MovePlayer takes a player    *)
(* from where it stands by the displacement the motor wants, through a     *)
(* static world of boxes, and says whether it is on the ground.            *)
(*                                                                         *)
(* The model is the vertical plane of the movement, in whole units, with   *)
(* boxes aligned to the axes; a point or a direction is << x, y >>.  A     *)
(* displacement is a direction, one of the eight, and a number of steps in *)
(* it, so that every time of impact is a whole number of steps and the     *)
(* arithmetic is exact: only the rounding of floats is left out.  The      *)
(* epsilons of a centimetre keep their place as lengths of their own; the  *)
(* far smaller ones only tell zero from the rest.                          *)
(***************************************************************************)
EXTENDS Integers, Sequences, FiniteSetsExt

CONSTANTS
  Worlds,          \* sequences of boxes, in the order of CollisionWorld::boxes
  Spawn,           \* where the player enters
  Wanted,          \* displacements the motor asks for: [dir, len]
  Radius,          \* capsule.radius
  SkinWidth,
  HalfHeight,      \* of the capsule's axis
  MaxIterations,
  MaxStepDistance,
  SnapDistance,    \* groundSnapDistance
  SnapDistanceAir, \* groundSnapDistanceAir
  MinSlide,        \* minSlideSpeed
  MaxStepHeight,
  StepUpEps, StepForwardEps, StepDownExtra

Axis == {1, 2}
Direction == {d \in [Axis -> {-1, 0, 1}] : d # << 0, 0 >>}

\* A diagonal is longer than its steps, so it must not need to be split.
ASSUME KCCAssumption ==
  /\ \A d \in Wanted : d.dir \in Direction /\ d.len \in Nat
  /\ \A d \in Wanted : d.dir[1] # 0 /\ d.dir[2] # 0 => 2 * d.len <= MaxStepDistance
  /\ \A n \in {SkinWidth, HalfHeight, SnapDistance, SnapDistanceAir, MinSlide,
               MaxStepHeight, StepUpEps, StepForwardEps, StepDownExtra} : n \in Nat
  /\ Radius \in Nat /\ Radius > SkinWidth
  /\ MaxIterations \in Nat /\ MaxIterations >= 2
  /\ MaxStepDistance \in Nat \ {0}
  /\ SnapDistanceAir <= SnapDistance
  /\ MaxStepHeight <= HalfHeight

VARIABLES
  world,      \* g_collisionWorld.boxes; no action changes it
  center,     \* capsule.center, PlayerState::Position
  grounded,   \* PlayerState::IsGrounded
  phase,      \* "idle", or in MoveCapsule: "step" (its while), "slide", "snap"
  want,       \* desiredDelta
  moved,      \* movedLen
  remaining,  \* stepRemaining
  iter,       \* iterations of the slide loop used in this step
  groundHit,  \* anyGroundHit
  from        \* ghost: where the player stood when the move began

vars == << world, center, grounded, phase, want, moved, remaining, iter, groundHit, from >>

-----------------------------------------------------------------------------
(* Sweeping the capsule.                                                    *)

Up   == << 0, 1 >>
Down == << 0, -1 >>
Delta(dir, len) == [dir |-> dir, len |-> len]
Plus(c, d, n)   == << c[1] + n * d[1], c[2] + n * d[2] >>
Dot(d, n)       == d[1] * n[1] + d[2] * n[2]
Moves(dir)      == {a \in Axis : dir[a] # 0}
AxisVector(a, s) == [b \in Axis |-> IF b = a THEN s ELSE 0]

\* The box grown by the radius of a sphere, less the skin.
Low(b, a)  == b.lo[a] - (Radius - SkinWidth)
High(b, a) == b.hi[a] + (Radius - SkinWidth)
InsideOf(b, c) == \A a \in Axis : Low(b, a) < c[a] /\ c[a] < High(b, a)

\* The player enters where there is no box, and is no longer than its radius
\* allows: no box fits between two of the spheres that are swept.  (The server
\* moves capsules of radius 0.5, skin 0.02 and halfHeight 0.5; 0.9 is the default.)
ASSUME WorldAssumption ==
  /\ 2 * (Radius - SkinWidth) > HalfHeight
  /\ Spawn \in Int \X Int
  /\ \A w \in Worlds :
       /\ w \in Seq([lo : Int \X Int, hi : Int \X Int, walkable : BOOLEAN])
       /\ \A i \in DOMAIN w :
            /\ \A a \in Axis : w[i].lo[a] <= w[i].hi[a]
            /\ \A h \in {-HalfHeight, 0, HalfHeight} : ~InsideOf(w[i], Plus(Spawn, Up, h))

\* Steps to where axis a of the grown box is entered and left.
Near(b, c, dir, a) == IF dir[a] = 1 THEN Low(b, a) - c[a] ELSE c[a] - High(b, a)
Far(b, c, dir, a)  == IF dir[a] = 1 THEN High(b, a) - c[a] ELSE c[a] - Low(b, a)

Entry(b, c, dir) == Max({0} \cup {Near(b, c, dir, a) : a \in Moves(dir)})
Exit(b, c, d)    == Min({d.len} \cup {Far(b, c, d.dir, a) : a \in Moves(d.dir)})

Meets(b, c, d) ==
  /\ \A a \in Axis \ Moves(d.dir) : Low(b, a) <= c[a] /\ c[a] <= High(b, a)
  /\ Entry(b, c, d.dir) <= Exit(b, c, d)

\* The fallback for a start on or in the grown box: its nearest face.
NearestFace(b, p) ==
  LET depth(a) == Min({p[a] - Low(b, a), High(b, a) - p[a]})
      a        == IF depth(1) <= depth(2) THEN 1 ELSE 2
  IN AxisVector(a, IF 2 * p[a] >= b.lo[a] + b.hi[a] THEN 1 ELSE -1)

\* The axis that is entered last; x, if both are entered at once.
HitNormal(b, c, dir, k) ==
  LET entered == {a \in Moves(dir) : k > 0 /\ Near(b, c, dir, a) = k}
  IN IF entered = {} THEN NearestFace(b, c)
     ELSE AxisVector(Min(entered), -dir[Min(entered)])

\* Bug: touching is a collision, wherever the move goes.
Blocks_Touching(d, k, n) == TRUE

\* What is only touched blocks a move that presses against it.
Blocks(d, k, n) == k > 0 \/ Dot(d.dir, n) < 0

\* SweepSphereObb: the hit, if there is one.
SweepSphere(b, c, d) ==
  LET k == Entry(b, c, d.dir)
      n == HitNormal(b, c, d.dir, k)
  IN IF Meets(b, c, d) /\ Blocks(d, k, n)
     THEN {[k |-> k, n |-> n, walkable |-> b.walkable]} ELSE {}

\* Bug: only the middle of the capsule is swept.
Spheres_Center(c) == << c, c, c >>

\* topCenter, center, bottomCenter
Spheres(c) == << Plus(c, Up, HalfHeight), c, Plus(c, Down, HalfHeight) >>

Hits(c, spheres, d) ==
  UNION {{[hit |-> h, box |-> i, sphere |-> j] : h \in SweepSphere(world[i], Spheres(c)[j], d)} :
         i \in DOMAIN world, j \in spheres}

\* The earliest hit; among equals that of the first box, and of its first sphere.
Earliest(hits) ==
  LET before(g, h) == \/ g.hit.k < h.hit.k
                      \/ g.hit.k = h.hit.k /\ g.box < h.box
                      \/ g.hit.k = h.hit.k /\ g.box = h.box /\ g.sphere <= h.sphere
  IN {h.hit : h \in {g \in hits : \A h \in hits : before(g, h)}}

\* SweepAndFindFirstHit
Sweep(c, d) == Earliest(Hits(c, 1..3, d))

\* Bug: whatever is level is ground.
Stands_AnyBox(hit) == hit.n = Up

\* Ground is walkable, and not too steep: of the four faces only the top.
Stands(hit) == hit.walkable /\ hit.n = Up

-----------------------------------------------------------------------------
(* TryStepUp: up, forward, and down again; the position reached, if any.    *)

Shortened(len) == IF len > StepForwardEps THEN len - StepForwardEps ELSE 0

\* How high the player can be raised below what is above it.
Raise(c) ==
  LET above == Sweep(c, Delta(Up, MaxStepHeight))
  IN IF above = {} THEN MaxStepHeight
     ELSE (CHOOSE h \in above : TRUE).k - StepUpEps

Lands(under) == \E h \in under : Stands(h)

StepUp(c, d) ==
  LET forward == Delta(<< d.dir[1], 0 >>, Shortened(d.len))
      raised  == Plus(c, Up, Raise(c))
      ahead   == Plus(raised, forward.dir, forward.len)
      fall    == Delta(Down, Raise(c) + StepDownExtra + SnapDistance)
      under   == Sweep(ahead, fall)
  IN IF /\ d.dir[1] # 0 /\ forward.len > 0
        /\ Raise(c) > 0
        /\ Sweep(raised, forward) = {}
        /\ Lands(under)
     THEN {Plus(ahead, Down, (CHOOSE h \in under : TRUE).k)}
     ELSE {}

-----------------------------------------------------------------------------
(* MoveCapsule, one action per turn of its loops.                           *)

Init ==
  /\ world \in Worlds
  /\ center = Spawn /\ grounded = FALSE
  /\ phase = "idle" /\ want = Delta(Down, 0) /\ moved = 0 /\ remaining = Delta(Down, 0)
  /\ iter = 0 /\ groundHit = FALSE /\ from = Spawn

\* A move.  ResolveInitialPenetration finds nothing to correct, as NotInside
\* shows, so it is not modelled.
BeginMove ==
  /\ phase = "idle"
  /\ want' \in Wanted \cup {Delta(Down, 0)}
  /\ phase' = IF want'.len = 0 THEN "snap" ELSE "step"
  /\ moved' = 0 /\ groundHit' = FALSE /\ from' = center
  /\ UNCHANGED << world, center, grounded, remaining, iter >>

\* Bug: every part is as long as the first.
StepLength_Same == Min({want.len, MaxStepDistance})
StepLength == Min({want.len - moved, MaxStepDistance})

\* The next part of a long move goes in the wanted direction again, wherever
\* the one before has slid.
BeginStep ==
  /\ phase = "step" /\ moved < want.len
  /\ remaining' = Delta(want.dir, StepLength)
  /\ iter' = 0 /\ phase' = "slide"
  /\ UNCHANGED << world, center, grounded, want, moved, groundHit, from >>

Sliding == phase = "slide" /\ iter < MaxIterations /\ remaining.len > 0
First   == CHOOSE h \in Sweep(center, remaining) : TRUE
StepsUp ==
  IF MaxStepHeight > 0 /\ First.n # Up THEN StepUp(center, remaining) ELSE {}

Stop == Delta(remaining.dir, 0)

MoveFreely ==
  /\ Sliding /\ Sweep(center, remaining) = {}
  /\ center' = Plus(center, remaining.dir, remaining.len)
  /\ remaining' = Stop
  /\ UNCHANGED << world, grounded, phase, want, moved, iter, groundHit, from >>

MoveUpStep ==
  /\ Sliding /\ Sweep(center, remaining) # {}
  /\ center' \in StepsUp
  /\ remaining' = Stop
  /\ UNCHANGED << world, grounded, phase, want, moved, iter, groundHit, from >>

\* Bug: what is left keeps its part into the face.
Slid_Not(d, hit) == Delta(d.dir, d.len - hit.k)

\* The rest of the step without its part along the normal; too short a rest
\* is dropped.
Slid(d, hit) ==
  LET dir  == [a \in Axis |-> IF hit.n[a] # 0 THEN 0 ELSE d.dir[a]]
      left == d.len - hit.k
  IN IF Moves(dir) = {} \/ left <= MinSlide THEN Delta(d.dir, 0) ELSE Delta(dir, left)

\* Up to the hit, and along the face from there.  Ground counts only if the
\* slide goes on.
Slide ==
  /\ Sliding /\ Sweep(center, remaining) # {} /\ StepsUp = {}
  /\ center' = Plus(center, remaining.dir, First.k)
  /\ remaining' = Slid(remaining, First)
  /\ groundHit' = (groundHit \/ (Slid(remaining, First).len > 0 /\ Stands(First)))
  /\ iter' = iter + 1
  /\ UNCHANGED << world, grounded, phase, want, moved, from >>

EndStep ==
  /\ phase = "slide" /\ ~Sliding
  /\ moved' = moved + StepLength
  /\ phase' = "step"
  /\ UNCHANGED << world, center, grounded, want, remaining, iter, groundHit, from >>

AllStepsDone ==
  /\ phase = "step" /\ moved >= want.len
  /\ phase' = "snap"
  /\ UNCHANGED << world, center, grounded, want, moved, remaining, iter, groundHit, from >>

SnapReach == IF grounded THEN SnapDistance ELSE SnapDistanceAir

\* DoGroundSnap asks for the lower sphere only, and within its reach.
BelowFeet ==
  Earliest({h \in Hits(center, {3}, Delta(Down, SnapReach)) : h.hit.k < SnapReach})

Snaps == want.dir[2] <= 0 /\ \E h \in BelowFeet : Stands(h)

\* The move is over: MovePlayer writes position and ground back.
GroundSnap ==
  /\ phase = "snap"
  /\ IF Snaps THEN \E h \in BelowFeet : center' = Plus(center, Down, h.k)
              ELSE UNCHANGED center
  /\ grounded' = (groundHit \/ Snaps)
  /\ phase' = "idle" /\ moved' = 0 /\ iter' = 0 /\ groundHit' = FALSE
  /\ UNCHANGED << world, want, remaining, from >>

Next ==
  \/ BeginMove \/ BeginStep
  \/ MoveFreely \/ MoveUpStep \/ Slide
  \/ EndStep \/ AllStepsDone \/ GroundSnap

Spec == Init /\ [][Next]_vars

-----------------------------------------------------------------------------
(* Properties.                                                              *)

\* Types; in particular no move counts further than it wanted to go.
TypeOK ==
  /\ world \in Worlds /\ center \in Int \X Int /\ from \in Int \X Int
  /\ grounded \in BOOLEAN /\ groundHit \in BOOLEAN
  /\ phase \in {"idle", "step", "slide", "snap"}
  /\ want \in Wanted \cup {Delta(Down, 0)}
  /\ moved \in 0..want.len /\ iter \in 0..MaxIterations
  /\ remaining \in [dir : Direction, len : Nat]

\* No part of the capsule, less its skin, is ever inside a box, at no moment of
\* a move, although only three spheres of it are swept: not after a slide, a
\* step up or a snap, which looks below one sphere only, nor after a move so
\* long that it is split.  So there is never a penetration to resolve.
NotInside ==
  \A i \in DOMAIN world, h \in -HalfHeight..HalfHeight :
    ~InsideOf(world[i], Plus(center, Up, h))

\* The slide loop never stops because its iterations are used up: each turn
\* makes progress, and what is left of a step is too short to matter.
IterationsSuffice ==
  phase = "slide" /\ iter = MaxIterations => remaining.len = 0

\* What notes.md is about: a player that touches a box can still move away
\* from it and along it.  If a move meets nothing but faces it touches and
\* does not press against, it goes all the way; only a move that does not go
\* up may then be drawn to the ground.
Faces(b, c) ==
  {a \in Axis : /\ c[a] \in {Low(b, a), High(b, a)}
                /\ Low(b, 3 - a) < c[3 - a] /\ c[3 - a] < High(b, 3 - a)}
Outward(b, c, a) == AxisVector(a, IF c[a] = Low(b, a) THEN -1 ELSE 1)
Open(c, d) ==
  \A i \in DOMAIN world, j \in 1..3 :
    LET b == world[i]
        s == Spheres(c)[j]
    IN ~Meets(b, s, d) \/ \E a \in Faces(b, s) : Dot(d.dir, Outward(b, s, a)) >= 0
LeavesContact ==
  phase = "idle" /\ Open(from, want) =>
    LET goal == Plus(from, want.dir, want.len)
    IN /\ center[1] = goal[1]
       /\ center[2] \in (IF want.dir[2] = 1 THEN {goal[2]}
                                            ELSE (goal[2] - SnapDistance)..goal[2])

\* Nothing that is touched holds the player, nor the slide that meets it.
NeverStuck == LeavesContact /\ IterationsSuffice

\* On the ground means on a walkable top.  The one exception lasts one move:
\* ground that an oblique fall touched on its way still counts when the slide
\* along it has gone past its edge.
Rests(c) ==
  \E i \in DOMAIN world :
    LET b == world[i]
        s == Spheres(c)[3]
    IN b.walkable /\ s[2] = High(b, 2) /\ Low(b, 1) <= s[1] /\ s[1] <= High(b, 1)
GroundIsReal ==
  [][phase = "snap" /\ phase' = "idle" /\ grounded' =>
       \/ Rests(center')
       \/ /\ want.dir[1] # 0 /\ want.dir[2] = -1
          /\ \E n \in 0..(want.len - 1) : Rests(Plus(from, want.dir, n))]_vars

\* A move goes sideways only towards where it was wanted, and no further, in
\* however many parts it is made.  One that does not go up raises the player by
\* a step at most in each part; if it has one part, onto a walkable top.
NoOvershoot ==
  phase = "idle" =>
    /\ (center[1] - from[1]) * want.dir[1] \in 0..want.len
    /\ want.dir[1] = 0 => center[1] = from[1]
    /\ want.dir[2] <= 0 /\ center[2] > from[2] =>
         /\ \E parts \in 1..want.len : /\ (parts - 1) * MaxStepDistance < want.len
                                      /\ center[2] - from[2] <= parts * MaxStepHeight
         /\ want.len <= MaxStepDistance => Rests(center)

\* What the comment on the slide says: the player stops a skin's width before
\* the face it hits.  Beside a face, the capsule would never reach into the box.
SkinKept ==
  phase = "idle" =>
    \A i \in DOMAIN world, j \in 1..3, a \in Axis :
      LET b == world[i]
          s == Spheres(center)[j]
      IN b.lo[3 - a] <= s[3 - a] /\ s[3 - a] <= b.hi[3 - a] =>
           s[a] <= b.lo[a] - Radius \/ b.hi[a] + Radius <= s[a]
============================================================================
