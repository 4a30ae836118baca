----------------------------- MODULE KCCProofs -----------------------------
(***************************************************************************)
(* For every world of boxes, every displacement and every capsule no       *)
(* longer than its radius allows: the variables of a move keep their       *)
(* types, no part of the capsule is ever inside a box, no move goes        *)
(* further or higher than it may, what is on the ground was on a walkable  *)
(* top, and nothing that is only touched holds the player.                 *)
(***************************************************************************)
EXTENDS KCC, NaturalsInduction, WellFoundedInduction, TLAPS

Point == Int \X Int
BoxType == [lo : Point, hi : Point, walkable : BOOLEAN]

(* None of the spheres that are swept is inside a box.                      *)
Clear(c) == \A i \in DOMAIN world, j \in 1..3 : ~InsideOf(world[i], Spheres(c)[j])

-----------------------------------------------------------------------------
\* What the times of a sweep of one sphere against one box are: when its last
\* axis is entered and its first is left.  And the fallback's face, for a sphere
\* that starts on the surface of the box, is one it is on: that of x, if it is
\* on one.
LEMMA SweepTimes ==
  ASSUME NEW b \in BoxType, \A a \in Axis : b.lo[a] <= b.hi[a], NEW dir \in Direction
  PROVE  /\ \A a \in Axis : Low(b, a) \in Int /\ High(b, a) \in Int /\ Low(b, a) < High(b, a)
         /\ \A q \in Point :
              /\ \A a \in Axis : Near(b, q, dir, a) \in Int /\ Far(b, q, dir, a) \in Int
              /\ Entry(b, q, dir) \in Nat
              /\ \A a \in Moves(dir) : Near(b, q, dir, a) <= Entry(b, q, dir)
              /\ Entry(b, q, dir) = 0 \/ \E a \in Moves(dir) : Entry(b, q, dir) = Near(b, q, dir, a)
         /\ \A q \in Point, l \in Nat :
              /\ Exit(b, q, Delta(dir, l)) \in Int /\ Exit(b, q, Delta(dir, l)) <= l
              /\ \/ Exit(b, q, Delta(dir, l)) = l
                 \/ \E a \in Moves(dir) : Exit(b, q, Delta(dir, l)) = Far(b, q, dir, a)
              /\ \A a \in Moves(dir) : Exit(b, q, Delta(dir, l)) <= Far(b, q, dir, a)
         /\ \A q \in Point :
              /\ \A a \in Axis : Low(b, a) <= q[a] /\ q[a] <= High(b, a)
              /\ \E a \in Axis : q[a] = Low(b, a) \/ q[a] = High(b, a)
              => \E f \in Axis :
                   /\ \/ q[f] = Low(b, f) /\ Dot(dir, NearestFace(b, q)) = -dir[f]
                                          /\ NearestFace(b, q)[f] = -1
                      \/ q[f] = High(b, f) /\ Dot(dir, NearestFace(b, q)) = dir[f]
                                           /\ NearestFace(b, q)[f] = 1
                   /\ q[1] = Low(b, 1) \/ q[1] = High(b, 1) => f = 1
<1>1. /\ Radius \in Nat /\ SkinWidth \in Nat /\ Radius > SkinWidth
      /\ \A a \in Axis : dir[a] \in {-1, 0, 1} /\ b.lo[a] \in Int /\ b.hi[a] \in Int
      /\ Axis = {1, 2}
  BY KCCAssumption DEF Direction, Point, BoxType, Axis
<1>2. \A a \in Axis : /\ Low(b, a) \in Int /\ High(b, a) \in Int /\ Low(b, a) < High(b, a)
                      /\ 2 * Low(b, a) < b.lo[a] + b.hi[a] /\ b.lo[a] + b.hi[a] < 2 * High(b, a)
  BY <1>1 DEF Low, High
\* The smallest and the largest of at most three numbers.
<1>3. ASSUME NEW x \in Int, NEW y \in Int, NEW z \in Int, NEW S, S = {x, y, z}
      PROVE  /\ Max(S) \in S /\ \A v \in S : v <= Max(S)
             /\ Min(S) \in S /\ \A v \in S : Min(S) <= v
  <2>1. \E m \in {x, y, z} : m >= x /\ m >= y /\ m >= z
    <3>1. (x >= y /\ x >= z) \/ (y >= x /\ y >= z) \/ (z >= x /\ z >= y)
      BY <1>3
    <3>2. x >= x /\ y >= y /\ z >= z
      BY <1>3
    <3>3. QED BY <3>1, <3>2, Zenon
  <2>2. \E m \in {x, y, z} : m <= x /\ m <= y /\ m <= z
    <3>1. (x <= y /\ x <= z) \/ (y <= x /\ y <= z) \/ (z <= x /\ z <= y)
      BY <1>3
    <3>2. x <= x /\ y <= y /\ z <= z
      BY <1>3
    <3>3. QED BY <3>1, <3>2, Zenon
  <2>3. (\E m \in S : \A v \in S : m >= v) /\ (\E m \in S : \A v \in S : m <= v)
    BY <1>3, <2>1, <2>2, Zenon
  <2>4. Max(S) \in S /\ \A v \in S : Max(S) >= v
    BY <2>3 DEF Max
  <2>5. Min(S) \in S /\ \A v \in S : Min(S) <= v
    BY <2>3 DEF Min
  <2>6. \A u, v \in S : u >= v <=> v <= u
    BY <1>3
  <2>7. QED BY <2>4, <2>5, <2>6
<1>4. Moves(dir) \in SUBSET Axis
  BY DEF Moves
\* The times of a sweep from q: when its last axis is entered, its first left.
<1>5. ASSUME NEW q \in Point
      PROVE  /\ \A a \in Axis : Near(b, q, dir, a) \in Int /\ Far(b, q, dir, a) \in Int
             /\ Entry(b, q, dir) \in Nat
             /\ \A a \in Moves(dir) : Near(b, q, dir, a) <= Entry(b, q, dir)
             /\ Entry(b, q, dir) = 0 \/ \E a \in Moves(dir) : Entry(b, q, dir) = Near(b, q, dir, a)
  <2> DEFINE S == {0} \cup {Near(b, q, dir, a) : a \in Moves(dir)}
             N(a) == IF a \in Moves(dir) THEN Near(b, q, dir, a) ELSE 0
  <2>1. \A a \in Axis : Near(b, q, dir, a) \in Int /\ Far(b, q, dir, a) \in Int
    <3>1. \A a \in Axis : q[a] \in Int
      BY DEF Point, Axis
    <3>2. QED BY <1>1, <1>2, <3>1 DEF Near, Far
  <2>2. S = {0, N(1), N(2)} /\ N(1) \in Int /\ N(2) \in Int
    BY <1>1, <1>4, <2>1
  <2>3. S \subseteq Int /\ 0 \in S
    BY <1>4, <2>1
  <2>4. Max(S) \in S /\ \A v \in S : v <= Max(S)
    <3> HIDE DEF S, N
    <3>1. QED BY <1>3, <2>2
  <2>5. Entry(b, q, dir) = Max(S)
    BY DEF Entry
  <2>6. Entry(b, q, dir) \in Nat
    <3> HIDE DEF S
    <3>1. Max(S) \in Int
      BY <2>3, <2>4
    <3>2. 0 <= Max(S)
      BY <2>3, <2>4
    <3>3. Entry(b, q, dir) \in Int /\ 0 <= Entry(b, q, dir)
      BY <2>5, <3>1, <3>2, Zenon
    <3>4. QED BY <3>3
  <2>7. QED BY <2>1, <2>4, <2>5, <2>6
<1>6. ASSUME NEW q \in Point, NEW l \in Nat
      PROVE  /\ Exit(b, q, Delta(dir, l)) \in Int /\ Exit(b, q, Delta(dir, l)) <= l
             /\ \/ Exit(b, q, Delta(dir, l)) = l
                \/ \E a \in Moves(dir) : Exit(b, q, Delta(dir, l)) = Far(b, q, dir, a)
             /\ \A a \in Moves(dir) : Exit(b, q, Delta(dir, l)) <= Far(b, q, dir, a)
  <2> DEFINE S == {l} \cup {Far(b, q, dir, a) : a \in Moves(dir)}
             F(a) == IF a \in Moves(dir) THEN Far(b, q, dir, a) ELSE l
  <2>1. S = {l, F(1), F(2)} /\ F(1) \in Int /\ F(2) \in Int
    BY <1>1, <1>4, <1>5
  <2>2. S \subseteq Int /\ l \in S
    BY <1>4, <1>5
  <2>3. Min(S) \in S /\ \A v \in S : Min(S) <= v
    <3>1. l \in Int
      OBVIOUS
    <3> HIDE DEF S, F
    <3>2. QED BY <1>3, <2>1, <3>1
  <2>4. Exit(b, q, Delta(dir, l)) = Min(S)
    BY DEF Exit, Delta
  <2>5. QED BY <2>2, <2>3, <2>4
\* The fallback's face, for a start on the surface, is one the start is on.
<1>7. ASSUME NEW q \in Point, \A a \in Axis : Low(b, a) <= q[a] /\ q[a] <= High(b, a),
             NEW e \in Axis, q[e] = Low(b, e) \/ q[e] = High(b, e)
      PROVE  \E f \in Axis :
               /\ \/ q[f] = Low(b, f) /\ Dot(dir, NearestFace(b, q)) = -dir[f]
                                      /\ NearestFace(b, q)[f] = -1
                  \/ q[f] = High(b, f) /\ Dot(dir, NearestFace(b, q)) = dir[f]
                                       /\ NearestFace(b, q)[f] = 1
               /\ q[1] = Low(b, 1) \/ q[1] = High(b, 1) => f = 1
  <2> DEFINE n == NearestFace(b, q)
             depth(a) == Min({q[a] - Low(b, a), High(b, a) - q[a]})
  <2>1. \A a \in Axis : q[a] \in Int
    BY DEF Point, Axis
  <2>2. \A a \in Axis : /\ depth(a) \in Nat
                        /\ depth(a) = 0 <=> q[a] = Low(b, a) \/ q[a] = High(b, a)
    <3>1. ASSUME NEW a \in Axis
          PROVE  depth(a) \in Nat /\ (depth(a) = 0 <=> q[a] = Low(b, a) \/ q[a] = High(b, a))
      <4>1. \A x, y \in Nat : Min({x, y}) = IF x <= y THEN x ELSE y
        BY DEF Min
      <4>2. q[a] - Low(b, a) \in Nat /\ High(b, a) - q[a] \in Nat
        BY <1>2, <1>7, <2>1
      <4>3. ASSUME NEW x \in Nat, NEW y \in Nat
            PROVE  Min({x, y}) \in Nat /\ (Min({x, y}) = 0 <=> x = 0 \/ y = 0)
        BY <4>1
      <4>4. depth(a) \in Nat /\ (depth(a) = 0 <=> q[a] - Low(b, a) = 0 \/ High(b, a) - q[a] = 0)
        BY <4>2, <4>3, Zenon
      <4>5. /\ q[a] - Low(b, a) = 0 <=> q[a] = Low(b, a)
            /\ High(b, a) - q[a] = 0 <=> q[a] = High(b, a)
        BY <1>2, <2>1, <3>1
      <4> HIDE DEF depth
      <4>6. QED BY <4>4, <4>5, Zenon
    <3>2. QED BY <3>1
  <2> DEFINE f == IF depth(1) <= depth(2) THEN 1 ELSE 2
  <2>3. /\ f \in Axis /\ (q[f] = Low(b, f) \/ q[f] = High(b, f))
        /\ q[1] = Low(b, 1) \/ q[1] = High(b, 1) => f = 1
    <3>1. depth(1) = 0 \/ depth(2) = 0
      BY <1>1, <1>7, <2>2
    <3>2. depth(1) \in Nat /\ depth(2) \in Nat
      BY <1>1, <2>2
    <3> HIDE DEF depth
    <3>3. f \in Axis /\ depth(f) = 0 /\ (depth(1) = 0 => f = 1)
      BY <1>1, <3>1, <3>2
    <3>4. QED BY <1>1, <2>2, <3>3
  <2>4. n = AxisVector(f, IF 2 * q[f] >= b.lo[f] + b.hi[f] THEN 1 ELSE -1)
    BY DEF NearestFace
  <2> HIDE DEF f, n
  <2>5. Dot(dir, n) = dir[f] * n[f] /\ n[f] = IF 2 * q[f] >= b.lo[f] + b.hi[f] THEN 1 ELSE -1
    <3>1. n[f] = (IF 2 * q[f] >= b.lo[f] + b.hi[f] THEN 1 ELSE -1) /\ \A a \in Axis \ {f} : n[a] = 0
      BY <2>3, <2>4 DEF AxisVector
    <3>2. CASE f = 1
      BY <1>1, <3>1, <3>2 DEF Dot
    <3>3. CASE f = 2
      BY <1>1, <3>1, <3>3 DEF Dot
    <3>4. QED BY <1>1, <2>3, <3>1, <3>2, <3>3
  <2>6. CASE q[f] = Low(b, f)
    <3>1. n[f] = -1 /\ Dot(dir, n) = -dir[f]
      BY <1>1, <1>2, <2>1, <2>3, <2>5, <2>6
    <3>2. QED BY <2>3, <2>6, <3>1 DEF n
  <2>7. CASE q[f] = High(b, f)
    <3>1. n[f] = 1 /\ Dot(dir, n) = dir[f]
      BY <1>1, <1>2, <2>1, <2>3, <2>5, <2>7
    <3>2. QED BY <2>3, <2>7, <3>1 DEF n
  <2>8. QED BY <2>3, <2>6, <2>7
<1>8. QED BY <1>2, <1>5, <1>6, <1>7

\* When a sphere is stopped, and where it is when it lands.  One that would go
\* into a box has a hit before it does, even if it touches the box from the
\* start.  One that hits a top stands at its height, above the box or at its
\* edge: within its edges if it has not moved, and past the first of them if it
\* has moved sideways.
LEMMA FirstTouch ==
  ASSUME NEW b \in BoxType, \A a \in Axis : b.lo[a] <= b.hi[a],
         NEW c \in Point, NEW dir \in Direction, NEW len \in Nat, ~InsideOf(b, c)
  PROVE  /\ /\ \A a \in Axis \ Moves(dir) : Low(b, a) < c[a] /\ c[a] < High(b, a)
            /\ Entry(b, c, dir) < Exit(b, c, Delta(dir, len))
            => SweepSphere(b, c, Delta(dir, len)) # {}
         /\ \A h \in SweepSphere(b, c, Delta(dir, len)) : h.n = Up =>
              /\ dir[2] = -1 /\ h.k = Entry(b, c, dir) /\ c[2] - h.k = High(b, 2)
              /\ Low(b, 1) <= c[1] + h.k * dir[1] /\ c[1] + h.k * dir[1] <= High(b, 1)
              /\ h.k = 0 => Low(b, 1) < c[1] /\ c[1] < High(b, 1)
              /\ h.k > 0 /\ dir[1] # 0 => Near(b, c, dir, 1) < h.k
<1> DEFINE d == Delta(dir, len)
           k == Entry(b, c, dir)
           n == HitNormal(b, c, dir, k)
<1>1. /\ d.dir = dir /\ d.len = len /\ Axis = {1, 2}
      /\ \A a \in Axis : dir[a] \in {-1, 0, 1} /\ c[a] \in Int
      /\ Moves(dir) \in SUBSET Axis
  BY DEF Delta, Direction, Point, Axis, Moves
<1>2. /\ \A a \in Axis : Low(b, a) \in Int /\ High(b, a) \in Int /\ Low(b, a) < High(b, a)
      /\ \A a \in Axis : Near(b, c, dir, a) \in Int /\ Far(b, c, dir, a) \in Int
      /\ k \in Nat /\ \A a \in Moves(dir) : Near(b, c, dir, a) <= k
      /\ k = 0 \/ \E a \in Moves(dir) : k = Near(b, c, dir, a)
      /\ Exit(b, c, d) \in Int /\ Exit(b, c, d) <= len
      /\ \A a \in Moves(dir) : Exit(b, c, d) <= Far(b, c, dir, a)
  BY SweepTimes
<1> HIDE DEF d, k
\* From the start within all axes, a sphere that is not inside is on a face.
<1>3. ASSUME \A a \in Axis : Low(b, a) <= c[a] /\ c[a] <= High(b, a)
      PROVE  \E f \in Axis : /\ \/ c[f] = Low(b, f) /\ Dot(dir, NearestFace(b, c)) = -dir[f]
                                                    /\ NearestFace(b, c)[f] = -1
                                \/ c[f] = High(b, f) /\ Dot(dir, NearestFace(b, c)) = dir[f]
                                                     /\ NearestFace(b, c)[f] = 1
                             /\ c[1] = Low(b, 1) \/ c[1] = High(b, 1) => f = 1
  <2>1. \E a \in Axis : c[a] = Low(b, a) \/ c[a] = High(b, a)
    <3>1. PICK a \in Axis : ~(Low(b, a) < c[a] /\ c[a] < High(b, a))
      BY DEF InsideOf
    <3>2. QED BY <1>1, <1>2, <1>3, <3>1
  <2>2. QED BY <1>3, <2>1, SweepTimes, Zenon
\* With no time passed, where the axes it moves in are entered.
<1>4. ASSUME k = 0, 0 <= Exit(b, c, d), NEW a \in Moves(dir)
      PROVE  /\ Low(b, a) <= c[a] /\ c[a] <= High(b, a) /\ dir[a] \in {-1, 1}
             /\ Exit(b, c, d) > 0 => /\ c[a] = Low(b, a) => dir[a] = 1
                                     /\ c[a] = High(b, a) => dir[a] = -1
  <2>1. a \in Axis /\ dir[a] \in {-1, 1} /\ Near(b, c, dir, a) <= 0 /\ Exit(b, c, d) <= Far(b, c, dir, a)
    BY <1>1, <1>2, <1>4 DEF Moves
  <2>2. CASE dir[a] = 1
    BY <1>1, <1>2, <1>4, <2>1, <2>2 DEF Near, Far
  <2>3. CASE dir[a] = -1
    BY <1>1, <1>2, <1>4, <2>1, <2>3 DEF Near, Far
  <2>4. QED BY <2>1, <2>2, <2>3
<1>5. ASSUME \A a \in Axis \ Moves(dir) : Low(b, a) < c[a] /\ c[a] < High(b, a),
             k < Exit(b, c, d), SweepSphere(b, c, d) = {}
      PROVE  FALSE
  <2>1. Meets(b, c, d)
    BY <1>1, <1>2, <1>5 DEF Meets, k
  <2>2. ~Blocks(d, k, n)
    BY <1>1, <1>5, <2>1 DEF SweepSphere, k
  <2>3. k = 0 /\ ~(Dot(dir, n) < 0)
    BY <1>1, <1>2, <2>2 DEF Blocks
  <2>4. n = NearestFace(b, c)
    BY <2>3 DEF HitNormal
  \* It moves into the box along the axes of its motion, so it presses.
  <2>5. \A a \in Axis : /\ Low(b, a) <= c[a] /\ c[a] <= High(b, a)
                        /\ c[a] = Low(b, a) => dir[a] = 1
                        /\ c[a] = High(b, a) => dir[a] = -1
    <3>1. ASSUME NEW a \in Axis PROVE /\ Low(b, a) <= c[a] /\ c[a] <= High(b, a)
                                      /\ c[a] = Low(b, a) => dir[a] = 1
                                      /\ c[a] = High(b, a) => dir[a] = -1
      <4>1. CASE a \in Moves(dir)
        BY <1>2, <1>4, <1>5, <2>3, <4>1
      <4>2. CASE a \notin Moves(dir)
        BY <1>1, <1>2, <1>5, <3>1, <4>2
      <4>3. QED BY <4>1, <4>2
    <3>2. QED BY <3>1
  <2>6. PICK f \in Axis : \/ c[f] = Low(b, f) /\ Dot(dir, n) = -dir[f]
                          \/ c[f] = High(b, f) /\ Dot(dir, n) = dir[f]
    BY <1>3, <2>4, <2>5
  <2> HIDE DEF n
  <2>7. QED BY <1>1, <1>2, <2>3, <2>5, <2>6
<1>6. ASSUME NEW h \in SweepSphere(b, c, d), h.n = Up
      PROVE  /\ dir[2] = -1 /\ h.k = k /\ c[2] - h.k = High(b, 2)
             /\ Low(b, 1) <= c[1] + h.k * dir[1] /\ c[1] + h.k * dir[1] <= High(b, 1)
             /\ h.k = 0 => Low(b, 1) < c[1] /\ c[1] < High(b, 1)
             /\ h.k > 0 /\ dir[1] # 0 => Near(b, c, dir, 1) < h.k
  <2>1. h.k = k /\ n = Up /\ Meets(b, c, d) /\ Blocks(d, k, n)
    BY <1>1, <1>6 DEF SweepSphere, k
  <2>2. /\ k <= Exit(b, c, d)
        /\ \A a \in Axis \ Moves(dir) : Low(b, a) <= c[a] /\ c[a] <= High(b, a)
    BY <1>1, <2>1 DEF Meets, k
  <2>3. CASE k > 0
    <3> DEFINE entered == {a \in Moves(dir) : k > 0 /\ Near(b, c, dir, a) = k}
    <3>1. entered # {} /\ entered \subseteq {1, 2}
      BY <1>1, <1>2, <2>3
    <3>2. \E x \in entered : \A y \in entered : x <= y
      <4> HIDE DEF entered
      <4>1. CASE 1 \in entered
        BY <3>1, <4>1
      <4>2. CASE 1 \notin entered
        <5>1. entered = {2}
          BY <3>1, <4>2
        <5>2. QED BY <5>1
      <4>3. QED BY <4>1, <4>2
    <3>3. Min(entered) \in entered /\ \A y \in entered : Min(entered) <= y
      BY <3>2 DEF Min
    <3>4. n = AxisVector(Min(entered), -dir[Min(entered)])
      BY <3>1 DEF HitNormal
    <3>5. Min(entered) = 2 /\ dir[2] = -1
      <4> DEFINE a == Min(entered)
      <4>1. a \in Axis /\ n = AxisVector(a, -dir[a])
        BY <1>1, <3>3, <3>4
      <4> HIDE DEF a
      <4>2. AxisVector(a, -dir[a])[2] = 1
        BY <2>1, <4>1 DEF Up
      <4>3. a = 2 /\ -dir[2] = 1
        BY <1>1, <4>1, <4>2 DEF AxisVector
      <4>4. QED BY <1>1, <4>3 DEF a
    <3>6. Near(b, c, dir, 2) = k /\ 2 \in Moves(dir) /\ 1 \notin entered
      BY <3>3, <3>5
    <3>7. c[2] - k = High(b, 2)
      BY <1>1, <1>2, <3>5, <3>6 DEF Near
    <3>8. CASE dir[1] = 0
      <4>1. Low(b, 1) <= c[1] /\ c[1] <= High(b, 1)
        BY <1>1, <2>2, <3>8 DEF Moves
      <4>2. c[1] + k * dir[1] = c[1]
        BY <1>1, <1>2, <3>8
      <4>3. QED BY <2>1, <2>3, <3>5, <3>7, <3>8, <4>1, <4>2
    <3>9. CASE dir[1] # 0
      <4>1. 1 \in Moves(dir) /\ Near(b, c, dir, 1) # k
        BY <1>1, <2>3, <3>6, <3>9 DEF Moves
      <4>2. Near(b, c, dir, 1) < k /\ k <= Far(b, c, dir, 1)
        BY <1>1, <1>2, <2>2, <4>1
      <4>3. Low(b, 1) <= c[1] + k * dir[1] /\ c[1] + k * dir[1] <= High(b, 1)
        <5>1. CASE dir[1] = 1
          BY <1>1, <1>2, <4>2, <5>1 DEF Near, Far
        <5>2. CASE dir[1] = -1
          BY <1>1, <1>2, <4>2, <5>2 DEF Near, Far
        <5>3. QED BY <1>1, <3>9, <5>1, <5>2
      <4>4. QED BY <2>1, <2>3, <3>5, <3>7, <4>2, <4>3
    <3>10. QED BY <3>8, <3>9
  <2>4. CASE k = 0
    <3>1. NearestFace(b, c) = Up /\ Dot(dir, Up) < 0
      BY <1>1, <2>1, <2>4 DEF HitNormal, Blocks
    <3>2. dir[2] = -1
      BY <1>1, <3>1 DEF Dot, Up
    <3>3. \A a \in Axis : Low(b, a) <= c[a] /\ c[a] <= High(b, a)
      BY <1>1, <1>2, <1>4, <2>2, <2>4
    <3>4. PICK f \in Axis : /\ \/ c[f] = Low(b, f) /\ NearestFace(b, c)[f] = -1
                               \/ c[f] = High(b, f) /\ NearestFace(b, c)[f] = 1
                            /\ c[1] = Low(b, 1) \/ c[1] = High(b, 1) => f = 1
      BY <1>3, <3>3
    <3>5. f = 2 /\ c[2] = High(b, 2)
      BY <1>1, <3>1, <3>4 DEF Up
    <3>6. Low(b, 1) < c[1] /\ c[1] < High(b, 1)
      BY <1>1, <1>2, <3>3, <3>4, <3>5
    <3>7. h.k = 0 /\ c[1] + h.k * dir[1] = c[1] /\ c[2] - h.k = c[2]
      BY <1>1, <2>1, <2>4
    <3>8. Low(b, 1) <= c[1] /\ c[1] <= High(b, 1)
      BY <1>1, <3>3
    <3>9. QED BY <2>1, <3>2, <3>5, <3>6, <3>7, <3>8
  <2>5. QED BY <1>2, <2>3, <2>4
<1>7. QED BY <1>1, <1>5, <1>6 DEF d, k

\* What the sweep of one sphere against one box says.  A hit lies within the
\* sweep, on a face that stops it.  A sphere that starts outside a box is
\* outside all the way to the hit, and all the way if there is none: what it
\* only touches, and does not press against, it does not enter.  And a sphere
\* that has nothing before it but a face it touches meets nothing on any part
\* of its way.
LEMMA SphereSweep ==
  ASSUME NEW b \in BoxType, \A a \in Axis : b.lo[a] <= b.hi[a],
         NEW c \in Point, NEW dir \in Direction, NEW len \in Nat
  PROVE  /\ Entry(b, c, dir) \in Nat
         /\ Meets(b, c, Delta(dir, len)) => Entry(b, c, dir) <= len
         /\ ~InsideOf(b, c) => \A t \in 0..len :
              SweepSphere(b, c, Delta(dir, len)) = {} \/ t <= Entry(b, c, dir) =>
                ~InsideOf(b, Plus(c, dir, t))
         /\ \A h \in SweepSphere(b, c, Delta(dir, len)) : \E a \in Moves(dir) : h.n[a] # 0
         /\ \/ ~Meets(b, c, Delta(dir, len))
            \/ \E a \in Faces(b, c) : Dot(dir, Outward(b, c, a)) >= 0
            => \A m, l \in Nat : m + l <= len =>
                 SweepSphere(b, Plus(c, dir, m), Delta(dir, l)) = {}
<1> DEFINE d == Delta(dir, len)
<1>1. /\ Radius \in Nat /\ SkinWidth \in Nat /\ Radius > SkinWidth
      /\ d.dir = dir /\ d.len = len
      /\ \A a \in Axis : dir[a] \in {-1, 0, 1} /\ c[a] \in Int /\ b.lo[a] \in Int /\ b.hi[a] \in Int
      /\ Axis = {1, 2}
  BY KCCAssumption DEF Delta, Direction, Point, BoxType, Axis
<1>2. \A a \in Axis : /\ Low(b, a) \in Int /\ High(b, a) \in Int /\ Low(b, a) < High(b, a)
                      /\ 2 * Low(b, a) < b.lo[a] + b.hi[a] /\ b.lo[a] + b.hi[a] < 2 * High(b, a)
  BY <1>1 DEF Low, High
<1>4. Moves(dir) \in SUBSET Axis
  BY DEF Moves
<1>5. ASSUME NEW q \in Point
      PROVE  /\ \A a \in Axis : Near(b, q, dir, a) \in Int /\ Far(b, q, dir, a) \in Int
             /\ Entry(b, q, dir) \in Nat
             /\ \A a \in Moves(dir) : Near(b, q, dir, a) <= Entry(b, q, dir)
             /\ Entry(b, q, dir) = 0 \/ \E a \in Moves(dir) : Entry(b, q, dir) = Near(b, q, dir, a)
  BY SweepTimes
<1>6. ASSUME NEW q \in Point, NEW l \in Nat
      PROVE  /\ Exit(b, q, Delta(dir, l)) \in Int /\ Exit(b, q, Delta(dir, l)) <= l
             /\ \/ Exit(b, q, Delta(dir, l)) = l
                \/ \E a \in Moves(dir) : Exit(b, q, Delta(dir, l)) = Far(b, q, dir, a)
             /\ \A a \in Moves(dir) : Exit(b, q, Delta(dir, l)) <= Far(b, q, dir, a)
  BY SweepTimes
<1>7. ASSUME NEW q \in Point, \A a \in Axis : Low(b, a) <= q[a] /\ q[a] <= High(b, a),
             NEW e \in Axis, q[e] = Low(b, e) \/ q[e] = High(b, e)
      PROVE  \E f \in Axis :
               \/ q[f] = Low(b, f) /\ Dot(dir, NearestFace(b, q)) = -dir[f]
                                    /\ NearestFace(b, q)[f] = -1
               \/ q[f] = High(b, f) /\ Dot(dir, NearestFace(b, q)) = dir[f]
                                     /\ NearestFace(b, q)[f] = 1
  <2>1. PICK f \in Axis :
          \/ q[f] = Low(b, f) /\ Dot(dir, NearestFace(b, q)) = -dir[f]
                               /\ NearestFace(b, q)[f] = -1
          \/ q[f] = High(b, f) /\ Dot(dir, NearestFace(b, q)) = dir[f]
                                /\ NearestFace(b, q)[f] = 1
    BY <1>7, SweepTimes, Zenon
  <2>2. QED BY <2>1, Zenon
<1>8. Meets(b, c, d) => Entry(b, c, dir) <= len
  BY <1>1, <1>5, <1>6 DEF Meets
<1>9. ASSUME ~InsideOf(b, c), NEW t \in 0..len, InsideOf(b, Plus(c, dir, t)),
             SweepSphere(b, c, d) = {} \/ t <= Entry(b, c, dir)
      PROVE  FALSE
  <2>1. \A a \in Axis : Low(b, a) < c[a] + t * dir[a] /\ c[a] + t * dir[a] < High(b, a)
    BY <1>1, <1>9 DEF InsideOf, Plus
  <2>2. t \in Nat /\ t <= len /\ t # 0
    <3>1. t = 0 => \A a \in Axis : c[a] + t * dir[a] = c[a]
      BY <1>1
    <3>2. QED BY <1>9, <2>1, <3>1 DEF InsideOf
  <2>3. \A a \in Moves(dir) : /\ Near(b, c, dir, a) < t /\ t < Far(b, c, dir, a)
    <3>1. ASSUME NEW a \in Moves(dir) PROVE Near(b, c, dir, a) < t /\ t < Far(b, c, dir, a)
      <4>1. a \in Axis /\ dir[a] \in {-1, 1}
        BY <1>1 DEF Moves
      <4>2. CASE dir[a] = 1
        BY <1>1, <1>2, <2>1, <2>2, <4>1, <4>2 DEF Near, Far
      <4>3. CASE dir[a] = -1
        BY <1>1, <1>2, <2>1, <2>2, <4>1, <4>3 DEF Near, Far
      <4>4. QED BY <4>1, <4>2, <4>3
    <3>2. QED BY <3>1
  <2>4. \A a \in Axis \ Moves(dir) : Low(b, a) < c[a] /\ c[a] < High(b, a)
    <3>1. ASSUME NEW a \in Axis \ Moves(dir) PROVE Low(b, a) < c[a] /\ c[a] < High(b, a)
      <4>1. dir[a] = 0 /\ c[a] \in Int
        BY <1>1, <3>1 DEF Moves
      <4>2. c[a] + t * dir[a] = c[a]
        BY <2>2, <4>1
      <4>3. QED BY <2>1, <3>1, <4>2
    <3>2. QED BY <3>1
  <2>5. Entry(b, c, dir) < t
    BY <1>5, <2>2, <2>3
  <2>6. t <= Exit(b, c, d)
    BY <1>4, <1>5, <1>6, <2>2, <2>3
  \* So it would go into the box, and has a hit before.
  <2>7. SweepSphere(b, c, d) # {}
    <3>1. Entry(b, c, dir) < Exit(b, c, d)
      BY <1>5, <1>6, <2>2, <2>5, <2>6
    <3>2. QED BY <1>9, <2>4, <3>1, FirstTouch
  <2>8. QED BY <1>5, <1>9, <2>2, <2>5, <2>7
<1>10. ASSUME NEW h \in SweepSphere(b, c, d) PROVE \E a \in Moves(dir) : h.n[a] # 0
  <2> DEFINE k == Entry(b, c, dir)
  <2>1. h.n = HitNormal(b, c, dir, k) /\ Blocks(d, k, h.n)
    BY <1>1, <1>10 DEF SweepSphere
  <2>2. CASE k > 0
    <3> DEFINE entered == {a \in Moves(dir) : k > 0 /\ Near(b, c, dir, a) = k}
    <3>1. \E x \in entered : \A y \in entered : x <= y
      <4>1. PICK a \in entered : TRUE
        BY <1>5, <2>2
      <4>2. entered \subseteq {1, 2}
        BY <1>1, <1>4
      <4> HIDE DEF entered
      <4>3. CASE 1 \in entered
        BY <4>2, <4>3
      <4>4. CASE 1 \notin entered
        BY <4>1, <4>2, <4>4
      <4>5. QED BY <4>3, <4>4
    <3>2. Min(entered) \in entered
      BY <3>1 DEF Min
    <3>3. h.n = AxisVector(Min(entered), -dir[Min(entered)])
      BY <2>1, <3>2 DEF HitNormal
    <3> DEFINE a == Min(entered)
    <3>4. a \in Axis /\ a \in Moves(dir) /\ dir[a] # 0
      BY <3>2 DEF Moves
    <3> HIDE DEF a
    <3>5. h.n[a] = -dir[a]
      BY <3>3, <3>4 DEF AxisVector, a
    <3>6. QED BY <1>1, <3>4, <3>5
  <2>3. CASE k = 0
    <3>1. h.n = NearestFace(b, c)
      BY <2>1, <2>3 DEF HitNormal
    <3>2. h.n[1] \in Int /\ h.n[2] \in Int
      <4>1. \A e, x : x \in Int => AxisVector(e, x)[1] \in Int /\ AxisVector(e, x)[2] \in Int
        BY <1>1 DEF AxisVector
      <4>2. \E e : h.n = AxisVector(e, 1) \/ h.n = AxisVector(e, -1)
        BY <3>1 DEF NearestFace
      <4>3. QED BY <4>1, <4>2
    <3>3. dir[1] * h.n[1] + dir[2] * h.n[2] < 0
      BY <1>1, <2>1, <2>3 DEF Blocks, Dot
    <3>4. ASSUME \A a \in Moves(dir) : h.n[a] = 0 PROVE FALSE
      <4>1. dir[1] = 0 \/ h.n[1] = 0
        BY <1>1, <3>4 DEF Moves
      <4>2. dir[2] = 0 \/ h.n[2] = 0
        BY <1>1, <3>4 DEF Moves
      <4>3. dir[1] * h.n[1] = 0 /\ dir[2] * h.n[2] = 0
        BY <1>1, <3>2, <4>1, <4>2
      <4>4. QED BY <3>3, <4>3
    <3>5. QED BY <3>4
  <2>4. QED BY <1>5, <2>2, <2>3
\* A part of a way that meets only a face it touches and does not press against.
<1>11. ASSUME \/ ~Meets(b, c, d)
              \/ \E a \in Faces(b, c) : Dot(dir, Outward(b, c, a)) >= 0,
              NEW m \in Nat, NEW l \in Nat, m + l <= len,
              SweepSphere(b, Plus(c, dir, m), Delta(dir, l)) # {}
       PROVE  FALSE
  <2> DEFINE q == Plus(c, dir, m)
             e == Delta(dir, l)
             k == Entry(b, q, dir)
             n == HitNormal(b, q, dir, k)
  <2>1. /\ q \in Point /\ \A a \in Axis : q[a] = c[a] + m * dir[a]
        /\ e.dir = dir /\ e.len = l
    BY <1>1 DEF Plus, Point, Delta, Axis
  <2>2. Meets(b, q, e) /\ Blocks(e, k, n)
    BY <1>11, <2>1 DEF SweepSphere
  <2>3. /\ \A a \in Axis \ Moves(dir) : q[a] = c[a] /\ dir[a] = 0
        /\ \A a \in Moves(dir) : /\ Near(b, q, dir, a) = Near(b, c, dir, a) - m
                                 /\ Far(b, q, dir, a) = Far(b, c, dir, a) - m
    <3>1. ASSUME NEW a \in Axis \ Moves(dir) PROVE q[a] = c[a] /\ dir[a] = 0
      <4>1. dir[a] = 0 /\ c[a] \in Int
        BY <1>1, <3>1 DEF Moves
      <4> HIDE DEF q
      <4>2. QED BY <2>1, <4>1
    <3>2. ASSUME NEW a \in Moves(dir)
          PROVE  /\ Near(b, q, dir, a) = Near(b, c, dir, a) - m
                 /\ Far(b, q, dir, a) = Far(b, c, dir, a) - m
      <4>1. a \in Axis /\ dir[a] \in {-1, 1}
        BY <1>1, <1>4 DEF Moves
      <4>2. q[a] = c[a] + m * dir[a]
        BY <2>1, <4>1
      <4> HIDE DEF q
      <4>3. CASE dir[a] = 1
        BY <1>1, <1>2, <4>1, <4>2, <4>3 DEF Near, Far
      <4>4. CASE dir[a] = -1
        BY <1>1, <1>2, <4>1, <4>2, <4>4 DEF Near, Far
      <4>5. QED BY <4>1, <4>3, <4>4
    <3>3. QED BY <3>1, <3>2
  <2> HIDE DEF q, e
  <2>4. /\ \A a \in Axis : Near(b, q, dir, a) \in Int /\ Far(b, q, dir, a) \in Int
        /\ k \in Nat /\ \A a \in Moves(dir) : Near(b, q, dir, a) <= k
        /\ k = 0 \/ \E a \in Moves(dir) : k = Near(b, q, dir, a)
        /\ k <= Exit(b, q, e) /\ Exit(b, q, e) \in Int /\ Exit(b, q, e) <= l
        /\ \A a \in Moves(dir) : Exit(b, q, e) <= Far(b, q, dir, a)
        /\ \A a \in Axis \ Moves(dir) : Low(b, a) <= q[a] /\ q[a] <= High(b, a)
    <3>1. k <= Exit(b, q, e) /\ \A a \in Axis \ Moves(dir) : Low(b, a) <= q[a] /\ q[a] <= High(b, a)
      BY <2>1, <2>2 DEF Meets
    <3>2. /\ Exit(b, q, e) \in Int /\ Exit(b, q, e) <= l
          /\ \A a \in Moves(dir) : Exit(b, q, e) <= Far(b, q, dir, a)
      BY <1>6, <2>1 DEF e
    <3>3. QED BY <1>5, <2>1, <3>1, <3>2
  <2> HIDE DEF k, n
  \* The whole way would meet the box too.
  <2>5. CASE ~Meets(b, c, d)
    <3>1. Entry(b, c, dir) <= k + m
      <4>1. \A a \in Moves(dir) : Near(b, c, dir, a) <= k + m
        BY <1>4, <1>5, <2>3, <2>4
      <4>2. QED BY <1>5, <2>4, <4>1
    <3>2. k + m <= Exit(b, c, d)
      <4>1. k + m <= len
        BY <1>11, <2>4
      <4>2. \A a \in Moves(dir) : k + m <= Far(b, c, dir, a)
        BY <1>4, <1>5, <2>3, <2>4
      <4>3. QED BY <1>6, <4>1, <4>2
    <3>3. Entry(b, c, dir) <= Exit(b, c, d)
      BY <1>5, <1>6, <2>4, <3>1, <3>2
    <3>4. \A a \in Axis \ Moves(dir) : Low(b, a) <= c[a] /\ c[a] <= High(b, a)
      BY <2>3, <2>4
    <3>5. QED BY <1>1, <2>5, <3>3, <3>4 DEF Meets
  <2>6. CASE \E a \in Faces(b, c) : Dot(dir, Outward(b, c, a)) >= 0
    <3>1. PICK a \in Faces(b, c) : Dot(dir, Outward(b, c, a)) >= 0
      BY <2>6
    <3> DEFINE o == 3 - a
    <3>2. /\ a \in Axis /\ o \in Axis /\ o # a /\ Axis = {a, o}
          /\ c[a] = Low(b, a) \/ c[a] = High(b, a)
          /\ Low(b, o) < c[o] /\ c[o] < High(b, o)
      BY <1>1, <3>1 DEF Faces
    <3> HIDE DEF o
    <3>3. /\ c[a] = Low(b, a) => dir[a] \in {-1, 0}
          /\ c[a] = High(b, a) => dir[a] \in {0, 1}
      <4>1. Outward(b, c, a)[a] = (IF c[a] = Low(b, a) THEN -1 ELSE 1) /\ Outward(b, c, a)[o] = 0
        BY <3>2 DEF Outward, AxisVector
      <4>2. Dot(dir, Outward(b, c, a)) = dir[a] * (IF c[a] = Low(b, a) THEN -1 ELSE 1)
        <5>1. CASE a = 1
          BY <1>1, <3>2, <4>1, <5>1 DEF Dot
        <5>2. CASE a = 2
          BY <1>1, <3>2, <4>1, <5>2 DEF Dot
        <5>3. QED BY <1>1, <3>2, <5>1, <5>2
      <4>3. QED BY <1>1, <1>2, <3>1, <3>2, <4>2
    \* Away from the face, the face is left at once.
    <3>4. dir[a] # 0 => m = 0 /\ k = 0
      <4>1. ASSUME dir[a] # 0 PROVE m = 0 /\ k = 0
        <5>1. a \in Moves(dir)
          BY <3>2, <4>1 DEF Moves
        <5>2. Far(b, c, dir, a) = 0
          BY <1>1, <1>2, <3>2, <3>3, <4>1 DEF Far
        <5>3. k <= 0 - m
          BY <2>3, <2>4, <5>1, <5>2
        <5>4. QED BY <2>4, <5>3
      <4>2. QED BY <4>1
    \* Along the face, the other axis is within the box from the start.
    <3>5. k = 0
      <4>1. CASE dir[a] = 0
        <5>1. Near(b, q, dir, o) < 0 \/ o \notin Moves(dir)
          <6>1. ASSUME o \in Moves(dir) PROVE Near(b, q, dir, o) < 0
            <7>1. Near(b, c, dir, o) < 0
              BY <1>1, <1>2, <3>2, <6>1 DEF Near, Moves
            <7>2. QED BY <1>5, <2>3, <3>2, <6>1, <7>1
          <6>2. QED BY <6>1
        <5>2. \A x \in Moves(dir) : x = o
          BY <3>2, <4>1 DEF Moves
        <5>3. QED BY <2>4, <5>1, <5>2
      <4>2. QED BY <3>4, <4>1
    <3>6. n = NearestFace(b, q) /\ Dot(dir, n) < 0
      <4>1. n = NearestFace(b, q)
        BY <3>5 DEF n, HitNormal
      <4>2. Dot(dir, n) < 0
        BY <2>1, <2>2, <3>5 DEF Blocks
      <4>3. QED BY <4>1, <4>2
    <3>7. \A x \in Axis : Low(b, x) <= q[x] /\ q[x] <= High(b, x)
      <4>1. ASSUME NEW x \in Moves(dir) PROVE Low(b, x) <= q[x] /\ q[x] <= High(b, x)
        <5>1. Near(b, q, dir, x) <= 0 /\ 0 <= Far(b, q, dir, x) /\ x \in Axis /\ dir[x] \in {-1, 1}
          BY <1>1, <1>4, <2>4, <3>5 DEF Moves
        <5>2. q[x] \in Int
          BY <2>1, <5>1 DEF Point, Axis
        <5>3. CASE dir[x] = 1
          BY <1>2, <5>1, <5>2, <5>3 DEF Near, Far
        <5>4. CASE dir[x] = -1
          BY <1>2, <5>1, <5>2, <5>4 DEF Near, Far
        <5>5. QED BY <5>1, <5>3, <5>4
      <4>2. QED BY <2>4, <4>1
    <3>8. q[a] = c[a] /\ (dir[a] # 0 => q[o] = c[o])
      <4>1. m = 0 => q[a] = c[a] /\ q[o] = c[o]
        BY <1>1, <2>1, <3>2
      <4>2. dir[a] = 0 => q[a] = c[a]
        BY <2>3, <3>2 DEF Moves
      <4>3. QED BY <3>4, <4>1, <4>2
    <3>9. PICK f \in Axis : \/ q[f] = Low(b, f) /\ Dot(dir, n) = -dir[f]
                            \/ q[f] = High(b, f) /\ Dot(dir, n) = dir[f]
      BY <1>7, <2>1, <3>2, <3>6, <3>7, <3>8
    <3>10. CASE f = a
      BY <1>1, <1>2, <3>2, <3>3, <3>6, <3>8, <3>9, <3>10
    <3>11. CASE f = o
      <4>1. dir[a] = 0
        BY <1>1, <1>2, <3>2, <3>8, <3>9, <3>11
      <4>2. dir[o] \in {-1, 0, 1} /\ c[o] \in Int /\ q[o] = c[o] + m * dir[o] /\ Low(b, o) \in Int /\ High(b, o) \in Int
        BY <1>1, <1>2, <2>1, <3>2
      <4>3. q[o] = Low(b, o) => dir[o] = -1
        BY <3>2, <4>2
      <4>4. q[o] = High(b, o) => dir[o] = 1
        BY <3>2, <4>2
      <4>5. QED BY <3>6, <3>9, <3>11, <4>2, <4>3, <4>4
    <3>12. QED BY <3>2, <3>9, <3>10, <3>11
  <2>7. QED BY <1>11, <2>5, <2>6
<1>12. QED BY <1>5, <1>8, <1>9, <1>10, <1>11

\* The earliest hit is the earliest for every sphere: as far as it, or as the
\* sweep if there is none, the spheres swept stay outside of the boxes.  The
\* hits left out, if any, must be no nearer than the sweep is long.
LEMMA CapsuleSweep ==
  ASSUME world \in Worlds, NEW c \in Point, NEW dir \in Direction, NEW len \in Nat,
         NEW spheres \in SUBSET (1..3),
         NEW near \in SUBSET Hits(c, spheres, Delta(dir, len)),
         \A g \in Hits(c, spheres, Delta(dir, len)) \ near : ~(g.hit.k < len)
  PROVE  /\ \A h \in Earliest(near) : h.k \in 0..len /\ \E a \in Moves(dir) : h.n[a] # 0
         /\ \A g, h \in Earliest(near) : g.k = h.k
         /\ near # {} => Earliest(near) # {}
         /\ \A t \in 0..len : (\A h \in Earliest(near) : t <= h.k) =>
              \A i \in DOMAIN world, j \in spheres :
                ~InsideOf(world[i], Spheres(c)[j]) =>
                  ~InsideOf(world[i], Spheres(Plus(c, dir, t))[j])
<1> DEFINE d == Delta(dir, len)
           first == Earliest(near)
<1>1. /\ \A i \in DOMAIN world : /\ i \in Nat /\ world[i] \in BoxType
                                 /\ \A a \in Axis : world[i].lo[a] <= world[i].hi[a]
      /\ HalfHeight \in Nat /\ Axis = {1, 2}
      /\ \A a \in Axis : dir[a] \in Int /\ c[a] \in Int
  <2>1. world \in Seq(BoxType)
    BY WorldAssumption DEF BoxType, Point
  <2>2. \A i \in DOMAIN world : i \in Nat /\ world[i] \in BoxType
    BY <2>1
  <2>3. \A i \in DOMAIN world : \A a \in Axis : world[i].lo[a] <= world[i].hi[a]
    BY WorldAssumption
  <2>4. HalfHeight \in Nat
    BY KCCAssumption
  <2>5. \A a \in Axis : dir[a] \in Int /\ c[a] \in Int
    BY DEF Point, Axis, Direction
  <2>6. QED BY <2>2, <2>3, <2>4, <2>5 DEF Axis
<1>2. \A j \in 1..3 : Spheres(c)[j] \in Point
  BY <1>1 DEF Spheres, Plus, Up, Down, Point
<1>3. ASSUME NEW g \in Hits(c, spheres, d)
      PROVE  /\ g.box \in DOMAIN world /\ g.sphere \in spheres
             /\ g.hit.k = Entry(world[g.box], Spheres(c)[g.sphere], dir)
             /\ g.hit.k \in 0..len /\ \E a \in Moves(dir) : g.hit.n[a] # 0
  <2>1. PICK i \in DOMAIN world, j \in spheres :
          g \in {[hit |-> h, box |-> i, sphere |-> j] : h \in SweepSphere(world[i], Spheres(c)[j], d)}
    BY <1>3 DEF Hits
  <2>2. PICK h \in SweepSphere(world[i], Spheres(c)[j], d) : g = [hit |-> h, box |-> i, sphere |-> j]
    BY <2>1
  <2>3. g.hit = h /\ g.box = i /\ g.sphere = j
    BY <2>2
  <2>4. Meets(world[i], Spheres(c)[j], d) /\ h.k = Entry(world[i], Spheres(c)[j], dir)
    BY <2>2 DEF SweepSphere, Delta
  <2>5. Entry(world[i], Spheres(c)[j], dir) \in Nat /\ Entry(world[i], Spheres(c)[j], dir) <= len
    BY <1>1, <1>2, <2>4, SphereSweep
  <2>6. \E a \in Moves(dir) : h.n[a] # 0
    <3>1. /\ world[i] \in BoxType /\ \A a \in Axis : world[i].lo[a] <= world[i].hi[a]
          /\ Spheres(c)[j] \in Point
      BY <1>1, <1>2
    <3>2. \A o \in SweepSphere(world[i], Spheres(c)[j], Delta(dir, len)) :
            \E a \in Moves(dir) : o.n[a] # 0
      BY <3>1, SphereSweep
    <3>3. QED BY <2>2, <3>2
  <2>7. QED BY <2>3, <2>4, <2>5, <2>6
<1>4. ASSUME NEW i \in DOMAIN world, NEW j \in spheres,
             SweepSphere(world[i], Spheres(c)[j], d) # {}
      PROVE  \E g \in Hits(c, spheres, d) : g.hit.k = Entry(world[i], Spheres(c)[j], dir)
  <2>1. PICK h \in SweepSphere(world[i], Spheres(c)[j], d) : TRUE
    BY <1>4
  <2>2. [hit |-> h, box |-> i, sphere |-> j]
          \in {[hit |-> g, box |-> i, sphere |-> j] : g \in SweepSphere(world[i], Spheres(c)[j], d)}
    OBVIOUS
  <2>3. [hit |-> h, box |-> i, sphere |-> j] \in Hits(c, spheres, d)
    <3> DEFINE of(a, b) == {[hit |-> g, box |-> a, sphere |-> b] : g \in SweepSphere(world[a], Spheres(c)[b], d)}
    <3>1. of(i, j) \in {of(a, b) : a \in DOMAIN world, b \in spheres}
      OBVIOUS
    <3>2. Hits(c, spheres, d) = UNION {of(a, b) : a \in DOMAIN world, b \in spheres}
      BY DEF Hits
    <3>3. [hit |-> h, box |-> i, sphere |-> j] \in of(i, j)
      BY <2>2
    <3> HIDE DEF of
    <3>4. QED BY <3>1, <3>2, <3>3
  <2>4. h.k = Entry(world[i], Spheres(c)[j], dir)
    BY <2>1 DEF SweepSphere, Delta
  <2>5. QED BY <2>3, <2>4
<1>5. ASSUME NEW h \in first
      PROVE  \E g \in near : h = g.hit /\ \A o \in near : g.hit.k <= o.hit.k
  <2>1. PICK g \in near : h = g.hit /\ \A o \in near : g.hit.k < o.hit.k \/ g.hit.k = o.hit.k
    BY DEF Earliest
  <2>2. \A o \in near : o.hit.k \in Nat
    BY <1>3
  <2>3. QED BY <2>1, <2>2
\* There is an earliest hit if there is any: the least time, the least box of
\* those, and the least sphere of those.
<1>6. ASSUME NEW T \in SUBSET Nat, T # {} PROVE \E x \in T : \A y \in T : x <= y
  <2>1. PICK x \in T : \A y \in T : << y, x >> \notin OpToRel(<, Nat)
    BY <1>6, WFMin, NatLessThanWellFounded
  <2>2. \A y \in T : ~(y < x)
    BY <1>6, <2>1 DEF OpToRel
  <2>3. ASSUME NEW y \in T PROVE x <= y
    <3>1. x \in Nat /\ y \in Nat /\ ~(y < x)
      BY <1>6, <2>1, <2>2, <2>3
    <3>2. QED BY <3>1
  <2>4. QED BY <2>1, <2>3
<1>7. ASSUME near # {} PROVE first # {}
  <2>1. \A g \in near : g.hit.k \in Nat /\ g.box \in Nat /\ g.sphere \in Nat
    <3>1. ASSUME NEW g \in near PROVE g.hit.k \in Nat /\ g.box \in Nat /\ g.sphere \in Nat
      <4>1. g.hit.k \in 0..len /\ g.box \in DOMAIN world /\ g.sphere \in 1..3
        BY <1>3
      <4>2. QED BY <1>1, <4>1
    <3>2. QED BY <3>1
  <2> DEFINE times == {g.hit.k : g \in near}
  <2>2. PICK k \in times : \A y \in times : k <= y
    <3>1. times \in SUBSET Nat /\ times # {}
      BY <1>7, <2>1
    <3> HIDE DEF times
    <3>2. QED BY <1>6, <3>1
  <2> DEFINE soon  == {g \in near : g.hit.k = k}
             boxes == {g.box : g \in soon}
  <2>3. PICK b \in boxes : \A y \in boxes : b <= y
    <3>1. boxes \in SUBSET Nat /\ boxes # {}
      BY <2>1, <2>2
    <3> HIDE DEF boxes
    <3>2. QED BY <1>6, <3>1
  <2> DEFINE one  == {g \in soon : g.box = b}
             last == {g.sphere : g \in one}
  <2>4. PICK s \in last : \A y \in last : s <= y
    <3>1. last \in SUBSET Nat /\ last # {}
      BY <2>1, <2>3
    <3> HIDE DEF last
    <3>2. QED BY <1>6, <3>1
  <2>5. PICK g \in near : g.hit.k = k /\ g.box = b /\ g.sphere = s
    BY <2>4
  <2>6. ASSUME NEW h \in near
        PROVE  \/ g.hit.k < h.hit.k
               \/ g.hit.k = h.hit.k /\ g.box < h.box
               \/ g.hit.k = h.hit.k /\ g.box = h.box /\ g.sphere <= h.sphere
    <3>1. k <= h.hit.k
      BY <2>2
    <3>2. h.hit.k = k => b <= h.box
      BY <2>3
    <3>3. h.hit.k = k /\ h.box = b => s <= h.sphere
      BY <2>4
    <3>4. /\ g.hit.k \in Nat /\ g.box \in Nat /\ g.sphere \in Nat
          /\ h.hit.k \in Nat /\ h.box \in Nat /\ h.sphere \in Nat
      BY <2>1
    <3>5. QED BY <2>5, <3>1, <3>2, <3>3, <3>4
  <2>7. g.hit \in first
    BY <2>6 DEF Earliest
  <2>8. QED BY <2>7
<1>8. \A h \in first : h.k \in 0..len /\ \E a \in Moves(dir) : h.n[a] # 0
  BY <1>3, <1>5
<1>9. \A g, h \in first : g.k = h.k
  <2>1. ASSUME NEW g \in first, NEW h \in first PROVE g.k <= h.k
    BY <1>5
  <2>2. QED BY <1>8, <2>1
<1>10. ASSUME NEW t \in 0..len, \A h \in first : t <= h.k,
              NEW i \in DOMAIN world, NEW j \in spheres, ~InsideOf(world[i], Spheres(c)[j])
       PROVE  ~InsideOf(world[i], Spheres(Plus(c, dir, t))[j])
  <2>1. \/ SweepSphere(world[i], Spheres(c)[j], d) = {}
        \/ t <= Entry(world[i], Spheres(c)[j], dir)
    <3>1. ASSUME NEW g \in Hits(c, spheres, d) PROVE t <= g.hit.k
      <4>1. CASE g \in near
        <5>1. PICK h \in first : TRUE
          BY <1>7, <4>1
        <5>2. h.k <= g.hit.k
          BY <1>5, <4>1
        <5>3. QED BY <1>3, <1>8, <1>10, <5>1, <5>2
      <4>2. CASE g \notin near
        BY <1>3, <3>1, <4>2
      <4>3. QED BY <4>1, <4>2
    <3>2. QED BY <1>4, <3>1
  <2>2. ~InsideOf(world[i], Plus(Spheres(c)[j], dir, t))
    BY <1>1, <1>2, <1>10, <2>1, SphereSweep
  <2>3. Plus(Spheres(c)[j], dir, t) = Spheres(Plus(c, dir, t))[j]
    <3>1. t \in Int /\ \A h \in Int : h + t * dir[1] = t * dir[1] + h
      BY <1>1, <1>10
    <3>2. CASE j = 1
      BY <1>1, <1>10, <3>2 DEF Spheres, Plus, Up, Down
    <3>3. CASE j = 2
      BY <1>1, <1>10, <3>3 DEF Spheres, Plus, Up, Down
    <3>4. CASE j = 3
      BY <1>1, <1>10, <3>4 DEF Spheres, Plus, Up, Down
    <3>5. j = 1 \/ j = 2 \/ j = 3
      OBVIOUS
    <3>6. QED BY <3>2, <3>3, <3>4, <3>5
  <2>4. QED BY <2>2, <2>3
<1>11. QED BY <1>7, <1>8, <1>9, <1>10

\* What stops the player on its way down is under its feet: the spheres are too
\* close for a higher one to come down on a box that the lower one does not
\* meet.  Only straight down along the face of a box may a higher sphere catch
\* its edge, and then the one below was at that edge, or beside the face, from
\* the start.
LEMMA LandsOnFeet ==
  ASSUME world \in Worlds, NEW c \in Point, Clear(c),
         NEW dir \in Direction, NEW len \in Nat,
         NEW h \in Sweep(c, Delta(dir, len)), Stands(h)
  PROVE  /\ h.k \in 0..len /\ dir[2] = -1
         /\ \/ Rests(Plus(c, dir, h.k))
            \/ dir[1] = 0 /\ h.k = HalfHeight
            \/ /\ dir[1] = 0
               /\ \E i \in DOMAIN world, j \in 1..3 :
                    LET b == world[i]
                    IN /\ c[1] = Low(b, 1) \/ c[1] = High(b, 1)
                       /\ Low(b, 2) < Spheres(c)[j][2] /\ Spheres(c)[j][2] < High(b, 2)
<1> DEFINE d == Delta(dir, len)
           all == Hits(c, 1..3, d)
<1>1. PICK g \in all : h = g.hit /\ \A o \in all : g.hit.k < o.hit.k \/ g.hit.k = o.hit.k
  BY DEF Sweep, Earliest
<1>2. PICK i \in DOMAIN world, j \in 1..3 :
        g \in {[hit |-> x, box |-> i, sphere |-> j] : x \in SweepSphere(world[i], Spheres(c)[j], d)}
  BY DEF Hits
<1> DEFINE b == world[i]
           s == Spheres(c)[j]
           t == Spheres(c)[j + 1]
<1>3. h \in SweepSphere(b, s, d)
  BY <1>1, <1>2
<1>4. \A m \in 1..3 : \A x \in SweepSphere(b, Spheres(c)[m], d) : h.k < x.k \/ h.k = x.k
  <2>1. ASSUME NEW m \in 1..3, NEW x \in SweepSphere(b, Spheres(c)[m], d)
        PROVE  h.k < x.k \/ h.k = x.k
    <3> DEFINE of(a, e) == {[hit |-> y, box |-> a, sphere |-> e] : y \in SweepSphere(world[a], Spheres(c)[e], d)}
               o == [hit |-> x, box |-> i, sphere |-> m]
    <3>1. of(i, m) \in {of(a, e) : a \in DOMAIN world, e \in 1..3} /\ o \in of(i, m)
      OBVIOUS
    <3>2. all = UNION {of(a, e) : a \in DOMAIN world, e \in 1..3}
      BY DEF Hits
    <3> HIDE DEF of, all
    <3>3. o \in all
      BY <3>1, <3>2
    <3>4. QED BY <1>1, <3>3
  <2>2. QED BY <2>1
<1>5. /\ b \in BoxType /\ \A a \in Axis : b.lo[a] <= b.hi[a]
      /\ Low(b, 1) \in Int /\ High(b, 1) \in Int /\ Low(b, 2) \in Int /\ High(b, 2) \in Int
      /\ HalfHeight \in Nat /\ High(b, 2) - Low(b, 2) > HalfHeight
  <2>1. world \in Seq(BoxType)
    BY WorldAssumption DEF BoxType, Point
  <2>2. b \in BoxType /\ \A a \in Axis : b.lo[a] <= b.hi[a]
    BY <2>1, WorldAssumption
  <2>3. HalfHeight \in Nat /\ Radius \in Nat /\ SkinWidth \in Nat /\ 2 * (Radius - SkinWidth) > HalfHeight
    BY KCCAssumption, WorldAssumption
  <2>4. b.lo[1] \in Int /\ b.hi[1] \in Int /\ b.lo[2] \in Int /\ b.hi[2] \in Int /\ b.lo[2] <= b.hi[2]
    BY <2>2 DEF BoxType, Point, Axis
  <2> HIDE DEF b
  <2>5. QED BY <2>2, <2>3, <2>4 DEF Low, High
<1>6. /\ c[1] \in Int /\ c[2] \in Int /\ dir[1] \in {-1, 0, 1} /\ dir[2] \in {-1, 0, 1}
      /\ Axis = {1, 2} /\ d.dir = dir /\ d.len = len
  BY DEF Point, Direction, Axis, Delta
<1>7. ASSUME NEW m \in 1..3
      PROVE  /\ Spheres(c)[m] \in Point /\ Spheres(c)[m][1] = c[1]
             /\ Spheres(c)[m][2] = c[2] + (2 - m) * HalfHeight
             /\ ~InsideOf(b, Spheres(c)[m])
  <2>1. CASE m = 1
    BY <1>5, <1>6, <2>1 DEF Spheres, Plus, Up, Down, Point, Clear
  <2>2. CASE m = 2
    BY <1>5, <1>6, <2>2 DEF Spheres, Plus, Up, Down, Point, Clear
  <2>3. CASE m = 3
    BY <1>5, <1>6, <2>3 DEF Spheres, Plus, Up, Down, Point, Clear
  <2>4. QED BY <2>1, <2>2, <2>3
<1>8. /\ s \in Point /\ s[1] = c[1] /\ s[2] = c[2] + (2 - j) * HalfHeight /\ ~InsideOf(b, s)
  BY <1>7
<1> HIDE DEF all, d, s, b, t
<1>9. h.n = Up /\ b.walkable
  <2>1. h.n = Up /\ h.walkable
    BY Zenon DEF Stands
  <2>2. h = [k |-> Entry(b, s, dir), n |-> HitNormal(b, s, dir, Entry(b, s, dir)), walkable |-> b.walkable]
    BY <1>3, <1>6, Zenon DEF SweepSphere
  <2>3. h.walkable = b.walkable
    BY <2>2
  <2>4. QED BY <2>1, <2>3
<1>10. /\ dir[2] = -1 /\ h.k = Entry(b, s, dir) /\ s[2] - h.k = High(b, 2)
       /\ Low(b, 1) <= s[1] + h.k * dir[1] /\ s[1] + h.k * dir[1] <= High(b, 1)
       /\ h.k = 0 => Low(b, 1) < s[1] /\ s[1] < High(b, 1)
       /\ h.k > 0 /\ dir[1] # 0 => Near(b, s, dir, 1) < h.k
  BY <1>3, <1>5, <1>8, <1>9, FirstTouch DEF d
<1>11. Meets(b, s, d) /\ h.k \in 0..len /\ h.k <= Exit(b, s, d)
  <2>1. Meets(b, s, d)
    BY <1>3 DEF SweepSphere
  <2>2. Entry(b, s, dir) \in Nat /\ Exit(b, s, d) \in Int /\ Exit(b, s, d) <= len
    BY <1>5, <1>8, SweepTimes DEF d
  <2>3. Entry(b, s, dir) <= Exit(b, s, d)
    BY <1>6, <2>1 DEF Meets
  <2>4. QED BY <1>10, <2>1, <2>2, <2>3
\* The lower sphere has come down to the top, or is where the one above has.
<1>12. ASSUME c[2] - HalfHeight - h.k = High(b, 2) PROVE Rests(Plus(c, dir, h.k))
  <2> DEFINE p == Plus(c, dir, h.k)
  <2>1. Spheres(p)[3][1] = c[1] + h.k * dir[1] /\ Spheres(p)[3][2] = c[2] - h.k - HalfHeight
    BY <1>5, <1>6, <1>10, <1>11 DEF Spheres, Plus, Down
  <2>2. Spheres(p)[3][2] = High(b, 2) /\ Low(b, 1) <= Spheres(p)[3][1] /\ Spheres(p)[3][1] <= High(b, 1)
    BY <1>5, <1>6, <1>8, <1>10, <1>11, <1>12, <2>1
  <2> HIDE DEF p
  <2>3. Rests(p)
    BY <1>9, <2>2, Zenon DEF Rests, b
  <2>4. QED BY <2>3 DEF p
<1>13. CASE j = 3 \/ HalfHeight = 0
  <2>1. (2 - j) * HalfHeight = -HalfHeight
    BY <1>5, <1>13
  <2>2. c[2] - HalfHeight - h.k = High(b, 2)
    BY <1>5, <1>6, <1>8, <1>10, <1>11, <2>1
  <2>3. QED BY <1>10, <1>11, <1>12, <2>2
<1>14. CASE j # 3 /\ HalfHeight > 0
  <2>1. /\ t \in Point /\ t[1] = s[1] /\ t[2] = s[2] - HalfHeight /\ ~InsideOf(b, t)
        /\ s[1] = c[1] /\ s[1] \in Int /\ s[2] \in Int /\ h.k \in Nat
    <3>1. j + 1 \in 1..3 /\ (j = 1 \/ j = 2)
      BY <1>14
    <3>2. t[1] = c[1] /\ t[2] = c[2] + (2 - (j + 1)) * HalfHeight /\ t \in Point /\ ~InsideOf(b, t)
      BY <1>7, <3>1 DEF t
    <3>3. /\ s[1] = c[1] /\ s[1] \in Int /\ s[2] \in Int /\ h.k \in Nat
          /\ s[2] = c[2] + (2 - j) * HalfHeight
      BY <1>5, <1>6, <1>8, <1>11
    <3>4. t[2] = s[2] - HalfHeight
      <4>1. CASE j = 1 BY <4>1, <1>5, <1>6, <3>2, <3>3
      <4>2. CASE j = 2 BY <4>2, <1>5, <1>6, <3>2, <3>3
      <4>3. QED BY <3>1, <4>1, <4>2
    <3>5. QED BY <3>2, <3>3, <3>4
  <2>2. /\ Entry(b, t, dir) \in Nat /\ Exit(b, t, d) \in Int /\ Exit(b, s, d) \in Int
        /\ \A a \in Axis : Far(b, s, dir, a) \in Int /\ Far(b, t, dir, a) \in Int
        /\ Entry(b, t, dir) = 0 \/ \E a \in Moves(dir) : Entry(b, t, dir) = Near(b, t, dir, a)
        /\ Exit(b, t, d) = len \/ \E a \in Moves(dir) : Exit(b, t, d) = Far(b, t, dir, a)
        /\ \A a \in Moves(dir) : /\ Near(b, t, dir, a) <= Entry(b, t, dir)
                                 /\ Exit(b, s, d) <= Far(b, s, dir, a)
    BY <1>5, <1>8, <2>1, SweepTimes DEF d
  <2>3. /\ \A a \in Moves(dir) : a = 1 \/ a = 2
        /\ 2 \in Moves(dir) /\ (1 \in Moves(dir) <=> dir[1] # 0)
    BY <1>6, <1>10 DEF Moves
  \* The sphere below has no earlier hit.
  <2>4. ASSUME NEW x \in SweepSphere(b, t, d) PROVE x.k = Entry(b, t, dir) /\ h.k <= x.k
    <3>1. x.k = Entry(b, t, dir)
      BY <1>6 DEF SweepSphere
    <3>2. h.k < x.k \/ h.k = x.k
      <4>1. j + 1 \in 1..3
        BY <1>14
      <4>2. QED BY <1>4, <4>1 DEF t
    <3>3. QED BY <2>1, <2>2, <3>1, <3>2
  <2>5. h.k > 0
    <3>1. ASSUME h.k = 0 PROVE FALSE
      <4>1. Low(b, 1) < t[1] /\ t[1] < High(b, 1) /\ Low(b, 2) < t[2] /\ t[2] < High(b, 2)
        BY <1>5, <1>10, <1>14, <2>1, <3>1
      <4>2. QED BY <1>6, <2>1, <4>1 DEF InsideOf
    <3>2. QED BY <2>1, <3>1
  \* It is at the top of the box before, and within it after.
  <2>6. /\ Near(b, t, dir, 2) = h.k - HalfHeight /\ Far(b, t, dir, 2) > h.k
        /\ Near(b, t, dir, 1) = Near(b, s, dir, 1) /\ Far(b, t, dir, 1) = Far(b, s, dir, 1)
    BY <1>5, <1>10, <2>1 DEF Near, Far
  <2>7. h.k <= Exit(b, t, d)
    BY <1>6, <1>11, <2>1, <2>2, <2>3, <2>6
  <2>8. ASSUME \A a \in Axis \ Moves(dir) : Low(b, a) < t[a] /\ t[a] < High(b, a),
               Entry(b, t, dir) < h.k
        PROVE  FALSE
    <3>1. Entry(b, t, dir) < Exit(b, t, d)
      BY <2>1, <2>2, <2>7, <2>8
    <3>2. SweepSphere(b, t, d) # {}
      BY <1>5, <2>1, <2>8, <3>1, FirstTouch DEF d
    <3>3. QED BY <2>1, <2>2, <2>4, <2>8, <3>2
  <2>9. dir[1] = 0
    <3>1. ASSUME dir[1] # 0 PROVE FALSE
      <4>1. Entry(b, t, dir) < h.k
        BY <1>5, <1>10, <1>14, <2>1, <2>2, <2>3, <2>5, <2>6, <3>1
      <4>2. Axis \ Moves(dir) = {}
        BY <1>6, <2>3, <3>1
      <4>3. QED BY <2>8, <4>1, <4>2
    <3>2. QED BY <3>1
  <2>10. /\ \A a \in Moves(dir) : a = 2
         /\ Axis \ Moves(dir) = {1}
         /\ Entry(b, t, dir) = 0 \/ Entry(b, t, dir) = h.k - HalfHeight
         /\ h.k - HalfHeight <= Entry(b, t, dir)
         /\ Low(b, 1) <= c[1] /\ c[1] <= High(b, 1)
    <3>1. \A a \in Moves(dir) : a = 2
      BY <2>3, <2>9
    <3>2. Low(b, 1) <= c[1] /\ c[1] <= High(b, 1)
      BY <1>6, <1>10, <1>11, <2>1, <2>9
    <3>3. QED BY <1>6, <2>2, <2>3, <2>6, <3>1, <3>2
  <2>11. c[1] = Low(b, 1) \/ c[1] = High(b, 1)
    <3>1. ASSUME Low(b, 1) < c[1], c[1] < High(b, 1) PROVE FALSE
      <4>1. Entry(b, t, dir) < h.k
        BY <1>5, <1>14, <2>1, <2>2, <2>5, <2>10
      <4>2. \A a \in Axis \ Moves(dir) : Low(b, a) < t[a] /\ t[a] < High(b, a)
        BY <2>1, <2>10, <3>1
      <4>3. QED BY <2>8, <4>1, <4>2
    <3>2. QED BY <1>5, <1>6, <2>10, <3>1
  <2>12. t[2] <= High(b, 2)
    <3>1. ASSUME t[2] > High(b, 2) PROVE FALSE
      <4>1. h.k - HalfHeight > 0
        BY <1>5, <1>10, <2>1, <3>1
      <4>2. Entry(b, t, dir) = h.k - HalfHeight
        BY <1>5, <2>1, <2>2, <2>10, <4>1
      <4>3. Meets(b, t, d)
        BY <1>5, <1>6, <2>1, <2>2, <2>7, <2>10, <4>2 DEF Meets
      <4>4. SweepSphere(b, t, d) # {}
        BY <1>6, <4>1, <4>2, <4>3 DEF SweepSphere, Blocks
      <4>5. QED BY <1>5, <1>14, <2>1, <2>4, <4>2, <4>4
    <3>2. QED BY <1>5, <2>1, <3>1
  <2>13. CASE t[2] = High(b, 2)
    <3>1. h.k = HalfHeight
      BY <1>5, <1>10, <2>1, <2>13
    <3>2. QED BY <1>10, <1>11, <2>9, <3>1
  <2>14. CASE t[2] # High(b, 2)
    <3>1. Low(b, 2) < t[2] /\ t[2] < High(b, 2)
      BY <1>5, <1>10, <2>1, <2>5, <2>12, <2>14
    <3>2. j + 1 \in 1..3
      BY <1>14
    <3>3. QED BY <1>10, <1>11, <2>9, <2>11, <3>1, <3>2 DEF b, t
  <2>15. QED BY <2>13, <2>14
<1>15. QED BY <1>5, <1>13, <1>14

\* A step up is raised, moved and lowered by sweeps of the whole capsule, each no
\* further than its own first hit: it ends outside of every box, further towards
\* where it was wanted by no more than that, and no more than a step higher.  If
\* it ends higher at all, it is on a walkable top.
LEMMA StepUpLands ==
  ASSUME world \in Worlds, NEW c \in Point, NEW d \in [dir : Direction, len : Nat],
         NEW p \in StepUp(c, d)
  PROVE  /\ p \in Point /\ d.dir[1] # 0 /\ Shortened(d.len) \in 1..d.len
         /\ p[1] = c[1] + Shortened(d.len) * d.dir[1] /\ p[2] - c[2] <= MaxStepHeight
         /\ Clear(c) => Clear(p) /\ (p[2] > c[2] => Rests(p))
<1>1. /\ \A x, y \in {-1, 0, 1} : x # 0 \/ y # 0 => << x, y >> \in Direction
      /\ Up \in Direction /\ Down \in Direction
  <2>1. ASSUME NEW x \in {-1, 0, 1}, NEW y \in {-1, 0, 1}, x # 0 \/ y # 0
        PROVE  << x, y >> \in Direction
    <3>1. << x, y >> \in [Axis -> {-1, 0, 1}]
      BY DEF Axis
    <3>2. << x, y >> # << 0, 0 >>
      BY <2>1
    <3>3. QED BY <3>1, <3>2 DEF Direction
  <2>2. << 0, 1 >> \in Direction /\ << 0, -1 >> \in Direction
    BY <2>1
  <2>3. QED BY <2>1, <2>2 DEF Up, Down
<1>2. /\ MaxStepHeight \in Nat /\ StepUpEps \in Nat /\ StepForwardEps \in Nat
      /\ StepDownExtra \in Nat /\ SnapDistance \in Nat
      /\ d.len \in Nat /\ d.dir[1] \in {-1, 0, 1}
  BY KCCAssumption DEF Direction, Axis
\* One sweep of all three spheres.
<1>3. ASSUME NEW q \in Point, NEW dir \in Direction, NEW len \in Nat
      PROVE  /\ \A h \in Sweep(q, Delta(dir, len)) : h.k \in 0..len
             /\ \A n \in 0..len : (\A h \in Sweep(q, Delta(dir, len)) : n <= h.k) =>
                  Plus(q, dir, n) \in Point /\ (Clear(q) => Clear(Plus(q, dir, n)))
             /\ \A g, h \in Sweep(q, Delta(dir, len)) : g.k = h.k
             /\ Sweep(q, Delta(dir, len)) = {} => Hits(q, 1..3, Delta(dir, len)) = {}
  <2> DEFINE all == Hits(q, 1..3, Delta(dir, len))
  <2>1. /\ \A h \in Earliest(all) : h.k \in 0..len
        /\ \A g, h \in Earliest(all) : g.k = h.k
        /\ all # {} => Earliest(all) # {}
        /\ \A t \in 0..len : (\A h \in Earliest(all) : t <= h.k) =>
             \A i \in DOMAIN world, j \in 1..3 :
               ~InsideOf(world[i], Spheres(q)[j]) =>
                 ~InsideOf(world[i], Spheres(Plus(q, dir, t))[j])
    <3>1. 1..3 \in SUBSET (1..3) /\ all \in SUBSET all /\ \A g \in all \ all : ~(g.hit.k < len)
      OBVIOUS
    <3> HIDE DEF all
    <3>2. all = Hits(q, 1..3, Delta(dir, len))
      BY DEF all
    <3>3. QED BY <3>1, <3>2, CapsuleSweep
  <2>2. Sweep(q, Delta(dir, len)) = Earliest(all)
    BY DEF Sweep
  <2>3. \A n \in 0..len : Plus(q, dir, n) \in Point
    <3>1. q[1] \in Int /\ q[2] \in Int /\ dir[1] \in Int /\ dir[2] \in Int
      BY DEF Point, Direction, Axis
    <3>2. QED BY <3>1 DEF Plus, Point
  <2>4. all = Hits(q, 1..3, Delta(dir, len))
    OBVIOUS
  <2> HIDE DEF all
  <2>5. Sweep(q, Delta(dir, len)) = {} => Hits(q, 1..3, Delta(dir, len)) = {}
    BY <2>1, <2>2, <2>4
  <2>6. QED BY <2>1, <2>2, <2>3, <2>5 DEF Clear
<1> DEFINE forward == Delta(<< d.dir[1], 0 >>, Shortened(d.len))
           raised  == Plus(c, Up, Raise(c))
           ahead   == Plus(raised, forward.dir, forward.len)
           fall    == Delta(Down, Raise(c) + StepDownExtra + SnapDistance)
           under   == Sweep(ahead, fall)
<1>4. /\ d.dir[1] # 0 /\ Raise(c) > 0 /\ Sweep(raised, forward) = {} /\ Lands(under)
      /\ Shortened(d.len) \in 1..d.len
      /\ p = Plus(ahead, Down, (CHOOSE h \in under : TRUE).k)
  <2>1. /\ d.dir[1] # 0 /\ Raise(c) > 0 /\ Sweep(raised, forward) = {} /\ Lands(under)
        /\ forward.len > 0 /\ p = Plus(ahead, Down, (CHOOSE h \in under : TRUE).k)
    BY DEF StepUp
  <2>2. forward.len = Shortened(d.len)
    BY DEF Delta
  <2>3. Shortened(d.len) \in 0..d.len
    BY <1>2 DEF Shortened
  <2>4. QED BY <1>2, <2>1, <2>2, <2>3
<1>5. raised \in Point /\ (Clear(c) => Clear(raised)) /\ Raise(c) \in 0..MaxStepHeight
  <2> DEFINE above == Sweep(c, Delta(Up, MaxStepHeight))
  <2>1. Raise(c) \in 0..MaxStepHeight /\ \A h \in above : Raise(c) <= h.k
    <3>1. CASE above = {}
      BY <1>2, <3>1 DEF Raise
    <3>2. CASE above # {}
      <4> DEFINE g == CHOOSE h \in above : TRUE
      <4>1. g \in above
        BY <3>2
      <4>2. Raise(c) = g.k - StepUpEps
        BY <3>2 DEF Raise
      <4>3. g.k \in 0..MaxStepHeight /\ \A h \in above : h.k = g.k
        BY <1>1, <1>2, <1>3, <4>1
      <4> HIDE DEF g, above
      <4>4. QED BY <1>2, <1>4, <4>2, <4>3
    <3>3. QED BY <3>1, <3>2
  <2>2. \A n \in 0..MaxStepHeight : (\A h \in above : n <= h.k) =>
          Plus(c, Up, n) \in Point /\ (Clear(c) => Clear(Plus(c, Up, n)))
    BY <1>1, <1>2, <1>3
  <2> HIDE DEF above
  <2>3. QED BY <2>1, <2>2
<1>6. ahead \in Point /\ (Clear(raised) => Clear(ahead))
  <2>1. << d.dir[1], 0 >> \in Direction /\ Shortened(d.len) \in Nat
    <3>1. << d.dir[1], 0 >> \in Direction
      BY <1>1, <1>2, <1>4
    <3>2. Shortened(d.len) \in Nat
      BY <1>2 DEF Shortened
    <3>3. QED BY <3>1, <3>2
  <2>2. forward.dir = << d.dir[1], 0 >> /\ forward.len = Shortened(d.len)
    BY DEF Delta
  <2>3. Shortened(d.len) \in 0..Shortened(d.len)
    BY <2>1
  <2> DEFINE dir == << d.dir[1], 0 >>
             len == Shortened(d.len)
  <2>4. Sweep(raised, Delta(dir, len)) = {} /\ ahead = Plus(raised, dir, len)
    BY <1>4, <2>2
  <2>5. dir \in Direction /\ len \in Nat /\ raised \in Point
    BY <1>5, <2>1
  <2> HIDE DEF raised, dir, len, ahead
  <2>6. \A n \in 0..len : (\A h \in Sweep(raised, Delta(dir, len)) : n <= h.k) =>
          Plus(raised, dir, n) \in Point /\ (Clear(raised) => Clear(Plus(raised, dir, n)))
    BY <1>3, <2>5
  <2>7. len \in 0..len
    BY <2>5
  <2>8. QED BY <2>4, <2>6, <2>7
<1>7. /\ p \in Point /\ (Clear(ahead) => Clear(p))
      /\ \A h \in under : p = Plus(ahead, Down, h.k) /\ h.k \in Nat
  <2> DEFINE h == CHOOSE h \in under : TRUE
  <2>1. h \in under
    BY <1>4 DEF Lands
  <2>2. Raise(c) + StepDownExtra + SnapDistance \in Nat
    BY <1>2, <1>5
  <2> HIDE DEF h, ahead
  <2>3. p = Plus(ahead, Down, h.k)
    BY <1>4 DEF h
  <2>4. \A g \in under : h.k = g.k /\ h.k \in 0..(Raise(c) + StepDownExtra + SnapDistance)
    BY <1>1, <1>3, <1>6, <2>1, <2>2
  <2>5. p \in Point /\ (Clear(ahead) => Clear(p))
    <3>1. \A g \in under : h.k <= g.k
      BY <2>2, <2>4
    <3>2. QED BY <1>1, <1>3, <1>6, <2>1, <2>2, <2>3, <2>4, <3>1
  <2>6. QED BY <2>2, <2>3, <2>4, <2>5
<1>8. /\ raised[1] = c[1] /\ raised[2] = c[2] + Raise(c)
      /\ ahead[1] = c[1] + Shortened(d.len) * d.dir[1] /\ ahead[2] = raised[2]
      /\ \A h \in under : p[1] = ahead[1] /\ p[2] = ahead[2] - h.k
  <2>1. /\ c[1] \in Int /\ c[2] \in Int /\ Raise(c) \in Int /\ d.dir[1] \in Int
        /\ Shortened(d.len) \in Int
    BY <1>2, <1>4, <1>5 DEF Point
  <2>2. raised[1] = c[1] /\ raised[2] = c[2] + Raise(c)
    BY <2>1 DEF Plus, Up
  <2>3. ahead[1] = raised[1] + Shortened(d.len) * d.dir[1] /\ ahead[2] = raised[2]
    BY <2>1 DEF Plus, Up, Delta
  <2> HIDE DEF raised, ahead, under
  <2>4. \A h \in under : p[1] = ahead[1] /\ p[2] = ahead[2] - h.k
    BY <1>6, <1>7 DEF Plus, Down, Point
  <2>5. QED BY <2>2, <2>3, <2>4
<1>9. PICK h : h \in under /\ Stands(h)
  BY <1>4 DEF Lands
<1>10. /\ c[1] \in Int /\ c[2] \in Int /\ Raise(c) \in Nat /\ Raise(c) <= MaxStepHeight /\ h.k \in Nat
       /\ p = Plus(ahead, Down, h.k)
       /\ p[1] = c[1] + Shortened(d.len) * d.dir[1] /\ p[2] = (c[2] + Raise(c)) - h.k
  <2>1. /\ c[1] \in Int /\ c[2] \in Int /\ Raise(c) \in Nat /\ Raise(c) <= MaxStepHeight
    BY <1>2, <1>5 DEF Point
  <2> HIDE DEF raised, ahead, under
  <2>2. h.k \in Nat /\ p = Plus(ahead, Down, h.k)
    BY <1>7, <1>9
  <2>3. p[1] = ahead[1] /\ p[2] = ahead[2] - h.k
    BY <1>8, <1>9
  <2>4. QED BY <1>8, <2>1, <2>2, <2>3
\* The way forward is free, so what is underneath at its end is not beside it.
<1>11. ASSUME Clear(c), NEW i \in DOMAIN world, NEW j \in 1..3,
              ahead[1] = Low(world[i], 1) \/ ahead[1] = High(world[i], 1),
              Low(world[i], 2) < Spheres(ahead)[j][2], Spheres(ahead)[j][2] < High(world[i], 2)
       PROVE  FALSE
  <2> DEFINE b   == world[i]
             s   == Spheres(raised)[j]
             dir == << d.dir[1], 0 >>
             len == Shortened(d.len)
  <2>1. b \in BoxType /\ \A a \in Axis : b.lo[a] <= b.hi[a]
    <3>1. world \in Seq(BoxType)
      BY WorldAssumption DEF BoxType, Point
    <3>2. QED BY <3>1, WorldAssumption
  <2>2. dir \in Direction /\ len \in Nat /\ len > 0 /\ dir[1] = d.dir[1] /\ dir[2] = 0 /\ dir[1] \in {-1, 1}
    <3>1. dir \in Direction
      BY <1>1, <1>2, <1>4
    <3>2. QED BY <1>2, <1>4, <3>1
  <2>3. Clear(raised) /\ raised \in Point
    BY <1>5, <1>11
  <2>4. SweepSphere(b, s, Delta(dir, len)) = {}
    <3>1. Hits(raised, 1..3, Delta(dir, len)) = {}
      <4>1. Sweep(raised, Delta(dir, len)) = {}
        BY <1>4
      <4> HIDE DEF raised, dir, len
      <4>2. QED BY <1>3, <2>2, <2>3, <4>1
    <3> HIDE DEF raised, dir, len
    <3> DEFINE of(x, y) == {[hit |-> o, box |-> x, sphere |-> y] :
                             o \in SweepSphere(world[x], Spheres(raised)[y], Delta(dir, len))}
    <3>2. of(i, j) \in {of(x, y) : x \in DOMAIN world, y \in 1..3}
      OBVIOUS
    <3>3. Hits(raised, 1..3, Delta(dir, len)) = UNION {of(x, y) : x \in DOMAIN world, y \in 1..3}
      BY DEF Hits
    <3>4. of(i, j) = {}
      <4> HIDE DEF of
      <4>1. QED BY <3>1, <3>2, <3>3
    <3>5. QED BY <3>4
  <2>5. HalfHeight \in Nat /\ Axis = {1, 2}
    BY KCCAssumption DEF Axis
  <2>6. s \in Point /\ s[1] = raised[1] /\ s[2] = Spheres(ahead)[j][2] /\ ~InsideOf(b, s)
    <3> HIDE DEF raised, ahead, b
    <3>1. ~InsideOf(b, s)
      BY <2>3 DEF Clear, b
    <3>2. raised[1] \in Int /\ raised[2] \in Int /\ ahead[1] \in Int /\ ahead[2] = raised[2]
      BY <1>6, <1>8, <2>3 DEF Point
    <3>3. j = 1 \/ j = 2 \/ j = 3
      BY <1>11
    <3>4. CASE j = 1
      BY <2>5, <3>1, <3>2, <3>4 DEF Spheres, Plus, Up, Down, Point
    <3>5. CASE j = 2
      BY <2>3, <2>5, <3>1, <3>2, <3>5 DEF Spheres
    <3>6. CASE j = 3
      BY <2>5, <3>1, <3>2, <3>6 DEF Spheres, Plus, Up, Down, Point
    <3>7. QED BY <3>3, <3>4, <3>5, <3>6
  <2>7. /\ s[1] \in Int /\ s[2] \in Int /\ ahead[1] = s[1] + len * dir[1]
        /\ ahead[1] = Low(b, 1) \/ ahead[1] = High(b, 1)
        /\ Low(b, 2) < s[2] /\ s[2] < High(b, 2)
    BY <1>8, <1>11, <2>6 DEF Point
  <2> HIDE DEF b, s, dir, len, raised, ahead
  <2>8. /\ \A a \in Axis : Low(b, a) \in Int /\ High(b, a) \in Int /\ Low(b, a) < High(b, a)
        /\ \A a \in Axis : Near(b, s, dir, a) \in Int /\ Far(b, s, dir, a) \in Int
        /\ Entry(b, s, dir) \in Nat
        /\ \A a \in Moves(dir) : Near(b, s, dir, a) <= Entry(b, s, dir)
        /\ Entry(b, s, dir) = 0 \/ \E a \in Moves(dir) : Entry(b, s, dir) = Near(b, s, dir, a)
        /\ \/ Exit(b, s, Delta(dir, len)) = len
           \/ \E a \in Moves(dir) : Exit(b, s, Delta(dir, len)) = Far(b, s, dir, a)
    BY <2>1, <2>2, <2>6, SweepTimes
  <2>9. Moves(dir) = {1}
    BY <2>2, <2>5 DEF Moves
  <2>10. \/ Near(b, s, dir, 1) = len /\ len < Far(b, s, dir, 1)
         \/ Near(b, s, dir, 1) < len /\ len = Far(b, s, dir, 1)
    <3>1. CASE dir[1] = 1
      <4>1. Near(b, s, dir, 1) = Low(b, 1) - s[1] /\ Far(b, s, dir, 1) = High(b, 1) - s[1]
        BY <3>1 DEF Near, Far
      <4>2. ahead[1] = s[1] + len
        BY <2>2, <2>7, <3>1
      <4>3. QED BY <2>2, <2>5, <2>7, <2>8, <4>1, <4>2
    <3>2. CASE dir[1] = -1
      <4>1. Near(b, s, dir, 1) = s[1] - High(b, 1) /\ Far(b, s, dir, 1) = s[1] - Low(b, 1)
        BY <3>2 DEF Near, Far
      <4>2. ahead[1] = s[1] - len
        BY <2>2, <2>7, <3>2
      <4>3. QED BY <2>2, <2>5, <2>7, <2>8, <4>1, <4>2
    <3>3. QED BY <2>2, <3>1, <3>2
  <2>11. /\ Entry(b, s, dir) = 0 \/ Entry(b, s, dir) = Near(b, s, dir, 1)
         /\ Near(b, s, dir, 1) <= Entry(b, s, dir)
         /\ Exit(b, s, Delta(dir, len)) = len
         /\ \A a \in Axis \ Moves(dir) : Low(b, a) < s[a] /\ s[a] < High(b, a)
    <3>1. Exit(b, s, Delta(dir, len)) = len
      <4>1. Exit(b, s, Delta(dir, len)) <= len
        BY <2>1, <2>2, <2>6, SweepTimes
      <4>2. Exit(b, s, Delta(dir, len)) = len \/ Exit(b, s, Delta(dir, len)) = Far(b, s, dir, 1)
        BY <2>8, <2>9
      <4>3. QED BY <2>2, <2>5, <2>8, <2>10, <4>1, <4>2
    <3>2. Axis \ Moves(dir) = {2}
      BY <2>5, <2>9
    <3>3. Entry(b, s, dir) = 0 \/ Entry(b, s, dir) = Near(b, s, dir, 1)
      BY <2>8, <2>9
    <3>4. QED BY <2>7, <2>8, <2>9, <3>1, <3>2, <3>3
  <2>12. CASE Near(b, s, dir, 1) < len
    <3>1. Entry(b, s, dir) < Exit(b, s, Delta(dir, len))
      BY <2>2, <2>8, <2>11, <2>12
    <3>2. QED BY <2>1, <2>2, <2>4, <2>6, <2>11, <3>1, FirstTouch
  <2>13. CASE Near(b, s, dir, 1) = len
    <3>1. Entry(b, s, dir) = len
      BY <2>2, <2>5, <2>8, <2>11, <2>13
    <3>2. Meets(b, s, Delta(dir, len))
      BY <2>2, <2>5, <2>7, <2>8, <2>11, <3>1 DEF Meets, Delta
    <3>3. SweepSphere(b, s, Delta(dir, len)) # {}
      BY <2>2, <3>1, <3>2 DEF SweepSphere, Blocks, Delta
    <3>4. QED BY <2>4, <3>3
  <2>14. QED BY <2>10, <2>12, <2>13
<1>12. ASSUME Clear(c), p[2] > c[2] PROVE Rests(p)
  <2>1. Down \in Direction /\ Raise(c) + StepDownExtra + SnapDistance \in Nat
    BY <1>1, <1>2, <1>10
  <2>2. ahead \in Point /\ Clear(ahead)
    BY <1>5, <1>6, <1>12
  <2>4. h.k # HalfHeight
    <3>1. HalfHeight \in Nat /\ MaxStepHeight <= HalfHeight
      BY KCCAssumption
    <3>2. QED BY <1>2, <1>10, <1>12, <3>1
  <2>5. h \in Sweep(ahead, Delta(Down, Raise(c) + StepDownExtra + SnapDistance))
    BY <1>9
  <2> HIDE DEF ahead, under
  <2>6. QED BY <1>9, <1>10, <1>11, <1>12, <2>1, <2>2, <2>4, <2>5, LandsOnFeet
<1>13. p[1] = c[1] + Shortened(d.len) * d.dir[1] /\ p[2] - c[2] <= MaxStepHeight
  BY <1>2, <1>10
<1>14. QED BY <1>4, <1>5, <1>6, <1>7, <1>12, <1>13

-----------------------------------------------------------------------------
(* Where a move may stand: as typed, with no swept sphere inside a box.     *)
KCCInv == TypeOK /\ Clear(center)

\* At every moment the variables have their types, no move counts further than it
\* wanted to go, and the spheres swept are outside of every box.
THEOREM KCCInvariant == Spec => [](TypeOK /\ KCCInv)
<1>2. Init => KCCInv
  <2> SUFFICES ASSUME Init PROVE KCCInv
    OBVIOUS
  <2>1. Spawn \in Point /\ HalfHeight \in Nat /\ MaxIterations \in Nat
    BY KCCAssumption, WorldAssumption DEF Point
  <2>2. Down \in Direction
    <3>1. Down \in [Axis -> {-1, 0, 1}]
      BY DEF Down, Axis
    <3>2. QED BY <3>1 DEF Down, Direction
  <2>3. TypeOK
    <3>1. 0 \in 0..0 /\ 0 \in 0..MaxIterations /\ Delta(Down, 0) \in [dir : Direction, len : Nat]
      BY <2>1, <2>2 DEF Delta
    <3>2. Delta(Down, 0).len = 0
      BY DEF Delta
    <3>3. QED BY <2>1, <3>1, <3>2 DEF Init, TypeOK, Point
  <2>4. Clear(center)
    <3>1. \A i \in DOMAIN world, h \in {-HalfHeight, 0, HalfHeight} : ~InsideOf(world[i], Plus(Spawn, Up, h))
      BY WorldAssumption DEF Init
    <3>2. /\ Spheres(Spawn)[1] = Plus(Spawn, Up, HalfHeight)
          /\ Spheres(Spawn)[2] = Plus(Spawn, Up, 0)
          /\ Spheres(Spawn)[3] = Plus(Spawn, Up, -HalfHeight)
      BY <2>1 DEF Spheres, Plus, Up, Down, Point
    <3>3. \A j \in 1..3 : j = 1 \/ j = 2 \/ j = 3
      OBVIOUS
    <3>4. QED BY <3>1, <3>2, <3>3 DEF Clear, Init
  <2>5. QED BY <2>3, <2>4 DEF KCCInv
<1>3. KCCInv /\ [Next]_vars => KCCInv'
  <2> SUFFICES ASSUME KCCInv, [Next]_vars PROVE KCCInv'
    OBVIOUS
  <2>1. /\ world \in Worlds /\ center \in Point /\ from \in Point
        /\ grounded \in BOOLEAN /\ groundHit \in BOOLEAN
        /\ phase \in {"idle", "step", "slide", "snap"}
        /\ want \in Wanted \cup {Delta(Down, 0)}
        /\ moved \in 0..want.len /\ iter \in 0..MaxIterations
        /\ remaining \in [dir : Direction, len : Nat]
        /\ Clear(center)
    BY DEF KCCInv, TypeOK, Point
  <2>2. /\ MaxIterations \in Nat /\ MaxStepDistance \in Nat \ {0}
        /\ SnapDistance \in Nat /\ SnapDistanceAir \in Nat /\ HalfHeight \in Nat
        /\ \A w \in Wanted : w.dir \in Direction /\ w.len \in Nat
    BY KCCAssumption
  <2>3. Up \in Direction /\ Down \in Direction
    <3>1. Up \in [Axis -> {-1, 0, 1}] /\ Down \in [Axis -> {-1, 0, 1}]
      BY DEF Up, Down, Axis
    <3>2. QED BY <3>1 DEF Up, Down, Direction
  <2>4. \A w \in Wanted \cup {Delta(Down, 0)} : w.dir \in Direction /\ w.len \in Nat
    BY <2>2, <2>3 DEF Delta
  <2>5. StepLength \in 0..(want.len - moved)
    <3>1. want.len - moved \in Nat
      BY <2>1, <2>4
    <3>2. \A x, y \in Nat : Min({x, y}) \in 0..x
      <4>1. ASSUME NEW x \in Nat, NEW y \in Nat PROVE Min({x, y}) \in 0..x
        <5>1. Min({x, y}) = IF x <= y THEN x ELSE y
          BY DEF Min
        <5>2. QED BY <5>1
      <4>2. QED BY <4>1
    <3>3. QED BY <2>2, <3>1, <3>2 DEF StepLength
  \* A sweep of what remains, and the place of its first hit.
  <2>6. /\ \A h \in Sweep(center, remaining) : h.k \in 0..remaining.len
        /\ \A n \in 0..remaining.len : (\A h \in Sweep(center, remaining) : n <= h.k) =>
             Plus(center, remaining.dir, n) \in Point /\ Clear(Plus(center, remaining.dir, n))
        /\ \A g, h \in Sweep(center, remaining) : g.k = h.k
    <3> DEFINE all == Hits(center, 1..3, Delta(remaining.dir, remaining.len))
    <3>1. remaining = Delta(remaining.dir, remaining.len)
      BY <2>1 DEF Delta
    <3>2. Sweep(center, remaining) = Earliest(all)
      BY <3>1 DEF Sweep
    <3>3. remaining.dir \in Direction /\ remaining.len \in Nat
      BY <2>1
    <3>4. /\ \A h \in Earliest(all) : h.k \in 0..remaining.len
          /\ \A g, h \in Earliest(all) : g.k = h.k
          /\ \A t \in 0..remaining.len : (\A h \in Earliest(all) : t <= h.k) =>
               \A i \in DOMAIN world, j \in 1..3 :
                 ~InsideOf(world[i], Spheres(center)[j]) =>
                   ~InsideOf(world[i], Spheres(Plus(center, remaining.dir, t))[j])
      <4>1. 1..3 \in SUBSET (1..3) /\ all \in SUBSET all /\ \A g \in all \ all : ~(g.hit.k < remaining.len)
        OBVIOUS
      <4>2. all = Hits(center, 1..3, Delta(remaining.dir, remaining.len))
        OBVIOUS
      <4> HIDE DEF all
      <4>3. QED BY <2>1, <3>3, <4>1, <4>2, CapsuleSweep
    <3>5. \A n \in 0..remaining.len : Plus(center, remaining.dir, n) \in Point
      <4>1. center[1] \in Int /\ center[2] \in Int /\ remaining.dir[1] \in Int /\ remaining.dir[2] \in Int
        BY <2>1, <3>3 DEF Point, Direction, Axis
      <4>2. QED BY <4>1 DEF Plus, Point
    <3> HIDE DEF all
    <3>6. QED BY <2>1, <3>2, <3>4, <3>5 DEF Clear
  <2>7. Sweep(center, remaining) # {} => First \in Sweep(center, remaining)
    BY DEF First
  \* The types that an action leaves alone stay as they are.
  <2>8. CASE BeginMove
    <3>1. want'.len \in Nat /\ 0 \in 0..want'.len
      BY <2>4, <2>8 DEF BeginMove
    <3>2. QED BY <2>1, <2>8, <3>1 DEF BeginMove, KCCInv, TypeOK, Clear, Point
  <2>9. CASE BeginStep
    <3>1. remaining' \in [dir : Direction, len : Nat]
      BY <2>1, <2>4, <2>5, <2>9 DEF BeginStep, Delta
    <3>2. QED BY <2>1, <2>2, <2>9, <3>1 DEF BeginStep, KCCInv, TypeOK, Clear, Point
  <2>10. CASE MoveFreely
    <3>1. center' \in Point /\ Clear(center')
      BY <2>1, <2>6, <2>10 DEF MoveFreely
    <3>2. remaining' \in [dir : Direction, len : Nat]
      BY <2>1, <2>10 DEF MoveFreely, Stop, Delta
    <3>3. QED BY <2>1, <2>10, <3>1, <3>2 DEF MoveFreely, KCCInv, TypeOK, Clear, Point
  <2>11. CASE MoveUpStep
    <3>1. center' \in Point /\ Clear(center')
      <4>1. center' \in StepUp(center, remaining)
        BY <2>11 DEF MoveUpStep, StepsUp
      <4>2. QED BY <2>1, <4>1, StepUpLands
    <3>2. remaining' \in [dir : Direction, len : Nat]
      BY <2>1, <2>11 DEF MoveUpStep, Stop, Delta
    <3>3. QED BY <2>1, <2>11, <3>1, <3>2 DEF MoveUpStep, KCCInv, TypeOK, Clear, Point
  <2>12. CASE Slide
    <3>1. First \in Sweep(center, remaining) /\ First.k \in 0..remaining.len
      BY <2>6, <2>7, <2>12 DEF Slide
    <3>2. center' \in Point /\ Clear(center')
      <4>1. First.k <= First.k /\ \A h \in Sweep(center, remaining) : First.k <= h.k
        BY <2>6, <3>1
      <4>2. QED BY <2>6, <2>12, <3>1, <4>1 DEF Slide
    <3>3. Slid(remaining, First) \in [dir : Direction, len : Nat]
      <4> DEFINE dir  == [a \in Axis |-> IF First.n[a] # 0 THEN 0 ELSE remaining.dir[a]]
                 left == remaining.len - First.k
      <4>1. left \in Nat /\ remaining.dir \in Direction
        BY <2>1, <3>1
      <4>2. Moves(dir) # {} => dir \in Direction
        <5>1. dir \in [Axis -> {-1, 0, 1}]
          BY <4>1 DEF Direction
        <5>2. ASSUME Moves(dir) # {} PROVE dir # << 0, 0 >>
          <6>1. PICK a \in Axis : dir[a] # 0
            BY <5>2 DEF Moves
          <6>2. << 0, 0 >>[a] = 0
            BY DEF Axis
          <6> HIDE DEF dir
          <6>3. QED BY <6>1, <6>2
        <5>3. QED BY <5>1, <5>2 DEF Direction
      <4>3. \/ Slid(remaining, First) = Delta(remaining.dir, 0)
            \/ Moves(dir) # {} /\ Slid(remaining, First) = Delta(dir, left)
        BY DEF Slid
      <4> HIDE DEF dir, left
      <4>4. QED BY <4>1, <4>2, <4>3 DEF Delta
    <3>4. remaining' \in [dir : Direction, len : Nat]
      BY <2>12, <3>3 DEF Slide
    <3>5. iter' \in 0..MaxIterations
      BY <2>1, <2>2, <2>12 DEF Slide, Sliding
    <3>6. groundHit' \in BOOLEAN
      BY <2>1, <2>12 DEF Slide, Stands
    <3>7. QED BY <2>1, <2>12, <3>2, <3>4, <3>5, <3>6 DEF Slide, KCCInv, TypeOK, Clear, Point
  <2>13. CASE EndStep
    <3>1. moved' \in 0..want.len
      BY <2>1, <2>4, <2>5, <2>13 DEF EndStep
    <3>2. QED BY <2>1, <2>13, <3>1 DEF EndStep, KCCInv, TypeOK, Clear, Point
  <2>14. CASE AllStepsDone
    BY <2>1, <2>14 DEF AllStepsDone, KCCInv, TypeOK, Clear, Point
  <2>15. CASE GroundSnap
    <3>1. center' \in Point /\ Clear(center')
      <4>1. CASE ~Snaps
        BY <2>1, <2>15, <4>1 DEF GroundSnap
      <4>2. CASE Snaps
        <5>1. PICK h \in BelowFeet : center' = Plus(center, Down, h.k)
          BY <2>15, <4>2 DEF GroundSnap
        <5> DEFINE all  == Hits(center, {3}, Delta(Down, SnapReach))
                   near == {g \in all : g.hit.k < SnapReach}
        <5>2. SnapReach \in Nat
          BY <2>2 DEF SnapReach
        \* The lower sphere is outside all the way down.
        <5>3. /\ h.k \in 0..SnapReach
              /\ \A t \in 0..h.k, i \in DOMAIN world :
                   ~InsideOf(world[i], Spheres(Plus(center, Down, t))[3])
          <6>1. BelowFeet = Earliest(near) /\ near \in SUBSET all /\ {3} \in SUBSET (1..3)
            BY DEF BelowFeet
          <6>2. \A g \in all \ near : ~(g.hit.k < SnapReach)
            OBVIOUS
          <6>3. all = Hits(center, {3}, Delta(Down, SnapReach))
            OBVIOUS
          <6> HIDE DEF all, near
          <6>4. /\ \A g \in BelowFeet : g.k \in 0..SnapReach
                /\ \A g, o \in BelowFeet : g.k = o.k
                /\ \A t \in 0..SnapReach : (\A g \in BelowFeet : t <= g.k) =>
                     \A i \in DOMAIN world, j \in {3} :
                       ~InsideOf(world[i], Spheres(center)[j]) =>
                         ~InsideOf(world[i], Spheres(Plus(center, Down, t))[j])
            BY <2>1, <2>3, <5>2, <6>1, <6>2, <6>3, CapsuleSweep
          <6>5. ASSUME NEW t \in 0..h.k
                PROVE  t \in 0..SnapReach /\ \A g \in BelowFeet : t <= g.k
            BY <5>1, <5>2, <6>4
          <6>6. QED BY <2>1, <5>1, <6>4, <6>5 DEF Clear
        <5> DEFINE p == Plus(center, Down, h.k)
        <5>4. p \in Point /\ p[1] = center[1] /\ p[2] = center[2] - h.k
          BY <2>1, <5>2, <5>3 DEF Plus, Down, Point
        <5>5. ASSUME NEW i \in DOMAIN world, NEW j \in 1..3, InsideOf(world[i], Spheres(p)[j])
              PROVE  FALSE
          <6> DEFINE b == world[i]
          <6>1. /\ b \in BoxType /\ \A a \in Axis : b.lo[a] <= b.hi[a]
                /\ Radius \in Nat /\ SkinWidth \in Nat /\ Radius > SkinWidth
                /\ 2 * (Radius - SkinWidth) > HalfHeight
            <7>1. world \in Seq(BoxType)
              BY <2>1, WorldAssumption DEF BoxType, Point
            <7>2. b \in BoxType /\ i \in DOMAIN world
              BY <7>1
            <7>3. \A a \in Axis : b.lo[a] <= b.hi[a]
              BY <2>1, WorldAssumption
            <7>4. Radius \in Nat /\ SkinWidth \in Nat /\ Radius > SkinWidth
              BY KCCAssumption
            <7>5. QED BY <7>2, <7>3, <7>4, WorldAssumption
          <6>2. /\ Low(b, 2) \in Int /\ High(b, 2) \in Int
                /\ High(b, 2) - Low(b, 2) > HalfHeight /\ High(b, 2) - Low(b, 2) >= 2
            <7>1. b.lo[2] \in Int /\ b.hi[2] \in Int /\ b.lo[2] <= b.hi[2]
              BY <6>1 DEF BoxType, Point, Axis
            <7>2. QED BY <2>2, <6>1, <7>1 DEF Low, High
          <6> DEFINE beside(q)  == Low(b, 1) < q[1] /\ q[1] < High(b, 1)
                     level(y)   == Low(b, 2) < y /\ y < High(b, 2)
          <6>3. ASSUME NEW q \in Point
                PROVE  /\ InsideOf(b, Spheres(q)[1]) <=> beside(q) /\ level(q[2] + HalfHeight)
                       /\ InsideOf(b, Spheres(q)[2]) <=> beside(q) /\ level(q[2])
                       /\ InsideOf(b, Spheres(q)[3]) <=> beside(q) /\ level(q[2] - HalfHeight)
            <7>1. /\ Spheres(q)[1][1] = q[1] /\ Spheres(q)[1][2] = q[2] + HalfHeight
                  /\ Spheres(q)[2] = q
                  /\ Spheres(q)[3][1] = q[1] /\ Spheres(q)[3][2] = q[2] - HalfHeight
              BY <2>2 DEF Spheres, Plus, Up, Down, Point
            <7>2. QED BY <7>1 DEF InsideOf, Axis
          \* Where the box is beside the player, all three spheres were above it.
          <6>4. beside(center) /\ (level(p[2] + HalfHeight) \/ level(p[2]) \/ level(p[2] - HalfHeight))
            <7>1. j = 1 \/ j = 2 \/ j = 3
              OBVIOUS
            <7>2. beside(p) <=> beside(center)
              BY <5>4
            <7> HIDE DEF p, beside, level
            <7>3. QED BY <5>4, <5>5, <6>3, <7>1, <7>2
          <6>5. ~level(center[2] + HalfHeight) /\ ~level(center[2]) /\ ~level(center[2] - HalfHeight)
            <7>1. \A s \in 1..3 : ~InsideOf(b, Spheres(center)[s])
              BY <2>1 DEF Clear
            <7> HIDE DEF beside, level, b
            <7>2. QED BY <2>1, <6>3, <6>4, <7>1
          <6>6. ASSUME NEW t \in 0..h.k PROVE ~level(center[2] - t - HalfHeight)
            <7> DEFINE q == Plus(center, Down, t)
            <7>1. q \in Point /\ q[1] = center[1] /\ q[2] = center[2] - t
              BY <2>1, <5>2, <5>3, <6>6 DEF Plus, Down, Point
            <7>2. ~InsideOf(b, Spheres(q)[3])
              BY <5>3, <6>6
            <7>3. beside(q)
              BY <6>4, <7>1
            <7> HIDE DEF q, b, beside
            <7>4. ~level(q[2] - HalfHeight)
              BY <6>3, <7>1, <7>2, <7>3
            <7>5. QED BY <7>1, <7>4
          <6>7. center[2] \in Int /\ h.k \in Nat
            BY <2>1, <5>2, <5>3 DEF Point
          <6>8. center[2] - HalfHeight >= High(b, 2) /\ center[2] - HalfHeight - h.k < High(b, 2)
            BY <2>2, <5>4, <6>2, <6>4, <6>5, <6>7
          <6>9. center[2] - h.k - HalfHeight <= Low(b, 2)
            BY <2>2, <6>2, <6>6, <6>7, <6>8
          \* So the lower sphere has gone through the box, a step below its top too.
          <6> DEFINE t == center[2] - HalfHeight - High(b, 2) + 1
          <6>10. t \in 0..h.k /\ center[2] - t - HalfHeight = High(b, 2) - 1
            BY <2>2, <6>2, <6>7, <6>8, <6>9
          <6>11. level(High(b, 2) - 1)
            BY <6>2
          <6>12. QED BY <6>6, <6>10, <6>11
        <5>6. QED BY <5>1, <5>4, <5>5 DEF Clear
      <4>3. QED BY <4>1, <4>2
    <3>2. 0 \in 0..want.len /\ 0 \in 0..MaxIterations
      BY <2>1, <2>2, <2>4
    <3>3. grounded' \in BOOLEAN
      BY <2>1, <2>15 DEF GroundSnap, Snaps
    <3>4. QED BY <2>1, <2>15, <3>1, <3>2, <3>3 DEF GroundSnap, KCCInv, TypeOK, Clear, Point
  <2>16. CASE UNCHANGED vars
    BY <2>16 DEF vars, KCCInv, TypeOK, Clear
  <2>17. QED BY <2>8, <2>9, <2>10, <2>11, <2>12, <2>13, <2>14, <2>15, <2>16 DEF Next
<1>4. KCCInv => TypeOK
  BY DEF KCCInv
<1>5. QED BY <1>2, <1>3, <1>4, PTL DEF Spec

\* No part of the capsule, less its skin, is inside a box at any moment of a
\* move: the spheres are too close for a box to fit between two of them.
THEOREM StaysOutside == Spec => []NotInside
<1>1. KCCInv => NotInside
  <2> SUFFICES ASSUME KCCInv, NEW i \in DOMAIN world, NEW h \in -HalfHeight..HalfHeight,
                      InsideOf(world[i], Plus(center, Up, h))
               PROVE  FALSE
    BY DEF NotInside
  <2> DEFINE b == world[i]
  <2>1. /\ center[1] \in Int /\ center[2] \in Int /\ HalfHeight \in Nat /\ h \in Int
        /\ -HalfHeight <= h /\ h <= HalfHeight
    <3>1. HalfHeight \in Nat
      BY KCCAssumption
    <3>2. h \in Int /\ -HalfHeight <= h /\ h <= HalfHeight
      BY <3>1
    <3>3. QED BY <3>1, <3>2 DEF KCCInv, TypeOK
  <2>2. /\ b.lo[2] \in Int /\ b.hi[2] \in Int /\ b.lo[2] <= b.hi[2]
        /\ Radius \in Nat /\ SkinWidth \in Nat /\ 2 * (Radius - SkinWidth) > HalfHeight
    <3>1. world \in Seq(BoxType) /\ \A a \in Axis : b.lo[a] <= b.hi[a]
      BY WorldAssumption DEF BoxType, Point, KCCInv, TypeOK
    <3>2. b \in BoxType
      BY <3>1
    <3>3. QED BY <3>1, <3>2, KCCAssumption, WorldAssumption DEF BoxType, Point, Axis
  <2>3. High(b, 2) - Low(b, 2) > HalfHeight /\ High(b, 2) \in Int /\ Low(b, 2) \in Int
    BY <2>1, <2>2 DEF High, Low
  <2>4. ASSUME NEW p \in Point
        PROVE  InsideOf(b, p) <=> /\ Low(b, 1) < p[1] /\ p[1] < High(b, 1)
                                  /\ Low(b, 2) < p[2] /\ p[2] < High(b, 2)
    BY DEF InsideOf, Axis
  <2>5. \A x \in Int : LET p == Plus(center, Up, x)
                       IN p \in Point /\ p[1] = center[1] /\ p[2] = center[2] + x
    BY <2>1 DEF Plus, Up, Point
  <2>6. /\ Low(b, 1) < center[1] /\ center[1] < High(b, 1)
        /\ Low(b, 2) < center[2] + h /\ center[2] + h < High(b, 2)
    <3> HIDE DEF b
    <3>1. InsideOf(b, Plus(center, Up, h))
      BY DEF b
    <3>2. QED BY <2>1, <2>4, <2>5, <3>1
  <2>7. \A x \in {-HalfHeight, 0, HalfHeight} :
          ~(Low(b, 2) < center[2] + x /\ center[2] + x < High(b, 2))
    <3>1. /\ Spheres(center)[1] = Plus(center, Up, HalfHeight)
          /\ Spheres(center)[2] = Plus(center, Up, 0)
          /\ Spheres(center)[3] = Plus(center, Up, -HalfHeight)
      <4>1. center = << center[1], center[2] >>
        BY DEF KCCInv, TypeOK
      <4>2. QED BY <2>1, <4>1 DEF Spheres, Plus, Up, Down
    <3>2. \A x \in {-HalfHeight, 0, HalfHeight} : ~InsideOf(b, Plus(center, Up, x))
      <4>1. \A j \in 1..3 : ~InsideOf(b, Spheres(center)[j])
        BY DEF KCCInv, Clear
      <4>2. QED BY <3>1, <4>1
    <3> HIDE DEF b
    <3>3. QED BY <2>1, <2>4, <2>5, <2>6, <3>2
  <2> HIDE DEF b
  <2>8. QED BY <2>1, <2>3, <2>6, <2>7
<1>2. QED BY <1>1, KCCInvariant, PTL

(* How far a move may have gone, in every phase of it.  Sideways it has gone    *)
(* no further than its parts and what is left of this one allow, and what is    *)
(* left goes where the move was wanted or along one of its axes.                *)
Travelled ==
  IF phase = "slide" THEN moved + StepLength - remaining.len
  ELSE IF phase = "step" THEN moved ELSE want.len
Headed ==
  /\ want.dir[1] = 0 => center[1] = from[1]
  /\ (center[1] - from[1]) * want.dir[1] \in 0..Travelled
  /\ phase = "slide" => /\ moved < want.len /\ remaining.len <= StepLength
                        /\ \A a \in Axis : remaining.dir[a] \in {0, want.dir[a]}

(* A step up ends its part, so there is one at most in each.                    *)
Climbs ==
  want.dir[2] <= 0 =>
    IF phase \in {"step", "slide"} /\ moved < want.len
    THEN \E n \in Nat :
           /\ moved = n * MaxStepDistance
           /\ LET steps == IF phase = "slide" /\ remaining.len = 0 THEN n + 1 ELSE n
              IN center[2] - from[2] <= steps * MaxStepHeight
    ELSE center[2] > from[2] =>
           \E parts \in 1..want.len : /\ (parts - 1) * MaxStepDistance < want.len
                                      /\ center[2] - from[2] <= parts * MaxStepHeight

(* A move of one part is where it began until that part begins, and higher only *)
(* once its step up has ended it.                                               *)
OnePart ==
  want.len <= MaxStepDistance =>
    /\ phase = "slide" => moved = 0
    /\ phase = "step" => (moved = 0 /\ center = from) \/ moved = want.len
    /\ want.dir[2] <= 0 /\ center[2] > from[2] =>
         Rests(center) /\ (phase = "slide" => remaining.len = 0)

(* An oblique move has one part, and the first face it hits takes an axis from  *)
(* it: ground it hits, with a way to go on, is on the line it was wanted on.    *)
Touched ==
  /\ phase = "slide" /\ remaining.len > 0 /\ remaining.dir[1] # 0 /\ remaining.dir[2] # 0 =>
       center = from /\ remaining = Delta(want.dir, want.len)
  /\ groundHit => /\ want.dir[1] # 0 /\ want.dir[2] = -1
                  /\ \E n \in 0..(want.len - 1) : Rests(Plus(from, want.dir, n))

WayInv == Headed /\ Climbs /\ OnePart /\ Touched

\* A player that is drawn to the ground comes straight down, onto a walkable top.
LEMMA SnapLands ==
  ASSUME KCCInv, GroundSnap
  PROVE  /\ center' = center \/ Rests(center')
         /\ Snaps => Rests(center')
         /\ center'[1] = center[1] /\ center'[2] \in Int /\ center'[2] <= center[2]
<1>1. /\ world \in Worlds /\ center \in Point /\ center[1] \in Int /\ center[2] \in Int
      /\ SnapReach \in Nat /\ HalfHeight \in Nat /\ Down \in Direction
      /\ Down[1] = 0 /\ Down[2] = -1
  <2>1. world \in Worlds /\ center \in Point /\ grounded \in BOOLEAN
    BY DEF KCCInv, TypeOK, Point
  <2>2. Down \in Direction
    <3>1. Down \in [Axis -> {-1, 0, 1}]
      BY DEF Down, Axis
    <3>2. QED BY <3>1 DEF Down, Direction
  <2>3. QED BY <2>1, <2>2, KCCAssumption DEF SnapReach, Point, Down
<1>2. CASE ~Snaps
  BY <1>1, <1>2 DEF GroundSnap
<1>3. CASE Snaps
  <2>1. PICK h \in BelowFeet : Stands(h)
    BY <1>3 DEF Snaps
  <2>2. PICK o \in BelowFeet : center' = Plus(center, Down, o.k)
    BY <1>3 DEF GroundSnap
  <2> DEFINE all  == Hits(center, {3}, Delta(Down, SnapReach))
             near == {g \in all : g.hit.k < SnapReach}
  <2>3. /\ BelowFeet = Earliest(near) /\ near \in SUBSET all /\ {3} \in SUBSET (1..3)
        /\ \A g \in all \ near : ~(g.hit.k < SnapReach)
        /\ all = Hits(center, {3}, Delta(Down, SnapReach))
    BY DEF BelowFeet
  <2>4. o.k = h.k /\ h.k \in Nat
    <3> HIDE DEF all, near
    <3>1. h.k \in 0..SnapReach /\ o.k = h.k
      BY <1>1, <2>1, <2>2, <2>3, CapsuleSweep
    <3>2. QED BY <1>1, <3>1
  <2>5. PICK i \in DOMAIN world : h \in SweepSphere(world[i], Spheres(center)[3], Delta(Down, SnapReach))
    <3>1. PICK g \in all : h = g.hit
      BY <2>1, <2>3 DEF Earliest
    <3>2. PICK i \in DOMAIN world, j \in {3} :
            g \in {[hit |-> x, box |-> i, sphere |-> j] :
                   x \in SweepSphere(world[i], Spheres(center)[j], Delta(Down, SnapReach))}
      BY <3>1 DEF Hits
    <3>3. QED BY <3>1, <3>2
  <2> DEFINE b == world[i]
             s == Spheres(center)[3]
  <2>6. b \in BoxType /\ (\A a \in Axis : b.lo[a] <= b.hi[a]) /\ ~InsideOf(b, s)
    <3>1. world \in Seq(BoxType)
      BY <1>1, WorldAssumption DEF BoxType, Point
    <3>2. QED BY <1>1, <3>1, WorldAssumption DEF KCCInv, Clear
  <2>7. s \in Point /\ s[1] = center[1] /\ s[2] = center[2] - HalfHeight
    BY <1>1 DEF Spheres, Plus, Down, Point
  <2> HIDE DEF all, near, b, s
  <2>8. h.n = Up /\ b.walkable
    <3>1. h.n = Up /\ h.walkable
      BY <2>1, Zenon DEF Stands
    <3>2. \E k, n : h = [k |-> k, n |-> n, walkable |-> b.walkable]
      BY <2>5 DEF SweepSphere, b, s
    <3>3. h.walkable = b.walkable
      BY <3>2
    <3>4. QED BY <3>1, <3>3
  <2>9. /\ s[2] - h.k = High(b, 2) /\ Low(b, 1) <= s[1] + h.k * Down[1] /\ s[1] + h.k * Down[1] <= High(b, 1)
    BY <1>1, <2>5, <2>6, <2>7, <2>8, FirstTouch DEF b, s
  <2>10. center'[1] = center[1] /\ center'[2] = center[2] - h.k
    BY <1>1, <2>2, <2>4 DEF Plus
  <2>11. Spheres(center')[3][1] = s[1] /\ Spheres(center')[3][2] = s[2] - h.k
    BY <1>1, <2>4, <2>7, <2>10 DEF Spheres, Plus
  <2>12. s[1] + h.k * Down[1] = s[1]
    BY <1>1, <2>4, <2>7
  <2>13. Rests(center')
    BY <2>8, <2>9, <2>11, <2>12, Zenon DEF Rests, b
  <2>14. QED BY <1>1, <2>4, <2>10, <2>13
<1>4. QED BY <1>2, <1>3

\* However many parts it is made in, a move goes sideways no further than it was
\* wanted, and climbs a step at most in each part, if in one onto a walkable top.
THEOREM NeverOvershoots == Spec => [](NoOvershoot /\ WayInv)
<1>1. Init /\ KCCInv => WayInv
  <2> SUFFICES ASSUME Init, KCCInv PROVE WayInv
    OBVIOUS
  <2>1. /\ want.dir[1] = 0 /\ want.len = 0 /\ from = center /\ phase = "idle" /\ groundHit = FALSE
        /\ center[1] \in Int /\ center[2] \in Int
    BY DEF Init, Delta, Down, KCCInv, TypeOK
  <2>2. QED BY <2>1 DEF WayInv, Headed, Travelled, Climbs, OnePart, Touched
<1>2. KCCInv /\ WayInv /\ [Next]_vars => WayInv'
  <2> SUFFICES ASSUME KCCInv, WayInv, [Next]_vars PROVE WayInv'
    OBVIOUS
  <2>1. /\ world \in Worlds /\ center \in Point /\ from \in Point /\ Clear(center)
        /\ phase \in {"idle", "step", "slide", "snap"}
        /\ moved \in 0..want.len /\ moved \in Nat
        /\ remaining \in [dir : Direction, len : Nat]
        /\ want.dir \in Direction /\ want.len \in Nat
        /\ want.dir[1] # 0 /\ want.dir[2] # 0 => 2 * want.len <= MaxStepDistance
    <3>1. Down \in Direction
      <4>1. Down \in [Axis -> {-1, 0, 1}]
        BY DEF Down, Axis
      <4>2. QED BY <4>1 DEF Down, Direction
    <3>2. \A w \in Wanted \cup {Delta(Down, 0)} :
            /\ w.dir \in Direction /\ w.len \in Nat
            /\ w.dir[1] # 0 /\ w.dir[2] # 0 => 2 * w.len <= MaxStepDistance
      BY <3>1, KCCAssumption DEF Delta, Down
    <3>3. want.dir \in Direction /\ want.len \in Nat
      BY <3>2 DEF KCCInv, TypeOK
    <3>4. want.dir[1] # 0 /\ want.dir[2] # 0 => 2 * want.len <= MaxStepDistance
      BY <3>2 DEF KCCInv, TypeOK
    <3>5. QED BY <3>3, <3>4 DEF KCCInv, TypeOK, Point
  <2>2. /\ MaxStepDistance \in Nat /\ MaxStepDistance > 0 /\ MaxStepHeight \in Nat /\ MinSlide \in Nat
        /\ Axis = {1, 2}
    BY KCCAssumption DEF Axis
  <2>3. /\ center[1] \in Int /\ center[2] \in Int /\ from[1] \in Int /\ from[2] \in Int
        /\ \A a \in Axis : want.dir[a] \in {-1, 0, 1} /\ remaining.dir[a] \in {-1, 0, 1}
        /\ remaining.len \in Nat
    BY <2>1 DEF Point, Direction
  <2>4. /\ StepLength \in Nat /\ StepLength <= want.len - moved /\ (moved < want.len => StepLength > 0)
        /\ StepLength = want.len - moved \/ (StepLength = MaxStepDistance /\ MaxStepDistance < want.len - moved)
    <3>1. want.len - moved \in Nat
      BY <2>1
    <3>2. ASSUME NEW x \in Nat, NEW y \in Nat
          PROVE  Min({x, y}) = IF x <= y THEN x ELSE y
      BY DEF Min
    <3>3. StepLength = IF want.len - moved <= MaxStepDistance THEN want.len - moved ELSE MaxStepDistance
      BY <2>2, <3>1, <3>2 DEF StepLength
    <3>4. QED BY <2>1, <2>2, <3>1, <3>3
  <2>5. Headed /\ Climbs /\ OnePart /\ Touched
    BY DEF WayInv
  <2>6. SUFFICES Headed' /\ Climbs' /\ OnePart' /\ Touched'
    BY DEF WayInv
  <2>7. \A n \in Nat : /\ n * MaxStepDistance \in Nat /\ n <= n * MaxStepDistance
                       /\ n * MaxStepHeight \in Nat
                       /\ (n + 1) * MaxStepDistance = n * MaxStepDistance + MaxStepDistance
                       /\ (n + 1) * MaxStepHeight = n * MaxStepHeight + MaxStepHeight
                       /\ (n + 1) - 1 = n
    <3>1. ASSUME NEW n \in Nat, NEW y \in Nat
          PROVE  n * y \in Nat /\ (n + 1) * y = n * y + y /\ (y > 0 => n <= n * y)
      OBVIOUS
    <3>2. QED BY <2>2, <3>1
  \* A turn of the slide goes at most as far as was left, and only a step up,
  \* which leaves nothing, makes it higher.
  <2>8. ASSUME phase = "slide", phase' = "slide", remaining.len > 0,
               UNCHANGED << world, want, moved, from >>,
               NEW k \in 0..remaining.len, center' \in Point, center'[1] = center[1] + k * remaining.dir[1],
               remaining'.len \in 0..(remaining.len - k),
               \A a \in Axis : remaining'.dir[a] \in {0, remaining.dir[a]},
               \/ want.dir[2] <= 0 => center'[2] <= center[2]
               \/ /\ remaining'.len = 0 /\ center'[2] - center[2] <= MaxStepHeight
                  /\ center'[2] > center[2] => Rests(center')
        PROVE  Headed' /\ Climbs' /\ OnePart'
    <3>1. /\ center'[1] \in Int /\ center'[2] \in Int /\ StepLength' = StepLength
          /\ k \in Nat /\ k <= remaining.len /\ remaining'.len \in Nat /\ remaining'.len <= remaining.len - k
      BY <2>1, <2>3, <2>8 DEF StepLength, Point
    <3>2. Headed'
      <4>1. /\ want.dir[1] = 0 => center[1] = from[1]
            /\ (center[1] - from[1]) * want.dir[1] \in 0..(moved + StepLength - remaining.len)
            /\ moved < want.len /\ remaining.len <= StepLength
            /\ \A a \in Axis : remaining.dir[a] \in {0, want.dir[a]}
        BY <2>5, <2>8 DEF Headed, Travelled
      <4>2. \A a \in Axis : remaining'.dir[a] \in {0, want.dir[a]}
        BY <2>8, <4>1
      <4>3. (center'[1] - from[1]) * want.dir[1] \in 0..(moved + StepLength - remaining'.len)
        <5>1. \/ want.dir[1] = 0
              \/ remaining.dir[1] = 0 /\ center'[1] = center[1]
              \/ want.dir[1] = 1 /\ center'[1] = center[1] + k
              \/ want.dir[1] = -1 /\ center'[1] = center[1] - k
          <6>1. remaining.dir[1] \in {0, want.dir[1]} /\ want.dir[1] \in {-1, 0, 1}
            BY <2>2, <2>3, <4>1
          <6>2. QED BY <2>3, <2>8, <3>1, <6>1
        <5> HIDE DEF StepLength
        <5>2. \E v \in 0..k : (center'[1] - from[1]) * want.dir[1] = (center[1] - from[1]) * want.dir[1] + v
          <6>1. 0 \in 0..k /\ k \in 0..k
            BY <3>1
          <6>2. CASE want.dir[1] = 0
            BY <2>3, <3>1, <6>1, <6>2
          <6>3. CASE center'[1] = center[1]
            <7>1. \A x \in Int : x = x + 0
              OBVIOUS
            <7>2. (center[1] - from[1]) * want.dir[1] \in Int
              BY <2>1, <2>3, <2>4, <4>1
            <7>3. QED BY <6>1, <6>3, <7>1, <7>2
          <6>4. CASE want.dir[1] = 1 /\ center'[1] = center[1] + k
            BY <2>3, <3>1, <6>1, <6>4
          <6>5. CASE want.dir[1] = -1 /\ center'[1] = center[1] - k
            BY <2>3, <3>1, <6>1, <6>5
          <6>6. QED BY <5>1, <6>2, <6>3, <6>4, <6>5
        <5>3. QED BY <2>1, <2>3, <2>4, <3>1, <4>1, <5>2
      <4>4. want.dir[1] = 0 => center'[1] = from[1]
        BY <2>2, <2>3, <2>8, <3>1, <4>1
      <4>5. QED BY <2>1, <2>3, <2>4, <2>8, <3>1, <4>1, <4>2, <4>3, <4>4 DEF Headed, Travelled
    <3>3. Climbs'
      <4>1. ASSUME want.dir[2] <= 0
            PROVE  \E n \in Nat : /\ moved = n * MaxStepDistance
                                  /\ LET steps == IF remaining'.len = 0 THEN n + 1 ELSE n
                                     IN center'[2] - from[2] <= steps * MaxStepHeight
        <5>1. PICK n \in Nat : moved = n * MaxStepDistance /\ center[2] - from[2] <= n * MaxStepHeight
          <6>1. moved < want.len
            BY <2>5, <2>8 DEF Headed
          <6>2. ~(remaining.len = 0)
            BY <2>3, <2>8
          <6>3. QED BY <2>5, <2>8, <4>1, <6>1, <6>2 DEF Climbs
        <5>2. /\ center'[2] - from[2] <= (n + 1) * MaxStepHeight
              /\ remaining'.len # 0 => center'[2] - from[2] <= n * MaxStepHeight
          BY <2>2, <2>3, <2>7, <2>8, <3>1, <4>1, <5>1
        <5>3. QED BY <5>1, <5>2
      <4>2. moved < want.len
        BY <2>5, <2>8 DEF Headed
      <4>3. QED BY <2>8, <4>1, <4>2 DEF Climbs
    <3>4. OnePart'
      <4>1. ASSUME want.len <= MaxStepDistance
            PROVE  /\ moved = 0
                   /\ want.dir[2] <= 0 /\ center'[2] > from[2] => Rests(center') /\ remaining'.len = 0
        <5>1. moved = 0 /\ (want.dir[2] <= 0 => ~(center[2] > from[2]))
          <6>1. ~(remaining.len = 0)
            BY <2>3, <2>8
          <6>2. QED BY <2>5, <2>8, <4>1, <6>1 DEF OnePart
        <5>2. QED BY <2>3, <2>8, <3>1, <5>1
      <4>2. Rests(center)' <=> Rests(center')
        BY <2>8 DEF Rests
      <4>3. QED BY <2>8, <4>1, <4>2 DEF OnePart
    <3>5. QED BY <3>2, <3>3, <3>4
  \* What is unchanged of what counts for the ground.
  <2>9. ASSUME UNCHANGED << world, want, from >>, ~groundHit' \/ groundHit,
               phase' = "slide" => ~(remaining'.len > 0 /\ remaining'.dir[1] # 0 /\ remaining'.dir[2] # 0)
        PROVE  Touched'
    <3>1. ASSUME NEW c PROVE Rests(c)' <=> Rests(c)
      BY <2>9 DEF Rests
    <3>2. groundHit' => /\ want.dir[1] # 0 /\ want.dir[2] = -1
                        /\ \E n \in 0..(want.len - 1) : Rests(Plus(from, want.dir, n))'
      <4>1. groundHit => /\ want.dir[1] # 0 /\ want.dir[2] = -1
                         /\ \E n \in 0..(want.len - 1) : Rests(Plus(from, want.dir, n))
        BY <2>5 DEF Touched
      <4>2. \A n \in 0..(want.len - 1) : Rests(Plus(from, want.dir, n))' <=> Rests(Plus(from, want.dir, n))
        BY <2>9 DEF Rests
      <4>3. QED BY <2>9, <4>1, <4>2
    <3>3. QED BY <2>9, <3>2 DEF Touched
  <2>10. CASE BeginMove
    <3>1. /\ phase' \in {"snap", "step"} /\ moved' = 0 /\ ~groundHit'
          /\ center' = center /\ from' = center /\ (phase' = "step" => want'.len # 0)
          /\ (phase' = "snap" => want'.len = 0)
      BY <2>10 DEF BeginMove
    <3>2. want'.len \in Nat /\ want'.dir[1] \in Int
      <4>1. want' \in Wanted \cup {Delta(Down, 0)}
        BY <2>10 DEF BeginMove
      <4>2. CASE want' \in Wanted
        BY <2>2, <4>2, KCCAssumption DEF Direction
      <4>3. CASE want' = Delta(Down, 0)
        BY <4>3 DEF Delta, Down
      <4>4. QED BY <4>1, <4>2, <4>3
    <3>3. (center'[1] - from'[1]) * want'.dir[1] = 0 /\ center'[2] - from'[2] = 0 /\ ~(center'[2] > from'[2])
      BY <2>3, <3>1, <3>2
    <3>4. Headed'
      BY <3>1, <3>2, <3>3 DEF Headed, Travelled
    <3>5. Climbs'
      <4>1. 0 \in Nat /\ moved' = 0 * MaxStepDistance /\ center'[2] - from'[2] <= 0 * MaxStepHeight
        BY <2>2, <3>1, <3>3
      <4>2. QED BY <3>1, <3>3, <4>1 DEF Climbs
    <3>6. OnePart' /\ Touched'
      BY <3>1, <3>3 DEF OnePart, Touched
    <3>7. QED BY <3>4, <3>5, <3>6
  <2>11. CASE BeginStep
    <3>1. /\ phase = "step" /\ phase' = "slide" /\ moved < want.len
          /\ remaining'.dir = want.dir /\ remaining'.len = StepLength /\ remaining' = Delta(want.dir, StepLength)
          /\ UNCHANGED << world, center, want, moved, groundHit, from >>
      BY <2>11 DEF BeginStep, Delta
    <3>2. StepLength' = StepLength
      BY <3>1 DEF StepLength
    <3>3. Headed'
      <4>1. moved + StepLength - StepLength = moved
        BY <2>1, <2>4
      <4>2. QED BY <2>1, <2>4, <2>5, <3>1, <3>2, <4>1 DEF Headed, Travelled
    <3>4. Climbs'
      BY <2>4, <2>5, <3>1 DEF Climbs
    <3>5. want.len <= MaxStepDistance => moved = 0 /\ center = from /\ StepLength = want.len
      BY <2>1, <2>2, <2>4, <2>5, <3>1 DEF OnePart
    <3>6. OnePart'
      BY <2>3, <3>1, <3>5 DEF OnePart
    <3>7. Touched'
      <4>1. want.dir[1] # 0 /\ want.dir[2] # 0 => center = from /\ StepLength = want.len
        BY <2>1, <2>2, <3>5
      <4>2. groundHit => /\ want.dir[1] # 0 /\ want.dir[2] = -1
                         /\ \E n \in 0..(want.len - 1) : Rests(Plus(from, want.dir, n))
        BY <2>5 DEF Touched
      <4>3. \A n \in 0..(want.len - 1) : Rests(Plus(from, want.dir, n))' <=> Rests(Plus(from, want.dir, n))
        BY <3>1 DEF Rests
      <4>4. QED BY <3>1, <4>1, <4>2, <4>3 DEF Touched
    <3>8. QED BY <3>3, <3>4, <3>6, <3>7
  <2>12. CASE MoveFreely
    <3>1. /\ phase = "slide" /\ phase' = "slide" /\ remaining.len > 0
          /\ center' = Plus(center, remaining.dir, remaining.len)
          /\ remaining'.dir = remaining.dir /\ remaining'.len = 0
          /\ UNCHANGED << world, want, moved, groundHit, from >>
      BY <2>12 DEF MoveFreely, Sliding, Stop, Delta
    <3>2. /\ center'[1] = center[1] + remaining.len * remaining.dir[1]
          /\ center'[2] = center[2] + remaining.len * remaining.dir[2]
      BY <3>1 DEF Plus
    <3>3. center' \in Point
      BY <2>2, <2>3, <3>1 DEF Plus, Point
    <3>4. want.dir[2] <= 0 => center'[2] <= center[2]
      <4>1. remaining.dir[2] \in {0, want.dir[2]}
        BY <2>2, <2>5, <3>1 DEF Headed
      <4>2. QED BY <2>2, <2>3, <3>2, <4>1
    <3>5. /\ remaining.len \in 0..remaining.len /\ remaining'.len \in 0..(remaining.len - remaining.len)
          /\ \A a \in Axis : remaining'.dir[a] \in {0, remaining.dir[a]}
      BY <2>3, <3>1
    <3>6. Headed' /\ Climbs' /\ OnePart'
      BY <2>8, <3>1, <3>2, <3>3, <3>4, <3>5
    <3>7. Touched'
      BY <2>9, <3>1
    <3>8. QED BY <3>6, <3>7
  <2>13. CASE MoveUpStep
    <3>1. /\ phase = "slide" /\ phase' = "slide" /\ remaining.len > 0
          /\ center' \in StepUp(center, remaining)
          /\ remaining'.dir = remaining.dir /\ remaining'.len = 0
          /\ UNCHANGED << world, want, moved, groundHit, from >>
      BY <2>13 DEF MoveUpStep, StepsUp, Sliding, Stop, Delta
    <3> DEFINE k == Shortened(remaining.len)
    <3>2. /\ center' \in Point /\ k \in 1..remaining.len
          /\ center'[1] = center[1] + k * remaining.dir[1] /\ center'[2] - center[2] <= MaxStepHeight
          /\ center'[2] > center[2] => Rests(center')
      BY <2>1, <3>1, StepUpLands
    <3> HIDE DEF k
    <3>3. /\ k \in 0..remaining.len /\ remaining'.len \in 0..(remaining.len - k)
          /\ \A a \in Axis : remaining'.dir[a] \in {0, remaining.dir[a]}
      BY <2>3, <3>1, <3>2
    <3>4. Headed' /\ Climbs' /\ OnePart'
      BY <2>8, <3>1, <3>2, <3>3
    <3>5. Touched'
      BY <2>9, <3>1
    <3>6. QED BY <3>4, <3>5
  <2>14. CASE Slide
    <3>1. /\ phase = "slide" /\ phase' = "slide" /\ remaining.len > 0 /\ First \in Sweep(center, remaining)
          /\ center' = Plus(center, remaining.dir, First.k)
          /\ remaining' = Slid(remaining, First)
          /\ groundHit' = (groundHit \/ (Slid(remaining, First).len > 0 /\ Stands(First)))
          /\ UNCHANGED << world, want, moved, from >>
      BY <2>14 DEF Slide, Sliding, First
    <3> DEFINE k    == First.k
               left == remaining.len - k
               dir  == [a \in Axis |-> IF First.n[a] # 0 THEN 0 ELSE remaining.dir[a]]
    <3>2. remaining = Delta(remaining.dir, remaining.len) /\ remaining.dir \in Direction
      BY <2>1 DEF Delta
    <3>3. k \in 0..remaining.len /\ \E a \in Moves(remaining.dir) : First.n[a] # 0
      <4> DEFINE all == Hits(center, 1..3, Delta(remaining.dir, remaining.len))
      <4>1. Sweep(center, remaining) = Earliest(all)
        BY <3>2 DEF Sweep
      <4>2. 1..3 \in SUBSET (1..3) /\ all \in SUBSET all /\ \A g \in all \ all : ~(g.hit.k < remaining.len)
        OBVIOUS
      <4>3. all = Hits(center, 1..3, Delta(remaining.dir, remaining.len))
        OBVIOUS
      <4> HIDE DEF all
      <4>4. \A h \in Earliest(all) : h.k \in 0..remaining.len /\ \E a \in Moves(remaining.dir) : h.n[a] # 0
        BY <2>1, <2>3, <3>2, <4>2, <4>3, CapsuleSweep
      <4>5. QED BY <3>1, <4>1, <4>4
    \* What is left has lost an axis.
    <3>4. \/ remaining'.dir = remaining.dir /\ remaining'.len = 0
          \/ remaining'.dir = dir /\ remaining'.len = left /\ left > MinSlide /\ Moves(dir) # {}
      <4>1. \/ Slid(remaining, First) = Delta(remaining.dir, 0)
            \/ Moves(dir) # {} /\ ~(left <= MinSlide) /\ Slid(remaining, First) = Delta(dir, left)
        BY DEF Slid
      <4>2. left \in Int
        BY <2>3, <3>3
      <4> HIDE DEF dir, left
      <4>3. QED BY <2>2, <3>1, <4>1, <4>2 DEF Delta
    <3>5. /\ center'[1] = center[1] + k * remaining.dir[1]
          /\ center'[2] = center[2] + k * remaining.dir[2]
          /\ center' \in Point
      BY <2>2, <2>3, <3>1, <3>3 DEF Plus, Point
    <3>6. want.dir[2] <= 0 => center'[2] <= center[2]
      <4>1. remaining.dir[2] \in {0, want.dir[2]}
        BY <2>2, <2>5, <3>1 DEF Headed
      <4> HIDE DEF k
      <4>2. QED BY <2>2, <2>3, <3>3, <3>5, <4>1
    <3>7. /\ remaining'.len \in 0..(remaining.len - k)
          /\ \A a \in Axis : remaining'.dir[a] \in {0, remaining.dir[a]}
      BY <2>3, <3>3, <3>4
    <3>8. Headed' /\ Climbs' /\ OnePart'
      <4> HIDE DEF k
      <4>1. QED BY <2>8, <3>1, <3>3, <3>5, <3>6, <3>7
    <3>9. ~(remaining'.len > 0 /\ remaining'.dir[1] # 0 /\ remaining'.dir[2] # 0)
      <4>1. remaining'.len > 0 => remaining'.dir = dir
        BY <3>4
      <4>2. dir[1] = 0 \/ dir[2] = 0
        BY <2>2, <3>3 DEF Moves
      <4>3. QED BY <4>1, <4>2
    <3>10. CASE ~groundHit' \/ groundHit
      BY <2>9, <3>1, <3>8, <3>9, <3>10
    \* Ground that was hit on an oblique way, before its end.
    <3>11. CASE groundHit' /\ ~groundHit
      <4>1. remaining'.len > 0 /\ Stands(First)
        BY <3>1, <3>11
      <4>2. First.n = Up /\ left > 0 /\ remaining'.dir = dir /\ Moves(dir) # {}
        <5>1. First.n = Up
          BY <4>1, Zenon DEF Stands
        <5> HIDE DEF dir, left
        <5>2. left > 0 /\ remaining'.dir = dir /\ Moves(dir) # {}
          BY <3>4, <4>1
        <5>3. QED BY <5>1, <5>2
      <4>3. remaining.dir[1] # 0
        <5>1. Up[1] = 0 /\ Up[2] = 1
          BY DEF Up
        <5>2. dir[2] = 0 /\ dir[1] = remaining.dir[1]
          BY <2>2, <4>2, <5>1
        <5> HIDE DEF dir
        <5>3. QED BY <2>2, <4>2, <5>2 DEF Moves
      <4>4. /\ k \in 0..remaining.len /\ remaining.dir[2] = -1
            /\ Rests(Plus(center, remaining.dir, k))
        <5>1. First \in Sweep(center, Delta(remaining.dir, remaining.len))
          BY <3>1, <3>2
        <5>2. QED BY <2>1, <2>3, <3>2, <4>1, <4>3, <5>1, LandsOnFeet
      <4>5. center = from /\ remaining = Delta(want.dir, want.len)
        BY <2>5, <3>1, <4>3, <4>4 DEF Touched
      <4>6. remaining.dir = want.dir /\ remaining.len = want.len
        BY <4>5 DEF Delta
      <4>7. k \in 0..(want.len - 1) /\ Rests(Plus(from, want.dir, k))
        <5> HIDE DEF k
        <5>1. k < remaining.len
          BY <2>3, <3>3, <4>2
        <5>2. QED BY <2>3, <3>3, <4>4, <4>5, <4>6, <5>1
      <4>8. PICK n \in 0..(want.len - 1) : Rests(Plus(from, want.dir, n))
        BY <4>7
      <4>9. Rests(Plus(from, want.dir, n))'
        BY <3>1, <4>8 DEF Rests
      <4>10. want'.dir[1] # 0 /\ want'.dir[2] = -1
        BY <3>1, <4>3, <4>4, <4>6
      <4>11. Touched'
        BY <3>1, <3>9, <4>8, <4>9, <4>10 DEF Touched
      <4>12. QED BY <3>8, <4>11
    <3>12. QED BY <3>10, <3>11
  <2>15. CASE EndStep
    <3>1. /\ phase = "slide" /\ phase' = "step" /\ moved' = moved + StepLength
          /\ UNCHANGED << world, center, want, remaining, groundHit, from >>
      BY <2>15 DEF EndStep
    <3>2. moved < want.len
      BY <2>5, <3>1 DEF Headed
    <3>3. Headed'
      <4>1. /\ (center[1] - from[1]) * want.dir[1] \in 0..(moved + StepLength - remaining.len)
            /\ want.dir[1] = 0 => center[1] = from[1]
        BY <2>5, <3>1 DEF Headed, Travelled
      <4>2. (center[1] - from[1]) * want.dir[1] \in 0..(moved + StepLength)
        BY <2>1, <2>3, <2>4, <4>1
      <4>3. QED BY <3>1, <4>1, <4>2 DEF Headed, Travelled
    <3>4. Climbs'
      <4>1. ASSUME want.dir[2] <= 0
            PROVE  \E n \in Nat : moved = n * MaxStepDistance /\ center[2] - from[2] <= (n + 1) * MaxStepHeight
        <5>1. PICK n \in Nat : /\ moved = n * MaxStepDistance
                               /\ LET steps == IF phase = "slide" /\ remaining.len = 0 THEN n + 1 ELSE n
                                  IN center[2] - from[2] <= steps * MaxStepHeight
          BY <2>5, <3>1, <3>2, <4>1 DEF Climbs
        <5>2. QED BY <2>2, <2>3, <2>7, <5>1
      <4>2. ASSUME want.dir[2] <= 0, moved' < want.len
            PROVE  \E n \in Nat : moved' = n * MaxStepDistance /\ center[2] - from[2] <= n * MaxStepHeight
        <5>1. StepLength = MaxStepDistance
          BY <2>1, <2>4, <3>1, <4>2
        <5>2. PICK n \in Nat : moved = n * MaxStepDistance /\ center[2] - from[2] <= (n + 1) * MaxStepHeight
          BY <4>1, <4>2
        <5>3. n + 1 \in Nat /\ moved' = (n + 1) * MaxStepDistance
          BY <2>2, <2>7, <3>1, <5>1, <5>2
        <5>4. QED BY <5>2, <5>3
      <4>3. ASSUME want.dir[2] <= 0
            PROVE  \E parts \in 1..want.len : /\ (parts - 1) * MaxStepDistance < want.len
                                              /\ center[2] - from[2] <= parts * MaxStepHeight
        <5>1. PICK n \in Nat : moved = n * MaxStepDistance /\ center[2] - from[2] <= (n + 1) * MaxStepHeight
          BY <4>1, <4>3
        <5>2. n + 1 \in 1..want.len /\ ((n + 1) - 1) * MaxStepDistance < want.len
          BY <2>1, <2>2, <2>7, <3>2, <5>1
        <5>3. QED BY <5>1, <5>2
      <4>4. QED BY <3>1, <4>2, <4>3 DEF Climbs
    <3>5. OnePart'
      <4>1. want.len <= MaxStepDistance => moved' = want.len
        <5>1. want.len <= MaxStepDistance => moved = 0
          BY <2>5, <3>1 DEF OnePart
        <5>2. QED BY <2>1, <2>2, <2>4, <3>1, <5>1
      <4>2. Rests(center)' <=> Rests(center)
        BY <3>1 DEF Rests
      <4>3. QED BY <2>5, <3>1, <4>1, <4>2 DEF OnePart
    <3>6. Touched'
      BY <2>9, <3>1
    <3>7. QED BY <3>3, <3>4, <3>5, <3>6
  <2>16. CASE AllStepsDone
    <3>1. /\ phase = "step" /\ phase' = "snap" /\ ~(moved < want.len) /\ moved = want.len
          /\ UNCHANGED << world, center, want, moved, remaining, groundHit, from >>
      BY <2>1, <2>16 DEF AllStepsDone
    <3>2. Headed' /\ Climbs'
      BY <2>5, <3>1 DEF Headed, Travelled, Climbs
    <3>3. OnePart'
      <4>1. Rests(center)' <=> Rests(center)
        BY <3>1 DEF Rests
      <4>2. QED BY <2>5, <3>1, <4>1 DEF OnePart
    <3>4. Touched'
      BY <2>9, <3>1
    <3>5. QED BY <3>2, <3>3, <3>4
  <2>17. CASE GroundSnap
    <3>1. /\ phase = "snap" /\ phase' = "idle" /\ ~groundHit'
          /\ UNCHANGED << world, want, remaining, from >>
      BY <2>17 DEF GroundSnap
    <3>2. /\ center' = center \/ Rests(center')
          /\ center'[1] = center[1] /\ center'[2] <= center[2]
      BY <2>17, SnapLands
    <3>3. center'[2] \in Int
      BY <2>17, SnapLands
    <3>4. Headed'
      BY <2>5, <3>1, <3>2 DEF Headed, Travelled
    <3>5. center'[2] > from[2] => center[2] > from[2] /\ center'[2] - from[2] <= center[2] - from[2]
      BY <2>3, <3>2, <3>3
    <3>6. Climbs'
      <4>1. ASSUME want.dir[2] <= 0, center'[2] > from[2]
            PROVE  \E parts \in 1..want.len : /\ (parts - 1) * MaxStepDistance < want.len
                                              /\ center'[2] - from[2] <= parts * MaxStepHeight
        <5>1. PICK parts \in 1..want.len : /\ (parts - 1) * MaxStepDistance < want.len
                                           /\ center[2] - from[2] <= parts * MaxStepHeight
          BY <2>5, <3>1, <3>5, <4>1 DEF Climbs
        <5>2. center'[2] - from[2] <= parts * MaxStepHeight
          BY <2>2, <2>3, <3>3, <3>5, <4>1, <5>1
        <5>3. QED BY <5>1, <5>2
      <4>2. QED BY <3>1, <4>1 DEF Climbs
    <3>7. OnePart'
      <4>1. Rests(center)' <=> Rests(center')
        BY <3>1 DEF Rests
      <4>2. want.len <= MaxStepDistance /\ want.dir[2] <= 0 /\ center'[2] > from[2] => Rests(center')
        BY <2>5, <3>2, <3>5 DEF OnePart
      <4>3. QED BY <3>1, <4>1, <4>2 DEF OnePart
    <3>8. Touched'
      BY <2>9, <3>1
    <3>9. QED BY <3>4, <3>6, <3>7, <3>8
  <2>18. CASE UNCHANGED vars
    <3>1. /\ UNCHANGED << world, center, phase, want, moved, remaining, groundHit, from >>
          /\ StepLength' = StepLength
      BY <2>18 DEF vars, StepLength
    <3>2. Rests(center)' <=> Rests(center)
      BY <3>1 DEF Rests
    <3>3. Headed' /\ Climbs'
      BY <2>5, <3>1 DEF Headed, Travelled, Climbs
    <3>4. OnePart'
      BY <2>5, <3>1, <3>2 DEF OnePart
    <3>5. Touched'
      <4>1. \A n \in 0..(want.len - 1) : Rests(Plus(from, want.dir, n))' <=> Rests(Plus(from, want.dir, n))
        BY <3>1 DEF Rests
      <4>2. QED BY <2>5, <3>1, <4>1 DEF Touched
    <3>6. QED BY <3>3, <3>4, <3>5
  <2>19. QED BY <2>10, <2>11, <2>12, <2>13, <2>14, <2>15, <2>16, <2>17, <2>18 DEF Next
<1>3. WayInv => NoOvershoot
  <2> SUFFICES ASSUME WayInv, phase = "idle" PROVE NoOvershoot
    BY DEF NoOvershoot
  <2>1. /\ (center[1] - from[1]) * want.dir[1] \in 0..want.len
        /\ want.dir[1] = 0 => center[1] = from[1]
    BY DEF WayInv, Headed, Travelled
  <2>2. QED BY <2>1 DEF WayInv, Climbs, OnePart, NoOvershoot
<1>4. QED BY <1>1, <1>2, <1>3, KCCInvariant, PTL DEF Spec

\* A move that ends on the ground ends on a walkable top; or it was an oblique fall
\* that touched one, before its end, on the line on which it was wanted.
THEOREM GroundKept == Spec => GroundIsReal
<1>1. ASSUME KCCInv, WayInv, [Next]_vars, phase = "snap", phase' = "idle", grounded'
      PROVE  \/ Rests(center')
             \/ /\ want.dir[1] # 0 /\ want.dir[2] = -1
                /\ \E n \in 0..(want.len - 1) : Rests(Plus(from, want.dir, n))
  <2>1. GroundSnap
    BY <1>1 DEF Next, vars, BeginMove, BeginStep, MoveFreely, MoveUpStep, Slide, Sliding,
                EndStep, AllStepsDone
  <2>2. groundHit \/ Snaps
    BY <1>1, <2>1 DEF GroundSnap
  <2>3. CASE Snaps
    BY <1>1, <2>1, <2>3, SnapLands
  <2>4. CASE groundHit
    BY <1>1, <2>4 DEF WayInv, Touched
  <2>5. QED BY <2>2, <2>3, <2>4
<1>2. KCCInv /\ WayInv /\ [Next]_vars =>
        [phase = "snap" /\ phase' = "idle" /\ grounded' =>
           \/ Rests(center')
           \/ /\ want.dir[1] # 0 /\ want.dir[2] = -1
              /\ \E n \in 0..(want.len - 1) : Rests(Plus(from, want.dir, n))]_vars
  BY <1>1
<1>3. QED BY <1>2, KCCInvariant, NeverOvershoots, PTL DEF Spec, GroundIsReal

\* What keeps a move that meets nothing on its way: each slide takes an axis
\* from the direction, and a player with an open way is where its parts say.
OnItsWay ==
  /\ phase = "step" => center = Plus(from, want.dir, moved)
  /\ phase = "slide" =>
       /\ moved < want.len /\ remaining.dir = want.dir
       /\ \/ iter = 0 /\ remaining.len = StepLength /\ center = Plus(from, want.dir, moved)
          \/ remaining.len = 0 /\ center = Plus(from, want.dir, moved + StepLength)
  /\ phase = "snap" => center = Plus(from, want.dir, want.len)

MoveInv ==
  /\ phase = "slide" /\ remaining.len > 0 =>
       iter = 0 \/ (iter = 1 /\ \E a \in Axis : Moves(remaining.dir) = {a})
  /\ Open(from, want) => OnItsWay
  /\ LeavesContact

\* Nothing that is only touched holds the player: with nothing else before it, a
\* move goes all the way.  And no slide ends because its turns are used up: each
\* takes an axis from the direction, and there are two.
THEOREM NeverHeld == Spec => []NeverStuck
<1>1. Init /\ KCCInv => MoveInv
  <2> SUFFICES ASSUME Init, KCCInv PROVE MoveInv
    OBVIOUS
  <2>1. LeavesContact
    <3>1. want = Delta(Down, 0) /\ want.len = 0 /\ want.dir = Down /\ from = center
      BY DEF Init, Delta
    <3>2. center[1] \in Int /\ center[2] \in Int /\ SnapDistance \in Nat
      BY KCCAssumption DEF KCCInv, TypeOK
    <3>3. Down[2] = -1 /\ Down[1] = 0
      BY DEF Down
    <3> DEFINE goal == Plus(from, want.dir, want.len)
    <3>4. goal[1] = center[1] /\ goal[2] = center[2]
      BY <3>1, <3>2, <3>3 DEF Plus
    <3> HIDE DEF goal
    <3>5. /\ center[1] = goal[1]
          /\ center[2] \in IF want.dir[2] = 1 THEN {goal[2]} ELSE (goal[2] - SnapDistance)..goal[2]
      BY <3>1, <3>2, <3>3, <3>4
    <3>6. QED BY <3>5 DEF LeavesContact, goal
  <2>2. QED BY <2>1 DEF Init, MoveInv, OnItsWay
<1>2. KCCInv /\ MoveInv /\ [Next]_vars => MoveInv'
  <2> SUFFICES ASSUME KCCInv, MoveInv, [Next]_vars PROVE MoveInv'
    OBVIOUS
  <2>1. /\ world \in Worlds /\ center \in Point /\ from \in Point
        /\ phase \in {"idle", "step", "slide", "snap"}
        /\ moved \in 0..want.len /\ iter \in 0..MaxIterations
        /\ remaining \in [dir : Direction, len : Nat]
        /\ want.dir \in Direction /\ want.len \in Nat
    <3>1. Down \in Direction
      <4>1. Down \in [Axis -> {-1, 0, 1}]
        BY DEF Down, Axis
      <4>2. QED BY <4>1 DEF Down, Direction
    <3>2. \A w \in Wanted \cup {Delta(Down, 0)} : w.dir \in Direction /\ w.len \in Nat
      BY <3>1, KCCAssumption DEF Delta
    <3>3. QED BY <3>2 DEF KCCInv, TypeOK, Point
  <2>2. /\ MaxIterations \in Nat /\ MaxIterations >= 2 /\ MaxStepDistance \in Nat \ {0}
        /\ SnapDistance \in Nat /\ SnapDistanceAir \in Nat /\ SnapDistanceAir <= SnapDistance
    BY KCCAssumption
  <2>3. StepLength \in 0..(want.len - moved) /\ (moved < want.len => StepLength > 0)
    <3>1. want.len - moved \in Nat /\ (moved < want.len => want.len - moved > 0)
      BY <2>1
    <3>2. \A x, y \in Nat : Min({x, y}) \in 0..x /\ (x > 0 /\ y > 0 => Min({x, y}) > 0)
      <4>1. ASSUME NEW x \in Nat, NEW y \in Nat
            PROVE  Min({x, y}) \in 0..x /\ (x > 0 /\ y > 0 => Min({x, y}) > 0)
        <5>1. Min({x, y}) = IF x <= y THEN x ELSE y
          BY DEF Min
        <5>2. QED BY <5>1
      <4>2. QED BY <4>1
    <3>3. MaxStepDistance \in Nat /\ MaxStepDistance > 0
      BY <2>2
    <3>4. QED BY <3>1, <3>2, <3>3 DEF StepLength
  \* On an open way, a part of it meets nothing.
  <2>4. ASSUME Open(from, want), NEW m \in Nat, NEW l \in Nat, m + l <= want.len
        PROVE  Sweep(Plus(from, want.dir, m), Delta(want.dir, l)) = {}
    <3> DEFINE q == Plus(from, want.dir, m)
               e == Delta(want.dir, l)
    <3>1. ASSUME NEW i \in DOMAIN world, NEW j \in 1..3
          PROVE  SweepSphere(world[i], Spheres(q)[j], e) = {}
      <4>1. world[i] \in BoxType /\ \A a \in Axis : world[i].lo[a] <= world[i].hi[a]
        <5>1. world \in Seq(BoxType)
          BY <2>1, WorldAssumption DEF BoxType, Point
        <5>2. QED BY <2>1, <5>1, WorldAssumption
      <4> DEFINE s == Spheres(from)[j]
      <4>2. s \in Point /\ Spheres(q)[j] = Plus(s, want.dir, m)
        <5>1. /\ HalfHeight \in Nat /\ from[1] \in Int /\ from[2] \in Int
              /\ want.dir[1] \in Int /\ want.dir[2] \in Int /\ from = << from[1], from[2] >>
          <6>1. HalfHeight \in Nat
            BY KCCAssumption
          <6>2. QED BY <2>1, <6>1 DEF Point, Direction, Axis
        <5>2. CASE j = 1
          BY <5>1, <5>2 DEF Spheres, Plus, Up, Down, Point
        <5>3. CASE j = 2
          BY <5>1, <5>3 DEF Spheres, Plus, Up, Down, Point
        <5>4. CASE j = 3
          BY <5>1, <5>4 DEF Spheres, Plus, Up, Down, Point
        <5>5. j = 1 \/ j = 2 \/ j = 3
          OBVIOUS
        <5>6. QED BY <5>2, <5>3, <5>4, <5>5
      <4>3. \/ ~Meets(world[i], s, want)
            \/ \E a \in Faces(world[i], s) : Dot(want.dir, Outward(world[i], s, a)) >= 0
        BY <2>4 DEF Open
      <4>4. Meets(world[i], s, want) <=> Meets(world[i], s, Delta(want.dir, want.len))
        BY DEF Meets, Exit, Delta
      <4> HIDE DEF q, s
      <4>5. SweepSphere(world[i], Plus(s, want.dir, m), Delta(want.dir, l)) = {}
        BY <2>1, <2>4, <4>1, <4>2, <4>3, <4>4, SphereSweep
      <4>6. QED BY <4>2, <4>5
    <3>2. Hits(q, 1..3, e) = {}
      BY <3>1 DEF Hits
    <3>3. QED BY <3>2 DEF Sweep, Earliest
  \* While a part of an open way is before the player, no sweep hits.
  <2>5. ASSUME Open(from, want), phase = "slide", Sliding
        PROVE  /\ Sweep(center, remaining) = {}
               /\ iter = 0 /\ remaining.len = StepLength
               /\ center = Plus(from, want.dir, moved)
    <3>1. OnItsWay /\ remaining.len > 0
      BY <2>5 DEF MoveInv, Sliding
    <3>2. /\ moved < want.len /\ remaining.dir = want.dir
          /\ iter = 0 /\ remaining.len = StepLength /\ center = Plus(from, want.dir, moved)
      BY <2>1, <2>5, <3>1 DEF OnItsWay
    <3>3. remaining = Delta(want.dir, StepLength)
      BY <2>1, <3>2 DEF Delta
    <3>4. moved \in Nat /\ StepLength \in Nat /\ moved + StepLength <= want.len
      BY <2>1, <2>3
    <3>5. QED BY <2>4, <2>5, <3>2, <3>3, <3>4
  <2> DEFINE Turns == phase = "slide" /\ remaining.len > 0 =>
                        iter = 0 \/ (iter = 1 /\ \E a \in Axis : Moves(remaining.dir) = {a})
  <2>6. Turns /\ (Open(from, want) => OnItsWay) /\ LeavesContact
    BY DEF MoveInv
  <2>7. SUFFICES Turns' /\ (Open(from, want)' => OnItsWay') /\ LeavesContact'
    BY DEF MoveInv
  <2>8. CASE BeginMove
    <3>1. phase' # "slide" /\ phase' # "idle" /\ center' = center /\ from' = center /\ moved' = 0
      BY <2>8 DEF BeginMove
    <3>2. phase' = "snap" => want'.len = 0
      BY <2>8 DEF BeginMove
    <3>3. Plus(from', want'.dir, 0) = center'
      <4>1. want'.dir[1] \in Int /\ want'.dir[2] \in Int
        <5>1. want' \in Wanted \cup {Delta(Down, 0)}
          BY <2>8 DEF BeginMove
        <5>2. \A w \in Wanted : w.dir \in Direction
          BY KCCAssumption
        <5>3. CASE want' \in Wanted
          BY <5>2, <5>3 DEF Direction, Axis
        <5>4. CASE want' = Delta(Down, 0)
          BY <5>4 DEF Delta, Down
        <5>5. QED BY <5>1, <5>3, <5>4
      <4>2. QED BY <2>1, <3>1, <4>1 DEF Plus, Point
    <3>4. QED BY <3>1, <3>2, <3>3 DEF OnItsWay, LeavesContact
  <2>9. CASE BeginStep
    <3>1. /\ phase' = "slide" /\ iter' = 0 /\ remaining' = Delta(want.dir, StepLength)
          /\ phase = "step" /\ moved < want.len
          /\ UNCHANGED << world, center, want, moved, from >>
      BY <2>9 DEF BeginStep
    <3>2. remaining'.dir = want'.dir /\ remaining'.len = StepLength'
      BY <3>1 DEF Delta, StepLength
    <3>3. Open(from, want)' => OnItsWay'
      BY <2>6, <3>1, <3>2 DEF OnItsWay, Open
    <3>4. QED BY <3>1, <3>3 DEF LeavesContact
  <2>10. CASE MoveFreely
    <3>1. /\ phase = "slide" /\ phase' = "slide" /\ Sliding
          /\ remaining' = Delta(remaining.dir, 0)
          /\ center' = Plus(center, remaining.dir, remaining.len)
          /\ UNCHANGED << world, want, moved, from >>
      BY <2>10 DEF MoveFreely, Stop, Sliding
    <3>2. remaining'.dir = remaining.dir /\ remaining'.len = 0
      BY <3>1 DEF Delta
    <3>3. ASSUME Open(from, want) PROVE OnItsWay'
      <4>1. remaining.dir = want.dir /\ moved < want.len
        BY <2>6, <3>1, <3>3 DEF OnItsWay
      <4>2. remaining.len = StepLength /\ center = Plus(from, want.dir, moved)
        BY <2>5, <3>1, <3>3
      <4>3. center' = Plus(from, want.dir, moved + StepLength)
        <5>1. /\ from[1] \in Int /\ from[2] \in Int /\ want.dir[1] \in {-1, 0, 1} /\ want.dir[2] \in {-1, 0, 1}
              /\ moved \in Int /\ StepLength \in Int
          BY <2>1, <2>3 DEF Point, Direction, Axis
        <5> HIDE DEF StepLength
        <5>2. center' = Plus(Plus(from, want.dir, moved), want.dir, StepLength)
          BY <3>1, <4>1, <4>2
        <5>3. \A x, y, z \in Int, w \in {-1, 0, 1} : (x + y * w) + z * w = x + (y + z) * w
          OBVIOUS
        <5>4. QED BY <5>1, <5>2, <5>3 DEF Plus
      <4>4. StepLength' = StepLength
        BY <3>1 DEF StepLength
      <4>5. QED BY <3>1, <3>2, <4>1, <4>3, <4>4 DEF OnItsWay
    <3>4. Open(from, want)' <=> Open(from, want)
      BY <3>1 DEF Open
    <3>5. QED BY <3>1, <3>2, <3>3, <3>4 DEF LeavesContact
  <2>11. CASE MoveUpStep
    <3>1. /\ phase = "slide" /\ phase' = "slide" /\ Sliding /\ Sweep(center, remaining) # {}
          /\ remaining' = Delta(remaining.dir, 0)
          /\ UNCHANGED << world, want, from >>
      BY <2>11 DEF MoveUpStep, Stop, Sliding
    <3>2. remaining'.len = 0
      BY <3>1 DEF Delta
    <3>3. ~Open(from, want)'
      BY <2>5, <3>1 DEF Open
    <3>4. QED BY <3>1, <3>2, <3>3 DEF LeavesContact
  <2>12. CASE Slide
    <3>1. /\ phase = "slide" /\ phase' = "slide" /\ Sliding /\ Sweep(center, remaining) # {}
          /\ remaining' = Slid(remaining, First) /\ iter' = iter + 1
          /\ UNCHANGED << world, want, from >>
      BY <2>12 DEF Slide, Sliding
    <3>2. ~Open(from, want)'
      BY <2>5, <3>1 DEF Open
    <3>3. \E a \in Moves(remaining.dir) : First.n[a] # 0
      <4>1. First \in Sweep(center, remaining)
        BY <3>1 DEF First
      <4> DEFINE all == Hits(center, 1..3, Delta(remaining.dir, remaining.len))
      <4>2. remaining = Delta(remaining.dir, remaining.len) /\ remaining.dir \in Direction /\ remaining.len \in Nat
        BY <2>1 DEF Delta
      <4>3. Sweep(center, remaining) = Earliest(all)
        BY <4>2 DEF Sweep
      <4>4. \A h \in Earliest(all) : \E a \in Moves(remaining.dir) : h.n[a] # 0
        <5>1. 1..3 \in SUBSET (1..3) /\ all \in SUBSET all /\ \A g \in all \ all : ~(g.hit.k < remaining.len)
          OBVIOUS
        <5>2. all = Hits(center, 1..3, Delta(remaining.dir, remaining.len))
          OBVIOUS
        <5> HIDE DEF all
        <5>3. QED BY <2>1, <4>2, <5>1, <5>2, CapsuleSweep
      <4> HIDE DEF all
      <4>5. QED BY <4>1, <4>3, <4>4
    <3>4. ASSUME remaining'.len > 0
          PROVE  iter' = 1 /\ \E a \in Axis : Moves(remaining'.dir) = {a}
      <4> DEFINE dir == [a \in Axis |-> IF First.n[a] # 0 THEN 0 ELSE remaining.dir[a]]
      <4>1. Moves(dir) # {} /\ remaining'.dir = dir
        <5>1. Slid(remaining, First) = Delta(remaining.dir, 0)
                \/ (Moves(dir) # {} /\ Slid(remaining, First) = Delta(dir, remaining.len - First.k))
          BY DEF Slid
        <5> HIDE DEF dir
        <5>2. QED BY <3>1, <3>4, <5>1 DEF Delta
      <4>2. PICK x \in Moves(remaining.dir) : First.n[x] # 0
        BY <3>3
      <4>3. Moves(dir) \subseteq Moves(remaining.dir) \ {x}
        BY <4>2 DEF Moves
      <4>4. Moves(remaining.dir) \subseteq {1, 2}
        BY DEF Moves, Axis
      <4>5. \E a \in Axis : Moves(dir) = {a}
        <5> HIDE DEF dir
        <5>1. QED BY <4>1, <4>2, <4>3, <4>4 DEF Axis
      <4>6. iter = 0
        <5>1. remaining.len > 0
          BY <3>1 DEF Sliding
        <5>2. ~\E a \in Axis : Moves(remaining.dir) = {a}
          <6> HIDE DEF dir
          <6>1. QED BY <4>1, <4>2, <4>3
        <5>3. QED BY <2>6, <3>1, <5>1, <5>2
      <4> HIDE DEF dir
      <4>7. QED BY <3>1, <4>1, <4>5, <4>6
    <3>5. QED BY <3>1, <3>2, <3>4 DEF LeavesContact
  <2>13. CASE EndStep
    <3>1. /\ phase = "slide" /\ phase' = "step" /\ ~Sliding /\ moved' = moved + StepLength
          /\ UNCHANGED << world, center, want, from >>
      BY <2>13 DEF EndStep
    <3>2. ASSUME Open(from, want) PROVE OnItsWay'
      <4>1. center = Plus(from, want.dir, moved + StepLength)
        <5>1. moved < want.len /\ (\/ iter = 0 /\ remaining.len = StepLength
                                   \/ center = Plus(from, want.dir, moved + StepLength))
          BY <2>6, <3>1, <3>2 DEF OnItsWay
        <5>2. ~(iter = 0 /\ remaining.len = StepLength)
          BY <2>2, <2>3, <3>1, <5>1 DEF Sliding
        <5>3. QED BY <5>1, <5>2
      <4>2. QED BY <3>1, <4>1 DEF OnItsWay
    <3>3. Open(from, want)' <=> Open(from, want)
      BY <3>1 DEF Open
    <3>4. QED BY <3>1, <3>2, <3>3 DEF LeavesContact
  <2>14. CASE AllStepsDone
    <3>1. /\ phase = "step" /\ phase' = "snap" /\ moved >= want.len
          /\ UNCHANGED << world, center, want, moved, from >>
      BY <2>14 DEF AllStepsDone
    <3>2. moved = want.len
      BY <2>1, <3>1
    <3>3. Open(from, want)' <=> Open(from, want)
      BY <3>1 DEF Open
    <3>4. QED BY <2>6, <3>1, <3>2, <3>3 DEF OnItsWay, LeavesContact
  <2>15. CASE GroundSnap
    <3>1. phase = "snap" /\ phase' = "idle" /\ UNCHANGED << world, want, from >>
      BY <2>15 DEF GroundSnap
    <3>2. Open(from, want)' <=> Open(from, want)
      BY <3>1 DEF Open
    <3>3. ASSUME Open(from, want) PROVE LeavesContact'
      <4> DEFINE goal == Plus(from, want.dir, want.len)
      <4>1. center = goal
        BY <2>6, <3>1, <3>3 DEF OnItsWay
      <4>2. center[1] \in Int /\ center[2] \in Int
        BY <2>1 DEF Point
      <4>3. \/ center' = center
            \/ want.dir[2] <= 0 /\ \E n \in 0..SnapDistance : center' = Plus(center, Down, n)
        <5>1. ASSUME Snaps PROVE \E n \in 0..SnapDistance : center' = Plus(center, Down, n)
          <6>1. PICK h \in BelowFeet : center' = Plus(center, Down, h.k)
            BY <2>15, <5>1 DEF GroundSnap
          <6>2. SnapReach \in 0..SnapDistance /\ SnapReach \in Nat
            BY <2>2 DEF SnapReach
          <6> DEFINE all  == Hits(center, {3}, Delta(Down, SnapReach))
                     near == {g \in all : g.hit.k < SnapReach}
          <6>3. BelowFeet = Earliest(near) /\ near \in SUBSET all /\ {3} \in SUBSET (1..3)
            BY DEF BelowFeet
          <6>4. \A g \in all \ near : ~(g.hit.k < SnapReach)
            OBVIOUS
          <6>5. all = Hits(center, {3}, Delta(Down, SnapReach))
            OBVIOUS
          <6>6. Down \in Direction
            <7>1. Down \in [Axis -> {-1, 0, 1}]
              BY DEF Down, Axis
            <7>2. QED BY <7>1 DEF Down, Direction
          <6> HIDE DEF all, near
          <6>7. \A g \in BelowFeet : g.k \in 0..SnapReach
            BY <2>1, <6>2, <6>3, <6>4, <6>5, <6>6, CapsuleSweep
          <6>8. h.k \in 0..SnapDistance
            BY <2>2, <6>1, <6>2, <6>7
          <6>9. QED BY <6>1, <6>8
        <5>2. CASE Snaps
          BY <5>1, <5>2 DEF Snaps
        <5>3. CASE ~Snaps
          BY <2>15, <5>3 DEF GroundSnap
        <5>4. QED BY <5>2, <5>3
      <4>4. want.dir[2] \in {-1, 0, 1}
        BY <2>1 DEF Direction, Axis
      <4>5. \A n \in Int : Plus(center, Down, n)[1] = center[1] /\ Plus(center, Down, n)[2] = center[2] - n
        BY <4>2 DEF Plus, Down
      <4>6. /\ center'[1] = goal[1]
            /\ center'[2] \in IF want.dir[2] = 1 THEN {goal[2]} ELSE (goal[2] - SnapDistance)..goal[2]
        <5> HIDE DEF goal
        <5>1. CASE center' = center
          <6>1. center[2] \in (center[2] - SnapDistance)..center[2]
            BY <2>2, <4>2
          <6>2. QED BY <4>1, <5>1, <6>1
        <5>2. CASE want.dir[2] <= 0 /\ \E n \in 0..SnapDistance : center' = Plus(center, Down, n)
          <6>1. PICK n \in 0..SnapDistance : center' = Plus(center, Down, n)
            BY <5>2
          <6>2. center'[1] = center[1] /\ center'[2] = center[2] - n
            BY <2>2, <4>5, <6>1
          <6>3. center'[2] \in (center[2] - SnapDistance)..center[2]
            BY <2>2, <4>2, <6>2
          <6>4. want.dir[2] # 1
            BY <4>4, <5>2
          <6>5. QED BY <4>1, <6>2, <6>3, <6>4
        <5>3. QED BY <4>3, <5>1, <5>2
      <4>7. QED BY <3>1, <4>6 DEF LeavesContact
    <3>4. QED BY <3>1, <3>2, <3>3 DEF OnItsWay, LeavesContact
  <2>16. CASE UNCHANGED vars
    <3>1. StepLength' = StepLength /\ (Open(from, want)' <=> Open(from, want))
      BY <2>16 DEF vars, StepLength, Open
    <3>2. QED BY <2>6, <2>16, <3>1 DEF vars, OnItsWay, LeavesContact
  <2>17. QED BY <2>8, <2>9, <2>10, <2>11, <2>12, <2>13, <2>14, <2>15, <2>16 DEF Next
<1>3. KCCInv /\ MoveInv => NeverStuck
  <2> SUFFICES ASSUME KCCInv, MoveInv PROVE NeverStuck
    OBVIOUS
  <2>1. phase = "slide" /\ iter = MaxIterations => ~(remaining.len > 0)
    BY KCCAssumption DEF MoveInv
  <2>2. remaining.len \in Nat
    BY DEF KCCInv, TypeOK
  <2>3. QED BY <2>1, <2>2 DEF MoveInv, NeverStuck, IterationsSuffice
<1>4. QED BY <1>1, <1>2, <1>3, KCCInvariant, PTL DEF Spec
=============================================================================
