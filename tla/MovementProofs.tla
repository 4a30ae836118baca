--------------------------- MODULE MovementProofs ---------------------------
(***************************************************************************)
(* For every hero's speeds and accelerations, any lengths of a tick and    *)
(* any aim: walking and falling stay within their bounds, a jump is        *)
(* answered once and at once, the hero looks where the client says, and a  *)
(* dash runs its time.                                                     *)
(***************************************************************************)
EXTENDS Movement, SequenceTheorems, TLAPS

SourceType == [kind : {"input", "dash"}, id : 0..MaxDashes, timer : Int, active : BOOLEAN]
CmdType == [side : {-BaseSpeed, 0, BaseSpeed}, look : Int, impulse : {0, JumpSpeed},
            force : [time : Nat, dash : 0..MaxDashes]]

(* The network's source stands first for ever, behind it only dashes; one   *)
(* that has ended has no time left.                                         *)
ShapeInv ==
  /\ sources \in Seq(SourceType) /\ Len(sources) >= 1 /\ sources[1] = Input
  /\ \A j \in 2..Len(sources) : /\ sources[j].kind = "dash" /\ sources[j].id \in DashId
                                /\ sources[j].timer <= DashTime
                                /\ ~sources[j].active => sources[j].timer <= 0
  /\ cmd \in CmdType /\ (cmd.force.time > 0 => cmd.force.dash \in DashId)
  /\ want \in [side : Int, up : Int] /\ yaw \in Int /\ velUp \in Int
  /\ phase # "idle" => dt \in Deltas

(* The network's source is the last to be visited and the only one that     *)
(* looks, walks or jumps.                                                   *)
CmdInv ==
  /\ phase = "build" /\ visit > 0 => cmd.side = 0 /\ cmd.look = 0 /\ cmd.impulse = 0
  /\ (phase = "build" /\ visit = 0) \/ phase = "motor" =>
       /\ cmd.look = frame.aim - yaw
       /\ cmd.impulse = IF grounded /\ frame.jump THEN JumpSpeed ELSE 0

(* A source still to be visited that has time left will overrule the jump.  *)
RunningYet == phase = "build" /\ \E j \in 1..visit : sources[j].timer > 0

(* A hero on the ground does not rise, and one that rises is not given the  *)
(* ground; a jump from the ground is lost only to a dash.                   *)
JumpInv ==
  /\ phase = "collide" => (velUp > 0 => want.up > 0)
  /\ phase # "collide" => (velUp > 0 => ~grounded)
  /\ phase \in {"build", "motor"} =>
       /\ lift => frame.jump /\ grounded /\ cmd.force.time = 0 /\ ~RunningYet
       /\ ~lift /\ frame.jump /\ grounded => cmd.force.time > 0 \/ RunningYet

MoveInv == TypeOK /\ ShapeInv /\ CmdInv /\ JumpInv

(* What a dash with t left to run has run for, and how long ago it was asked *)
(* for when d of this tick has not reached it yet.                           *)
Spent(t) == IF t > 0 THEN DashTime - t ELSE DashTime
AgeAt(t, d) == IF DashTime - t + d <= DashTime THEN DashTime - t + d ELSE DashTime

DashIndex  == 2..Len(sources)
Commanding == phase \in {"build", "motor"}
Visited(j) == phase = "build" => j > visit

(* A dash this tick's command has heard of; what the motor has done for a    *)
(* dash, with what the command still holds for it.                           *)
Acted(j) == Commanding /\ Visited(j) /\ sources[j].active /\ sources[j].timer + dt > 0
MovedFor(i) == ran[i] + IF Commanding /\ cmd.force.dash = i THEN cmd.force.time ELSE 0

OneEach == \A j, k \in DashIndex : sources[j].id = sources[k].id => j = k
AgesAgree == \A j \in DashIndex :
  age[sources[j].id] = AgeAt(sources[j].timer, IF Visited(j) THEN 0 ELSE dt)
NeverLonger == \A j \in DashIndex : MovedFor(sources[j].id) <= Spent(sources[j].timer)
NeverShorter == \A j \in DashIndex : sources[j].id \notin blocked =>
  \/ MovedFor(sources[j].id) = Spent(sources[j].timer)
  \/ Acted(j) /\ \E k \in DashIndex : k < j /\ Acted(k)
ForceIsADash ==
  /\ Commanding /\ cmd.force.time > 0 => \E j \in DashIndex : Acted(j) /\ sources[j].id = cmd.force.dash
  /\ \A j \in DashIndex : Acted(j) => cmd.force.time > 0

(* A dash still among the sources has moved the hero for all the time its    *)
(* timer has lost, or an older one has stood in its way.                     *)
DashInv == OneEach /\ AgesAgree /\ NeverLonger /\ NeverShorter /\ ForceIsADash

-----------------------------------------------------------------------------
\* The smaller and the larger of two numbers.
LEMMA SmallerLarger ==
  \A a, b \in Int : /\ Min({a, b}) = IF a <= b THEN a ELSE b
                    /\ Max({a, b}) = IF a >= b THEN a ELSE b
<1> TAKE a \in Int, b \in Int
<1>1. Min({a, b}) \in {a, b} /\ Min({a, b}) <= a /\ Min({a, b}) <= b
  <2>1. \E x \in {a, b} : \A y \in {a, b} : x <= y
    <3>1. a <= b \/ b <= a
      OBVIOUS
    <3>2. CASE a <= b
      BY <3>2
    <3>3. CASE b <= a
      BY <3>3
    <3>4. QED BY <3>1, <3>2, <3>3
  <2>2. QED BY <2>1, Zenon DEF Min
<1>2. Max({a, b}) \in {a, b} /\ Max({a, b}) >= a /\ Max({a, b}) >= b
  <2>1. \E x \in {a, b} : \A y \in {a, b} : x >= y
    <3>1. a >= b \/ b >= a
      OBVIOUS
    <3>2. CASE a >= b
      BY <3>2
    <3>3. CASE b >= a
      BY <3>3
    <3>4. QED BY <3>1, <3>2, <3>3
  <2>2. QED BY <2>1, Zenon DEF Max
<1>3. QED BY <1>1, <1>2

\* Erasing an entry of a vector moves those behind it one place forward.
LEMMA Erased ==
  ASSUME NEW S, NEW s \in Seq(S), NEW i \in 1..Len(s)
  PROVE  /\ RemoveAt(s, i) \in Seq(S) /\ Len(RemoveAt(s, i)) = Len(s) - 1
         /\ \A k \in 1..(Len(s) - 1) : RemoveAt(s, i)[k] = IF k < i THEN s[k] ELSE s[k + 1]
<1>1. Len(s) \in Nat
  OBVIOUS
<1>2. PICK a : a = SubSeq(s, 1, i - 1)
  OBVIOUS
<1>3. PICK b : b = SubSeq(s, i + 1, Len(s))
  OBVIOUS
<1>4. a \in Seq(S) /\ Len(a) = i - 1 /\ \A k \in 1..(i - 1) : a[k] = s[k]
  BY <1>1, <1>2
<1>5. b \in Seq(S) /\ Len(b) = Len(s) - i /\ \A k \in 1..(Len(s) - i) : b[k] = s[i + k]
  BY <1>1, <1>3
<1>6. /\ a \o b \in Seq(S) /\ Len(a \o b) = Len(s) - 1
      /\ \A k \in 1..(Len(s) - 1) : (a \o b)[k] = IF k <= Len(a) THEN a[k] ELSE b[k - Len(a)]
  BY SMTT(30), <1>1, <1>4, <1>5, ConcatProperties
<1>7. ASSUME NEW k \in 1..(Len(s) - 1) PROVE (a \o b)[k] = IF k < i THEN s[k] ELSE s[k + 1]
  BY <1>1, <1>4, <1>5, <1>6
<1>8. QED BY <1>2, <1>3, <1>6, <1>7 DEF RemoveAt

-----------------------------------------------------------------------------
\* Types hold; walking never exceeds the base speed, no jump is added to another
\* and a fall passes the terminal speed by one tick's pull at most.  Every step
\* keeps this, the sources' order and what the jump rests on.
THEOREM MoveInvariant == Spec => [](TypeOK /\ MoveInv)
<1>1. /\ BaseSpeed \in Nat /\ JumpSpeed \in Nat /\ JumpSpeed > 0 /\ DashSpeed \in Nat /\ Gravity \in Nat
      /\ Terminal \in Nat /\ Ceiling \in Nat /\ MaxDashes \in Nat /\ DashTime \in Nat /\ DashTime > 0
      /\ AccelGround \in Nat /\ DecelGround \in Nat /\ AccelAir \in Nat /\ DecelAir \in Nat
      /\ FullTurn \in Nat /\ FullTurn > 0
      /\ Deltas # {} /\ \A d \in Deltas : d \in Nat /\ d > 0
      /\ \A y \in Aims : y \in Int
  <2>1. /\ BaseSpeed \in Nat /\ JumpSpeed \in Nat /\ DashSpeed \in Nat /\ Gravity \in Nat
        /\ Terminal \in Nat /\ Ceiling \in Nat
        /\ AccelGround \in Nat /\ DecelGround \in Nat /\ AccelAir \in Nat /\ DecelAir \in Nat
    BY MovementAssumption, Zenon
  <2>2. /\ JumpSpeed > 0 /\ MaxDashes \in Nat /\ DashTime \in Nat \ {0} /\ FullTurn \in Nat \ {0}
        /\ Deltas # {} /\ Deltas \subseteq Nat \ {0} /\ Aims \subseteq Int
    BY MovementAssumption, Zenon
  <2>3. QED BY <2>1, <2>2
<1>2. /\ Input \in SourceType /\ Input.kind = "input" /\ Input.timer = 0 /\ Input.active = TRUE
      /\ \A i \in DashId : /\ Dash(i) \in SourceType /\ Dash(i).kind = "dash" /\ Dash(i).id = i
                           /\ Dash(i).timer = DashTime /\ Dash(i).active = TRUE
      /\ EmptyCmd \in CmdType /\ EmptyCmd.side = 0 /\ EmptyCmd.look = 0 /\ EmptyCmd.impulse = 0
      /\ EmptyCmd.force.time = 0
      /\ NoInput.jump = FALSE /\ NoInput.aim = 0
  BY <1>1 DEF Input, Dash, SourceType, EmptyCmd, NoForce, NoInput, CmdType, DashId
<1>3. \A m, n \in Nat : m * n \in Nat /\ (m > 0 /\ n > 0 => m * n > 0)
  OBVIOUS
<1>4. Init => MoveInv
  <2> SUFFICES ASSUME Init PROVE MoveInv
    OBVIOUS
  <2>1. /\ sources = << Input >> /\ sources \in Seq(SourceType) /\ Len(sources) = 1
        /\ sources[1] = Input
    BY <1>2 DEF Init
  <2>2. \E d \in Deltas : velUp >= -(Terminal + Gravity * d)
    BY <1>1, <1>3 DEF Init
  <2>3. TypeOK
    <3>1. \A i \in DOMAIN sources : sources[i] = Input
      BY <2>1
    <3>2. Ghosts
      <4>1. 0 \in 0..DashTime
        BY <1>1
      <4>2. QED BY <4>1 DEF Init, Ghosts
    <3>3. NoInput \in [jump : BOOLEAN, walk : {-1, 0, 1}, aim : Aims \cup {0}]
      BY DEF NoInput
    <3>4. velSide \in -BaseSpeed..BaseSpeed /\ velUp <= JumpSpeed
      BY <1>1 DEF Init
    <3>5. phase = "idle" /\ dt = 0 /\ frame = NoInput /\ visit = 0 /\ grounded = FALSE
      BY DEF Init
    <3>6. height \in 0..Ceiling
      BY DEF Init
    <3>7. visit \in 0..Len(sources) /\ dt \in Deltas \cup {0}
      BY <2>1, <3>5
    <3>8. QED BY <2>2, <3>1, <3>2, <3>3, <3>4, <3>5, <3>6, <3>7 DEF TypeOK
  <2>4. ShapeInv
    BY <1>1, <1>2, <2>1 DEF Init, ShapeInv
  <2>5. CmdInv /\ JumpInv
    BY <1>1 DEF Init, CmdInv, JumpInv
  <2>6. QED BY <2>3, <2>4, <2>5 DEF MoveInv
<1>5. ASSUME MoveInv, BeginTick PROVE MoveInv'
  <2> USE <1>5
  <2>1. /\ phase = "idle" /\ phase' = "build" /\ dt' \in Deltas /\ cmd' = EmptyCmd
        /\ visit' = Len(sources) /\ frame' \in [jump : BOOLEAN, walk : {-1, 0, 1}, aim : Aims]
        /\ age' = [i \in DashId |-> Min({age[i] + dt', DashTime})]
        /\ lift' = (frame'.jump /\ grounded /\ ~Running(sources))
        /\ UNCHANGED << sources, want, bodyVars, placeVars, ran, blocked >>
    BY DEF BeginTick
  <2>2. age' \in [DashId -> 0..DashTime]
    <3>1. \A i \in DashId : age[i] \in 0..DashTime
      BY DEF MoveInv, TypeOK, Ghosts
    <3>2. \A i \in DashId : Min({age[i] + dt', DashTime}) \in 0..DashTime
      BY <1>1, <2>1, <3>1, SmallerLarger
    <3>3. QED BY <2>1, <3>2
  <2>3. lift' \in BOOLEAN
    BY <2>1
  <2>4. TypeOK'
    <3>1. Ghosts'
      BY <2>1, <2>2, <2>3 DEF MoveInv, TypeOK, Ghosts
    <3>2. frame' \in [jump : BOOLEAN, walk : {-1, 0, 1}, aim : Aims \cup {0}] /\ visit' \in 0..Len(sources')
      BY <2>1 DEF MoveInv, TypeOK
    <3>3. QED BY <2>1, <3>1, <3>2 DEF MoveInv, TypeOK, bodyVars, placeVars
  <2>5. ShapeInv'
    BY <1>2, <2>1 DEF MoveInv, ShapeInv, bodyVars
  <2>6. CmdInv'
    <3>1. visit' > 0
      BY <2>1 DEF MoveInv, ShapeInv
    <3>2. QED BY <1>2, <2>1, <3>1 DEF CmdInv
  <2>7. JumpInv'
    <3>1. velUp > 0 => ~grounded
      BY <2>1 DEF MoveInv, JumpInv
    <3>2. DOMAIN sources = 1..Len(sources)
      BY DEF MoveInv, ShapeInv
    <3>3. Running(sources) <=> RunningYet'
      BY <2>1, <3>2 DEF Running, RunningYet
    <3>4. QED BY <1>2, <2>1, <3>1, <3>3 DEF JumpInv, bodyVars, placeVars
  <2>8. QED BY <2>4, <2>5, <2>6, <2>7 DEF MoveInv
<1>6. ASSUME MoveInv, Visiting
      PROVE  /\ sources \in Seq(SourceType) /\ Len(sources) \in Nat /\ visit \in 1..Len(sources)
             /\ Source \in SourceType /\ phase = "build" /\ cmd \in CmdType
             /\ cmd.side = 0 /\ cmd.look = 0 /\ cmd.impulse = 0
             /\ visit = 1 => Source = Input
             /\ visit # 1 => Source.kind = "dash" /\ Source.id \in DashId /\ Source.timer <= DashTime
             /\ Source.timer \in Int /\ Source.active \in BOOLEAN /\ Source = sources[visit]
  <2> USE <1>6
  <2>1. sources \in Seq(SourceType) /\ visit \in 0..Len(sources) /\ visit > 0 /\ phase = "build"
    BY DEF MoveInv, TypeOK, ShapeInv, Visiting
  <2>2. Len(sources) \in Nat /\ visit \in 1..Len(sources) /\ Source \in SourceType
    BY <2>1 DEF Source
  <2>3. cmd \in CmdType /\ cmd.side = 0 /\ cmd.look = 0 /\ cmd.impulse = 0
    BY <2>1 DEF MoveInv, ShapeInv, CmdInv
  <2>4. visit = 1 \/ visit \in 2..Len(sources)
    BY <2>2
  <2>5. Source.timer \in Int /\ Source.active \in BOOLEAN /\ Source = sources[visit]
    BY <2>2 DEF Source, SourceType
  <2>6. QED BY <2>1, <2>2, <2>3, <2>4, <2>5 DEF MoveInv, ShapeInv
<1>7. ASSUME MoveInv, RemoveEnded PROVE MoveInv'
  <2> USE <1>7
  <2>1. /\ Visiting /\ ~Source.active /\ sources' = RemoveAt(sources, visit) /\ visit' = visit - 1
        /\ UNCHANGED << phase, tickVars, cmd, want, bodyVars, placeVars, dashVars, lift >>
    BY DEF RemoveEnded
  <2>2. /\ sources' \in Seq(SourceType) /\ Len(sources') = Len(sources) - 1 /\ Len(sources) \in Nat
        /\ visit \in 2..Len(sources) /\ phase = "build" /\ sources \in Seq(SourceType)
        /\ \A k \in 1..(Len(sources) - 1) : sources'[k] = IF k < visit THEN sources[k] ELSE sources[k + 1]
        /\ sources[visit].timer <= 0
    <3>1. visit # 1
      BY <1>2, <1>6, <2>1
    <3>2. visit \in 2..Len(sources)
      BY <1>6, <2>1, <3>1
    <3>3. sources \in Seq(SourceType) /\ sources[visit].timer <= 0 /\ Len(sources) \in Nat /\ phase = "build"
      BY <1>6, <2>1, <3>2 DEF MoveInv, ShapeInv, Source
    <3>4. visit \in 1..Len(sources)
      BY <3>2
    <3>5. QED BY <2>1, <3>2, <3>3, <3>4, Erased
  <2>3. \A k \in DOMAIN sources' : \E j \in DOMAIN sources :
          /\ sources'[k] = sources[j] /\ (k > 1 => j > 1)
    BY <2>2
  <2>4. TypeOK'
    <3>1. visit' \in 0..Len(sources')
      BY <2>1, <2>2
    <3>2. Ghosts'
      BY <2>1 DEF MoveInv, TypeOK, Ghosts, dashVars
    <3>3. QED BY <2>1, <2>3, <3>1, <3>2 DEF MoveInv, TypeOK, tickVars, bodyVars, placeVars
  <2>5. ShapeInv'
    <3>1. Len(sources') >= 1 /\ sources'[1] = Input
      BY <2>2 DEF MoveInv, ShapeInv
    <3>2. \A k \in 2..Len(sources') : \E j \in 2..Len(sources) : sources'[k] = sources[j]
      BY SMTT(30), <2>2
    <3>3. \A k \in 2..Len(sources') :
            /\ sources'[k].kind = "dash" /\ sources'[k].id \in DashId
            /\ sources'[k].timer <= DashTime
            /\ ~sources'[k].active => sources'[k].timer <= 0
      BY <3>2 DEF MoveInv, ShapeInv
    <3>4. QED BY <2>1, <2>2, <3>1, <3>3 DEF MoveInv, ShapeInv, tickVars, bodyVars
  <2>6. CmdInv'
    <3>1. visit' > 0
      BY <2>1, <2>2
    <3>2. QED BY <2>1, <2>2, <3>1, <1>6 DEF CmdInv
  <2>7. JumpInv'
    <3>1. RunningYet <=> RunningYet'
      <4>1. \A k \in 1..visit' : sources'[k] = sources[k]
        BY <2>1, <2>2
      <4>2. \A k \in 1..visit : k = visit \/ k \in 1..visit'
        BY <2>1, <2>2
      <4>3. \A k \in 1..visit' : k \in 1..visit
        BY <2>1, <2>2
      <4>4. ~(sources[visit].timer > 0)
        <5>1. sources[visit].timer \in Int
          BY <1>6, <2>1
        <5>2. QED BY <2>2, <5>1
      <4>5. QED BY <2>1, <2>2, <4>1, <4>2, <4>3, <4>4 DEF RunningYet
    <3>2. QED BY <2>1, <3>1 DEF MoveInv, JumpInv, tickVars, bodyVars, placeVars
  <2>8. QED BY <2>4, <2>5, <2>6, <2>7 DEF MoveInv
<1>8. ASSUME MoveInv, UpdateDash PROVE MoveInv'
  <2> USE <1>8
  <2>1. /\ Visiting /\ Source.kind = "dash" /\ Source.active /\ Source.timer > 0
        /\ cmd' = [cmd EXCEPT !.force = [time |-> DashStep, dash |-> Source.id]]
        /\ sources' = [sources EXCEPT ![visit].timer = @ - dt] /\ visit' = visit - 1
        /\ UNCHANGED << phase, tickVars, want, bodyVars, placeVars, dashVars, lift >>
    BY DEF UpdateDash
  <2>2. /\ visit \in 2..Len(sources) /\ Len(sources) \in Nat /\ dt \in Deltas /\ dt \in Nat /\ dt > 0
        /\ Source.id \in DashId /\ Source.timer \in Int /\ Source = sources[visit] /\ phase = "build"
        /\ sources \in Seq(SourceType) /\ Source.timer <= DashTime
    <3>1. visit # 1
      BY <1>2, <1>6, <2>1
    <3>2. visit \in 2..Len(sources) /\ Len(sources) \in Nat
      BY <1>6, <2>1, <3>1
    <3>3. dt \in Deltas
      BY <1>6, <2>1 DEF MoveInv, ShapeInv
    <3>4. dt \in Nat /\ dt > 0
      BY <1>1, <3>3
    <3>5. QED BY <1>6, <2>1, <3>1, <3>2, <3>3, <3>4
  <2>3. PICK s : s = [Source EXCEPT !.timer = @ - dt]
    OBVIOUS
  <2>4. /\ s \in SourceType /\ s.kind = "dash" /\ s.id = Source.id /\ s.timer = Source.timer - dt
        /\ s.active = Source.active
    <3>1. Source = [kind |-> Source.kind, id |-> Source.id, timer |-> Source.timer, active |-> Source.active]
      BY <1>6, <2>1 DEF SourceType
    <3>2. s = [kind |-> Source.kind, id |-> Source.id, timer |-> Source.timer - dt, active |-> Source.active]
      BY <2>3, <3>1
    <3>3. Source.timer - dt \in Int /\ Source.id \in 0..MaxDashes
      BY SMTT(30), <1>6, <2>1, <2>2 DEF SourceType
    <3>4. QED BY <1>6, <2>1, <3>2, <3>3 DEF SourceType
  <2>5. /\ sources' \in Seq(SourceType) /\ Len(sources') = Len(sources) /\ sources'[visit] = s
        /\ \A k \in DOMAIN sources : k # visit => sources'[k] = sources[k]
        /\ DOMAIN sources' = DOMAIN sources
    <3>1. sources' = [sources EXCEPT ![visit] = s]
      BY <2>1, <2>2, <2>3
    <3>2. s \in SourceType
      BY <2>4
    <3>3. /\ Len(sources') = Len(sources) /\ DOMAIN sources' = DOMAIN sources
          /\ \A k \in DOMAIN sources : sources'[k] = IF k = visit THEN s ELSE sources[k]
      BY <2>2, <3>1
    <3>4. sources' \in Seq(SourceType)
      <4>1. sources \in Seq(SourceType) /\ visit \in 1..Len(sources)
        BY <2>2
      <4>2. QED BY <3>1, <3>2, <4>1, ExceptSeq
    <3>5. QED BY <2>2, <3>3, <3>4
  <2>6. DashStep \in Nat /\ DashStep > 0
    BY SMTT(30), <2>1, <2>2, SmallerLarger DEF DashStep
  <2>7. /\ cmd' \in CmdType /\ cmd'.force.time > 0 /\ cmd'.force.dash \in DashId
        /\ cmd'.side = 0 /\ cmd'.look = 0 /\ cmd'.impulse = 0
    <3>1. cmd = [side |-> cmd.side, look |-> cmd.look, impulse |-> cmd.impulse, force |-> cmd.force]
      BY <1>6, <2>1 DEF CmdType
    <3>2. cmd' = [side |-> cmd.side, look |-> cmd.look, impulse |-> cmd.impulse,
                  force |-> [time |-> DashStep, dash |-> Source.id]]
      BY <2>1, <3>1
    <3>3. [time |-> DashStep, dash |-> Source.id] \in [time : Nat, dash : 0..MaxDashes]
      BY <1>1, <2>2, <2>6 DEF DashId
    <3>4. cmd.side \in {-BaseSpeed, 0, BaseSpeed} /\ cmd.look \in Int /\ cmd.impulse \in {0, JumpSpeed}
      BY <1>6, <2>1 DEF CmdType
    <3>5. cmd' \in CmdType
      BY <3>2, <3>3, <3>4 DEF CmdType
    <3>6. QED BY <1>6, <2>1, <2>2, <2>6, <3>2, <3>5
  <2>8. TypeOK'
    <3>1. visit' \in 0..Len(sources')
      BY <2>1, <2>2, <2>5
    <3>2. s.timer <= DashTime
      <4>1. DashTime \in Nat
        BY <1>1
      <4>2. QED BY <4>1, <2>2, <2>4
    <3>3. \A i \in DOMAIN sources' :
            sources'[i] = Input \/ /\ sources'[i].kind = "dash" /\ sources'[i].id \in DashId
                                   /\ sources'[i].timer \in Int /\ sources'[i].timer <= DashTime
      <4>1. s.kind = "dash" /\ s.id \in DashId /\ s.timer \in Int
        BY <2>2, <2>4
      <4>2. \A i \in DOMAIN sources :
              sources[i] = Input \/ /\ sources[i].kind = "dash" /\ sources[i].id \in DashId
                                    /\ sources[i].timer \in Int /\ sources[i].timer <= DashTime
        BY DEF MoveInv, TypeOK
      <4>3. QED BY <2>5, <3>2, <4>1, <4>2
    <3>4. QED BY <2>1, <3>1, <3>3 DEF MoveInv, TypeOK, Ghosts, tickVars, bodyVars, placeVars, dashVars
  <2>9. ShapeInv'
    <3>1. s.timer <= DashTime /\ s.active
      <4>1. DashTime \in Nat
        BY <1>1
      <4>2. QED BY <4>1, <2>1, <2>2, <2>4
    <3>2. sources'[1] = Input /\ Len(sources') >= 1
      BY <2>2, <2>5 DEF MoveInv, ShapeInv
    <3>3. \A k \in 2..Len(sources') :
            /\ sources'[k].kind = "dash" /\ sources'[k].id \in DashId
            /\ sources'[k].timer <= DashTime
            /\ ~sources'[k].active => sources'[k].timer <= 0
      <4>1. s.kind = "dash" /\ s.id \in DashId
        BY <2>2, <2>4
      <4>2. \A k \in 2..Len(sources) :
              /\ sources[k].kind = "dash" /\ sources[k].id \in DashId
              /\ sources[k].timer <= DashTime
              /\ ~sources[k].active => sources[k].timer <= 0
        BY DEF MoveInv, ShapeInv
      <4>3. QED BY <2>2, <2>5, <3>1, <4>1, <4>2
    <3>4. QED BY <2>1, <2>5, <2>7, <3>2, <3>3 DEF MoveInv, ShapeInv, tickVars, bodyVars
  <2>10. CmdInv'
    <3>1. visit' > 0
      BY <2>1, <2>2
    <3>2. QED BY <2>1, <2>2, <2>7, <3>1 DEF CmdInv
  <2>11. JumpInv'
    <3>1. RunningYet
      BY <2>1, <2>2 DEF RunningYet
    <3>2. ~lift
      BY <2>2, <3>1 DEF MoveInv, JumpInv
    <3>3. QED BY <2>1, <2>2, <2>7, <3>2 DEF MoveInv, JumpInv, bodyVars, placeVars
  <2>12. QED BY <2>8, <2>9, <2>10, <2>11 DEF MoveInv
<1>9. ASSUME MoveInv, EndDash PROVE MoveInv'
  <2> USE <1>9
  <2>1. /\ Visiting /\ Source.kind = "dash" /\ Source.timer <= 0
        /\ sources' = [sources EXCEPT ![visit] = Ended(@)] /\ visit' = visit - 1
        /\ UNCHANGED << phase, tickVars, cmd, want, bodyVars, placeVars, dashVars, lift >>
    BY DEF EndDash
  <2>2. /\ visit \in 2..Len(sources) /\ Len(sources) \in Nat /\ phase = "build"
        /\ sources \in Seq(SourceType) /\ Source.timer \in Int /\ Source = sources[visit]
        /\ Source.id \in DashId
    <3>1. visit # 1
      BY <1>2, <1>6, <2>1
    <3>2. visit \in 2..Len(sources) /\ Len(sources) \in Nat
      BY <1>6, <2>1, <3>1
    <3>3. QED BY <1>6, <2>1, <3>1, <3>2
  <2>3. PICK s : s = Ended(Source)
    OBVIOUS
  <2>4. s \in SourceType /\ s.kind = "dash" /\ s.id = Source.id /\ s.timer = Source.timer
    <3>1. Source = [kind |-> Source.kind, id |-> Source.id, timer |-> Source.timer, active |-> Source.active]
      BY <1>6, <2>1 DEF SourceType
    <3>2. s = [kind |-> Source.kind, id |-> Source.id, timer |-> Source.timer, active |-> FALSE]
      BY <2>3, <3>1 DEF Ended
    <3>3. Source.id \in 0..MaxDashes
      BY <1>6, <2>1 DEF SourceType
    <3>4. QED BY <2>1, <2>2, <3>2, <3>3 DEF SourceType
  <2>5. /\ sources' \in Seq(SourceType) /\ Len(sources') = Len(sources) /\ sources'[visit] = s
        /\ \A k \in DOMAIN sources : k # visit => sources'[k] = sources[k]
        /\ DOMAIN sources' = DOMAIN sources
    <3>1. sources' = [sources EXCEPT ![visit] = s]
      BY <2>1, <2>2, <2>3
    <3>2. QED BY <2>2, <2>4, <3>1
  <2>6. s.timer <= DashTime
    <3>1. DashTime \in Nat
      BY <1>1
    <3>2. QED BY <3>1, <2>1, <2>2, <2>4
  <2>7. TypeOK'
    <3>1. visit' \in 0..Len(sources')
      BY <2>1, <2>2, <2>5
    <3>2. \A i \in DOMAIN sources' :
            sources'[i] = Input \/ /\ sources'[i].kind = "dash" /\ sources'[i].id \in DashId
                                   /\ sources'[i].timer \in Int /\ sources'[i].timer <= DashTime
      BY <2>2, <2>4, <2>5, <2>6 DEF MoveInv, TypeOK
    <3>3. QED BY <2>1, <3>1, <3>2 DEF MoveInv, TypeOK, Ghosts, tickVars, bodyVars, placeVars, dashVars
  <2>8. ShapeInv'
    <3>1. sources'[1] = Input /\ Len(sources') >= 1
      BY <2>2, <2>5 DEF MoveInv, ShapeInv
    <3>2. \A k \in 2..Len(sources') :
            /\ sources'[k].kind = "dash" /\ sources'[k].id \in DashId
            /\ sources'[k].timer <= DashTime
            /\ ~sources'[k].active => sources'[k].timer <= 0
      BY <2>1, <2>2, <2>4, <2>5, <2>6 DEF MoveInv, ShapeInv
    <3>3. QED BY <2>1, <2>5, <3>1, <3>2 DEF MoveInv, ShapeInv, tickVars, bodyVars
  <2>9. CmdInv'
    <3>1. visit' > 0
      BY <2>1, <2>2
    <3>2. QED BY <2>1, <2>2, <3>1, <1>6 DEF CmdInv
  <2>10. JumpInv'
    <3>1. RunningYet <=> RunningYet'
      <4>1. \A k \in 1..visit' : sources'[k] = sources[k]
        BY <2>1, <2>2, <2>5
      <4>2. \A k \in 1..visit : k = visit \/ k \in 1..visit'
        BY <2>1, <2>2
      <4>3. \A k \in 1..visit' : k \in 1..visit
        BY <2>1, <2>2
      <4>4. ~(sources[visit].timer > 0)
        BY <2>1, <2>2
      <4>5. QED BY <2>1, <2>2, <4>1, <4>2, <4>3, <4>4 DEF RunningYet
    <3>2. QED BY <2>1, <3>1 DEF MoveInv, JumpInv, tickVars, bodyVars, placeVars
  <2>11. QED BY <2>7, <2>8, <2>9, <2>10 DEF MoveInv
<1>10. ASSUME MoveInv, UpdateInput PROVE MoveInv'
  <2> USE <1>10
  <2>1. /\ Visiting /\ Source.kind = "input" /\ visit' = visit - 1
        /\ cmd' = [cmd EXCEPT !.side = @ + frame.walk * BaseSpeed,
                              !.look = @ + (frame.aim - yaw),
                              !.impulse = @ + IF grounded /\ frame.jump THEN JumpSpeed ELSE 0]
        /\ UNCHANGED << phase, tickVars, sources, want, bodyVars, placeVars, dashVars, lift >>
    BY DEF UpdateInput
  <2>2. /\ visit = 1 /\ visit' = 0 /\ phase = "build" /\ cmd \in CmdType
        /\ cmd.side = 0 /\ cmd.look = 0 /\ cmd.impulse = 0 /\ Len(sources) \in Nat
    <3>1. visit = 1
      BY <1>6, <2>1
    <3>2. QED BY <1>6, <2>1, <3>1
  <2>3. /\ frame.walk \in {-1, 0, 1} /\ frame.aim \in Int /\ yaw \in Int /\ grounded \in BOOLEAN
        /\ frame.jump \in BOOLEAN
    BY <1>1 DEF MoveInv, TypeOK, ShapeInv
  <2>4. /\ cmd' \in CmdType /\ cmd'.look = frame.aim - yaw /\ cmd'.force = cmd.force
        /\ cmd'.impulse = IF grounded /\ frame.jump THEN JumpSpeed ELSE 0
    <3>1. cmd = [side |-> cmd.side, look |-> cmd.look, impulse |-> cmd.impulse, force |-> cmd.force]
      BY <2>2 DEF CmdType
    <3>2. PICK i \in {0, JumpSpeed} : i = IF grounded /\ frame.jump THEN JumpSpeed ELSE 0
      OBVIOUS
    <3>3. PICK side \in {-BaseSpeed, 0, BaseSpeed} : side = cmd.side + frame.walk * BaseSpeed
      BY <1>1, <2>2, <2>3
    <3>4. PICK look \in Int : look = cmd.look + (frame.aim - yaw) /\ look = frame.aim - yaw
      BY <2>2, <2>3
    <3>5. cmd.impulse + i = i
      BY <1>1, <2>2
    <3>6. cmd' = [cmd EXCEPT !.side = side, !.look = look, !.impulse = i]
      BY <2>1, <3>2, <3>3, <3>4, <3>5
    <3>7. cmd' = [side |-> side, look |-> look, impulse |-> i, force |-> cmd.force]
      BY <3>1, <3>6
    <3>8. cmd.force \in [time : Nat, dash : 0..MaxDashes]
      BY <2>2 DEF CmdType
    <3>9. cmd' \in CmdType
      BY <3>7, <3>8 DEF CmdType
    <3>10. QED BY <3>2, <3>4, <3>7, <3>9
  <2>5. TypeOK'
    <3>1. visit' \in 0..Len(sources')
      BY <2>1, <2>2
    <3>2. QED BY <2>1, <3>1 DEF MoveInv, TypeOK, Ghosts, tickVars, bodyVars, placeVars, dashVars
  <2>6. ShapeInv'
    BY <2>1, <2>4 DEF MoveInv, ShapeInv, tickVars, bodyVars
  <2>7. CmdInv'
    BY <2>1, <2>2, <2>4 DEF CmdInv, tickVars, bodyVars, placeVars
  <2>8. JumpInv'
    <3>1. ~RunningYet /\ ~RunningYet'
      <4>1. sources[1].timer = 0
        BY <1>2 DEF MoveInv, ShapeInv
      <4>2. QED BY <2>1, <2>2, <4>1 DEF RunningYet
    <3>2. QED BY <2>1, <2>2, <2>4, <3>1 DEF MoveInv, JumpInv, tickVars, bodyVars, placeVars
  <2>9. QED BY <2>5, <2>6, <2>7, <2>8 DEF MoveInv
<1>11. ASSUME MoveInv, CommandBuilt PROVE MoveInv'
  <2> USE <1>11
  <2>1. /\ phase = "build" /\ visit = 0 /\ phase' = "motor"
        /\ UNCHANGED << tickVars, sources, visit, cmd, want, bodyVars, placeVars, dashVars, lift >>
    BY DEF CommandBuilt
  <2>2. TypeOK'
    BY <2>1 DEF MoveInv, TypeOK, Ghosts, tickVars, bodyVars, placeVars, dashVars
  <2>3. ShapeInv' /\ CmdInv'
    BY <2>1 DEF MoveInv, ShapeInv, CmdInv, tickVars, bodyVars, placeVars
  <2>4. ~RunningYet /\ ~RunningYet'
    BY <2>1 DEF RunningYet
  <2>5. JumpInv'
    BY <2>1, <2>4 DEF MoveInv, JumpInv, tickVars, bodyVars, placeVars
  <2>6. QED BY <2>2, <2>3, <2>5 DEF MoveInv
<1>12. ASSUME MoveInv, phase = "motor"
       PROVE  /\ dt \in Deltas /\ dt \in Nat /\ dt > 0 /\ yaw + cmd.look = frame.aim
              /\ frame.aim \in Int /\ Turned(frame.aim) \in Int /\ cmd \in CmdType
              /\ cmd.impulse = IF grounded /\ frame.jump THEN JumpSpeed ELSE 0
  <2> USE <1>12
  <2>1. dt \in Deltas /\ cmd \in CmdType /\ yaw \in Int
    BY DEF MoveInv, ShapeInv
  <2>2. dt \in Nat /\ dt > 0
    BY <1>1, <2>1
  <2>3. frame.aim \in Int
    BY <1>1 DEF MoveInv, TypeOK
  <2>4. cmd.look = frame.aim - yaw /\ cmd.impulse = IF grounded /\ frame.jump THEN JumpSpeed ELSE 0
    BY DEF MoveInv, CmdInv
  <2>5. yaw + cmd.look = frame.aim
    BY <2>1, <2>3, <2>4
  <2>6. Turned(frame.aim) \in Int
    BY <1>1, <2>3 DEF Turned
  <2>7. QED BY <2>1, <2>2, <2>3, <2>4, <2>5, <2>6
<1>13. ASSUME MoveInv, MotorForced PROVE MoveInv'
  <2> USE <1>13
  <2>1. /\ phase = "motor" /\ Forced /\ yaw' = Turned(yaw + cmd.look) /\ velSide' = 0 /\ velUp' = 0
        /\ want' = [side |-> DashSpeed * cmd.force.time, up |-> 0]
        /\ ran' = [ran EXCEPT ![cmd.force.dash] = @ + cmd.force.time]
        /\ blocked' = blocked \cup Behind(sources) /\ phase' = "collide"
        /\ UNCHANGED << tickVars, sources, visit, cmd, placeVars, age, lift >>
    BY DEF MotorForced
  <2>2. cmd.force.time \in Nat /\ cmd.force.dash \in DashId
    BY <2>1, <1>12 DEF MoveInv, ShapeInv, CmdType, Forced
  <2>3. want' \in [side : Int, up : Int] /\ yaw' \in Int
    <3>1. DashSpeed * cmd.force.time \in Nat
      BY <1>1, <1>3, <2>2
    <3>2. QED BY <2>1, <3>1, <1>12
  <2>4. Behind(sources) \subseteq DashId
    <3>1. \A i \in DOMAIN sources : sources[i].kind = "dash" => sources[i].id \in DashId
      BY <1>2 DEF MoveInv, TypeOK
    <3>2. QED BY <3>1 DEF Behind, HadTime
  <2>5. ran' \in [DashId -> Nat]
    <3>1. ran \in [DashId -> Nat]
      BY DEF MoveInv, TypeOK, Ghosts
    <3>2. QED BY <2>1, <2>2, <3>1
  <2>6. TypeOK'
    <3>1. velSide' \in -BaseSpeed..BaseSpeed /\ velUp' <= JumpSpeed
      BY <1>1, <2>1
    <3>2. \E d \in Deltas : velUp' >= -(Terminal + Gravity * d)
      BY <1>1, <1>3, <2>1
    <3>3. Ghosts'
      BY <2>1, <2>4, <2>5 DEF MoveInv, TypeOK, Ghosts
    <3>4. QED BY <2>1, <3>1, <3>2, <3>3 DEF MoveInv, TypeOK, tickVars, placeVars
  <2>7. ShapeInv'
    BY <2>1, <2>3, <1>12 DEF MoveInv, ShapeInv, tickVars
  <2>8. CmdInv' /\ JumpInv'
    BY <2>1 DEF CmdInv, JumpInv
  <2>9. QED BY <2>6, <2>7, <2>8 DEF MoveInv
<1>14. ASSUME MoveInv, MotorFree
       PROVE  /\ velUp' \in Int
              /\ grounded => velUp' = cmd.impulse
              /\ ~grounded => velUp' <= velUp
              /\ velUp' >= velUp \/ velUp' >= -(Terminal + Gravity * dt)
  <2> USE <1>14
  <2>1. phase = "motor" /\ velUp' = Weight(Resting(velUp) + cmd.impulse)
    BY DEF MotorFree
  <2>2. velUp \in Int /\ grounded \in BOOLEAN /\ (velUp > 0 => ~grounded)
    BY <2>1 DEF MoveInv, TypeOK, ShapeInv, JumpInv
  <2>3. PICK i \in Nat : i = cmd.impulse /\ (~grounded => i = 0)
    BY <1>1, <1>12, <2>1
  <2>4. PICK g \in Nat : g = Gravity * dt
    BY <1>1, <1>3, <1>12, <2>1
  <2>5. CASE grounded
    <3>1. velUp' = i
      BY <2>1, <2>2, <2>3, <2>5 DEF Weight, Resting
    <3>2. QED BY <2>2, <2>3, <2>5, <3>1
  <2>6. CASE ~grounded
    <3>1. velUp' = IF velUp > -Terminal THEN velUp - g ELSE velUp
      BY <1>1, <2>1, <2>2, <2>3, <2>4, <2>6 DEF Weight, Resting
    <3>2. velUp' \in Int /\ velUp' <= velUp /\ (velUp' >= velUp \/ velUp' >= -(Terminal + g))
      BY <1>1, <2>2, <2>4, <3>1
    <3>3. QED BY <2>4, <2>6, <3>2
  <2>7. QED BY <2>2, <2>5, <2>6
<1>15. ASSUME MoveInv, MotorFree PROVE MoveInv'
  <2> USE <1>15
  <2>1. /\ phase = "motor" /\ yaw' = Turned(yaw + cmd.look) /\ phase' = "collide"
        /\ velSide' = MoveTowards(velSide, cmd.side, Accel * dt)
        /\ want' = [side |-> velSide' * dt, up |-> velUp' * dt]
        /\ UNCHANGED << tickVars, sources, visit, cmd, placeVars, dashVars, lift >>
    BY DEF MotorFree
  <2>2. /\ velSide \in -BaseSpeed..BaseSpeed /\ cmd.side \in -BaseSpeed..BaseSpeed
        /\ velUp \in Int /\ velUp <= JumpSpeed /\ grounded \in BOOLEAN
    <3>1. cmd.side \in {-BaseSpeed, 0, BaseSpeed}
      BY <2>1, <1>12 DEF CmdType
    <3>2. cmd.side \in -BaseSpeed..BaseSpeed
      BY <1>1, <3>1
    <3>3. velUp \in Int
      BY DEF MoveInv, ShapeInv
    <3>4. velSide \in -BaseSpeed..BaseSpeed /\ velUp <= JumpSpeed /\ grounded \in BOOLEAN
      BY DEF MoveInv, TypeOK
    <3>5. QED BY <3>2, <3>3, <3>4
  <2>3. velSide' \in -BaseSpeed..BaseSpeed
    <3>1. Accel \in Nat
      BY <1>1 DEF Accel
    <3>2. PICK most \in Nat : most = Accel * dt
      BY <1>3, <3>1, <1>12, <2>1
    <3>3. \A v, goal \in -BaseSpeed..BaseSpeed : MoveTowards(v, goal, most) \in -BaseSpeed..BaseSpeed
      BY <1>1 DEF MoveTowards, Abs
    <3>4. QED BY <2>1, <2>2, <3>2, <3>3
  <2>4. velUp' \in Int /\ velUp' <= JumpSpeed
    BY <1>1, <1>12, <1>14, <2>1, <2>2
  <2>5. \E d \in Deltas : velUp' >= -(Terminal + Gravity * d)
    <3>1. CASE velUp' >= velUp
      <4>1. PICK d \in Deltas : velUp >= -(Terminal + Gravity * d)
        BY DEF MoveInv, TypeOK
      <4>2. PICK g \in Nat : g = Gravity * d
        BY <1>1, <1>3
      <4>3. velUp' >= -(Terminal + g)
        BY <1>1, <2>2, <2>4, <3>1, <4>1, <4>2
      <4>4. QED BY <4>2, <4>3
    <3>2. CASE velUp' >= -(Terminal + Gravity * dt)
      BY <3>2, <1>12, <2>1
    <3>3. QED BY <3>1, <3>2, <1>14
  <2>6. TypeOK'
    BY <2>1, <2>3, <2>4, <2>5 DEF MoveInv, TypeOK, Ghosts, tickVars, placeVars, dashVars
  <2>7. want' \in [side : Int, up : Int] /\ (velUp' > 0 => want'.up > 0)
    <3>1. PICK n \in Int : n = velSide' * dt
      BY <1>1, <2>3, <1>12, <2>1
    <3>2. PICK u \in Int : u = velUp' * dt /\ (velUp' > 0 => u > 0)
      BY <1>3, <2>4, <1>12, <2>1
    <3>3. QED BY <2>1, <3>1, <3>2
  <2>8. ShapeInv'
    BY <2>1, <2>4, <2>7, <1>12 DEF MoveInv, ShapeInv, tickVars
  <2>9. CmdInv' /\ JumpInv'
    BY <2>1, <2>7 DEF CmdInv, JumpInv
  <2>10. QED BY <2>6, <2>8, <2>9 DEF MoveInv
<1>16. ASSUME MoveInv, MovePlayer PROVE MoveInv'
  <2> USE <1>16
  <2>1. /\ phase = "collide" /\ height' = IF Snaps THEN 0 ELSE Moved
        /\ grounded' = Snaps /\ phase' = "gameplay"
        /\ UNCHANGED << tickVars, sources, visit, cmd, want, bodyVars, dashVars, lift >>
    BY DEF MovePlayer
  <2>2. height' \in 0..Ceiling /\ grounded' \in BOOLEAN
    <3>1. height \in 0..Ceiling /\ want.up \in Int /\ 0 \in 0..Ceiling
      BY <1>1 DEF MoveInv, TypeOK, ShapeInv
    <3>2. Max({0, Min({Ceiling, height + want.up})}) \in 0..Ceiling
      <4>1. PICK m : m = Min({Ceiling, height + want.up})
        OBVIOUS
      <4>2. m \in Int /\ m <= Ceiling
        BY <1>1, <3>1, <4>1, SmallerLarger
      <4>3. Max({0, m}) = IF 0 >= m THEN 0 ELSE m
        BY <4>2, SmallerLarger
      <4>4. Max({0, m}) \in 0..Ceiling
        BY <1>1, <4>2, <4>3
      <4>5. QED BY <4>1, <4>4
    <3>3. Moved \in 0..Ceiling
      BY <3>1, <3>2 DEF Moved
    <3>4. QED BY <2>1, <3>1, <3>3 DEF Snaps
  <2>3. velUp > 0 => ~grounded'
    <3>1. want.up \in Int
      BY DEF MoveInv, ShapeInv
    <3>2. velUp > 0 => want.up > 0
      BY <2>1 DEF MoveInv, JumpInv
    <3>3. Snaps => want.up <= 0
      BY DEF Snaps
    <3>4. QED BY <2>1, <3>1, <3>2, <3>3
  <2>4. TypeOK'
    BY <2>1, <2>2 DEF MoveInv, TypeOK, Ghosts, tickVars, bodyVars, dashVars
  <2>5. ShapeInv'
    BY <2>1 DEF MoveInv, ShapeInv, tickVars, bodyVars
  <2>6. CmdInv' /\ JumpInv'
    BY <2>1, <2>3 DEF CmdInv, JumpInv, bodyVars
  <2>7. QED BY <2>4, <2>5, <2>6 DEF MoveInv
<1>17. ASSUME MoveInv, TickGameplay PROVE MoveInv'
  <2> USE <1>17
  <2>1. /\ phase = "gameplay" /\ dt' = 0 /\ frame' = NoInput /\ cmd' = EmptyCmd /\ lift' = FALSE
        /\ want' = [side |-> 0, up |-> 0] /\ phase' = "idle"
        /\ UNCHANGED << visit, bodyVars, placeVars >>
    BY DEF TickGameplay
  <2>2. \/ UNCHANGED << sources, dashVars >>
        \/ \E i \in DashId : RequestDash(i)
    BY DEF TickGameplay
  <2>3. /\ sources' \in Seq(SourceType) /\ Len(sources') >= Len(sources) /\ sources'[1] = Input
        /\ \A k \in 2..Len(sources') : /\ sources'[k].kind = "dash" /\ sources'[k].id \in DashId
                                       /\ sources'[k].timer <= DashTime
                                       /\ ~sources'[k].active => sources'[k].timer <= 0
        /\ Ghosts' /\ Len(sources) \in Nat /\ Len(sources) >= 1
    <3>1. /\ sources \in Seq(SourceType) /\ Len(sources) \in Nat /\ Len(sources) >= 1 /\ sources[1] = Input
          /\ \A k \in 2..Len(sources) : /\ sources[k].kind = "dash" /\ sources[k].id \in DashId
                                        /\ sources[k].timer <= DashTime
                                        /\ ~sources[k].active => sources[k].timer <= 0
          /\ age \in [DashId -> 0..DashTime] /\ ran \in [DashId -> Nat]
          /\ blocked \subseteq DashId /\ lift \in BOOLEAN
      BY DEF MoveInv, TypeOK, ShapeInv, Ghosts
    <3>2. CASE UNCHANGED << sources, dashVars >>
      <4>1. UNCHANGED << sources, age, ran, blocked >>
        BY <3>2 DEF dashVars
      <4>2. Ghosts'
        BY <2>1, <3>1, <4>1 DEF Ghosts
      <4>3. Len(sources) >= Len(sources)
        BY <3>1
      <4>4. QED BY <3>1, <4>1, <4>2, <4>3
    <3>3. ASSUME NEW i \in DashId, RequestDash(i)
          PROVE  /\ sources' = Append(sources, Dash(i)) /\ Ghosts'
      <4>1. 0 \in 0..DashTime
        BY <1>1
      <4>2. QED BY <2>1, <3>1, <3>3, <4>1 DEF RequestDash, Ghosts
    <3>4. ASSUME NEW i \in DashId, RequestDash(i)
          PROVE  /\ sources' \in Seq(SourceType) /\ Len(sources') = Len(sources) + 1
                 /\ \A k \in 1..(Len(sources) + 1) :
                      sources'[k] = IF k = Len(sources) + 1 THEN Dash(i) ELSE sources[k]
      <4>1. PICK d \in SourceType : d = Dash(i)
        BY <1>2, <3>4
      <4>2. sources' = Append(sources, d)
        BY <3>3, <3>4, <4>1
      <4>3. QED BY <3>1, <4>1, <4>2
    <3>5. ASSUME NEW i \in DashId, RequestDash(i), NEW k \in 2..Len(sources')
          PROVE  /\ sources'[k].kind = "dash" /\ sources'[k].id \in DashId
                 /\ sources'[k].timer <= DashTime
                 /\ ~sources'[k].active => sources'[k].timer <= 0
      <4>1. k = Len(sources) + 1 \/ k \in 2..Len(sources)
        BY <3>1, <3>4, <3>5
      <4>2. CASE k = Len(sources) + 1
        <5>1. sources'[k] = Dash(i)
          BY <3>1, <3>4, <3>5, <4>2
        <5>2. DashTime <= DashTime
          BY <1>1
        <5>3. QED BY <1>2, <5>1, <5>2
      <4>3. CASE k \in 2..Len(sources)
        BY SMTT(30), <3>1, <3>4, <3>5, <4>3
      <4>4. QED BY <4>1, <4>2, <4>3
    <3>6. ASSUME NEW i \in DashId, RequestDash(i)
          PROVE  Len(sources') >= Len(sources) /\ sources'[1] = Input
      BY SMTT(30), <3>1, <3>4, <3>6
    <3>7. QED BY <2>2, <3>1, <3>2, <3>3, <3>4, <3>5, <3>6
  <2>4. TypeOK'
    <3>1. visit \in 0..Len(sources')
      BY <2>3 DEF MoveInv, TypeOK
    <3>2. \A k \in DOMAIN sources' : k = 1 \/ k \in 2..Len(sources')
      BY <2>3
    <3>3. \A k \in DOMAIN sources' :
            sources'[k] = Input \/ /\ sources'[k].kind = "dash" /\ sources'[k].id \in DashId
                                   /\ sources'[k].timer \in Int /\ sources'[k].timer <= DashTime
      <4>1. \A k \in DOMAIN sources' : sources'[k].timer \in Int
        <5>1. \A k \in DOMAIN sources' : sources'[k] \in SourceType
          BY <2>3
        <5>2. QED BY <5>1 DEF SourceType
      <4>2. QED BY <2>3, <3>2, <4>1
    <3>4. NoInput \in [jump : BOOLEAN, walk : {-1, 0, 1}, aim : Aims \cup {0}]
      BY DEF NoInput
    <3>5. QED BY <2>1, <2>3, <3>1, <3>3, <3>4 DEF MoveInv, TypeOK, bodyVars, placeVars
  <2>5. ShapeInv'
    BY <1>2, <2>1, <2>3 DEF MoveInv, ShapeInv, bodyVars
  <2>6. CmdInv' /\ JumpInv'
    BY <2>1 DEF MoveInv, CmdInv, JumpInv, bodyVars, placeVars
  <2>7. QED BY <2>4, <2>5, <2>6 DEF MoveInv
<1>18. ASSUME MoveInv, UNCHANGED vars PROVE MoveInv'
  BY <1>18 DEF vars, tickVars, bodyVars, placeVars, dashVars, MoveInv, TypeOK, Ghosts, ShapeInv, CmdInv,
     JumpInv, RunningYet
<1>19. MoveInv /\ [Next]_vars => MoveInv'
  BY <1>5, <1>7, <1>8, <1>9, <1>10, <1>11, <1>13, <1>15, <1>16, <1>17, <1>18 DEF Next, VisitSource, Motor
<1>20. MoveInv => TypeOK
  BY DEF MoveInv
<1>21. QED BY <1>4, <1>19, <1>20, PTL DEF Spec

-----------------------------------------------------------------------------
\* A jump from the ground lifts at once and once, and nothing else lifts.
THEOREM JumpsAnswered == Spec => JumpAnswered
<1> DEFINE Answer == /\ phase = "motor" /\ phase' = "collide" =>
                          IF lift THEN velUp' = JumpSpeed ELSE velUp' <= Max({velUp, 0})
                     /\ phase = "collide" /\ velUp > 0 => ~grounded'
<1>1. ASSUME MoveInv, Next PROVE Answer
  <2> USE <1>1
  <2>1. JumpSpeed \in Nat /\ JumpSpeed > 0 /\ Gravity \in Nat /\ Terminal \in Nat
        /\ \A d \in Deltas : d \in Nat
    <3>1. JumpSpeed \in Nat /\ Gravity \in Nat /\ Terminal \in Nat
      BY MovementAssumption, Zenon
    <3>2. JumpSpeed > 0 /\ Deltas \subseteq Nat \ {0}
      BY MovementAssumption, Zenon
    <3>3. QED BY <3>1, <3>2
  <2>2. velUp \in Int /\ grounded \in BOOLEAN /\ lift \in BOOLEAN /\ cmd \in CmdType
    BY DEF MoveInv, TypeOK, ShapeInv, Ghosts
  <2>3. Max({velUp, 0}) = IF velUp >= 0 THEN velUp ELSE 0
    BY <2>2, SmallerLarger
  <2>4. ASSUME phase = "motor" PROVE Motor
    BY <2>4 DEF Next, BeginTick, VisitSource, RemoveEnded, UpdateDash, EndDash, UpdateInput,
       Visiting, CommandBuilt, MovePlayer, TickGameplay
  <2>5. ASSUME phase = "motor", MotorForced
        PROVE  IF lift THEN velUp' = JumpSpeed ELSE velUp' <= Max({velUp, 0})
    <3>1. velUp' = 0 /\ cmd.force.time > 0
      BY <2>5 DEF MotorForced, Forced
    <3>2. lift => cmd.force.time = 0
      BY <2>5 DEF MoveInv, JumpInv
    <3>3. ~lift
      BY <3>1, <3>2
    <3>4. QED BY <2>2, <2>3, <3>1, <3>3
  <2>6. ASSUME phase = "motor", MotorFree
        PROVE  IF lift THEN velUp' = JumpSpeed ELSE velUp' <= Max({velUp, 0})
    <3>1. /\ velUp' = Weight(Resting(velUp) + cmd.impulse)
          /\ cmd.impulse = (IF grounded /\ frame.jump THEN JumpSpeed ELSE 0)
          /\ velUp > 0 => ~grounded
          /\ lift => frame.jump /\ grounded
          /\ ~lift /\ frame.jump /\ grounded => cmd.force.time > 0
      BY <2>6 DEF MotorFree, MoveInv, CmdInv, JumpInv, RunningYet
    <3>2. ~(cmd.force.time > 0)
      BY <2>6 DEF MotorFree, Forced
    <3>3. CASE grounded
      <4>1. Resting(velUp) = 0
        BY <2>2, <3>1, <3>3 DEF Resting
      <4>2. velUp' = IF lift THEN JumpSpeed ELSE 0
        <5>1. PICK i \in Nat : i = cmd.impulse /\ i = IF lift THEN JumpSpeed ELSE 0
          BY <2>1, <2>2, <3>1, <3>2, <3>3
        <5>2. velUp' = i
          BY <3>1, <3>3, <4>1, <5>1 DEF Weight
        <5>3. QED BY <5>1, <5>2
      <4>3. QED BY <2>1, <2>2, <2>3, <4>2
    <3>4. CASE ~grounded
      <4>1. dt \in Nat
        BY <2>1, <2>6 DEF MoveInv, ShapeInv
      <4>2. PICK g \in Nat : g = Gravity * dt
        BY <2>1, <4>1
      <4>3. ~lift /\ cmd.impulse = 0 /\ Resting(velUp) = velUp
        BY <3>1, <3>4 DEF Resting
      <4>4. velUp' = IF velUp > -Terminal THEN velUp - g ELSE velUp
        BY <2>2, <3>1, <3>4, <4>2, <4>3 DEF Weight
      <4>5. velUp' <= velUp
        BY <2>1, <2>2, <4>2, <4>4
      <4>6. velUp' \in Int
        BY <2>1, <2>2, <4>2, <4>4
      <4>7. QED BY <2>2, <2>3, <4>3, <4>5, <4>6
    <3>5. QED BY <2>2, <3>3, <3>4
  <2>7. ASSUME phase = "collide", velUp > 0 PROVE ~grounded'
    <3>1. MovePlayer
      BY <2>7 DEF Next, BeginTick, VisitSource, RemoveEnded, UpdateDash, EndDash, UpdateInput,
         Visiting, CommandBuilt, Motor, MotorForced, MotorFree, TickGameplay
    <3>2. want.up \in Int /\ want.up > 0
      BY <2>7 DEF MoveInv, ShapeInv, JumpInv
    <3>3. ~Snaps
      BY <3>2 DEF Snaps
    <3>4. QED BY <3>1, <3>3 DEF MovePlayer
  <2>8. QED BY <2>4, <2>5, <2>6, <2>7 DEF Motor
<1>2. MoveInv /\ [Next]_vars => [Answer]_vars
  BY <1>1
<1>3. QED BY <1>2, MoveInvariant, PTL DEF Spec, JumpAnswered, Answer

\* Although it is built from differences, the yaw is where the client aims.
THEOREM LooksWhereAimed == Spec => LookFollowsAim
<1> DEFINE Look == phase = "motor" /\ phase' = "collide" =>
                     /\ (yaw' - frame.aim) % FullTurn = 0
                     /\ frame.aim \in -FullTurn..2 * FullTurn => yaw' \in 0..FullTurn
<1>1. ASSUME MoveInv, Next, phase = "motor" PROVE Look
  <2> USE <1>1
  <2>1. FullTurn \in Nat /\ FullTurn > 0 /\ \A y \in Aims : y \in Int
    <3>1. FullTurn \in Nat \ {0} /\ Aims \subseteq Int
      BY MovementAssumption, Zenon
    <3>2. QED BY <3>1
  <2>2. frame.aim \in Int /\ yaw \in Int
    BY <2>1 DEF MoveInv, TypeOK, ShapeInv
  <2>3. Motor
    BY DEF Next, BeginTick, VisitSource, RemoveEnded, UpdateDash, EndDash, UpdateInput,
       Visiting, CommandBuilt, MovePlayer, TickGameplay
  <2>4. cmd.look = frame.aim - yaw /\ yaw' = Turned(yaw + cmd.look)
    BY <2>3 DEF MoveInv, CmdInv, Motor, MotorForced, MotorFree
  <2>5. yaw' = Turned(frame.aim)
    <3>1. yaw + (frame.aim - yaw) = frame.aim
      BY <2>2
    <3>2. QED BY <2>4, <3>1
  <2>6. \A y \in Int : /\ Turned(y) - y \in {0, FullTurn, -FullTurn}
                       /\ y \in -FullTurn..2 * FullTurn => Turned(y) \in 0..FullTurn
    BY <2>1 DEF Turned
  <2>7. 0 % FullTurn = 0 /\ FullTurn % FullTurn = 0 /\ (-FullTurn) % FullTurn = 0
    <3>1. \A q, r \in Int : 0 <= r /\ r < FullTurn => (q * FullTurn + r) % FullTurn = r
      BY <2>1
    <3>2. 0 * FullTurn + 0 = 0 /\ 1 * FullTurn + 0 = FullTurn /\ (-1) * FullTurn + 0 = -FullTurn
      BY <2>1
    <3>3. \A q \in Int : (q * FullTurn + 0) % FullTurn = 0
      BY <2>1, <3>1
    <3>4. (0 * FullTurn + 0) % FullTurn = 0 /\ (1 * FullTurn + 0) % FullTurn = 0
          /\ ((-1) * FullTurn + 0) % FullTurn = 0
      BY <3>3
    <3>5. QED BY <3>2, <3>4
  <2>8. QED BY <2>2, <2>5, <2>6, <2>7
<1>2. MoveInv /\ [Next]_vars => [Look]_vars
  BY <1>1
<1>3. QED BY <1>2, MoveInvariant, PTL DEF Spec, LookFollowsAim, Look

-----------------------------------------------------------------------------
\* Every step keeps a dash's count: what it ran for, what it has left, its age.
THEOREM DashInvariant == Spec => [](MoveInv /\ DashInv)
<1>1. DashTime \in Nat /\ DashTime > 0 /\ MaxDashes \in Nat /\ \A d \in Deltas : d \in Nat /\ d > 0
  <2>1. DashTime \in Nat \ {0} /\ MaxDashes \in Nat /\ Deltas \subseteq Nat \ {0}
    BY MovementAssumption, Zenon
  <2>2. QED BY <2>1
<1>2. ASSUME MoveInv
      PROVE  /\ Len(sources) \in Nat /\ Len(sources) >= 1 /\ sources \in Seq(SourceType)
             /\ dt \in Nat /\ cmd \in CmdType /\ cmd.force.time \in Nat
             /\ cmd.force.dash \in 0..MaxDashes
             /\ ran \in [DashId -> Nat] /\ age \in [DashId -> 0..DashTime] /\ visit \in 0..Len(sources)
             /\ \A j \in DashIndex : /\ j \in Nat /\ j \in DOMAIN sources /\ sources[j].kind = "dash"
                                     /\ sources[j].id \in DashId /\ sources[j].timer \in Int
                                     /\ sources[j].timer <= DashTime /\ sources[j].active \in BOOLEAN
                                     /\ ran[sources[j].id] \in Nat
                                     /\ ~sources[j].active => sources[j].timer <= 0
  <2> USE <1>2
  <2>1. sources \in Seq(SourceType) /\ Len(sources) \in Nat /\ Len(sources) >= 1 /\ cmd \in CmdType
    BY DEF MoveInv, ShapeInv
  <2>2. dt \in Nat /\ visit \in 0..Len(sources)
    BY <1>1 DEF MoveInv, TypeOK
  <2>3. cmd.force.time \in Nat /\ cmd.force.dash \in 0..MaxDashes
    BY <2>1 DEF CmdType
  <2>4. ran \in [DashId -> Nat] /\ age \in [DashId -> 0..DashTime]
    BY DEF MoveInv, TypeOK, Ghosts
  <2>5. ASSUME NEW j \in DashIndex
        PROVE  /\ j \in Nat /\ j \in DOMAIN sources /\ sources[j].kind = "dash"
               /\ sources[j].id \in DashId /\ sources[j].timer \in Int
               /\ sources[j].timer <= DashTime /\ sources[j].active \in BOOLEAN
               /\ ~sources[j].active => sources[j].timer <= 0
    <3>1. j \in Nat /\ j \in DOMAIN sources
      BY <2>1 DEF DashIndex
    <3>2. sources[j] \in SourceType
      BY <2>1, <3>1
    <3>3. QED BY <3>1, <3>2 DEF MoveInv, ShapeInv, DashIndex, SourceType
  <2>6. QED BY <2>1, <2>2, <2>3, <2>4, <2>5
<1>3. Init => DashInv
  <2> SUFFICES ASSUME Init PROVE DashInv
    OBVIOUS
  <2>1. DashIndex = {} /\ ~Commanding
    BY DEF Init, DashIndex, Commanding
  <2>2. QED BY <2>1 DEF DashInv, OneEach, AgesAgree, NeverLonger, NeverShorter, ForceIsADash
<1>4. ASSUME MoveInv, DashInv, BeginTick, MoveInv' PROVE DashInv'
  <2> USE <1>4
  <2>1. /\ phase = "idle" /\ phase' = "build" /\ visit' = Len(sources) /\ dt' \in Nat /\ sources' = sources
        /\ cmd'.force.time = 0 /\ ran' = ran /\ blocked' = blocked /\ DashIndex' = DashIndex
        /\ age' = [i \in DashId |-> Min({age[i] + dt', DashTime})]
    BY <1>1 DEF BeginTick, EmptyCmd, NoForce, DashIndex
  <2>2. \A j \in DashIndex : Visited(j) /\ ~Visited(j)' /\ ~Acted(j)'
    BY <1>2, <2>1 DEF Visited, Acted, DashIndex
  <2>3. \A i \in DashId : MovedFor(i) = ran[i] /\ MovedFor(i)' = ran[i] /\ ~Commanding
    BY <1>2, <2>1 DEF MovedFor, Commanding
  <2>4. AgesAgree'
    <3> SUFFICES ASSUME NEW j \in DashIndex
                 PROVE  age'[sources[j].id] = AgeAt(sources[j].timer, dt')
      BY <2>1, <2>2 DEF AgesAgree
    <3>1. sources[j].id \in DashId /\ sources[j].timer \in Int /\ sources[j].timer <= DashTime
      BY <1>2
    <3>2. age[sources[j].id] = AgeAt(sources[j].timer, 0) /\ age[sources[j].id] \in Nat
      BY <1>2, <2>2, <3>1 DEF DashInv, AgesAgree
    <3>3. age'[sources[j].id] = Min({age[sources[j].id] + dt', DashTime})
      BY <2>1, <3>1
    <3>4. age'[sources[j].id] = IF age[sources[j].id] + dt' <= DashTime THEN age[sources[j].id] + dt' ELSE DashTime
      <4>1. PICK a \in Int : a = age[sources[j].id] + dt'
        BY <2>1, <3>2
      <4>2. Min({a, DashTime}) = IF a <= DashTime THEN a ELSE DashTime
        BY <1>1, SmallerLarger
      <4>3. age'[sources[j].id] = Min({a, DashTime})
        BY <3>3, <4>1
      <4>4. QED BY <4>1, <4>2, <4>3
    <3>5. \A t \in Int, a, d \in Nat : t <= DashTime /\ a = AgeAt(t, 0) =>
            AgeAt(t, d) = IF a + d <= DashTime THEN a + d ELSE DashTime
      BY <1>1 DEF AgeAt
    <3>6. PICK a \in Nat, d \in Nat : a = age[sources[j].id] /\ d = dt'
      BY <2>1, <3>2
    <3>7. AgeAt(sources[j].timer, d) = IF a + d <= DashTime THEN a + d ELSE DashTime
      BY <3>1, <3>2, <3>5, <3>6
    <3>8. QED BY <3>4, <3>6, <3>7
  <2>5. NeverLonger' /\ NeverShorter'
    BY <1>2, <2>1, <2>3 DEF DashInv, NeverLonger, NeverShorter, Acted
  <2>6. OneEach' /\ ForceIsADash'
    BY <2>1, <2>2 DEF DashInv, OneEach, ForceIsADash
  <2>7. QED BY <2>4, <2>5, <2>6 DEF DashInv
<1>5. ASSUME MoveInv, DashInv, NEW v \in DashIndex, Commanding, ~Visited(v)
      PROVE  ~Acted(v) /\ MovedFor(sources[v].id) = ran[sources[v].id]
             /\ (cmd.force.time > 0 => cmd.force.dash # sources[v].id)
  <2> USE <1>5
  <2>1. cmd.force.time > 0 => cmd.force.dash # sources[v].id
    BY DEF DashInv, OneEach, ForceIsADash, Acted
  <2>2. cmd.force.time = 0 \/ cmd.force.time > 0
    BY <1>2
  <2>3. ran[sources[v].id] + 0 = ran[sources[v].id]
    BY <1>2
  <2>4. QED BY <2>1, <2>2, <2>3 DEF Acted, MovedFor
<1>6. ASSUME MoveInv, DashInv, RemoveEnded, MoveInv' PROVE DashInv'
  <2> USE <1>6
  <2> DEFINE Was(k) == IF k < visit THEN k ELSE k + 1
  <2>1. /\ phase = "build" /\ phase' = "build" /\ visit > 0 /\ ~sources[visit].active
        /\ sources' = RemoveAt(sources, visit) /\ visit' = visit - 1
        /\ dt' = dt /\ cmd' = cmd /\ age' = age /\ ran' = ran /\ blocked' = blocked
    BY DEF RemoveEnded, Visiting, Source, tickVars, dashVars
  <2>2. visit \in DashIndex
    <3>1. visit # 1
      BY <2>1 DEF MoveInv, ShapeInv, Input
    <3>2. QED BY <1>2, <2>1, <3>1 DEF DashIndex
  <2>3. /\ Len(sources') = Len(sources) - 1 /\ visit \in 2..Len(sources)
        /\ \A k \in DashIndex' : k \in Nat /\ Was(k) \in DashIndex /\ Was(k) # visit /\ sources'[k] = sources[Was(k)]
    <3>1. visit \in 2..Len(sources) /\ Len(sources) \in Nat
      BY <1>2, <2>2 DEF DashIndex
    <3>2. /\ Len(sources') = Len(sources) - 1
          /\ \A k \in 1..(Len(sources) - 1) : sources'[k] = IF k < visit THEN sources[k] ELSE sources[k + 1]
      <4>1. visit \in 1..Len(sources)
        BY <3>1
      <4>2. QED BY <1>2, <2>1, <4>1, Erased
    <3>3. QED BY <3>1, <3>2 DEF DashIndex
  <2>4. \A k \in DashIndex' : Visited(k)' <=> Visited(Was(k))
    BY <2>1, <2>3 DEF Visited
  <2>5. \A k \in DashIndex' : Acted(k)' <=> Acted(Was(k))
    BY <2>1, <2>3, <2>4 DEF Acted, Commanding
  <2>6. \A i \in DashId : MovedFor(i)' = MovedFor(i)
    BY <2>1 DEF MovedFor, Commanding
  <2>7. \A j \in DashIndex : Acted(j) => \E k \in DashIndex' : Was(k) = j
    <3> SUFFICES ASSUME NEW j \in DashIndex, Acted(j) PROVE \E k \in DashIndex' : Was(k) = j
      OBVIOUS
    <3>1. j \in Nat /\ j > visit /\ j \in 2..Len(sources)
      BY <1>2, <2>1 DEF Acted, Visited, DashIndex
    <3>2. j - 1 \in DashIndex' /\ Was(j - 1) = j
      BY <1>2, <2>3, <3>1 DEF DashIndex
    <3>3. QED BY <3>2
  <2>8. \A k, l \in DashIndex' : /\ Was(k) = Was(l) => k = l
                                 /\ Was(k) < Was(l) => k < l
    BY <2>3
  <2>9. OneEach'
    BY <2>3, <2>8 DEF DashInv, OneEach
  <2>10. AgesAgree'
    <3> SUFFICES ASSUME NEW k \in DashIndex'
                 PROVE  age'[sources'[k].id] = AgeAt(sources'[k].timer, IF Visited(k)' THEN 0 ELSE dt')
      BY DEF AgesAgree
    <3>1. age[sources[Was(k)].id] = AgeAt(sources[Was(k)].timer, IF Visited(Was(k)) THEN 0 ELSE dt)
      BY <2>3 DEF DashInv, AgesAgree
    <3>2. QED BY <2>1, <2>3, <2>4, <3>1
  <2>11. NeverLonger'
    BY <1>2, <2>3, <2>6 DEF DashInv, NeverLonger
  <2>12. NeverShorter'
    <3> SUFFICES ASSUME NEW j \in DashIndex', sources'[j].id \notin blocked'
                 PROVE  \/ MovedFor(sources[j].id)' = Spent(sources'[j].timer)
                        \/ Acted(j)' /\ \E k \in DashIndex' : k < j /\ Acted(k)'
      BY DEF NeverShorter
    <3>1. PICK w \in DashIndex : w = Was(j) /\ sources'[j] = sources[w] /\ sources[w].id \in DashId
      BY <1>2, <2>3
    <3>2. \/ MovedFor(sources[w].id) = Spent(sources[w].timer)
          \/ Acted(w) /\ \E k \in DashIndex : k < w /\ Acted(k)
      BY <2>1, <3>1 DEF DashInv, NeverShorter
    <3>3. ASSUME NEW k \in DashIndex, k < w, Acted(k)
          PROVE  \E l \in DashIndex' : l < j /\ Acted(l)'
      <4>1. PICK l \in DashIndex' : Was(l) = k
        BY <2>7, <3>3
      <4>2. l < j
        BY <2>8, <3>1, <3>3, <4>1
      <4>3. QED BY <2>5, <3>3, <4>1, <4>2
    <3>4. MovedFor(sources[j].id)' = MovedFor(sources[w].id)
      BY <2>1, <3>1 DEF MovedFor, Commanding
    <3>5. QED BY <2>5, <3>1, <3>2, <3>3, <3>4
  <2>13. ForceIsADash'
    <3>1. \A k \in DashIndex' : Acted(k)' => cmd'.force.time > 0
      BY <2>1, <2>3, <2>5 DEF DashInv, ForceIsADash
    <3>2. ASSUME cmd'.force.time > 0
          PROVE  \E k \in DashIndex' : Acted(k)' /\ sources'[k].id = cmd'.force.dash
      <4>1. PICK j \in DashIndex : Acted(j) /\ sources[j].id = cmd.force.dash
        BY <2>1, <3>2 DEF DashInv, ForceIsADash, Commanding
      <4>2. PICK k \in DashIndex' : Was(k) = j
        BY <2>7, <4>1
      <4>3. QED BY <2>1, <2>3, <2>5, <4>1, <4>2
    <3>3. QED BY <3>1, <3>2 DEF ForceIsADash
  <2>14. QED BY <2>9, <2>10, <2>11, <2>12, <2>13 DEF DashInv
<1>7. ASSUME MoveInv, DashInv, UpdateDash, MoveInv' PROVE DashInv'
  <2> USE <1>7
  <2>1. PICK v \in DashIndex :
          /\ v = visit /\ phase = "build" /\ sources[v].active /\ sources[v].timer > 0
          /\ cmd' = [cmd EXCEPT !.force = [time |-> DashStep, dash |-> sources[v].id]]
          /\ sources' = [sources EXCEPT ![v].timer = @ - dt] /\ visit' = v - 1 /\ phase' = "build"
          /\ dt' = dt /\ age' = age /\ ran' = ran /\ blocked' = blocked
          /\ DashStep = Min({dt, sources[v].timer})
    <3>1. visit # 1
      BY <1>1 DEF UpdateDash, Source, MoveInv, ShapeInv, Input
    <3>2. visit \in DashIndex
      BY <1>2, <3>1 DEF UpdateDash, Visiting, DashIndex
    <3>3. QED BY <3>2 DEF UpdateDash, Visiting, Source, tickVars, dashVars, DashStep
  <2>2. sources[v].id \in DashId /\ sources[v].timer \in Int /\ sources[v].timer <= DashTime
        /\ v \in Nat /\ v \in DOMAIN sources /\ dt \in Nat /\ dt > 0
    <3>1. dt \in Deltas
      BY <2>1 DEF MoveInv, ShapeInv
    <3>2. QED BY <1>1, <1>2, <2>1, <3>1
  <2>3. PICK n \in Nat : n = DashStep /\ n > 0 /\ n = IF dt <= sources[v].timer THEN dt ELSE sources[v].timer
    BY <2>1, <2>2, SmallerLarger
  <2>4. cmd'.force = [time |-> n, dash |-> sources[v].id] /\ cmd'.force.time = n /\ cmd'.force.dash = sources[v].id
    <3>1. cmd = [side |-> cmd.side, look |-> cmd.look, impulse |-> cmd.impulse, force |-> cmd.force]
      BY <1>2 DEF CmdType
    <3>2. QED BY <2>1, <2>3, <3>1
  <2>5. /\ DashIndex' = DashIndex
        /\ \A j \in DashIndex : /\ sources'[j].id = sources[j].id /\ sources'[j].active = sources[j].active
                                /\ j # v => sources'[j] = sources[j]
        /\ sources'[v].timer = sources[v].timer - dt
    <3>1. \A j \in DashIndex : sources[j] \in SourceType /\ j \in DOMAIN sources
      BY <1>2 DEF DashIndex
    <3>2. sources[v] = [kind |-> sources[v].kind, id |-> sources[v].id, timer |-> sources[v].timer,
                        active |-> sources[v].active]
      BY <3>1 DEF SourceType
    <3>3. PICK s : s = [sources[v] EXCEPT !.timer = @ - dt]
      OBVIOUS
    <3>4. s = [kind |-> sources[v].kind, id |-> sources[v].id, timer |-> sources[v].timer - dt,
               active |-> sources[v].active]
      BY <3>2, <3>3
    <3>5. sources' = [sources EXCEPT ![v] = s]
      BY <2>1, <3>3
    <3>6. Len(sources') = Len(sources) /\ sources'[v] = s /\ \A j \in DashIndex : j # v => sources'[j] = sources[j]
      BY <1>2, <2>2, <3>1, <3>5
    <3>7. QED BY <3>4, <3>6 DEF DashIndex
  <2>6. /\ \A j \in DashIndex : j # v => (Visited(j)' <=> Visited(j))
        /\ Visited(v)' /\ ~Visited(v) /\ Commanding /\ Commanding'
    BY <1>2, <2>1 DEF Visited, Commanding
  <2>7. /\ \A j \in DashIndex : j # v => (Acted(j)' <=> Acted(j))
        /\ Acted(v)' /\ ~Acted(v) /\ MovedFor(sources[v].id) = ran[sources[v].id]
    <3>1. sources[v].timer - dt + dt > 0
      BY <2>1, <2>2
    <3>2. Acted(v)'
      BY <2>1, <2>5, <2>6, <3>1 DEF Acted
    <3>3. \A j \in DashIndex : j # v => (Acted(j)' <=> Acted(j))
      BY <2>1, <2>5, <2>6 DEF Acted
    <3>4. QED BY <1>5, <2>6, <3>2, <3>3
  <2>8. \A j \in DashIndex : j # v =>
          /\ sources[j].id # sources[v].id /\ MovedFor(sources[j].id)' = ran[sources[j].id]
          /\ MovedFor(sources[j].id)' <= MovedFor(sources[j].id)
          /\ Acted(j) \/ MovedFor(sources[j].id)' = MovedFor(sources[j].id)
    <3> SUFFICES ASSUME NEW j \in DashIndex, j # v
                 PROVE  /\ sources[j].id # sources[v].id /\ MovedFor(sources[j].id)' = ran[sources[j].id]
                        /\ MovedFor(sources[j].id)' <= MovedFor(sources[j].id)
                        /\ Acted(j) \/ MovedFor(sources[j].id)' = MovedFor(sources[j].id)
      OBVIOUS
    <3>1. sources[j].id # sources[v].id /\ ran[sources[j].id] \in Nat /\ cmd.force.time \in Nat
      BY <1>2 DEF DashInv, OneEach
    <3>2. MovedFor(sources[j].id)' = ran[sources[j].id]
      BY <2>1, <2>4, <2>5, <3>1 DEF MovedFor
    <3>3. CASE cmd.force.dash = sources[j].id /\ cmd.force.time > 0
      <4>1. Acted(j)
        BY <2>6, <3>3 DEF DashInv, OneEach, ForceIsADash
      <4>2. MovedFor(sources[j].id) = ran[sources[j].id] + cmd.force.time
        BY <2>6, <3>3 DEF MovedFor
      <4>3. QED BY <3>1, <3>2, <4>1, <4>2
    <3>4. CASE ~(cmd.force.dash = sources[j].id /\ cmd.force.time > 0)
      <4>1. MovedFor(sources[j].id) = ran[sources[j].id]
        BY <3>1, <3>4 DEF MovedFor
      <4>2. QED BY <3>1, <3>2, <4>1
    <3>5. QED BY <3>3, <3>4
  <2>9. MovedFor(sources[v].id)' = ran[sources[v].id] + n /\ ran[sources[v].id] \in Nat
    BY <1>2, <2>1, <2>4, <2>6 DEF MovedFor
  <2>10. OneEach'
    BY <2>5 DEF DashInv, OneEach
  <2>11. AgesAgree'
    <3> SUFFICES ASSUME NEW j \in DashIndex
                 PROVE  age[sources[j].id] = AgeAt(sources'[j].timer, IF Visited(j)' THEN 0 ELSE dt)
      BY <2>1, <2>5 DEF AgesAgree
    <3>1. age[sources[j].id] = AgeAt(sources[j].timer, IF Visited(j) THEN 0 ELSE dt)
      BY DEF DashInv, AgesAgree
    <3>2. CASE j # v
      BY <2>5, <2>6, <3>1, <3>2
    <3>3. CASE j = v
      <4>1. DashTime - sources[v].timer + dt = DashTime - (sources[v].timer - dt) + 0
        BY <1>1, <2>2
      <4>2. QED BY <2>5, <2>6, <3>1, <3>3, <4>1 DEF AgeAt
    <3>4. QED BY <3>2, <3>3
  <2>12. ran[sources[v].id] <= DashTime - sources[v].timer
    BY <2>1, <2>2, <2>7 DEF DashInv, NeverLonger, Spent
  <2>13. NeverLonger'
    <3> SUFFICES ASSUME NEW j \in DashIndex
                 PROVE  MovedFor(sources[j].id)' <= Spent(sources'[j].timer)
      BY <2>5 DEF NeverLonger
    <3>1. CASE j # v
      <4>1. /\ MovedFor(sources[j].id)' \in Int /\ MovedFor(sources[j].id) \in Int
            /\ Spent(sources[j].timer) \in Int /\ MovedFor(sources[j].id) <= Spent(sources[j].timer)
        BY SMTT(30), <1>1, <1>2, <2>8, <3>1 DEF DashInv, NeverLonger, MovedFor, Spent
      <4>2. QED BY <2>5, <2>8, <3>1, <4>1
    <3>2. CASE j = v
      BY <1>1, <2>2, <2>3, <2>5, <2>9, <2>12, <3>2 DEF Spent
    <3>3. QED BY <3>1, <3>2
  <2>14. NeverShorter'
    <3> SUFFICES ASSUME NEW j \in DashIndex, sources[j].id \notin blocked
                 PROVE  \/ MovedFor(sources[j].id)' = Spent(sources'[j].timer)
                        \/ Acted(j)' /\ \E k \in DashIndex : k < j /\ Acted(k)'
      BY <2>1, <2>5 DEF NeverShorter
    <3>1. \/ MovedFor(sources[j].id) = Spent(sources[j].timer)
          \/ Acted(j) /\ \E k \in DashIndex : k < j /\ Acted(k)
      BY DEF DashInv, NeverShorter
    <3>2. Acted(j) => j > v
      BY <2>1 DEF Acted, Visited
    <3>3. CASE j = v
      <4>1. ran[sources[v].id] = DashTime - sources[v].timer
        BY <2>1, <2>7, <3>1, <3>3 DEF Spent
      <4>2. ran[sources[v].id] + n = Spent(sources[v].timer - dt)
        BY <1>1, <2>2, <2>3, <4>1 DEF Spent
      <4>3. QED BY <2>5, <2>9, <3>3, <4>2
    <3>4. CASE j # v /\ Acted(j)
      BY <2>7, <3>2, <3>4, <1>2
    <3>5. CASE j # v /\ ~Acted(j)
      BY <2>5, <2>8, <3>1, <3>5
    <3>6. QED BY <3>3, <3>4, <3>5
  <2>15. ForceIsADash'
    BY <2>3, <2>4, <2>5, <2>7 DEF ForceIsADash
  <2>16. QED BY <2>10, <2>11, <2>13, <2>14, <2>15 DEF DashInv
<1>8. ASSUME MoveInv, DashInv, EndDash, MoveInv' PROVE DashInv'
  <2> USE <1>8
  <2>1. PICK v \in DashIndex :
          /\ v = visit /\ phase = "build" /\ phase' = "build" /\ ~(sources[v].timer > 0)
          /\ sources' = [sources EXCEPT ![v] = Ended(@)] /\ visit' = v - 1
          /\ dt' = dt /\ cmd' = cmd /\ age' = age /\ ran' = ran /\ blocked' = blocked
    <3>1. visit # 1
      BY DEF EndDash, Source, MoveInv, ShapeInv, Input
    <3>2. visit \in DashIndex
      BY <1>2, <3>1 DEF EndDash, Visiting, DashIndex
    <3>3. ~(sources[visit].timer > 0)
      BY <1>2, <3>2 DEF EndDash, Source
    <3>4. QED BY <3>2, <3>3 DEF EndDash, Visiting, Source, tickVars, dashVars
  <2>2. sources[v].timer \in Int /\ v \in Nat /\ v \in DOMAIN sources /\ dt \in Nat
    BY <1>2
  <2>3. /\ DashIndex' = DashIndex
        /\ \A j \in DashIndex : /\ sources'[j].id = sources[j].id /\ sources'[j].timer = sources[j].timer
                                /\ j # v => sources'[j] = sources[j]
        /\ sources'[v].active = FALSE
    <3>1. \A j \in DashIndex : sources[j] \in SourceType /\ j \in DOMAIN sources
      BY <1>2 DEF DashIndex
    <3>2. sources[v] = [kind |-> sources[v].kind, id |-> sources[v].id, timer |-> sources[v].timer,
                        active |-> sources[v].active]
      BY <3>1 DEF SourceType
    <3>3. PICK s : s = Ended(sources[v])
      OBVIOUS
    <3>4. s = [kind |-> sources[v].kind, id |-> sources[v].id, timer |-> sources[v].timer, active |-> FALSE]
      BY <3>2, <3>3 DEF Ended
    <3>5. sources' = [sources EXCEPT ![v] = s]
      BY <2>1, <3>3
    <3>6. Len(sources') = Len(sources) /\ sources'[v] = s /\ \A j \in DashIndex : j # v => sources'[j] = sources[j]
      BY <1>2, <2>2, <3>1, <3>5
    <3>7. QED BY <3>4, <3>6 DEF DashIndex
  <2>4. /\ \A j \in DashIndex : j # v => (Visited(j)' <=> Visited(j))
        /\ Visited(v)' /\ ~Visited(v)
    BY <1>2, <2>1 DEF Visited
  <2>5. \A j \in DashIndex : Acted(j)' <=> Acted(j)
    <3>1. ~Acted(v) /\ ~Acted(v)'
      BY <2>3, <2>4 DEF Acted
    <3>2. \A j \in DashIndex : j # v => (Acted(j)' <=> Acted(j))
      BY <2>1, <2>3, <2>4 DEF Acted, Commanding
    <3>3. QED BY <3>1, <3>2
  <2>6. \A i : MovedFor(i)' = MovedFor(i)
    BY <2>1 DEF MovedFor, Commanding
  <2>7. OneEach' /\ NeverLonger'
    BY <2>3, <2>6 DEF DashInv, OneEach, NeverLonger
  <2>8. AgesAgree'
    <3> SUFFICES ASSUME NEW j \in DashIndex
                 PROVE  age[sources[j].id] = AgeAt(sources[j].timer, IF Visited(j)' THEN 0 ELSE dt)
      BY <2>1, <2>3 DEF AgesAgree
    <3>1. age[sources[j].id] = AgeAt(sources[j].timer, IF Visited(j) THEN 0 ELSE dt)
      BY DEF DashInv, AgesAgree
    <3>2. CASE j # v
      BY <2>4, <3>1, <3>2
    <3>3. CASE j = v
      <4>1. AgeAt(sources[v].timer, dt) = DashTime /\ AgeAt(sources[v].timer, 0) = DashTime
        BY <1>1, <2>1, <2>2 DEF AgeAt
      <4>2. QED BY <2>4, <3>1, <3>3, <4>1
    <3>4. QED BY <3>2, <3>3
  <2>9. NeverShorter'
    BY <2>1, <2>3, <2>5, <2>6 DEF DashInv, NeverShorter
  <2>10. ForceIsADash'
    BY <2>1, <2>3, <2>5 DEF DashInv, ForceIsADash, Commanding
  <2>11. QED BY <2>7, <2>8, <2>9, <2>10 DEF DashInv
<1>9. ASSUME MoveInv, DashInv, UpdateInput \/ CommandBuilt \/ MovePlayer, MoveInv' PROVE DashInv'
  <2> USE <1>9
  <2>1. sources' = sources /\ dt' = dt /\ age' = age /\ ran' = ran /\ blocked' = blocked /\ DashIndex' = DashIndex
    BY DEF UpdateInput, CommandBuilt, MovePlayer, tickVars, dashVars, DashIndex
  <2>2. cmd'.force = cmd.force /\ (Commanding' <=> Commanding)
    <3>1. cmd = [side |-> cmd.side, look |-> cmd.look, impulse |-> cmd.impulse, force |-> cmd.force]
      BY <1>2 DEF CmdType
    <3>2. CASE UpdateInput
      BY <3>1, <3>2 DEF UpdateInput, Commanding
    <3>3. CASE CommandBuilt \/ MovePlayer
      BY <3>3 DEF CommandBuilt, MovePlayer, Commanding
    <3>4. QED BY <3>2, <3>3
  <2>3. \A j \in DashIndex : Visited(j)' <=> Visited(j)
    <3>1. CASE UpdateInput
      <4>1. visit = 1
        <5>1. visit = 1 \/ visit \in DashIndex
          BY <1>2, <3>1 DEF UpdateInput, Visiting, DashIndex
        <5>2. visit \notin DashIndex
          BY <1>2, <3>1 DEF UpdateInput, Source
        <5>3. QED BY <5>1, <5>2
      <4>2. visit' = 0 /\ phase = "build" /\ phase' = "build"
        BY <3>1, <4>1 DEF UpdateInput, Visiting
      <4>3. QED BY <1>2, <4>1, <4>2 DEF Visited, DashIndex
    <3>2. CASE CommandBuilt \/ MovePlayer
      BY <1>2, <3>2 DEF CommandBuilt, MovePlayer, Visited, DashIndex
    <3>3. QED BY <3>1, <3>2
  <2>4. /\ \A j \in DashIndex : Acted(j)' <=> Acted(j)
        /\ \A i : MovedFor(i)' = MovedFor(i)
    BY <2>1, <2>2, <2>3 DEF Acted, MovedFor
  <2>5. OneEach' /\ NeverLonger' /\ NeverShorter'
    BY <2>1, <2>4 DEF DashInv, OneEach, NeverLonger, NeverShorter
  <2>6. AgesAgree'
    BY <2>1, <2>3 DEF DashInv, AgesAgree
  <2>7. ForceIsADash'
    BY <2>1, <2>2, <2>4 DEF DashInv, ForceIsADash
  <2>8. QED BY <2>5, <2>6, <2>7 DEF DashInv
<1>10. ASSUME MoveInv, DashInv, Motor, MoveInv' PROVE DashInv'
  <2> USE <1>10
  <2>1. /\ sources' = sources /\ dt' = dt /\ age' = age /\ DashIndex' = DashIndex
        /\ phase = "motor" /\ phase' = "collide" /\ Commanding /\ ~Commanding'
        /\ (MotorForced \/ (ran' = ran /\ blocked' = blocked /\ ~(cmd.force.time > 0)))
    BY DEF Motor, MotorForced, MotorFree, Forced, tickVars, dashVars, DashIndex, Commanding
  <2>2. \A j \in DashIndex : Visited(j) /\ Visited(j)' /\ ~Acted(j)'
    BY <2>1 DEF Visited, Acted
  <2>3. \A j \in DashIndex : MovedFor(sources[j].id)' = MovedFor(sources[j].id)
    <3> SUFFICES ASSUME NEW j \in DashIndex PROVE ran'[sources[j].id] + 0 = MovedFor(sources[j].id)
      BY <2>1 DEF MovedFor
    <3>1. sources[j].id \in DashId /\ ran[sources[j].id] \in Nat /\ ran \in [DashId -> Nat] /\ cmd.force.time \in Nat
      BY <1>2
    <3>2. CASE MotorForced
      <4>1. ran' = [ran EXCEPT ![cmd.force.dash] = ran[cmd.force.dash] + cmd.force.time]
        BY <3>2 DEF MotorForced
      <4>2. ran'[sources[j].id] = IF cmd.force.dash = sources[j].id THEN ran[sources[j].id] + cmd.force.time
                                  ELSE ran[sources[j].id]
        BY <3>1, <4>1
      <4>3. QED BY <2>1, <3>1, <4>2 DEF MovedFor
    <3>3. CASE ran' = ran /\ ~(cmd.force.time > 0)
      BY <2>1, <3>1, <3>3 DEF MovedFor
    <3>4. QED BY <2>1, <3>2, <3>3
  <2>4. NeverShorter'
    <3> SUFFICES ASSUME NEW j \in DashIndex, sources[j].id \notin blocked'
                 PROVE  MovedFor(sources[j].id)' = Spent(sources[j].timer)
      BY <2>1 DEF NeverShorter
    <3>1. CASE MotorForced
      <4>1. blocked' = blocked \cup Behind(sources)
        BY <3>1 DEF MotorForced
      <4>2. ~(Acted(j) /\ \E k \in DashIndex : k < j /\ Acted(k))
        <5> SUFFICES ASSUME Acted(j), NEW k \in DashIndex, k < j, Acted(k) PROVE FALSE
          OBVIOUS
        <5>1. /\ j \in DOMAIN sources /\ k \in 1..(j - 1) /\ j \in Nat
              /\ sources[j].kind = "dash" /\ sources[k].kind = "dash"
          BY <1>2 DEF DashIndex
        <5>2. HadTime(sources, j) /\ HadTime(sources, k)
          BY <5>1 DEF HadTime, Acted
        <5>3. sources[j].id \in Behind(sources)
          BY <5>1, <5>2 DEF Behind
        <5>4. QED BY <4>1, <5>3
      <4>3. sources[j].id \notin blocked
        BY <4>1
      <4>4. MovedFor(sources[j].id) = Spent(sources[j].timer)
        BY <4>2, <4>3 DEF DashInv, NeverShorter
      <4>5. QED BY <2>3, <4>4
    <3>2. CASE blocked' = blocked /\ ~(cmd.force.time > 0)
      <4>1. ~Acted(j)
        BY <3>2 DEF DashInv, ForceIsADash
      <4>2. QED BY <2>3, <3>2, <4>1 DEF DashInv, NeverShorter
    <3>3. QED BY <2>1, <3>1, <3>2
  <2>5. NeverLonger'
    BY <2>1, <2>3 DEF DashInv, NeverLonger
  <2>6. OneEach' /\ AgesAgree'
    BY <2>1, <2>2 DEF DashInv, OneEach, AgesAgree
  <2>7. ForceIsADash'
    BY <2>1, <2>2 DEF ForceIsADash
  <2>8. QED BY <2>4, <2>5, <2>6, <2>7 DEF DashInv
<1>11. ASSUME MoveInv, DashInv, TickGameplay, MoveInv' PROVE DashInv'
  <2> USE <1>11
  <2>1. phase = "gameplay" /\ phase' = "idle" /\ ~Commanding /\ ~Commanding'
        /\ \A j : Visited(j) /\ Visited(j)' /\ ~Acted(j) /\ ~Acted(j)'
    BY DEF TickGameplay, Commanding, Visited, Acted
  <2>2. \A i \in DashId : ran[i] + 0 = ran[i] /\ ran'[i] + 0 = ran'[i]
    BY SMTT(30), <1>2 DEF MoveInv, TypeOK, Ghosts
  <2>3. \A i \in DashId : MovedFor(i) = ran[i] /\ MovedFor(i)' = ran'[i]
    BY <2>1, <2>2 DEF MovedFor
  <2>4. CASE UNCHANGED << sources, dashVars >>
    <3>1. sources' = sources /\ age' = age /\ ran' = ran /\ blocked' = blocked /\ DashIndex' = DashIndex
      BY <2>4 DEF dashVars, DashIndex
    <3>2. OneEach' /\ AgesAgree' /\ ForceIsADash'
      BY <2>1, <3>1 DEF DashInv, OneEach, AgesAgree, ForceIsADash
    <3>3. NeverLonger' /\ NeverShorter'
      BY <1>2, <2>1, <2>3, <3>1 DEF DashInv, NeverLonger, NeverShorter
    <3>4. QED BY <3>2, <3>3 DEF DashInv
  <2>5. ASSUME NEW i \in DashId \ Dashes(sources), RequestDash(i) PROVE DashInv'
    <3>1. /\ age' = [age EXCEPT ![i] = 0] /\ ran' = [ran EXCEPT ![i] = 0] /\ blocked' = blocked \ {i}
          /\ sources' = Append(sources, Dash(i))
      BY <2>5 DEF RequestDash
    <3>2. PICK new \in DashIndex' :
            /\ new = Len(sources) + 1 /\ sources'[new].id = i /\ sources'[new].timer = DashTime
            /\ \A j \in DashIndex' : j # new => j \in DashIndex /\ sources'[j] = sources[j]
      <4>1. PICK d \in SourceType : d = Dash(i) /\ d.id = i /\ d.timer = DashTime
        <5>1. i \in 0..MaxDashes /\ DashTime \in Int
          BY <1>1 DEF DashId
        <5>2. PICK d : d = [kind |-> "dash", id |-> i, timer |-> DashTime, active |-> TRUE]
          OBVIOUS
        <5>3. d \in SourceType /\ d.id = i /\ d.timer = DashTime
          BY <5>1, <5>2 DEF SourceType
        <5>4. QED BY <5>2, <5>3 DEF Dash
      <4>2. /\ Len(sources') = Len(sources) + 1 /\ sources'[Len(sources) + 1] = d
            /\ \A j \in 1..Len(sources) : sources'[j] = sources[j]
        BY <1>2, <3>1, <4>1
      <4>3. Len(sources) + 1 \in DashIndex'
        BY <1>2, <4>2 DEF DashIndex
      <4>4. \A j \in DashIndex' : j # Len(sources) + 1 => j \in DashIndex /\ sources'[j] = sources[j]
        BY <1>2, <4>2 DEF DashIndex
      <4>5. QED BY <4>1, <4>2, <4>3, <4>4
    <3>3. \A j \in DashIndex : sources[j].id \in DashId /\ sources[j].id # i
      BY <1>2, <2>5 DEF Dashes
    <3>4. age'[i] = 0 /\ ran'[i] = 0 /\ \A k \in DashId : k # i => age'[k] = age[k] /\ ran'[k] = ran[k]
      BY <1>2, <3>1
    <3>5. OneEach'
      BY <3>2, <3>3 DEF DashInv, OneEach
    <3>6. AgesAgree'
      <4> SUFFICES ASSUME NEW j \in DashIndex' PROVE age'[sources'[j].id] = AgeAt(sources'[j].timer, 0)
        BY <2>1 DEF AgesAgree
      <4>1. CASE j = new
        <5>1. AgeAt(DashTime, 0) = 0
          BY <1>1 DEF AgeAt
        <5>2. QED BY <3>2, <3>4, <4>1, <5>1
      <4>2. CASE j # new
        BY <2>1, <3>2, <3>3, <3>4, <4>2 DEF DashInv, AgesAgree
      <4>3. QED BY <4>1, <4>2
    <3>7. ASSUME NEW j \in DashIndex'
          PROVE  /\ sources'[j].id \in DashId /\ ran'[sources'[j].id] <= Spent(sources'[j].timer)
                 /\ sources'[j].id \notin blocked' => ran'[sources'[j].id] = Spent(sources'[j].timer)
      <4>1. CASE j = new
        <5>1. Spent(DashTime) = 0 /\ 0 <= 0
          BY <1>1 DEF Spent
        <5>2. QED BY <3>2, <3>4, <4>1, <5>1
      <4>2. CASE j # new
        <5>1. /\ j \in DashIndex /\ sources'[j] = sources[j] /\ sources[j].id \in DashId /\ sources[j].id # i
              /\ ran'[sources[j].id] = ran[sources[j].id] /\ MovedFor(sources[j].id) = ran[sources[j].id]
          BY <2>3, <3>2, <3>3, <3>4, <3>7, <4>2
        <5>2. ran[sources[j].id] <= Spent(sources[j].timer)
          BY <5>1 DEF DashInv, NeverLonger
        <5>3. sources[j].id \notin blocked' => ran[sources[j].id] = Spent(sources[j].timer)
          BY <2>1, <3>1, <5>1 DEF DashInv, NeverShorter
        <5>4. QED BY <5>1, <5>2, <5>3
      <4>3. QED BY <4>1, <4>2
    <3>8. NeverLonger' /\ NeverShorter'
      BY <2>3, <3>7 DEF NeverLonger, NeverShorter
    <3>9. ForceIsADash'
      BY <2>1 DEF ForceIsADash
    <3>10. QED BY <3>5, <3>6, <3>8, <3>9 DEF DashInv
  <2>6. QED BY <2>4, <2>5 DEF TickGameplay
<1>12. ASSUME MoveInv, DashInv, UNCHANGED vars PROVE DashInv'
  BY <1>12 DEF vars, tickVars, dashVars, DashInv, OneEach, AgesAgree, NeverLonger, NeverShorter,
     ForceIsADash, DashIndex, Commanding, Visited, Acted, MovedFor
<1>13. MoveInv /\ DashInv /\ [Next]_vars /\ MoveInv' => DashInv'
  BY <1>4, <1>6, <1>7, <1>8, <1>9, <1>10, <1>11, <1>12 DEF Next, VisitSource
<1>14. QED BY <1>3, <1>13, MoveInvariant, PTL DEF Spec

\* A dash leaves the sources when its time is over, having moved the hero for
\* exactly that time, unless an older one was running; and never for longer.
THEOREM DashesRunTheirTime == Spec => DashRunsItsTime
<1> DEFINE Left == \A i \in Dashes(sources) \ Dashes(sources') :
                     /\ age[i] = DashTime
                     /\ ran[i] <= DashTime
                     /\ i \notin blocked => ran[i] = DashTime
<1>1. ASSUME MoveInv, DashInv, MoveInv', Next PROVE Left
  <2> SUFFICES ASSUME NEW i \in Dashes(sources) \ Dashes(sources')
               PROVE  /\ age[i] = DashTime
                      /\ ran[i] <= DashTime
                      /\ i \notin blocked => ran[i] = DashTime
    OBVIOUS
  <2> USE <1>1
  <2>1. /\ sources \in Seq(SourceType) /\ sources' \in Seq(SourceType) /\ DashTime \in Nat /\ DashTime > 0
        /\ dt \in Nat
    <3>1. DashTime \in Nat \ {0} /\ Deltas \subseteq Nat \ {0}
      BY MovementAssumption, Zenon
    <3>2. dt \in Deltas \cup {0}
      BY DEF MoveInv, TypeOK
    <3>3. QED BY <3>1, <3>2 DEF MoveInv, ShapeInv
  <2>2. PICK j \in DOMAIN sources : sources[j].kind = "dash" /\ sources[j].id = i
    BY DEF Dashes
  <2>3. \A k \in DOMAIN sources' : ~(sources'[k].kind = "dash" /\ sources'[k].id = i)
    BY DEF Dashes
  <2>4. j \in Nat /\ j \in DashIndex /\ Len(sources) \in Nat /\ sources[j].timer \in Int
        /\ sources[j].timer <= DashTime /\ i \in DashId
    <3>1. j \in 1..Len(sources) /\ Len(sources) \in Nat /\ sources[j] \in SourceType
      BY <2>1, <2>2
    <3>2. j # 1
      BY <2>2 DEF MoveInv, ShapeInv, Input
    <3>3. j \in 2..Len(sources)
      BY <3>1, <3>2
    <3>4. sources[j].id \in DashId /\ sources[j].timer <= DashTime
      BY <3>3 DEF MoveInv, ShapeInv
    <3>5. sources[j].timer \in Int
      BY <3>1 DEF SourceType
    <3>6. QED BY <2>2, <3>1, <3>3, <3>4, <3>5 DEF DashIndex
  <2>5. RemoveEnded /\ j = visit
    <3>1. sources' # sources
      BY <2>2, <2>3
    <3>2. ~UpdateDash /\ ~EndDash
      <4> SUFFICES ASSUME NEW s, sources' = [sources EXCEPT ![visit] = s],
                          s.kind = sources[visit].kind, s.id = sources[visit].id
                   PROVE  FALSE
        <5>1. ASSUME UpdateDash \/ EndDash
              PROVE  \E s : /\ sources' = [sources EXCEPT ![visit] = s]
                            /\ s.kind = sources[visit].kind /\ s.id = sources[visit].id
          <6>1. sources[visit] \in SourceType
            <7>1. visit \in 0..Len(sources) /\ visit > 0
              BY <5>1 DEF UpdateDash, EndDash, Visiting, MoveInv, TypeOK
            <7>2. visit \in 1..Len(sources)
              BY <2>4, <7>1
            <7>3. QED BY <2>1, <7>2
          <6>2. sources[visit] = [kind |-> sources[visit].kind, id |-> sources[visit].id,
                                  timer |-> sources[visit].timer, active |-> sources[visit].active]
            BY <6>1 DEF SourceType
          <6>3. CASE UpdateDash
            <7>1. PICK s : s = [sources[visit] EXCEPT !.timer = @ - dt]
              OBVIOUS
            <7>2. s = [kind |-> sources[visit].kind, id |-> sources[visit].id,
                       timer |-> sources[visit].timer - dt, active |-> sources[visit].active]
              BY <6>2, <7>1
            <7>3. sources' = [sources EXCEPT ![visit] = s]
              BY <6>3, <7>1 DEF UpdateDash
            <7>4. QED BY <7>2, <7>3
          <6>4. CASE EndDash
            <7>1. PICK s : s = [sources[visit] EXCEPT !.active = FALSE]
              OBVIOUS
            <7>2. s = [kind |-> sources[visit].kind, id |-> sources[visit].id,
                       timer |-> sources[visit].timer, active |-> FALSE]
              BY <6>2, <7>1
            <7>3. sources' = [sources EXCEPT ![visit] = s]
              BY <6>4, <7>1 DEF EndDash, Ended
            <7>4. QED BY <7>2, <7>3
          <6>5. QED BY <5>1, <6>3, <6>4
        <5>2. QED BY <5>1
      <4>1. DOMAIN sources' = DOMAIN sources /\ sources'[j] = IF j = visit THEN s ELSE sources[j]
        BY <2>1, <2>2
      <4>2. sources'[j].kind = "dash" /\ sources'[j].id = i
        BY <2>2, <4>1
      <4>3. QED BY <2>2, <2>3, <4>1, <4>2
    <3>3. ~TickGameplay
      <4> SUFFICES ASSUME NEW d \in DashId, sources' = Append(sources, Dash(d)) PROVE FALSE
        BY <3>1 DEF TickGameplay, RequestDash
      <4>1. PICK r : r = Dash(d)
        OBVIOUS
      <4>2. j \in DOMAIN sources' /\ sources'[j] = sources[j]
        BY <2>1, <2>2, <4>1
      <4>3. QED BY <2>2, <2>3, <4>2
    <3>4. RemoveEnded
      BY <3>1, <3>2, <3>3 DEF Next, VisitSource, BeginTick, UpdateInput, CommandBuilt, Motor,
         MotorForced, MotorFree, MovePlayer
    <3>5. visit \in 1..Len(sources) /\ sources' = RemoveAt(sources, visit)
      BY <2>4, <3>4 DEF RemoveEnded, Visiting, MoveInv, TypeOK
    <3>6. Len(sources') = Len(sources) - 1
          /\ \A k \in 1..(Len(sources) - 1) : sources'[k] = IF k < visit THEN sources[k] ELSE sources[k + 1]
      <4>1. sources \in Seq(SourceType)
        BY <2>1
      <4>2. QED BY <3>5, <4>1, Erased
    <3>7. CASE j < visit
      <4>1. j \in DOMAIN sources' /\ sources'[j] = sources[j]
        BY SMTT(20), <2>1, <2>2, <2>4, <3>5, <3>6, <3>7
      <4>2. QED BY <2>2, <2>3, <4>1
    <3>8. CASE j > visit
      <4>1. j - 1 \in DOMAIN sources' /\ sources'[j - 1] = sources[j]
        BY <2>1, <2>2, <2>4, <3>5, <3>6, <3>8
      <4>2. QED BY <2>2, <2>3, <4>1
    <3>9. QED BY <2>4, <3>4, <3>5, <3>7, <3>8
  <2>6. ~Visited(j) /\ ~Acted(j) /\ sources[j].timer <= 0
    <3>1. phase = "build" /\ ~sources[j].active
      BY <2>5 DEF RemoveEnded, Visiting, Source
    <3>2. QED BY <2>4, <2>5, <3>1 DEF MoveInv, ShapeInv, DashIndex, Visited, Acted
  <2>7. age[i] = DashTime
    BY <2>1, <2>2, <2>4, <2>6 DEF DashInv, AgesAgree, AgeAt
  <2>8. ran[i] \in Nat /\ cmd.force.time \in Nat
    BY <2>4 DEF MoveInv, TypeOK, ShapeInv, Ghosts, CmdType
  <2>9. MovedFor(i) = ran[i]
    <3>1. cmd.force.time = 0 \/ cmd.force.time > 0
      BY <2>8
    <3>2. ~(Commanding /\ cmd.force.time > 0 /\ cmd.force.dash = i)
      BY <2>2, <2>4, <2>6 DEF DashInv, ForceIsADash, OneEach
    <3>3. QED BY <2>8, <3>1, <3>2 DEF MovedFor
  <2>10. Spent(sources[j].timer) = DashTime
    BY <2>4, <2>6 DEF Spent
  <2>11. ran[i] <= DashTime
    BY <2>2, <2>4, <2>9, <2>10 DEF DashInv, NeverLonger
  <2>12. i \notin blocked => ran[i] = DashTime
    BY <2>2, <2>4, <2>6, <2>9, <2>10 DEF DashInv, NeverShorter
  <2>13. QED BY <2>7, <2>11, <2>12
<1>2. ASSUME MoveInv, DashInv, UNCHANGED vars PROVE Left
  BY <1>2 DEF vars
<1>3. MoveInv /\ DashInv /\ MoveInv' /\ [Next]_vars => [Left]_vars
  BY <1>1
<1>4. QED BY <1>3, DashInvariant, PTL DEF Spec, DashRunsItsTime, Left
=============================================================================
