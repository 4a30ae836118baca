------------------------------ MODULE Movement ------------------------------
(***************************************************************************)
(* A hero's movement: the sources of MovementSourceCollection, the command *)
(* they build, CharacterMotor, and what KCC makes of it.  A tick of        *)
(* GameServer builds the input frame, runs HeroCore::TickMovement and      *)
(* kcc::MovePlayer, and then the gameplay, which may ask for a dash that   *)
(* the next tick's movement sees first.                                    *)
(*                                                                         *)
(* Lengths, times and angles are whole units.  The world is a walkable     *)
(* floor and a ceiling, wide enough for everything sideways, which is one  *)
(* axis; what other worlds do to a displacement is module KCC.  Position   *)
(* is the height above the floor.                                          *)
(***************************************************************************)
EXTENDS Integers, SequencesExt, FiniteSetsExt

CONSTANTS
  Deltas,        \* lengths of a tick; Tick returns at once for none
  Aims,          \* yaw the client sends
  FullTurn,      \* 360 degrees
  DashTime,      \* _dashDuration
  DashSpeed,     \* _dashSpeed
  BaseSpeed,     \* _baseMoveSpeed
  JumpSpeed,     \* _jumpSpeed
  Gravity,
  Terminal,      \* downward speed past which gravity stops pulling
  AccelGround, DecelGround, AccelAir, DecelAir,
  MinMove,       \* a displacement up to this long is none to MoveCapsule
  SnapDistance, SnapDistanceAir,
  Ceiling,       \* room above the hero's head when it stands
  MaxDashes      \* bound: dash sources at once

ASSUME MovementAssumption ==
  /\ Deltas \subseteq Nat \ {0} /\ Deltas # {} /\ Aims \subseteq Int
  /\ FullTurn \in Nat \ {0} /\ DashTime \in Nat \ {0} /\ MaxDashes \in Nat
  /\ \A n \in {DashSpeed, BaseSpeed, JumpSpeed, Gravity, Terminal, AccelGround, DecelGround,
               AccelAir, DecelAir, MinMove, SnapDistance, SnapDistanceAir, Ceiling} : n \in Nat
  /\ JumpSpeed > 0

VARIABLES
  phase,     \* of a tick: "idle", "build", "motor", "collide", "gameplay"
  dt,        \* length of this tick
  frame,     \* inputFrame: [jump (GetKeyDown), walk (moveX), aim (yaw)]
  sources,   \* _sources
  visit,     \* the loop of BuildCommand: index of the next source
  cmd,       \* the MovementCommand
  want,      \* desiredDisplacement: [side, up]
  yaw, velSide, velUp, height, grounded,  \* PlayerState
  age,       \* ghost: dash -> time since it was asked for, up to DashTime
  ran,       \* ghost: dash -> time it has moved the hero for
  blocked,   \* ghost: dashes that ran while an older one did
  lift       \* ghost: this tick's jump was pressed on the ground, not in a dash

tickVars  == << dt, frame >>
bodyVars  == << yaw, velSide, velUp >>
placeVars == << height, grounded >>
dashVars  == << age, ran, blocked >>
vars == << phase, tickVars, sources, visit, cmd, want, bodyVars, placeVars, dashVars, lift >>

DashId == 1..MaxDashes

Input == [kind |-> "input", id |-> 0, timer |-> 0, active |-> TRUE]
Dash(i) == [kind |-> "dash", id |-> i, timer |-> DashTime, active |-> TRUE]

NoForce  == [time |-> 0, dash |-> 0]
EmptyCmd == [side |-> 0, look |-> 0, impulse |-> 0, force |-> NoForce]
NoInput  == [jump |-> FALSE, walk |-> 0, aim |-> 0]

Dashes(s)  == {s[i].id : i \in {j \in DOMAIN s : s[j].kind = "dash"}}
Running(s) == \E i \in DOMAIN s : s[i].timer > 0

-----------------------------------------------------------------------------
\* handleJoinRequest makes the hero and gives it the network's source.
Init ==
  /\ phase = "idle" /\ dt = 0 /\ frame = NoInput
  /\ sources = << Input >> /\ visit = 0 /\ cmd = EmptyCmd
  /\ want = [side |-> 0, up |-> 0]
  /\ yaw = 0 /\ velSide = 0 /\ velUp = 0
  /\ height \in 0..Ceiling /\ grounded = FALSE
  /\ age = [i \in DashId |-> 0] /\ ran = [i \in DashId |-> 0] /\ blocked = {}
  /\ lift = FALSE

\* GameServer::Tick: the frame of this tick, and an empty command.
BeginTick ==
  /\ phase = "idle"
  /\ dt' \in Deltas
  /\ frame' \in [jump : BOOLEAN, walk : {-1, 0, 1}, aim : Aims]
  /\ cmd' = EmptyCmd /\ visit' = Len(sources)
  /\ age' = [i \in DashId |-> Min({age[i] + dt', DashTime})]
  /\ lift' = (frame'.jump /\ grounded /\ ~Running(sources))
  /\ phase' = "build"
  /\ UNCHANGED << sources, want, bodyVars, placeVars, ran, blocked >>

-----------------------------------------------------------------------------
(* BuildCommand: from the last source to the first.                         *)

Visiting == phase = "build" /\ visit > 0
Source   == sources[visit]

\* A source that has ended is erased; what stands behind it was visited.
RemoveEnded ==
  /\ Visiting /\ ~Source.active
  /\ sources' = RemoveAt(sources, visit)
  /\ visit' = visit - 1
  /\ UNCHANGED << phase, tickVars, cmd, want, bodyVars, placeVars, dashVars, lift >>

\* Bug: the whole tick, however little of the dash is left.
DashStep_WholeTick == dt
DashStep == Min({dt, Source.timer})

\* DashMovementSource::UpdateSource with time left: it overwrites what a
\* younger dash wanted.
UpdateDash ==
  /\ Visiting /\ Source.kind = "dash" /\ Source.active /\ Source.timer > 0
  /\ cmd' = [cmd EXCEPT !.force = [time |-> DashStep, dash |-> Source.id]]
  /\ sources' = [sources EXCEPT ![visit].timer = @ - dt]
  /\ visit' = visit - 1
  /\ UNCHANGED << phase, tickVars, want, bodyVars, placeVars, dashVars, lift >>

\* Bug: a dash that is over stays active.
Ended_Never(s) == s
Ended(s) == [s EXCEPT !.active = FALSE]

\* With none left it ends; the next BuildCommand erases it.
EndDash ==
  /\ Visiting /\ Source.kind = "dash" /\ Source.active /\ Source.timer <= 0
  /\ sources' = [sources EXCEPT ![visit] = Ended(@)]
  /\ visit' = visit - 1
  /\ UNCHANGED << phase, tickVars, cmd, want, bodyVars, placeVars, dashVars, lift >>

\* NetworkInputMovementSource::UpdateSource; the sensitivities are 1.
UpdateInput ==
  /\ Visiting /\ Source.kind = "input"
  /\ cmd' = [cmd EXCEPT !.side = @ + frame.walk * BaseSpeed,
                        !.look = @ + (frame.aim - yaw),
                        !.impulse = @ + IF grounded /\ frame.jump THEN JumpSpeed ELSE 0]
  /\ visit' = visit - 1
  /\ UNCHANGED << phase, tickVars, sources, want, bodyVars, placeVars, dashVars, lift >>

CommandBuilt ==
  /\ phase = "build" /\ visit = 0
  /\ phase' = "motor"
  /\ UNCHANGED << tickVars, sources, visit, cmd, want, bodyVars, placeVars, dashVars, lift >>

-----------------------------------------------------------------------------
(* CharacterMotor::Step.                                                    *)

Abs(n) == IF n < 0 THEN -n ELSE n

\* Bug: the last step is as long as the others.
MoveTowards_Past(v, goal, most) == IF v = goal THEN goal ELSE IF v < goal THEN v + most ELSE v - most

MoveTowards(v, goal, most) ==
  IF Abs(goal - v) <= most THEN goal ELSE IF v < goal THEN v + most ELSE v - most

\* Bug: the yaw is taken as it comes.
Turned_Raw(y) == y

\* One turn back, if it has left the circle.
Turned(y) == IF y > FullTurn THEN y - FullTurn ELSE IF y < 0 THEN y + FullTurn ELSE y

Accel == IF cmd.side # 0 THEN (IF grounded THEN AccelGround ELSE AccelAir)
                         ELSE (IF grounded THEN DecelGround ELSE DecelAir)

Forced == cmd.force.time > 0

Weight(v) == IF ~grounded /\ v > -Terminal THEN v - Gravity * dt ELSE v

Resting(v) == IF grounded /\ v <= 0 THEN 0 ELSE v

\* Ghost: dashes that had time in this tick, behind an older one that had.
HadTime(s, i) == s[i].kind = "dash" /\ s[i].active /\ s[i].timer + dt > 0
Behind(s) == {s[i].id : i \in {j \in DOMAIN s : /\ HadTime(s, j)
                                                /\ \E k \in 1..(j - 1) : HadTime(s, k)}}

\* A forced displacement is the whole displacement, and kills the velocity.
MotorForced ==
  /\ phase = "motor" /\ Forced
  /\ yaw' = Turned(yaw + cmd.look)
  /\ velSide' = 0 /\ velUp' = 0
  /\ want' = [side |-> DashSpeed * cmd.force.time, up |-> 0]
  /\ ran' = [ran EXCEPT ![cmd.force.dash] = @ + cmd.force.time]
  /\ blocked' = blocked \cup Behind(sources)
  /\ phase' = "collide"
  /\ UNCHANGED << tickVars, sources, visit, cmd, placeVars, age, lift >>

MotorFree ==
  /\ phase = "motor" /\ ~Forced
  /\ yaw' = Turned(yaw + cmd.look)
  /\ velSide' = MoveTowards(velSide, cmd.side, Accel * dt)
  /\ velUp' = Weight(Resting(velUp) + cmd.impulse)
  /\ want' = [side |-> velSide' * dt, up |-> velUp' * dt]
  /\ phase' = "collide"
  /\ UNCHANGED << tickVars, sources, visit, cmd, placeVars, dashVars, lift >>

-----------------------------------------------------------------------------
(* kcc::MovePlayer between a floor and a ceiling, and the gameplay.         *)

Tiny(d) == d.side * d.side + d.up * d.up <= MinMove * MinMove

Moved == IF Tiny(want) THEN height ELSE Max({0, Min({Ceiling, height + want.up})})
Reach == IF grounded THEN SnapDistance ELSE SnapDistanceAir

\* Bug: a hero that goes up is drawn to the ground it leaves.
Snaps_Rising == Moved < Reach

Snaps == want.up <= 0 /\ Moved < Reach

\* MoveCapsule, whose hit on the floor or the ceiling ends the step, and
\* DoGroundSnap.  The velocity is not told what was hit.
MovePlayer ==
  /\ phase = "collide"
  /\ height' = IF Snaps THEN 0 ELSE Moved
  /\ grounded' = Snaps
  /\ phase' = "gameplay"
  /\ UNCHANGED << tickVars, sources, visit, cmd, want, bodyVars, dashVars, lift >>

\* TickGameplay; DashTask asks for a dash at most once in a tick.
RequestDash(i) ==
  /\ sources' = Append(sources, Dash(i))
  /\ age' = [age EXCEPT ![i] = 0] /\ ran' = [ran EXCEPT ![i] = 0]
  /\ blocked' = blocked \ {i}

TickGameplay ==
  /\ phase = "gameplay"
  /\ \/ UNCHANGED << sources, dashVars >>
     \/ \E i \in DashId \ Dashes(sources) :
          /\ \A j \in DashId \ Dashes(sources) : i <= j
          /\ RequestDash(i)
  /\ dt' = 0 /\ frame' = NoInput /\ cmd' = EmptyCmd /\ lift' = FALSE
  /\ want' = [side |-> 0, up |-> 0]
  /\ phase' = "idle"
  /\ UNCHANGED << visit, bodyVars, placeVars >>

VisitSource == RemoveEnded \/ UpdateDash \/ EndDash \/ UpdateInput
Motor == MotorForced \/ MotorFree

Next ==
  \/ BeginTick \/ VisitSource \/ CommandBuilt
  \/ Motor \/ MovePlayer \/ TickGameplay

Spec == Init /\ [][Next]_vars

\* The main loop calls Tick for ever, with a dt above zero since it sleeps.
FairSpec == Spec /\ WF_vars(Next)

-----------------------------------------------------------------------------
(* Properties.                                                              *)

Ghosts ==
  /\ age \in [DashId -> 0..DashTime] /\ ran \in [DashId -> Nat]
  /\ blocked \subseteq DashId /\ lift \in BOOLEAN

\* Types.  The bounds say that nothing adds up: walking never exceeds the base
\* speed, whatever the accelerations and the tick; no jump is added to another;
\* a fall passes the terminal speed by one tick's pull at most.
TypeOK ==
  /\ phase \in {"idle", "build", "motor", "collide", "gameplay"}
  /\ dt \in Deltas \cup {0}
  /\ frame \in [jump : BOOLEAN, walk : {-1, 0, 1}, aim : Aims \cup {0}]
  /\ \A i \in DOMAIN sources :
       sources[i] = Input \/ /\ sources[i].kind = "dash" /\ sources[i].id \in DashId
                             /\ sources[i].timer \in Int /\ sources[i].timer <= DashTime
  /\ visit \in 0..Len(sources)
  /\ velSide \in -BaseSpeed..BaseSpeed
  /\ velUp <= JumpSpeed
  /\ \E d \in Deltas : velUp >= -(Terminal + Gravity * d)
  /\ height \in 0..Ceiling /\ grounded \in BOOLEAN
  /\ Ghosts

\* A dash leaves the sources only when its time is over, and has then moved
\* the hero for exactly that time, in ticks of any length, unless an older dash
\* was still running, which always goes first; and never for longer.
DashRunsItsTime ==
  [][\A i \in Dashes(sources) \ Dashes(sources') :
       /\ age[i] = DashTime
       /\ ran[i] <= DashTime
       /\ i \notin blocked => ran[i] = DashTime]_vars

\* A jump pressed on the ground lifts the hero in that tick, once and with the
\* speed of one jump, and ground is not given back to a hero that rises; a press
\* in the air or in a dash is spent and never lifts it later.
JumpAnswered ==
  [][/\ phase = "motor" /\ phase' = "collide" =>
          IF lift THEN velUp' = JumpSpeed ELSE velUp' <= Max({velUp, 0})
     /\ phase = "collide" /\ velUp > 0 => ~grounded']_vars

\* Although the source sends differences, which the motor adds up and turns
\* back by one turn, the hero looks where the client says after every tick,
\* dashing or not, within the circle unless the client is a turn outside it.
LookFollowsAim ==
  [][phase = "motor" /\ phase' = "collide" =>
       /\ (yaw' - frame.aim) % FullTurn = 0
       /\ frame.aim \in -FullTurn..2 * FullTurn => yaw' \in 0..FullTurn]_vars

\* What goes up comes down unless it dashes, although short displacements are
\* dropped and a ceiling does not stop the velocity; and every dash ends.
MovementSettles ==
  /\ ~grounded ~> (grounded \/ Running(sources))
  /\ \A i \in DashId : i \in Dashes(sources) ~> i \notin Dashes(sources)
=============================================================================
