---------------------------- MODULE HeroGameplay ----------------------------
(***************************************************************************)
(* HeroEntity::TickGameplay: one hero's weapon, its four abilities and the *)
(* arbiter that runs them.  A tick is: the weapon's own Tick, a snapshot   *)
(* of the weapon that the abilities read for the rest of the tick, then    *)
(* Arbiter::Tick, whose steps are those of AbilityArbiter joined with what *)
(* each ability does when it starts, runs and is cancelled.                *)
(*                                                                         *)
(* Durations are whole numbers of one time unit; a tick lasts one of Dts.  *)
(***************************************************************************)
EXTENDS Integers, Sequences

CONSTANTS
  MagSize, FireInterval, ReloadSec,   \* WeaponConfig
  HitPoint, PostHit,                  \* MeleeAbility: _hitPointSec, _postHitHoldSec
  ReloadPoint, PostReload,            \* ReloadAbility: _reloadPointSec, _postReloadHoldSec
  Dts                                 \* tick lengths the main loop measures

\* In the code the ability refills at 0.6 s and the weapon's own timer would
\* at 1.5 s, so the ability's point comes first.
ASSUME HeroAssumption ==
  /\ MagSize \in Nat \ {0} /\ FireInterval \in Nat \ {0} /\ ReloadSec \in Nat \ {0}
  /\ HitPoint \in Nat \ {0} /\ PostHit \in Nat \ {0}
  /\ ReloadPoint \in Nat \ {0} /\ PostReload \in Nat \ {0}
  /\ ReloadPoint <= ReloadSec
  /\ Dts # {} /\ Dts \subseteq Nat \ {0}

\* The constructor's order of AbilitySet::Add.
Dash == 1
Fire == 2
Melee == 3
Reload == 4
HeroAbility == 1..4

Movement == 1
WeaponOp == 2
AbilitySlot == 3

\* ResourcePriority of each ability on the three bits; it is positive on the
\* bit ClaimedResources() names and 0 elsewhere.
DashPriority   == << 50, 0, 0 >>
FirePriority   == << 0, 20, 0 >>

\* Bug: melee does not outrank what holds the weapon.
MeleePriority_Ties == << 0, 20, 0 >>
MeleePriority == << 0, 100, 0 >>

\* Bug: a reload may cut a burst short.
ReloadPriority_Wins == << 0, 30, 0 >>
ReloadPriority == << 0, 20, 0 >>

HeroClaimed   == << {Movement}, {WeaponOp}, {WeaponOp}, {WeaponOp} >>
HeroPriority  == << DashPriority, FirePriority, MeleePriority, ReloadPriority >>

\* Dash's task is a scope on the third bit, asked for with priority 100.
HeroScopes    == << {AbilitySlot}, {}, {}, {} >>
HeroScopePrio == [a \in HeroAbility |-> [r \in 1..3 |-> 100]]

VARIABLES
  active, actives, owner, claimedMask, held, phase, cursor, cur, self,
  wants, tried, ticked, preempted,                               \* the arbiter
  magAmmo, isReloading, reloadRemain, fireCooldown, pendingSpawns, \* the weapon
  keys,        \* what this tick's input frame answers: keys held or pressed
  dt,          \* ctx.dt
  snap,        \* ctx.weapon, read before the abilities run
  task,        \* Melee, Reload -> their SeqTask: index _i and the wait's _remain
  dashStep,    \* how far Dash's body has got: "enter", "dashed", "left"
  meleeHits,   \* ghost: hits emitted by the current or last melee
  sinceShot    \* ghost: time since the last shot, counted up to FireInterval

A == INSTANCE AbilityArbiter
       WITH NumAbilities <- 4, NumResources <- 3, Claimed <- HeroClaimed,
            Priority <- HeroPriority, ScopeBits <- HeroScopes,
            ScopePrio <- HeroScopePrio

W == INSTANCE Weapon

arbiterVars == << active, actives, owner, claimedMask, held, phase, cursor, cur, self,
                  wants, tried, ticked, preempted >>
weaponVars  == << magAmmo, isReloading, reloadRemain, fireCooldown, pendingSpawns >>
taskVars    == << task, dashStep, meleeHits >>
frameVars   == << keys, dt, snap >>
vars == << arbiterVars, weaponVars, taskVars, frameVars, sinceShot >>

Key == {"shift", "fire", "hit", "reload"}   \* fire: held; the others: pressed

-----------------------------------------------------------------------------
(* Which abilities want to start, and may (WantsStart /\ CanStart).         *)

\* Bug: an empty magazine does not start a reload by itself.
ReloadWanted_KeyOnly(k, s) ==
  ~s.reloading /\ s.ammo < MagSize /\ "reload" \in k

ReloadWanted(k, s) ==
  ~s.reloading /\ s.ammo < MagSize /\ (s.ammo = 0 \/ "reload" \in k)

DashWanted(k)    == "shift" \in k
FireWanted(k, s) == "fire" \in k /\ s.ammo # 0
MeleeWanted(k)   == "hit" \in k

Wanted(k, s) ==
  {a \in HeroAbility : \/ a = Dash   /\ DashWanted(k)
                       \/ a = Fire   /\ FireWanted(k, s)
                       \/ a = Melee  /\ MeleeWanted(k)
                       \/ a = Reload /\ ReloadWanted(k, s)}

-----------------------------------------------------------------------------
(* SeqTask of Wait, CallFunc, Wait: index 1, 2, 3, and 4 when it is over.   *)

Waiting(i, sec) == [i |-> i, remain |-> sec]

\* Bug: the sequence goes from the first wait straight to the last.
SeqAfter_SkipCall(t, hold) ==
  CASE t.i = 1 -> IF t.remain <= dt THEN Waiting(3, hold) ELSE Waiting(1, t.remain - dt)
    [] t.i = 2 -> Waiting(3, hold)
    [] t.i = 3 -> IF t.remain <= dt THEN Waiting(4, 0) ELSE Waiting(3, t.remain - dt)
    [] OTHER   -> t

\* One Tick of the sequence: it ticks one task, and when that is done starts
\* the next; a wait that ends keeps no remainder.
SeqAfter(t, hold) ==
  CASE t.i = 1 -> IF t.remain <= dt THEN Waiting(2, 0) ELSE Waiting(1, t.remain - dt)
    [] t.i = 2 -> Waiting(3, hold)
    [] t.i = 3 -> IF t.remain <= dt THEN Waiting(4, 0) ELSE Waiting(3, t.remain - dt)
    [] OTHER   -> t

\* CallFuncTask runs its function in Start, when the first wait ends.
CallsNow(a, next) == task[a].i = 1 /\ next.i = 2

-----------------------------------------------------------------------------
(* A tick begins.                                                           *)

Init ==
  /\ A!Init /\ W!Init
  /\ keys = {} /\ dt = 0 /\ snap = [ammo |-> MagSize, reloading |-> FALSE]
  /\ task = [a \in {Melee, Reload} |-> Waiting(4, 0)]
  /\ dashStep = "enter" /\ meleeHits = 0 /\ sinceShot = FireInterval

\* weapon.Tick, then the snapshot, then Arbiter::Tick begins.
BeginTick ==
  \E k \in SUBSET Key, d \in Dts :
    /\ W!Tick(d)
    /\ keys' = k /\ dt' = d
    /\ snap' = [ammo |-> magAmmo', reloading |-> isReloading']
    /\ A!BeginTick(Wanted(k, snap'))
    /\ sinceShot' = IF sinceShot + d < FireInterval THEN sinceShot + d ELSE FireInterval
    /\ UNCHANGED taskVars

TickNext ==
  /\ A!TickNext
  /\ dashStep' = "enter"
  /\ UNCHANGED << weaponVars, frameVars, task, meleeHits, sinceShot >>

-----------------------------------------------------------------------------
(* The bodies of the abilities.                                             *)

\* DashTask::Start, inside the scope: requestDash.
DashAcquires ==
  /\ phase = "body" /\ cur = Dash /\ dashStep = "enter"
  /\ A!AcquireFree(AbilitySlot)
  /\ dashStep' = "dashed"
  /\ UNCHANGED << weaponVars, frameVars, task, meleeHits, sinceShot >>

DashLeavesScope ==
  /\ phase = "body" /\ cur = Dash /\ dashStep = "dashed"
  /\ A!ReleaseScope(AbilitySlot)
  /\ dashStep' = "left"
  /\ UNCHANGED << weaponVars, frameVars, task, meleeHits, sinceShot >>

\* The task succeeds; or, had the bit been refused, fails: the ability ends.
DashEnds ==
  /\ phase = "body" /\ cur = Dash
  /\ dashStep = "left" \/ (dashStep = "enter" /\ A!Busy(AbilitySlot))
  /\ A!FinishBody(TRUE)
  /\ UNCHANGED << weaponVars, frameVars, taskVars, sinceShot >>

\* Fire stops when the key is up, or when the snapshot shows an empty
\* magazine and no reload.
FireStops == "fire" \notin keys \/ (snap.ammo = 0 /\ ~snap.reloading)

FireBody ==
  /\ phase = "body" /\ cur = Fire
  /\ A!FinishBody(FireStops)
  /\ IF FireStops THEN UNCHANGED << weaponVars, sinceShot >>
     ELSE /\ W!TryFire
          /\ sinceShot' = IF magAmmo' < magAmmo THEN 0 ELSE sinceShot
  /\ UNCHANGED << frameVars, taskVars >>

MeleeBody ==
  /\ phase = "body" /\ cur = Melee
  /\ LET next == SeqAfter(task[Melee], PostHit)
     IN /\ task' = [task EXCEPT ![Melee] = next]
        /\ meleeHits' = IF CallsNow(Melee, next) THEN meleeHits + 1 ELSE meleeHits
        /\ A!FinishBody(next.i = 4)
  /\ UNCHANGED << weaponVars, frameVars, dashStep, sinceShot >>

ReloadBody ==
  /\ phase = "body" /\ cur = Reload
  /\ LET next == SeqAfter(task[Reload], PostReload)
     IN /\ task' = [task EXCEPT ![Reload] = next]
        /\ IF CallsNow(Reload, next) THEN W!CompleteReload ELSE UNCHANGED weaponVars
        /\ A!FinishBody(next.i = 4)
  /\ UNCHANGED << frameVars, dashStep, meleeHits, sinceShot >>

EndStage1 ==
  /\ A!EndStage1
  /\ UNCHANGED << weaponVars, frameVars, taskVars, sinceShot >>

-----------------------------------------------------------------------------
(* Starting and cancelling.                                                 *)

TryCandidate ==
  /\ \E a \in HeroAbility : A!TryCandidate(a)
  /\ UNCHANGED << weaponVars, frameVars, taskVars, sinceShot >>

\* Bug: a preempted reload is dropped without telling the weapon.
CancelConflict_NoWeapon ==
  /\ A!CancelConflict
  /\ UNCHANGED << weaponVars, frameVars, taskVars, sinceShot >>

\* ReloadAbility::Cancel tells the weapon; the other abilities' Cancel
\* touches nothing outside them.
CancelConflict ==
  /\ A!CancelConflict
  /\ IF Reload \in active \ active' THEN W!CancelReload ELSE UNCHANGED weaponVars
  /\ UNCHANGED << frameVars, taskVars, sinceShot >>

\* ReloadAbility::Start begins the weapon's reload; a TaskAbility builds its
\* task anew.
StartCandidate ==
  /\ A!StartCandidate
  /\ task' = CASE cur = Melee  -> [task EXCEPT ![Melee]  = Waiting(1, HitPoint)]
               [] cur = Reload -> [task EXCEPT ![Reload] = Waiting(1, ReloadPoint)]
               [] OTHER        -> task
  /\ meleeHits' = IF cur = Melee THEN 0 ELSE meleeHits
  /\ IF cur = Reload THEN W!BeginReload ELSE UNCHANGED weaponVars
  /\ UNCHANGED << frameVars, dashStep, sinceShot >>

\* Arbiter::Tick returns, and GameServer::Tick collects the projectiles.
\* The frame and the snapshot are locals of the tick and are gone.
EndTick ==
  /\ A!EndTick
  /\ W!CollectPendingSpawns
  /\ keys' = {} /\ dt' = 0 /\ snap' = [ammo |-> MagSize, reloading |-> FALSE]
  /\ UNCHANGED << taskVars, sinceShot >>

TickStep ==
  \/ TickNext
  \/ DashAcquires \/ DashLeavesScope \/ DashEnds
  \/ FireBody \/ MeleeBody \/ ReloadBody
  \/ EndStage1
  \/ TryCandidate \/ CancelConflict \/ StartCandidate
  \/ EndTick

Next == BeginTick \/ TickStep

Spec == Init /\ [][Next]_vars

\* The main loop calls GameServer::Tick for ever, with time passing between
\* two calls, and every call returns.  The player owes nothing: which keys a
\* tick finds is never subject to fairness.
FairSpec == Spec /\ WF_vars(BeginTick) /\ WF_vars(TickStep)

-----------------------------------------------------------------------------
(* Properties.                                                              *)

TypeOK ==
  /\ A!TypeOK
  /\ magAmmo \in 0..MagSize /\ isReloading \in BOOLEAN
  /\ reloadRemain \in 0..ReloadSec /\ fireCooldown \in 0..FireInterval
  /\ pendingSpawns \in 0..1
  /\ keys \subseteq Key /\ dt \in Dts \cup {0}
  /\ snap \in [ammo : 0..MagSize, reloading : BOOLEAN]
  /\ task \in [{Melee, Reload} -> [i : 1..4, remain : Nat]]
  /\ dashStep \in {"enter", "dashed", "left"}
  /\ meleeHits \in Nat /\ sinceShot \in 0..FireInterval

\* Outside stage 1 the weapon is reloading exactly while the reload ability
\* is running and has not reached its refill point.  The two keep timers of
\* their own (1.5 s and 0.6 s), a melee may abandon the ability, and the
\* weapon's Tick may finish the reload behind the ability's back; a weapon
\* left reloading alone would refuse to fire, a reload without it would
\* never refill.
ReloadInStep ==
  phase \in {"idle", "scan", "start"} =>
    (isReloading <=> Reload \in active /\ task[Reload].i = 1)

\* The weapon slot as WeaponSlot sees it.  A candidate has the slot from the
\* moment the arbiter has cleared it of everything else.
WeaponAbility == {Fire, Melee, Reload}
SlotTaken == phase = "start" /\ active \cap WeaponAbility = {}
HasSlot(a) == a \in active \/ (SlotTaken /\ cur = a)

Slot == INSTANCE WeaponSlot
  WITH op <- IF HasSlot(Fire) THEN "fire" ELSE IF HasSlot(Melee) THEN "melee"
             ELSE IF HasSlot(Reload) THEN "reload" ELSE "free",
       ammo <- magAmmo,
       loading <- isReloading \/ (SlotTaken /\ cur = Reload)

\* Every step of a tick is a step of the weapon slot or leaves it alone: the
\* abilities never take the weapon from one another except for a melee, and
\* rounds and refills happen only in their own ability's time.
ImplementsSlot == Slot!Spec

\* A press is answered in the tick that sees it, whatever else runs.  The dash
\* starts exactly when it is pressed, and has requested its movement before it
\* ends: Dash holds Movement only until the next tick, and its scope's bit is
\* always free.  The melee outranks whatever holds the weapon.
PressesAnswered ==
  [][/\ phase = "scan" /\ phase' = "idle" =>
          /\ Dash \in active' <=> "shift" \in keys
          /\ "hit" \in keys => Melee \in active'
     /\ Dash \in active \ active' => dashStep = "left"]_vars

\* Every melee strikes exactly once before it is over, for any tick lengths:
\* nothing cancels it, and its hit is neither skipped by a long tick nor
\* emitted twice.
MeleeStrikesOnce == [][(Melee \in active \ active') => meleeHits = 1]_vars

\* Two shots are at least the fire interval apart, through key releases,
\* melees and reloads in between.
ShotSpacing == [][magAmmo' < magAmmo => sinceShot >= FireInterval]_vars

\* What the arbiter promises in general only when nothing is preempted at run
\* time, it promises always for this table of abilities: every running
\* ability gets its body run in every tick, and a scope that is left holds
\* nothing.
ArbiterNeverSkips == A!AllActivesTicked /\ A!LeftScopesFree

\* A player who stops striking gets a full magazine after emptying one: the
\* reload starts by itself, and only a melee can put it off.
EmptyMagazineRefilled ==
  (<>[](Melee \notin active)) => [](magAmmo = 0 => <>(magAmmo = MagSize))
=============================================================================
