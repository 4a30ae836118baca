------------------------------- MODULE Weapon -------------------------------
(***************************************************************************)
(* WeaponSystem (src/server/gameplay/weapon): magazine, fire cooldown and  *)
(* reload timer of one hero.  Each operation is one public method and      *)
(* keeps its early returns as "nothing changes".  Durations are whole      *)
(* numbers of one time unit.                                               *)
(***************************************************************************)
EXTENDS Integers

CONSTANTS
  MagSize,       \* WeaponConfig::magSize
  FireInterval,  \* fireIntervalSec
  ReloadSec      \* reloadSec

VARIABLES
  magAmmo,        \* WeaponState
  isReloading,
  reloadRemain,
  fireCooldown,
  pendingSpawns   \* how many entries _pendingSpawns holds

wvars == << magAmmo, isReloading, reloadRemain, fireCooldown, pendingSpawns >>

Init ==
  /\ magAmmo = MagSize
  /\ isReloading = FALSE /\ reloadRemain = 0
  /\ fireCooldown = 0 /\ pendingSpawns = 0

\* The magazine is full and the reload is over.
Refill ==
  /\ magAmmo' = MagSize
  /\ isReloading' = FALSE /\ reloadRemain' = 0

\* Tick(dt): the cooldown stops at zero; a reload whose time is up finishes.
Tick(dt) ==
  /\ fireCooldown' = IF fireCooldown > dt THEN fireCooldown - dt ELSE 0
  /\ IF isReloading /\ reloadRemain <= dt
     THEN Refill
     ELSE /\ reloadRemain' = IF isReloading THEN reloadRemain - dt ELSE reloadRemain
          /\ UNCHANGED << magAmmo, isReloading >>
  /\ UNCHANGED pendingSpawns

\* Bug: the cooldown is forgotten.
CanFire_NoCooldown == ~isReloading /\ magAmmo > 0

CanFire == ~isReloading /\ fireCooldown <= 0 /\ magAmmo > 0

\* tryFire: one round, one projectile to spawn.
TryFire ==
  IF CanFire
  THEN /\ magAmmo' = magAmmo - 1
       /\ fireCooldown' = FireInterval
       /\ pendingSpawns' = pendingSpawns + 1
       /\ UNCHANGED << isReloading, reloadRemain >>
  ELSE UNCHANGED wvars

\* startReload
BeginReload ==
  IF ~isReloading /\ magAmmo < MagSize
  THEN /\ isReloading' = TRUE /\ reloadRemain' = ReloadSec
       /\ UNCHANGED << magAmmo, fireCooldown, pendingSpawns >>
  ELSE UNCHANGED wvars

\* finishReload, called by the reload ability as well as by Tick.
CompleteReload ==
  IF isReloading THEN Refill /\ UNCHANGED << fireCooldown, pendingSpawns >>
                 ELSE UNCHANGED wvars

\* CancelReload
CancelReload ==
  /\ isReloading' = FALSE /\ reloadRemain' = 0
  /\ UNCHANGED << magAmmo, fireCooldown, pendingSpawns >>

\* Bug: the spawns are copied out and not cleared.
CollectPendingSpawns_Keep == UNCHANGED wvars

CollectPendingSpawns ==
  /\ pendingSpawns' = 0
  /\ UNCHANGED << magAmmo, isReloading, reloadRemain, fireCooldown >>
=============================================================================
