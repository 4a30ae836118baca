----------------------------- MODULE WeaponSlot -----------------------------
(***************************************************************************)
(* What the abilities, the arbiter and the weapon promise together about   *)
(* the weapon operation: at any time at most one of firing, melee and      *)
(* reloading goes on; rounds are spent only while firing; the magazine is  *)
(* filled only by a reload that was begun and not abandoned; melee takes   *)
(* the slot from either, and neither of the others takes it from anyone.   *)
(* It says nothing of ticks, timers, priorities or the arbiter's tables.   *)
(***************************************************************************)
EXTENDS Integers

CONSTANT MagSize

VARIABLES
  op,       \* what occupies the slot: "free", "fire", "melee", "reload"
  ammo,     \* rounds in the magazine
  loading   \* a reload has begun and has neither filled nor been abandoned

slotVars == << op, ammo, loading >>

Init == op = "free" /\ ammo = MagSize /\ loading = FALSE

StartFire   == op = "free" /\ ammo > 0 /\ op' = "fire" /\ UNCHANGED << ammo, loading >>
Shoot       == op = "fire" /\ ammo > 0 /\ ammo' = ammo - 1 /\ UNCHANGED << op, loading >>
StopFire    == op = "fire" /\ op' = "free" /\ UNCHANGED << ammo, loading >>

EndMelee    == op = "melee" /\ op' = "free" /\ UNCHANGED << ammo, loading >>

\* A melee takes the slot from anything, and a reload it takes it from is lost.
StartMelee ==
  /\ op \in {"free", "fire", "reload"}
  /\ op' = "melee" /\ loading' = FALSE /\ UNCHANGED ammo

StartReload ==
  /\ op = "free" /\ ammo < MagSize
  /\ op' = "reload" /\ loading' = TRUE /\ UNCHANGED ammo

Fill ==
  /\ op = "reload" /\ loading
  /\ ammo' = MagSize /\ loading' = FALSE /\ UNCHANGED op

\* Left to itself, a reload gives the slot back only once it has filled.
EndReload ==
  /\ op = "reload" /\ ~loading
  /\ op' = "free" /\ UNCHANGED << ammo, loading >>

Next ==
  \/ StartFire \/ Shoot \/ StopFire
  \/ StartMelee \/ EndMelee
  \/ StartReload \/ Fill \/ EndReload

Spec == Init /\ [][Next]_slotVars
=============================================================================
