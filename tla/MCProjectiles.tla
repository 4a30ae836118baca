--------------------------- MODULE MCProjectiles ---------------------------
(* Model values for Projectiles: a wall around the muzzle, one met in       *)
(* mid-step or exactly at its end, one beyond the range, and actors on      *)
(* either side of it.                                                       *)
EXTENDS Projectiles

MCWalls  == {<< 0, 1 >>, << 2, 2 >>, << 5, 6 >>}
MCActors == {<< 1, 2 >>, << 3, 5 >>}
============================================================================
