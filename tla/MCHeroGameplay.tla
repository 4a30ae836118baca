--------------------------- MODULE MCHeroGameplay ---------------------------
(* A magazine of two rounds; ticks of one and of three units, shorter and    *)
(* longer than the waits of the melee and of the reload.                     *)
EXTENDS HeroGameplay

MCDts == {1, 3}
=============================================================================
