----------------------------- MODULE MCMovement -----------------------------
(***************************************************************************)
(* Movement with ticks of one and two units, so that a dash of three is    *)
(* cut by a tick's end; a jump of three under gravity of one, so that a    *)
(* displacement at the apex is dropped; a ceiling that a jump in long      *)
(* ticks meets and one in short ticks does not; and aims outside the       *)
(* circle, on either side and more than a turn apart.                      *)
(***************************************************************************)
EXTENDS Movement

MCAims == {-1, 4}
=============================================================================
