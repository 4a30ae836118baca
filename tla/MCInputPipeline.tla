-------------------------- MODULE MCInputPipeline ---------------------------
(* Two buttons, three samples, three packets handled between two ticks:      *)
(* enough for a press, its release and the next press to be lost, repeated   *)
(* and overtaken, within one tick and across several.                        *)
EXTENDS InputPipeline, TLC

Symmetry == Permutations(Key)
=============================================================================
