-------------------------- MODULE MCAbilityArbiter --------------------------
(* A table of five abilities on three bits, chosen so that each rule of the  *)
(* arbiter is at work: 3 takes bit 1 from ability 1 and loses bit 2 to       *)
(* ability 2, which may preempt it in the same tick; 5 preempts two owners   *)
(* at once; 1 and 2 take bit 3 at run time, from 4, which claims it for      *)
(* life, and from one another.                                               *)
EXTENDS AbilityArbiter

MCClaimed == << {1}, {2}, {1, 2}, {3}, {1, 2} >>

MCPriority ==
  << << 2, 0, 0 >>,
     << 0, 3, 0 >>,
     << 5, 1, 0 >>,
     << 0, 0, 1 >>,
     << 6, 6, 0 >> >>

MCScopeBits == << {3}, {3}, {}, {}, {} >>

MCScopePrio == [a \in Ability |-> [r \in Resource |-> 2]]
=============================================================================
