------------------------------- MODULE MCKCC -------------------------------
(* Model values for KCC. *)
EXTENDS KCC

Box(x0, y0, x1, y1, w) == [lo |-> << x0, y0 >>, hi |-> << x1, y1 >>, walkable |-> w]

MCWorlds ==
  { << Box(0, -4, 24, 0, TRUE), Box(24, -4, 60, 0, TRUE), Box(28, 0, 34, 4, TRUE),
       Box(-4, 0, 0, 60, FALSE), Box(54, 0, 55, 60, FALSE), Box(0, 44, 60, 48, FALSE) >>,
    << Box(-4, -4, 20, 0, TRUE), Box(20, -12, 60, -8, TRUE), Box(34, -8, 40, 0, FALSE),
       Box(-4, 0, 0, 60, FALSE), Box(54, -8, 55, 60, FALSE), Box(0, 40, 60, 44, FALSE) >>,
    \* Two stairs that one long move climbs, one in each of its parts.
    << Box(0, -4, 80, 0, TRUE), Box(24, 0, 80, 5, TRUE), Box(54, 5, 80, 10, TRUE),
       Box(-4, 0, 0, 60, FALSE), Box(76, 0, 80, 60, FALSE), Box(0, 38, 80, 42, FALSE) >> }

MCSpawn == << 12, 14 >>

MCWanted ==
  {Delta(<< s, 0 >>, n) : s \in {-1, 1}, n \in {4, 40}}
    \cup {Delta(<< s, t >>, 3) : s \in {-1, 1}, t \in {-1, 1}}
    \cup {Delta(Up, 5), Delta(Down, 3), Delta(Down, 7)}
============================================================================
