----------------------------- MODULE MCSessions -----------------------------
(* Two connections, two UDP endpoints and three joins: a client can join     *)
(* twice, leave between two joins, join again over UDP after its connection  *)
(* has closed, or share an endpoint with another.  Bytes of 16 values: the   *)
(* length of a message has room for four players.                            *)
EXTENDS SessionsOnWire
=============================================================================
