--------------------------- MODULE MCEventStream ----------------------------
(* Two publishers, the engine's thread and a request, and one connection;  *)
(* the history is full after three events.                                 *)
EXTENDS EventStream, TLC

CONSTANTS p1, p2, c1, c2
=============================================================================
