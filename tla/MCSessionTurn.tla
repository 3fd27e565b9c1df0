--------------------------- MODULE MCSessionTurn ---------------------------
(* Instances of SessionTurn for TLC. *)
EXTENDS SessionTurn
=============================================================================
