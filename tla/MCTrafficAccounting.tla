------------------------ MODULE MCTrafficAccounting ------------------------
(* A small instance of TrafficAccounting for TLC. *)
EXTENDS TrafficAccounting
=============================================================================
