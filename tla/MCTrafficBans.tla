---------------------------- MODULE MCTrafficBans ----------------------------
(* A small instance of TrafficBans for TLC. *)
EXTENDS TrafficBans
=============================================================================
