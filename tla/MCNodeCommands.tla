--------------------------- MODULE MCNodeCommands ---------------------------
(* A small instance of NodeCommands for TLC. *)
EXTENDS NodeCommands
=============================================================================
