----------------------------- MODULE MCNodeSync -----------------------------
(* Two users, so that one bucket is read alone and two need a full read. *)
EXTENDS NodeSync
=============================================================================
