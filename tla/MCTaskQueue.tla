---------------------------- MODULE MCTaskQueue ----------------------------
(* Small instances of TaskQueue for TLC. *)
EXTENDS TaskQueue, TLC

\* Two attempts for a synchronisation, one for a delivery, as the code gives them
\* five and one.
MCMaxAttempts == [t \in Tasks |-> IF Kind[t] = "delivery" THEN 1 ELSE 2]

MCMixed == [t \in Tasks |-> IF t = "delivery" THEN "delivery" ELSE "traffic"]
MCAllTraffic == [t \in Tasks |-> "traffic"]
\* Two delays: the second never fits in the time of a job, as in the code.
MCBackoff == <<1, 2>>

MCSymmetry == Permutations(Keys) \cup Permutations(Workers)
=============================================================================
