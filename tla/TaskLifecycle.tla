--------------------------- MODULE TaskLifecycle ---------------------------
(***************************************************************************)
(* What the asynchronous-task page promises of a task, with no word of     *)
(* queues, claims, retries of a job or sweeps: a task asks for a set of    *)
(* items, the items that were done stay done, and the verdict on the task  *)
(* agrees with them.  AsyncTask implements this specification.             *)
(***************************************************************************)
CONSTANTS Tasks,        \* task ids
          Keys          \* item keys

VARIABLES phase,        \* phase[t]: what the page shows of task t
          want,         \* want[t]: the items task t was created with
          done          \* done[t]: the items that have succeeded

lifecycle == <<phase, want, done>>

Phases == {"none", "open", "succeeded", "failed"}

Init == /\ phase = [t \in Tasks |-> "none"]
        /\ want = [t \in Tasks |-> {}]
        /\ done = [t \in Tasks |-> {}]

\* Someone asks for the work of task t.
Submit(t) ==
  /\ phase[t] = "none"
  /\ phase' = [phase EXCEPT ![t] = "open"]
  /\ \E ks \in SUBSET Keys : want' = [want EXCEPT ![t] = ks]
  /\ UNCHANGED done

\* Item k of task t is done; the task closes at once if nothing is left to do,
\* and may close as failed if the rest was given up before.
Progress(t, k) ==
  /\ phase[t] = "open"
  /\ k \in want[t] \ done[t]
  /\ done' = [done EXCEPT ![t] = @ \cup {k}]
  /\ \E p \in IF done'[t] = want[t] THEN {"succeeded"} ELSE {"open", "failed"} :
        phase' = [phase EXCEPT ![t] = p]
  /\ UNCHANGED want

\* The rest of task t is given up.
GiveUp(t) ==
  /\ phase[t] = "open"
  /\ done[t] # want[t]
  /\ phase' = [phase EXCEPT ![t] = "failed"]
  /\ UNCHANGED <<want, done>>

\* A task that asks for nothing succeeds.
CloseEmpty(t) ==
  /\ phase[t] = "open"
  /\ want[t] = {}
  /\ phase' = [phase EXCEPT ![t] = "succeeded"]
  /\ UNCHANGED <<want, done>>

\* An administrator asks for the failed items again.
Reopen(t) ==
  /\ phase[t] = "failed"
  /\ phase' = [phase EXCEPT ![t] = "open"]
  /\ UNCHANGED <<want, done>>

Next == \E t \in Tasks :
          \/ Submit(t)
          \/ \E k \in Keys : Progress(t, k)
          \/ GiveUp(t)
          \/ CloseEmpty(t)
          \/ Reopen(t)

Spec == Init /\ [][Next]_lifecycle
=============================================================================
