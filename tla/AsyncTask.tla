----------------------------- MODULE AsyncTask -----------------------------
(***************************************************************************)
(* The task tables async_tasks and async_task_items and the transactions   *)
(* of task.Service on them (server/internal/task/async.go).  Every action  *)
(* is one database transaction: the code takes the task row FOR UPDATE     *)
(* first, so transactions on one task are serialised.                      *)
(*                                                                         *)
(* Who calls a transaction, and when, is left open here: any item may be   *)
(* claimed or finished at any time, as duplicated and late jobs do.        *)
(* TaskQueue says what the queue, the retries and the sweeper really call. *)
(***************************************************************************)
EXTENDS Naturals, FiniteSets

CONSTANTS Tasks,        \* task ids
          Keys,         \* item keys
          MaxAttempts,  \* MaxAttempts[t]: how often task t may go from pending to running
          StaleTask,    \* idle time after which an unfinished task is stale
          StaleItem     \* idle time after which an unfinished item is stale

ASSUME KeysAssumption == IsFiniteSet(Keys)
ASSUME MaxAttemptsAssumption == MaxAttempts \in [Tasks -> Nat \ {0}]
ASSUME StaleAssumption == StaleTask \in Nat \ {0} /\ StaleItem \in Nat \ {0}

VARIABLES task,      \* task[t]: the row of task t
          item,      \* item[t][k]: the status of item k of task t
          taskIdle,  \* taskIdle[t]: time since updated_at of the row, capped at StaleTask
          itemIdle   \* itemIdle[t][k]: the same for an item, capped at StaleItem

db == <<task, item>>
idle == <<taskIdle, itemIdle>>
asyncVars == <<task, item, taskIdle, itemIdle>>

Terminal == {"succeeded", "failed"}
Active == {"pending", "running"}
Statuses == Active \cup Terminal \cup {"absent"}

TaskRow == [status : Statuses, attempts : Nat,
            total : Nat, completed : Nat, failed : Nat]

\* The items of a task with one of the given statuses.
KeysIn(its, S) == {k \in Keys : its[k] \in S}

ActiveKeys(t) == KeysIn(item[t], Active)

\* aggregateLocked: the counters follow the items.
Counted(row, its) ==
  [row EXCEPT !.total = Cardinality(KeysIn(its, Active \cup Terminal)),
              !.completed = Cardinality(KeysIn(its, {"succeeded"})),
              !.failed = Cardinality(KeysIn(its, {"failed"}))]

\* Mutant: the unused status "partial" for a task with both verdicts.
AggregatedPartial(row, its) ==
  IF KeysIn(its, Active) # {} \/ row.status \in Terminal
  THEN Counted(row, its)
  ELSE [Counted(row, its) EXCEPT !.status =
          IF KeysIn(its, {"failed"}) = {} THEN "succeeded"
          ELSE IF KeysIn(its, {"succeeded"}) = {} THEN "failed" ELSE "partial"]

\* Mutant: the first failure closes the task.
AggregatedEager(row, its) ==
  IF row.status \in Terminal \/ (KeysIn(its, Active) # {} /\ KeysIn(its, {"failed"}) = {})
  THEN Counted(row, its)
  ELSE [Counted(row, its) EXCEPT !.status =
          IF KeysIn(its, {"failed"}) # {} THEN "failed" ELSE "succeeded"]

\* AggregateDecision: the task is closed when no item is active, unless it was
\* closed before.
Aggregated(row, its) ==
  IF KeysIn(its, Active) # {} \/ row.status \in Terminal
  THEN Counted(row, its)
  ELSE [Counted(row, its) EXCEPT !.status =
          IF KeysIn(its, {"failed"}) # {} THEN "failed" ELSE "succeeded"]

-----------------------------------------------------------------------------
AsyncInit ==
  /\ task = [t \in Tasks |-> [status |-> "absent", attempts |-> 0,
                              total |-> 0, completed |-> 0, failed |-> 0]]
  /\ item = [t \in Tasks |-> [k \in Keys |-> "absent"]]
  /\ taskIdle = [t \in Tasks |-> 0]
  /\ itemIdle = [t \in Tasks |-> [k \in Keys |-> 0]]

\* updated_at = now() on the row of t and on the items ks of t.
TouchTask(t) == taskIdle' = [taskIdle EXCEPT ![t] = 0]
TouchItems(t, ks) ==
  itemIdle' = [itemIdle EXCEPT ![t] = [k \in Keys |-> IF k \in ks THEN 0 ELSE @[k]]]

SetItems(t, ks, s) ==
  item' = [item EXCEPT ![t] = [k \in Keys |-> IF k \in ks THEN s ELSE @[k]]]

\* Create: the task row and its distinct items, in one transaction.
Create(t, ks) ==
  /\ task[t].status = "absent"
  /\ task' = [task EXCEPT ![t].status = "pending", ![t].total = Cardinality(ks)]
  /\ SetItems(t, ks, "pending")
  /\ TouchTask(t)
  /\ TouchItems(t, ks)

\* CompleteEmpty: called by the creator of a task it gave no item.
CompleteEmpty(t) ==
  /\ task[t].status # "absent"
  /\ KeysIn(item[t], Statuses \ {"absent"}) = {}
  /\ task' = [task EXCEPT ![t].status = "succeeded", ![t].total = 0,
                          ![t].completed = 0, ![t].failed = 0]
  /\ TouchTask(t)
  /\ UNCHANGED <<item, itemIdle>>

\* ClaimDecision: a succeeded item and a closed task are refused with false, a
\* pending task without attempts left with an error; anything else is claimed,
\* an item that is already running included.
OutOfAttempts(t) == task[t].attempts >= MaxAttempts[t] /\ task[t].status = "pending"
ClaimGranted(t, k) ==
  /\ item[t][k] # "succeeded"
  /\ task[t].status \notin Terminal
  /\ ~OutOfAttempts(t)

\* Mutant: every claim counts as an attempt of the task.
ClaimAlwaysCounts(t, k) ==
  /\ item[t][k] # "absent"
  /\ ClaimGranted(t, k)
  /\ task' = [task EXCEPT ![t].status = "running", ![t].attempts = @ + 1]
  /\ TouchTask(t)
  /\ SetItems(t, {k}, "running")
  /\ TouchItems(t, {k})

\* ClaimItem, the granted case (a refusal rolls back).
ClaimItem(t, k) ==
  /\ item[t][k] # "absent"
  /\ ClaimGranted(t, k)
  /\ IF task[t].status = "pending"
     THEN /\ task' = [task EXCEPT ![t].status = "running", ![t].attempts = @ + 1]
          /\ TouchTask(t)
     ELSE UNCHANGED <<task, taskIdle>>
  /\ SetItems(t, {k}, "running")
  /\ TouchItems(t, {k})

\* Mutant: a late verdict overwrites that of a succeeded item.
FinishOpenTask(t, k) == task[t].status \notin Terminal

\* finishItem: CompleteItem with s = "succeeded", FailItem with s = "failed".
\* A closed task or a succeeded item is left as it is.
FinishOpen(t, k) == task[t].status \notin Terminal /\ item[t][k] # "succeeded"
FinishItem(t, k, s) ==
  /\ item[t][k] # "absent"
  /\ FinishOpen(t, k)
  /\ SetItems(t, {k}, s)
  /\ task' = [task EXCEPT ![t] = Aggregated(@, item'[t])]
  /\ TouchTask(t)
  /\ TouchItems(t, {k})

\* Mutant: the failed items are not aggregated.
FailWithoutAggregate(t) ==
  /\ task[t].status # "absent"
  /\ SetItems(t, ActiveKeys(t), "failed")
  /\ TouchTask(t)
  /\ TouchItems(t, ActiveKeys(t))
  /\ UNCHANGED task

\* Mutant: only the running items are failed.
FailRunningItems(t) ==
  /\ task[t].status # "absent"
  /\ SetItems(t, KeysIn(item[t], {"running"}), "failed")
  /\ task' = [task EXCEPT ![t] = Aggregated(@, item'[t])]
  /\ TouchTask(t)
  /\ TouchItems(t, KeysIn(item[t], {"running"}))

\* FailPendingItems: every item still active becomes failed.
FailPendingItems(t) ==
  /\ task[t].status # "absent"
  /\ SetItems(t, ActiveKeys(t), "failed")
  /\ task' = [task EXCEPT ![t] = Aggregated(@, item'[t])]
  /\ TouchTask(t)
  /\ TouchItems(t, ActiveKeys(t))

FailedKeys(t) == KeysIn(item[t], {"failed"})
Reopen(t, ks) ==
  /\ task[t].status = "failed"
  /\ task[t].attempts < MaxAttempts[t]
  /\ FailedKeys(t) # {}
  /\ SetItems(t, ks, "pending")
  /\ task' = [task EXCEPT ![t].status = "pending", ![t].failed = 0]
  /\ TouchTask(t)
  /\ TouchItems(t, ks)

\* Mutant: one failed item is retried, the others are forgotten.
RetryOne(t) == \E k \in FailedKeys(t) : Reopen(t, {k})
\* Mutant: the succeeded items are retried too.
RetryAll(t) == Reopen(t, KeysIn(item[t], Terminal))

\* Retry, its transaction: failed items go back to pending and so does the task.
Retry(t) == Reopen(t, FailedKeys(t))

\* The two criteria of TimeoutStale, without the exemption of items in flight.
StaleByRow(t) == task[t].status \in Active /\ taskIdle[t] = StaleTask
StaleKeys(t) == {k \in ActiveKeys(t) : itemIdle[t][k] = StaleItem}

\* TimeoutStale on one task.
TimeoutStale(t) ==
  /\ StaleByRow(t) \/ StaleKeys(t) # {}
  /\ FailPendingItems(t)

\* Time passes on every row.
Aged(n, cap) == IF n < cap THEN n + 1 ELSE cap
AgeRows ==
  /\ taskIdle' = [t \in Tasks |-> Aged(taskIdle[t], StaleTask)]
  /\ itemIdle' = [t \in Tasks |-> [k \in Keys |-> Aged(itemIdle[t][k], StaleItem)]]
AsyncTick == AgeRows /\ UNCHANGED db

AsyncNext ==
  \/ \E t \in Tasks :
       \/ \E ks \in SUBSET Keys : Create(t, ks)
       \/ CompleteEmpty(t)
       \/ \E k \in Keys : \/ ClaimItem(t, k)
                          \/ \E s \in Terminal : FinishItem(t, k, s)
       \/ FailPendingItems(t)
       \/ Retry(t)
       \/ TimeoutStale(t)
  \/ AsyncTick

AsyncSpec == AsyncInit /\ [][AsyncNext]_asyncVars

-----------------------------------------------------------------------------
\* Every row has the shape of its table.
AsyncTypeOK ==
  /\ task \in [Tasks -> TaskRow]
  /\ item \in [Tasks -> [Keys -> Statuses]]
  /\ taskIdle \in [Tasks -> 0 .. StaleTask]
  /\ itemIdle \in [Tasks -> [Keys -> 0 .. StaleItem]]

\* A closed task has no item left in flight, its counters are those of its
\* items, and it is shown as failed exactly when one of them failed: the
\* verdict of aggregateLocked is never contradicted by a late write
\* (async.go, finishItem and aggregateLocked).
TerminalIsSettled ==
  \A t \in Tasks : task[t].status \in Terminal =>
    /\ ActiveKeys(t) = {}
    /\ task[t].completed = Cardinality(KeysIn(item[t], {"succeeded"}))
    /\ task[t].failed = Cardinality(FailedKeys(t))
    /\ task[t].total = Cardinality(KeysIn(item[t], Terminal))
    /\ task[t].status = "failed" <=> FailedKeys(t) # {}

\* An open task that asked for something still has an item somebody can
\* finish: no order of finishing, failing and claiming again leaves a task
\* open with nothing left to close it (async.go, aggregateLocked).
OpenTaskHasWork ==
  \A t \in Tasks : task[t].status \in Active =>
    \/ ActiveKeys(t) # {}
    \/ KeysIn(item[t], Active \cup Terminal) = {}

\* However often a task is swept and retried, it goes from pending to running
\* at most MaxAttempts times (async.go, ClaimDecision and Retry).
AttemptsWithinBudget ==
  \A t \in Tasks : task[t].attempts <= MaxAttempts[t]

\* What a step may not do to successes, and what one that reopens a task does.
KeepsSuccess(t) ==
  /\ task[t].status = "succeeded" => task'[t].status = "succeeded"
  /\ \A k \in Keys : item[t][k] = "succeeded" => item'[t][k] = "succeeded"
ReopensAll(t) ==
  (task[t].status = "failed" /\ task'[t].status # "failed") =>
    /\ task'[t].status = "pending"
    /\ \A k \in Keys : item[t][k] = "failed" => item'[t][k] = "pending"

\* Success is for good: no late failure, sweep or retry takes a succeeded item
\* or a succeeded task back (async.go, finishItem, FailPendingItems, Retry).
SuccessSticks == [][\A t \in Tasks : KeepsSuccess(t)]_asyncVars

\* A failed task is reopened as a whole: all its failed items go back to
\* pending in the step that reopens it, none is forgotten (async.go, Retry).
ReopensWhole == [][\A t \in Tasks : ReopensAll(t)]_asyncVars

\* The task page shows a task as TaskLifecycle promises.
PhaseOf(t) ==
  CASE task[t].status = "absent" -> "none"
    [] task[t].status \in Active -> "open"
    [] OTHER -> task[t].status
WantOf(t) == KeysIn(item[t], Active \cup Terminal)
DoneOf(t) == KeysIn(item[t], {"succeeded"})

Lifecycle == INSTANCE TaskLifecycle WITH
  phase <- [t \in Tasks |-> PhaseOf(t)],
  want <- [t \in Tasks |-> WantOf(t)],
  done <- [t \in Tasks |-> DoneOf(t)]
LifecycleSpec == Lifecycle!Spec
=============================================================================
