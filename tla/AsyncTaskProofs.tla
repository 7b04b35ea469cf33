-------------------------- MODULE AsyncTaskProofs --------------------------
(***************************************************************************)
(* Proofs about the task tables for every set of tasks, every finite set   *)
(* of item keys and every number of attempts: their invariant, what a step *)
(* may do to a success or to a failed task, and that they implement the    *)
(* task page.                                                              *)
(***************************************************************************)
EXTENDS AsyncTask, FiniteSetTheorems, TLAPS

\* A task that was not created yet has no items.
AbsentIsEmpty ==
  \A t \in Tasks : task[t].status = "absent" => \A k \in Keys : item[t][k] = "absent"

\* The inductive invariant.
AsyncInv ==
  /\ AsyncTypeOK
  /\ AbsentIsEmpty
  /\ TerminalIsSettled
  /\ OpenTaskHasWork
  /\ AttemptsWithinBudget

-----------------------------------------------------------------------------
\* The items with given statuses are finitely many, and their number is zero
\* exactly when there are none.
LEMMA KeysInFinite ==
  ASSUME NEW its, NEW S
  PROVE  /\ IsFiniteSet(KeysIn(its, S))
         /\ Cardinality(KeysIn(its, S)) \in Nat
         /\ Cardinality(KeysIn(its, S)) = 0 <=> KeysIn(its, S) = {}
  <1>1. KeysIn(its, S) \subseteq Keys
    BY DEF KeysIn
  <1>2. IsFiniteSet(KeysIn(its, S))
    BY <1>1, KeysAssumption, FS_Subset
  <1> QED
    BY <1>2, FS_CardinalityType, FS_EmptySet

\* Aggregation keeps the shape of a row and the number of its attempts.
LEMMA AggregatedType ==
  ASSUME NEW row \in TaskRow, NEW its
  PROVE  /\ Aggregated(row, its) \in TaskRow
         /\ Aggregated(row, its).attempts = row.attempts
  <1>1. /\ Cardinality(KeysIn(its, {"succeeded"})) \in Nat
        /\ Cardinality(KeysIn(its, {"failed"})) \in Nat
        /\ Cardinality(KeysIn(its, Active \cup Terminal)) \in Nat
    BY KeysInFinite
  <1> QED
    BY <1>1 DEF Aggregated, Counted, TaskRow, Statuses, Terminal

\* Row a counts the items, keeps the status of a row with active items and of
\* a closed one, and is otherwise closed with the right verdict.
Settles(a, row, its) ==
  /\ a.completed = Cardinality(KeysIn(its, {"succeeded"}))
  /\ a.failed = Cardinality(KeysIn(its, {"failed"}))
  /\ a.total = Cardinality(KeysIn(its, Active \cup Terminal))
  /\ (KeysIn(its, Active) # {} \/ row.status \in Terminal) => a.status = row.status
  /\ (KeysIn(its, Active) = {} /\ row.status \notin Terminal) =>
       a.status = IF KeysIn(its, {"failed"}) # {} THEN "failed" ELSE "succeeded"

\* Aggregation does what Settles says.
LEMMA AggregatedSettles ==
  ASSUME NEW row \in TaskRow, NEW its
  PROVE  Settles(Aggregated(row, its), row, its)
  <1>1. Cardinality(KeysIn(its, {"failed"})) > 0 <=> KeysIn(its, {"failed"}) # {}
    BY KeysInFinite
  <1> QED
    BY <1>1 DEF Settles, Aggregated, Counted, TaskRow

\* Without active items, the items of a task are the finished ones.
LEMMA NoActiveKeys ==
  ASSUME NEW its, KeysIn(its, Active) = {}
  PROVE  KeysIn(its, Active \cup Terminal) = KeysIn(its, Terminal)
  BY DEF KeysIn

-----------------------------------------------------------------------------
\* The empty tables satisfy the invariant.
THEOREM InitAsyncInv == AsyncInit => AsyncInv
  <1> SUFFICES ASSUME AsyncInit PROVE AsyncInv
    OBVIOUS
  <1>1. AsyncTypeOK
    BY StaleAssumption DEF AsyncInit, AsyncTypeOK, TaskRow, Statuses
  <1>2. AbsentIsEmpty
    BY DEF AsyncInit, AbsentIsEmpty
  <1>3. TerminalIsSettled
    BY DEF AsyncInit, TerminalIsSettled, Terminal
  <1>4. OpenTaskHasWork
    BY DEF AsyncInit, OpenTaskHasWork, Active
  <1>5. AttemptsWithinBudget
    BY MaxAttemptsAssumption DEF AsyncInit, AttemptsWithinBudget
  <1> QED
    BY <1>1, <1>2, <1>3, <1>4, <1>5 DEF AsyncInv

\* What SetItems does to the items of one task, item by item.
LEMMA SetItemsFacts ==
  ASSUME item \in [Tasks -> [Keys -> Statuses]],
         NEW t \in Tasks, NEW ks, NEW s \in Statuses, SetItems(t, ks, s)
  PROVE  /\ item' \in [Tasks -> [Keys -> Statuses]]
         /\ \A u \in Tasks : u # t => item'[u] = item[u]
         /\ \A k \in Keys : item'[t][k] = IF k \in ks THEN s ELSE item[t][k]
  BY DEF SetItems

\* Touching rows keeps the idle times in their ranges.
LEMMA TouchFacts ==
  ASSUME AsyncTypeOK, NEW t \in Tasks, NEW ks
  PROVE  /\ TouchTask(t) => taskIdle' \in [Tasks -> 0 .. StaleTask]
         /\ TouchItems(t, ks) => itemIdle' \in [Tasks -> [Keys -> 0 .. StaleItem]]
  <1>1. 0 \in 0 .. StaleTask /\ 0 \in 0 .. StaleItem
    BY StaleAssumption
  <1>2. TouchTask(t) => taskIdle' \in [Tasks -> 0 .. StaleTask]
    BY <1>1 DEF AsyncTypeOK, TouchTask
  <1>3. ASSUME TouchItems(t, ks)
        PROVE  itemIdle' \in [Tasks -> [Keys -> 0 .. StaleItem]]
    <2>1. [k \in Keys |-> IF k \in ks THEN 0 ELSE itemIdle[t][k]] \in [Keys -> 0 .. StaleItem]
      BY <1>1 DEF AsyncTypeOK
    <2>2. itemIdle' = [itemIdle EXCEPT ![t] =
                         [k \in Keys |-> IF k \in ks THEN 0 ELSE itemIdle[t][k]]]
      BY <1>3 DEF TouchItems
    <2> QED
      BY <2>1, <2>2 DEF AsyncTypeOK
  <1> QED
    BY <1>2, <1>3

\* The part of the invariant that speaks of one task.
TaskInv(t) ==
  /\ task[t].status = "absent" => \A k \in Keys : item[t][k] = "absent"
  /\ task[t].status \in Terminal =>
       /\ ActiveKeys(t) = {}
       /\ task[t].completed = Cardinality(KeysIn(item[t], {"succeeded"}))
       /\ task[t].failed = Cardinality(FailedKeys(t))
       /\ task[t].total = Cardinality(KeysIn(item[t], Terminal))
       /\ task[t].status = "failed" <=> FailedKeys(t) # {}
  /\ task[t].status \in Active =>
       \/ ActiveKeys(t) # {}
       \/ KeysIn(item[t], Active \cup Terminal) = {}
  /\ task[t].attempts <= MaxAttempts[t]

\* The invariant is its part for each task, and the shape of the tables.
LEMMA InvIsPerTask ==
  /\ AsyncInv <=> (AsyncTypeOK /\ \A t \in Tasks : TaskInv(t))
  /\ AsyncInv' <=> (AsyncTypeOK' /\ \A t \in Tasks : TaskInv(t)')
  BY DEF AsyncInv, TaskInv, AbsentIsEmpty, TerminalIsSettled, OpenTaskHasWork,
         AttemptsWithinBudget

\* A task whose row and items a step leaves alone keeps its part.
LEMMA OtherTask ==
  ASSUME NEW u \in Tasks, TaskInv(u), task'[u] = task[u], item'[u] = item[u]
  PROVE  TaskInv(u)'
  BY DEF TaskInv, ActiveKeys, FailedKeys, KeysIn

-----------------------------------------------------------------------------
\* Creating a task keeps the invariant.
LEMMA CreateInv ==
  ASSUME AsyncInv, NEW t \in Tasks, NEW ks \in SUBSET Keys, Create(t, ks)
  PROVE  AsyncInv'
  <1> USE DEF Create
  <1>1. AsyncTypeOK /\ \A u \in Tasks : TaskInv(u)
    BY InvIsPerTask
  <1>2. /\ item' \in [Tasks -> [Keys -> Statuses]]
        /\ \A u \in Tasks : u # t => item'[u] = item[u]
        /\ \A k \in Keys : item'[t][k] = IF k \in ks THEN "pending" ELSE item[t][k]
    BY <1>1, SetItemsFacts DEF AsyncTypeOK, Statuses, Active
  <1>3. Cardinality(ks) \in Nat
    BY KeysAssumption, FS_Subset, FS_CardinalityType
  <1>4. AsyncTypeOK'
    <2>1. [task[t] EXCEPT !.status = "pending", !.total = Cardinality(ks)] \in TaskRow
      BY <1>1, <1>3 DEF AsyncTypeOK, TaskRow, Statuses, Active
    <2>2. task' \in [Tasks -> TaskRow]
      BY <1>1, <2>1 DEF AsyncTypeOK
    <2> QED
      BY <1>1, <1>2, <2>2, TouchFacts DEF AsyncTypeOK
  <1>5. task'[t].status = "pending" /\ task'[t].attempts = task[t].attempts
    BY <1>1 DEF AsyncTypeOK, TaskRow
  <1>6. \A k \in Keys : item'[t][k] = IF k \in ks THEN "pending" ELSE "absent"
    BY <1>1, <1>2 DEF TaskInv
  <1>7. ActiveKeys(t)' # {} \/ KeysIn(item[t], Active \cup Terminal)' = {}
    BY <1>6 DEF ActiveKeys, KeysIn, Active, Terminal
  <1>8. TaskInv(t)'
    BY <1>1, <1>5, <1>7 DEF TaskInv, Terminal, Active
  <1>9. \A u \in Tasks : u # t => TaskInv(u)'
    BY <1>1, <1>2, OtherTask DEF AsyncTypeOK
  <1> QED
    BY <1>4, <1>8, <1>9, InvIsPerTask

\* Completing a task without items keeps the invariant.
LEMMA CompleteEmptyInv ==
  ASSUME AsyncInv, NEW t \in Tasks, CompleteEmpty(t)
  PROVE  AsyncInv'
  <1> USE DEF CompleteEmpty
  <1>1. AsyncTypeOK /\ \A u \in Tasks : TaskInv(u)
    BY InvIsPerTask
  <1>2. AsyncTypeOK'
    <2>1. [task[t] EXCEPT !.status = "succeeded", !.total = 0,
                          !.completed = 0, !.failed = 0] \in TaskRow
      BY <1>1 DEF AsyncTypeOK, TaskRow, Statuses, Terminal
    <2>2. task' \in [Tasks -> TaskRow]
      BY <1>1, <2>1 DEF AsyncTypeOK
    <2> QED
      BY <1>1, <2>2, TouchFacts DEF AsyncTypeOK
  <1>3. /\ task'[t].status = "succeeded" /\ task'[t].attempts = task[t].attempts
        /\ task'[t].total = 0 /\ task'[t].completed = 0 /\ task'[t].failed = 0
    BY <1>1 DEF AsyncTypeOK, TaskRow
  <1>4. \A S \in SUBSET Statuses : "absent" \notin S => KeysIn(item[t], S) = {}
    BY DEF KeysIn
  <1>5. /\ KeysIn(item[t], Active) = {} /\ KeysIn(item[t], Terminal) = {}
        /\ KeysIn(item[t], {"succeeded"}) = {} /\ KeysIn(item[t], {"failed"}) = {}
    BY <1>4 DEF Active, Terminal, Statuses
  <1>6. TaskInv(t)'
    BY <1>1, <1>3, <1>5, FS_EmptySet DEF TaskInv, ActiveKeys, FailedKeys, Terminal, Active, KeysIn
  <1>7. \A u \in Tasks : u # t => TaskInv(u)'
    BY <1>1, OtherTask DEF AsyncTypeOK
  <1> QED
    BY <1>2, <1>6, <1>7, InvIsPerTask

\* A claim keeps the invariant.
LEMMA ClaimItemInv ==
  ASSUME AsyncInv, NEW t \in Tasks, NEW k \in Keys, ClaimItem(t, k)
  PROVE  AsyncInv'
  <1> USE DEF ClaimItem
  <1>1. AsyncTypeOK /\ \A u \in Tasks : TaskInv(u)
    BY InvIsPerTask
  <1>2. /\ item' \in [Tasks -> [Keys -> Statuses]]
        /\ \A u \in Tasks : u # t => item'[u] = item[u]
        /\ item'[t][k] = "running"
    BY <1>1, SetItemsFacts DEF AsyncTypeOK, Statuses, Active
  <1>3. /\ task[t].status \in Active
        /\ task'[t].status \in Active
        /\ task'[t].attempts \in Nat /\ task'[t].attempts <= MaxAttempts[t]
        /\ task' \in [Tasks -> TaskRow]
    BY <1>1, MaxAttemptsAssumption
       DEF AsyncTypeOK, TaskRow, Statuses, Active, Terminal, ClaimGranted, OutOfAttempts, TaskInv
  <1>4. AsyncTypeOK'
    BY <1>1, <1>2, <1>3, TouchFacts DEF AsyncTypeOK
  <1>5. ActiveKeys(t)' # {}
    BY <1>2 DEF ActiveKeys, KeysIn, Active
  <1>6. TaskInv(t)'
    BY <1>3, <1>5 DEF TaskInv, Active, Terminal
  <1>7. \A u \in Tasks : u # t => TaskInv(u)'
    BY <1>1, <1>2, OtherTask DEF AsyncTypeOK
  <1> QED
    BY <1>4, <1>6, <1>7, InvIsPerTask

\* A step that moves some items of an open or closed task and aggregates it.
\* ks are the items it moves to the terminal status s; a closed task keeps its items.
LEMMA SettleInv ==
  ASSUME AsyncInv, NEW t \in Tasks, NEW ks, NEW s \in Terminal,
         task[t].status # "absent",
         task[t].status \in Terminal => ks \cap Keys = {},
         SetItems(t, ks, s),
         task' = [task EXCEPT ![t] = Aggregated(@, item'[t])],
         TouchTask(t), TouchItems(t, ks)
  PROVE  AsyncInv'
  <1>1. AsyncTypeOK /\ \A u \in Tasks : TaskInv(u)
    BY InvIsPerTask
  <1>2. /\ item' \in [Tasks -> [Keys -> Statuses]]
        /\ \A u \in Tasks : u # t => item'[u] = item[u]
        /\ \A k \in Keys : item'[t][k] = IF k \in ks THEN s ELSE item[t][k]
    BY <1>1, SetItemsFacts DEF AsyncTypeOK, Statuses
  <1>3. task[t] \in TaskRow /\ task'[t] = Aggregated(task[t], item'[t])
    BY <1>1 DEF AsyncTypeOK
  <1>4. task'[t] \in TaskRow /\ task'[t].attempts = task[t].attempts
    BY <1>3, AggregatedType
  <1>5. AsyncTypeOK'
    <2>1. task' \in [Tasks -> TaskRow]
      BY <1>1, <1>3, <1>4 DEF AsyncTypeOK
    <2> QED
      BY <1>1, <1>2, <2>1, TouchFacts DEF AsyncTypeOK
  <1>6. Settles(task'[t], task[t], item'[t])
    BY <1>3, AggregatedSettles
  <1>7. TaskInv(t)'
    <2>1. CASE task[t].status \in Terminal
      <3>1. item'[t] = item[t]
        BY <1>1, <1>2, <2>1 DEF AsyncTypeOK
      <3>2. KeysIn(item'[t], Active) = {}
        BY <1>1, <2>1, <3>1 DEF TaskInv, ActiveKeys
      <3>3. task'[t].status = task[t].status
        BY <1>6, <2>1 DEF Settles
      <3>4. task[t].status = "failed" <=> KeysIn(item[t], {"failed"}) # {}
        BY <1>1, <2>1 DEF TaskInv, FailedKeys
      <3>5. KeysIn(item'[t], Active \cup Terminal) = KeysIn(item'[t], Terminal)
        BY <3>2, NoActiveKeys
      <3> QED
        BY <1>1, <1>4, <1>6, <2>1, <3>1, <3>2, <3>3, <3>4, <3>5
           DEF Settles, TaskInv, ActiveKeys, FailedKeys, Terminal, Active
    <2>2. CASE task[t].status \notin Terminal /\ KeysIn(item'[t], Active) = {}
      <3>1. KeysIn(item'[t], Active \cup Terminal) = KeysIn(item'[t], Terminal)
        BY <2>2, NoActiveKeys
      <3> QED
        BY <1>1, <1>4, <1>6, <2>2, <3>1 DEF Settles, TaskInv, ActiveKeys, FailedKeys, Terminal, Active
    <2>3. CASE task[t].status \notin Terminal /\ KeysIn(item'[t], Active) # {}
      <3>1. task'[t].status = task[t].status
        BY <1>6, <2>3 DEF Settles
      <3> QED
        BY <1>1, <1>4, <2>3, <3>1 DEF TaskInv, ActiveKeys
    <2> QED
      BY <2>1, <2>2, <2>3
  <1>8. \A u \in Tasks : u # t => TaskInv(u)'
    BY <1>1, <1>2, OtherTask DEF AsyncTypeOK
  <1> QED
    BY <1>5, <1>7, <1>8, InvIsPerTask

\* A verdict on an item keeps the invariant.
LEMMA FinishItemInv ==
  ASSUME AsyncInv, NEW t \in Tasks, NEW k \in Keys, NEW s \in Terminal, FinishItem(t, k, s)
  PROVE  AsyncInv'
  <1>1. task[t].status # "absent"
    BY DEF AsyncInv, AbsentIsEmpty, FinishItem
  <1>2. task[t].status \notin Terminal
    BY DEF FinishItem, FinishOpen
  <1> QED
    BY <1>1, <1>2, SettleInv DEF FinishItem

\* Failing the open items of a task keeps the invariant.
LEMMA FailPendingItemsInv ==
  ASSUME AsyncInv, NEW t \in Tasks, FailPendingItems(t)
  PROVE  AsyncInv'
  <1>1. task[t].status \in Terminal => ActiveKeys(t) \cap Keys = {}
    BY DEF AsyncInv, TerminalIsSettled
  <1>2. "failed" \in Terminal
    BY DEF Terminal
  <1> QED
    BY <1>1, <1>2, SettleInv DEF FailPendingItems

\* A retry keeps the invariant.
LEMMA RetryInv ==
  ASSUME AsyncInv, NEW t \in Tasks, Retry(t)
  PROVE  AsyncInv'
  <1> USE DEF Retry, Reopen
  <1>1. AsyncTypeOK /\ \A u \in Tasks : TaskInv(u)
    BY InvIsPerTask
  <1>2. /\ item' \in [Tasks -> [Keys -> Statuses]]
        /\ \A u \in Tasks : u # t => item'[u] = item[u]
        /\ \A k \in Keys : item'[t][k] = IF k \in FailedKeys(t) THEN "pending" ELSE item[t][k]
    BY <1>1, SetItemsFacts DEF AsyncTypeOK, Statuses, Active
  <1>3. AsyncTypeOK'
    <2>1. [task[t] EXCEPT !.status = "pending", !.failed = 0] \in TaskRow
      BY <1>1 DEF AsyncTypeOK, TaskRow, Statuses, Active
    <2>2. task' \in [Tasks -> TaskRow]
      BY <1>1, <2>1 DEF AsyncTypeOK
    <2> QED
      BY <1>1, <1>2, <2>2, TouchFacts DEF AsyncTypeOK
  <1>4. task'[t].status = "pending" /\ task'[t].attempts = task[t].attempts
    BY <1>1 DEF AsyncTypeOK, TaskRow
  <1>5. PICK k \in Keys : k \in FailedKeys(t)
    BY DEF FailedKeys, KeysIn
  <1>6. ActiveKeys(t)' # {}
    BY <1>2, <1>5 DEF ActiveKeys, KeysIn, Active
  <1>7. TaskInv(t)'
    BY <1>1, <1>4, <1>6 DEF TaskInv, Terminal, Active
  <1>8. \A u \in Tasks : u # t => TaskInv(u)'
    BY <1>1, <1>2, OtherTask DEF AsyncTypeOK
  <1> QED
    BY <1>3, <1>7, <1>8, InvIsPerTask

\* The passage of time keeps the invariant.
LEMMA AsyncTickInv ==
  ASSUME AsyncInv, AsyncTick
  PROVE  AsyncInv'
  <1>1. task' = task /\ item' = item
    BY DEF AsyncTick, db
  <1>2. AsyncTypeOK'
    BY <1>1, StaleAssumption DEF AsyncInv, AsyncTypeOK, AsyncTick, AgeRows, Aged
  <1>3. \A u \in Tasks : TaskInv(u)'
    BY <1>1, InvIsPerTask, OtherTask
  <1> QED
    BY <1>2, <1>3, InvIsPerTask

\* Every transaction of the task service keeps the invariant.
THEOREM StepAsyncInv == AsyncInv /\ [AsyncNext]_asyncVars => AsyncInv'
  <1> SUFFICES ASSUME AsyncInv, [AsyncNext]_asyncVars PROVE AsyncInv'
    OBVIOUS
  <1>1. ASSUME NEW t \in Tasks, NEW ks \in SUBSET Keys, Create(t, ks) PROVE AsyncInv'
    BY <1>1, CreateInv
  <1>2. ASSUME NEW t \in Tasks, CompleteEmpty(t) PROVE AsyncInv'
    BY <1>2, CompleteEmptyInv
  <1>3. ASSUME NEW t \in Tasks, NEW k \in Keys, ClaimItem(t, k) PROVE AsyncInv'
    BY <1>3, ClaimItemInv
  <1>4. ASSUME NEW t \in Tasks, NEW k \in Keys, NEW s \in Terminal, FinishItem(t, k, s)
        PROVE  AsyncInv'
    BY <1>4, FinishItemInv
  <1>5. ASSUME NEW t \in Tasks, FailPendingItems(t) PROVE AsyncInv'
    BY <1>5, FailPendingItemsInv
  <1>6. ASSUME NEW t \in Tasks, Retry(t) PROVE AsyncInv'
    BY <1>6, RetryInv
  <1>7. ASSUME NEW t \in Tasks, TimeoutStale(t) PROVE AsyncInv'
    BY <1>7, FailPendingItemsInv DEF TimeoutStale
  <1>8. CASE AsyncTick
    BY <1>8, AsyncTickInv
  <1>9. CASE UNCHANGED asyncVars
    BY <1>9, InvIsPerTask, OtherTask DEF asyncVars, AsyncInv, AsyncTypeOK
  <1> QED
    BY <1>1, <1>2, <1>3, <1>4, <1>5, <1>6, <1>7, <1>8, <1>9 DEF AsyncNext

\* The invariant holds in every state of the task tables.
THEOREM AsyncInvariant == AsyncSpec => []AsyncInv
  BY InitAsyncInv, StepAsyncInv, PTL DEF AsyncSpec

-----------------------------------------------------------------------------
\* The rows of the two tables keep their shape, whatever is called when.
THEOREM TypeCorrect == AsyncSpec => []AsyncTypeOK
  <1>1. AsyncInv => AsyncTypeOK
    BY DEF AsyncInv
  <1> QED
    BY <1>1, AsyncInvariant, PTL

\* A closed task is settled: the verdict agrees with the items, for good.
THEOREM ClosedTaskIsSettled == AsyncSpec => []TerminalIsSettled
  <1>1. AsyncInv => TerminalIsSettled
    BY DEF AsyncInv
  <1> QED
    BY <1>1, AsyncInvariant, PTL

\* A task that asked for something is never left open with nothing to close it.
THEOREM OpenTaskCanClose == AsyncSpec => []OpenTaskHasWork
  <1>1. AsyncInv => OpenTaskHasWork
    BY DEF AsyncInv
  <1> QED
    BY <1>1, AsyncInvariant, PTL

\* Claims, sweeps and retries in any order keep to the budget of attempts.
THEOREM AttemptsBounded == AsyncSpec => []AttemptsWithinBudget
  <1>1. AsyncInv => AttemptsWithinBudget
    BY DEF AsyncInv
  <1> QED
    BY <1>1, AsyncInvariant, PTL

-----------------------------------------------------------------------------
\* A step that takes no success of t back and reopens t as a whole or not at all.
SafeFor(t) == KeepsSuccess(t) /\ ReopensAll(t)

\* The other tasks keep their successes and stay closed.
LEMMA OthersAreSafe ==
  ASSUME NEW t \in Tasks,
         \A u \in Tasks : u # t => task'[u] = task[u] /\ item'[u] = item[u],
         SafeFor(t)
  PROVE  \A u \in Tasks : SafeFor(u)
  <1> SUFFICES ASSUME NEW u \in Tasks, u # t PROVE SafeFor(u)
    OBVIOUS
  <1>1. task'[u] = task[u] /\ item'[u] = item[u]
    OBVIOUS
  <1> QED
    BY <1>1 DEF SafeFor, KeepsSuccess, ReopensAll

\* A transaction that writes a status s on some items of t, none of them
\* succeeded, and aggregates, closes t or leaves it as it is.
LEMMA SettleIsSafe ==
  ASSUME AsyncInv, NEW t \in Tasks, NEW ks \in SUBSET Keys, NEW s \in Terminal,
         \A k \in ks : item[t][k] # "succeeded",
         SetItems(t, ks, s), task' = [task EXCEPT ![t] = Aggregated(@, item'[t])]
  PROVE  \A u \in Tasks : SafeFor(u)
  <1>1. AsyncTypeOK
    BY DEF AsyncInv
  <1>2. /\ \A u \in Tasks : u # t => task'[u] = task[u] /\ item'[u] = item[u]
        /\ \A k \in Keys : item'[t][k] = IF k \in ks THEN s ELSE item[t][k]
    BY <1>1, SetItemsFacts DEF AsyncTypeOK, Statuses
  <1>3. task[t] \in TaskRow /\ task'[t] = Aggregated(task[t], item'[t])
    BY <1>1 DEF AsyncTypeOK
  <1>4. task[t].status \in Terminal => task'[t].status = task[t].status
    BY <1>3, AggregatedSettles DEF Settles
  <1>5. KeepsSuccess(t)
    BY <1>2, <1>4 DEF KeepsSuccess, Terminal
  <1>6. ReopensAll(t)
    BY <1>4 DEF ReopensAll, Terminal
  <1> QED
    BY <1>2, <1>5, <1>6, OthersAreSafe DEF SafeFor

\* No transaction takes a success back or reopens a part of a task.
THEOREM StepIsSafe == AsyncInv /\ [AsyncNext]_asyncVars => \A t \in Tasks : SafeFor(t)
  <1> SUFFICES ASSUME AsyncInv, [AsyncNext]_asyncVars PROVE \A t \in Tasks : SafeFor(t)
    OBVIOUS
  <1>1. AsyncTypeOK /\ AbsentIsEmpty /\ TerminalIsSettled
    BY DEF AsyncInv
  <1>2. ASSUME NEW t \in Tasks, NEW ks \in SUBSET Keys, Create(t, ks)
        PROVE  \A u \in Tasks : SafeFor(u)
    <2>1. \A u \in Tasks : u # t => task'[u] = task[u] /\ item'[u] = item[u]
      BY <1>1, <1>2 DEF Create, SetItems, AsyncTypeOK
    <2>2. SafeFor(t)
      BY <1>1, <1>2 DEF SafeFor, KeepsSuccess, ReopensAll, Create, AbsentIsEmpty
    <2> QED
      BY <2>1, <2>2, OthersAreSafe
  <1>3. ASSUME NEW t \in Tasks, CompleteEmpty(t)
        PROVE  \A u \in Tasks : SafeFor(u)
    <2>1. task'[t].status = "succeeded" /\ item' = item
      BY <1>1, <1>3 DEF CompleteEmpty, AsyncTypeOK, TaskRow
    <2>2. \A u \in Tasks : u # t => task'[u] = task[u]
      BY <1>1, <1>3 DEF CompleteEmpty, AsyncTypeOK
    <2>3. FailedKeys(t) = {}
      BY <1>3 DEF CompleteEmpty, FailedKeys, KeysIn, Statuses, Terminal
    <2>4. task[t].status # "failed"
      BY <1>1, <2>3 DEF TerminalIsSettled, Terminal
    <2>5. SafeFor(t)
      BY <2>1, <2>4 DEF SafeFor, KeepsSuccess, ReopensAll
    <2> QED
      BY <2>1, <2>2, <2>5, OthersAreSafe
  <1>4. ASSUME NEW t \in Tasks, NEW k \in Keys, ClaimItem(t, k)
        PROVE  \A u \in Tasks : SafeFor(u)
    <2>1. /\ \A u \in Tasks : u # t => task'[u] = task[u] /\ item'[u] = item[u]
          /\ \A j \in Keys : j # k => item'[t][j] = item[t][j]
      BY <1>1, <1>4 DEF ClaimItem, SetItems, AsyncTypeOK
    <2>2. item[t][k] # "succeeded" /\ task[t].status \notin Terminal
      BY <1>4 DEF ClaimItem, ClaimGranted
    <2>3. SafeFor(t)
      BY <2>1, <2>2 DEF SafeFor, KeepsSuccess, ReopensAll, Terminal
    <2> QED
      BY <2>1, <2>3, OthersAreSafe
  <1>5. ASSUME NEW t \in Tasks, NEW k \in Keys, NEW s \in Terminal, FinishItem(t, k, s)
        PROVE  \A u \in Tasks : SafeFor(u)
    <2>1. {k} \in SUBSET Keys /\ \A j \in {k} : item[t][j] # "succeeded"
      BY <1>5 DEF FinishItem, FinishOpen
    <2> QED
      BY <1>5, <2>1, SettleIsSafe DEF FinishItem
  <1>6. ASSUME NEW t \in Tasks, FailPendingItems(t)
        PROVE  \A u \in Tasks : SafeFor(u)
    <2>1. ActiveKeys(t) \in SUBSET Keys /\ \A j \in ActiveKeys(t) : item[t][j] # "succeeded"
      BY DEF ActiveKeys, KeysIn, Active
    <2> QED
      BY <1>6, <2>1, SettleIsSafe DEF FailPendingItems, Terminal
  <1>7. ASSUME NEW t \in Tasks, Retry(t)
        PROVE  \A u \in Tasks : SafeFor(u)
    <2>1. /\ \A u \in Tasks : u # t => task'[u] = task[u] /\ item'[u] = item[u]
          /\ \A j \in Keys : item'[t][j] = IF j \in FailedKeys(t) THEN "pending" ELSE item[t][j]
      BY <1>1, <1>7, SetItemsFacts DEF Retry, Reopen, AsyncTypeOK, Statuses, Active
    <2>2. task[t].status = "failed" /\ task'[t].status = "pending"
      BY <1>1, <1>7 DEF Retry, Reopen, AsyncTypeOK, TaskRow
    <2>3. SafeFor(t)
      BY <2>1, <2>2 DEF SafeFor, KeepsSuccess, ReopensAll, FailedKeys, KeysIn
    <2> QED
      BY <2>1, <2>3, OthersAreSafe
  <1>8. CASE AsyncTick \/ UNCHANGED asyncVars
    <2>1. task' = task /\ item' = item
      BY <1>8 DEF AsyncTick, db, asyncVars
    <2> QED
      BY <2>1 DEF SafeFor, KeepsSuccess, ReopensAll
  <1> QED
    BY <1>2, <1>3, <1>4, <1>5, <1>6, <1>7, <1>8 DEF AsyncNext, TimeoutStale

\* No transaction, in any order, takes a succeeded item or task back.
THEOREM SuccessIsForGood == AsyncSpec => SuccessSticks
  <1>1. AsyncInv /\ [AsyncNext]_asyncVars => [\A t \in Tasks : KeepsSuccess(t)]_asyncVars
    BY StepIsSafe DEF SafeFor
  <1> QED
    BY <1>1, AsyncInvariant, PTL DEF AsyncSpec, SuccessSticks

\* A task that leaves its failed state does so by a retry of all its failed items.
THEOREM TasksReopenWhole == AsyncSpec => ReopensWhole
  <1>1. AsyncInv /\ [AsyncNext]_asyncVars => [\A t \in Tasks : ReopensAll(t)]_asyncVars
    BY StepIsSafe DEF SafeFor
  <1> QED
    BY <1>1, AsyncInvariant, PTL DEF AsyncSpec, ReopensWhole

-----------------------------------------------------------------------------
(* The task tables implement the task page: every transaction is a step of *)
(* TaskLifecycle or leaves the page as it is.                              *)
phaseBar == [t \in Tasks |-> PhaseOf(t)]
wantBar == [t \in Tasks |-> WantOf(t)]
doneBar == [t \in Tasks |-> DoneOf(t)]

\* A step that changes the rows of one task changes the page of that task only.
LEMMA PageOfOneTask ==
  ASSUME NEW t \in Tasks,
         \A u \in Tasks : u # t => task'[u] = task[u] /\ item'[u] = item[u]
  PROVE  /\ phaseBar' = [phaseBar EXCEPT ![t] = PhaseOf(t)']
         /\ wantBar' = [wantBar EXCEPT ![t] = WantOf(t)']
         /\ doneBar' = [doneBar EXCEPT ![t] = DoneOf(t)']
  <1>1. \A u \in Tasks : u # t =>
          PhaseOf(u)' = PhaseOf(u) /\ WantOf(u)' = WantOf(u) /\ DoneOf(u)' = DoneOf(u)
    BY DEF PhaseOf, WantOf, DoneOf, KeysIn
  <1> QED
    BY <1>1 DEF phaseBar, wantBar, doneBar

\* A step that leaves the page of its only task alone is a stutter.
LEMMA SamePage ==
  ASSUME NEW t \in Tasks,
         \A u \in Tasks : u # t => task'[u] = task[u] /\ item'[u] = item[u],
         PhaseOf(t)' = PhaseOf(t), WantOf(t)' = WantOf(t), DoneOf(t)' = DoneOf(t)
  PROVE  UNCHANGED Lifecycle!lifecycle
  <1>1. phaseBar' = phaseBar /\ wantBar' = wantBar /\ doneBar' = doneBar
    BY PageOfOneTask DEF phaseBar, wantBar, doneBar
  <1> QED
    BY <1>1 DEF Lifecycle!lifecycle, phaseBar, wantBar, doneBar

\* The steps of the page, said of the page of their task.
LEMMA PageSteps ==
  ASSUME NEW t \in Tasks,
         \A u \in Tasks : u # t => task'[u] = task[u] /\ item'[u] = item[u]
  PROVE  /\ (PhaseOf(t) = "none" /\ PhaseOf(t)' = "open" /\ WantOf(t)' \in SUBSET Keys
               /\ DoneOf(t)' = DoneOf(t)) => Lifecycle!Submit(t)
         /\ \A k \in Keys :
              (PhaseOf(t) = "open" /\ k \in WantOf(t) \ DoneOf(t) /\ WantOf(t)' = WantOf(t)
                 /\ DoneOf(t)' = DoneOf(t) \cup {k}
                 /\ PhaseOf(t)' \in IF DoneOf(t)' = WantOf(t) THEN {"succeeded"}
                                    ELSE {"open", "failed"}) => Lifecycle!Progress(t, k)
         /\ (PhaseOf(t) = "open" /\ PhaseOf(t)' = "failed" /\ DoneOf(t) # WantOf(t)
               /\ WantOf(t)' = WantOf(t) /\ DoneOf(t)' = DoneOf(t)) => Lifecycle!GiveUp(t)
         /\ (PhaseOf(t) = "open" /\ PhaseOf(t)' = "succeeded" /\ WantOf(t) = {}
               /\ WantOf(t)' = WantOf(t) /\ DoneOf(t)' = DoneOf(t)) => Lifecycle!CloseEmpty(t)
         /\ (PhaseOf(t) = "failed" /\ PhaseOf(t)' = "open"
               /\ WantOf(t)' = WantOf(t) /\ DoneOf(t)' = DoneOf(t)) => Lifecycle!Reopen(t)
  <1>1. /\ phaseBar' = [phaseBar EXCEPT ![t] = PhaseOf(t)']
        /\ wantBar' = [wantBar EXCEPT ![t] = WantOf(t)']
        /\ doneBar' = [doneBar EXCEPT ![t] = DoneOf(t)']
    BY PageOfOneTask
  <1>2. phaseBar[t] = PhaseOf(t) /\ wantBar[t] = WantOf(t) /\ doneBar[t] = DoneOf(t)
    BY DEF phaseBar, wantBar, doneBar
  <1>3. /\ WantOf(t)' = WantOf(t) => wantBar' = wantBar
        /\ DoneOf(t)' = DoneOf(t) => doneBar' = doneBar
    BY <1>1 DEF wantBar, doneBar
  <1>4. (PhaseOf(t) = "none" /\ PhaseOf(t)' = "open" /\ WantOf(t)' \in SUBSET Keys
           /\ DoneOf(t)' = DoneOf(t)) => Lifecycle!Submit(t)
    BY <1>1, <1>2, <1>3 DEF Lifecycle!Submit, phaseBar, wantBar, doneBar
  <1>5. ASSUME NEW k \in Keys, PhaseOf(t) = "open", k \in WantOf(t) \ DoneOf(t),
               WantOf(t)' = WantOf(t), DoneOf(t)' = DoneOf(t) \cup {k},
               PhaseOf(t)' \in IF DoneOf(t)' = WantOf(t) THEN {"succeeded"} ELSE {"open", "failed"}
        PROVE  Lifecycle!Progress(t, k)
    <2>1. doneBar' = [doneBar EXCEPT ![t] = @ \cup {k}] /\ doneBar'[t] = DoneOf(t)'
      BY <1>1, <1>2, <1>5 DEF doneBar
    <2>2. wantBar'[t] = WantOf(t)
      BY <1>2, <1>3, <1>5
    <2> QED
      BY <1>1, <1>2, <1>3, <1>5, <2>1, <2>2 DEF Lifecycle!Progress, phaseBar, wantBar, doneBar
  <1>6. (PhaseOf(t) = "open" /\ PhaseOf(t)' = "failed" /\ DoneOf(t) # WantOf(t)
           /\ WantOf(t)' = WantOf(t) /\ DoneOf(t)' = DoneOf(t)) => Lifecycle!GiveUp(t)
    BY <1>1, <1>2, <1>3 DEF Lifecycle!GiveUp, phaseBar, wantBar, doneBar
  <1>7. (PhaseOf(t) = "open" /\ PhaseOf(t)' = "succeeded" /\ WantOf(t) = {}
           /\ WantOf(t)' = WantOf(t) /\ DoneOf(t)' = DoneOf(t)) => Lifecycle!CloseEmpty(t)
    BY <1>1, <1>2, <1>3 DEF Lifecycle!CloseEmpty, phaseBar, wantBar, doneBar
  <1>8. (PhaseOf(t) = "failed" /\ PhaseOf(t)' = "open"
           /\ WantOf(t)' = WantOf(t) /\ DoneOf(t)' = DoneOf(t)) => Lifecycle!Reopen(t)
    BY <1>1, <1>2, <1>3 DEF Lifecycle!Reopen, phaseBar, wantBar, doneBar
  <1> QED
    BY <1>4, <1>5, <1>6, <1>7, <1>8

PageStep == [Lifecycle!Next]_(Lifecycle!lifecycle)

\* Where a task is on the page, by the status of its row.
LEMMA PhaseByStatus ==
  ASSUME NEW t \in Tasks
  PROVE  /\ task[t].status = "absent" => PhaseOf(t) = "none"
         /\ task[t].status \in Active => PhaseOf(t) = "open"
         /\ task[t].status \in Terminal => PhaseOf(t) = task[t].status
         /\ task'[t].status \in Active => PhaseOf(t)' = "open"
         /\ task'[t].status \in Terminal => PhaseOf(t)' = task'[t].status
  BY DEF PhaseOf, Active, Terminal

\* Creating a task is submitting it on the page.
LEMMA CreatePage ==
  ASSUME AsyncInv, NEW t \in Tasks, NEW ks \in SUBSET Keys, Create(t, ks)
  PROVE  PageStep
  <1> USE DEF Create
  <1>1. AsyncTypeOK /\ AbsentIsEmpty
    BY DEF AsyncInv
  <1>2. /\ \A u \in Tasks : u # t => task'[u] = task[u] /\ item'[u] = item[u]
        /\ \A k \in Keys : item'[t][k] = IF k \in ks THEN "pending" ELSE item[t][k]
    BY <1>1, SetItemsFacts DEF AsyncTypeOK, Statuses, Active
  <1>3. task'[t].status = "pending"
    BY <1>1 DEF AsyncTypeOK, TaskRow
  <1>4. PhaseOf(t) = "none" /\ PhaseOf(t)' = "open"
    BY <1>3, PhaseByStatus DEF Active
  <1>5. DoneOf(t)' = DoneOf(t) /\ WantOf(t)' \in SUBSET Keys
    BY <1>1, <1>2 DEF DoneOf, WantOf, KeysIn, AbsentIsEmpty
  <1> QED
    BY <1>2, <1>4, <1>5, PageSteps DEF PageStep, Lifecycle!Next

\* Completing a task without items closes it on the page, or changes nothing there.
LEMMA CompleteEmptyPage ==
  ASSUME AsyncInv, NEW t \in Tasks, CompleteEmpty(t)
  PROVE  PageStep
  <1> USE DEF CompleteEmpty
  <1>1. AsyncTypeOK /\ TerminalIsSettled
    BY DEF AsyncInv
  <1>2. \A u \in Tasks : u # t => task'[u] = task[u] /\ item'[u] = item[u]
    BY <1>1 DEF AsyncTypeOK
  <1>3. task'[t].status = "succeeded" /\ PhaseOf(t)' = "succeeded"
    BY <1>1, PhaseByStatus DEF AsyncTypeOK, TaskRow, Terminal
  <1>4. \A k \in Keys : item[t][k] \notin Statuses \ {"absent"}
    BY DEF KeysIn
  <1>5. FailedKeys(t) = {} /\ WantOf(t) = {}
    BY <1>4 DEF FailedKeys, WantOf, KeysIn, Statuses, Terminal, Active
  <1>6. WantOf(t)' = WantOf(t) /\ DoneOf(t)' = DoneOf(t)
    BY DEF WantOf, DoneOf
  <1>7. CASE task[t].status \in Active
    <2>1. PhaseOf(t) = "open"
      BY <1>7, PhaseByStatus
    <2> QED
      BY <1>2, <1>3, <1>5, <1>6, <2>1, PageSteps DEF PageStep, Lifecycle!Next
  <1>8. CASE task[t].status \in Terminal
    <2>1. task[t].status = "succeeded"
      BY <1>1, <1>5, <1>8 DEF TerminalIsSettled, Terminal
    <2>2. PhaseOf(t) = "succeeded"
      BY <1>8, <2>1, PhaseByStatus
    <2> QED
      BY <1>2, <1>3, <1>6, <2>2, SamePage DEF PageStep
  <1> QED
    BY <1>1, <1>7, <1>8 DEF AsyncTypeOK, TaskRow, Statuses

\* A claim does not show on the page.
LEMMA ClaimItemPage ==
  ASSUME AsyncInv, NEW t \in Tasks, NEW k \in Keys, ClaimItem(t, k)
  PROVE  PageStep
  <1> USE DEF ClaimItem
  <1>1. AsyncTypeOK /\ AbsentIsEmpty
    BY DEF AsyncInv
  <1>2. /\ \A u \in Tasks : u # t => task'[u] = task[u] /\ item'[u] = item[u]
        /\ \A j \in Keys : item'[t][j] = IF j \in {k} THEN "running" ELSE item[t][j]
    BY <1>1, SetItemsFacts DEF Statuses, Active, AsyncTypeOK
  <1>3. task[t].status \in Active
    BY <1>1 DEF AsyncTypeOK, AbsentIsEmpty, TaskRow, Statuses, ClaimGranted
  <1>4. task'[t].status \in Active
    BY <1>1, <1>3 DEF AsyncTypeOK, TaskRow, Active
  <1>5. PhaseOf(t) = "open" /\ PhaseOf(t)' = "open"
    BY <1>3, <1>4, PhaseByStatus
  <1>6. item[t][k] \in Active \cup Terminal /\ item[t][k] # "succeeded"
    BY <1>1 DEF AsyncTypeOK, Statuses, ClaimGranted
  <1>7. WantOf(t)' = WantOf(t) /\ DoneOf(t)' = DoneOf(t)
    BY <1>2, <1>6 DEF WantOf, DoneOf, KeysIn, Active
  <1> QED
    BY <1>2, <1>5, <1>7, SamePage DEF PageStep

\* A verdict on an item is progress, gives up the rest, or does not show on the page.
LEMMA FinishItemPage ==
  ASSUME AsyncInv, NEW t \in Tasks, NEW k \in Keys, NEW s \in Terminal, FinishItem(t, k, s)
  PROVE  PageStep
  <1> USE DEF FinishItem
  <1>1. AsyncTypeOK /\ AbsentIsEmpty
    BY DEF AsyncInv
  <1>2. /\ \A u \in Tasks : u # t => task'[u] = task[u] /\ item'[u] = item[u]
        /\ \A j \in Keys : item'[t][j] = IF j \in {k} THEN s ELSE item[t][j]
    BY <1>1, SetItemsFacts DEF AsyncTypeOK, Statuses
  <1>3. task[t].status \in Active /\ PhaseOf(t) = "open"
    BY <1>1, PhaseByStatus DEF AsyncTypeOK, AbsentIsEmpty, TaskRow, Statuses, FinishOpen
  <1>4. Settles(task'[t], task[t], item'[t])
    <2>1. task[t] \in TaskRow /\ task'[t] = Aggregated(task[t], item'[t])
      BY <1>1 DEF AsyncTypeOK
    <2> QED
      BY <2>1, AggregatedSettles
  <1>5. item[t][k] \in Active \cup Terminal /\ item[t][k] # "succeeded"
    BY <1>1 DEF AsyncTypeOK, Statuses, FinishOpen
  <1>6. k \in WantOf(t) \ DoneOf(t) /\ WantOf(t)' = WantOf(t)
    BY <1>2, <1>5 DEF WantOf, DoneOf, KeysIn
  <1>7. PhaseOf(t)' = IF KeysIn(item'[t], Active) # {} THEN "open"
                      ELSE IF KeysIn(item'[t], {"failed"}) # {} THEN "failed" ELSE "succeeded"
    <2>1. task[t].status \notin Terminal
      BY <1>3 DEF Active, Terminal
    <2>2. CASE KeysIn(item'[t], Active) # {}
      BY <1>3, <1>4, <2>1, <2>2, PhaseByStatus DEF Settles
    <2>3. CASE KeysIn(item'[t], Active) = {}
      BY <1>4, <2>1, <2>3, PhaseByStatus DEF Settles, Terminal
    <2> QED
      BY <2>2, <2>3
  <1>8. CASE s = "succeeded"
    <2>1. DoneOf(t)' = DoneOf(t) \cup {k}
      BY <1>2, <1>8 DEF DoneOf, KeysIn
    <2>2. DoneOf(t)' = WantOf(t)' <=>
            KeysIn(item'[t], Active) = {} /\ KeysIn(item'[t], {"failed"}) = {}
      BY DEF DoneOf, WantOf, KeysIn, Active, Terminal
    <2>3. PhaseOf(t)' \in IF DoneOf(t)' = WantOf(t) THEN {"succeeded"} ELSE {"open", "failed"}
      BY <1>6, <1>7, <2>2
    <2> QED
      BY <1>2, <1>3, <1>6, <2>1, <2>3, PageSteps DEF PageStep, Lifecycle!Next
  <1>9. CASE s = "failed"
    <2>1. DoneOf(t)' = DoneOf(t)
      BY <1>2, <1>5, <1>9 DEF DoneOf, KeysIn
    <2>2. KeysIn(item'[t], {"failed"}) # {}
      BY <1>2, <1>9 DEF KeysIn
    <2>3. PhaseOf(t)' = "open" \/ PhaseOf(t)' = "failed"
      BY <1>7, <2>2
    <2> QED
      BY <1>2, <1>3, <1>6, <2>1, <2>3, PageSteps, SamePage DEF PageStep, Lifecycle!Next
  <1> QED
    BY <1>8, <1>9 DEF Terminal

\* Failing the open items gives up the rest of an open task.
LEMMA FailPendingItemsPage ==
  ASSUME AsyncInv, NEW t \in Tasks, FailPendingItems(t)
  PROVE  PageStep
  <1> USE DEF FailPendingItems
  <1>1. AsyncTypeOK /\ TerminalIsSettled /\ OpenTaskHasWork
    BY DEF AsyncInv
  <1>2. /\ \A u \in Tasks : u # t => task'[u] = task[u] /\ item'[u] = item[u]
        /\ \A j \in Keys : item'[t][j] = IF j \in ActiveKeys(t) THEN "failed" ELSE item[t][j]
    BY <1>1, SetItemsFacts DEF AsyncTypeOK, Statuses, Terminal
  <1>3. Settles(task'[t], task[t], item'[t])
    <2>1. task[t] \in TaskRow /\ task'[t] = Aggregated(task[t], item'[t])
      BY <1>1 DEF AsyncTypeOK
    <2> QED
      BY <2>1, AggregatedSettles
  <1>4. WantOf(t)' = WantOf(t) /\ DoneOf(t)' = DoneOf(t) /\ KeysIn(item'[t], Active) = {}
    BY <1>2 DEF WantOf, DoneOf, ActiveKeys, KeysIn, Active, Terminal
  <1>5. CASE task[t].status \in Terminal
    <2>1. task'[t].status = task[t].status
      BY <1>3, <1>5 DEF Settles
    <2> QED
      BY <1>2, <1>4, <1>5, <2>1, PhaseByStatus, SamePage DEF PageStep
  <1>6. CASE task[t].status \in Active
    <2>1. PhaseOf(t) = "open" /\ task[t].status \notin Terminal
      BY <1>6, PhaseByStatus DEF Active, Terminal
    <2>2. PhaseOf(t)' = IF KeysIn(item'[t], {"failed"}) # {} THEN "failed" ELSE "succeeded"
      BY <1>3, <1>4, <2>1, PhaseByStatus DEF Settles, Terminal
    <2>3. CASE KeysIn(item'[t], {"failed"}) # {}
      <3>1. DoneOf(t) # WantOf(t)
        BY <1>4, <2>3 DEF WantOf, DoneOf, KeysIn, Terminal
      <3> QED
        BY <1>2, <1>4, <2>1, <2>2, <2>3, <3>1, PageSteps DEF PageStep, Lifecycle!Next
    <2>4. CASE KeysIn(item'[t], {"failed"}) = {}
      <3>1. ActiveKeys(t) = {}
        BY <1>2, <2>4 DEF ActiveKeys, KeysIn
      <3>2. WantOf(t) = {}
        BY <1>1, <1>6, <3>1 DEF OpenTaskHasWork, WantOf
      <3> QED
        BY <1>2, <1>4, <2>1, <2>2, <2>4, <3>2, PageSteps DEF PageStep, Lifecycle!Next
    <2> QED
      BY <2>3, <2>4
  <1> QED
    BY <1>1, <1>5, <1>6 DEF AsyncTypeOK, TaskRow, Statuses

\* A retry reopens the task on the page.
LEMMA RetryPage ==
  ASSUME AsyncInv, NEW t \in Tasks, Retry(t)
  PROVE  PageStep
  <1> USE DEF Retry, Reopen
  <1>1. AsyncTypeOK
    BY DEF AsyncInv
  <1>2. /\ \A u \in Tasks : u # t => task'[u] = task[u] /\ item'[u] = item[u]
        /\ \A j \in Keys : item'[t][j] = IF j \in FailedKeys(t) THEN "pending" ELSE item[t][j]
    BY <1>1, SetItemsFacts DEF AsyncTypeOK, Statuses, Active
  <1>3. PhaseOf(t) = "failed" /\ PhaseOf(t)' = "open"
    BY <1>1, PhaseByStatus DEF AsyncTypeOK, TaskRow, Active, Terminal
  <1>4. WantOf(t)' = WantOf(t) /\ DoneOf(t)' = DoneOf(t)
    BY <1>2 DEF WantOf, DoneOf, FailedKeys, KeysIn, Active, Terminal
  <1> QED
    BY <1>2, <1>3, <1>4, PageSteps DEF PageStep, Lifecycle!Next

\* Every transaction is a step of the page or leaves it as it is.
THEOREM StepIsPageStep == AsyncInv /\ [AsyncNext]_asyncVars => PageStep
  <1> SUFFICES ASSUME AsyncInv, [AsyncNext]_asyncVars PROVE PageStep
    OBVIOUS
  <1>1. CASE \E t \in Tasks, ks \in SUBSET Keys : Create(t, ks)
    BY <1>1, CreatePage
  <1>2. CASE \E t \in Tasks : CompleteEmpty(t)
    BY <1>2, CompleteEmptyPage
  <1>3. CASE \E t \in Tasks, k \in Keys : ClaimItem(t, k)
    BY <1>3, ClaimItemPage
  <1>4. CASE \E t \in Tasks, k \in Keys, s \in Terminal : FinishItem(t, k, s)
    BY <1>4, FinishItemPage
  <1>5. CASE \E t \in Tasks : FailPendingItems(t) \/ TimeoutStale(t)
    BY <1>5, FailPendingItemsPage DEF TimeoutStale
  <1>6. CASE \E t \in Tasks : Retry(t)
    BY <1>6, RetryPage
  <1>7. CASE AsyncTick \/ UNCHANGED asyncVars
    <2>1. task' = task /\ item' = item
      BY <1>7 DEF AsyncTick, db, asyncVars
    <2>2. phaseBar' = phaseBar /\ wantBar' = wantBar /\ doneBar' = doneBar
      BY <2>1 DEF phaseBar, wantBar, doneBar, PhaseOf, WantOf, DoneOf
    <2> QED
      BY <2>2 DEF PageStep, Lifecycle!lifecycle, phaseBar, wantBar, doneBar
  <1> QED
    BY <1>1, <1>2, <1>3, <1>4, <1>5, <1>6, <1>7 DEF AsyncNext

\* Empty tables show an empty page.
THEOREM InitIsPageInit == AsyncInit => Lifecycle!Init
  BY DEF AsyncInit, Lifecycle!Init, PhaseOf, WantOf, DoneOf, KeysIn, Active, Terminal

\* The task tables implement the task page.
THEOREM AsyncImplementsLifecycle == AsyncSpec => LifecycleSpec
  BY InitIsPageInit, StepIsPageStep, AsyncInvariant, PTL
     DEF AsyncSpec, LifecycleSpec, Lifecycle!Spec, PageStep
=============================================================================
