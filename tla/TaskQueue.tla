----------------------------- MODULE TaskQueue -----------------------------
(***************************************************************************)
(* The in-memory queue that runs the items of the asynchronous tasks       *)
(* (server/internal/task/queue.go), the handlers it runs (jobs.go and      *)
(* cmd/server/userdelivery.go), the retry timers, the timeout sweeper and  *)
(* the administrator's retry, over the task tables of AsyncTask.           *)
(*                                                                         *)
(* The tables survive a crash of the process; the channel, the workers,    *)
(* the timers and the in-flight counters do not, and nothing dispatches    *)
(* the open tasks again when the process is back.                          *)
(*                                                                         *)
(* Time is discrete.  It passes only while the program waits: for a        *)
(* handler, for a timer, or for nothing at all (see Quiet).                *)
(***************************************************************************)
EXTENDS AsyncTask, Sequences, Functions, Bags

CONSTANTS Workers,      \* the goroutines of the pool
          Kind,         \* Kind[t]: "traffic" (SyncNodeTrafficJob) or "delivery" (UserDeliveryJob)
          ChanCap,      \* buffer of the channel of jobs
          Retries,      \* q.retries: how often a failed handler is run again
          Backoff,      \* q.backoff: the delays between the runs
          JobTimeout,   \* q.jobTimeout: time for all the runs of a job together
          MaxReleases,  \* MaxLockReleases: how often a job that met a locked node is put back
          LockDelay,    \* lockRequeueDelay: how long it waits then
          SweeperSeesQueue,  \* is the queue wired to the service the sweeper runs on
          MaxCrashes, MaxRetries, MaxLost  \* bounds of the model: see spent

ASSUME QueueAssumption ==
  /\ IsFiniteSet(Workers)
  /\ Kind \in [Tasks -> {"traffic", "delivery"}]
  /\ ChanCap \in Nat \ {0} /\ Retries \in Nat /\ MaxReleases \in Nat
  /\ JobTimeout \in Nat \ {0} /\ LockDelay \in Nat \ {0}
  /\ Backoff \in Seq(Nat \ {0}) /\ Backoff # <<>>
  /\ SweeperSeesQueue \in BOOLEAN
  /\ MaxCrashes \in Nat /\ MaxRetries \in Nat /\ MaxLost \in Nat

\* staleItemMinutes is chosen above the time limit of a job, and below the
\* limit for a whole task.
ASSUME StaleOrderAssumption == JobTimeout < StaleItem /\ StaleItem < StaleTask

VARIABLES queue,     \* jobs in the channel, then those of senders blocked on it
          worker,    \* worker[w]: what goroutine w is doing
          away,      \* bag of jobs that a timer will bring back
          todo,      \* todo[t]: the items a dispatcher of t has still to enqueue
          inflight,  \* inflightMap, the items the queue says it holds
          gauge,     \* the counters queued and running of the monitoring page
          sweep,     \* the run of the timeout sweeper
          spent      \* crashes, administrators' retries and verdicts the database refused so far

queueVars == <<queue, worker, away, todo, inflight, gauge, sweep, spent>>
vars == <<task, item, taskIdle, itemIdle, queue, worker, away, todo, inflight, gauge, sweep, spent>>

-----------------------------------------------------------------------------
\* A job has no deadline until a worker first executes it.
NoDeadline == JobTimeout + 1
Job == [task : Tasks, key : Keys, attempt : 0 .. Retries, release : 0 .. MaxReleases,
        left : 0 .. NoDeadline]
NewJob(t, k) == [task |-> t, key |-> k, attempt |-> 0, release |-> 0, left |-> NoDeadline]
IsNew(j) == j.attempt = 0 /\ j.release = 0

\* A worker has taken a job (not yet registered as in flight again), is inside
\* the handler (claim, work, synced) or is back from it with an error.
InHandler == {"claim", "work", "synced"}
Idle == [pc |-> "idle"]
WorkerState == {Idle} \cup [pc : {"taken", "failed"} \cup InHandler, job : Job]
Busy(w) == worker[w].pc # "idle"

\* A job that is away waits for a retry, and is held, or for a locked node, and
\* is not; a retry timer lets go of it before it enqueues it.
Absence == [job : Job, wait : Nat, held : BOOLEAN]

\* The sweeper is due, has read what it will sweep, or rests until its next turn.
NoSweep == [pc |-> "due", ids |-> {}, refs |-> {}]
SweepDone == [NoSweep EXCEPT !.pc = "rest"]

QueueInit ==
  /\ AsyncInit
  /\ queue = <<>>
  /\ worker = [w \in Workers |-> Idle]
  /\ away = EmptyBag
  /\ todo = [t \in Tasks |-> {}]
  /\ inflight = [t \in Tasks |-> [k \in Keys |-> 0]]
  /\ gauge = [queued |-> 0, running |-> 0]
  /\ sweep = NoSweep
  /\ spent = [crash |-> 0, retry |-> 0, lost |-> 0]

\* markInflight: the count of an item goes up or down, never below zero.
Hold(j) == inflight' = [inflight EXCEPT ![j.task][j.key] = @ + 1]
LetGo(j) == inflight' = [inflight EXCEPT ![j.task][j.key] = IF @ > 0 THEN @ - 1 ELSE 0]

\* Enqueue: held and counted before it is sent.
Enqueue(j) ==
  /\ queue' = Append(queue, j)
  /\ Hold(j)
  /\ gauge' = [gauge EXCEPT !.queued = @ + 1]

\* A bag of absences with one more and with one less.
With(b, a) == b (+) SetToBag({a})
Without(b, a) == b (-) SetToBag({a})

-----------------------------------------------------------------------------
(* The callers that create, dispatch and retry tasks. *)

\* FindOrCreateTrafficSync and userDelivery.Dispatch: create a task, then
\* dispatch its items.
Submit(t, ks) ==
  /\ ks # {}
  /\ Create(t, ks)
  /\ todo' = [todo EXCEPT ![t] = ks]
  /\ UNCHANGED <<queue, worker, away, inflight, gauge, sweep, spent>>

\* Dispatch, the next item: the loop goes on when the previous send went through.
DispatchBlocked(t) ==
  \E i \in ChanCap + 1 .. Len(queue) : queue[i].task = t /\ IsNew(queue[i])
DispatchNext(t, k) ==
  /\ k \in todo[t]
  /\ ~DispatchBlocked(t)
  /\ Enqueue(NewJob(t, k))
  /\ todo' = [todo EXCEPT ![t] = @ \ {k}]
  /\ UNCHANGED <<asyncVars, worker, away, sweep, spent>>

\* Retry by an administrator: the transaction, then Dispatch, which has no case
\* for user_delivery and enqueues nothing for it.
AdminRetry(t) ==
  /\ spent.retry < MaxRetries
  /\ Retry(t)
  /\ todo' = [todo EXCEPT ![t] = IF Kind[t] = "delivery" THEN @ ELSE @ \cup FailedKeys(t)]
  /\ spent' = [spent EXCEPT !.retry = @ + 1]
  /\ UNCHANGED <<queue, worker, away, inflight, gauge, sweep>>

-----------------------------------------------------------------------------
(* A worker. *)

\* The worker loop receives a job and lets go of it.
Take(w) ==
  /\ ~Busy(w)
  /\ queue # <<>>
  /\ queue' = Tail(queue)
  /\ LetGo(Head(queue))
  /\ worker' = [worker EXCEPT ![w] = [pc |-> "taken", job |-> Head(queue)]]
  /\ gauge' = [queued |-> gauge.queued - 1, running |-> gauge.running + 1]
  /\ UNCHANGED <<asyncVars, away, todo, sweep, spent>>

\* execute sets the deadline of a new job; runAttempt holds it again and starts
\* the handler.  A job past its deadline is not run.
Start(w) ==
  /\ worker[w].pc = "taken"
  /\ LET j == worker[w].job
         started == [j EXCEPT !.left = IF @ = NoDeadline THEN JobTimeout ELSE @]
     IN  IF started.left = 0
         THEN /\ worker' = [worker EXCEPT ![w] = [pc |-> "failed", job |-> started]]
              /\ UNCHANGED inflight
         ELSE /\ worker' = [worker EXCEPT ![w] = [pc |-> "claim", job |-> started]]
              /\ Hold(j)
  /\ UNCHANGED <<asyncVars, queue, away, todo, gauge, sweep, spent>>

\* Mutant: the verdict is written on closed tasks and succeeded items too.
FinishBlindly(t, k, s) ==
  /\ SetItems(t, {k}, s)
  /\ task' = [task EXCEPT ![t] = Aggregated(@, item'[t])]
  /\ TouchTask(t)
  /\ TouchItems(t, {k})

\* finishItem as a caller sees it: closed tasks and succeeded items are let be.
TryFinish(t, k, s) ==
  IF FinishOpen(t, k) THEN FinishItem(t, k, s) ELSE UNCHANGED asyncVars

\* The handler returns without an error, and the worker is free.
Return(w) ==
  /\ worker' = [worker EXCEPT ![w] = Idle]
  /\ LetGo(worker[w].job)
  /\ gauge' = [gauge EXCEPT !.running = @ - 1]
  /\ UNCHANGED <<queue, todo, sweep>>

\* A verdict that the database refuses to take is only logged.
LoseVerdict ==
  /\ spent.lost < MaxLost
  /\ spent' = [spent EXCEPT !.lost = @ + 1]
  /\ UNCHANGED asyncVars

\* The handler returns an error, or the deadline passes: runAttempt lets go.
Fail(w) ==
  /\ worker' = [worker EXCEPT ![w].pc = "failed"]
  /\ LetGo(worker[w].job)
  /\ UNCHANGED <<asyncVars, queue, away, todo, gauge, sweep, spent>>

\* The handler goes on to its next step.
Proceed(w, pc) ==
  /\ worker' = [worker EXCEPT ![w].pc = pc]
  /\ UNCHANGED <<queue, away, todo, inflight, gauge, sweep, spent>>

\* The handler claims its item.  Refused: nothing to do; no attempts left: an error.
HandlerClaim(w) ==
  /\ worker[w].pc = "claim" /\ worker[w].job.left > 0
  /\ LET t == worker[w].job.task
         k == worker[w].job.key
     IN  \/ ClaimItem(t, k) /\ Proceed(w, "work")
         \/ /\ item[t][k] = "succeeded" \/ task[t].status \in Terminal
            /\ Return(w) /\ UNCHANGED <<asyncVars, away, spent>>
         \/ /\ item[t][k] # "succeeded" /\ OutOfAttempts(t)
            /\ Fail(w)

\* The node is synchronised, or the user delivered to every node.
HandlerSync(w) ==
  /\ worker[w].pc = "work" /\ worker[w].job.left > 0
  /\ Proceed(w, "synced") /\ UNCHANGED asyncVars

\* The handler gives its item a verdict of its own: a node that is gone, a lock
\* that was never free, a delivery that failed.
HandlerRefuses(w) ==
  /\ worker[w].pc = "work" /\ worker[w].job.left > 0
  /\ TryFinish(worker[w].job.task, worker[w].job.key, "failed")
  /\ Return(w) /\ UNCHANGED <<away, spent>>

\* Mutant: one release too many.
MayReleaseOnceMore(j) == Kind[j.task] = "traffic" /\ j.release <= MaxReleases
MayRelease(j) == Kind[j.task] = "traffic" /\ j.release < MaxReleases

\* Mutant: the job of a locked node is dropped.
DropLocked(w) ==
  /\ worker[w].pc = "work" /\ worker[w].job.left > 0
  /\ MayRelease(worker[w].job)
  /\ Return(w) /\ UNCHANGED <<asyncVars, away, spent>>

\* The node is locked by another synchronisation: the same job comes back after
\* LockDelay, a bounded number of times; nobody holds it meanwhile.
HandlerNodeLocked(w) ==
  /\ worker[w].pc = "work" /\ worker[w].job.left > 0
  /\ MayRelease(worker[w].job)
  /\ away' = With(away, [job |-> [worker[w].job EXCEPT !.release = @ + 1],
                         wait |-> LockDelay, held |-> FALSE])
  /\ Return(w) /\ UNCHANGED <<asyncVars, spent>>

\* The handler completes its item.  At the deadline the worker may have stopped
\* waiting for it although the transaction is committed.
HandlerComplete(w) ==
  /\ worker[w].pc = "synced"
  /\ TryFinish(worker[w].job.task, worker[w].job.key, "succeeded")
  /\ \/ worker[w].job.left > 0 /\ Return(w) /\ UNCHANGED <<away, spent>>
     \/ /\ worker[w].job.left = 0
        /\ worker' = [worker EXCEPT ![w].pc = "failed"]
        /\ LetGo(worker[w].job)
        /\ UNCHANGED <<queue, away, todo, gauge, sweep, spent>>

\* The database or the node fails the handler.  A delivery reports no error once
\* it has claimed its item: it only logs that it could not write the verdict.
HandlerError(w) ==
  /\ worker[w].pc \in InHandler /\ worker[w].job.left > 0
  /\ IF Kind[worker[w].job.task] = "traffic" \/ worker[w].pc = "claim"
     THEN Fail(w)
     ELSE Return(w) /\ LoseVerdict /\ UNCHANGED away

\* Mutant: the worker waits for its handler.
WaitForHandler(w) == worker[w].pc \notin InHandler \cup {"idle", "taken", "failed"} /\ Fail(w)

\* The deadline passes: the worker leaves the handler to itself.
DeadlineHits(w) ==
  /\ worker[w].pc \in InHandler
  /\ worker[w].job.left = 0
  /\ Fail(w)

\* execute after an error: another run later if one is left and its delay fits
\* in the time of the job, otherwise the item has failed.
Delay(j) == Backoff[IF j.attempt + 1 < Len(Backoff) THEN j.attempt + 1 ELSE Len(Backoff)]
\* Mutant: the deadline is not looked at.
MayRetryAnyway(j) == j.attempt < Retries
MayRetry(j) == j.attempt < Retries /\ Delay(j) < j.left

\* scheduleRetry: held by its timer, and the worker is free.
RetryLater(w) ==
  /\ worker[w].pc = "failed"
  /\ LET j == worker[w].job
     IN  /\ MayRetry(j)
         /\ away' = With(away, [job |-> [j EXCEPT !.attempt = @ + 1],
                                wait |-> Delay(j), held |-> TRUE])
         /\ Hold(j)
  /\ worker' = [worker EXCEPT ![w] = Idle]
  /\ gauge' = [gauge EXCEPT !.running = @ - 1]
  /\ UNCHANGED <<asyncVars, queue, todo, sweep, spent>>

\* failItem of the queue; an error of the database is only logged.
GiveUp(w) ==
  /\ worker[w].pc = "failed"
  /\ ~MayRetry(worker[w].job)
  /\ \/ TryFinish(worker[w].job.task, worker[w].job.key, "failed") /\ UNCHANGED spent
     \/ LoseVerdict
  /\ worker' = [worker EXCEPT ![w] = Idle]
  /\ gauge' = [gauge EXCEPT !.running = @ - 1]
  /\ UNCHANGED <<queue, away, todo, inflight, sweep>>

-----------------------------------------------------------------------------
(* The timers, the sweeper, crashes and time. *)

\* Mutant: the timer still holds the job it enqueues.
TimerKeeps(a) ==
  /\ BagIn(a, away) /\ a.wait = 0 /\ a.held
  /\ away' = With(Without(away, a), [a EXCEPT !.held = FALSE])
  /\ UNCHANGED <<asyncVars, queue, worker, todo, inflight, gauge, sweep, spent>>

\* A retry timer wakes up and lets go of its job ...
TimerWakes(a) ==
  /\ BagIn(a, away) /\ a.wait = 0 /\ a.held
  /\ away' = With(Without(away, a), [a EXCEPT !.held = FALSE])
  /\ LetGo(a.job)
  /\ UNCHANGED <<asyncVars, queue, worker, todo, gauge, sweep, spent>>

\* ... and enqueues it, as the timer of a released job does.
Redeliver(a) ==
  /\ BagIn(a, away) /\ a.wait = 0 /\ ~a.held
  /\ away' = Without(away, a)
  /\ Enqueue(a.job)
  /\ UNCHANGED <<asyncVars, worker, todo, sweep, spent>>

\* The scheduler starts TimeoutStale from time to time, at most once between two
\* ticks.  It reads the stale tasks and the stale items ...
SweepReads ==
  /\ sweep.pc = "due"
  /\ LET ids == {t \in Tasks : StaleByRow(t)}
         refs == {r \in Tasks \X Keys : r[2] \in StaleKeys(r[1])}
     IN  /\ ids # {} \/ refs # {}
         /\ sweep' = [pc |-> "check", ids |-> ids, refs |-> refs]
  /\ UNCHANGED <<asyncVars, queue, worker, away, todo, inflight, gauge, spent>>

\* ... then asks the queue about each item, if it knows the queue ...
SweepChecks(t, k) ==
  /\ sweep.pc = "check" /\ <<t, k>> \in sweep.refs
  /\ sweep' = [sweep EXCEPT !.refs = @ \ {<<t, k>>},
                            !.ids = IF SweeperSeesQueue /\ inflight[t][k] > 0
                                    THEN @ ELSE @ \cup {t}]
  /\ UNCHANGED <<asyncVars, queue, worker, away, todo, inflight, gauge, spent>>

\* ... and fails the open items of each task it has found, one task at a time.
SweepFails(t) ==
  /\ sweep.pc = "check" /\ sweep.refs = {} /\ t \in sweep.ids
  /\ FailPendingItems(t)
  /\ sweep' = IF sweep.ids = {t} THEN SweepDone ELSE [sweep EXCEPT !.ids = @ \ {t}]
  /\ UNCHANGED <<queue, worker, away, todo, inflight, gauge, spent>>
SweepEnds ==
  /\ sweep.pc = "check" /\ sweep.refs = {} /\ sweep.ids = {}
  /\ sweep' = SweepDone
  /\ UNCHANGED <<asyncVars, queue, worker, away, todo, inflight, gauge, spent>>

\* The process dies and comes back: only the tables are left.
Crash ==
  /\ spent.crash < MaxCrashes
  /\ spent' = [spent EXCEPT !.crash = @ + 1]
  /\ queue' = <<>>
  /\ worker' = [w \in Workers |-> Idle]
  /\ away' = EmptyBag
  /\ todo' = [t \in Tasks |-> {}]
  /\ inflight' = [t \in Tasks |-> [k \in Keys |-> 0]]
  /\ gauge' = [queued |-> 0, running |-> 0]
  /\ sweep' = NoSweep
  /\ UNCHANGED asyncVars

\* Nothing is left to do but to wait.
Quiet ==
  /\ \A w \in Workers : \/ worker[w].pc = "idle" /\ queue = <<>>
                        \/ worker[w].pc \in InHandler /\ worker[w].job.left > 0
  /\ \A a \in BagToSet(away) : a.wait > 0
  /\ \A t \in Tasks : todo[t] # {} => DispatchBlocked(t)
  /\ sweep.pc # "check"

AgedJob(j) == IF j.left \in 1 .. JobTimeout THEN [j EXCEPT !.left = @ - 1] ELSE j
AgedAbsence(a) == [a EXCEPT !.job = AgedJob(@), !.wait = @ - 1]
\* Absences that differed in a deadline that has passed are counted together.
AgedAway ==
  [b \in {AgedAbsence(a) : a \in BagToSet(away)} |->
     SumFunctionOnSet(away, {a \in BagToSet(away) : AgedAbsence(a) = b})]

Tick ==
  /\ Quiet
  /\ AgeRows
  /\ queue' = [i \in 1 .. Len(queue) |-> AgedJob(queue[i])]
  /\ worker' = [w \in Workers |-> IF Busy(w) THEN [worker[w] EXCEPT !.job = AgedJob(@)] ELSE Idle]
  /\ away' = AgedAway
  /\ sweep' = NoSweep
  /\ UNCHANGED <<db, todo, inflight, gauge, spent>>

-----------------------------------------------------------------------------
WorkerStep(w) ==
  \/ Take(w) \/ Start(w)
  \/ HandlerClaim(w) \/ HandlerSync(w) \/ HandlerRefuses(w) \/ HandlerNodeLocked(w)
  \/ HandlerComplete(w) \/ HandlerError(w) \/ DeadlineHits(w)
  \/ RetryLater(w) \/ GiveUp(w)

\* What the worker does by itself, without an answer from the handler.
WorkerAlone(w) == Take(w) \/ Start(w) \/ DeadlineHits(w) \/ RetryLater(w) \/ GiveUp(w)

TimerStep == \E a \in BagToSet(away) : TimerWakes(a) \/ Redeliver(a)
DispatchStep == \E t \in Tasks, k \in Keys : DispatchNext(t, k)
SweepStep == \/ SweepReads
             \/ \E t \in Tasks : SweepFails(t) \/ \E k \in Keys : SweepChecks(t, k)
             \/ SweepEnds

QueueNext ==
  \/ \E t \in Tasks : AdminRetry(t) \/ \E ks \in SUBSET Keys : Submit(t, ks)
  \/ DispatchStep
  \/ \E w \in Workers : WorkerStep(w)
  \/ TimerStep
  \/ SweepStep
  \/ Crash
  \/ Tick

QueueSpec == QueueInit /\ [][QueueNext]_vars

\* Goroutines and timers run, time passes and the sweeper is scheduled; that a
\* handler ever answers is not assumed.
QueueFairness ==
  /\ \A w \in Workers : WF_vars(WorkerAlone(w))
  /\ WF_vars(TimerStep) /\ WF_vars(DispatchStep) /\ WF_vars(SweepStep) /\ WF_vars(Tick)

FairQueueSpec == QueueSpec /\ QueueFairness

-----------------------------------------------------------------------------
\* The places that hold item k of t: the channel, a retry timer, a running handler.
InQueue(t, k) == {i \in 1 .. Len(queue) : queue[i].task = t /\ queue[i].key = k}
OnTimer(t, k) == {a \in BagToSet(away) : a.job.task = t /\ a.job.key = k}
AtWorker(t, k) == {w \in Workers : Busy(w) /\ worker[w].job.task = t /\ worker[w].job.key = k}
Holders(t, k) ==
  Cardinality(InQueue(t, k))
  + SumFunctionOnSet(away, {a \in OnTimer(t, k) : a.held})
  + Cardinality({w \in AtWorker(t, k) : worker[w].pc \in InHandler})

QueueTypeOK ==
  /\ AsyncTypeOK
  /\ queue \in Seq(Job)
  /\ worker \in [Workers -> WorkerState]
  /\ IsABag(away) /\ BagToSet(away) \subseteq Absence
  /\ todo \in [Tasks -> SUBSET Keys]
  /\ inflight \in [Tasks -> [Keys -> Nat]]
  /\ gauge \in [queued : Nat, running : Nat]
  /\ sweep \in [pc : {"due", "check", "rest"}, ids : SUBSET Tasks, refs : SUBSET (Tasks \X Keys)]

\* The in-flight map counts the holders of each item, and the gauges of the
\* monitoring page the waiting and the running jobs, through every handover,
\* retry, time limit and crash (queue.go, markInflight, Stats).
CountersExact ==
  /\ \A t \in Tasks, k \in Keys : inflight[t][k] = Holders(t, k)
  /\ gauge.queued = Len(queue)
  /\ gauge.running = Cardinality({w \in Workers : Busy(w)})

\* A job is never made to wait for a run that its deadline forbids (queue.go,
\* execute: a delay that does not fit ends the chain at once).
RetryFitsDeadline ==
  \A a \in BagToSet(away) : a.held => a.wait < a.job.left

\* As long as the process lives and the database takes the verdicts, an item
\* that is still open has a job that will settle it, however the timers, locked
\* nodes, sweeps and retries fall (queue.go, jobs.go).  The retry of a delivery is
\* the exception: Retry reopens it, and Dispatch has no case for it.
OpenItemHasJob ==
  (spent.crash = 0 /\ spent.lost = 0) =>
    \A t \in Tasks : \A k \in ActiveKeys(t) :
      \/ k \in todo[t] \/ InQueue(t, k) # {} \/ OnTimer(t, k) # {} \/ AtWorker(t, k) # {}
      \/ Kind[t] = "delivery" /\ spent.retry > 0

\* No task stays open for ever, although handlers may hang, the jobs die with the
\* process and a retried delivery gets none (async.go, TimeoutStale: it exists for
\* this).
EveryTaskEnds ==
  \A t \in Tasks : (task[t].status \in Active) ~> (task[t].status \in Terminal)

\* A handler that never answers does not keep its worker (queue.go, runAttempt).
WorkersComeBack == \A w \in Workers : Busy(w) ~> ~Busy(w)

\* The queue calls the transactions of the task service and does nothing else to
\* the tables, so what holds of AsyncTask holds of it.
TablesAsSpecified == AsyncSpec

-----------------------------------------------------------------------------
(* What a comment of the code says, and the code does not do. *)

\* An item that the queue holds is not failed by the sweeper (async.go).
SweepSparesHeldItems ==
  [][\A t \in Tasks, k \in Keys :
       (SweepFails(t) /\ inflight[t][k] > 0) => item'[t][k] = item[t][k]]_vars
=============================================================================
