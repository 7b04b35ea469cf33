# Formal models of 3xui-hub

3xui-hub sells and operates proxy services: a Go server (`server/`) keeps users, plans, orders
and nodes in MySQL, drives 3x-ui panels and its own agents (`agent/`) on the nodes, and serves a
Vue frontend. These modules model the parts of the server and its agent whose correctness depends on the
order in which several actors act: queue workers, timers, handlers that ran out of time,
database transactions, administrators, the scheduler, connections to the nodes, and restarts of
the panel, the agents and the kernels.

## Inventory

| Part | State | Operations | Interacts with | Hard behaviour | What makes it correct |
|---|---|---|---|---|---|
| Task tables (`internal/task/async.go`) | `async_tasks`, `async_task_items` | create, claim, complete, fail, fail the rest, retry, time out, complete empty | handlers, sweeper, administrator's page | late and duplicate verdicts, sweep against work in progress | verdict settled and final, no task open without work, attempts bounded |
| Job queue (`queue.go`, `jobs.go`) | channel, workers, timers, in-flight counts, gauges | enqueue, take, run, retry later, give up, put back | task tables, scheduler | time limits, handlers that hang, backpressure, restart | counts exact, every open item has a job, workers come back, every task ends |
| Scheduler (`schedule.go`, `defaults.go`) | busy map | tick, run a named job | everything periodic | overlap | one run of a job at a time |
| Node tasks (`nodejobs.go`, `nodetasks.go`, `node_crud.go`, `node_sqlstore.go`) | items of users, `nodes.enabled`, the wish in the meta of the task, clients at the panel | create, switch, change and delete a node; batch, scan, clean, finalise, retry | job queue, task tables, panels | two batches at one user, a node that is deleted meanwhile, a switch that races with the last batch, sweeps, crashes | what is reported done is done on the panel, a cleaned panel stays empty, the node ends as asked for last |
| Payments (`payment.go`, `payment_service.go`) | orders, user plan, uses of discount codes, rewards | create, notify, query, retry, complete, expire | gateways, balance, delivery | handlers that decide by a stale copy of the order, requests cut off between paid and applied | nothing is given unpaid, what is paid takes effect, a code stays within its budget |
| Balance (`payment_balance.go`, `balance_sqlstore.go`, `affiliate_sqlstore.go`) | `users.balance`, `balance_logs`, gift cards, commissions | deduct, credit, redeem, grant | payments | concurrent deductions and commissions | never negative, moves only with a row of the log, once where once is meant |
| Traffic accounting (`traffic.go`, `trafficsync.go`) | snapshots, totals, node lock, cache of samples | poll, push | agents, panels, job queue | two paths, lock that expires, old samples | each byte billed once, none forgotten |
| Bans and resets (`ban.go`, `reset.go`, `health.go`) | marker of a user, date of the reset, status of nodes | scan, toggle, reset, check | payments, panels, kernels | stale user rows, nodes that are offline, lost calls | whoever may not be served is cut off everywhere, whoever may is served everywhere |
| Reconciliation (`reconcile.go`, `reconcile_bare.go`) | baseline of the node, cached lists | compare, repair, bump | panels, agents, bans | lists and heartbeats older than the rows | repairs what the others leave, does not excite itself |
| Node commands (`nodeapi/commands.go`) | `node_api_commands` | queue, claim, acknowledge, prune | WebSocket, HTTP poll | two carriers, lost and duplicate acknowledgements | run at most once, the row tells of the run |
| Node channel (`ws/server.go`, `registry.go`) | connections, the flag `connected` | handshake, hello, report, ack, push, close | commands, configuration | replaced connections, restart of the panel | the registry holds the live connection, the flag comes to agree |
| Configuration of a node (`nodeapi/handler.go`, `render.go`, `repo.go`) | rows, `config_version`, fingerprint | save, bump, render, answer 304 | agent, reconciliation | rows and version in two transactions, seconds in the fingerprint | a 304 is true |
| Agent (`agent/`) | installed configuration, kernel, commands in hand | pull, install, restart, run, report | node channel | killed between two files, kernel that dies | file and kernel catch up with the panel |
| Sessions, login guard, rate limits | counters | count, block | HTTP | windows | bounds respected |
| Mail, proxy shop, administration, backup, subscriptions, drivers, infrastructure, frontend, installation | rows, files, pages | forms, rendering, calls | — | mostly input and output | not modelled, see below |

## Modules

| Module | What it is |
|---|---|
| `TaskLifecycle` | the abstract specification: what the asynchronous-task page promises of a task |
| `AsyncTask` | the task tables and every transaction on them; implements `TaskLifecycle` |
| `TaskQueue` | EXTENDS `AsyncTask`: channel, workers, handlers, timers, dispatchers, sweeper, retry by an administrator, crash, time; implements `AsyncTask` |
| `BalanceBook` | the abstract specification of the balance page: a balance moves with a row of the log, never below zero, once for what may happen once |
| `PaymentOrders` | orders of one buyer from the checkout to their effects, over the gateway or from the balance; implements `BalanceBook` |
| `CommandChannel` | the abstract specification of a command for a node: taken once, run once, settled on that outcome |
| `NodeCommands` | rows, push loop, long poll, registry, connections and the agent's two loops; implements `CommandChannel` |
| `NodeSync` | how a bare-kernel node comes to run what the rows say: saves and bumps, pull and restart, comparison of the list of users |
| `TrafficAccounting` | one counter on one node, two ways to read it, and what is billed |
| `TrafficBans` | one user over all nodes: scan, reset, delivery, switch and reconciliation, each by what it has read |
| `NodeTasks` | EXTENDS `AsyncTask`: a 3x-ui node from its creation to its deletion, its requests, batches, scan, cleanup and finalisation; implements `AsyncTask` |
| `MCTaskQueue`, `MCPaymentOrders`, `MCNodeCommands`, `MCNodeSync`, `MCTrafficAccounting`, `MCTrafficBans`, `MCNodeTasks` | values of the constants for TLC |
| `AsyncTaskProofs` | invariant of the tables, its proof, the action properties, and the proof that `AsyncTask` implements `TaskLifecycle` |
| `TaskQueueProofs` | proof that `TaskQueue` implements `AsyncTask`, and what it says of jobs |
| `PaymentProofs` | invariant of the orders, its proof, and the proof that `PaymentOrders` implements `BalanceBook` |
| `NodeCommandsProofs` | invariant of claims, copies and connections, and the proof that `NodeCommands` implements `CommandChannel` |
| `NodeSyncProofs` | invariants of the fingerprint and of the bumps |
| `TrafficProofs` | invariant of the ledger and the lock |
| `BansProofs` | types of the bans, and the date of the reset |
| `NodeTasksProofs` | proof that `NodeTasks` implements `AsyncTask`, its types, the cleaned panel, successes that are served, and the last wish for the node |

`TaskQueue` and `NodeTasks` work on the tables of `AsyncTask`: the one with all that the queue does to a job
with an item key, the other with what the handlers of batches do, which the queue leaves alone. The other four modules of the nodes meet at what one leaves
and the next takes as given: a write of `TrafficBans` to a kernel is confirmed once it is queued, and
`NodeCommands` takes the command from there; what a bump of `NodeSync` brings about is the action
`Render` of `TrafficBans`; a report that `NodeCommands` delivers is settled in `TrafficAccounting`, which
decides when a limit of `TrafficBans` is reached. A product of them is beyond TLC.

### AsyncTask and the code

One action is one database transaction. The code takes the task row `FOR UPDATE` first, so
transactions on a task are serialised. `task[t]` is the row (status, attempts, the three
counters), `item[t][k]` the status of an item, `taskIdle` and `itemIdle` the age of `updated_at`,
capped where the sweeper stops telling ages apart. `Aggregated` is `aggregateLocked` with
`AggregateDecision`; `ClaimGranted` and `OutOfAttempts` are `ClaimDecision`; `FinishItem` is
`CompleteItem` and `FailItem`. Here every transaction may be called at any time, which covers
duplicate and late jobs. Left out: `error`, `meta`, `started_at`, `finished_at`, the column
`attempts` of an item, which nothing reads, and `AddItems`, which only tests call. The status
`partial` is never written by the code; a mutant writes it.

### TaskQueue and the code

`queue` is the channel followed by the senders blocked on it, first in first out; a dispatcher
whose send is blocked does not go on to its next item (`DispatchBlocked`). `worker[w]` follows
one goroutine: `taken` between receiving a job and registering it in flight again, `claim`, `work`
and `synced` inside the handler, `failed` back with an error. `away` is the bag of jobs that a
timer will bring back: those of `scheduleRetry`, which stay in flight, and those of `qRequeue`,
which do not. `inflight` is `inflightMap`. `sweep` splits `TimeoutStale` where the code reads,
asks the queue about each item, and fails one task after the other.

`Kind[t]` chooses between the two handlers with one item each: `runTrafficSyncJob` ("traffic") and
`userDelivery.handle` ("delivery", which reports no error once it has claimed its item and which
`Dispatch` does not know, so that a retry of it enqueues nothing). The constant `SweeperSeesQueue`
is the wiring: `main.go:283` gives the scheduler a service without a queue, so FALSE is production
and TRUE is what the comments describe.

A crash keeps the tables and forgets the rest; nothing dispatches open tasks at the next start.
`Queue.Stop` is never called, so a shutdown is a crash.

Time is discrete and passes only when the program waits (`Quiet`): a tick stands for a stretch in
which the goroutines that can run have run. A handler may still answer at any moment up to its
deadline, or never. A transaction of a handler that the deadline overtakes may be committed: this
is modelled for the completion of an item. Two dispatchers of one task share one set `todo`. The
two SELECTs of the sweep are one step; it runs at most once between two ticks, as the
scheduler does not overlap it with itself, and fails its tasks in any order. The counters a goroutine
changes next to each other (`queued`, `running`) change in one step.

Bounds in the guards, all in `spent`: `MaxCrashes` crashes, `MaxRetries` retries by an
administrator, `MaxLost` verdicts the database refuses.

### PaymentOrders and the code

The tables: `order[o]` is `orders.status`; `code` the row of the one discount code (`used_count`,
`status`); `locked` says whether `users.used_invite_code_id` of the buyer is set; `rewards[o]` counts
the redeem codes with `source_order_id = o`, `rebates` holds the orders with a row in
`affiliate_rebates`; `balance` is `users.balance` of the buyer and the inviter, `log[e]` the rows of
`balance_logs` for entry `e`; `applied[o]` and `delivered` record what an order did to the buyer's
plan or traffic and to the nodes.

`request[r]` is one HTTP handler: where it is, the order it works on, the status it has *read* of it,
and whether the gateway waits for its answer. Every statement or transaction it sends is a step of
its own, so that what it knows may be out of date by the time it acts: `MarkOrderPaid` and
`VoidOrder` update by id and ask for no status, `CreditRecharge` looks again under the lock.
`CompleteOrder` is the sequence `complete`, `consume`, `lock`, `find`, `reward`, `rebate`,
`apply`, `deliver`, `answer`; a payment from the balance enters it behind the transaction of
`PayOrderWithBalance`. What the code does in one transaction with the row locked is one step.

`Abort` ends a handler anywhere: an error that is returned, a cancelled context, the end of the
process. `LogError` is a step whose error the code only logs, with the place where it goes on
(`NextAfterError`). Both count in `faults`.

The gateway is outside of the code: `gateway[o]` says whether it has a link, the money, or the
answer it waits for. It takes the money for a link even if the order has expired meanwhile, and
notifies again until it is answered with OK (`payindex.go:24`: three times more; here `MaxPushes` in all). `Retry` only
matters when the gateway refuses a number it has seen, which voids the order.

Left out: proxy orders, which nothing creates; a new checkout that finds a pending order with the
same code, which does what `Retry` does; the minimum age of a query; the columns of a plan and
`users.enabled`; rate limits; a limit per user of 0, which means none; codes that expire or
are switched off, and cards that are expired or disabled.

### NodeCommands and the code

`status[i]` is the row of command `i` in `node_api_commands`. A carrier reads the ids of pending rows
(`PushTick`, `PollTick`), then moves them one by one with a conditional update (`Acknowledge`), and only
what it moved itself is written to the connection (`Push`) or answered to the poll (`Respond`).
`place[i]` is the set of copies of the command under way: in the memory of a carrier, on the wire of a
connection, or in the hands of one of the agent's two loops, each of which runs its batch in the order of
ids and then sends all results at once (`Run`, `SendAcks`). `acks` only grows: an acknowledgement
may be applied late, and again. `ApplyAck` updates by id without asking for the status, as the code does.

`sock[c]` is a connection as the panel sees it, `up` those whose transport works, `registry` the one
it pushes to. `Accept` enters the new connection and closes the one it replaces, whose read loop ends
whenever it gets to it: `Forget` (`Registry.Remove`, which compares) and then, as a step of its own,
`MarkOffline` (`onClose`, which does not). `Accept` is one step although `Registry.Add` and the closing of the old connection
are two: in between the old one can still report, and its reports raise the same flag. `online` is `driver_config.ws.connected`. The faults are a
broken link, a restart of the panel, a stop of the agent, a failed statement of a claim or of `onClose`, and a
lost request. Left out: payloads and outputs, the pruning of rows settled 30 days ago, and
`config.changed`, which only makes the agent pull earlier.

### NodeSync and the code

A configuration is the set of users in it and a number for everything else. `stamp` holds the
seconds of the latest `updated_at`, `Fingerprint` the version and the stamps: nothing of the content.
A save of the structure and its `BumpConfigVersion` are two transactions, `ChangeShape` and `Bump`; that
a bump comes is not assumed (the panel may die in between), and `owed` counts those that have not come.
`ToggleUser` bumps nothing.

`pull` follows `pullAndApply`: the request is authenticated with the row of the node, which gives the
version (`PullAsk`), then come fingerprint or 304 (`PullStamp`), content (`PullRender`), `config.json`
(`PullInstall`, which decides about the restart before it replaces the file), `config.version`,
`config.etag`, and the stop and the start of the kernel. The agent may be killed between any two.
Any refused, lost or truncated answer, and a configuration the kernel does not accept, is `PullFails`.
With `Outlives` = FALSE the kernel dies with the agent: `node-install.sh:213` installs a unit
with the default `KillMode`, although a comment in `agent/upgrade.go:20` expects the kernel to go on.

`round` is `reconcileBareOnNode`: the users, the row of the node with heartbeat and baseline, the
shortcut, the list, and the verdict are read one after the other. A bucket holds one user, `MaxDiff` is
the limit up to which buckets are read one by one. Two pages of different configurations, a list that was cut off and
a timeout are all `RoundUnknown`. `RoundsFarApart` says that a pull has begun and ended since the last round: rounds
are five minutes apart, pulls half a minute. Commands that switch a user in the running kernel are
not part of it (see below).

### TrafficAccounting and the code

`counter` is what the kernel counts for the user, `carried` what it has ever counted. `task[c]`
follows `SyncNode` (pollers) or `SyncNodeFromPush` (connections): where it is, its sample, and the
rows it has read outside of the transaction. `lock` is the row of `cache_locks` of the node; it runs out
120 seconds after it was taken, whether its owner has ended or not (`LockOverruns`, a fault). `cache`
is the sample of `inboundSnapshotCache`, which the scheduled round shares with the reconciliation; the
button of an administrator reads the panel directly (`PollNode`). The agent takes its sample, remembers it as
sent and writes it to the connection in one step (`Report`); a report that meets the lock is dropped (`PushBusy`).
`late` and `overrun` are history: whether a sample was settled after a newer one, and whether a lock
was taken from somebody at work. Upload and download are one number, `billed` stands for the total, the month,
and the hourly and daily tables, which move in the same transaction.

### TrafficBans and the code

One user with a period plan. `spent` and `drained` say whether a limit of the total or of the month is
reached, `marker` is `traffic_disabled_at` (none, younger than six hours, older), `client[n]` what node `n` does
with the user. `task[w]` is one of five workers: the scan (`ScanBans`, and the ban part of
`RunTrafficSync`, which does the same with fresher rows), the monthly reset, a delivery after a payment, the account
switch, and the reconciliation. Each begins with what it reads and ends with a toggle, `FindNodes`, `Apply` for each
node in any order, `ToggleEnds`, by what it has read; nothing locks them against each other. `want` is the
direction, `book` the parameter `bookkeep`, `ok` whether all nodes tried so far have confirmed.
Panels that are offline in `nodes.status` are left out; a panel may stop before the health check
notices. A panel answers at once; a kernel takes a command, which counts as done when it is queued. `ReadList` and `Repair` are
`reconcileOnNode`, which reads the list of a panel and compares one user after the other; `CompareKernel` and
`Render` are the comparison of a kernel and what it brings about. `Crash` ends the panel and every worker in it.

### NodeTasks and the code

One 3x-ui node and at most one task of each kind: "init", "sync" and "cleanup" in the tables of `AsyncTask`.
`node` is its row, `wish` the `should_enable` in the meta of the init task, `inbounds` how many inbounds are ticked
for it, `panel[u]` the inbounds its client of user `u` is attached to, `lapsed` the users whose plan is no longer usable.

`request` is the handler of the administrator, one at a time, cut where the code commits: `CreateNode` and `SubmitInit`
(then the goroutine of `dispatchNodeTask`, `due` and `SendDue`); `AskSwitch`, which reads whether an init task is open,
and `DoSwitch`, which acts by what was read; `AskChange`, `ReplaceInbounds`, `SubmitSync`; `AskDelete`,
which creates the cleanup task, and `DeleteNode`. `RetryTask` is the retry of the task page, with its dispatch.

`work[w]` follows the handler of a job on worker `w`. `Take` reads the row of the node into `seen`, and the handler
goes by it to its end. A batch of init or sync claims its users in order (`ClaimNext`; a refused claim is skipped), reads the row of the user
(`ReadUser`, `loadJobUser`) and the ticked inbounds (`ReadInbounds`, `inboundIDsForNode`), calls the panel by what it
has read, and writes the verdict (`Verdict`). In a batch of init the order is row, `ClearClient`, inbounds, `AddClient`; in one of
sync it is row, inbounds, `AttachClient`. Other workers and the administrator act in between: `usable` and `ids` of a worker
may be out of date when the call is made. A batch of init ends with
`FinalizeInitTask`. The scan of a sync task lists the clients (`Scan`), reads the open items (`ReadPending`), settles what needs nothing without a claim
(`Compare`) and sends batches for the rest. `Clean` deletes what it finds on one list and is one step. So are the question
for a client and its deletion in `ClearClient` (a deletion that another batch has forestalled fails in the code, and the item
with it), and in `Compare` the reads of an item and its verdict: when there are sync items the inbounds no longer change, and a plan does not come back.
`Expire` is the time limit: the context of the handler ends, and every later statement fails. `HandlerFails` is a
handler that returns an error: the queue tries such a batch or scan again, or has tried it often enough.
The panel refuses a second client of one name and an attachment of a client it does not have.
`Sweep` may come whenever a task is open: batches have no item key, are never in flight, and may wait for long.

`asked`, `routed`, `overlap`, `doubled`, `behind` and `faulty` are history: the switch asked for last, whether every switch reached an
open init task, whether the panel was emptied with the node or an init batch that had seen it around, whether two workers were at the item of one
user, for which users a batch had read the inbounds and not yet created the client when the inbounds changed, whether anything failed.
They say where a property does not hold (see Findings).

Bounds: `MaxEvents` requests after the creation, retries, lapsed plans and faults in all; `Wishes`, what may be asked for at the
creation (a switch may ask for either). Left out: bare kernels (their
items succeed without a call), deleted users, a list of clients read in part, inbounds taken away, the connection data
and `nodes.status`, and what the queue does with a job around its handler, which is `TaskQueue`.

## Runs

| Run | Checks | Shows |
|---|---|---|
| `queue_safety` (`MCTaskQueue.cfg`) | type, `CountersExact`, `OpenItemHasJob`, `TerminalIsSettled`, `OpenTaskHasWork`, `AttemptsWithinBudget`, `SuccessSticks`, `ReopensWhole`, `LifecycleSpec` | two items, two workers, production wiring, locked nodes, retries, one crash, one lost verdict, two retries by an administrator: the queue loses no job, verdicts are settled, successes final, attempts bounded; refines `TaskLifecycle` |
| `queue_liveness` (`MCTaskQueueLive.cfg`) | `EveryTaskEnds`, `WorkersComeBack`, `TablesAsSpecified` | a synchronisation and a delivery on one worker; handlers may hang for ever |
| `sweep_wiring` (`MCQueueWiring.cfg`) | `SweepSparesHeldItems` violated | finding 1 |
| `order_effects` (`MCOrderEffects.cfg`) | `NothingUnpaid`, `PaidTakesEffect`, `CodeWithinBudget` | a plan with an invitation, a reset, and a free plan; two requests, each order notified twice, one failure anywhere |
| `order_money` (`MCOrderMoney.cfg`) | type, `RechargeArrives`, `BookSpec` | a recharge, a gift card, and a plan only the two together can pay for: paid recharges are credited in the end, balances move as `BalanceBook` says |
| `recharge_twice` (`MCOrderRecharge.cfg`) | `RechargedOnce` violated | finding 2 |
| `code_unused` (`MCOrderCode.cfg`) | `FirstUseCounts` violated | finding 3 |
| `node_commands` (`MCNodeCommands.cfg`) | type, `HeldOnce`, `RegistryHoldsLink`, `ChannelSpec`, `PendingIsTaken`, `TakenIsSettled`, `FlagSettles` | one command, two connections, a long poll, any two faults: delivered at most once over both carriers, taken in the end, settled unless something failed; the flag of the node list follows the connection |
| `node_sync` (`MCNodeSync.cfg`) | type, `EtagTellsContent`, `BumpsAreEarned`, `FileCatchesUp`, `StructureRuns` | two users, two changes of either kind, also in one second, any one fault: a 304 is true, the comparison restarts nothing for nothing, file and kernel catch up |
| `traffic` (`MCTrafficAccounting.cfg`) | type, `BilledOnce`, `PolledIsSettled` | a node of either kind, round and button or two connections, a counter that goes back, one fault: no byte billed twice, what is carried is settled |
| `bans` (`MCTrafficBans.cfg`) | type, `ResetOnce`, `CutOff`, `Restored` | a panel and a kernel, two workers at a time, one change of the standing, one fault: cut off and restored everywhere in the end |
| `node_tasks` (`MCNodeTasks.cfg`) | `SuccessMeansServed`, `CleanedUp`, `LastWish` | two users in batches of one, two workers, any two further requests, retries or faults, sweeps at any time: done on the task page is done on the panel, a cleaned panel stays empty, whoever finalises last gives the node the state asked for last |

Why the bounds are enough. Two items are the smallest number at which a task can be partly done,
and two workers the smallest at which two jobs of one task run at once; with a channel of one the
second send blocks. `JobTimeout` < `StaleItem` < `StaleTask` keeps the order of the code
(5, 6 and 10 minutes) and is an assumption of the module; `Backoff` has one delay that fits in
the time of a job and one that never does, as 60 s and 300 s do against 5 minutes. With two
goes from pending to running a task can be swept, retried, and refused the next retry. A
released job may come back twice and is then refused. Items and workers are symmetric; the
liveness run uses no symmetry. The liveness run has no lost verdict: jobs are lost there by the
crash and by the retry that dispatches nothing.

For the orders, two requests are the smallest number at which one can act by a copy that the
other has made stale, and two notifications of one order the smallest at which the gateway races
itself; one failure leaves one of the two to succeed, which is what `RechargeArrives` is about. The
prices are such that the card and the recharge (10 each) pay for the plan (20) only together, so
that each interleaving of the three decides whether it can be paid. The two passing runs divide
the orders: the run about effects has no recharge and no card, the run about money no reset and no
invitation, and between them every action fires. The requests are symmetric in the run about
effects; the other one checks liveness and uses no symmetry. `CHECK_DEADLOCK FALSE`: when every order is
settled and the gateway has nothing more to send, nothing is left to do.

The tables are checked as part of the queue. Run alone with two tasks, in which every transaction comes at
any time, they satisfy the same properties (the theorems say so for any number).

For the nodes, two connections are the smallest number at which one replaces the other, and with the long
poll there are two carriers. One command suffices for all but the order in a batch: with two
commands the properties hold with one fault (232 456 states) and the invariants with two.
Two faults are a loss and a restart together. In `node_sync` two changes are the smallest number of which one can be hidden by the
second of the other, and two users with `MaxDiff` = 1 take both ways to read a list; `MaxBumps` is never
reached, which `BumpsAreEarned` shows. With three changes the invariants hold too (8.1 million states).
In `traffic` three bytes are one before, between and after two samples, the multiplier 3/2 rounds; with two
faults it holds as well (1.9 million states). In `bans` the first states are those in which something has to be
done: a limit just reached, a month just over, a client not yet registered. With one such state, two changes and
all workers at a time the invariants hold too (4.3 million states). `MaxAtWork` = 2 is what it takes for a worker to
act by what another has made stale.

In `node_tasks` batches of one user put the two users on two workers, which is what two batches need to meet at
the finalisation, and after a sweep and a retry at one user. Of the two events one may be the switch, change, deletion or retry
the other races with. One user has a client left from an earlier time, so that the deletions of init and of cleanup both
find something. The node is created with the wish to enable it (`Wishes`), so that the one value that differs is asked for by
a switch; with both wishes the state space doubles and the properties hold too. 1.75 million states; `NodeTasksTypeOK` and the parts of the
inductive invariants hold too and are proved. `CHECK_DEADLOCK FALSE`: when the
events are used up and the tasks are closed, nothing is left to do.

Fairness of the queue. Workers, timers, dispatchers, the sweeper and time are weakly fair: goroutines are
scheduled, the scheduler runs every minute. Nothing is assumed of handlers (`WorkerAlone` leaves
them out), of administrators, or of crashes. Under it every task ends, and it does so because of
the sweeper: the mutant that spares pending items leaves a retried delivery open for ever.

Fairness of the orders. A goroutine runs each request to its end: weak fairness of `Serve(r)`.
The gateway goes on sending: strong fairness of `Notify`, because a place in `Requests` that is
free now and then stands for a new goroutine, which is always there. Nothing is assumed of the
buyer, of the scheduler that expires orders, or of failures, whose number is smaller than that of
the notifications.

Fairness of the nodes. Each loop of panel and agent is weakly fair as a whole: `configLoop`, `superviseLoop`,
`reportLoop`, the push loop, the handler of a poll, the read loop of a connection, every job of the scheduler. A
panel that stopped comes back and is found online. Nothing is assumed of the agent's dialling, of bumps that a
dead panel owes, of faults (finitely many), of payments or administrators, nor that the marker of a user grows old:
`Restored` and `CutOff` do not wait for six hours to pass. Without the reconciliation neither of the two
holds; it is what repairs a scan that closed a user by a row from before his payment.

The node tasks assume no fairness: `LastWish` is an invariant. It says of a node that is not as asked for that a batch or a request which
will finalise is still there (`Settling`), and leaves to the reader that the server goes on with it. Every behaviour of the model is finite, since all that
comes from outside is bounded, so that with a server that goes on the node does end as it was asked for.

## Findings

1. *The sweeper does not know the queue.* `startScheduler` builds its own service with
   `task.NewService(db, nil)`, so the exemption of items in flight never applies. Comments at
   `async.go:618`, `async.go:646` and `queue.go:93` say the opposite for each of the two cases. In
   production an item that waits more than six minutes in the channel is failed while the queue still
   holds it.
2. *A recharge can be credited twice.* `CreditRechargeOrder` refuses only an order that is already
   paid, and `VoidOrder` writes the status by id. A buyer's retry reads the order as pending, the
   notification credits it, the gateway refuses the retry and the order becomes `expired`; the
   next notification credits it again. The comment above `handleRechargeCreate` says that a repeated
   notification does not.
3. *A discount code may go unused.* `ConsumeDiscountCode` counts the user's *other* paid orders with
   the code. Two orders that are both marked paid before either of them consumes see each other, so that
   neither does. The comment says that the orders from the second on fail and the first counts.

Smaller divergences of the orders, in the hazard list without a run: `rewardInviter` looks for a
reward and inserts it later, so that two completions of one order can both insert; a plan or a reset is
applied once for each completion that read the order unpaid; and an order that is paid when its
request is cut off before `ApplyPlanFields` never takes effect, because every later request takes it
for done (`SkipPaid`). `PaidTakesEffect` is stated without faults for that reason: it is about the order and the
exceptions of the effects and does not speak of that hazard.

Smaller divergences of the nodes, without a run:

- *A cached sample moves a snapshot back.* `traffic.go:60` says that the source is called under the lock of the
  node so that samples are in the order of snapshots. The scheduled round may get a sample of up to 75 seconds ago
  from the cache, after an administrator's button has settled a newer one; the difference is billed again. `BilledOnce` is stated
  without such a sample (`late`).
- *The first sample bills everything.* The comment at `traffic.go:254` takes the first sample as the baseline, without the
  history; the line bills the whole counter of a user who has no row. Registration starts a counter at zero, so that only
  users moved between panels would notice.
- *The agent's baseline.* `stats.go:95` says that the panel has right what is not sent again. A report that met the lock was
  dropped, and its bytes are settled only when the counter moves again or the agent connects anew.
- *A toggle leaves out panels.* The comment above `toggleClient` wants all enabled nodes to confirm before the marker is
  written; panels that are offline are not asked. The reconciliation closes the user there later (`CutOff`).
- *A marker without a limit.* A user whose account is off gets the marker of a user without traffic by the reconciliation, although
  `userops.go:104` says that the account switch does not touch it.
- *A kernel that outlives its agent.* With `Outlives` = TRUE, `StructureRuns` fails: an agent killed after
  `config.etag` and before the restart is told 304 for ever, and the kernel goes on with the old file. By the installed
  unit the kernel dies too, so that the supervisor starts it from the new file.
- *A stale baseline.* The fingerprint that is saved with a baseline is that of the heartbeat read at the start; the list compared is newer.
  If the next list gets the old fingerprint again, `Shortcut` takes it for compared. `FileCatchesUp` excuses it (`StaleBaseline`).
- *Order of commands.* Two carriers may hold two commands of one user, and the agent runs the two batches side by side, so
  that the earlier may run last; no comment promises an order across carriers, and the comparison of `NodeSync` does not see it.
- *An upgrade over one carrier* ends the agent with the batch the other carrier brought; these commands stay `acknowledged`
  for ever (`TakenIsSettled` excuses a fault).

Smaller divergences of the node tasks. Each is what TLC shows when the named excuse is taken out of the property:

- *A client on the old inbounds* (`SuccessMeansServed`, `behind`). A batch of init reads the ticked inbounds (`nodejobs.go:549`) and creates the client
  on them later (`:570`). The comment at `node_crud.go:252` says that a change of inbounds is refused during an initialisation; what is asked is
  whether its task is open, and the sweeper may have closed it with a batch at work. The change is accepted, the scan of its sync task
  finds no client and calls the item done, and the batch then creates the client on the old inbounds: the task page shows a success, and
  the user lacks the new inbound until something else attaches him.
- *A switch may be lost* (`LastWish`, `routed`). The comment at `node_crud.go:252` says that during an initialisation a
  switch is handed over to the task. When the task closes between the question and `UpdateTaskDesiredEnabled`, that function does nothing,
  and the node is not written either. The other way round, a switch written to the node is overwritten by the finalisation
  of an init task that was reopened by a retry, with the wish of its creation.
- *A node that stays disabled* (`LastWish`, `faulty`). A crash, a time limit or a refused statement between the verdict on the last item and
  `FinalizeInitTask` leaves a task that succeeded, which cannot be retried, and a node that is not enabled.
- *Clients behind a cleanup* (`CleanedUp`, `overlap`). A batch of init that read the node before it was deleted creates
  clients after the list of the cleanup was read; nothing deletes them. And since the cleanup task is created before the row is deleted,
  a crash in between leaves a node in service and a task whose retry empties its panel.
- *A success that is undone* (`SuccessMeansServed`, `faulty` with `doubled`). A running item can be claimed again; of two batches at
  one user, one reports the success of a client that the other then deletes, and fails to create again. Its own failure is not
  recorded, because the item has succeeded.
- *No retry of what was not dispatched.* `node_present.go:731` says that a task whose dispatch failed can be retried from the task page;
  `Retry` takes failed tasks only, so it has to wait for the sweeper first.

Smaller divergences of the queue are in the hazard list without a run. A retried delivery is not dispatched: `Retry`
commits the items as pending, then `Dispatch` refuses the type `user_delivery`, although the comment at `async.go:696` says
that they are dispatched again; the task is open with no job until the sweeper fails it. And the in-flight count does touch 0
between a worker's receive and its run (`queue.go:284` says it does not), and after a sweep and a
retry an item can have two jobs, so that a failure can be followed by a success (`queue.go:365`).

## Proofs

All by `tlapm`, for every set of tasks, finite set of items, budget of attempts, number of
workers, delays and time limits, and for every finite set of orders and requests, prices, rates and
limits of the code. The assumptions are the named ASSUMEs of `AsyncTask`, `TaskQueue`, `NodeTasks` and
`PaymentOrders`: finitely many items, finitely many workers, positive attempts and ages, the ranges of the constants; what
carries a discount or recharges the balance costs something.

*The tables* (`AsyncTaskProofs`). None of the safety properties is inductive alone: that a retry
reopens a task with work left needs to know that a failed task has a failed item, which is part of
`TerminalIsSettled`; that a claim never touches a task without items needs `AbsentIsEmpty`; that
failing the rest settles a task needs both. `AsyncInv` is their conjunction with the type. It is
split by task (`TaskInv`), because a transaction changes one task; each transaction has a lemma,
and those that aggregate share `SettleInv`. From it follow `TypeCorrect`, `ClosedTaskIsSettled`,
`OpenTaskCanClose`, `AttemptsBounded` and the action properties `SuccessIsForGood` and
`TasksReopenWhole`.

*The page* (`AsyncTaskProofs`, `AsyncImplementsLifecycle`). `PhaseOf`, `WantOf` and `DoneOf` are the refinement mapping; a
claim and a verdict that leaves other items open may be stutters, everything else is a step of
`TaskLifecycle`. `AsyncInv` is needed where a task closes: `GiveUp` requires that something is missing.

*The queue* (`TaskQueueProofs`). `JobsInv` says that every job is of a known task and item and within its
bounds, wherever it is. With it each step of `TaskQueue` is a transaction of `AsyncTask` or leaves the
tables alone (`StepIsTableStep`), hence `QueueImplementsTables`, and everything proved of the tables
holds of the queue (`QueueKeepsTables`, `QueueKeepsPromises`). `RetriesFit` is inductive over `JobsInv`: a timer
is set only if its delay fits, and time takes one off both sides.

`CountersExact` relates a counter to the number of jobs in three places, one of them a bag. Its invariant
`CountInv` adds that the bag is one (finitely many members, each at least once) and that marks and gauges are natural numbers, so that no decrement
can go below zero. The count of a bag is a sum over a finite set, defined by recursion; that it exists, and what an
added, removed or merged member does to it, is proved first (`SubsetInduction`, `SumsExist`, `SumUnfold`, `SumFibres`), from
the well-foundedness of strict inclusion on finite sets. Hence the module writes the bag with `With`, `Without` and `AgedAway`. A step then is one of a
few moves of a job from one place to another. `QueueTypeOK` follows, since the types of the gauges are part of `CountInv`.
`OpenItemHasJob` is inductive over those three (`OpenInv` only adds the type of the budgets of faults). A job that leaves a place must
be found in the next one, or have settled its item: who settles is known from `JobsInv`, and that a settled item stays so
until a retry from `AsyncInv`.

*The orders* (`PaymentProofs`). `NothingUnpaid` is not inductive: a handler that is past the query
gives without asking again. `OrdersInv` adds what the handlers carry with them: `HandlersHaveRows`
(a handler works on an order with a row, unless it is about to write a paid one), `HandlersFunded` (all but the handlers that
are still `Asking` work for an order that is funded), `NoRowNoMoney` (an order without a row is
unknown to the gateway and was not paid from the balance, so a fresh number can be charged once) and
`RebatesLogged` (a commission in the log has its row, so the unique key on the rows bounds the entries). `PaidTakesEffect` needs `AppliedFirst`: a handler asks
for a delivery only behind `Apply`, so an order delivered has been applied. One lemma for each concern
treats the steps of a handler alike, by the place they leave and the place they go to (`HandlerMoves`,
`HandlerGoesOn`, `HandlerEnds`). From the invariant follow `NothingIsUnpaid`, `PaidIsEffective`
and `CodeIsWithinBudget`, and, with `RebatesLogged` and the conditions of the transactions, that every
step posts one entry as `BalanceBook` allows or leaves the book alone (`StepIsBookStep`), hence
`OrdersImplementBook`: for every instance the balance stays at or above zero, and a card, a payment from
the balance and a commission move it once. Recharges are `Repeatable` there, which is finding 2.

*The commands* (`NodeCommandsProofs`). `HeldOnce` is not inductive: that a row settles on the outcome of its run needs to
know that every outcome sent, or still to be sent, is the outcome of the one run of its command. `CopiesInv`
says this (`OutcomesKnown`) with what row, copies and runs of a command say of each other (`CommandKnown`). From
it follow `CommandsRunOnce` and, since a late or repeated acknowledgement then writes what is there,
`CommandsRefine`. `RegistryHolds` is inductive over the types. Every proof of a step goes through
`StepCases`, which lists the actions once.

*The configuration* (`NodeSyncProofs`). `EtagIsRight` needs what a tag promises at each place it goes to. `TagsOrdered`: the
tag of the files is no newer than that of the pull, and that no newer than the rows. `TagsTell`: a tag that still is the
fingerprint of the rows comes with their content, unless two changes share a second. `BumpsEarned` is proved from
`BumpsSettle`: when every change has been charged with a bump, everything read under a version as new as the last bump
has the users of the rows in it (`Settled`), so that a comparison finds nothing and there is no further bump.

*The traffic* (`TrafficProofs`). `Samplings` relates all samples somebody still holds, in order of the moments at
which they were taken: a later one shows no more than what was carried in between. `Books` says that who works
holds the lock, that the row it has read is the one stored, and that what is billed is at most the share of what the
newest settled sample had carried (`Account`). `WeightedBounds` and `DivFits` are the lemmas on rounding.
The history variables say where the argument ends: behind an overrun lock or a late sample.

*The bans* (`BansProofs`). `ResetOnce` is inductive with the type, since the statement repeats its condition; the type
says of the scan that it never opens.

*The node tasks* (`NodeTasksProofs`). With the types, every step is a transaction of `AsyncTask` or leaves the tables alone (`StepOnTables`),
hence `NodeTasksUseTables`, and everything proved of the tables holds of the tasks of a node. `CleanedUp` is not inductive: `CleanInv` adds
that after the panel was emptied in time the node is gone and no batch of init is left that saw it, and that the calls of
a worker are those of its kind of job (`Fits`). It needs `AbsentIsEmpty` of the tables: a cleanup that got as far has a
task, so that no node is created in its place (`EmptiedHasTask`). `OneWorkerClean` says once what a worker must become for the
invariant to go on, `OutsideClean` the same for everybody else.

`SuccessMeansServed` follows from `ServedInv`, five parts that need each other and the parts above. `HasClient` and `IsAttached` say of
outcomes that are still on their way, and of clients a scan has listed, what the property says of those reported. The first is kept
by the clearing half of `runNodeInitUser` because of `OneBatch`: as long as no second batch came to one user, who clears a client works
on an item that is not done; once a second one came, an item may be done while the other batch is between its two calls, which
`~AtWork(u)` excuses, and that batch then creates the client again unless a call fails. The second is kept because no
client of a user who is not behind goes back to the old inbounds. That is `ReadsFit`, on what workers have read: a batch of init that holds the old inbounds
after the change is at a user who is behind, a batch of sync always holds the new ones, since
nothing of a sync task is around before the change (`ChangeFirst`), and a user who was read as one without a plan still has none.
`CallEffects` says what a call then does to the panel. That an outcome without a call is
none of a live node needs `Started`: until a cleanup was asked for, every job has found the row of the node. `OnwardServed`,
`SettleServed`, `StayServed` and `LeaveServed` say once what a worker may become, `OutsideServed` what everybody else may do.

`LastWish` (`LastWishHolds`) is not inductive. `WishInv` says that the wish under way and that of
the task are the last one asked for, and that an open init task has items or its creator is about to close it: this is what keeps
the sweeper from closing an empty task behind the back of everybody who could finalise. A verdict that closes the task leaves
its batch (`Settling`), and every later attempt to finalise finds the wish asked for last (`FinalizeGivesWish`).

For the other four modules of the nodes the constants are any finite or infinite sets within the named ASSUMEs of the module.

Only model-checked: liveness (`RechargeArrives`, `CutOff`, `Restored`, `FileCatchesUp`, `StructureRuns`, `PolledIsSettled`,
`PendingIsTaken`, `TakenIsSettled`, `FlagSettles`, and `EveryTaskEnds` and `WorkersComeBack` of the queue), which with
fairness is out of the prover's reach. Every invariant and every action property of a passing run is a theorem.

## Plan

Done: the task tables, the queue, the orders and the balance, the commands and connections of a node, its
configuration, traffic, bans and resets, and the tasks of a node, each with a run and proofs. Left, in this order:

1. Proofs: what the liveness properties need besides fairness, as `LastWishHolds` is for the end of an initialisation: that while the
   property is still owed somebody is left who works towards it.
2. Users in the running kernel: commands (`adu`, `rmu`) that race with a restart from a file rendered before them. In the
   code the next comparison finds the file, not the kernel; composing `NodeCommands` with `NodeSync` is beyond TLC, so this needs an
   abstraction of both.
3. `TrafficSubmit`: the deduplication of submissions by a lock that is keyed by a pointer.

## Not modelled

- *`domain_action`* (`domainops.go`): one item per task, claimed and finished like those of `TaskQueue`; in between an external helper
  whose result is written to the row of the domain. Two actions on one domain share that row and the helper's files, which are outside of `src/`.
- *Forms and single-row updates* of the administration, which is the largest part of the code by lines (`node_sqlstore.go`, `sqlstore.go`,
  `xray_inbound.go`, `xray_routing.go`, `xray_outbound.go`): validation and one statement each. What matters of their order, that a
  save and its bump are two transactions, is in `NodeSync`.
- *Rendering* of configurations and subscriptions, links, encodings of drivers: functions from rows to text.
- *Sessions, login guard, rate limits, captcha*: a counter with a window, behind one mutex or one statement each.
- *Mail, proxy shop, backup, certificates, infrastructure, frontend, installation*: input and output, or no state that two actors share.
- Within the modelled parts, what each section above says is left out: amounts where a flag suffices, wording,
  validation, pruning, mails.
