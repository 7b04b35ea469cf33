------------------------- MODULE TrafficAccounting -------------------------
(***************************************************************************)
(* What one user carries over one node, and what is billed for it: the     *)
(* counter of the node is read as an absolute value, the panel bills the   *)
(* advance over the last value it has seen (traffic_snapshots) and stores  *)
(* the new one, in one transaction under a lock of the node.               *)
(*                                                                         *)
(* A 3x-ui node is polled (server/internal/collector/traffic.go, sync.go): *)
(* the sample is taken under the lock, by the scheduled round through a    *)
(* cache of 75 seconds it shares with the reconciliation, by the button of *)
(* an administrator directly.  The agent of an xray node reports           *)
(* (server/internal/nodeapi/trafficsync.go, agent/main.go): the sample is  *)
(* taken before the lock and left out when the agent believes the panel    *)
(* has it.  The snapshot is read outside the transaction in both.          *)
(*                                                                         *)
(* Upload and download are one total; traffic_used and                     *)
(* monthly_traffic_used move by the same amount and the hourly and daily   *)
(* tables with them, so that billed stands for all of them.  Not modelled: *)
(* the HTTP fallback of the agent (the same handler), the alarm about a    *)
(* client that is off on the node, and the pruning of the hourly table.    *)
(***************************************************************************)
EXTENDS Integers

CONSTANTS Pollers,     \* rounds and jobs that may poll the node
          Cached,      \* those of them that read through the cache
          Conns,       \* connections of the agent, old ones included
          Num, Den,    \* traffic_multiplier of the node, Num / Den
          MaxBytes,    \* bound of the model: what the user carries
          MaxResets,   \* bound of the model: how often the counter is reset
          MaxFaults    \* bound of the model: failures, crashes, slow holders, stale reads

ASSUME TrafficAssumption ==
  /\ Cached \subseteq Pollers /\ Pollers \cap Conns = {}
  /\ Num \in Nat /\ Den \in Nat \ {0}
  /\ MaxBytes \in Nat /\ MaxResets \in Nat /\ MaxFaults \in Nat

Collectors == Pollers \cup Conns
Nobody == "nobody"
ASSUME NobodyAssumption == Nobody \notin Collectors

VARIABLES driver,    \* nodes.driver_type
          planned,   \* is users.plan_id set
          counter,   \* the counter of the user on the node
          carried,   \* all it has ever counted
          resets,    \* how often it went back to zero
          snapshot,  \* upload + download of the row of traffic_snapshots, NoRow without one
          billed,    \* all that was ever added to users.traffic_used
          lock,      \* the row of cache_locks: its owner, and whether it has not run out
          cache,     \* the sample of the node in inboundSnapshotCache
          task,      \* task[c]: where a collector is, and what it has read
          link,      \* the connection the agent reports on
          sent,      \* lastWsStats of the agent
          newest,    \* of the samples that were settled, the one taken last
          late,      \* was a sample settled after a newer one
          overrun,   \* did somebody take the lock of a collector still at work
          faults     \* failures so far

node == <<driver, planned, counter, carried, resets>>
ledger == <<snapshot, billed, newest, late>>
agent == <<link, sent>>
vars == <<driver, planned, counter, carried, resets, snapshot, billed, lock, cache, task,
          link, sent, newest, late, overrun, faults>>

NoRow == -1
\* A sample: the counter, and the moment it was read (carried and resets grow).
Samples == [total : Nat, carried : Nat, resets : Nat]
NoSample == [total |-> 0, carried |-> 0, resets |-> 0]
Current == [total |-> counter, carried |-> carried, resets |-> resets]
Moment(s) == s.carried + s.resets

Places == {"idle", "locked", "arrived", "sampled", "read", "done"}
Tasks == [at : Places, sample : Samples, last : Nat \cup {NoRow}, plan : BOOLEAN]
Idle == [at |-> "idle", sample |-> NoSample, last |-> NoRow, plan |-> FALSE]
\* The cache and the baseline of the agent may be empty.
Maybe == [full : BOOLEAN, sample : Samples]
Empty == [full |-> FALSE, sample |-> NoSample]
Full(s) == [full |-> TRUE, sample |-> s]

Locks == [owner : Collectors \cup {Nobody}, live : BOOLEAN]
Unlocked == [owner |-> Nobody, live |-> FALSE]

TrafficInit ==
  /\ driver \in {"3x-ui", "xray"} /\ planned \in BOOLEAN
  /\ counter = 0 /\ carried = 0 /\ resets = 0
  /\ snapshot = NoRow /\ billed = 0 /\ newest = NoSample
  /\ late = FALSE /\ overrun = FALSE
  /\ lock = Unlocked /\ cache = Empty
  /\ task = [c \in Collectors |-> Idle]
  /\ link = Nobody /\ sent = Empty
  /\ faults = 0

Fault == faults < MaxFaults /\ faults' = faults + 1

-----------------------------------------------------------------------------
(* The node and its user *)

Carry ==
  /\ carried < MaxBytes
  /\ counter' = counter + 1 /\ carried' = carried + 1
  /\ UNCHANGED <<driver, planned, resets, ledger, lock, cache, task, agent, overrun, faults>>

\* The kernel restarts, the client is created anew, or the panel resets the
\* counter with the month (ResetClientTraffic).
CounterReset ==
  /\ resets < MaxResets /\ counter > 0
  /\ counter' = 0 /\ resets' = resets + 1
  /\ UNCHANGED <<driver, planned, carried, ledger, lock, cache, task, agent, overrun, faults>>

Subscribe ==
  /\ ~planned
  /\ planned' = TRUE
  /\ UNCHANGED <<driver, counter, carried, resets, ledger, lock, cache, task, agent, overrun, faults>>

-----------------------------------------------------------------------------
(* The lock of the node *)

Working(c) == task[c].at \notin {"idle", "arrived"}
Free == lock.owner = Nobody \/ ~lock.live
\* A new row, or a row that has run out under a new owner.
TakeLock(c) ==
  /\ Free
  /\ lock' = [owner |-> c, live |-> TRUE]
  /\ overrun' = (overrun \/ (lock.owner # Nobody /\ Working(lock.owner)))

\* Nobody works under the lock any more, and its 120 seconds end.
LockRunsOut ==
  /\ lock.owner # Nobody /\ lock.live /\ ~Working(lock.owner)
  /\ lock' = [lock EXCEPT !.live = FALSE]
  /\ UNCHANGED <<node, ledger, cache, task, agent, overrun, faults>>

\* Its 120 seconds end while its owner is still at work.
LockOverruns ==
  /\ lock.owner # Nobody /\ lock.live /\ Working(lock.owner)
  /\ Fault
  /\ lock' = [lock EXCEPT !.live = FALSE]
  /\ UNCHANGED <<node, ledger, cache, task, agent, overrun>>

-----------------------------------------------------------------------------
(* Polling a 3x-ui node *)

\* SyncNode takes the lock or leaves this round out.
PollLock(c) ==
  /\ driver = "3x-ui" /\ task[c].at = "idle"
  /\ TakeLock(c)
  /\ task' = [task EXCEPT ![c].at = "locked"]
  /\ UNCHANGED <<node, ledger, cache, agent, faults>>

Sampled(c, s) == task' = [task EXCEPT ![c].at = "sampled", ![c].sample = s]

\* The source of SyncWholeNode, and cachedInbounds on a miss.
PollNode(c) ==
  /\ task[c].at = "locked"
  /\ c \in Cached => ~cache.full
  /\ Sampled(c, Current)
  /\ cache' = IF c \in Cached THEN Full(Current) ELSE cache
  /\ UNCHANGED <<node, ledger, lock, agent, overrun, faults>>

\* cachedInbounds on a hit.  That the sample is an older one counts as a fault:
\* a bound of the model, without it the same bytes could be billed without end.
PollCache(c) ==
  /\ task[c].at = "locked" /\ c \in Cached /\ cache.full
  /\ Sampled(c, cache.sample)
  /\ IF cache.sample = Current THEN UNCHANGED faults ELSE Fault
  /\ UNCHANGED <<node, ledger, lock, cache, agent, overrun>>

\* The reconciliation reads the node through the same cache.
ReconcileFills ==
  /\ driver = "3x-ui" /\ ~cache.full
  /\ cache' = Full(Current)
  /\ UNCHANGED <<node, ledger, lock, task, agent, overrun, faults>>

\* Its 75 seconds end, or the reconciliation has written to the node.
CacheExpires ==
  /\ cache.full
  /\ cache' = Empty
  /\ UNCHANGED <<node, ledger, lock, task, agent, overrun, faults>>

-----------------------------------------------------------------------------
(* Reports of the agent of an xray node *)

\* A new connection: the next report is complete.  Handlers of the old one
\* that are at work go on.
Connect(c) ==
  /\ driver = "xray" /\ link # c /\ task[c].at = "idle"
  /\ link' = c /\ sent' = Empty
  /\ UNCHANGED <<node, ledger, lock, cache, task, overrun, faults>>

\* reportLoop sends what has changed (changedStats) and takes it for delivered
\* once it is written to the connection.
Report(c) ==
  /\ link = c /\ task[c].at = "idle"
  /\ sent.full => sent.sample.total # counter
  /\ task' = [task EXCEPT ![c].at = "arrived", ![c].sample = Current]
  /\ sent' = Full(Current)
  /\ UNCHANGED <<node, ledger, lock, cache, link, overrun, faults>>

\* SyncNodeFromPush takes the lock for a sample it already has ...
PushLock(c) ==
  /\ task[c].at = "arrived"
  /\ TakeLock(c)
  /\ task' = [task EXCEPT ![c].at = "sampled"]
  /\ UNCHANGED <<node, ledger, cache, agent, faults>>

\* ... or drops it.
PushBusy(c) ==
  /\ task[c].at = "arrived" /\ ~Free
  /\ task' = [task EXCEPT ![c] = Idle]
  /\ UNCHANGED <<node, ledger, lock, cache, agent, overrun, faults>>

-----------------------------------------------------------------------------
(* Settling a sample: commitNodeStats and syncNodeBatch *)

\* latestSnapshots and usersWithPlan, before the transaction.
ReadRows(c) ==
  /\ task[c].at = "sampled"
  /\ task' = [task EXCEPT ![c].at = "read", ![c].last = snapshot, ![c].plan = planned]
  /\ UNCHANGED <<node, ledger, lock, cache, agent, overrun, faults>>

\* Mutant: nothing is left out when the counter went back.
AdvanceSigned(last, total) == IF last = NoRow THEN total ELSE total - last
\* The advance of the counter: all of it when there is no snapshot, nothing
\* when the counter went back.
Advance(last, total) == IF last = NoRow THEN total ELSE IF total < last THEN 0 ELSE total - last
Weighted(delta) == (delta * Num) \div Den

Dated(s) ==
  /\ newest' = IF Moment(s) < Moment(newest) THEN newest ELSE s
  /\ late' = (late \/ Moment(s) < Moment(newest))

\* Mutant: the early return for a counter that went back leaves the snapshot.
SettleKeepsOldBase(c) ==
  /\ billed' = billed + Weighted(Advance(task[c].last, task[c].sample.total))
  /\ snapshot' = IF task[c].sample.total <= task[c].last THEN snapshot ELSE task[c].sample.total
  /\ Dated(task[c].sample)
\* The transaction: the snapshot and what is billed.  A first sample of zero
\* leaves no row.
Settle(c) ==
  /\ billed' = billed + Weighted(Advance(task[c].last, task[c].sample.total))
  /\ snapshot' = IF task[c].last = NoRow /\ task[c].sample.total = 0
                 THEN snapshot ELSE task[c].sample.total
  /\ Dated(task[c].sample)

Commit(c) ==
  /\ task[c].at = "read"
  /\ IF task[c].plan THEN Settle(c) ELSE UNCHANGED ledger
  /\ task' = [task EXCEPT ![c].at = "done"]
  /\ UNCHANGED <<node, lock, cache, agent, overrun, faults>>

\* The deferred release deletes the row of its own owner only.
Unlock(c) == lock' = IF lock.owner = c THEN Unlocked ELSE lock
Release(c) ==
  /\ task[c].at = "done"
  /\ Unlock(c)
  /\ task' = [task EXCEPT ![c] = Idle]
  /\ UNCHANGED <<node, ledger, cache, agent, overrun, faults>>

\* Mutant: what is billed and the snapshot are not in one transaction.
SettleFailsHalfway(c) ==
  /\ task[c].at \in {"locked", "sampled", "read"}
  /\ Fault
  /\ IF task[c].at = "read" /\ task[c].plan
     THEN /\ billed' = billed + Weighted(Advance(task[c].last, task[c].sample.total))
          /\ UNCHANGED <<snapshot, newest, late>>
     ELSE UNCHANGED ledger
  /\ task' = [task EXCEPT ![c].at = "done"]
  /\ UNCHANGED <<node, lock, cache, agent, overrun>>
\* The node or the database fails: the transaction is rolled back, the lock
\* released.
SettleFails(c) ==
  /\ task[c].at \in {"locked", "sampled", "read"}
  /\ Fault
  /\ task' = [task EXCEPT ![c].at = "done"]
  /\ UNCHANGED <<node, ledger, lock, cache, agent, overrun>>

\* The panel dies: tables stay, the lock with them, connections are gone.
PanelCrash ==
  /\ Fault
  /\ task' = [c \in Collectors |-> Idle]
  /\ cache' = Empty /\ link' = Nobody
  /\ UNCHANGED <<node, ledger, lock, sent, overrun>>

Step(c) ==
  \/ PollNode(c) \/ PollCache(c) \/ PushLock(c) \/ PushBusy(c)
  \/ ReadRows(c) \/ Commit(c) \/ Release(c)

TrafficNext ==
  \/ Carry \/ CounterReset \/ Subscribe
  \/ LockRunsOut \/ LockOverruns \/ ReconcileFills \/ CacheExpires \/ PanelCrash
  \/ \E c \in Pollers : PollLock(c)
  \/ \E c \in Conns : Connect(c) \/ Report(c)
  \/ \E c \in Collectors : Step(c) \/ SettleFails(c)

TrafficSpec == TrafficInit /\ [][TrafficNext]_vars

\* Rounds are scheduled every five minutes and handlers run to their end; time
\* passes for the lock and the cache.
FairTrafficSpec ==
  /\ TrafficSpec
  /\ WF_vars(LockRunsOut) /\ WF_vars(CacheExpires)
  /\ \A c \in Cached : WF_vars(PollLock(c))
  /\ \A c \in Collectors : WF_vars(Step(c))

-----------------------------------------------------------------------------
TrafficTypeOK ==
  /\ driver \in {"3x-ui", "xray"} /\ planned \in BOOLEAN
  /\ counter \in Nat /\ carried \in Nat /\ resets \in Nat
  /\ snapshot \in Nat \cup {NoRow} /\ billed \in Nat /\ newest \in Samples
  /\ late \in BOOLEAN /\ overrun \in BOOLEAN
  /\ lock \in Locks /\ cache \in Maybe
  /\ task \in [Collectors -> Tasks]
  /\ link \in Conns \cup {Nobody} /\ sent \in Maybe
  /\ faults \in Nat

\* Unless a sample overtakes a newer one or a lock runs out under its owner, no
\* byte is billed twice, whatever is repeated, cut off, reset or left out, and
\* while the counter was not reset none up to the snapshot is forgotten
\* (trafficsync.go: replaying a sample does not charge again).
BilledOnce ==
  ~late /\ ~overrun =>
    /\ billed * Den <= carried * Num
    /\ resets = 0 /\ snapshot # NoRow => billed >= snapshot * (Num \div Den)

Settled == snapshot = counter \/ (snapshot = NoRow /\ counter = 0)
\* What a user with a plan carries over a polled node is settled in the end,
\* although rounds are left out, fail, or read a stale cache (collector/sync.go).
PolledIsSettled == <>[](driver = "3x-ui" /\ planned => Settled)
=============================================================================
