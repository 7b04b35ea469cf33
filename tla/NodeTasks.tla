----------------------------- MODULE NodeTasks -----------------------------
(***************************************************************************)
(* The background tasks of one 3x-ui node, from its creation to its        *)
(* deletion: node_init, which creates a client for every user and then     *)
(* enables the node, sync_inbounds, which attaches the clients to a new    *)
(* inbound, and cleanup_clients, which empties the panel of a deleted      *)
(* node (server/cmd/server/nodejobs.go, nodetasks.go; the requests of the  *)
(* administrator in handler/admin/node_crud.go and node_present.go, the    *)
(* rows in handler/admin/node_sqlstore.go).                                *)
(*                                                                         *)
(* The tasks live in the tables of AsyncTask.  The jobs of init and sync   *)
(* are batches of users without an item key: the queue settles none of     *)
(* their items, and tries one again only when its handler returns an error *)
(* (HandlerFails).  Two batches of one task run at the same time on two    *)
(* workers.                                                                *)
(*                                                                         *)
(* One row of a task and its items is a transaction of AsyncTask, one call *)
(* of the panel a step, and what a call goes by, the row of the user and   *)
(* the inbounds of the node, is read in steps of its own before it.  One   *)
(* step are the deletions of a cleanup, at the list they go by, the        *)
(* question for a client and its deletion, and in the comparison of a scan *)
(* the reads of an item and its verdict: there the inbounds do not change  *)
(* any more.  A user either has a usable plan or none.                     *)
(*                                                                         *)
(* Not modelled: bare kernels (their items succeed at once), users that    *)
(* are deleted, a list of clients read only in part, inbounds taken away,  *)
(* a second task of one kind, the connection data of the node,             *)
(* nodes.status, and what the queue does with a job before and after its   *)
(* handler (TaskQueue).                                                    *)
(***************************************************************************)
EXTENDS AsyncTask, Sequences

CONSTANTS Users,        \* user ids, the keys of the items of init and sync
          NodeKey,      \* the key of the one item of cleanup
          Workers,      \* workers of the queue
          BatchSize,    \* users in a batch (tasks.node_sync_batch)
          Leftover,     \* users with a client at the panel from an earlier time
          Wishes,       \* what may be asked for at the creation: enabled or not
          MaxEvents     \* bound of the model: requests after the creation of the node, retries,
                        \* lost plans, failed calls, lost verdicts and restarts

ASSUME NodeTasksAssumption ==
  /\ Tasks = {"init", "sync", "cleanup"}
  /\ Users \subseteq Nat /\ NodeKey \in Nat \ Users /\ Keys = Users \cup {NodeKey}
  /\ Leftover \subseteq Users /\ Wishes \subseteq BOOLEAN
  /\ BatchSize \in Nat \ {0}
  /\ MaxEvents \in Nat

VARIABLES node,      \* the row of the node: whether it is there, nodes.enabled
          wish,      \* should_enable in the meta of the init task
          inbounds,  \* the inbounds ticked for the node: 1, or 2 after the change
          panel,     \* panel[u]: the inbounds the client of u is attached to, 0 without one
          lapsed,    \* users without a usable plan
          due,       \* tasks whose jobs a goroutine of the handler has still to send
          queue,     \* the jobs of the node in the channel
          work,      \* work[w]: the job of a worker and where it is
          request,   \* the request of the administrator under way
          asked,     \* history: the state of the node he asked for last
          routed,    \* history: no switch was handled outside of an open init task
          overlap,   \* history: the panel was emptied with the node or an init batch around
          doubled,   \* history: two workers were at the item of one user
          behind,    \* history: users whose client was due on inbounds that changed just then
          faulty,    \* history: something failed
          events

admin == <<request, asked, routed>>
pasts == <<overlap, doubled, behind>>
quiet == <<faulty, events>>
rows == <<node, wish, inbounds>>
vars == <<asyncVars, rows, panel, lapsed, due, queue, work, admin, pasts, faulty, events>>

Kinds == {"init", "scan", "sync", "cleanup"}
Job == [kind : Kinds, keys : SUBSET Keys]
TaskOf(kind) == IF kind = "scan" THEN "sync" ELSE kind

Inbounds == 1 .. 2
NoList == [u \in Users |-> 0]
\* next: between two items; user, ticked: an item is claimed and the row of its user, the
\* inbounds of the node are to be read; clear, add, attach, clean: a call is due; verdict: the
\* outcome is known; scan, pending, compare: the scan of a panel.
Phases == {"free", "next", "user", "ticked", "clear", "add", "attach", "clean", "verdict",
           "scan", "pending", "compare"}
\* usable, ids: what was read, the plan of the user and the inbounds (0 before).
WorkerState == [phase : Phases, kind : Kinds, left : SUBSET Keys, key : Keys, ok : BOOLEAN,
                seen : BOOLEAN, usable : BOOLEAN, ids : {0} \cup Inbounds,
                list : [Users -> {0} \cup Inbounds], need : SUBSET Keys]
Free == [phase |-> "free", kind |-> "init", left |-> {}, key |-> NodeKey, ok |-> FALSE,
         seen |-> FALSE, usable |-> FALSE, ids |-> 0, list |-> NoList, need |-> {}]

Steps == {"none", "init", "empty", "final", "switch", "change", "sync", "delete"}
NoRequest == [step |-> "none", on |-> FALSE, active |-> FALSE]

First(ks) == CHOOSE k \in ks : \A j \in ks : k <= j

\* UserItemBatches: the keys in their order, cut into batches.
BatchOf(ks, i) ==
  {k \in ks : Cardinality({j \in ks : j < k}) \div BatchSize = i - 1}
Batches(kind, ks) ==
  [i \in 1 .. ((Cardinality(ks) + BatchSize - 1) \div BatchSize) |->
     [kind |-> kind, keys |-> BatchOf(ks, i)]]
ScanJob == [kind |-> "scan", keys |-> {}]
CleanupJob == [kind |-> "cleanup", keys |-> {NodeKey}]

At(w, phase) == work[w].phase = phase
Become(w, r) == work' = [work EXCEPT ![w] = r]
Event == events < MaxEvents /\ events' = events + 1
Fault == Event /\ faulty' = TRUE
\* A batch of init is between the two calls for u.
AtWork(u) == \E w \in Workers : work[w].kind = "init" /\ work[w].phase \in {"ticked", "add"}
                                /\ work[w].key = u

\* A node that was attached before has left clients at its panel.
NodeTasksInit ==
  /\ AsyncInit
  /\ node = [there |-> FALSE, enabled |-> FALSE] /\ wish = FALSE /\ inbounds = 1
  /\ panel = [u \in Users |-> IF u \in Leftover THEN 1 ELSE 0]
  /\ lapsed = {} /\ due = {} /\ queue = <<>> /\ work = [w \in Workers |-> Free]
  /\ request = NoRequest /\ asked = FALSE /\ routed = TRUE /\ overlap = FALSE
  /\ doubled = FALSE /\ behind = {} /\ faulty = FALSE /\ events = 0

-----------------------------------------------------------------------------
\* Requests of the administrator, one at a time.

Served == Users \ lapsed

\* nodeStore: the row of the node, then (submitNodeInit) the task with an item for each
\* user whose plan is usable; its jobs are sent by a goroutine (dispatchNodeTask).  Without
\* users the request goes on.
CreateNode(on) ==
  /\ request.step = "none" /\ ~node.there
  /\ task["init"].status = "absent" /\ task["cleanup"].status = "absent"
  /\ node' = [there |-> TRUE, enabled |-> FALSE] /\ asked' = on
  /\ request' = [step |-> "init", on |-> on, active |-> FALSE]
  /\ UNCHANGED <<asyncVars, wish, inbounds, panel, lapsed, due, queue, work, routed, pasts,
                 quiet>>
SubmitInit ==
  /\ request.step = "init"
  /\ Create("init", Served)
  /\ wish' = request.on
  /\ due' = due \cup (IF Served = {} THEN {} ELSE {"init"})
  /\ request' = [NoRequest EXCEPT !.step = IF Served = {} THEN "empty" ELSE "none"]
  /\ UNCHANGED <<node, inbounds, panel, lapsed, queue, work, asked, routed, pasts, quiet>>

\* FinalizeInitTask: once no item is open, a task that succeeded sets nodes.enabled to
\* what was asked for; of a deleted node there is no row.
FinalizeInitTask ==
  node' = IF KeysIn(item["init"], Active) = {} /\ task["init"].status = "succeeded"
             /\ task["init"].failed = 0
          THEN [node EXCEPT !.enabled = node.there /\ wish] ELSE node

FinishEmpty ==
  /\ request.step = "empty"
  /\ CompleteEmpty("init")
  /\ request' = [request EXCEPT !.step = "final"]
  /\ UNCHANGED <<rows, panel, lapsed, due, queue, work, asked, routed, pasts, quiet>>
FinalizeEmpty ==
  /\ request.step = "final"
  /\ FinalizeInitTask
  /\ request' = NoRequest
  /\ UNCHANGED <<asyncVars, wish, inbounds, panel, lapsed, due, queue, work, asked, routed,
                 pasts, quiet>>

\* nodeUpdate with a new enabled: first it is asked whether an init task is open
\* (ActiveNodeInitTask).
AskSwitch(on) ==
  /\ request.step = "none" /\ Event /\ node.there
  /\ request' = [step |-> "switch", on |-> on, active |-> task["init"].status \in Active]
  /\ asked' = on
  /\ UNCHANGED <<asyncVars, rows, panel, lapsed, due, queue, work, routed, pasts, faulty>>

\* Mutant: the wish of an open task stays what it was.
SwitchKeepsWish ==
  /\ request.step = "switch"
  /\ IF request.active
     THEN node' = IF task["init"].status \in Active THEN [node EXCEPT !.enabled = FALSE] ELSE node
     ELSE node' = [node EXCEPT !.enabled = request.on]
  /\ routed' = (routed /\ request.active /\ task["init"].status \in Active)
  /\ request' = NoRequest
  /\ UNCHANGED <<asyncVars, wish, inbounds, panel, lapsed, due, queue, work, asked, pasts,
                 quiet>>

\* ... an open task gets the wish (UpdateTaskDesiredEnabled, which does nothing if it was
\* closed meanwhile), otherwise the row of the node is written.
DoSwitch ==
  /\ request.step = "switch"
  /\ IF request.active
     THEN IF task["init"].status \in Active
          THEN wish' = request.on /\ node' = [node EXCEPT !.enabled = FALSE]
          ELSE UNCHANGED <<wish, node>>
     ELSE node' = [node EXCEPT !.enabled = request.on] /\ UNCHANGED wish
  /\ routed' = (routed /\ request.active /\ task["init"].status \in Active)
  /\ request' = NoRequest
  /\ UNCHANGED <<asyncVars, inbounds, panel, lapsed, due, queue, work, asked, pasts, quiet>>

\* nodeUpdate with one more inbound, refused while an init task is open: the inbounds are
\* replaced, then the sync task is created and its scan is sent (submitInboundSync).
AskChange ==
  /\ request.step = "none" /\ Event /\ node.there /\ inbounds = 1
  /\ task["init"].status \notin Active
  /\ request' = [request EXCEPT !.step = "change"]
  /\ UNCHANGED <<asyncVars, rows, panel, lapsed, due, queue, work, asked, routed, pasts,
                 faulty>>
ReplaceInbounds ==
  /\ request.step = "change"
  /\ inbounds' = 2
  /\ behind' = behind \cup {u \in Users : \E w \in Workers : At(w, "add") /\ work[w].key = u}
  /\ request' = [request EXCEPT !.step = IF Served = {} THEN "none" ELSE "sync"]
  /\ UNCHANGED <<asyncVars, node, wish, panel, lapsed, due, queue, work, asked, routed,
                 overlap, doubled, quiet>>
SubmitSync ==
  /\ request.step = "sync"
  /\ Create("sync", Served)
  /\ queue' = Append(queue, ScanJob)
  /\ request' = NoRequest
  /\ UNCHANGED <<rows, panel, lapsed, due, work, asked, routed, pasts, quiet>>

\* nodeDestroy: the cleanup task is created, then the row is deleted.
AskDelete ==
  /\ request.step = "none" /\ Event /\ node.there
  /\ Create("cleanup", {NodeKey})
  /\ request' = [request EXCEPT !.step = "delete"]
  /\ UNCHANGED <<rows, panel, lapsed, due, queue, work, asked, routed, pasts, faulty>>
DeleteNode ==
  /\ request.step = "delete"
  /\ node' = [there |-> FALSE, enabled |-> FALSE]
  /\ due' = due \cup {"cleanup"}
  /\ request' = NoRequest
  /\ UNCHANGED <<asyncVars, wish, inbounds, panel, lapsed, queue, work, asked, routed, pasts,
                 quiet>>

\* Dispatch: the jobs of some items of a task.  A sync task is scanned first.
JobsOf(t, ks) ==
  CASE t = "init" -> Batches("init", ks)
    [] t = "sync" -> <<ScanJob>>
    [] t = "cleanup" -> IF ks = {} THEN <<>> ELSE <<CleanupJob>>
SendDue(t) ==
  /\ t \in due
  /\ due' = due \ {t}
  /\ queue' = queue \o JobsOf(t, KeysIn(item[t], {"pending"}))
  /\ UNCHANGED <<asyncVars, rows, panel, lapsed, work, admin, pasts, quiet>>

\* The task page: a failed task is retried.
RetryTask(t) ==
  /\ Retry(t)
  /\ Event
  /\ queue' = queue \o JobsOf(t, FailedKeys(t))
  /\ UNCHANGED <<rows, panel, lapsed, due, work, admin, pasts, faulty>>

-----------------------------------------------------------------------------
\* The workers of the queue.

Kept == <<rows, lapsed, due, admin>>
Current(w) == TaskOf(work[w].kind)
\* The item is done with: on to the next one.
Onward(w) ==
  Become(w, [work[w] EXCEPT !.phase = "next", !.left = @ \ {work[w].key}, !.key = NodeKey,
                            !.ok = FALSE])
Settle(w, ok) ==
  Become(w, [work[w] EXCEPT !.phase = "verdict", !.ok = ok, !.usable = FALSE, !.ids = 0])

\* Mutant: a batch does not ask whether the node is still there.
TakeUnseen(w) ==
  /\ At(w, "free") /\ queue # <<>>
  /\ LET job == Head(queue)
         start == [Free EXCEPT !.kind = job.kind, !.left = job.keys, !.seen = TRUE]
     IN  Become(w, IF job.kind # "scan" THEN [start EXCEPT !.phase = "next"]
                   ELSE IF task["sync"].status \in Terminal THEN Free
                   ELSE [start EXCEPT !.phase = "scan"])
  /\ queue' = Tail(queue)
  /\ UNCHANGED <<asyncVars, Kept, panel, pasts, quiet>>

\* A worker takes a job; its handler reads the row of the node, a scan also whether the
\* task is still open.
Take(w) ==
  /\ At(w, "free") /\ queue # <<>>
  /\ LET job == Head(queue)
         start == [Free EXCEPT !.kind = job.kind, !.left = job.keys, !.seen = node.there]
     IN  Become(w, IF job.kind # "scan" THEN [start EXCEPT !.phase = "next"]
                   ELSE IF task["sync"].status \in Terminal THEN Free
                   ELSE [start EXCEPT !.phase = "scan"])
  /\ queue' = Tail(queue)
  /\ UNCHANGED <<asyncVars, Kept, panel, pasts, quiet>>

\* The next item is claimed; one that is refused is skipped.  Of a deleted node an item of
\* init fails and one of sync succeeds, without a call.
AfterClaim(w, k) ==
  LET r == work[w] IN
  [r EXCEPT !.key = k, !.ok = (r.kind = "sync" /\ ~r.seen),
            !.phase = IF r.kind = "cleanup" THEN "clean" ELSE IF r.seen THEN "user" ELSE "verdict"]
ClaimNext(w) ==
  /\ At(w, "next") /\ work[w].left # {}
  /\ LET k == First(work[w].left) IN
     IF ClaimGranted(Current(w), k)
     THEN ClaimItem(Current(w), k) /\ Become(w, AfterClaim(w, k))
     ELSE Become(w, [work[w] EXCEPT !.left = @ \ {k}]) /\ UNCHANGED asyncVars
  /\ doubled' = (doubled \/ \E v \in Workers \ {w} : work[v].key = First(work[w].left)
                              /\ work[w].kind = "init" /\ work[v].kind = "init")
  /\ UNCHANGED <<Kept, panel, queue, overlap, behind, quiet>>

\* The row of the user is read (loadJobUser).  A batch of sync is done with a user without a
\* plan, one of init asks for it later (usableNow), by what it has read here.
ReadUser(w) ==
  /\ At(w, "user")
  /\ LET usable == work[w].key \notin lapsed IN
     IF work[w].kind = "init"
     THEN Become(w, [work[w] EXCEPT !.phase = "clear", !.usable = usable])
     ELSE IF usable THEN Become(w, [work[w] EXCEPT !.phase = "ticked", !.usable = TRUE])
     ELSE Settle(w, TRUE)
  /\ UNCHANGED <<asyncVars, Kept, panel, queue, pasts, quiet>>

\* runNodeInitUser: what is left of the client of the user is deleted.
ClearClient(w) ==
  /\ At(w, "clear")
  /\ panel' = [panel EXCEPT ![work[w].key] = 0]
  /\ Become(w, [work[w] EXCEPT !.phase = "ticked"])
  /\ UNCHANGED <<asyncVars, Kept, queue, pasts, quiet>>

\* The ticked inbounds are read (inboundIDsForNode); the call that follows goes by them.
ReadInbounds(w) ==
  /\ At(w, "ticked")
  /\ IF work[w].usable
     THEN Become(w, [work[w] EXCEPT !.ids = inbounds,
                                    !.phase = IF work[w].kind = "init" THEN "add" ELSE "attach"])
     ELSE Settle(w, TRUE)
  /\ UNCHANGED <<asyncVars, Kept, panel, queue, pasts, quiet>>

\* The panel puts the client of the user on the inbounds that were read, also on more than
\* it has.  It refuses a second client of one name, and to attach one it does not have.
CallGranted(w) ==
  \/ At(w, "add") /\ panel[work[w].key] = 0
  \/ At(w, "attach") /\ panel[work[w].key] # 0
PutClient(w) ==
  panel' = [panel EXCEPT ![work[w].key] = IF @ < work[w].ids THEN work[w].ids ELSE @]

\* ... and created again.
AddClient(w) ==
  /\ At(w, "add")
  /\ Settle(w, CallGranted(w))
  /\ IF CallGranted(w) THEN PutClient(w) ELSE UNCHANGED panel
  /\ UNCHANGED <<asyncVars, Kept, queue, pasts, quiet>>

\* runNodeInboundSync: the client is attached.
AttachClient(w) ==
  /\ At(w, "attach")
  /\ Settle(w, CallGranted(w))
  /\ IF CallGranted(w) THEN PutClient(w) ELSE UNCHANGED panel
  /\ UNCHANGED <<asyncVars, Kept, queue, pasts, quiet>>

\* runNodeClientsCleanup: every client of ours is deleted, by the data in the task.
Clean(w) ==
  /\ At(w, "clean")
  /\ panel' = NoList
  /\ overlap' = (overlap \/ node.there \/ \E v \in Workers : work[v].kind = "init" /\ work[v].seen)
  /\ Settle(w, TRUE)
  /\ UNCHANGED <<asyncVars, Kept, queue, doubled, behind, quiet>>

\* A read or a call fails: of several deletions some may have been made, an answer may be
\* lost.
CallFails(w) ==
  /\ work[w].phase \in {"user", "ticked", "clear", "add", "attach", "clean"}
  /\ Fault
  /\ \/ UNCHANGED panel
     \/ At(w, "clear") /\ panel' = [panel EXCEPT ![work[w].key] = 0]
     \/ CallGranted(w) /\ PutClient(w)
     \/ At(w, "clean") /\ \E us \in SUBSET Users :
          panel' = [u \in Users |-> IF u \in us THEN 0 ELSE panel[u]]
  /\ Settle(w, FALSE)
  /\ UNCHANGED <<asyncVars, Kept, queue, pasts>>

\* completeJobItem, failJobItem.
Verdict(w) ==
  /\ At(w, "verdict")
  /\ LET t == Current(w)  k == work[w].key IN
     IF FinishOpen(t, k)
     THEN FinishItem(t, k, IF work[w].ok THEN "succeeded" ELSE "failed")
     ELSE UNCHANGED asyncVars
  /\ Onward(w)
  /\ UNCHANGED <<Kept, panel, queue, pasts, quiet>>

\* The database refuses a claim or a verdict, which is only logged.
Refused(w) ==
  /\ Fault
  /\ \/ At(w, "next") /\ work[w].left # {}
          /\ Become(w, [work[w] EXCEPT !.left = @ \ {First(work[w].left)}])
     \/ At(w, "verdict") /\ Onward(w)
  /\ UNCHANGED <<asyncVars, Kept, panel, queue, pasts>>

\* A batch is through.  One of init ends with an attempt to finalize.
EndBatch(w) ==
  /\ At(w, "next") /\ work[w].left = {}
  /\ IF work[w].kind = "init" THEN FinalizeInitTask ELSE UNCHANGED node
  /\ Become(w, Free)
  /\ UNCHANGED <<asyncVars, wish, inbounds, panel, lapsed, due, queue, admin, pasts, quiet>>

\* runNodeInboundScan: of a deleted node all open items fail; otherwise the clients of the
\* panel are listed, then the open items read.
Scan(w) ==
  /\ At(w, "scan")
  /\ IF work[w].seen
     THEN /\ Become(w, [work[w] EXCEPT !.phase = "pending", !.list = panel])
          /\ UNCHANGED asyncVars
     ELSE FailPendingItems("sync") /\ Become(w, Free)
  /\ UNCHANGED <<Kept, panel, queue, pasts, quiet>>
ReadPending(w) ==
  /\ At(w, "pending")
  /\ Become(w, [work[w] EXCEPT !.phase = "compare", !.left = KeysIn(item["sync"], {"pending"})])
  /\ UNCHANGED <<asyncVars, Kept, panel, queue, pasts, quiet>>
ScanFails(w) ==
  /\ At(w, "scan") /\ work[w].seen
  /\ Fault
  /\ FailPendingItems("sync")
  /\ Become(w, Free)
  /\ UNCHANGED <<Kept, panel, queue, pasts>>

\* Mutant: a client that is listed is taken for attached.
AttachedIfListed(w, u) == TRUE

\* What needs no work: a user without a plan, without a client, or attached to all.
AttachedIn(w, u) == u \in lapsed \/ work[w].list[u] \notin 1 .. (inbounds - 1)
\* Such an item is done without a claim, the others are collected.
Compare(w) ==
  /\ At(w, "compare") /\ work[w].left # {}
  /\ LET u == First(work[w].left)
         rest == [work[w] EXCEPT !.left = @ \ {u}]
     IN  IF AttachedIn(w, u)
         THEN /\ Become(w, rest)
              /\ IF FinishOpen("sync", u) THEN FinishItem("sync", u, "succeeded")
                 ELSE UNCHANGED asyncVars
         ELSE Become(w, [rest EXCEPT !.need = @ \cup {u}]) /\ UNCHANGED asyncVars
  /\ UNCHANGED <<Kept, panel, queue, pasts, quiet>>
SendBatches(w) ==
  /\ At(w, "compare") /\ work[w].left = {}
  /\ queue' = queue \o Batches("sync", work[w].need)
  /\ Become(w, Free)
  /\ UNCHANGED <<asyncVars, Kept, panel, pasts, quiet>>

\* The time limit of a job: its context ends, and with it every later call of the handler,
\* the attempt to finalize included.  The queue settles the item of a cleanup.
Expire(w) ==
  /\ ~At(w, "free")
  /\ Fault
  /\ IF work[w].kind = "cleanup" /\ FinishOpen("cleanup", NodeKey)
     THEN FinishItem("cleanup", NodeKey, "failed") ELSE UNCHANGED asyncVars
  /\ Become(w, Free)
  /\ UNCHANGED <<Kept, panel, queue, pasts>>

\* A handler returns an error, since the database refuses it a row: the queue tries the job
\* again later, or gives it up after its last attempt.
HandlerFails(w) ==
  /\ Fault
  /\ \/ /\ At(w, "free") /\ queue # <<>> /\ Head(queue).kind # "cleanup"
        /\ queue' \in {Tail(queue), Append(Tail(queue), Head(queue))}
     \/ /\ At(w, "pending") \/ (At(w, "compare") /\ work[w].left = {})
        /\ queue' \in {queue, Append(queue, ScanJob)}
  /\ Become(w, Free)
  /\ UNCHANGED <<asyncVars, Kept, panel, pasts>>

-----------------------------------------------------------------------------
\* A restart: the channel, the goroutines, the handlers and the request are gone.
Restart ==
  /\ Fault
  /\ due' = {} /\ queue' = <<>> /\ work' = [w \in Workers |-> Free] /\ request' = NoRequest
  /\ UNCHANGED <<asyncVars, rows, panel, lapsed, asked, routed, pasts>>

\* TimeoutStale: an open task may be idle for long while its batches wait for a worker,
\* or because they are lost; batches have no item key and are never in flight.
Sweep(t) ==
  /\ task[t].status \in Active
  /\ FailPendingItems(t)
  /\ UNCHANGED <<rows, panel, lapsed, due, queue, work, admin, pasts, quiet>>

Lapse(u) ==
  /\ Event /\ u \notin lapsed
  /\ lapsed' = lapsed \cup {u}
  /\ UNCHANGED <<asyncVars, rows, panel, due, queue, work, admin, pasts, faulty>>

WorkerStep(w) ==
  \/ Take(w) \/ ClaimNext(w) \/ Verdict(w) \/ EndBatch(w)
  \/ ReadUser(w) \/ ReadInbounds(w)
  \/ ClearClient(w) \/ AddClient(w) \/ AttachClient(w) \/ Clean(w)
  \/ Scan(w) \/ ReadPending(w) \/ Compare(w) \/ SendBatches(w)
WorkerFails(w) == CallFails(w) \/ Refused(w) \/ ScanFails(w) \/ HandlerFails(w) \/ Expire(w)
RequestStep ==
  \/ SubmitInit \/ FinishEmpty \/ FinalizeEmpty \/ DoSwitch
  \/ ReplaceInbounds \/ SubmitSync \/ DeleteNode
  \/ \E t \in Tasks : SendDue(t)
NewRequest ==
  \/ (\E on \in Wishes : CreateNode(on)) \/ (\E on \in BOOLEAN : AskSwitch(on))
  \/ AskChange \/ AskDelete

NodeTasksNext ==
  \/ NewRequest \/ RequestStep
  \/ \E w \in Workers : WorkerStep(w) \/ WorkerFails(w)
  \/ \E t \in Tasks : RetryTask(t) \/ Sweep(t)
  \/ \E u \in Users : Lapse(u)
  \/ Restart

NodeTasksSpec == NodeTasksInit /\ [][NodeTasksNext]_vars

-----------------------------------------------------------------------------
\* Every variable has the shape the code gives it.
NodeTasksTypeOK ==
  /\ AsyncTypeOK
  /\ node \in [there : BOOLEAN, enabled : BOOLEAN] /\ wish \in BOOLEAN /\ inbounds \in Inbounds
  /\ panel \in [Users -> {0} \cup Inbounds] /\ lapsed \subseteq Users
  /\ due \subseteq Tasks /\ queue \in Seq(Job) /\ work \in [Workers -> WorkerState]
  /\ request \in [step : Steps, on : BOOLEAN, active : BOOLEAN]
  /\ asked \in BOOLEAN /\ routed \in BOOLEAN /\ overlap \in BOOLEAN /\ doubled \in BOOLEAN
  /\ behind \subseteq Users /\ faulty \in BOOLEAN /\ events \in 0 .. MaxEvents

\* A success on the task page is one on the panel: a user whose item of init succeeded has a
\* client, one whose item of sync succeeded is attached to every inbound, however batches of a
\* first run and of a retry fall together (nodejobs.go).  Only two batches at the item of one
\* user, together with a failure, may undo what was reported.
SuccessMeansServed ==
  (node.there /\ task["cleanup"].status = "absent") =>
    \A u \in Users \ lapsed :
      /\ (item["init"][u] = "succeeded" /\ ~AtWork(u) /\ (~faulty \/ ~doubled))
           => panel[u] > 0
      /\ (item["sync"][u] = "succeeded" /\ panel[u] > 0 /\ u \notin behind)
           => panel[u] = inbounds

\* Once the cleanup of a deleted node has succeeded its panel is and stays empty, unless the
\* cleanup found the node still there or a batch of init that had read it before
\* (nodejobs.go, runNodeClientsCleanup).
CleanedUp ==
  (item["cleanup"][NodeKey] = "succeeded" /\ ~overlap) => panel = NoList

\* A request on its way to the init task, or a batch that has still to finalize it.
Settling ==
  \/ request.step \in {"empty", "final", "switch"}
  \/ \E w \in Workers : ~At(w, "free") /\ work[w].kind = "init"

\* A node whose init task has succeeded is in the state the administrator asked for last, if
\* every switch reached the task while it was open, or somebody is left who will yet see to
\* it: whatever batch comes last, it finalizes with his last wish (node_crud.go, nodeUpdate;
\* node_sqlstore.go, FinalizeInitTask).
LastWish ==
  (routed /\ ~faulty /\ node.there /\ task["init"].status = "succeeded" /\ ~Settling)
    => node.enabled = asked
=============================================================================
