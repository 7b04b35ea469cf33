-------------------------- MODULE NodeTasksProofs --------------------------
(***************************************************************************)
(* Proofs about the tasks of a node for any users, any number of workers,  *)
(* any size of a batch and any number of requests and faults: they touch   *)
(* the task tables through the transactions of AsyncTask only, so what is  *)
(* proved in AsyncTaskProofs holds of them; a cleaned panel stays empty;   *)
(* what is called done is done on the panel; and an initialised node is as *)
(* the administrator asked for last, or somebody will yet see to it.       *)
(***************************************************************************)
EXTENDS NodeTasks, AsyncTaskProofs, SequenceTheorems, WellFoundedInduction

TableStep == [AsyncNext]_asyncVars

-----------------------------------------------------------------------------
\* The keys of the items are numbers, and the three tasks are known.
LEMMA Names ==
  /\ Keys \subseteq Nat /\ Users \subseteq Keys /\ NodeKey \in Keys /\ NodeKey \notin Users
  /\ \A w \in Workers : work[w].kind \in Kinds => Current(w) \in Tasks
  /\ {"init", "sync", "cleanup"} = Tasks
  BY NodeTasksAssumption DEF Kinds, Current, TaskOf

\* The administrator asks for a node that is enabled or for one that is not.
LEMMA KnownWishes == \A on \in Wishes : on \in BOOLEAN
  BY NodeTasksAssumption

\* The first of some keys is one of them.
LEMMA FirstMember ==
  ASSUME NEW ks \in SUBSET Keys, ks # {}
  PROVE  First(ks) \in ks
  <1>1. ks \subseteq Nat
    BY Names
  <1>2. PICK k \in ks : \A j \in ks : <<j, k>> \notin OpToRel(<, Nat)
    BY <1>1, NatLessThanWellFounded, WFMin, Zenon
  <1>3. k \in Nat /\ \A j \in ks : j \in Nat
    BY <1>1
  <1>4. \A j \in ks : ~(j < k)
    BY <1>2, <1>3, Zenon DEF OpToRel
  <1>5. \A j \in ks : k <= j
    BY <1>3, <1>4
  <1> QED
    BY <1>5 DEF First

\* The jobs of some items are jobs.
LEMMA JobsAreJobs ==
  ASSUME NEW ks \in SUBSET Keys
  PROVE  /\ \A kind \in Kinds : Batches(kind, ks) \in Seq(Job)
         /\ \A t \in Tasks : JobsOf(t, ks) \in Seq(Job)
         /\ ScanJob \in Job
  <1>1. ASSUME NEW kind \in Kinds PROVE Batches(kind, ks) \in Seq(Job)
    <2> DEFINE n == (Cardinality(ks) + BatchSize - 1) \div BatchSize
               e(i) == [kind |-> kind, keys |-> BatchOf(ks, i)]
    <2>1. \A i \in 1 .. n : e(i) \in Job
      BY DEF Job, BatchOf
    <2>2. Cardinality(ks) \in Nat /\ BatchSize \in Nat \ {0}
      BY KeysAssumption, FS_Subset, FS_CardinalityType, NodeTasksAssumption
    <2>3. n \in Nat
      BY <2>2
    <2>4. [i \in 1 .. n |-> e(i)] \in Seq(Job)
      <3> HIDE DEF n, e
      <3> QED
        BY <2>1, <2>3, IsASeq
    <2> QED
      BY <2>4 DEF Batches
  <1>2. ScanJob \in Job /\ CleanupJob \in Job
    BY Names DEF ScanJob, CleanupJob, Job, Kinds
  <1>3. ASSUME NEW t \in Tasks PROVE JobsOf(t, ks) \in Seq(Job)
    BY <1>1, <1>2, Names DEF JobsOf, Kinds
  <1> QED
    BY <1>1, <1>2, <1>3
-----------------------------------------------------------------------------
\* The disjuncts of the next-state relation, as one list of cases.
LEMMA StepCases ==
  ASSUME NodeTasksNext, NEW P,
         \A on \in BOOLEAN : CreateNode(on) => P,
         \A on \in BOOLEAN : AskSwitch(on) => P,
         AskChange => P, AskDelete => P,
         SubmitInit => P, FinishEmpty => P, FinalizeEmpty => P, DoSwitch => P,
         ReplaceInbounds => P, SubmitSync => P, DeleteNode => P,
         \A t \in Tasks : SendDue(t) => P,
         \A w \in Workers : Take(w) => P,
         \A w \in Workers : ClaimNext(w) => P,
         \A w \in Workers : Verdict(w) => P,
         \A w \in Workers : EndBatch(w) => P,
         \A w \in Workers : ReadUser(w) => P,
         \A w \in Workers : ReadInbounds(w) => P,
         \A w \in Workers : ClearClient(w) => P,
         \A w \in Workers : AddClient(w) => P,
         \A w \in Workers : AttachClient(w) => P,
         \A w \in Workers : Clean(w) => P,
         \A w \in Workers : Scan(w) => P,
         \A w \in Workers : ReadPending(w) => P,
         \A w \in Workers : Compare(w) => P,
         \A w \in Workers : SendBatches(w) => P,
         \A w \in Workers : CallFails(w) => P,
         \A w \in Workers : Refused(w) => P,
         \A w \in Workers : ScanFails(w) => P,
         \A w \in Workers : HandlerFails(w) => P,
         \A w \in Workers : Expire(w) => P,
         \A t \in Tasks : RetryTask(t) => P,
         \A t \in Tasks : Sweep(t) => P,
         \A u \in Users : Lapse(u) => P,
         Restart => P
  PROVE  P
  BY KnownWishes, Zenon DEF NodeTasksNext, NewRequest, RequestStep, WorkerStep, WorkerFails

\* A transaction on a known task is a step of the tables.
LEMMA TableSteps ==
  ASSUME NEW t \in Tasks
  PROVE  /\ \A ks \in SUBSET Keys : Create(t, ks) => TableStep
         /\ CompleteEmpty(t) => TableStep
         /\ \A k \in Keys : ClaimItem(t, k) => TableStep
         /\ \A k \in Keys, s \in Terminal : FinishItem(t, k, s) => TableStep
         /\ FailPendingItems(t) => TableStep
         /\ Retry(t) => TableStep
         /\ UNCHANGED asyncVars => TableStep
  BY Zenon DEF TableStep, AsyncNext

\* What a worker has is of its kind.
LEMMA WorkerNames ==
  ASSUME NodeTasksTypeOK, NEW w \in Workers
  PROVE  /\ work[w] \in WorkerState /\ work[w].key \in Keys
         /\ Current(w) \in Tasks
         /\ (At(w, "next") \/ At(w, "compare")) /\ work[w].left # {} => First(work[w].left) \in Keys
  <1>1. work[w] \in WorkerState
    BY DEF NodeTasksTypeOK
  <1>2. work[w].key \in Keys /\ work[w].kind \in Kinds /\ work[w].left \in SUBSET Keys
    BY <1>1 DEF WorkerState
  <1>3. work[w].left # {} => First(work[w].left) \in Keys
    BY <1>2, FirstMember
  <1> QED
    BY <1>1, <1>2, <1>3, Names

\* Whatever the handlers and the administrator do, the tables of the tasks see a
\* transaction of AsyncTask or nothing (async.go is the only door to them).
LEMMA StepOnTables ==
  ASSUME NodeTasksTypeOK, NodeTasksNext
  PROVE  TableStep
  <1>u. UNCHANGED asyncVars => TableStep
    BY DEF TableStep
  <1>t. "init" \in Tasks /\ "sync" \in Tasks /\ "cleanup" \in Tasks
    BY Names
  <1>k. Served \in SUBSET Keys /\ {NodeKey} \in SUBSET Keys /\ NodeKey \in Keys
    BY Names DEF Served
  <1>s. {"succeeded", "failed"} \subseteq Terminal
    BY DEF Terminal
  <1>1. SubmitInit => TableStep
    BY <1>t, <1>k, TableSteps, Zenon DEF SubmitInit
  <1>2. FinishEmpty => TableStep
    BY <1>t, TableSteps, Zenon DEF FinishEmpty
  <1>3. SubmitSync => TableStep
    BY <1>t, <1>k, TableSteps, Zenon DEF SubmitSync
  <1>4. AskDelete => TableStep
    BY <1>t, <1>k, TableSteps, Zenon DEF AskDelete
  <1>5. ASSUME NEW w \in Workers PROVE ClaimNext(w) => TableStep
    <2>1. Current(w) \in Tasks
      BY WorkerNames
    <2>2. ASSUME ClaimNext(w) PROVE TableStep
      <3>1. First(work[w].left) \in Keys
        BY <2>2, WorkerNames DEF ClaimNext
      <3>2. ClaimItem(Current(w), First(work[w].left)) \/ UNCHANGED asyncVars
        BY <2>2, Zenon DEF ClaimNext
      <3> QED
        BY <2>1, <3>1, <3>2, TableSteps, Zenon
    <2> QED
      BY <2>2
  <1>6. ASSUME NEW w \in Workers PROVE Verdict(w) => TableStep
    <2>1. Current(w) \in Tasks /\ work[w].key \in Keys
      BY WorkerNames
    <2>2. Verdict(w) => \/ \E s \in Terminal : FinishItem(Current(w), work[w].key, s)
                        \/ UNCHANGED asyncVars
      <3>1. (IF work[w].ok THEN "succeeded" ELSE "failed") \in Terminal
        BY <1>s
      <3> QED
        BY <3>1, Zenon DEF Verdict
    <2> QED
      BY <2>1, <2>2, TableSteps, Zenon
  <1>7. ASSUME NEW w \in Workers PROVE Scan(w) => TableStep
    BY <1>t, TableSteps, Zenon DEF Scan
  <1>8. ASSUME NEW w \in Workers PROVE ScanFails(w) => TableStep
    BY <1>t, TableSteps, Zenon DEF ScanFails
  <1>9. ASSUME NEW w \in Workers PROVE Compare(w) => TableStep
    <2>1. ASSUME Compare(w) PROVE TableStep
      <3>1. First(work[w].left) \in Keys
        BY <2>1, WorkerNames DEF Compare
      <3>2. FinishItem("sync", First(work[w].left), "succeeded") \/ UNCHANGED asyncVars
        BY <2>1, Zenon DEF Compare
      <3> QED
        BY <1>t, <1>s, <3>1, <3>2, TableSteps
    <2> QED
      BY <2>1
  <1>10. ASSUME NEW w \in Workers PROVE Expire(w) => TableStep
    <2>1. Expire(w) => FinishItem("cleanup", NodeKey, "failed") \/ UNCHANGED asyncVars
      BY Zenon DEF Expire
    <2> QED
      BY <1>t, <1>k, <1>s, <2>1, TableSteps
  <1>11. ASSUME NEW t \in Tasks PROVE RetryTask(t) => TableStep
    BY TableSteps, Zenon DEF RetryTask
  <1>12. ASSUME NEW t \in Tasks PROVE Sweep(t) => TableStep
    BY TableSteps, Zenon DEF Sweep
  <1>13. /\ \A on \in BOOLEAN : (CreateNode(on) => TableStep) /\ (AskSwitch(on) => TableStep)
         /\ AskChange => TableStep
         /\ FinalizeEmpty => TableStep
         /\ DoSwitch => TableStep
         /\ ReplaceInbounds => TableStep
         /\ DeleteNode => TableStep
         /\ \A t \in Tasks : SendDue(t) => TableStep
         /\ \A u \in Users : Lapse(u) => TableStep
         /\ Restart => TableStep
    BY <1>u, Zenon DEF CreateNode, AskSwitch, AskChange, FinalizeEmpty, DoSwitch, ReplaceInbounds,
                DeleteNode, SendDue, Lapse, Restart
  <1>14. ASSUME NEW w \in Workers
         PROVE  /\ Take(w) => TableStep
                /\ EndBatch(w) => TableStep
                /\ ReadUser(w) => TableStep
                /\ ReadInbounds(w) => TableStep
                /\ ReadPending(w) => TableStep
                /\ ClearClient(w) => TableStep
                /\ AddClient(w) => TableStep
                /\ AttachClient(w) => TableStep
                /\ Clean(w) => TableStep
                /\ SendBatches(w) => TableStep
                /\ CallFails(w) => TableStep
                /\ Refused(w) => TableStep
                /\ HandlerFails(w) => TableStep
    BY <1>u, Zenon DEF Take, EndBatch, ReadUser, ReadInbounds, ReadPending, ClearClient, AddClient,
                AttachClient, Clean, SendBatches, CallFails, Refused, HandlerFails
  <1> QED
    BY <1>1, <1>2, <1>3, <1>4, <1>5, <1>6, <1>7, <1>8, <1>9, <1>10, <1>11, <1>12, <1>13, <1>14,
       StepCases
-----------------------------------------------------------------------------
\* A worker that becomes something, and nobody else.
LEMMA BecomeFacts ==
  ASSUME NodeTasksTypeOK, NEW w \in Workers, NEW r \in WorkerState, Become(w, r)
  PROVE  /\ work' \in [Workers -> WorkerState]
         /\ work'[w] = r
         /\ \A v \in Workers \ {w} : work'[v] = work[v]
  BY DEF Become, NodeTasksTypeOK

\* A free worker is one.
LEMMA FreeIsState == Free \in WorkerState /\ NoList \in [Users -> {0} \cup Inbounds]
  BY Names DEF Free, WorkerState, Phases, Kinds, NoList, Inbounds

\* What becomes of a worker that settles its item or goes on to the next one.
LEMMA SettleFacts ==
  ASSUME NodeTasksTypeOK, NEW w \in Workers
  PROVE  /\ \A ok \in BOOLEAN :
              Settle(w, ok) => Become(w, [work[w] EXCEPT !.phase = "verdict", !.ok = ok,
                                                         !.usable = FALSE, !.ids = 0])
         /\ \A ok \in BOOLEAN :
              [work[w] EXCEPT !.phase = "verdict", !.ok = ok, !.usable = FALSE, !.ids = 0]
                \in WorkerState
         /\ [work[w] EXCEPT !.phase = "next", !.left = work[w].left \ {work[w].key},
                            !.key = NodeKey, !.ok = FALSE] \in WorkerState
  <1>1. work[w] \in WorkerState
    BY DEF NodeTasksTypeOK
  <1> QED
    BY <1>1, Names DEF Settle, WorkerState, Phases

\* The state of a worker after a claim.
LEMMA AfterClaimType ==
  ASSUME NodeTasksTypeOK, NEW w \in Workers, NEW k \in Keys
  PROVE  AfterClaim(w, k) \in WorkerState
  <1>1. work[w] \in WorkerState
    BY DEF NodeTasksTypeOK
  <1> QED
    BY <1>1 DEF AfterClaim, WorkerState, Phases

\* The state of a worker with other items left.
LEMMA LeftType ==
  ASSUME NodeTasksTypeOK, NEW w \in Workers, NEW ks \in SUBSET Keys
  PROVE  /\ [work[w] EXCEPT !.left = ks] \in WorkerState
         /\ \A us \in SUBSET Keys : [work[w] EXCEPT !.left = ks, !.need = us] \in WorkerState
         /\ \A p \in Phases : [work[w] EXCEPT !.phase = p, !.left = ks] \in WorkerState
         /\ \A p \in Phases, l \in [Users -> {0} \cup Inbounds] :
              [work[w] EXCEPT !.phase = p, !.list = l] \in WorkerState
         /\ \A p \in Phases : [work[w] EXCEPT !.phase = p] \in WorkerState
         /\ \A p \in Phases, b \in BOOLEAN :
              [work[w] EXCEPT !.phase = p, !.usable = b] \in WorkerState
         /\ \A p \in Phases, i \in Inbounds :
              [work[w] EXCEPT !.ids = i, !.phase = p] \in WorkerState
  <1>1. work[w] \in WorkerState
    BY DEF NodeTasksTypeOK
  <1> QED
    BY <1>1 DEF WorkerState

\* What a worker that takes part in a step leaves alone, when it becomes r.
LEMMA OneWorkerTyped ==
  ASSUME NodeTasksTypeOK, AsyncTypeOK', NEW w \in Workers, NEW r \in WorkerState, Become(w, r),
         UNCHANGED Kept, queue' \in Seq(Job),
         panel' \in [Users -> {0} \cup Inbounds], overlap' \in BOOLEAN, doubled' \in BOOLEAN,
         behind' \in SUBSET Users, faulty' \in BOOLEAN, events' \in 0 .. MaxEvents
  PROVE  NodeTasksTypeOK'
  <1>1. work' \in [Workers -> WorkerState]
    BY BecomeFacts
  <1> QED
    BY <1>1 DEF NodeTasksTypeOK, Kept, rows, admin

\* An event is within the bound.
LEMMA EventTyped ==
  ASSUME NodeTasksTypeOK
  PROVE  /\ Event => events' \in 0 .. MaxEvents
         /\ Fault => events' \in 0 .. MaxEvents /\ faulty' = TRUE
         /\ UNCHANGED quiet => events' \in 0 .. MaxEvents /\ faulty' \in BOOLEAN
  BY NodeTasksAssumption DEF NodeTasksTypeOK, Event, Fault, quiet

\* The steps of the requests keep the types.
LEMMA RequestTyped ==
  ASSUME NodeTasksTypeOK, AsyncTypeOK',
         \/ RequestStep
         \/ NewRequest
         \/ \E t \in Tasks : RetryTask(t) \/ Sweep(t)
         \/ \E u \in Users : Lapse(u)
         \/ Restart
  PROVE  NodeTasksTypeOK'
  <1> USE DEF NodeTasksTypeOK
  <1>0. /\ Served \in SUBSET Keys
        /\ "init" \in Tasks /\ "cleanup" \in Tasks
        /\ \A t \in Tasks : KeysIn(item[t], {"pending"}) \in SUBSET Keys
        /\ \A t \in Tasks : FailedKeys(t) \in SUBSET Keys
    BY Names DEF Served, KeysIn, FailedKeys
  <1>q. \A t \in Tasks, ks \in SUBSET Keys : queue \o JobsOf(t, ks) \in Seq(Job)
    BY JobsAreJobs, ConcatProperties
  <1>n. /\ NoRequest \in [step : Steps, on : BOOLEAN, active : BOOLEAN]
        /\ \A r \in [step : Steps, on : BOOLEAN, active : BOOLEAN], s \in Steps :
             [r EXCEPT !.step = s] \in [step : Steps, on : BOOLEAN, active : BOOLEAN]
        /\ {"none", "init", "empty", "final", "switch", "change", "sync", "delete"} = Steps
    BY DEF NoRequest, Steps
  <1>f. FinalizeInitTask => node' \in [there : BOOLEAN, enabled : BOOLEAN]
    BY DEF FinalizeInitTask
  <1> USE DEF asyncVars, admin, pasts, quiet, rows
  <1>1. ASSUME NEW on \in BOOLEAN, CreateNode(on) PROVE NodeTasksTypeOK'
    BY <1>1, <1>n DEF CreateNode
  <1>2. ASSUME NEW on \in BOOLEAN, AskSwitch(on) PROVE NodeTasksTypeOK'
    <2>1. request' \in [step : Steps, on : BOOLEAN, active : BOOLEAN]
      BY <1>2, <1>n DEF AskSwitch
    <2>2. events' \in 0 .. MaxEvents
      BY <1>2, EventTyped DEF AskSwitch
    <2> QED
      BY <1>2, <2>1, <2>2 DEF AskSwitch
  <1>3. CASE AskChange
    <2>1. request' \in [step : Steps, on : BOOLEAN, active : BOOLEAN]
      BY <1>3, <1>n DEF AskChange
    <2>2. events' \in 0 .. MaxEvents
      BY <1>3, EventTyped DEF AskChange
    <2> QED
      BY <1>3, <2>1, <2>2 DEF AskChange
  <1>4. CASE AskDelete
    <2>1. request' \in [step : Steps, on : BOOLEAN, active : BOOLEAN]
      BY <1>4, <1>n DEF AskDelete
    <2>2. events' \in 0 .. MaxEvents
      BY <1>4, EventTyped DEF AskDelete
    <2> QED
      BY <1>4, <2>1, <2>2 DEF AskDelete
  <1>5. CASE SubmitInit
    BY <1>5, <1>0, <1>n DEF SubmitInit
  <1>6. CASE FinishEmpty
    BY <1>6, <1>n DEF FinishEmpty
  <1>7. CASE FinalizeEmpty
    BY <1>7, <1>n, <1>f DEF FinalizeEmpty
  <1>8. CASE DoSwitch
    <2>1. node' \in [there : BOOLEAN, enabled : BOOLEAN] /\ wish' \in BOOLEAN
      <3>1. CASE request.active /\ task["init"].status \in Active
        BY <1>8, <3>1 DEF DoSwitch
      <3>2. CASE request.active /\ task["init"].status \notin Active
        BY <1>8, <3>2 DEF DoSwitch
      <3>3. CASE ~request.active
        BY <1>8, <3>3 DEF DoSwitch
      <3> QED
        BY <3>1, <3>2, <3>3
    <2>2. routed' \in BOOLEAN
      BY <1>8 DEF DoSwitch
    <2>3. request' \in [step : Steps, on : BOOLEAN, active : BOOLEAN]
      BY <1>8, <1>n DEF DoSwitch
    <2> QED
      BY <1>8, <2>1, <2>2, <2>3 DEF DoSwitch
  <1>9. CASE ReplaceInbounds
    BY <1>9, <1>n DEF ReplaceInbounds, Inbounds
  <1>10. CASE SubmitSync
    <2>1. queue' \in Seq(Job)
      BY <1>10, JobsAreJobs, AppendProperties DEF SubmitSync
    <2> QED
      BY <1>10, <2>1, <1>n DEF SubmitSync
  <1>11. CASE DeleteNode
    BY <1>11, <1>0, <1>n DEF DeleteNode
  <1>12. ASSUME NEW t \in Tasks, SendDue(t) PROVE NodeTasksTypeOK'
    <2>1. queue' \in Seq(Job)
      BY <1>12, <1>0, <1>q DEF SendDue
    <2> QED
      BY <1>12, <2>1 DEF SendDue
  <1>13. ASSUME NEW t \in Tasks, RetryTask(t) PROVE NodeTasksTypeOK'
    <2>1. queue' \in Seq(Job)
      BY <1>13, <1>0, <1>q DEF RetryTask
    <2> QED
      BY <1>13, <2>1, EventTyped DEF RetryTask
  <1>14. ASSUME NEW t \in Tasks, Sweep(t) PROVE NodeTasksTypeOK'
    BY <1>14 DEF Sweep
  <1>15. ASSUME NEW u \in Users, Lapse(u) PROVE NodeTasksTypeOK'
    BY <1>15, EventTyped DEF Lapse
  <1>16. CASE Restart
    <2>1. work' \in [Workers -> WorkerState]
      BY <1>16, FreeIsState DEF Restart
    <2>2. queue' \in Seq(Job)
      BY <1>16 DEF Restart
    <2> QED
      BY <1>16, <2>1, <2>2, <1>n, EventTyped DEF Restart
  <1> QED
    BY <1>1, <1>2, <1>3, <1>4, <1>5, <1>6, <1>7, <1>8, <1>9, <1>10, <1>11, <1>12, <1>13, <1>14,
       <1>15, <1>16, KnownWishes, Zenon DEF RequestStep, NewRequest

\* The call of a panel keeps its type.
LEMMA PutTyped ==
  ASSUME NodeTasksTypeOK, NEW w \in Workers, PutClient(w)
  PROVE  panel' \in [Users -> {0} \cup Inbounds]
  <1>1. panel \in [Users -> {0} \cup Inbounds] /\ work[w].ids \in {0} \cup Inbounds
    BY DEF NodeTasksTypeOK, WorkerState
  <1> QED
    BY <1>1 DEF PutClient

\* A job tried again was in the channel before, or is a scan.
LEMMA Requeued ==
  ASSUME NEW w \in Workers, queue \in Seq(Job), HandlerFails(w)
  PROVE  /\ queue' \in Seq(Job)
         /\ \A i \in 1 .. Len(queue') :
              \/ \E j \in 1 .. Len(queue) : queue'[i] = queue[j]
              \/ queue'[i] = ScanJob /\ (At(w, "pending") \/ At(w, "compare"))
         /\ queue = <<>> => ~At(w, "free")
  <1>j. ScanJob \in Job
    BY JobsAreJobs
  <1>1. CASE /\ At(w, "free") /\ queue # <<>> /\ Head(queue).kind # "cleanup"
             /\ queue' \in {Tail(queue), Append(Tail(queue), Head(queue))}
    <2>1. /\ Head(queue) \in Job /\ Tail(queue) \in Seq(Job) /\ Head(queue) = queue[1]
          /\ Len(queue) \in Nat /\ Len(queue) >= 1 /\ Len(Tail(queue)) = Len(queue) - 1
          /\ \A i \in 1 .. Len(Tail(queue)) : Tail(queue)[i] = queue[i + 1]
      BY <1>1, HeadTailProperties, EmptySeq, LenProperties
    <2>2. /\ Append(Tail(queue), Head(queue)) \in Seq(Job)
          /\ Len(Append(Tail(queue), Head(queue))) = Len(Tail(queue)) + 1
          /\ \A i \in 1 .. Len(Tail(queue)) : Append(Tail(queue), Head(queue))[i] = Tail(queue)[i]
          /\ Append(Tail(queue), Head(queue))[Len(Tail(queue)) + 1] = Head(queue)
      BY <2>1, AppendProperties
    <2>3. \A i \in 1 .. Len(queue') : \E j \in 1 .. Len(queue) : queue'[i] = queue[j]
      BY <1>1, <2>1, <2>2
    <2> QED
      BY <1>1, <2>1, <2>2, <2>3
  <1>2. CASE /\ At(w, "pending") \/ (At(w, "compare") /\ work[w].left = {})
             /\ queue' \in {queue, Append(queue, ScanJob)}
    <2>1. /\ Append(queue, ScanJob) \in Seq(Job) /\ Len(queue) \in Nat
          /\ Len(Append(queue, ScanJob)) = Len(queue) + 1
          /\ \A i \in 1 .. Len(queue) : Append(queue, ScanJob)[i] = queue[i]
          /\ Append(queue, ScanJob)[Len(queue) + 1] = ScanJob
      BY <1>j, AppendProperties, LenProperties
    <2> QED
      BY <1>2, <2>1 DEF At
  <1> QED
    BY <1>1, <1>2, Zenon DEF HandlerFails

\* The steps of the workers keep the types.
LEMMA WorkerTyped ==
  ASSUME NodeTasksTypeOK, AsyncTypeOK', NEW w \in Workers, WorkerStep(w)
  PROVE  NodeTasksTypeOK'
  <1>0. /\ work[w] \in WorkerState /\ work[w].left \in SUBSET Keys /\ work[w].need \in SUBSET Keys
        /\ work[w].key \in Keys /\ work[w].kind \in Kinds
    BY DEF NodeTasksTypeOK, WorkerState
  <1>q. queue \in Seq(Job) /\ panel \in [Users -> {0} \cup Inbounds] /\ inbounds \in Inbounds
    BY DEF NodeTasksTypeOK
  <1>p. \A u \in Keys, i \in {0} \cup Inbounds :
          [panel EXCEPT ![u] = i] \in [Users -> {0} \cup Inbounds]
    BY <1>q
  <1>e. /\ UNCHANGED quiet => events' \in 0 .. MaxEvents /\ faulty' \in BOOLEAN
        /\ UNCHANGED pasts => /\ overlap' \in BOOLEAN /\ doubled' \in BOOLEAN
                              /\ behind' \in SUBSET Users
        /\ UNCHANGED overlap => overlap' \in BOOLEAN
        /\ UNCHANGED doubled => doubled' \in BOOLEAN
        /\ UNCHANGED behind => behind' \in SUBSET Users
        /\ UNCHANGED panel => panel' \in [Users -> {0} \cup Inbounds]
        /\ UNCHANGED queue => queue' \in Seq(Job)
    BY EventTyped DEF NodeTasksTypeOK, pasts
  <1>m. {"next", "user", "ticked", "clear", "add", "attach", "clean", "verdict", "scan", "pending",
         "compare"} \subseteq Phases
    BY DEF Phases
  <1>1. CASE Take(w)
    <2> DEFINE job == Head(queue)
               start == [Free EXCEPT !.kind = job.kind, !.left = job.keys, !.seen = node.there]
    <2>1. job \in Job /\ queue' \in Seq(Job)
      BY <1>1, <1>q, HeadTailProperties, EmptySeq DEF Take
    <2>2. start \in WorkerState
      BY <2>1, FreeIsState DEF Job, WorkerState, NodeTasksTypeOK
    <2>3. /\ [start EXCEPT !.phase = "next"] \in WorkerState
          /\ [start EXCEPT !.phase = "scan"] \in WorkerState
      <3> HIDE DEF start
      <3> QED
        BY <2>2, <1>m DEF WorkerState
    <2>4. PICK r \in WorkerState : Become(w, r)
      <3> HIDE DEF start
      <3>1. Become(w, IF job.kind # "scan" THEN [start EXCEPT !.phase = "next"]
                      ELSE IF task["sync"].status \in Terminal THEN Free
                      ELSE [start EXCEPT !.phase = "scan"])
        BY <1>1, Zenon DEF Take, start
      <3>2. (IF job.kind # "scan" THEN [start EXCEPT !.phase = "next"]
             ELSE IF task["sync"].status \in Terminal THEN Free
             ELSE [start EXCEPT !.phase = "scan"]) \in WorkerState
        BY <2>3, FreeIsState
      <3> QED
        BY <3>1, <3>2
    <2> QED
      BY <1>1, <2>1, <2>4, <1>e, OneWorkerTyped DEF Take
  <1>2. CASE ClaimNext(w)
    <2>1. First(work[w].left) \in Keys
      BY <1>2, WorkerNames DEF ClaimNext
    <2>2. /\ AfterClaim(w, First(work[w].left)) \in WorkerState
          /\ [work[w] EXCEPT !.left = work[w].left \ {First(work[w].left)}] \in WorkerState
      BY <2>1, <1>0, AfterClaimType, LeftType
    <2>3. PICK r \in WorkerState : Become(w, r)
      BY <1>2, <2>2, Zenon DEF ClaimNext
    <2>4. doubled' \in BOOLEAN
      BY <1>2 DEF ClaimNext, NodeTasksTypeOK
    <2> QED
      BY <1>2, <2>3, <2>4, <1>e, OneWorkerTyped DEF ClaimNext
  <1>3. CASE Verdict(w)
    <2>1. PICK r \in WorkerState : Become(w, r)
      BY <1>3, SettleFacts DEF Verdict, Onward
    <2> QED
      BY <1>3, <2>1, <1>e, OneWorkerTyped DEF Verdict
  <1>4. CASE EndBatch(w)
    <2>1. work' \in [Workers -> WorkerState]
      BY <1>4, FreeIsState, BecomeFacts DEF EndBatch
    <2>2. node' \in [there : BOOLEAN, enabled : BOOLEAN]
      BY <1>4 DEF EndBatch, FinalizeInitTask, NodeTasksTypeOK
    <2> QED
      BY <1>4, <2>1, <2>2 DEF EndBatch, NodeTasksTypeOK, admin, pasts, quiet
  <1>5. CASE ClearClient(w)
    <2>1. [work[w] EXCEPT !.phase = "ticked"] \in WorkerState
      BY <1>m, <1>0, LeftType
    <2> QED
      BY <1>5, <2>1, <1>0, <1>p, <1>e, OneWorkerTyped DEF ClearClient
  <1>6. ASSUME AddClient(w) \/ AttachClient(w) PROVE NodeTasksTypeOK'
    <2>1. PICK r \in WorkerState : Become(w, r)
      <3>0. CallGranted(w) \in BOOLEAN
        BY Zenon DEF CallGranted, At
      <3>1. \E ok \in BOOLEAN : Settle(w, ok)
        BY <1>6, <3>0, Zenon DEF AddClient, AttachClient
      <3> QED
        BY <3>1, SettleFacts
    <2>2. panel' \in [Users -> {0} \cup Inbounds]
      <3>1. CASE PutClient(w)
        BY <3>1, PutTyped
      <3>2. CASE UNCHANGED panel
        BY <3>2, <1>e
      <3> QED
        BY <1>6, <3>1, <3>2, Zenon DEF AddClient, AttachClient
    <2>3. UNCHANGED <<Kept, queue, pasts, quiet>>
      BY <1>6, Zenon DEF AddClient, AttachClient
    <2> QED
      BY <2>1, <2>2, <2>3, <1>e, OneWorkerTyped
  <1>7. CASE Clean(w)
    <2>1. PICK r \in WorkerState : Become(w, r)
      BY <1>7, SettleFacts DEF Clean
    <2>2. overlap' \in BOOLEAN /\ panel' \in [Users -> {0} \cup Inbounds]
      BY <1>7, FreeIsState DEF Clean, NodeTasksTypeOK
    <2> QED
      BY <1>7, <2>1, <2>2, <1>e, OneWorkerTyped DEF Clean
  <1>8. CASE Scan(w)
    <2>1. PICK r \in WorkerState : Become(w, r)
      <3>1. [work[w] EXCEPT !.phase = "pending", !.list = panel] \in WorkerState
        BY <1>q, <1>m, <1>0, LeftType
      <3> QED
        BY <1>8, <3>1, FreeIsState, Zenon DEF Scan
    <2> QED
      BY <1>8, <2>1, <1>e, OneWorkerTyped DEF Scan
  <1>9. CASE Compare(w)
    <2>1. First(work[w].left) \in Keys
      BY <1>9, WorkerNames DEF Compare
    <2>2. PICK r \in WorkerState : Become(w, r)
      <3> DEFINE u == First(work[w].left)
                 rest == [work[w] EXCEPT !.left = work[w].left \ {u}]
      <3>1. rest \in WorkerState /\ rest.need = work[w].need
        BY <1>0, LeftType DEF WorkerState
      <3>2. [rest EXCEPT !.need = rest.need \cup {u}] \in WorkerState
        <4> HIDE DEF rest
        <4> QED
          BY <2>1, <3>1, <1>0 DEF WorkerState
      <3>3. Become(w, rest) \/ Become(w, [rest EXCEPT !.need = rest.need \cup {u}])
        BY <1>9, Zenon DEF Compare
      <3> QED
        BY <3>1, <3>2, <3>3
    <2> QED
      BY <1>9, <2>2, <1>e, OneWorkerTyped DEF Compare
  <1>10. CASE SendBatches(w)
    <2>1. "sync" \in Kinds
      BY DEF Kinds
    <2>2. queue' \in Seq(Job)
      BY <1>10, <2>1, <1>0, <1>q, JobsAreJobs, ConcatProperties DEF SendBatches
    <2> QED
      BY <1>10, <2>2, <1>e, FreeIsState, OneWorkerTyped DEF SendBatches
  <1>11. CASE ReadUser(w)
    <2>1. PICK r \in WorkerState : Become(w, r)
      <3> DEFINE usable == work[w].key \notin lapsed
      <3>1. \A b \in BOOLEAN : /\ [work[w] EXCEPT !.phase = "clear", !.usable = b] \in WorkerState
                               /\ [work[w] EXCEPT !.phase = "ticked", !.usable = b] \in WorkerState
        BY <1>m, <1>0, LeftType
      <3>2. usable \in BOOLEAN /\ TRUE \in BOOLEAN
        OBVIOUS
      <3>3. \/ Become(w, [work[w] EXCEPT !.phase = "clear", !.usable = usable])
            \/ Become(w, [work[w] EXCEPT !.phase = "ticked", !.usable = TRUE])
            \/ Settle(w, TRUE)
        BY <1>11, Zenon DEF ReadUser
      <3> QED
        BY <3>1, <3>2, <3>3, SettleFacts
    <2> QED
      BY <1>11, <2>1, <1>e, OneWorkerTyped DEF ReadUser
  <1>12. CASE ReadInbounds(w)
    <2>1. PICK r \in WorkerState : Become(w, r)
      <3> DEFINE p == IF work[w].kind = "init" THEN "add" ELSE "attach"
      <3>1. p \in Phases
        BY <1>m
      <3>2. [work[w] EXCEPT !.ids = inbounds, !.phase = p] \in WorkerState
        BY <3>1, <1>0, <1>q, LeftType
      <3>3. Become(w, [work[w] EXCEPT !.ids = inbounds, !.phase = p]) \/ Settle(w, TRUE)
        BY <1>12, Zenon DEF ReadInbounds
      <3> HIDE DEF p
      <3> QED
        BY <3>2, <3>3, SettleFacts
    <2> QED
      BY <1>12, <2>1, <1>e, OneWorkerTyped DEF ReadInbounds
  <1>13. CASE ReadPending(w)
    <2>1. KeysIn(item["sync"], {"pending"}) \in SUBSET Keys
      BY DEF KeysIn
    <2>2. [work[w] EXCEPT !.phase = "compare", !.left = KeysIn(item["sync"], {"pending"})]
            \in WorkerState
      BY <2>1, <1>m, LeftType
    <2> QED
      BY <1>13, <2>2, <1>e, OneWorkerTyped DEF ReadPending
  <1> QED
    BY <1>1, <1>2, <1>3, <1>4, <1>5, <1>6, <1>7, <1>8, <1>9, <1>10, <1>11, <1>12, <1>13, Zenon
       DEF WorkerStep

\* So do their failures.
LEMMA FailureTyped ==
  ASSUME NodeTasksTypeOK, AsyncTypeOK', NEW w \in Workers, WorkerFails(w)
  PROVE  NodeTasksTypeOK'
  <1>0. /\ work[w] \in WorkerState /\ work[w].left \in SUBSET Keys /\ work[w].key \in Keys
    BY DEF NodeTasksTypeOK, WorkerState
  <1>q. queue \in Seq(Job) /\ panel \in [Users -> {0} \cup Inbounds] /\ inbounds \in Inbounds
    BY DEF NodeTasksTypeOK
  <1>e. /\ Fault => events' \in 0 .. MaxEvents /\ faulty' \in BOOLEAN
        /\ UNCHANGED pasts => /\ overlap' \in BOOLEAN /\ doubled' \in BOOLEAN
                              /\ behind' \in SUBSET Users
        /\ UNCHANGED panel => panel' \in [Users -> {0} \cup Inbounds]
        /\ UNCHANGED queue => queue' \in Seq(Job)
    BY EventTyped DEF NodeTasksTypeOK, pasts
  <1>1. CASE CallFails(w)
    <2>1. PICK r \in WorkerState : Become(w, r)
      BY <1>1, SettleFacts DEF CallFails
    <2>2. panel' \in [Users -> {0} \cup Inbounds]
      <3>1. CASE PutClient(w)
        BY <3>1, PutTyped
      <3>2. CASE ~PutClient(w)
        BY <1>1, <1>q, <3>2 DEF CallFails
      <3> QED
        BY <3>1, <3>2
    <2> QED
      BY <1>1, <2>1, <2>2, <1>e, OneWorkerTyped DEF CallFails
  <1>2. CASE Refused(w)
    <2>1. PICK r \in WorkerState : Become(w, r)
      <3>1. [work[w] EXCEPT !.left = work[w].left \ {First(work[w].left)}] \in WorkerState
        BY <1>0, LeftType
      <3> QED
        BY <1>2, <3>1, SettleFacts, Zenon DEF Refused, Onward
    <2> QED
      BY <1>2, <2>1, <1>e, OneWorkerTyped DEF Refused
  <1>3. CASE ScanFails(w)
    BY <1>3, <1>e, FreeIsState, OneWorkerTyped DEF ScanFails
  <1>4. CASE Expire(w)
    BY <1>4, <1>e, FreeIsState, OneWorkerTyped DEF Expire
  <1>5. CASE HandlerFails(w)
    <2>1. queue' \in Seq(Job)
      BY <1>5, <1>q, Requeued
    <2> QED
      BY <1>5, <2>1, <1>e, FreeIsState, OneWorkerTyped DEF HandlerFails
  <1> QED
    BY <1>1, <1>2, <1>3, <1>4, <1>5 DEF WorkerFails

-----------------------------------------------------------------------------
\* The types, and the invariant of the tables, hold initially and after every step.
TasksInv == NodeTasksTypeOK /\ AsyncInv

\* They hold initially.
LEMMA InitTasksInv == NodeTasksInit => TasksInv
  <1> SUFFICES ASSUME NodeTasksInit PROVE TasksInv
    OBVIOUS
  <1>1. AsyncInv
    BY InitAsyncInv DEF NodeTasksInit
  <1>2. work \in [Workers -> WorkerState] /\ queue \in Seq(Job)
    BY FreeIsState DEF NodeTasksInit
  <1>3. request \in [step : Steps, on : BOOLEAN, active : BOOLEAN]
    BY DEF NodeTasksInit, NoRequest, Steps
  <1>4. panel \in [Users -> {0} \cup Inbounds] /\ inbounds \in Inbounds
    BY DEF NodeTasksInit, Inbounds
  <1>5. events \in 0 .. MaxEvents
    BY NodeTasksAssumption DEF NodeTasksInit
  <1> QED
    BY <1>1, <1>2, <1>3, <1>4, <1>5 DEF NodeTasksInit, TasksInv, NodeTasksTypeOK, AsyncInv

\* They hold after every step, and a step is one of the tables.
LEMMA StepTasksInv == TasksInv /\ [NodeTasksNext]_vars => TasksInv' /\ TableStep
  <1> SUFFICES ASSUME TasksInv, [NodeTasksNext]_vars PROVE TasksInv' /\ TableStep
    OBVIOUS
  <1>1. CASE NodeTasksNext
    <2>1. TableStep
      BY <1>1, StepOnTables DEF TasksInv
    <2>2. AsyncInv'
      BY <2>1, StepAsyncInv DEF TasksInv, TableStep
    <2>3. AsyncTypeOK'
      BY <2>2 DEF AsyncInv
    <2>4. \/ RequestStep \/ NewRequest
          \/ \E t \in Tasks : RetryTask(t) \/ Sweep(t)
          \/ \E u \in Users : Lapse(u)
          \/ Restart
          \/ \E w \in Workers : WorkerStep(w) \/ WorkerFails(w)
      BY <1>1, Zenon DEF NodeTasksNext
    <2>5. NodeTasksTypeOK'
      BY <2>3, <2>4, RequestTyped, WorkerTyped, FailureTyped DEF TasksInv
    <2> QED
      BY <2>1, <2>2, <2>5 DEF TasksInv
  <1>2. CASE UNCHANGED vars
    <2>1. TableStep
      BY <1>2 DEF vars, TableStep
    <2>2. AsyncInv'
      BY <2>1, StepAsyncInv DEF TasksInv, TableStep
    <2>3. NodeTasksTypeOK'
      BY <1>2, <2>2 DEF vars, rows, admin, pasts, TasksInv, NodeTasksTypeOK, AsyncInv
    <2> QED
      BY <2>1, <2>2, <2>3 DEF TasksInv
  <1> QED
    BY <1>1, <1>2

\* The rows, the panel, the queue, the workers and the request keep their types for any
\* users, batches, workers and bounds.
THEOREM NodeTasksTyped == NodeTasksSpec => []NodeTasksTypeOK
  <1>1. TasksInv => NodeTasksTypeOK
    BY DEF TasksInv
  <1> QED
    BY <1>1, InitTasksInv, StepTasksInv, PTL DEF NodeTasksSpec

\* The handlers, the administrator, the sweeper and the crashes of NodeTasks are an
\* environment of the task tables: every behaviour of it is one of AsyncSpec, so that
\* settled verdicts, budgets of attempts, kept successes and the task page carry over to
\* node_init, sync_inbounds and cleanup_clients (async.go, nodejobs.go).
THEOREM NodeTasksUseTables == NodeTasksSpec => AsyncSpec
  <1>1. NodeTasksInit => AsyncInit
    BY DEF NodeTasksInit
  <1>2. TasksInv /\ [NodeTasksNext]_vars => [AsyncNext]_asyncVars
    BY StepTasksInv DEF TableStep
  <1> QED
    BY <1>1, <1>2, InitTasksInv, StepTasksInv, PTL DEF NodeTasksSpec, AsyncSpec

\* In particular a success is for good, a task is reopened as a whole, and the task page of
\* the three tasks is implemented.
THEOREM NodeTasksKeepPromises == NodeTasksSpec => SuccessSticks /\ ReopensWhole /\ LifecycleSpec
  BY NodeTasksUseTables, SuccessIsForGood, TasksReopenWhole, AsyncImplementsLifecycle, PTL

-----------------------------------------------------------------------------
\* The panel was emptied, whether the item of the cleanup says so already or not.
Succeeded == item["cleanup"][NodeKey] = "succeeded"
Emptied ==
  \/ Succeeded
  \/ \E w \in Workers : At(w, "verdict") /\ work[w].kind = "cleanup" /\ work[w].ok
\* A batch of init that saw the node.
InitAround == \E w \in Workers : work[w].kind = "init" /\ work[w].seen

\* The calls of a worker are those of its kind of job, and a cleanup under way has a task.
Fits(r, cleanup) ==
  /\ r.phase \in {"clear", "add"} => r.kind = "init" /\ r.seen
  /\ r.phase \in {"user", "ticked"} => r.kind # "cleanup" /\ r.seen
  /\ r.phase = "attach" => r.kind # "cleanup"
  /\ (r.kind = "cleanup" /\ r.phase \in {"clean", "verdict"}) => cleanup # "absent"

\* The inductive invariant: after the panel was emptied in time nobody is left who would
\* create a client, and the node does not come back.
CleanInv ==
  /\ \A w \in Workers : Fits(work[w], task["cleanup"].status)
  /\ (Emptied /\ ~overlap) => panel = NoList /\ ~node.there /\ ~InitAround

\* A task that was created stays.
LEMMA TaskStays ==
  ASSUME AsyncInv, TableStep, NEW t \in Tasks, task[t].status # "absent"
  PROVE  task'[t].status # "absent"
  <1> USE DEF AsyncInv, AsyncTypeOK, TaskRow
  <1>a. \A u \in Tasks : \A its : Aggregated(task[u], its).status \in {task[u].status} \cup Terminal
    BY AggregatedSettles DEF Settles, Terminal
  <1>1. ASSUME NEW u \in Tasks, NEW ks, Create(u, ks) PROVE task'[t].status # "absent"
    BY <1>1 DEF Create
  <1>2. ASSUME NEW u \in Tasks, CompleteEmpty(u) PROVE task'[t].status # "absent"
    BY <1>2 DEF CompleteEmpty
  <1>3. ASSUME NEW u \in Tasks, NEW k \in Keys, ClaimItem(u, k) PROVE task'[t].status # "absent"
    BY <1>3 DEF ClaimItem
  <1>4. ASSUME NEW u \in Tasks, task' = [task EXCEPT ![u] = Aggregated(task[u], item'[u])]
        PROVE  task'[t].status # "absent"
    <2>1. task'[u].status \in {task[u].status} \cup Terminal
      BY <1>4, <1>a
    <2> QED
      BY <1>4, <2>1 DEF Terminal
  <1>5. ASSUME NEW u \in Tasks, Retry(u) PROVE task'[t].status # "absent"
    BY <1>5 DEF Retry, Reopen
  <1>6. AsyncTick \/ UNCHANGED asyncVars => task'[t].status # "absent"
    BY DEF AsyncTick, db, asyncVars
  <1> QED
    BY <1>1, <1>2, <1>3, <1>4, <1>5, <1>6
    DEF TableStep, AsyncNext, FinishItem, FailPendingItems, TimeoutStale

\* Only the verdict of a cleanup makes its item a success.
LEMMA NoNewSuccess ==
  ASSUME AsyncTypeOK, NEW t \in Tasks, Succeeded'
  PROVE  /\ \A ks : Create(t, ks) => Succeeded
         /\ CompleteEmpty(t) => Succeeded
         /\ \A k : ClaimItem(t, k) => Succeeded
         /\ \A k : FinishItem(t, k, "failed") => Succeeded
         /\ \A k : t # "cleanup" => (FinishItem(t, k, "succeeded") => Succeeded)
         /\ FailPendingItems(t) => Succeeded
         /\ Retry(t) => Succeeded
         /\ UNCHANGED asyncVars => Succeeded
  <1>0. "cleanup" \in Tasks /\ NodeKey \in Keys /\ item \in [Tasks -> [Keys -> Statuses]]
    BY Names DEF AsyncTypeOK
  <1>1. ASSUME NEW ks, NEW s \in Statuses, s # "succeeded" \/ t # "cleanup", SetItems(t, ks, s)
        PROVE  Succeeded
    BY <1>0, <1>1, SetItemsFacts DEF Succeeded
  <1>2. UNCHANGED item => Succeeded
    BY DEF Succeeded
  <1>3. {"pending", "running", "failed", "succeeded"} \subseteq Statuses
    BY DEF Statuses, Active, Terminal
  <1> QED
    BY <1>1, <1>2, <1>3
    DEF Create, CompleteEmpty, ClaimItem, FinishItem, FailPendingItems, Retry, Reopen, asyncVars

\* An emptied panel has a task of cleanup, and stays recorded as one.
LEMMA EmptiedHasTask ==
  ASSUME TasksInv, CleanInv, Emptied
  PROVE  task["cleanup"].status # "absent"
  <1>1. CASE Succeeded
    BY <1>1, Names DEF Succeeded, TasksInv, AsyncInv, AbsentIsEmpty
  <1>2. ASSUME NEW w \in Workers, At(w, "verdict"), work[w].kind = "cleanup", work[w].ok
        PROVE  task["cleanup"].status # "absent"
    BY <1>2 DEF CleanInv, Fits, At
  <1> QED
    BY <1>1, <1>2 DEF Emptied

\* A worker w becomes r: what r must be like for the invariant to go on.
LEMMA OneWorkerClean ==
  ASSUME TasksInv, CleanInv, TableStep, NEW w \in Workers, NEW r \in WorkerState, Become(w, r),
         Fits(r, task'["cleanup"].status),
         (r.kind = "init" /\ r.seen) => (work[w].kind = "init" /\ work[w].seen) \/ node.there,
         (r.phase = "verdict" /\ r.kind = "cleanup" /\ r.ok) => Emptied,
         Succeeded' => Emptied,
         overlap' = overlap, node'.there = node.there,
         panel = NoList => InitAround \/ panel' = NoList
  PROVE  CleanInv'
  <1>1. /\ work'[w] = r
        /\ \A v \in Workers \ {w} : work'[v] = work[v]
    BY BecomeFacts DEF TasksInv
  <1>2. ASSUME NEW v \in Workers PROVE Fits(work[v], task["cleanup"].status)'
    <2>1. CASE v = w
      BY <1>1, <2>1 DEF Fits
    <2>2. CASE v # w
      <3>1. Fits(work[v], task["cleanup"].status)
        BY DEF CleanInv
      <3>2. task["cleanup"].status # "absent" => task'["cleanup"].status # "absent"
        BY TaskStays, Names DEF TasksInv
      <3> QED
        BY <1>1, <2>2, <3>1, <3>2 DEF Fits
    <2> QED
      BY <2>1, <2>2
  <1>3. Emptied' => Emptied
    <2>1. ASSUME NEW v \in Workers, work'[v].phase = "verdict", work'[v].kind = "cleanup",
                 work'[v].ok
          PROVE  Emptied
      <3>1. CASE v = w
        BY <1>1, <2>1, <3>1
      <3>2. CASE v # w
        BY <1>1, <2>1, <3>2 DEF Emptied, At
      <3> QED
        BY <3>1, <3>2
    <2> QED
      BY <2>1 DEF Emptied, At
  <1>4. ASSUME Emptied', ~overlap'
        PROVE  panel' = NoList /\ ~node'.there /\ ~InitAround'
    <2>1. panel = NoList /\ ~node.there /\ ~InitAround
      BY <1>3, <1>4 DEF CleanInv
    <2>2. ~InitAround'
      BY <1>1, <2>1 DEF InitAround
    <2> QED
      BY <2>1, <2>2
  <1> QED
    BY <1>2, <1>4 DEF CleanInv

\* A step of the administrator or the sweeper: the workers go on or are all gone, and
\* nothing reaches the panel.
LEMMA OutsideClean ==
  ASSUME TasksInv, CleanInv, TableStep,
         work' = work \/ work' = [w \in Workers |-> Free],
         Succeeded' => Succeeded,
         overlap' = overlap, panel' = panel,
         node'.there => node.there \/ task["cleanup"].status = "absent"
  PROVE  CleanInv'
  <1>1. ASSUME NEW v \in Workers PROVE Fits(work[v], task["cleanup"].status)'
    <2>1. CASE work' = work
      <3>1. Fits(work[v], task["cleanup"].status)
        BY DEF CleanInv
      <3>2. task["cleanup"].status # "absent" => task'["cleanup"].status # "absent"
        BY TaskStays, Names DEF TasksInv
      <3> QED
        BY <2>1, <3>1, <3>2 DEF Fits
    <2>2. CASE work' = [w \in Workers |-> Free]
      BY <2>2 DEF Fits, Free
    <2> QED
      BY <2>1, <2>2
  <1>2. Emptied' => Emptied
    BY DEF Emptied, At, Free
  <1>3. InitAround' => InitAround
    BY DEF InitAround, Free
  <1>4. ASSUME Emptied', ~overlap'
        PROVE  panel' = NoList /\ ~node'.there /\ ~InitAround'
    <2>1. task["cleanup"].status # "absent"
      BY <1>2, <1>4, EmptiedHasTask
    <2> QED
      BY <1>2, <1>3, <1>4, <2>1 DEF CleanInv
  <1> QED
    BY <1>1, <1>4 DEF CleanInv

\* The steps outside of the workers keep the invariant.
LEMMA OutsideStepsClean ==
  ASSUME TasksInv, CleanInv, TableStep,
         \/ RequestStep
         \/ NewRequest
         \/ \E t \in Tasks : RetryTask(t) \/ Sweep(t)
         \/ \E u \in Users : Lapse(u)
         \/ Restart
  PROVE  CleanInv'
  <1>0. AsyncTypeOK /\ "init" \in Tasks /\ "sync" \in Tasks /\ "cleanup" \in Tasks
    BY Names DEF TasksInv, NodeTasksTypeOK
  <1>n. node \in [there : BOOLEAN, enabled : BOOLEAN]
    BY DEF TasksInv, NodeTasksTypeOK
  <1> USE DEF rows, pasts
  <1>1. ASSUME NEW on \in BOOLEAN, CreateNode(on) PROVE CleanInv'
    <2>1. Succeeded' => Succeeded
      BY <1>0, <1>1, NoNewSuccess DEF CreateNode
    <2> QED
      BY <1>1, <2>1, OutsideClean DEF CreateNode
  <1>2. ASSUME NEW on \in BOOLEAN, AskSwitch(on) PROVE CleanInv'
    <2>1. Succeeded' => Succeeded
      BY <1>0, <1>2, NoNewSuccess DEF AskSwitch
    <2> QED
      BY <1>2, <2>1, OutsideClean DEF AskSwitch
  <1>3. CASE AskChange
    <2>1. Succeeded' => Succeeded
      BY <1>0, <1>3, NoNewSuccess DEF AskChange
    <2> QED
      BY <1>3, <2>1, OutsideClean DEF AskChange
  <1>4. CASE AskDelete
    <2>1. Succeeded' => Succeeded
      BY <1>0, <1>4, NoNewSuccess DEF AskDelete
    <2> QED
      BY <1>4, <2>1, OutsideClean DEF AskDelete
  <1>5. CASE SubmitInit
    <2>1. Succeeded' => Succeeded
      BY <1>0, <1>5, NoNewSuccess DEF SubmitInit
    <2> QED
      BY <1>5, <2>1, OutsideClean DEF SubmitInit
  <1>6. CASE FinishEmpty
    <2>1. Succeeded' => Succeeded
      BY <1>0, <1>6, NoNewSuccess DEF FinishEmpty
    <2> QED
      BY <1>6, <2>1, OutsideClean DEF FinishEmpty
  <1>7. CASE FinalizeEmpty
    <2>1. Succeeded' => Succeeded
      BY <1>0, <1>7, NoNewSuccess DEF FinalizeEmpty
    <2>2. node'.there = node.there
      BY <1>7, <1>n DEF FinalizeEmpty, FinalizeInitTask
    <2> QED
      BY <1>7, <2>1, <2>2, OutsideClean DEF FinalizeEmpty
  <1>8. CASE DoSwitch
    <2>1. Succeeded' => Succeeded
      BY <1>0, <1>8, NoNewSuccess DEF DoSwitch
    <2>2. node'.there = node.there
      BY <1>8, <1>n DEF DoSwitch
    <2> QED
      BY <1>8, <2>1, <2>2, OutsideClean DEF DoSwitch
  <1>9. CASE ReplaceInbounds
    <2>1. Succeeded' => Succeeded
      BY <1>0, <1>9, NoNewSuccess DEF ReplaceInbounds
    <2> QED
      BY <1>9, <2>1, OutsideClean DEF ReplaceInbounds
  <1>10. CASE SubmitSync
    <2>1. Succeeded' => Succeeded
      BY <1>0, <1>10, NoNewSuccess DEF SubmitSync
    <2> QED
      BY <1>10, <2>1, OutsideClean DEF SubmitSync
  <1>11. CASE DeleteNode
    <2>1. Succeeded' => Succeeded
      BY <1>0, <1>11, NoNewSuccess DEF DeleteNode
    <2> QED
      BY <1>11, <2>1, OutsideClean DEF DeleteNode
  <1>12. ASSUME NEW t \in Tasks, SendDue(t) PROVE CleanInv'
    <2>1. Succeeded' => Succeeded
      BY <1>0, <1>12, NoNewSuccess DEF SendDue
    <2> QED
      BY <1>12, <2>1, OutsideClean DEF SendDue
  <1>13. ASSUME NEW t \in Tasks, RetryTask(t) PROVE CleanInv'
    <2>1. Succeeded' => Succeeded
      BY <1>0, <1>13, NoNewSuccess DEF RetryTask
    <2> QED
      BY <1>13, <2>1, OutsideClean DEF RetryTask
  <1>14. ASSUME NEW t \in Tasks, Sweep(t) PROVE CleanInv'
    <2>1. Succeeded' => Succeeded
      BY <1>0, <1>14, NoNewSuccess DEF Sweep
    <2> QED
      BY <1>14, <2>1, OutsideClean DEF Sweep
  <1>15. ASSUME NEW u \in Users, Lapse(u) PROVE CleanInv'
    <2>1. Succeeded' => Succeeded
      BY <1>0, <1>15, NoNewSuccess DEF Lapse
    <2> QED
      BY <1>15, <2>1, OutsideClean DEF Lapse
  <1>16. CASE Restart
    <2>1. Succeeded' => Succeeded
      BY <1>0, <1>16, NoNewSuccess DEF Restart
    <2> QED
      BY <1>16, <2>1, OutsideClean DEF Restart
  <1> QED
    BY <1>1, <1>2, <1>3, <1>4, <1>5, <1>6, <1>7, <1>8, <1>9, <1>10, <1>11, <1>12, <1>13, <1>14,
       <1>15, <1>16, KnownWishes, Zenon DEF RequestStep, NewRequest

\* What the calls of one item leave of an empty panel.
LEMMA StillEmpty ==
  ASSUME TasksInv, CleanInv, NEW w \in Workers, panel = NoList,
         ClearClient(w) \/ AddClient(w) \/ AttachClient(w) \/ CallFails(w)
  PROVE  InitAround \/ panel' = NoList
  <1>1. At(w, "clear") \/ At(w, "add") => InitAround
    BY DEF CleanInv, Fits, InitAround, At
  <1>2. ASSUME NEW u \in Keys, panel[u] # 0, NEW i
        PROVE  [panel EXCEPT ![u] = i] = NoList
    BY <1>2 DEF NoList
  <1>3. work[w].key \in Keys
    BY WorkerNames DEF TasksInv
  <1>4. CallGranted(w) /\ PutClient(w) => InitAround \/ panel' = NoList
    BY <1>1, <1>2, <1>3 DEF CallGranted, PutClient
  <1>5. CallFails(w) => InitAround \/ panel' = NoList
    <2>1. ASSUME NEW us \in SUBSET Users
          PROVE  [u \in Users |-> IF u \in us THEN 0 ELSE panel[u]] = NoList
      BY DEF NoList
    <2> QED
      BY <1>1, <1>4, <2>1 DEF CallFails
  <1>6. AddClient(w) \/ AttachClient(w) => InitAround \/ panel' = NoList
    BY <1>4 DEF AddClient, AttachClient
  <1> QED
    BY <1>1, <1>5, <1>6 DEF ClearClient

\* The steps of the workers keep the invariant.
LEMMA WorkerStepsClean ==
  ASSUME TasksInv, CleanInv, TableStep, NEW w \in Workers, WorkerStep(w) \/ WorkerFails(w)
  PROVE  CleanInv'
  <1>0. /\ NodeTasksTypeOK /\ AsyncTypeOK /\ "sync" \in Tasks /\ "cleanup" \in Tasks
        /\ work[w] \in WorkerState /\ Current(w) \in Tasks
    BY Names, WorkerNames DEF TasksInv, NodeTasksTypeOK
  <1>1. /\ Fits(work[w], task["cleanup"].status)
        /\ task["cleanup"].status # "absent" => task'["cleanup"].status # "absent"
    BY TaskStays, Names DEF TasksInv, CleanInv
  <1>s. Succeeded => Emptied
    BY DEF Emptied
  <1>n. UNCHANGED asyncVars => (Succeeded' => Emptied)
    BY <1>0, <1>s, NoNewSuccess
  \* A worker that is free or only changes what it has left fits.
  <1>f. /\ Free \in WorkerState /\ Fits(Free, task'["cleanup"].status)
        /\ ~Free.seen /\ Free.phase = "free"
    BY FreeIsState DEF Fits, Free
  <1> USE DEF Kept, rows, pasts
  <1>2. CASE Take(w)
    <2> DEFINE job == Head(queue)
               start == [Free EXCEPT !.kind = job.kind, !.left = job.keys, !.seen = node.there]
    <2>1. queue \in Seq(Job) /\ job \in Job
      BY <1>0, <1>2, HeadTailProperties, EmptySeq DEF Take, NodeTasksTypeOK
    <2>2. start \in WorkerState /\ start.seen = node.there
      BY <2>1, <1>0, FreeIsState DEF Job, WorkerState, NodeTasksTypeOK, Free
    <2>3. PICK r \in {[start EXCEPT !.phase = "next"], [start EXCEPT !.phase = "scan"], Free} :
             Become(w, r)
      <3> HIDE DEF start
      <3>1. Become(w, IF job.kind # "scan" THEN [start EXCEPT !.phase = "next"]
                      ELSE IF task["sync"].status \in Terminal THEN Free
                      ELSE [start EXCEPT !.phase = "scan"])
        BY <1>2, Zenon DEF Take, start
      <3> QED
        BY <3>1
    <2>4. r \in WorkerState /\ (r.seen => node.there) /\ r.phase \in {"next", "scan", "free"}
      <3> HIDE DEF start
      <3> QED
        BY <2>2, <1>f DEF WorkerState, Phases
    <2> QED
      BY <1>2, <1>1, <1>n, <2>3, <2>4, OneWorkerClean DEF Take, Fits
  <1>3. CASE ClaimNext(w)
    <2> DEFINE k == First(work[w].left)
    <2>1. k \in Keys
      BY <1>0, <1>3, WorkerNames DEF ClaimNext
    <2>2. CASE ClaimItem(Current(w), k) /\ Become(w, AfterClaim(w, k))
      <3>1. AfterClaim(w, k) \in WorkerState
        BY <2>1, <1>0, AfterClaimType
      <3>2. Succeeded' => Emptied
        BY <2>2, <1>0, <1>s, NoNewSuccess
      <3>3. work[w].kind = "cleanup" => task["cleanup"].status # "absent"
        BY <2>1, <2>2, <1>0 DEF ClaimItem, TasksInv, AsyncInv, AbsentIsEmpty, Current, TaskOf
      <3>4. /\ AfterClaim(w, k).kind = work[w].kind /\ AfterClaim(w, k).seen = work[w].seen
            /\ AfterClaim(w, k).phase \in {"clear", "add"} =>
                 work[w].kind = "init" /\ work[w].seen
            /\ AfterClaim(w, k).phase # "attach"
            /\ AfterClaim(w, k).phase = "user" => work[w].kind # "cleanup" /\ work[w].seen
            /\ AfterClaim(w, k).phase # "ticked"
            /\ AfterClaim(w, k).phase = "verdict" => work[w].kind # "cleanup"
        BY <2>1, <1>0 DEF AfterClaim, WorkerState
      <3> HIDE DEF k
      <3> QED
        BY <1>1, <1>3, <2>2, <3>1, <3>2, <3>3, <3>4, OneWorkerClean DEF ClaimNext, Fits
    <2>3. CASE Become(w, [work[w] EXCEPT !.left = work[w].left \ {k}]) /\ UNCHANGED asyncVars
      <3> DEFINE r == [work[w] EXCEPT !.left = work[w].left \ {k}]
      <3>1. r \in WorkerState /\ r.phase = work[w].phase /\ r.kind = work[w].kind
            /\ r.seen = work[w].seen /\ r.phase = "next"
        BY <1>0, <1>3 DEF WorkerState, ClaimNext, At
      <3> HIDE DEF r
      <3> QED
        BY <1>1, <1>3, <1>n, <2>3, <3>1, OneWorkerClean DEF ClaimNext, Fits, r
    <2> QED
      BY <1>3, <2>2, <2>3, Zenon DEF ClaimNext
  <1>4. CASE Verdict(w)
    <2> DEFINE r == [work[w] EXCEPT !.phase = "next", !.left = work[w].left \ {work[w].key},
                                    !.key = NodeKey, !.ok = FALSE]
    <2>1. Become(w, r) /\ r \in WorkerState
      BY <1>0, <1>4, SettleFacts DEF Verdict, Onward
    <2>2. r.phase = "next" /\ r.kind = work[w].kind /\ r.seen = work[w].seen
      BY <1>0 DEF WorkerState
    <2>3. Succeeded' => Emptied
      <3>1. CASE UNCHANGED asyncVars
        BY <3>1, <1>n
      <3>2. CASE FinishItem(Current(w), work[w].key, "failed")
        BY <3>2, <1>0, <1>s, NoNewSuccess
      <3>3. CASE FinishItem(Current(w), work[w].key, "succeeded") /\ work[w].ok
        <4>1. CASE Current(w) # "cleanup"
          BY <3>3, <4>1, <1>0, <1>s, NoNewSuccess
        <4>2. CASE Current(w) = "cleanup"
          BY <3>3, <4>2, <1>4 DEF Current, TaskOf, Emptied, Verdict
        <4> QED
          BY <4>1, <4>2
      <3> QED
        BY <1>4, <3>1, <3>2, <3>3 DEF Verdict
    <2> HIDE DEF r
    <2> QED
      BY <1>1, <1>4, <2>1, <2>2, <2>3, OneWorkerClean DEF Verdict, Fits
  <1>5. CASE EndBatch(w)
    <2>1. node'.there = node.there
      BY <1>0, <1>5 DEF EndBatch, FinalizeInitTask, NodeTasksTypeOK
    <2> QED
      BY <1>5, <1>f, <1>n, <2>1, OneWorkerClean DEF EndBatch
  <1>6. CASE ClearClient(w)
    <2> DEFINE r == [work[w] EXCEPT !.phase = "ticked"]
    <2>1. /\ r \in WorkerState /\ r.phase = "ticked" /\ r.kind = work[w].kind
          /\ r.seen = work[w].seen
      BY <1>0 DEF WorkerState, Phases
    <2>2. work[w].kind = "init" /\ work[w].seen
      BY <1>1, <1>6 DEF ClearClient, Fits, At
    <2> HIDE DEF r
    <2> QED
      BY <1>6, <1>n, <2>1, <2>2, StillEmpty, OneWorkerClean DEF ClearClient, Fits, r
  <1>7. ASSUME NEW ok \in BOOLEAN, Settle(w, ok), UNCHANGED <<Kept, pasts>>, Succeeded' => Emptied,
               panel = NoList => InitAround \/ panel' = NoList,
               ~ok \/ work[w].kind # "cleanup",
               work[w].phase \in {"user", "ticked", "clear", "add", "attach", "clean"}
        PROVE  CleanInv'
    <2> DEFINE r == [work[w] EXCEPT !.phase = "verdict", !.ok = ok, !.usable = FALSE, !.ids = 0]
    <2>1. /\ r \in WorkerState /\ r.phase = "verdict" /\ r.kind = work[w].kind
          /\ r.seen = work[w].seen /\ r.ok = ok
      BY <1>0, <1>7 DEF WorkerState, Phases
    <2>3. Become(w, r)
      BY <1>7 DEF Settle
    <2>2. r.kind = "cleanup" => task'["cleanup"].status # "absent"
      BY <1>1, <1>7, <2>1 DEF Fits
    <2> HIDE DEF r
    <2> QED
      BY <1>7, <2>1, <2>2, <2>3, OneWorkerClean DEF Fits
  <1>8. CASE AddClient(w)
    <2>1. work[w].kind # "cleanup" /\ CallGranted(w) \in BOOLEAN
      BY <1>1, <1>8, Zenon DEF AddClient, Fits, At, CallGranted
    <2>2. \E ok \in BOOLEAN : Settle(w, ok)
      BY <1>8, <2>1, Zenon DEF AddClient
    <2>3. panel = NoList => InitAround \/ panel' = NoList
      BY <1>8, StillEmpty
    <2>4. UNCHANGED <<asyncVars, Kept, pasts>> /\ work[w].phase = "add"
      BY <1>8 DEF AddClient, At
    <2> QED
      BY <1>7, <1>n, <2>1, <2>2, <2>3, <2>4
  <1>9. CASE AttachClient(w)
    <2>1. work[w].kind # "cleanup" /\ CallGranted(w) \in BOOLEAN
      BY <1>1, <1>9, Zenon DEF AttachClient, Fits, At, CallGranted
    <2>2. \E ok \in BOOLEAN : Settle(w, ok)
      BY <1>9, <2>1, Zenon DEF AttachClient
    <2>3. panel = NoList => InitAround \/ panel' = NoList
      BY <1>9, StillEmpty
    <2>4. UNCHANGED <<asyncVars, Kept, pasts>> /\ work[w].phase = "attach"
      BY <1>9 DEF AttachClient, At
    <2> QED
      BY <1>7, <1>n, <2>1, <2>2, <2>3, <2>4
  <1>10. CASE CallFails(w)
    <2>1. panel = NoList => InitAround \/ panel' = NoList
      BY <1>10, StillEmpty
    <2>2. /\ UNCHANGED <<asyncVars, Kept, pasts>> /\ Settle(w, FALSE)
          /\ work[w].phase \in {"user", "ticked", "clear", "add", "attach", "clean"}
      BY <1>10 DEF CallFails
    <2> QED
      BY <1>7, <1>n, <2>1, <2>2
  \* The panel is emptied: nobody is around, or the history says so.
  <1>11. CASE Clean(w)
    <2> DEFINE r == [work[w] EXCEPT !.phase = "verdict", !.ok = TRUE, !.usable = FALSE, !.ids = 0]
    <2>1. /\ r \in WorkerState /\ r.phase = "verdict" /\ r.kind = work[w].kind
          /\ r.seen = work[w].seen /\ Become(w, r)
      BY <1>0, <1>11, SettleFacts DEF WorkerState, Clean
    <2> HIDE DEF r
    <2>2. work'[w] = r /\ \A v \in Workers \ {w} : work'[v] = work[v]
      BY <1>0, <2>1, BecomeFacts
    <2>3. ASSUME NEW v \in Workers PROVE Fits(work[v], task["cleanup"].status)'
      <3>1. Fits(work[v], task["cleanup"].status)
        BY DEF CleanInv
      <3> QED
        BY <1>1, <1>11, <2>1, <2>2, <3>1 DEF Fits, Clean, At
    <2>4. ~overlap' => ~node.there /\ ~InitAround
      BY <1>11 DEF Clean, InitAround
    <2>5. InitAround' => InitAround
      BY <2>1, <2>2 DEF InitAround
    <2>6. panel' = NoList /\ node' = node
      BY <1>11 DEF Clean
    <2> QED
      BY <2>3, <2>4, <2>5, <2>6 DEF CleanInv
  <1>12. CASE Scan(w)
    <2> DEFINE r == [work[w] EXCEPT !.phase = "pending", !.list = panel]
    <2>1. /\ r \in WorkerState /\ r.phase = "pending" /\ r.kind = work[w].kind
          /\ r.seen = work[w].seen
      BY <1>0 DEF WorkerState, Phases, NodeTasksTypeOK
    <2>2. Succeeded' => Emptied
      BY <1>0, <1>s, <1>n, <1>12, NoNewSuccess DEF Scan
    <2>3. Become(w, r) \/ Become(w, Free)
      BY <1>12 DEF Scan
    <2>4. UNCHANGED <<Kept, panel, pasts>>
      BY <1>12 DEF Scan
    <2>5. Fits(r, task'["cleanup"].status)
      BY <2>1 DEF Fits
    <2> HIDE DEF r
    <2>6. CASE Become(w, r)
      BY <2>1, <2>2, <2>4, <2>5, <2>6, OneWorkerClean
    <2>7. CASE Become(w, Free)
      BY <1>f, <2>2, <2>4, <2>7, OneWorkerClean
    <2> QED
      BY <2>3, <2>6, <2>7
  <1>13. CASE Compare(w)
    <2> DEFINE u == First(work[w].left)
               rest == [work[w] EXCEPT !.left = work[w].left \ {u}]
               more == [rest EXCEPT !.need = rest.need \cup {u}]
    <2>1. u \in Keys
      BY <1>0, <1>13, WorkerNames DEF Compare
    <2>2. /\ rest \in WorkerState /\ rest.phase = work[w].phase /\ rest.kind = work[w].kind
          /\ rest.seen = work[w].seen
      BY <1>0 DEF WorkerState
    <2>3. /\ more \in WorkerState /\ more.phase = work[w].phase /\ more.kind = work[w].kind
          /\ more.seen = work[w].seen
      <3> HIDE DEF rest, u
      <3> QED
        BY <2>1, <2>2 DEF WorkerState
    <2>4. PICK r \in {rest, more} : Become(w, r)
      BY <1>13, Zenon DEF Compare
    <2> HIDE DEF rest, more, u
    <2>5. r \in WorkerState /\ r.phase = "compare" /\ r.kind = work[w].kind /\ r.seen = work[w].seen
      BY <1>13, <2>2, <2>3 DEF Compare, At
    <2>6. Succeeded' => Emptied
      BY <1>0, <1>s, <1>n, <1>13, NoNewSuccess, Zenon DEF Compare
    <2>7. UNCHANGED <<Kept, panel, pasts>>
      BY <1>13 DEF Compare
    <2>8. Fits(r, task'["cleanup"].status)
      BY <2>5 DEF Fits
    <2> QED
      BY <2>4, <2>5, <2>6, <2>7, <2>8, OneWorkerClean
  <1>14. CASE SendBatches(w)
    BY <1>14, <1>f, <1>n, OneWorkerClean DEF SendBatches
  <1>15. CASE Refused(w)
    <2> DEFINE r == [work[w] EXCEPT !.left = work[w].left \ {First(work[w].left)}]
               o == [work[w] EXCEPT !.phase = "next", !.left = work[w].left \ {work[w].key},
                                    !.key = NodeKey, !.ok = FALSE]
    <2>1. At(w, "next") => /\ r \in WorkerState /\ r.phase = "next" /\ r.kind = work[w].kind
                           /\ r.seen = work[w].seen
      BY <1>0 DEF WorkerState, At
    <2>2. o \in WorkerState /\ o.phase = "next" /\ o.kind = work[w].kind /\ o.seen = work[w].seen
      BY <1>0, SettleFacts DEF WorkerState
    <2>3. (At(w, "next") /\ Become(w, r)) \/ Become(w, o)
      BY <1>15, Zenon DEF Refused, Onward
    <2> HIDE DEF r, o
    <2>4. UNCHANGED <<asyncVars, Kept, panel, pasts>>
      BY <1>15 DEF Refused
    <2> QED
      BY <1>n, <2>1, <2>2, <2>3, <2>4, OneWorkerClean DEF Fits
  <1>16. CASE ScanFails(w)
    <2>1. Succeeded' => Emptied
      BY <1>0, <1>s, <1>16, NoNewSuccess DEF ScanFails
    <2> QED
      BY <1>16, <1>f, <2>1, OneWorkerClean DEF ScanFails
  <1>17. CASE Expire(w)
    <2>1. Succeeded' => Emptied
      BY <1>0, <1>s, <1>n, <1>17, NoNewSuccess DEF Expire
    <2> QED
      BY <1>17, <1>f, <2>1, OneWorkerClean DEF Expire
  \* The reads lead to the calls of the kind of the job.
  <1>18. CASE ReadUser(w)
    <2>1. UNCHANGED <<asyncVars, Kept, panel, pasts>> /\ work[w].phase = "user"
      BY <1>18 DEF ReadUser, At
    <2>2. work[w].kind # "cleanup" /\ work[w].seen
      BY <1>1, <2>1 DEF Fits
    <2>3. CASE Settle(w, TRUE)
      BY <1>7, <1>n, <2>1, <2>2, <2>3
    <2>4. ASSUME NEW p \in {"clear", "ticked"}, NEW b \in BOOLEAN, p = "clear" => work[w].kind = "init",
                 Become(w, [work[w] EXCEPT !.phase = p, !.usable = b])
          PROVE  CleanInv'
      <3> DEFINE r == [work[w] EXCEPT !.phase = p, !.usable = b]
      <3>1. /\ r \in WorkerState /\ r.phase = p /\ r.kind = work[w].kind
            /\ r.seen = work[w].seen
        BY <1>0 DEF WorkerState, Phases
      <3>2. Become(w, r)
        BY <2>4
      <3> HIDE DEF r
      <3>3. Fits(r, task'["cleanup"].status)
        BY <2>2, <2>4, <3>1 DEF Fits
      <3> QED
        BY <1>n, <2>1, <2>2, <2>4, <3>1, <3>2, <3>3, OneWorkerClean
    <2>5. (work[w].key \notin lapsed) \in BOOLEAN /\ TRUE \in BOOLEAN
      OBVIOUS
    <2>6. \/ /\ work[w].kind = "init"
             /\ Become(w, [work[w] EXCEPT !.phase = "clear", !.usable = work[w].key \notin lapsed])
          \/ Become(w, [work[w] EXCEPT !.phase = "ticked", !.usable = TRUE])
          \/ Settle(w, TRUE)
      BY <1>18, Zenon DEF ReadUser
    <2> QED
      BY <2>3, <2>4, <2>5, <2>6
  <1>19. CASE ReadInbounds(w)
    <2>1. UNCHANGED <<asyncVars, Kept, panel, pasts>> /\ work[w].phase = "ticked"
      BY <1>19 DEF ReadInbounds, At
    <2>2. work[w].kind # "cleanup" /\ work[w].seen
      BY <1>1, <2>1 DEF Fits
    <2>3. CASE Settle(w, TRUE)
      BY <1>7, <1>n, <2>1, <2>2, <2>3
    <2> DEFINE p == IF work[w].kind = "init" THEN "add" ELSE "attach"
               r == [work[w] EXCEPT !.ids = inbounds, !.phase = p]
    <2>4. CASE Become(w, r)
      <3>1. /\ r \in WorkerState /\ r.phase = p /\ r.kind = work[w].kind
            /\ r.seen = work[w].seen
        BY <1>0 DEF WorkerState, Phases, NodeTasksTypeOK
      <3> HIDE DEF r
      <3>2. Fits(r, task'["cleanup"].status)
        BY <2>2, <3>1 DEF Fits
      <3> QED
        BY <1>n, <2>1, <2>2, <2>4, <3>1, <3>2, OneWorkerClean
    <2> QED
      BY <1>19, <2>3, <2>4, Zenon DEF ReadInbounds
  <1>20. CASE ReadPending(w)
    <2> DEFINE r == [work[w] EXCEPT !.phase = "compare", !.left = KeysIn(item["sync"], {"pending"})]
    <2>1. /\ r \in WorkerState /\ r.phase = "compare" /\ r.kind = work[w].kind
          /\ r.seen = work[w].seen
      BY <1>0 DEF WorkerState, Phases, KeysIn
    <2>2. Become(w, r) /\ UNCHANGED <<asyncVars, Kept, panel, pasts>>
      BY <1>20 DEF ReadPending
    <2> HIDE DEF r
    <2> QED
      BY <1>n, <2>1, <2>2, OneWorkerClean DEF Fits
  <1>21. CASE HandlerFails(w)
    BY <1>21, <1>f, <1>n, OneWorkerClean DEF HandlerFails
  <1> QED
    BY <1>2, <1>3, <1>4, <1>5, <1>6, <1>8, <1>9, <1>10, <1>11, <1>12, <1>13, <1>14, <1>15, <1>16,
       <1>17, <1>18, <1>19, <1>20, <1>21, Zenon DEF WorkerStep, WorkerFails

\* The invariant of the cleaned panel holds.
LEMMA CleanInvariant == NodeTasksSpec => []CleanInv
  <1>1. NodeTasksInit => CleanInv
    BY Names DEF NodeTasksInit, AsyncInit, CleanInv, Fits, Emptied, Succeeded, At, Free
  <1>2. TasksInv /\ CleanInv /\ [NodeTasksNext]_vars => CleanInv'
    <2> SUFFICES ASSUME TasksInv, CleanInv, [NodeTasksNext]_vars PROVE CleanInv'
      OBVIOUS
    <2>1. TableStep
      BY StepTasksInv
    <2>2. CASE NodeTasksNext
      <3>1. \/ RequestStep \/ NewRequest
            \/ \E t \in Tasks : RetryTask(t) \/ Sweep(t)
            \/ \E u \in Users : Lapse(u)
            \/ Restart
            \/ \E w \in Workers : WorkerStep(w) \/ WorkerFails(w)
        BY <2>2, Zenon DEF NodeTasksNext
      <3> QED
        BY <2>1, <3>1, OutsideStepsClean, WorkerStepsClean
    <2>3. CASE UNCHANGED vars
      <3>1. Succeeded' => Succeeded
        BY <2>3 DEF vars, asyncVars, Succeeded
      <3> QED
        BY <2>1, <2>3, <3>1, OutsideClean DEF vars, rows, pasts
    <2> QED
      BY <2>2, <2>3
  <1> QED
    BY <1>1, <1>2, InitTasksInv, StepTasksInv, PTL DEF NodeTasksSpec

\* Once the cleanup of a deleted node has succeeded its panel is and stays empty, for any
\* users, workers, batches, retries and faults, unless it met the node or an init batch that
\* had seen it (nodejobs.go, runNodeClientsCleanup).
THEOREM CleanedPanelStaysEmpty == NodeTasksSpec => []CleanedUp
  <1>1. CleanInv => CleanedUp
    BY DEF CleanInv, CleanedUp, Emptied, Succeeded
  <1> QED
    BY <1>1, CleanInvariant, PTL

-----------------------------------------------------------------------------
(* What the task page calls done is done on the panel. *)

NoCleanup == task["cleanup"].status = "absent"

\* What a worker with the state r says of user u: it works on the item of init, with calls
\* still to come, or is between the two calls; it has an outcome of task t to report; it has
\* listed a client that is up to date or missing.
InitOf(r, u) == r.kind = "init" /\ r.key = u
AtUser(r, u) == InitOf(r, u) /\ r.phase \in {"user", "clear", "ticked", "add"}
Between(r, u) == InitOf(r, u) /\ r.phase \in {"ticked", "add"}
Brings(r, t, u) == r.phase = "verdict" /\ TaskOf(r.kind) = t /\ r.key = u /\ r.ok
Lists(r, u) == r.phase \in {"pending", "compare"} /\ r.list[u] # 1
OfSync(kind) == kind \in {"scan", "sync"}
NoSyncJob(q) == \A i \in 1 .. Len(q) : ~OfSync(q[i].kind)

\* Work on a node begins with its row and is over when its cleanup was asked for: until then
\* every job has found the row.
Started ==
  /\ request.step = "delete" => ~NoCleanup
  /\ NoCleanup => \A w \in Workers : work[w].phase = "free" \/ work[w].seen
  /\ (NoCleanup /\ ~node.there) =>
       /\ queue = <<>> /\ due = {} /\ request.step = "none"
       /\ \A w \in Workers : work[w].phase = "free"
       /\ task["init"].status = "absent" /\ task["sync"].status = "absent"

\* Nothing of a sync task is around before the inbounds were replaced.
SyncFits(r) ==
  /\ r.phase # "free" /\ OfSync(r.kind) => inbounds = 2
  /\ r.phase \in {"scan", "pending", "compare"} => r.kind = "scan"
  /\ r.phase = "clean" => r.kind = "cleanup"
ChangeFirst ==
  /\ "sync" \notin due
  /\ request.step = "sync" => inbounds = 2
  /\ task["sync"].status # "absent" => inbounds = 2
  /\ NoSyncJob(queue) \/ inbounds = 2
  /\ \A w \in Workers : SyncFits(work[w])

\* What a worker goes by was true when it was read: a user it took for one without a plan has
\* none, and inbounds that have changed since are due only for a user who is behind.
ReadFits(r) ==
  /\ (r.phase \in {"clear", "ticked"} /\ ~r.usable) => r.key \in lapsed
  /\ r.phase \in {"add", "attach"} => r.ids # 0
  /\ (r.phase = "add" /\ r.ids = 1 /\ inbounds = 2 /\ r.key \in Users) => r.key \in behind
  /\ r.phase = "attach" => r.ids = 2
ReadsFit == \A w \in Workers : ReadFits(work[w])

\* Without a second batch at one user, who clears its client has an item that is not done.
OneBatch ==
  ~doubled => \A w \in Workers, u \in Users :
    /\ InitOf(work[w], u) => \A v \in Workers \ {w} : ~InitOf(work[v], u)
    /\ AtUser(work[w], u) => item["init"][u] # "succeeded"

\* An outcome of init, reported or on its way, has its client; one of sync, and a client that
\* a scan takes for attached, has no client on the old inbounds only.
Reported(t, u) == item[t][u] = "succeeded" \/ \E w \in Workers : Brings(work[w], t, u)
Listed(u) == \E w \in Workers : Lists(work[w], u)
Outdated(u) == inbounds = 2 /\ panel[u] = 1
HasClient ==
  (NoCleanup /\ (~faulty \/ ~doubled)) =>
    \A u \in Users \ lapsed : Reported("init", u) /\ ~AtWork(u) => panel[u] # 0
IsAttached ==
  NoCleanup => \A u \in Users \ (lapsed \cup behind) :
                 Reported("sync", u) \/ Listed(u) => ~Outdated(u)

ServedInv == Started /\ ChangeFirst /\ ReadsFit /\ OneBatch /\ HasClient /\ IsAttached

\* The invariant is strong enough.
LEMMA ServedEnough == TasksInv /\ ServedInv => SuccessMeansServed
  <1> SUFFICES ASSUME TasksInv, ServedInv, NoCleanup, NEW u \in Users \ lapsed
               PROVE  /\ (item["init"][u] = "succeeded" /\ ~AtWork(u) /\ (~faulty \/ ~doubled))
                           => panel[u] > 0
                      /\ (item["sync"][u] = "succeeded" /\ panel[u] > 0 /\ u \notin behind)
                           => panel[u] = inbounds
    BY Zenon DEF SuccessMeansServed, NoCleanup
  <1>1. panel[u] \in {0, 1, 2} /\ inbounds \in {1, 2}
    BY DEF TasksInv, NodeTasksTypeOK, Inbounds
  <1>3. ASSUME item["init"][u] = "succeeded", ~AtWork(u), ~faulty \/ ~doubled PROVE panel[u] > 0
    <2>1. panel[u] # 0
      BY <1>3 DEF ServedInv, HasClient, Reported
    <2> QED
      BY <1>1, <2>1
  <1>4. ASSUME item["sync"][u] = "succeeded", panel[u] > 0, u \notin behind
        PROVE  panel[u] = inbounds
    <2>1. ~Outdated(u)
      BY <1>4 DEF ServedInv, IsAttached, Reported
    <2>2. task["sync"].status # "absent"
      BY <1>4, Names DEF TasksInv, AsyncInv, AbsentIsEmpty
    <2>3. inbounds = 2
      BY <2>2 DEF ServedInv, ChangeFirst
    <2> QED
      BY <1>1, <1>4, <2>1, <2>3 DEF Outdated
  <1> QED
    BY <1>3, <1>4

\* It holds initially.
LEMMA ServedInit == NodeTasksInit => ServedInv
  <1> SUFFICES ASSUME NodeTasksInit PROVE ServedInv
    OBVIOUS
  <1>1. \A w \in Workers : work[w] = Free
    BY DEF NodeTasksInit
  <1>2. \A t \in Tasks : task[t].status = "absent" /\ \A k \in Keys : item[t][k] = "absent"
    BY DEF NodeTasksInit, AsyncInit
  <1>3. \A w \in Workers, u \in Users :
          /\ ~AtUser(work[w], u) /\ ~InitOf(work[w], u)
          /\ ~Lists(work[w], u) /\ \A t : ~Brings(work[w], t, u)
    BY <1>1, Names DEF Free, AtUser, InitOf, Lists, Brings
  <1>4. Started
    BY <1>1, <1>2, Names DEF NodeTasksInit, NoRequest, Started, NoCleanup, Free
  <1>5. ChangeFirst
    BY <1>1, <1>2, Names DEF NodeTasksInit, NoRequest, ChangeFirst, SyncFits, NoSyncJob, OfSync, Free
  <1>6. OneBatch /\ HasClient /\ IsAttached
    BY <1>2, <1>3, Names DEF OneBatch, HasClient, IsAttached, Reported, Listed
  <1>7. ReadsFit
    BY <1>1 DEF ReadsFit, ReadFits, Free
  <1> QED
    BY <1>4, <1>5, <1>6, <1>7 DEF ServedInv

-----------------------------------------------------------------------------
\* What a step does to the tasks that are there and to the items that are done.
NoneCreated == \A c \in Tasks : task[c].status = "absent" => task'[c].status = "absent"
NoneDone == \A c \in Tasks, u \in Keys : item'[c][u] = "succeeded" => item[c][u] = "succeeded"
DoneAt(t, k) ==
  \A c \in Tasks, u \in Keys :
    item'[c][u] = "succeeded" => item[c][u] = "succeeded" \/ (c = t /\ u = k)

\* What the transactions do to them.
LEMMA TableEffects ==
  ASSUME AsyncInv, NEW t \in Tasks
  PROVE  /\ CompleteEmpty(t) => NoneCreated /\ NoneDone
         /\ \A k \in Keys : ClaimItem(t, k) => NoneCreated /\ NoneDone /\ item'[t][k] # "succeeded"
         /\ \A k \in Keys : FinishItem(t, k, "failed") => NoneCreated /\ NoneDone
         /\ \A k \in Keys : FinishItem(t, k, "succeeded") => NoneCreated /\ DoneAt(t, k)
         /\ FailPendingItems(t) => NoneCreated /\ NoneDone
         /\ Retry(t) => NoneCreated /\ NoneDone
         /\ UNCHANGED asyncVars => NoneCreated /\ NoneDone
         /\ \A ks \in SUBSET Keys : Create(t, ks) => NoneDone
         /\ \A ks \in SUBSET Keys, c \in Tasks \ {t} :
              Create(t, ks) /\ task[c].status = "absent" => task'[c].status = "absent"
  <1>0. /\ item \in [Tasks -> [Keys -> Statuses]]
        /\ task \in [Tasks -> TaskRow]
    BY DEF AsyncInv, AsyncTypeOK
  <1>1. {"pending", "running", "failed", "succeeded"} \subseteq Statuses
    BY DEF Statuses, Active, Terminal
  <1>2. ASSUME NEW ks, NEW s \in Statuses, s # "succeeded", SetItems(t, ks, s)
        PROVE  NoneDone
    BY <1>0, <1>2, SetItemsFacts DEF NoneDone
  <1>3. ASSUME NEW k \in Keys, SetItems(t, {k}, "succeeded") PROVE DoneAt(t, k)
    BY <1>0, <1>1, <1>3, SetItemsFacts DEF DoneAt
  <1>4. ASSUME NEW k \in Keys, SetItems(t, {k}, "running") PROVE item'[t][k] # "succeeded"
    BY <1>0, <1>1, <1>4, SetItemsFacts
  <1>5. ASSUME task[t].status # "absent", NEW row, task' = [task EXCEPT ![t] = row]
        PROVE  NoneCreated
    BY <1>0, <1>5 DEF NoneCreated
  <1>6. UNCHANGED task => NoneCreated
    BY DEF NoneCreated
  <1>7. UNCHANGED item => NoneDone
    BY DEF NoneDone
  <1>8. \A k \in Keys : item[t][k] # "absent" => task[t].status # "absent"
    BY DEF AsyncInv, AbsentIsEmpty
  <1>9. CompleteEmpty(t) => NoneCreated /\ NoneDone
    BY <1>5, <1>7 DEF CompleteEmpty
  <1>10. ASSUME NEW k \in Keys, ClaimItem(t, k)
         PROVE  NoneCreated /\ NoneDone /\ item'[t][k] # "succeeded"
    BY <1>10, <1>1, <1>2, <1>4, <1>5, <1>6, <1>8 DEF ClaimItem
  <1>11. ASSUME NEW k \in Keys, NEW s, FinishItem(t, k, s) PROVE NoneCreated
    BY <1>11, <1>5, <1>8 DEF FinishItem
  <1>12. ASSUME NEW k \in Keys
         PROVE  /\ FinishItem(t, k, "failed") => NoneDone
                /\ FinishItem(t, k, "succeeded") => DoneAt(t, k)
    BY <1>1, <1>2, <1>3 DEF FinishItem
  <1>13. FailPendingItems(t) => NoneCreated /\ NoneDone
    BY <1>1, <1>2, <1>5 DEF FailPendingItems
  <1>14. Retry(t) => NoneCreated /\ NoneDone
    BY <1>1, <1>2, <1>5 DEF Retry, Reopen
  <1>15. ASSUME NEW ks \in SUBSET Keys, Create(t, ks)
         PROVE  /\ NoneDone
                /\ \A c \in Tasks \ {t} : task[c].status = "absent" => task'[c].status = "absent"
    BY <1>15, <1>0, <1>1, <1>2 DEF Create
  <1> QED
    BY <1>6, <1>7, <1>9, <1>10, <1>11, <1>12, <1>13, <1>14, <1>15 DEF asyncVars

-----------------------------------------------------------------------------
\* A worker w becomes r, conjunct by conjunct: every job has found the node, ...
LEMMA WorkerStarted ==
  ASSUME TasksInv, ServedInv, TableStep, NoneCreated,
         NEW w \in Workers, NEW r \in WorkerState, Become(w, r),
         NoCleanup => node.there /\ (r.phase = "free" \/ r.seen),
         request' = request, node'.there = node.there
  PROVE  Started'
  <1>1. /\ work'[w] = r
        /\ \A v \in Workers \ {w} : work'[v] = work[v]
    BY BecomeFacts DEF TasksInv
  <1>2. NoCleanup' <=> NoCleanup
    BY TaskStays, Names DEF TasksInv, NoCleanup, NoneCreated
  <1>3. Started
    BY DEF ServedInv
  <1>4. ASSUME NoCleanup', NEW v \in Workers PROVE work'[v].phase = "free" \/ work'[v].seen
    <2>1. CASE v = w
      BY <1>1, <1>2, <1>4, <2>1
    <2>2. CASE v # w
      BY <1>1, <1>2, <1>3, <1>4, <2>2 DEF Started
    <2> QED
      BY <2>1, <2>2
  <1> QED
    BY <1>2, <1>3, <1>4 DEF Started

\* ... nothing of a sync before the inbounds were replaced, ...
LEMMA WorkerChange ==
  ASSUME TasksInv, ServedInv, NoneCreated,
         NEW w \in Workers, NEW r \in WorkerState, Become(w, r), SyncFits(r),
         NoSyncJob(queue') \/ inbounds = 2,
         request' = request, due' = due, inbounds' = inbounds
  PROVE  ChangeFirst'
  <1>1. /\ work'[w] = r
        /\ \A v \in Workers \ {w} : work'[v] = work[v]
    BY BecomeFacts DEF TasksInv
  <1>2. ChangeFirst
    BY DEF ServedInv
  <1>3. ASSUME NEW v \in Workers PROVE SyncFits(work[v])'
    <2>1. CASE v = w
      BY <1>1, <2>1 DEF SyncFits
    <2>2. CASE v # w
      BY <1>1, <1>2, <2>2 DEF ChangeFirst, SyncFits
    <2> QED
      BY <2>1, <2>2
  <1>4. task'["sync"].status # "absent" => task["sync"].status # "absent"
    BY Names DEF NoneCreated
  <1> QED
    BY <1>2, <1>3, <1>4, Zenon DEF ChangeFirst, NoSyncJob

\* ... reads that were true, ...
LEMMA WorkerReads ==
  ASSUME TasksInv, ServedInv, NEW w \in Workers, NEW r \in WorkerState, Become(w, r), ReadFits(r),
         UNCHANGED <<inbounds, lapsed, behind>>
  PROVE  ReadsFit'
  <1>1. /\ work'[w] = r
        /\ \A v \in Workers \ {w} : work'[v] = work[v]
    BY BecomeFacts DEF TasksInv
  <1>2. ASSUME NEW v \in Workers PROVE ReadFits(work[v])'
    <2>1. CASE v = w
      BY <1>1, <2>1 DEF ReadFits
    <2>2. CASE v # w
      BY <1>1, <2>2 DEF ServedInv, ReadsFit, ReadFits
    <2> QED
      BY <2>1, <2>2
  <1> QED
    BY <1>2 DEF ReadsFit

\* ... one batch at a user, ...
LEMMA WorkerOneBatch ==
  ASSUME TasksInv, ServedInv,
         NEW w \in Workers, NEW r \in WorkerState, Become(w, r),
         \A u \in Users : item'["init"][u] = "succeeded" => Reported("init", u),
         doubled => doubled',
         \A u \in Users : ~doubled' /\ InitOf(r, u) =>
           InitOf(work[w], u) \/ \A v \in Workers \ {w} : ~InitOf(work[v], u),
         \A u \in Users : AtUser(r, u) =>
           item'["init"][u] # "succeeded" \/ AtUser(work[w], u)
  PROVE  OneBatch'
  <1>1. /\ work'[w] = r
        /\ \A v \in Workers \ {w} : work'[v] = work[v]
    BY BecomeFacts DEF TasksInv
  <1>2. SUFFICES ASSUME ~doubled', NEW u \in Users, NEW v \in Workers
                 PROVE  /\ InitOf(work'[v], u) => \A x \in Workers \ {v} : ~InitOf(work'[x], u)
                        /\ AtUser(work'[v], u) => item'["init"][u] # "succeeded"
    BY DEF OneBatch
  <1>3. /\ \A x \in Workers : InitOf(work[x], u) => \A y \in Workers \ {x} : ~InitOf(work[y], u)
        /\ \A x \in Workers : AtUser(work[x], u) => item["init"][u] # "succeeded"
    BY <1>2 DEF ServedInv, OneBatch
  <1>4. ASSUME InitOf(work'[v], u), NEW x \in Workers \ {v}, InitOf(work'[x], u) PROVE FALSE
    <2>1. CASE v = w
      BY <1>1, <1>2, <1>3, <1>4, <2>1
    <2>2. CASE x = w
      BY <1>1, <1>2, <1>3, <1>4, <2>2
    <2>3. CASE v # w /\ x # w
      BY <1>1, <1>3, <1>4, <2>3
    <2> QED
      BY <2>1, <2>2, <2>3
  <1>5. ASSUME NEW x \in Workers, AtUser(work[x], u) PROVE item'["init"][u] # "succeeded"
    <2>1. item["init"][u] # "succeeded"
      BY <1>3, <1>5
    <2>2. InitOf(work[x], u)
      BY <1>5 DEF AtUser
    <2>3. \A y \in Workers : ~Brings(work[y], "init", u)
      BY <1>3, <1>5, <2>2 DEF Brings, InitOf, TaskOf, AtUser
    <2> QED
      BY <2>1, <2>3 DEF Reported
  <1>6. ASSUME AtUser(work'[v], u) PROVE item'["init"][u] # "succeeded"
    <2>1. CASE v = w
      BY <1>1, <1>5, <1>6, <2>1
    <2>2. CASE v # w
      BY <1>1, <1>5, <1>6, <2>2
    <2> QED
      BY <2>1, <2>2
  <1> QED
    BY <1>4, <1>6

\* ... clients of the initialised, ...
LEMMA WorkerHasClient ==
  ASSUME TasksInv, ServedInv, TableStep,
         NEW w \in Workers, NEW r \in WorkerState, Become(w, r), lapsed' = lapsed,
         \A u \in Users : item'["init"][u] = "succeeded" => Reported("init", u),
         doubled => doubled', faulty => faulty',
         NoCleanup => \A u \in Users \ lapsed :
           /\ Brings(r, "init", u) => panel'[u] # 0
           /\ panel[u] # 0 => panel'[u] # 0 \/ Between(r, u) \/ (AtUser(work[w], u) /\ faulty')
           /\ Between(work[w], u) => Between(r, u) \/ panel'[u] # 0 \/ faulty'
  PROVE  HasClient'
  <1>1. /\ work'[w] = r
        /\ \A v \in Workers \ {w} : work'[v] = work[v]
    BY BecomeFacts DEF TasksInv
  <1>2. NoCleanup' => NoCleanup
    BY TaskStays, Names DEF TasksInv, NoCleanup
  <1>3. SUFFICES ASSUME NoCleanup, ~faulty' \/ ~doubled', NEW u \in Users \ lapsed,
                        Reported("init", u)', ~AtWork(u)', panel'[u] = 0
                 PROVE  FALSE
    BY <1>2 DEF HasClient
  <1>4. ~Between(r, u) /\ \A v \in Workers \ {w} : ~Between(work[v], u)
    BY <1>1, <1>3 DEF AtWork, Between, InitOf
  <1>5. Reported("init", u)
    <2>1. CASE item'["init"][u] = "succeeded"
      BY <2>1
    <2>2. ASSUME NEW v \in Workers, Brings(work'[v], "init", u) PROVE Reported("init", u)
      <3>1. v # w
        BY <1>1, <1>3, <2>2
      <3> QED
        BY <1>1, <2>2, <3>1 DEF Reported
    <2> QED
      BY <1>3, <2>1, <2>2 DEF Reported
  <1>6. CASE AtUser(work[w], u) /\ faulty'
    <2>1. ~doubled
      BY <1>3, <1>6
    <2>2. \A v \in Workers : ~Brings(work[v], "init", u)
      BY <1>6, <2>1 DEF ServedInv, OneBatch, Brings, InitOf, TaskOf, AtUser
    <2>3. item["init"][u] # "succeeded"
      BY <1>6, <2>1 DEF ServedInv, OneBatch
    <2> QED
      BY <1>5, <2>2, <2>3 DEF Reported
  <1>7. CASE ~(AtUser(work[w], u) /\ faulty')
    <2>1. ~Between(work[w], u)
      BY <1>3, <1>4, <1>7 DEF Between, AtUser
    <2>2. ~AtWork(u)
      BY <1>4, <2>1 DEF AtWork, Between, InitOf
    <2>3. panel[u] # 0
      BY <1>3, <1>5, <2>2 DEF ServedInv, HasClient
    <2> QED
      BY <1>3, <1>4, <1>7, <2>3
  <1> QED
    BY <1>6, <1>7

\* ... inbounds of the synchronised.
LEMMA WorkerAttached ==
  ASSUME TasksInv, ServedInv, TableStep,
         NEW w \in Workers, NEW r \in WorkerState, Become(w, r), lapsed' = lapsed,
         inbounds' = inbounds, behind' = behind,
         NoCleanup => \A u \in Users \ (lapsed \cup behind) :
           /\ item'["sync"][u] = "succeeded" => Reported("sync", u) \/ ~Outdated(u)
           /\ Brings(r, "sync", u) => ~Outdated(u)'
           /\ Lists(r, u) => ~Outdated(u)' \/ Lists(work[w], u)
           /\ Outdated(u)' => Outdated(u)
  PROVE  IsAttached'
  <1>1. /\ work'[w] = r
        /\ \A v \in Workers \ {w} : work'[v] = work[v]
    BY BecomeFacts DEF TasksInv
  <1>2. NoCleanup' => NoCleanup
    BY TaskStays, Names DEF TasksInv, NoCleanup
  <1>3. SUFFICES ASSUME NoCleanup, NEW u \in Users \ (lapsed \cup behind),
                        Reported("sync", u)' \/ Listed(u)', Outdated(u)'
                 PROVE  FALSE
    BY <1>2 DEF IsAttached
  <1>4. ~Reported("sync", u) /\ ~Listed(u)
    BY <1>3 DEF ServedInv, IsAttached
  <1>5. ASSUME item'["sync"][u] = "succeeded" PROVE FALSE
    BY <1>3, <1>4, <1>5
  <1>6. ASSUME NEW v \in Workers, Brings(work'[v], "sync", u) PROVE FALSE
    BY <1>1, <1>3, <1>4, <1>6 DEF Reported
  <1>7. ASSUME NEW v \in Workers, Lists(work'[v], u) PROVE FALSE
    BY <1>1, <1>3, <1>4, <1>7 DEF Listed
  <1> QED
    BY <1>3, <1>5, <1>6, <1>7 DEF Reported, Listed

-----------------------------------------------------------------------------
\* A step of the administrator or the sweeper, for the conjuncts about users: the workers go
\* on, or are all gone.
LEMMA OutsideServed ==
  ASSUME TasksInv, ServedInv, TableStep, NoneDone,
         work' = work \/ (work' = [w \in Workers |-> Free] /\ faulty'),
         panel' = panel, doubled' = doubled, faulty => faulty', lapsed \subseteq lapsed',
         behind \subseteq behind', inbounds' \in {inbounds, 2},
         inbounds' = inbounds \/ \A w \in Workers :
           work[w].phase = "add" /\ work[w].key \in Users => work[w].key \in behind'
  PROVE  ReadsFit' /\ OneBatch' /\ HasClient' /\ IsAttached'
  <1>1. NoCleanup' => NoCleanup
    BY TaskStays, Names DEF TasksInv, NoCleanup
  <1>2. \A t \in {"init", "sync"}, u \in Users :
          item'[t][u] = "succeeded" => item[t][u] = "succeeded"
    BY Names DEF NoneDone
  <1>3. \A w \in Workers, u \in Users :
          /\ InitOf(work'[w], u) => InitOf(work[w], u)
          /\ AtUser(work'[w], u) => AtUser(work[w], u)
          /\ Lists(work'[w], u) => Lists(work[w], u)
          /\ \A t : Brings(work'[w], t, u) => Brings(work[w], t, u)
    BY Names DEF InitOf, AtUser, Lists, Brings, Free
  <1>4. /\ \A t \in {"init", "sync"}, u \in Users : Reported(t, u)' => Reported(t, u)
        /\ \A u \in Users : Listed(u)' => Listed(u)
    BY <1>2, <1>3 DEF Reported, Listed
  <1>5. OneBatch'
    BY <1>2, <1>3 DEF ServedInv, OneBatch
  <1>6. HasClient'
    <2> SUFFICES ASSUME NoCleanup, ~faulty' \/ ~doubled, NEW u \in Users \ lapsed,
                        Reported("init", u), ~AtWork(u)'
                 PROVE  panel[u] # 0
      BY <1>1, <1>4 DEF HasClient
    <2>1. CASE ~AtWork(u)
      BY <2>1 DEF ServedInv, HasClient
    <2>2. ASSUME NEW w \in Workers, Between(work[w], u) PROVE FALSE
      <3>1. ~doubled /\ AtUser(work[w], u)
        BY <2>2 DEF AtWork, Between, InitOf, AtUser
      <3>2. \A v \in Workers : ~Brings(work[v], "init", u)
        BY <3>1 DEF ServedInv, OneBatch, Brings, InitOf, TaskOf, AtUser
      <3>3. item["init"][u] # "succeeded"
        BY <3>1 DEF ServedInv, OneBatch
      <3> QED
        BY <3>2, <3>3 DEF Reported
    <2> QED
      BY <2>1, <2>2 DEF AtWork, Between, InitOf
  <1>7. IsAttached'
    <2> SUFFICES ASSUME NoCleanup, NEW u \in Users \ (lapsed \cup behind),
                        Reported("sync", u)' \/ Listed(u)', Outdated(u)'
                 PROVE  FALSE
      BY <1>1 DEF IsAttached
    <2>1. Reported("sync", u) \/ Listed(u)
      BY <1>4
    <2>2. CASE inbounds = 2
      BY <2>1, <2>2 DEF ServedInv, IsAttached, Outdated
    <2>3. CASE inbounds # 2
      <3>1. item["sync"][u] # "succeeded"
        BY <2>3, Names DEF ServedInv, ChangeFirst, TasksInv, AsyncInv, AbsentIsEmpty
      <3>2. \A w \in Workers : SyncFits(work[w])
        BY DEF ServedInv, ChangeFirst
      <3>3. \A w \in Workers : ~Brings(work[w], "sync", u) /\ ~Lists(work[w], u)
        BY <2>3, <3>2 DEF SyncFits, OfSync, Brings, Lists, TaskOf
      <3> QED
        BY <2>1, <3>1, <3>3 DEF Reported, Listed
    <2> QED
      BY <2>2, <2>3
  <1>8. ASSUME NEW w \in Workers PROVE ReadFits(work[w])'
    <2>1. ReadFits(work[w])
      BY DEF ServedInv, ReadsFit
    <2>2. CASE work' = work
      BY <2>1, <2>2 DEF ReadFits
    <2>3. CASE work' = [v \in Workers |-> Free]
      BY <2>3 DEF ReadFits, Free
    <2> QED
      BY <2>2, <2>3
  <1> QED
    BY <1>5, <1>6, <1>7, <1>8 DEF ReadsFit

\* The same for the course of the work.
LEMMA OutsideStarted ==
  ASSUME TasksInv, ServedInv, TableStep, work' = work,
         node'.there \/ ~NoCleanup,
         request'.step = "delete" => request.step = "delete" \/ task'["cleanup"].status # "absent"
  PROVE  Started'
  <1>1. NoCleanup' => NoCleanup
    BY TaskStays, Names DEF TasksInv, NoCleanup
  <1>2. Started
    BY DEF ServedInv
  <1> QED
    BY <1>1, <1>2 DEF Started, NoCleanup

\* And for what a sync leaves around.
LEMMA OutsideChange ==
  ASSUME ServedInv, work' = work \/ work' = [w \in Workers |-> Free],
         inbounds' \in {inbounds, 2}, "sync" \notin due',
         request'.step = "sync" => request.step = "sync" \/ inbounds' = 2,
         task'["sync"].status # "absent" => task["sync"].status # "absent" \/ inbounds' = 2,
         NoSyncJob(queue) => NoSyncJob(queue') \/ inbounds' = 2
  PROVE  ChangeFirst'
  <1>1. ChangeFirst
    BY DEF ServedInv
  <1>2. ASSUME NEW w \in Workers PROVE SyncFits(work[w])'
    BY <1>1 DEF ChangeFirst, SyncFits, OfSync, Free
  <1>3. NoSyncJob(queue') \/ inbounds' = 2
    BY <1>1 DEF ChangeFirst
  <1>4. NoSyncJob(queue)' \/ inbounds' = 2
    BY <1>3 DEF NoSyncJob
  <1> QED
    BY <1>1, <1>2, <1>4 DEF ChangeFirst

\* The jobs of the other tasks are not of a sync.
LEMMA NoSyncJobs ==
  /\ \A q, s \in Seq(Job) : NoSyncJob(q) /\ NoSyncJob(s) => NoSyncJob(q \o s)
  /\ \A q \in Seq(Job) : q # <<>> /\ NoSyncJob(q) => NoSyncJob(Tail(q)) /\ ~OfSync(Head(q).kind)
  /\ \A t \in Tasks \ {"sync"}, ks \in SUBSET Keys : NoSyncJob(JobsOf(t, ks))
  <1>1. ASSUME NEW q \in Seq(Job), NEW s \in Seq(Job), NoSyncJob(q), NoSyncJob(s)
        PROVE  NoSyncJob(q \o s)
    <2> SUFFICES ASSUME NEW i \in 1 .. Len(q \o s) PROVE ~OfSync((q \o s)[i].kind)
      BY DEF NoSyncJob
    <2>1. Len(q \o s) = Len(q) + Len(s) /\ Len(q) \in Nat /\ Len(s) \in Nat
      BY ConcatProperties, LenProperties
    <2>2. CASE i <= Len(q)
      <3>1. (q \o s)[i] = q[i] /\ i \in 1 .. Len(q)
        BY <2>1, <2>2, ConcatProperties
      <3> QED
        BY <1>1, <3>1 DEF NoSyncJob
    <2>3. CASE i > Len(q)
      <3>1. (q \o s)[i] = s[i - Len(q)] /\ i - Len(q) \in 1 .. Len(s)
        BY <2>1, <2>3, ConcatProperties
      <3> QED
        BY <1>1, <3>1 DEF NoSyncJob
    <2> QED
      BY <2>1, <2>2, <2>3
  <1>2. ASSUME NEW q \in Seq(Job), q # <<>>, NoSyncJob(q)
        PROVE  NoSyncJob(Tail(q)) /\ ~OfSync(Head(q).kind)
    <2>1. /\ Len(q) \in Nat /\ Len(q) > 0
          /\ Len(Tail(q)) = Len(q) - 1
          /\ \A i \in 1 .. Len(Tail(q)) : Tail(q)[i] = q[i + 1]
      BY <1>2, LenProperties, EmptySeq, HeadTailProperties
    <2>2. \A i \in 1 .. Len(Tail(q)) : i + 1 \in 1 .. Len(q)
      BY <2>1
    <2>3. 1 \in 1 .. Len(q) /\ Head(q) = q[1]
      BY <1>2, <2>1
    <2> QED
      BY <1>2, <2>1, <2>2, <2>3 DEF NoSyncJob
  <1>3. ASSUME NEW t \in Tasks \ {"sync"}, NEW ks \in SUBSET Keys
        PROVE  NoSyncJob(JobsOf(t, ks))
    <2>1. NoSyncJob(Batches("init", ks))
      <3> DEFINE n == (Cardinality(ks) + BatchSize - 1) \div BatchSize
                 e(i) == [kind |-> "init", keys |-> BatchOf(ks, i)]
      <3>1. Cardinality(ks) \in Nat /\ BatchSize \in Nat \ {0}
        BY KeysAssumption, FS_Subset, FS_CardinalityType, NodeTasksAssumption
      <3>2. n \in Nat
        BY <3>1
      <3>3. Batches("init", ks) = [i \in 1 .. n |-> e(i)] /\ \A i : e(i).kind = "init"
        BY DEF Batches
      <3> HIDE DEF n, e
      <3>4. Len([i \in 1 .. n |-> e(i)]) = n
        BY <3>2
      <3> QED
        BY <3>3, <3>4 DEF NoSyncJob, OfSync
    <2>2. NoSyncJob(<<>>) /\ NoSyncJob(<<CleanupJob>>)
      BY DEF NoSyncJob, CleanupJob, OfSync
    <2> QED
      BY <2>1, <2>2, Names DEF JobsOf
  <1> QED
    BY <1>1, <1>2, <1>3

\* The steps outside of the workers keep the invariant.
LEMMA OutsideStepsServed ==
  ASSUME TasksInv, ServedInv, CleanInv, TableStep,
         \/ RequestStep
         \/ NewRequest
         \/ \E t \in Tasks : RetryTask(t) \/ Sweep(t)
         \/ \E u \in Users : Lapse(u)
         \/ Restart
  PROVE  ServedInv'
  <1>0. /\ AsyncInv /\ "init" \in Tasks /\ "sync" \in Tasks /\ "cleanup" \in Tasks
        /\ Served \in SUBSET Keys /\ {NodeKey} \in SUBSET Keys
        /\ UNCHANGED asyncVars => NoneCreated /\ NoneDone
    BY Names, TableEffects DEF TasksInv, Served
  <1>t. /\ node \in [there : BOOLEAN, enabled : BOOLEAN] /\ queue \in Seq(Job)
        /\ request \in [step : Steps, on : BOOLEAN, active : BOOLEAN]
    BY DEF TasksInv, NodeTasksTypeOK
  <1>s. /\ Started /\ ChangeFirst
        /\ request.step # "none" => node.there \/ ~NoCleanup
        /\ due # {} => node.there \/ ~NoCleanup
        /\ task["init"].status # "absent" => node.there \/ ~NoCleanup
        /\ task["sync"].status # "absent" => node.there \/ ~NoCleanup
        /\ "sync" \notin due
    BY DEF ServedInv, Started, ChangeFirst
  <1>n. task'["sync"].status # "absent" /\ NoneCreated => task["sync"].status # "absent"
    BY <1>0 DEF NoneCreated
  <1>q. UNCHANGED queue => (NoSyncJob(queue) => NoSyncJob(queue'))
    BY DEF NoSyncJob
  <1> USE DEF rows, pasts, quiet, admin, ServedInv
  <1>1. ASSUME NEW on \in BOOLEAN, CreateNode(on) PROVE ServedInv'
    <2>1. /\ node'.there /\ request'.step = "init" /\ UNCHANGED asyncVars /\ work' = work
          /\ UNCHANGED <<queue, due, inbounds, panel, lapsed, doubled, behind, faulty>>
      BY <1>1 DEF CreateNode
    <2> QED
      BY <2>1, <1>0, <1>s, <1>n, <1>q, OutsideStarted, OutsideChange, OutsideServed
  <1>2. ASSUME NEW on \in BOOLEAN, AskSwitch(on) PROVE ServedInv'
    <2>1. /\ node'.there /\ request'.step = "switch" /\ UNCHANGED asyncVars /\ work' = work
          /\ UNCHANGED <<queue, due, inbounds, panel, lapsed, doubled, behind, faulty>>
      BY <1>2 DEF AskSwitch
    <2> QED
      BY <2>1, <1>0, <1>s, <1>n, <1>q, OutsideStarted, OutsideChange, OutsideServed
  <1>3. CASE AskChange
    <2>1. /\ node'.there /\ request'.step = "change" /\ UNCHANGED asyncVars /\ work' = work
          /\ UNCHANGED <<queue, due, inbounds, panel, lapsed, doubled, behind, faulty>>
      BY <1>3, <1>t DEF AskChange
    <2> QED
      BY <2>1, <1>0, <1>s, <1>n, <1>q, OutsideStarted, OutsideChange, OutsideServed
  <1>4. CASE AskDelete
    <2>1. /\ node'.there /\ request'.step = "delete" /\ work' = work
          /\ UNCHANGED <<queue, due, inbounds, panel, lapsed, doubled, behind, faulty>>
          /\ Create("cleanup", {NodeKey})
      BY <1>4, <1>t DEF AskDelete
    <2>2. task'["cleanup"].status = "pending"
      BY <2>1, <1>0 DEF Create, AsyncInv, AsyncTypeOK, TaskRow
    <2>3. NoneDone /\ (task'["sync"].status # "absent" => task["sync"].status # "absent")
      BY <2>1, <1>0, TableEffects
    <2> QED
      BY <2>1, <2>2, <2>3, <1>s, <1>q, OutsideStarted, OutsideChange, OutsideServed
  <1>5. CASE SubmitInit
    <2>1. /\ UNCHANGED <<node, queue, inbounds, panel, lapsed, doubled, behind, faulty, work>>
          /\ request'.step \in {"empty", "none"} /\ request.step = "init"
          /\ due' \in {due, due \cup {"init"}} /\ Create("init", Served)
      BY <1>5 DEF SubmitInit, NoRequest
    <2>2. NoneDone /\ (task'["sync"].status # "absent" => task["sync"].status # "absent")
      BY <2>1, <1>0, TableEffects
    <2> QED
      BY <2>1, <2>2, <1>s, <1>q, OutsideStarted, OutsideChange, OutsideServed
  <1>6. CASE FinishEmpty
    <2>1. /\ UNCHANGED <<node, queue, due, inbounds, panel, lapsed, doubled, behind, faulty, work>>
          /\ request'.step = "final" /\ request.step = "empty" /\ CompleteEmpty("init")
      BY <1>6, <1>t DEF FinishEmpty
    <2>2. NoneDone /\ NoneCreated
      BY <2>1, <1>0, TableEffects
    <2> QED
      BY <2>1, <2>2, <1>s, <1>n, <1>q, OutsideStarted, OutsideChange, OutsideServed
  <1>7. CASE FinalizeEmpty
    <2>1. /\ UNCHANGED <<asyncVars, queue, due, inbounds, panel, lapsed, doubled, behind, faulty, work>>
          /\ request'.step = "none" /\ request.step = "final" /\ node'.there = node.there
      BY <1>7, <1>t DEF FinalizeEmpty, FinalizeInitTask, NoRequest
    <2> QED
      BY <2>1, <1>0, <1>s, <1>n, <1>q, OutsideStarted, OutsideChange, OutsideServed
  <1>8. CASE DoSwitch
    <2>1. /\ UNCHANGED <<asyncVars, queue, due, inbounds, panel, lapsed, doubled, behind, faulty, work>>
          /\ request'.step = "none" /\ request.step = "switch" /\ node'.there = node.there
      BY <1>8, <1>t DEF DoSwitch, NoRequest
    <2> QED
      BY <2>1, <1>0, <1>s, <1>n, <1>q, OutsideStarted, OutsideChange, OutsideServed
  <1>9. CASE ReplaceInbounds
    <2>1. /\ UNCHANGED <<asyncVars, node, queue, due, panel, lapsed, doubled, faulty, work>>
          /\ request'.step \in {"none", "sync"} /\ request.step = "change" /\ inbounds' = 2
      BY <1>9, <1>t DEF ReplaceInbounds
    <2>2. /\ behind \subseteq behind'
          /\ \A w \in Workers : work[w].phase = "add" /\ work[w].key \in Users =>
                                  work[w].key \in behind'
      BY <1>9 DEF ReplaceInbounds, At
    <2> QED
      BY <2>1, <2>2, <1>0, <1>s, <1>n, <1>q, OutsideStarted, OutsideChange, OutsideServed
  <1>10. CASE SubmitSync
    <2>1. /\ UNCHANGED <<node, inbounds, due, panel, lapsed, doubled, behind, faulty, work>>
          /\ request'.step = "none" /\ request.step = "sync" /\ Create("sync", Served)
      BY <1>10 DEF SubmitSync, NoRequest
    <2>2. NoneDone /\ inbounds' = 2
      BY <2>1, <1>0, <1>s, TableEffects DEF ChangeFirst
    <2> QED
      BY <2>1, <2>2, <1>s, OutsideStarted, OutsideChange, OutsideServed
  <1>11. CASE DeleteNode
    <2>1. /\ UNCHANGED <<asyncVars, inbounds, queue, panel, lapsed, doubled, behind, faulty, work>>
          /\ request'.step = "none" /\ request.step = "delete" /\ due' = due \cup {"cleanup"}
      BY <1>11 DEF DeleteNode, NoRequest
    <2>2. ~NoCleanup
      BY <2>1, <1>s DEF Started
    <2> QED
      BY <2>1, <2>2, <1>0, <1>s, <1>n, <1>q, OutsideStarted, OutsideChange, OutsideServed
  <1>12. ASSUME NEW t \in Tasks, SendDue(t) PROVE ServedInv'
    <2>1. /\ UNCHANGED <<asyncVars, node, inbounds, request, panel, lapsed, doubled, behind, faulty, work>>
          /\ t \in due /\ due' = due \ {t}
          /\ queue' = queue \o JobsOf(t, KeysIn(item[t], {"pending"}))
      BY <1>12 DEF SendDue
    <2>2. NoSyncJob(queue) => NoSyncJob(queue')
      BY <2>1, <1>s, <1>t, NoSyncJobs, JobsAreJobs DEF KeysIn
    <2> QED
      BY <2>1, <2>2, <1>0, <1>s, <1>n, OutsideStarted, OutsideChange, OutsideServed
  <1>13. ASSUME NEW t \in Tasks, RetryTask(t) PROVE ServedInv'
    <2>1. /\ UNCHANGED <<node, inbounds, due, request, panel, lapsed, doubled, behind, faulty, work>>
          /\ queue' = queue \o JobsOf(t, FailedKeys(t)) /\ Retry(t)
      BY <1>13 DEF RetryTask
    <2>2. NoneDone /\ NoneCreated
      BY <2>1, <1>0, TableEffects
    <2>3. task[t].status = "failed"
      BY <2>1 DEF Retry, Reopen
    <2>4. NoSyncJob(queue) => NoSyncJob(queue') \/ inbounds' = 2
      <3>1. CASE t = "sync"
        BY <2>1, <2>3, <3>1, <1>s DEF ChangeFirst
      <3>2. CASE t # "sync"
        BY <2>1, <3>2, <1>t, NoSyncJobs, JobsAreJobs DEF FailedKeys, KeysIn
      <3> QED
        BY <3>1, <3>2
    <2>5. node.there \/ ~NoCleanup
      BY <2>3, <1>s, Names DEF NoCleanup
    <2> QED
      BY <2>1, <2>2, <2>4, <2>5, <1>s, <1>n, OutsideStarted, OutsideChange, OutsideServed
  <1>14. ASSUME NEW t \in Tasks, Sweep(t) PROVE ServedInv'
    <2>1. /\ UNCHANGED <<node, queue, inbounds, due, request, panel, lapsed, doubled, behind, faulty, work>>
          /\ FailPendingItems(t) /\ task[t].status \in Active
      BY <1>14 DEF Sweep
    <2>2. NoneDone /\ NoneCreated
      BY <2>1, <1>0, TableEffects
    <2>3. node.there \/ ~NoCleanup
      BY <2>1, <1>s, Names DEF NoCleanup, Active
    <2> QED
      BY <2>1, <2>2, <2>3, <1>s, <1>n, <1>q, OutsideStarted, OutsideChange, OutsideServed
  <1>15. ASSUME NEW u \in Users, Lapse(u) PROVE ServedInv'
    <2>1. /\ UNCHANGED <<asyncVars, node, queue, due, request, inbounds, panel, doubled, behind, faulty, work>>
          /\ lapsed \subseteq lapsed'
      BY <1>15 DEF Lapse
    <2>2. Started'
      BY <2>1, <1>s DEF Started, NoCleanup, asyncVars
    <2> QED
      BY <2>1, <2>2, <1>0, <1>s, <1>n, <1>q, OutsideChange, OutsideServed
  <1>16. CASE Restart
    <2>1. /\ UNCHANGED <<asyncVars, node, inbounds, panel, lapsed, doubled, behind>>
          /\ queue' = <<>> /\ due' = {} /\ request' = NoRequest /\ faulty' = TRUE
          /\ work' = [w \in Workers |-> Free]
      BY <1>16 DEF Restart, Fault
    <2>2. Started'
      BY <2>1, <1>s DEF Started, NoCleanup, asyncVars, NoRequest, Free
    <2>3. NoSyncJob(queue') /\ request'.step = "none"
      BY <2>1 DEF NoSyncJob, NoRequest
    <2> QED
      BY <2>1, <2>2, <2>3, <1>0, <1>s, <1>n, OutsideChange, OutsideServed
  <1> QED
    BY <1>1, <1>2, <1>3, <1>4, <1>5, <1>6, <1>7, <1>8, <1>9, <1>10, <1>11, <1>12, <1>13, <1>14,
       <1>15, <1>16, KnownWishes, Zenon DEF RequestStep, NewRequest

-----------------------------------------------------------------------------
\* A worker at work has found the row of the node.
LEMMA AtWorkSeen ==
  ASSUME ServedInv, NEW w \in Workers, NoCleanup, work[w].phase # "free" \/ queue # <<>>
  PROVE  node.there /\ (work[w].phase # "free" => work[w].seen)
  BY DEF ServedInv, Started

\* A worker goes on at another place without calls: it is at no user, and leaves one only
\* with a failure or an outcome.
LEMMA OnwardServed ==
  ASSUME TasksInv, ServedInv, TableStep, NoneCreated,
         NEW w \in Workers, NEW r \in WorkerState, Become(w, r),
         work[w].phase # "free" \/ queue # <<>>,
         NoCleanup => r.phase = "free" \/ r.seen,
         r.phase \notin {"user", "ticked", "clear", "add", "attach", "verdict"},
         r.key = work[w].key \/ r.key = NodeKey, r.kind = work[w].kind \/ r.key = NodeKey,
         SyncFits(r), NoSyncJob(queue') \/ inbounds = 2,
         \A u \in Users : item'["init"][u] = "succeeded" => Reported("init", u),
         NoCleanup => \A u \in Users \ (lapsed \cup behind) :
            item'["sync"][u] = "succeeded" => Reported("sync", u) \/ ~Outdated(u),
         NoCleanup => \A u \in Users \ (lapsed \cup behind) :
            Lists(r, u) => ~Outdated(u) \/ Lists(work[w], u),
         work[w].phase \in {"ticked", "add"} => faulty',
         faulty => faulty', doubled => doubled',
         node'.there = node.there, UNCHANGED <<inbounds, lapsed, behind, due, request, panel>>
  PROVE  ServedInv'
  <1>1. Started'
    BY AtWorkSeen, WorkerStarted
  <1>2. ChangeFirst'
    BY WorkerChange
  <1>3. \A u \in Users : ~AtUser(r, u) /\ (InitOf(r, u) => InitOf(work[w], u))
    BY Names DEF AtUser, InitOf
  <1>4. OneBatch'
    BY <1>3, WorkerOneBatch
  <1>5. \A u \in Users : \A t : ~Brings(r, t, u)
    BY DEF Brings
  <1>6. \A u \in Users : Between(work[w], u) => faulty'
    BY DEF Between
  <1>7. HasClient'
    BY <1>5, <1>6, WorkerHasClient
  <1>8. \A u : Outdated(u)' = Outdated(u)
    BY DEF Outdated
  <1>9. IsAttached'
    BY <1>5, <1>8, WorkerAttached
  <1>10. ReadsFit'
    BY WorkerReads DEF ReadFits
  <1> QED
    BY <1>1, <1>2, <1>4, <1>7, <1>9, <1>10 DEF ServedInv

\* A worker settles the item it is at.
LEMMA SettleServed ==
  ASSUME TasksInv, ServedInv, CleanInv, TableStep, UNCHANGED asyncVars,
         NEW w \in Workers, NEW ok \in BOOLEAN, Settle(w, ok),
         work[w].phase \in {"user", "ticked", "clear", "add", "attach", "clean"},
         NoCleanup => \A u \in Users \ lapsed :
           /\ panel[u] # 0 =>
                panel'[u] # 0 \/ (u = work[w].key /\ work[w].phase = "clear" /\ faulty')
           /\ u = work[w].key /\ ok => panel'[u] # 0
           /\ u = work[w].key /\ work[w].phase \in {"ticked", "add"} => panel'[u] # 0 \/ faulty',
         NoCleanup => \A u \in Users \ (lapsed \cup behind) :
           /\ u = work[w].key /\ ok => work[w].phase = "add" \/ ~Outdated(u)'
           /\ Outdated(u)' => Outdated(u),
         UNCHANGED <<Kept, queue, doubled, behind>>, faulty => faulty'
  PROVE  ServedInv'
  <1> DEFINE r == [work[w] EXCEPT !.phase = "verdict", !.ok = ok, !.usable = FALSE, !.ids = 0]
  <1>0. NodeTasksTypeOK /\ work[w] \in WorkerState
    BY WorkerNames DEF TasksInv
  <1>1. /\ r \in WorkerState /\ r.phase = "verdict" /\ r.ok = ok
        /\ r.kind = work[w].kind /\ r.key = work[w].key /\ r.seen = work[w].seen
        /\ Become(w, r)
    <2>1. /\ r \in WorkerState /\ r.phase = "verdict" /\ r.ok = ok
          /\ r.kind = work[w].kind /\ r.key = work[w].key /\ r.seen = work[w].seen
      BY <1>0 DEF WorkerState, Phases
    <2>2. Become(w, r)
      BY DEF Settle
    <2> HIDE DEF r
    <2> QED
      BY <2>1, <2>2
  <1> HIDE DEF r
  <1>2. NoneCreated /\ NoneDone
    BY TableEffects, Names DEF TasksInv
  <1>3. \A t \in {"init", "sync"}, u \in Users :
          item'[t][u] = "succeeded" => Reported(t, u)
    BY <1>2, Names DEF NoneDone, Reported
  <1>k. /\ request' = request /\ node' = node /\ due' = due /\ lapsed' = lapsed
        /\ inbounds' = inbounds /\ queue' = queue
    BY DEF Kept, rows, admin
  <1>4. Started'
    BY <1>1, <1>2, <1>k, AtWorkSeen, WorkerStarted
  <1>5. SyncFits(work[w]) /\ (NoSyncJob(queue) \/ inbounds = 2)
    BY DEF ServedInv, ChangeFirst
  <1>6. SyncFits(r) /\ (NoSyncJob(queue') \/ inbounds = 2)
    BY <1>1, <1>5, <1>k DEF SyncFits, NoSyncJob
  <1>7. ChangeFirst'
    BY <1>1, <1>2, <1>6, <1>k, WorkerChange
  <1>8. \A u \in Users : ~AtUser(r, u) /\ ~Lists(r, u) /\ (InitOf(r, u) => InitOf(work[w], u))
    BY <1>1 DEF AtUser, Lists, InitOf
  <1>9. OneBatch'
    BY <1>1, <1>3, <1>8, WorkerOneBatch
  <1>10. Fits(work[w], task["cleanup"].status)
    BY DEF CleanInv
  <1>11. \A u \in Users : Brings(r, "sync", u) => ok /\ u = work[w].key /\ work[w].phase # "add"
    BY <1>1, <1>10 DEF Brings, TaskOf, Fits
  <1>12. \A u \in Users : Brings(r, "init", u) => ok /\ u = work[w].key
    BY <1>1 DEF Brings
  <1>13. ASSUME NoCleanup, NEW u \in Users \ lapsed
         PROVE  /\ Brings(r, "init", u) => panel'[u] # 0
                /\ panel[u] # 0 =>
                     panel'[u] # 0 \/ Between(r, u) \/ (AtUser(work[w], u) /\ faulty')
                /\ Between(work[w], u) => Between(r, u) \/ panel'[u] # 0 \/ faulty'
    BY <1>10, <1>12, <1>13 DEF AtUser, Between, InitOf, Fits
  <1>14. HasClient'
    BY <1>1, <1>3, <1>13, <1>k, WorkerHasClient
  <1>15. IsAttached'
    BY <1>1, <1>3, <1>8, <1>11, <1>k, WorkerAttached
  <1>16. ReadsFit'
    BY <1>1, <1>k, WorkerReads DEF ReadFits
  <1> QED
    BY <1>4, <1>7, <1>9, <1>14, <1>15, <1>16 DEF ServedInv

\* The steps that take a job, go on to another item or end it.
LEMMA TakeServed ==
  ASSUME TasksInv, ServedInv, CleanInv, TableStep, NEW w \in Workers, Take(w)
  PROVE  ServedInv'
  <1> DEFINE job == Head(queue)
             start == [Free EXCEPT !.kind = job.kind, !.left = job.keys, !.seen = node.there]
  <1>0. /\ queue \in Seq(Job) /\ queue # <<>> /\ job \in Job
        /\ node.there \in BOOLEAN /\ work[w].phase = "free" /\ queue' = Tail(queue)
        /\ UNCHANGED <<asyncVars, Kept, panel, pasts, quiet>>
    BY HeadTailProperties, EmptySeq DEF TasksInv, NodeTasksTypeOK, Take, At
  <1>1. start \in WorkerState /\ start.seen = node.there /\ start.key = NodeKey /\ start.kind = job.kind
    BY <1>0, FreeIsState DEF Job, WorkerState, Free
  <1>f. Free \in WorkerState /\ Free.phase = "free" /\ Free.key = NodeKey
    BY FreeIsState DEF Free
  <1>2. PICK r \in WorkerState :
          /\ Become(w, r) /\ r.key = NodeKey
          /\ \/ r.phase = "next" /\ r.seen = node.there /\ r.kind = job.kind
             \/ r.phase = "scan" /\ r.seen = node.there /\ r.kind = "scan" /\ job.kind = "scan"
             \/ r.phase = "free"
    <2>1. Become(w, IF job.kind # "scan" THEN [start EXCEPT !.phase = "next"]
                    ELSE IF task["sync"].status \in Terminal THEN Free
                    ELSE [start EXCEPT !.phase = "scan"])
      BY Zenon DEF Take
    <2> HIDE DEF start, job
    <2>2. /\ [start EXCEPT !.phase = "next"] \in WorkerState
          /\ [start EXCEPT !.phase = "scan"] \in WorkerState
      BY <1>1 DEF WorkerState, Phases
    <2>3. /\ [start EXCEPT !.phase = "next"].key = NodeKey
          /\ [start EXCEPT !.phase = "next"].phase = "next"
          /\ [start EXCEPT !.phase = "next"].seen = node.there
          /\ [start EXCEPT !.phase = "next"].kind = job.kind
          /\ [start EXCEPT !.phase = "scan"].key = NodeKey
          /\ [start EXCEPT !.phase = "scan"].phase = "scan"
          /\ [start EXCEPT !.phase = "scan"].seen = node.there
          /\ [start EXCEPT !.phase = "scan"].kind = job.kind
      BY <1>1 DEF WorkerState
    <2>4. CASE job.kind # "scan"
      BY <2>1, <2>2, <2>3, <2>4
    <2>5. CASE job.kind = "scan" /\ task["sync"].status \in Terminal
      BY <2>1, <2>5, <1>f
    <2>6. CASE job.kind = "scan" /\ task["sync"].status \notin Terminal
      BY <2>1, <2>2, <2>3, <2>6
    <2> QED
      BY <2>4, <2>5, <2>6
  <1> HIDE DEF start
  <1>3. (NoSyncJob(Tail(queue)) /\ ~OfSync(job.kind)) \/ inbounds = 2
    BY <1>0, NoSyncJobs DEF ServedInv, ChangeFirst
  <1>4. SyncFits(r) /\ (NoSyncJob(queue') \/ inbounds = 2)
    BY <1>0, <1>2, <1>3 DEF SyncFits, OfSync
  <1>5. NoCleanup => node.there
    BY <1>0, AtWorkSeen
  <1>6. NoneCreated /\ NoneDone
    BY <1>0, TableEffects, Names DEF TasksInv
  <1>7. /\ \A t \in {"init", "sync"}, u \in Users : item'[t][u] = "succeeded" => Reported(t, u)
        /\ \A u : ~Lists(r, u)
    BY <1>2, <1>6, Names DEF NoneDone, Reported, Lists
  <1>8. UNCHANGED <<node, inbounds, lapsed, behind, due, request, panel, faulty, doubled>>
    BY <1>0 DEF Kept, rows, admin, pasts, quiet
  <1> HIDE DEF job
  <1> QED
    BY <1>0, <1>2, <1>4, <1>5, <1>6, <1>7, <1>8, OnwardServed

\* A worker that goes on with what it has left, or is free: nothing else about it changes.
LEMMA LeaveServed ==
  ASSUME TasksInv, ServedInv, TableStep, NoneCreated,
         NEW w \in Workers, NEW r \in WorkerState, Become(w, r), work[w].phase # "free",
         r.phase \notin {"user", "ticked", "clear", "add", "attach", "verdict"},
         \/ r.phase = "free" /\ r.key = NodeKey
         \/ /\ r.phase = work[w].phase \/ r.phase = "next"
            /\ r.seen = work[w].seen /\ r.kind = work[w].kind
            /\ r.key = work[w].key \/ r.key = NodeKey
            /\ r.list = work[w].list,
         NoSyncJob(queue') \/ inbounds = 2,
         \A u \in Users : item'["init"][u] = "succeeded" => Reported("init", u),
         NoCleanup => \A u \in Users \ (lapsed \cup behind) :
            item'["sync"][u] = "succeeded" => Reported("sync", u) \/ ~Outdated(u),
         work[w].phase \in {"ticked", "add"} => faulty',
         faulty => faulty', doubled => doubled',
         node'.there = node.there, UNCHANGED <<inbounds, lapsed, behind, due, request, panel>>
  PROVE  ServedInv'
  <1>1. SyncFits(work[w])
    BY DEF ServedInv, ChangeFirst
  <1>2. SyncFits(r)
    BY <1>1 DEF SyncFits
  <1>3. NoCleanup => r.phase = "free" \/ r.seen
    BY AtWorkSeen
  <1>4. \A u : Lists(r, u) => Lists(work[w], u)
    BY DEF Lists
  <1> QED
    BY <1>2, <1>3, <1>4, OnwardServed

\* A claim.
LEMMA ClaimServed ==
  ASSUME TasksInv, ServedInv, CleanInv, TableStep, NEW w \in Workers, ClaimNext(w)
  PROVE  ServedInv'
  <1> DEFINE k == First(work[w].left)
  <1>0. /\ NodeTasksTypeOK /\ AsyncInv /\ work[w] \in WorkerState /\ k \in Keys
        /\ Current(w) \in Tasks /\ work[w].phase = "next"
        /\ UNCHANGED <<Kept, panel, queue, overlap, behind, quiet>>
    BY WorkerNames DEF TasksInv, ClaimNext, At
  <1>d. doubled' = (doubled \/ \E v \in Workers \ {w} : work[v].key = k
                              /\ work[w].kind = "init" /\ work[v].kind = "init")
    BY DEF ClaimNext
  <1>u. /\ UNCHANGED <<node, inbounds, lapsed, behind, due, request, panel, faulty, queue>>
        /\ doubled => doubled'
    BY <1>0, <1>d DEF Kept, rows, admin, quiet
  <1>q. SyncFits(work[w]) /\ (NoSyncJob(queue') \/ inbounds = 2)
    BY <1>u DEF ServedInv, ChangeFirst, NoSyncJob
  <1> HIDE DEF k
  <1>1. CASE ClaimItem(Current(w), k) /\ Become(w, AfterClaim(w, k))
    <2> DEFINE r == AfterClaim(w, k)
    <2>1. /\ r \in WorkerState /\ r.kind = work[w].kind /\ r.seen = work[w].seen /\ r.key = k
          /\ r.phase \in {"user", "clean", "verdict"}
          /\ r.phase = "clean" => r.kind = "cleanup"
          /\ r.phase = "verdict" => ~r.seen
      BY <1>0, AfterClaimType DEF AfterClaim, WorkerState
    <2> HIDE DEF r
    <2>2. Become(w, r)
      BY <1>1 DEF r
    <2>3. NoneCreated /\ NoneDone /\ item'[Current(w)][k] # "succeeded"
      BY <1>0, <1>1, TableEffects
    <2>4. \A t \in {"init", "sync"}, u \in Users : item'[t][u] = "succeeded" => Reported(t, u)
      BY <2>3, Names DEF NoneDone, Reported
    <2>5. NoCleanup => node.there /\ r.seen
      BY <1>0, <2>1, AtWorkSeen
    <2>6. Started'
      BY <1>u, <2>1, <2>2, <2>3, <2>5, WorkerStarted
    <2>7. SyncFits(r)
      BY <1>0, <1>q, <2>1 DEF SyncFits
    <2>8. ChangeFirst'
      BY <1>u, <1>q, <2>1, <2>2, <2>3, <2>7, WorkerChange
    <2>9. ASSUME NEW u \in Users, AtUser(r, u) PROVE item'["init"][u] # "succeeded"
      BY <2>1, <2>3, <2>9 DEF AtUser, InitOf, Current, TaskOf
    <2>10. ASSUME NEW u \in Users, ~doubled', InitOf(r, u)
           PROVE  \A v \in Workers \ {w} : ~InitOf(work[v], u)
      BY <1>d, <2>1, <2>10 DEF InitOf
    <2>11. OneBatch'
      BY <1>u, <2>1, <2>2, <2>4, <2>9, <2>10, WorkerOneBatch
    <2>12. /\ NoCleanup => \A u \in Users : \A t : ~Brings(r, t, u)
           /\ \A u \in Users : ~Lists(r, u) /\ ~Between(work[w], u)
      BY <1>0, <2>1, <2>5 DEF Brings, Lists, Between
    <2>13. HasClient'
      BY <1>u, <2>1, <2>2, <2>4, <2>12, WorkerHasClient
    <2>14. \A u : Outdated(u)' = Outdated(u)
      BY <1>u DEF Outdated
    <2>15. IsAttached'
      BY <1>u, <2>1, <2>2, <2>4, <2>12, <2>14, WorkerAttached
    <2>16. ReadsFit'
      BY <1>u, <2>1, <2>2, WorkerReads DEF ReadFits
    <2> QED
      BY <2>6, <2>8, <2>11, <2>13, <2>15, <2>16 DEF ServedInv
  <1>2. CASE Become(w, [work[w] EXCEPT !.left = work[w].left \ {k}]) /\ UNCHANGED asyncVars
    <2> DEFINE r == [work[w] EXCEPT !.left = work[w].left \ {k}]
    <2>1. /\ r \in WorkerState /\ r.kind = work[w].kind /\ r.seen = work[w].seen
          /\ r.key = work[w].key /\ r.phase = "next" /\ r.list = work[w].list
      BY <1>0 DEF WorkerState
    <2> HIDE DEF r
    <2>2. NoneCreated /\ NoneDone
      BY <1>0, <1>2, TableEffects
    <2>3. \A t \in {"init", "sync"}, u \in Users : item'[t][u] = "succeeded" => Reported(t, u)
      BY <2>2, Names DEF NoneDone, Reported
    <2>4. Become(w, r)
      BY <1>2 DEF r
    <2> QED
      BY <1>0, <1>u, <1>q, <2>1, <2>2, <2>3, <2>4, LeaveServed
  <1> QED
    BY <1>1, <1>2, Zenon DEF ClaimNext, k

\* A worker stays with its user, for the call to come: it has read something, or the client of
\* the user is gone.
LEMMA StayServed ==
  ASSUME TasksInv, ServedInv, TableStep, UNCHANGED asyncVars,
         NEW w \in Workers, NEW r \in WorkerState, Become(w, r), ReadFits(r),
         work[w].phase \in {"user", "clear", "ticked"},
         r.phase \in {"clear", "ticked", "add", "attach"},
         r.kind = work[w].kind, r.key = work[w].key, r.seen = work[w].seen,
         work[w].phase = "ticked" /\ r.kind = "init" => r.phase = "add",
         \A u \in Users : panel'[u] = panel[u] \/ (panel'[u] = 0 /\ Between(r, u)),
         UNCHANGED <<Kept, queue, pasts, quiet>>
  PROVE  ServedInv'
  <1>u. UNCHANGED <<node, inbounds, lapsed, behind, due, request, faulty, doubled, queue>>
    BY DEF Kept, rows, admin, quiet, pasts
  <1>1. NoneCreated /\ NoneDone
    BY TableEffects, Names DEF TasksInv
  <1>2. \A t \in {"init", "sync"}, u \in Users : item'[t][u] = "succeeded" => Reported(t, u)
    BY <1>1, Names DEF NoneDone, Reported
  <1>3. NoCleanup => node.there /\ r.seen
    BY AtWorkSeen
  <1>4. Started'
    BY <1>u, <1>1, <1>3, WorkerStarted
  <1>5. SyncFits(work[w]) /\ (NoSyncJob(queue') \/ inbounds = 2)
    BY <1>u DEF ServedInv, ChangeFirst, NoSyncJob
  <1>6. SyncFits(r)
    BY <1>5 DEF SyncFits
  <1>7. ChangeFirst'
    BY <1>u, <1>1, <1>5, <1>6, WorkerChange
  <1>8. \A u \in Users : /\ InitOf(r, u) => InitOf(work[w], u)
                         /\ AtUser(r, u) => AtUser(work[w], u)
                         /\ Between(work[w], u) => Between(r, u)
                         /\ ~Lists(r, u) /\ \A t : ~Brings(r, t, u)
    BY DEF InitOf, AtUser, Between, Lists, Brings
  <1>9. OneBatch'
    BY <1>u, <1>2, <1>8, WorkerOneBatch
  <1>10. HasClient'
    BY <1>u, <1>2, <1>8, WorkerHasClient
  <1>11. \A u \in Users : Outdated(u)' => Outdated(u)
    BY <1>u DEF Outdated
  <1>12. IsAttached'
    BY <1>u, <1>2, <1>8, <1>11, WorkerAttached
  <1>13. ReadsFit'
    BY <1>u, WorkerReads
  <1> QED
    BY <1>4, <1>7, <1>9, <1>10, <1>12, <1>13 DEF ServedInv

\* The first call of init: its client is gone, and the worker at its user.
LEMMA ClearServed ==
  ASSUME TasksInv, ServedInv, CleanInv, TableStep, NEW w \in Workers, ClearClient(w)
  PROVE  ServedInv'
  <1> DEFINE r == [work[w] EXCEPT !.phase = "ticked"]
  <1>0. /\ work[w] \in WorkerState /\ work[w].phase = "clear"
        /\ UNCHANGED <<asyncVars, Kept, queue, pasts, quiet>> /\ Become(w, r)
        /\ panel' = [panel EXCEPT ![work[w].key] = 0]
        /\ panel \in [Users -> {0} \cup Inbounds]
    BY WorkerNames DEF TasksInv, ClearClient, At, NodeTasksTypeOK
  <1>1. /\ r \in WorkerState /\ r.kind = work[w].kind /\ r.seen = work[w].seen
        /\ r.key = work[w].key /\ r.phase = "ticked" /\ r.usable = work[w].usable
    BY <1>0 DEF WorkerState, Phases
  <1> HIDE DEF r
  <1>2. work[w].kind = "init"
    BY <1>0 DEF CleanInv, Fits
  <1>3. ReadFits(r)
    BY <1>0, <1>1 DEF ServedInv, ReadsFit, ReadFits
  <1>4. \A u \in Users : panel'[u] = panel[u] \/ (panel'[u] = 0 /\ Between(r, u))
    BY <1>0, <1>1, <1>2 DEF Between, InitOf
  <1> QED
    BY <1>0, <1>1, <1>3, <1>4, StayServed

\* The reads: the row of the user, and the inbounds of the node.
LEMMA ReadsServed ==
  ASSUME TasksInv, ServedInv, CleanInv, TableStep, NEW w \in Workers,
         ReadUser(w) \/ ReadInbounds(w)
  PROVE  ServedInv'
  <1>0. /\ work[w] \in WorkerState /\ inbounds \in Inbounds /\ work[w].phase \in {"user", "ticked"}
        /\ UNCHANGED <<asyncVars, Kept, panel, queue, pasts, quiet>>
    BY WorkerNames DEF TasksInv, NodeTasksTypeOK, ReadUser, ReadInbounds, At
  <1>k. UNCHANGED <<inbounds, lapsed, behind, doubled, faulty>>
    BY <1>0 DEF Kept, rows, pasts, quiet
  \* A user without a plan is not served.
  <1>1. ASSUME Settle(w, TRUE), work[w].key \in lapsed PROVE ServedInv'
    <2>1. \A u : Outdated(u)' = Outdated(u)
      BY <1>0, <1>k DEF Outdated
    <2> QED
      BY <1>0, <1>1, <1>k, <2>1, SettleServed
  <1>2. CASE ReadUser(w)
    <2> DEFINE b == work[w].key \notin lapsed
               r == [work[w] EXCEPT !.phase = "clear", !.usable = b]
               o == [work[w] EXCEPT !.phase = "ticked", !.usable = TRUE]
    <2>1. /\ r \in WorkerState /\ r.kind = work[w].kind /\ r.seen = work[w].seen
          /\ r.key = work[w].key /\ r.phase = "clear" /\ (r.usable <=> work[w].key \notin lapsed)
      BY <1>0 DEF WorkerState, Phases
    <2>2. /\ o \in WorkerState /\ o.kind = work[w].kind /\ o.seen = work[w].seen
          /\ o.key = work[w].key /\ o.phase = "ticked" /\ o.usable = TRUE
      BY <1>0 DEF WorkerState, Phases
    <2>3. /\ work[w].phase = "user"
          /\ \/ Become(w, r)
             \/ Become(w, o)
             \/ Settle(w, TRUE) /\ work[w].key \in lapsed
      BY <1>2, Zenon DEF ReadUser, At
    <2> HIDE DEF r, o
    <2>4. CASE Become(w, r)
      <3>1. ReadFits(r)
        BY <2>1 DEF ReadFits
      <3> QED
        BY <1>0, <2>1, <2>3, <2>4, <3>1, StayServed
    <2>5. CASE Become(w, o)
      <3>1. ReadFits(o)
        BY <2>2 DEF ReadFits
      <3> QED
        BY <1>0, <2>2, <2>3, <2>5, <3>1, StayServed
    <2> QED
      BY <1>1, <2>3, <2>4, <2>5
  <1>3. CASE ReadInbounds(w)
    <2> DEFINE p == IF work[w].kind = "init" THEN "add" ELSE "attach"
               r == [work[w] EXCEPT !.ids = inbounds, !.phase = p]
    <2>1. /\ r \in WorkerState /\ r.kind = work[w].kind /\ r.seen = work[w].seen
          /\ r.key = work[w].key /\ r.phase = p /\ r.ids = inbounds
      BY <1>0 DEF WorkerState, Phases
    <2>2. /\ work[w].phase = "ticked"
          /\ Become(w, r) \/ (Settle(w, TRUE) /\ ~work[w].usable)
      BY <1>3, Zenon DEF ReadInbounds, At
    <2> HIDE DEF r
    <2>3. ~work[w].usable => work[w].key \in lapsed
      BY <2>2 DEF ServedInv, ReadsFit, ReadFits
    <2>4. CASE Become(w, r)
      <3>1. work[w].kind # "init" => inbounds = 2
        <4>1. work[w].kind \in Kinds /\ work[w].kind # "cleanup"
          BY <1>0, <2>2 DEF WorkerState, CleanInv, Fits
        <4>2. SyncFits(work[w])
          BY DEF ServedInv, ChangeFirst
        <4> QED
          BY <2>2, <4>1, <4>2 DEF SyncFits, OfSync, Kinds
      <3>2. ReadFits(r)
        BY <1>0, <2>1, <3>1 DEF ReadFits, Inbounds
      <3> QED
        BY <1>0, <2>1, <2>2, <2>4, <3>2, StayServed
    <2> QED
      BY <1>1, <2>2, <2>3, <2>4
  <1> QED
    BY <1>2, <1>3

\* What the panel grants: the client has inbounds, and old ones only if its user is behind.
LEMMA CallEffects ==
  ASSUME TasksInv, ServedInv, NEW w \in Workers, CallGranted(w), PutClient(w), inbounds' = inbounds
  PROVE  /\ \A u \in Users : /\ panel[u] # 0 => panel'[u] # 0
                             /\ u = work[w].key => panel'[u] # 0
         /\ \A u \in Users \ behind : /\ Outdated(u)' => Outdated(u)
                                      /\ u = work[w].key => ~Outdated(u)'
  <1>1. /\ panel \in [Users -> {0, 1, 2}] /\ work[w].ids \in {0, 1, 2} /\ inbounds \in {1, 2}
        /\ work[w].phase \in {"add", "attach"}
    BY DEF TasksInv, NodeTasksTypeOK, WorkerState, Inbounds, CallGranted, At
  <1>2. ReadFits(work[w])
    BY DEF ServedInv, ReadsFit
  <1>3. \A u \in Users : panel'[u] = IF u = work[w].key /\ panel[u] < work[w].ids THEN work[w].ids
                                     ELSE panel[u]
    BY <1>1 DEF PutClient
  <1>4. ASSUME NEW u \in Users
        PROVE  (panel[u] # 0 => panel'[u] # 0) /\ (u = work[w].key => panel'[u] # 0)
    <2>1. panel[u] \in {0, 1, 2} /\ work[w].ids \in {1, 2}
      BY <1>1, <1>2 DEF ReadFits
    <2> QED
      BY <1>3, <2>1
  <1>5. ASSUME NEW u \in Users \ behind
        PROVE  (Outdated(u)' => Outdated(u)) /\ (u = work[w].key => ~Outdated(u)')
    <2>1. CASE u # work[w].key
      BY <1>3, <2>1 DEF Outdated
    <2>2. CASE u = work[w].key
      <3>1. inbounds = 2 => work[w].ids = 2
        BY <1>1, <1>2, <2>2 DEF ReadFits
      <3>2. panel[u] \in {0, 1, 2}
        BY <1>1
      <3> QED
        BY <1>3, <2>2, <3>1, <3>2 DEF Outdated
    <2> QED
      BY <2>1, <2>2
  <1> QED
    BY <1>4, <1>5

\* The calls that end with an outcome.
LEMMA CallsServed ==
  ASSUME TasksInv, ServedInv, CleanInv, TableStep, NEW w \in Workers,
         AddClient(w) \/ AttachClient(w) \/ Clean(w) \/ CallFails(w)
  PROVE  ServedInv'
  <1> DEFINE u0 == work[w].key
  <1>k. UNCHANGED Kept => UNCHANGED <<inbounds, lapsed>>
    BY DEF Kept, rows
  <1>1. CASE AddClient(w) \/ AttachClient(w)
    <2>1. /\ UNCHANGED <<asyncVars, Kept, queue, pasts, quiet>> /\ work[w].phase \in {"add", "attach"}
          /\ CallGranted(w) \in BOOLEAN /\ Settle(w, CallGranted(w))
          /\ IF CallGranted(w) THEN PutClient(w) ELSE UNCHANGED panel
      <3>1. CallGranted(w) \in BOOLEAN
        BY Zenon DEF CallGranted, At
      <3> QED
        BY <1>1, <3>1, Zenon DEF AddClient, AttachClient, At
    <2>u. UNCHANGED <<doubled, behind, faulty>>
      BY <2>1 DEF pasts, quiet
    <2>2. CASE CallGranted(w)
      <3>1. Settle(w, TRUE) /\ PutClient(w)
        BY <2>1, <2>2
      <3>2. /\ \A u \in Users : /\ panel[u] # 0 => panel'[u] # 0
                                /\ u = work[w].key => panel'[u] # 0
            /\ \A u \in Users \ behind : /\ Outdated(u)' => Outdated(u)
                                         /\ u = work[w].key => ~Outdated(u)'
        BY <1>k, <2>1, <2>2, <3>1, CallEffects
      <3> QED
        BY <1>k, <2>1, <2>2, <2>u, <3>1, <3>2, SettleServed
    <2>3. CASE ~CallGranted(w)
      <3>1. Settle(w, FALSE) /\ UNCHANGED panel
        BY <2>1, <2>3
      <3>2. work[w].phase = "add" => panel[u0] # 0
        BY <2>3 DEF CallGranted, At
      <3>3. \A u : Outdated(u)' = Outdated(u)
        BY <1>k, <2>1, <3>1 DEF Outdated
      <3> QED
        BY <2>1, <2>u, <3>1, <3>2, <3>3, SettleServed
    <2> QED
      BY <2>2, <2>3
  <1>2. CASE Clean(w)
    <2>1. /\ UNCHANGED <<asyncVars, Kept, queue, doubled, behind, quiet>> /\ work[w].phase = "clean"
          /\ Settle(w, TRUE)
      BY <1>2 DEF Clean, At
    <2>2. ~NoCleanup
      BY <2>1 DEF ServedInv, ChangeFirst, SyncFits, CleanInv, Fits, NoCleanup
    <2> QED
      BY <2>1, <2>2, SettleServed DEF quiet
  <1>3. CASE CallFails(w)
    <2>1. /\ UNCHANGED <<asyncVars, Kept, queue, pasts>> /\ faulty' = TRUE /\ Settle(w, FALSE)
          /\ work[w].phase \in {"user", "ticked", "clear", "add", "attach", "clean"}
          /\ \/ UNCHANGED panel
             \/ work[w].phase = "clear" /\ panel' = [panel EXCEPT ![u0] = 0]
             \/ CallGranted(w) /\ PutClient(w)
             \/ work[w].phase = "clean"
      BY <1>3 DEF CallFails, At, Fault
    <2>2. work[w].phase = "clean" => ~NoCleanup
      BY DEF ServedInv, ChangeFirst, SyncFits, CleanInv, Fits, NoCleanup
    <2>3. panel \in [Users -> {0} \cup Inbounds]
      BY DEF TasksInv, NodeTasksTypeOK
    <2>4. ASSUME NoCleanup
          PROVE  /\ \A u \in Users \ lapsed :
                      panel[u] # 0 => panel'[u] # 0 \/ (u = u0 /\ work[w].phase = "clear")
                 /\ \A u \in Users \ (lapsed \cup behind) : Outdated(u)' => Outdated(u)
      <3>1. CASE UNCHANGED panel
        BY <1>k, <2>1, <3>1 DEF Outdated
      <3>2. CASE work[w].phase = "clear" /\ panel' = [panel EXCEPT ![u0] = 0]
        BY <1>k, <2>1, <2>3, <3>2 DEF Outdated
      <3>3. CASE CallGranted(w) /\ PutClient(w)
        <4>1. inbounds' = inbounds
          BY <1>k, <2>1
        <4> QED
          BY <3>3, <4>1, CallEffects
      <3> QED
        BY <2>1, <2>2, <2>4, <3>1, <3>2, <3>3
    <2> QED
      BY <2>1, <2>4, SettleServed DEF pasts
  <1> QED
    BY <1>1, <1>2, <1>3

\* A report: what it brings was brought already.
LEMMA VerdictServed ==
  ASSUME TasksInv, ServedInv, CleanInv, TableStep, NEW w \in Workers, Verdict(w)
  PROVE  ServedInv'
  <1> DEFINE r == [work[w] EXCEPT !.phase = "next", !.left = work[w].left \ {work[w].key},
                                  !.key = NodeKey, !.ok = FALSE]
             t == Current(w)
             k == work[w].key
  <1>0. /\ NodeTasksTypeOK /\ AsyncInv /\ work[w] \in WorkerState /\ work[w].phase = "verdict"
        /\ t \in Tasks /\ k \in Keys
        /\ UNCHANGED <<Kept, panel, queue, pasts, quiet>>
    BY WorkerNames DEF TasksInv, Verdict, At
  <1>1. Become(w, r) /\ r \in WorkerState
    BY <1>0, SettleFacts DEF Verdict, Onward
  <1>2. /\ r.phase = "next" /\ r.kind = work[w].kind /\ r.seen = work[w].seen /\ r.key = NodeKey
        /\ r.list = work[w].list
    BY <1>0 DEF WorkerState
  <1>3. \/ UNCHANGED asyncVars \/ FinishItem(t, k, "failed")
        \/ FinishItem(t, k, "succeeded") /\ work[w].ok
    BY DEF Verdict
  <1>4. \A u \in Users : work[w].ok /\ k = u => Brings(work[w], t, u)
    BY <1>0 DEF Brings, Current
  <1> HIDE DEF r, t, k
  <1>5. NoneCreated /\ (NoneDone \/ (work[w].ok /\ DoneAt(t, k)))
    BY <1>0, <1>3, TableEffects
  <1>6. \A c \in {"init", "sync"}, u \in Users : item'[c][u] = "succeeded" => Reported(c, u)
    BY <1>4, <1>5, Names DEF NoneDone, DoneAt, Reported
  <1>u. UNCHANGED <<node, inbounds, lapsed, behind, due, request, faulty, doubled, queue, panel>>
    BY <1>0 DEF Kept, rows, admin, quiet, pasts
  <1>q. NoSyncJob(queue') \/ inbounds = 2
    BY <1>u DEF ServedInv, ChangeFirst, NoSyncJob
  <1> QED
    BY <1>0, <1>1, <1>2, <1>5, <1>6, <1>u, <1>q, LeaveServed

\* The ends of jobs, and the steps whose verdict is lost.
LEMMA EndsServed ==
  ASSUME TasksInv, ServedInv, CleanInv, TableStep, NEW w \in Workers,
         \/ EndBatch(w) \/ SendBatches(w) \/ ScanFails(w) \/ Expire(w)
         \/ Refused(w) \/ (Scan(w) /\ ~work[w].seen)
  PROVE  ServedInv'
  <1>0. /\ NodeTasksTypeOK /\ AsyncInv /\ work[w] \in WorkerState /\ queue \in Seq(Job)
        /\ node \in [there : BOOLEAN, enabled : BOOLEAN]
        /\ "sync" \in Tasks /\ "cleanup" \in Tasks /\ NodeKey \in Keys /\ work[w].phase # "free"
    BY WorkerNames, Names
       DEF TasksInv, NodeTasksTypeOK, EndBatch, SendBatches, ScanFails, Expire, Refused, Scan, At
  <1>f. Free \in WorkerState /\ Free.phase = "free" /\ Free.key = NodeKey
    BY FreeIsState DEF Free
  <1>1. NoneCreated /\ NoneDone
    BY <1>0, TableEffects, Zenon DEF EndBatch, SendBatches, ScanFails, Expire, Refused, Scan
  <1>2. \A c \in {"init", "sync"}, u \in Users : item'[c][u] = "succeeded" => Reported(c, u)
    BY <1>1, Names DEF NoneDone, Reported
  <1>3. node'.there = node.there
    BY <1>0 DEF EndBatch, SendBatches, ScanFails, Expire, Refused, Scan, FinalizeInitTask, Kept, rows
  <1>u. /\ UNCHANGED <<inbounds, lapsed, behind, due, request, doubled, panel>>
        /\ (faulty => faulty')
        /\ work[w].phase \in {"ticked", "add"} => faulty'
    BY DEF EndBatch, SendBatches, ScanFails, Expire, Refused, Scan, Kept, rows, admin, quiet, pasts,
           Fault, At
  <1>q. NoSyncJob(queue') \/ inbounds = 2
    <2>1. CASE SendBatches(w)
      BY <2>1 DEF ServedInv, ChangeFirst, SyncFits, OfSync, SendBatches, At
    <2>2. CASE UNCHANGED queue
      BY <2>2 DEF ServedInv, ChangeFirst, NoSyncJob
    <2> QED
      BY <2>1, <2>2 DEF EndBatch, ScanFails, Expire, Refused, Scan
  <1>4. CASE Become(w, Free)
    BY <1>0, <1>f, <1>1, <1>2, <1>3, <1>4, <1>u, <1>q, LeaveServed
  <1>5. CASE Refused(w)
    <2> DEFINE r == [work[w] EXCEPT !.left = work[w].left \ {First(work[w].left)}]
               o == [work[w] EXCEPT !.phase = "next", !.left = work[w].left \ {work[w].key},
                                    !.key = NodeKey, !.ok = FALSE]
    <2>1. /\ r \in WorkerState /\ r.phase = work[w].phase /\ r.kind = work[w].kind
          /\ r.seen = work[w].seen /\ r.key = work[w].key /\ r.list = work[w].list
      BY <1>0 DEF WorkerState
    <2>2. /\ o \in WorkerState /\ o.phase = "next" /\ o.kind = work[w].kind
          /\ o.seen = work[w].seen /\ o.key = NodeKey /\ o.list = work[w].list
      BY <1>0, SettleFacts DEF WorkerState
    <2>3. (work[w].phase = "next" /\ Become(w, r)) \/ Become(w, o)
      BY <1>5, Zenon DEF Refused, Onward, At
    <2> HIDE DEF r, o
    <2>4. CASE work[w].phase = "next" /\ Become(w, r)
      BY <1>0, <1>1, <1>2, <1>3, <1>u, <1>q, <2>1, <2>4, LeaveServed
    <2>5. CASE Become(w, o)
      BY <1>0, <1>1, <1>2, <1>3, <1>u, <1>q, <2>2, <2>5, LeaveServed
    <2> QED
      BY <2>3, <2>4, <2>5
  <1> QED
    BY <1>4, <1>5 DEF EndBatch, SendBatches, ScanFails, Expire, Scan

\* A handler that returns an error: the job comes back, or is given up.
LEMMA HandlerServed ==
  ASSUME TasksInv, ServedInv, TableStep, NEW w \in Workers, HandlerFails(w)
  PROVE  ServedInv'
  <1>0. /\ UNCHANGED <<asyncVars, Kept, panel, pasts>> /\ faulty' = TRUE /\ Become(w, Free)
        /\ work[w].phase \in {"free", "pending", "compare"} /\ queue \in Seq(Job)
    BY DEF HandlerFails, Fault, At, TasksInv, NodeTasksTypeOK
  <1>f. Free \in WorkerState /\ Free.phase = "free" /\ Free.key = NodeKey
    BY FreeIsState DEF Free
  <1>1. NoneCreated /\ NoneDone
    BY <1>0, TableEffects, Names DEF TasksInv
  <1>2. \A c \in {"init", "sync"}, u \in Users : item'[c][u] = "succeeded" => Reported(c, u)
    BY <1>1, Names DEF NoneDone, Reported
  <1>u. UNCHANGED <<node, inbounds, lapsed, behind, due, request, doubled, panel>>
    BY <1>0 DEF Kept, rows, admin, pasts
  <1>3. work[w].phase # "free" \/ queue # <<>>
    BY <1>0, Requeued DEF At
  <1>4. NoSyncJob(queue') \/ inbounds = 2
    <2> SUFFICES ASSUME inbounds # 2 PROVE NoSyncJob(queue')
      OBVIOUS
    <2>1. NoSyncJob(queue) /\ SyncFits(work[w])
      BY DEF ServedInv, ChangeFirst
    <2>2. ~At(w, "pending") /\ ~At(w, "compare")
      BY <2>1 DEF SyncFits, OfSync, At
    <2>3. \A i \in 1 .. Len(queue') : \E j \in 1 .. Len(queue) : queue'[i] = queue[j]
      BY <1>0, <2>2, Requeued
    <2> QED
      BY <2>1, <2>3 DEF NoSyncJob
  <1>5. SyncFits(Free) /\ \A u : ~Lists(Free, u)
    BY <1>f DEF SyncFits, Lists
  <1> QED
    BY <1>0, <1>f, <1>1, <1>2, <1>u, <1>3, <1>4, <1>5, OnwardServed

\* What a scan lists is what is there; a client it lists as attached is attached still,
\* since nobody puts one back on the old inbounds only.
LEMMA ScanServed ==
  ASSUME TasksInv, ServedInv, CleanInv, TableStep, NEW w \in Workers,
         (Scan(w) /\ work[w].seen) \/ ReadPending(w) \/ Compare(w)
  PROVE  ServedInv'
  <1>0. /\ NodeTasksTypeOK /\ AsyncInv /\ work[w] \in WorkerState
        /\ UNCHANGED <<Kept, panel, queue, pasts, quiet>>
        /\ work[w].phase \in {"scan", "pending", "compare"} /\ "sync" \in Tasks
    BY WorkerNames, Names DEF TasksInv, Scan, ReadPending, Compare, At
  <1>u. UNCHANGED <<node, inbounds, lapsed, behind, due, request, faulty, doubled, queue, panel>>
    BY <1>0 DEF Kept, rows, admin, quiet, pasts
  <1>q. (NoSyncJob(queue') \/ inbounds = 2) /\ SyncFits(work[w])
    BY <1>u DEF ServedInv, ChangeFirst, NoSyncJob
  <1>i. work[w].kind = "scan" /\ inbounds = 2
    BY <1>0, <1>q DEF SyncFits, OfSync
  <1>1. CASE Scan(w) /\ work[w].seen
    <2> DEFINE r == [work[w] EXCEPT !.phase = "pending", !.list = panel]
    <2>1. /\ r \in WorkerState /\ r.phase = "pending" /\ r.kind = work[w].kind
          /\ r.seen = work[w].seen /\ r.key = work[w].key /\ r.list = panel
      BY <1>0 DEF WorkerState, Phases, NodeTasksTypeOK
    <2>2. Become(w, r) /\ UNCHANGED asyncVars
      BY <1>1 DEF Scan
    <2> HIDE DEF r
    <2>3. NoneCreated /\ NoneDone
      BY <1>0, <2>2, TableEffects
    <2>4. \A c \in {"init", "sync"}, u \in Users : item'[c][u] = "succeeded" => Reported(c, u)
      BY <2>3, Names DEF NoneDone, Reported
    <2>5. \A u : Lists(r, u) => ~Outdated(u)
      BY <2>1 DEF Lists, Outdated
    <2>6. SyncFits(r)
      BY <1>i, <2>1 DEF SyncFits
    <2>7. NoCleanup => r.seen
      BY <1>1, <2>1
    <2> QED
      BY <1>0, <1>u, <1>q, <2>1, <2>2, <2>3, <2>4, <2>5, <2>6, <2>7, OnwardServed
  <1>2. CASE Compare(w)
    <2> DEFINE k == First(work[w].left)
               rest == [work[w] EXCEPT !.left = work[w].left \ {k}]
               more == [rest EXCEPT !.need = rest.need \cup {k}]
    <2>0. k \in Keys /\ work[w].phase = "compare"
      BY <1>0, <1>2, WorkerNames DEF Compare, At
    <2>1. /\ rest \in WorkerState /\ rest.phase = work[w].phase /\ rest.kind = work[w].kind
          /\ rest.seen = work[w].seen /\ rest.key = work[w].key /\ rest.list = work[w].list
      BY <1>0 DEF WorkerState
    <2>2. /\ more \in WorkerState /\ more.phase = work[w].phase /\ more.kind = work[w].kind
          /\ more.seen = work[w].seen /\ more.key = work[w].key /\ more.list = work[w].list
      <3> HIDE DEF rest, k
      <3> QED
        BY <2>0, <2>1 DEF WorkerState
    <2>3. PICK r \in {rest, more} : Become(w, r)
      BY <1>2, Zenon DEF Compare
    <2>4. UNCHANGED asyncVars \/ (AttachedIn(w, k) /\ FinishItem("sync", k, "succeeded"))
      BY <1>2, Zenon DEF Compare
    <2> HIDE DEF rest, more, k
    <2>5. /\ r \in WorkerState /\ r.phase = "compare" /\ r.kind = work[w].kind
          /\ r.seen = work[w].seen /\ r.key = work[w].key /\ r.list = work[w].list
      BY <2>0, <2>1, <2>2, <2>3
    <2>6. NoneCreated /\ (NoneDone \/ (AttachedIn(w, k) /\ DoneAt("sync", k)))
      BY <1>0, <2>0, <2>4, TableEffects
    <2>7. \A u \in Users : item'["init"][u] = "succeeded" => Reported("init", u)
      BY <2>6, Names DEF NoneDone, DoneAt, Reported
    <2>8. ASSUME NoCleanup, NEW u \in Users \ (lapsed \cup behind), item'["sync"][u] = "succeeded"
          PROVE  Reported("sync", u) \/ ~Outdated(u)
      <3>1. CASE item["sync"][u] = "succeeded"
        BY <3>1 DEF Reported
      <3>2. CASE AttachedIn(w, k) /\ k = u
        <4>1. work[w].list[u] # 1
          BY <1>i, <2>8, <3>2 DEF AttachedIn
        <4>2. Listed(u)
          BY <2>0, <4>1 DEF Listed, Lists
        <4> QED
          BY <2>8, <4>2 DEF ServedInv, IsAttached
      <3> QED
        BY <2>6, <2>8, <3>1, <3>2, Names DEF NoneDone, DoneAt
    <2>9. NoneCreated /\ Become(w, r) /\ (NoSyncJob(queue') \/ inbounds = 2)
      BY <2>3, <2>6, <1>q
    <2>10. \A u \in Users \ (lapsed \cup behind) : NoCleanup =>
             (item'["sync"][u] = "succeeded" => Reported("sync", u) \/ ~Outdated(u))
      BY <2>8
    <2>11. /\ work[w].phase # "free"
           /\ r.phase \notin {"user", "ticked", "clear", "add", "attach", "verdict"}
           /\ r.phase = work[w].phase /\ ~(work[w].phase \in {"ticked", "add"})
      BY <2>0, <2>5
    <2>12. /\ faulty => faulty'
           /\ doubled => doubled'
           /\ node'.there = node.there
           /\ UNCHANGED <<inbounds, lapsed, behind, due, request, panel>>
      BY <1>u
    <2> QED
      BY <2>5, <2>7, <2>9, <2>10, <2>11, <2>12, LeaveServed
  <1>3. CASE ReadPending(w)
    <2> DEFINE r == [work[w] EXCEPT !.phase = "compare", !.left = KeysIn(item["sync"], {"pending"})]
    <2>1. /\ r \in WorkerState /\ r.phase = "compare" /\ r.kind = work[w].kind
          /\ r.seen = work[w].seen /\ r.key = work[w].key /\ r.list = work[w].list
      BY <1>0 DEF WorkerState, Phases, KeysIn
    <2>2. Become(w, r) /\ UNCHANGED asyncVars /\ work[w].phase = "pending"
      BY <1>3 DEF ReadPending, At
    <2> HIDE DEF r
    <2>3. NoneCreated /\ NoneDone
      BY <1>0, <2>2, TableEffects
    <2>4. \A c \in {"init", "sync"}, u \in Users : item'[c][u] = "succeeded" => Reported(c, u)
      BY <2>3, Names DEF NoneDone, Reported
    <2>5. \A u : Lists(r, u) => Lists(work[w], u)
      BY <2>1, <2>2 DEF Lists
    <2>6. SyncFits(r)
      BY <1>i, <2>1 DEF SyncFits
    <2>7. NoCleanup => r.seen
      BY <2>1, <2>2, AtWorkSeen
    <2> QED
      BY <1>0, <1>u, <1>q, <2>1, <2>2, <2>3, <2>4, <2>5, <2>6, <2>7, OnwardServed
  <1> QED
    BY <1>1, <1>2, <1>3

\* The steps of the workers keep the invariant.
LEMMA WorkerStepsServed ==
  ASSUME TasksInv, ServedInv, CleanInv, TableStep, NEW w \in Workers,
         WorkerStep(w) \/ WorkerFails(w)
  PROVE  ServedInv'
  BY TakeServed, ClaimServed, ReadsServed, ClearServed, CallsServed, VerdictServed, EndsServed,
     HandlerServed, ScanServed, Zenon DEF WorkerStep, WorkerFails

\* So does every step.
LEMMA StepServedInv ==
  TasksInv /\ CleanInv /\ ServedInv /\ [NodeTasksNext]_vars => ServedInv'
  <1> SUFFICES ASSUME TasksInv, CleanInv, ServedInv, [NodeTasksNext]_vars PROVE ServedInv'
    OBVIOUS
  <1>1. TableStep
    BY StepTasksInv
  <1>2. CASE NodeTasksNext
    <2>1. \/ RequestStep \/ NewRequest
          \/ \E t \in Tasks : RetryTask(t) \/ Sweep(t)
          \/ \E u \in Users : Lapse(u)
          \/ Restart
          \/ \E w \in Workers : WorkerStep(w) \/ WorkerFails(w)
      BY <1>2, Zenon DEF NodeTasksNext
    <2> QED
      BY <1>1, <2>1, OutsideStepsServed, WorkerStepsServed
  <1>3. CASE UNCHANGED vars
    <2>1. UNCHANGED <<asyncVars, node, inbounds, panel, lapsed, due, queue, work, request, doubled, behind, faulty>>
      BY <1>3 DEF vars, rows, admin, pasts
    <2>2. NoneDone /\ NoneCreated
      BY <2>1 DEF asyncVars, NoneDone, NoneCreated
    <2>3. ReadsFit' /\ OneBatch' /\ HasClient' /\ IsAttached'
      BY <1>1, <2>1, <2>2, OutsideServed
    <2>4. Started'
      BY <2>1 DEF ServedInv, Started, NoCleanup, asyncVars
    <2>5. ChangeFirst'
      BY <2>1 DEF ServedInv, ChangeFirst, NoSyncJob, SyncFits, asyncVars
    <2> QED
      BY <2>3, <2>4, <2>5 DEF ServedInv
  <1> QED
    BY <1>2, <1>3

\* What the task page calls done is done on the panel: for any users, workers, batches,
\* retries, sweeps, lapsed plans and faults, a user whose item of init succeeded has a client,
\* unless a batch is at work on him or a failure has met two batches at one user; and one whose
\* item of sync succeeded is attached to every inbound, unless he is behind: the inbounds
\* changed between the read and the call of a batch that created his client (nodejobs.go).
THEOREM SuccessIsServed == NodeTasksSpec => []SuccessMeansServed
  BY ServedInit, StepServedInv, ServedEnough, InitTasksInv, StepTasksInv, CleanInvariant, PTL
     DEF NodeTasksSpec

-----------------------------------------------------------------------------
(* The wish of the administrator.                                                            *)

\* The wish under way and that of the task are his last, and an init task that is open has
\* items unless the request that closes it is still to come.
HasItems == \E k \in Keys : item["init"][k] # "absent"
WishInv ==
  /\ request.step \in {"init", "switch"} => request.on = asked
  /\ (routed /\ ~faulty /\ task["init"].status # "absent" /\ request.step # "switch")
       => wish = asked
  /\ (~faulty /\ task["init"].status \in Active) => request.step = "empty" \/ HasItems
  /\ LastWish

\* Init gets a new status, and new items, from its own transactions only; none takes an item
\* away, and none but a verdict on it makes it a success.
LEMMA InitEffects ==
  ASSUME AsyncInv, AsyncInv', NEW t \in Tasks
  PROVE  /\ \A k \in Keys, s \in Terminal :
              FinishItem(t, k, s) =>
                /\ HasItems => HasItems'
                /\ task'["init"].status \in Active => task["init"].status \in Active
                /\ task'["init"].status # "absent" => task["init"].status # "absent"
                /\ t # "init" => task'["init"] = task["init"]
         /\ \A k \in Keys : ClaimItem(t, k) =>
              /\ HasItems => HasItems'
              /\ task'["init"].status \in Active => task["init"].status \in Active
              /\ task'["init"].status # "absent" => task["init"].status # "absent"
              /\ task'["init"].status = "succeeded" => task["init"].status = "succeeded"
         /\ FailPendingItems(t) =>
              /\ HasItems => HasItems'
              /\ task'["init"].status \in Active => task["init"].status \in Active
              /\ task'["init"].status # "absent" => task["init"].status # "absent"
              /\ task'["init"].status = "succeeded" =>
                   task["init"].status = "succeeded" \/ (task["init"].status \in Active /\ ~HasItems)
         /\ Retry(t) =>
              /\ HasItems => HasItems'
              /\ task'["init"].status \in Active => task["init"].status \in Active \/ HasItems
              /\ task'["init"].status # "absent" => task["init"].status # "absent"
              /\ task'["init"].status = "succeeded" => task["init"].status = "succeeded"
         /\ \A ks \in SUBSET Keys : Create(t, ks) /\ t # "init" =>
              /\ HasItems => HasItems'
              /\ task'["init"] = task["init"]
         /\ UNCHANGED asyncVars => (HasItems' <=> HasItems) /\ task'["init"] = task["init"]
  <1>0. /\ item \in [Tasks -> [Keys -> Statuses]] /\ task \in [Tasks -> TaskRow]
        /\ "init" \in Tasks
    BY Names DEF AsyncInv, AsyncTypeOK
  <1>1. {"pending", "running", "failed", "succeeded"} \subseteq Statuses \ {"absent"}
    BY DEF Statuses, Active, Terminal
  <1>2. ASSUME NEW ks, NEW s \in Statuses \ {"absent"}, SetItems(t, ks, s)
        PROVE  HasItems => HasItems'
    BY <1>0, <1>2, SetItemsFacts DEF HasItems
  <1>3. ASSUME NEW row, task' = [task EXCEPT ![t] = row]
        PROVE  /\ t # "init" => task'["init"] = task["init"]
               /\ t = "init" => task'["init"] = row
    BY <1>0, <1>3
  <1>4. Terminal \subseteq Statuses \ {"absent"} /\ Active \cap Terminal = {}
    BY DEF Statuses, Active, Terminal
  <1>5. task["init"].status \in Statuses /\ task'["init"].status \in Statuses
    BY <1>0 DEF AsyncInv, AsyncTypeOK, TaskRow
  <1>a. \A its : Aggregated(task[t], its).status \in {task[t].status} \cup Terminal
    BY <1>0, AggregatedSettles DEF Settles, Terminal
  <1>6. ASSUME task[t].status # "absent", NEW its, task' = [task EXCEPT ![t] = Aggregated(task[t], its)]
        PROVE  /\ task'["init"].status \in Active => task["init"].status \in Active
               /\ task'["init"].status # "absent" => task["init"].status # "absent"
    <2>1. CASE t = "init"
      BY <1>3, <1>4, <1>6, <1>a, <2>1
    <2>2. CASE t # "init"
      BY <1>3, <1>6, <2>2
    <2> QED
      BY <2>1, <2>2
  <1>7. \A k \in Keys : item[t][k] # "absent" => task[t].status # "absent"
    BY DEF AsyncInv, AbsentIsEmpty
  <1>8. ASSUME NEW k \in Keys, NEW s \in Terminal, FinishItem(t, k, s)
        PROVE  /\ HasItems => HasItems'
               /\ task'["init"].status \in Active => task["init"].status \in Active
               /\ task'["init"].status # "absent" => task["init"].status # "absent"
               /\ t # "init" => task'["init"] = task["init"]
    BY <1>8, <1>2, <1>3, <1>4, <1>6, <1>7 DEF FinishItem
  <1>9. ASSUME NEW k \in Keys, ClaimItem(t, k)
        PROVE  /\ HasItems => HasItems'
               /\ task'["init"].status \in Active => task["init"].status \in Active
               /\ task'["init"].status # "absent" => task["init"].status # "absent"
               /\ task'["init"].status = "succeeded" => task["init"].status = "succeeded"
    <2>1. HasItems => HasItems'
      BY <1>9, <1>1, <1>2 DEF ClaimItem
    <2>2. \/ UNCHANGED task
          \/ /\ task[t].status = "pending"
             /\ task' = [task EXCEPT ![t].status = "running", ![t].attempts = @ + 1]
      BY <1>9 DEF ClaimItem
    <2>3. task'["init"].status = task["init"].status
          \/ (task["init"].status = "pending" /\ task'["init"].status = "running")
      BY <1>0, <2>2 DEF TaskRow
    <2> QED
      BY <2>1, <2>3 DEF Active
  <1>10. ASSUME FailPendingItems(t)
         PROVE  /\ HasItems => HasItems'
                /\ task'["init"].status \in Active => task["init"].status \in Active
                /\ task'["init"].status # "absent" => task["init"].status # "absent"
                /\ task'["init"].status = "succeeded" =>
                     task["init"].status = "succeeded" \/ (task["init"].status \in Active /\ ~HasItems)
    <2>1. /\ HasItems => HasItems'
          /\ task'["init"].status \in Active => task["init"].status \in Active
          /\ task'["init"].status # "absent" => task["init"].status # "absent"
      BY <1>10, <1>1, <1>2, <1>6 DEF FailPendingItems
    <2>2. ASSUME task'["init"].status = "succeeded", task["init"].status # "succeeded"
          PROVE  task["init"].status \in Active /\ ~HasItems
      <3>1. t = "init"
        BY <1>10, <1>3, <2>2 DEF FailPendingItems
      <3>2. task["init"].status \in Active
        <4>1. task["init"].status # "failed"
          BY <1>3, <1>10, <2>2, <3>1, <1>0, AggregatedSettles DEF FailPendingItems, Settles, Terminal
        <4> QED
          BY <1>5, <2>1, <2>2, <4>1 DEF Statuses, Terminal
      <3>3. ActiveKeys("init") = {}
        <4> SUFFICES ASSUME NEW k \in ActiveKeys("init") PROVE FALSE
          OBVIOUS
        <4>1. k \in Keys /\ item'["init"][k] = "failed"
          BY <1>0, <1>1, <1>10, <3>1, SetItemsFacts DEF FailPendingItems, ActiveKeys, KeysIn
        <4>2. task'["init"].status = "failed"
          BY <1>0, <2>2, <4>1 DEF AsyncInv, TerminalIsSettled, FailedKeys, KeysIn, Terminal
        <4> QED
          BY <2>2, <4>2
      <3>4. KeysIn(item["init"], Active \cup Terminal) = {}
        BY <1>0, <3>2, <3>3 DEF AsyncInv, OpenTaskHasWork
      <3> QED
        BY <1>0, <3>2, <3>4 DEF HasItems, KeysIn, Statuses
    <2> QED
      BY <2>1, <2>2
  <1>11. ASSUME Retry(t)
         PROVE  /\ HasItems => HasItems'
                /\ task'["init"].status \in Active => task["init"].status \in Active \/ HasItems
                /\ task'["init"].status # "absent" => task["init"].status # "absent"
                /\ task'["init"].status = "succeeded" => task["init"].status = "succeeded"
    <2>1. HasItems => HasItems'
      BY <1>11, <1>1, <1>2 DEF Retry, Reopen
    <2>2. CASE t = "init"
      <3>1. HasItems
        BY <1>11, <2>2 DEF Retry, Reopen, FailedKeys, KeysIn, HasItems
      <3>2. task["init"].status = "failed" /\ task'["init"].status = "pending"
        BY <1>0, <1>11, <2>2 DEF Retry, Reopen, TaskRow
      <3> QED
        BY <2>1, <3>1, <3>2
    <2>3. CASE t # "init"
      <3>1. task'["init"] = task["init"]
        BY <1>0, <1>11, <2>3 DEF Retry, Reopen
      <3> QED
        BY <2>1, <3>1
    <2> QED
      BY <2>2, <2>3
  <1>12. ASSUME NEW ks \in SUBSET Keys, Create(t, ks), t # "init"
         PROVE  (HasItems => HasItems') /\ task'["init"] = task["init"]
    BY <1>0, <1>1, <1>2, <1>12 DEF Create
  <1>13. UNCHANGED asyncVars => (HasItems' <=> HasItems) /\ task'["init"] = task["init"]
    BY DEF asyncVars, HasItems
  <1> QED
    BY <1>8, <1>9, <1>10, <1>11, <1>12, <1>13

\* A step that leaves the wish and the node alone, or takes the node away.
LEMMA WishGoesOn ==
  ASSUME WishInv, UNCHANGED <<wish, asked, routed>>, node'.there => node' = node,
         \/ request' = request
         \/ /\ request.step \notin {"empty", "final", "switch"}
            /\ request'.step \notin {"init", "switch"},
         faulty => faulty', HasItems => HasItems',
         task'["init"].status # "absent" => task["init"].status # "absent",
         task'["init"].status \in Active => task["init"].status \in Active \/ HasItems,
         \/ faulty'
         \/ /\ task'["init"].status = "succeeded" => task["init"].status = "succeeded" \/ Settling'
            /\ Settling => Settling'
  PROVE  WishInv'
  <1>1. LastWish'
    <2> SUFFICES ASSUME routed, ~faulty', node'.there, task'["init"].status = "succeeded",
                        ~Settling'
                 PROVE  node'.enabled = asked
      BY DEF LastWish
    <2> QED
      BY DEF WishInv, LastWish
  <1>2. request'.step # "switch" => request.step # "switch"
    OBVIOUS
  <1>3. request.step = "empty" => request'.step = "empty"
    OBVIOUS
  <1> QED
    BY <1>1, <1>2, <1>3 DEF WishInv

\* After a fault nothing is claimed, and a request that is dropped carries no wish.
LEMMA WishGivenUp ==
  ASSUME WishInv, faulty', asked' = asked,
         request' = request \/ request'.step = "none"
  PROVE  WishInv'
  BY DEF WishInv, LastWish

\* A worker of init that is not free is one that has still to finalize.
LEMMA StillSettling ==
  ASSUME NodeTasksTypeOK, NEW w \in Workers, NEW r \in WorkerState, Become(w, r),
         request' = request,
         \/ work[w].phase = "free" \/ work[w].kind # "init"
         \/ r.phase # "free" /\ r.kind = work[w].kind
  PROVE  /\ Settling => Settling'
         /\ r.phase # "free" /\ r.kind = "init" => Settling'
  <1>1. work'[w] = r /\ \A v \in Workers \ {w} : work'[v] = work[v]
    BY BecomeFacts
  <1>2. ASSUME NEW v \in Workers, work[v].phase # "free", work[v].kind = "init"
        PROVE  work'[v].phase # "free" /\ work'[v].kind = "init"
    BY <1>1, <1>2
  <1> QED
    BY <1>1, <1>2 DEF Settling, At

\* An attempt to finalize: of an init task that succeeded, it gives the node its wish.
LEMMA FinalizeGivesWish ==
  ASSUME TasksInv, FinalizeInitTask
  PROVE  /\ node'.there = node.there
         /\ node.there /\ task["init"].status = "succeeded" => node'.enabled = wish
  <1>0. /\ node \in [there : BOOLEAN, enabled : BOOLEAN] /\ wish \in BOOLEAN
        /\ AsyncTypeOK /\ TerminalIsSettled /\ "init" \in Tasks
    BY Names DEF TasksInv, NodeTasksTypeOK, AsyncInv
  <1>1. ASSUME task["init"].status = "succeeded"
        PROVE  KeysIn(item["init"], Active) = {} /\ task["init"].failed = 0
    <2>1. FailedKeys("init") = {}
      BY <1>0, <1>1 DEF TerminalIsSettled, Terminal
    <2>2. /\ ActiveKeys("init") = {}
          /\ task["init"].failed = Cardinality(FailedKeys("init"))
      BY <1>0, <1>1 DEF TerminalIsSettled, Terminal
    <2> QED
      BY <2>1, <2>2, FS_EmptySet DEF ActiveKeys
  <1>2. node'.there = node.there
    BY <1>0 DEF FinalizeInitTask
  <1>3. ASSUME node.there, task["init"].status = "succeeded" PROVE node'.enabled = wish
    BY <1>0, <1>1, <1>3 DEF FinalizeInitTask
  <1> QED
    BY <1>2, <1>3

-----------------------------------------------------------------------------
\* The wish holds initially.
LEMMA WishInit == NodeTasksInit => WishInv
  <1> SUFFICES ASSUME NodeTasksInit PROVE WishInv
    OBVIOUS
  <1>1. task["init"].status = "absent"
    BY Names DEF NodeTasksInit, AsyncInit
  <1> QED
    BY <1>1 DEF NodeTasksInit, NoRequest, WishInv, LastWish, Active

\* The requests of the administrator keep it.
LEMMA RequestKeepsWish ==
  ASSUME TasksInv, TasksInv', WishInv, RequestStep \/ NewRequest
  PROVE  WishInv'
  <1>0. /\ AsyncInv /\ AsyncInv' /\ "init" \in Tasks /\ "sync" \in Tasks /\ "cleanup" \in Tasks
        /\ Served \in SUBSET Keys /\ {NodeKey} \in SUBSET Keys
        /\ UNCHANGED asyncVars => (HasItems' <=> HasItems) /\ task'["init"] = task["init"]
    BY Names, InitEffects DEF TasksInv, Served
  <1>t. /\ node \in [there : BOOLEAN, enabled : BOOLEAN]
        /\ request \in [step : Steps, on : BOOLEAN, active : BOOLEAN]
        /\ item \in [Tasks -> [Keys -> Statuses]] /\ task \in [Tasks -> TaskRow]
    BY DEF TasksInv, NodeTasksTypeOK, AsyncTypeOK
  <1> USE DEF rows, pasts, quiet, admin
  <1>w. work' = work /\ request' = request => (Settling' <=> Settling)
    BY DEF Settling, At
  <1>r. request.step \notin {"empty", "final", "switch"} /\ work' = work => (Settling => Settling')
    BY DEF Settling, At
  <1>1. ASSUME NEW on \in BOOLEAN, CreateNode(on) PROVE WishInv'
    <2>1. /\ request' = [step |-> "init", on |-> on, active |-> FALSE] /\ asked' = on
          /\ task'["init"].status = "absent"
      BY <1>0, <1>1 DEF CreateNode
    <2> QED
      BY <2>1 DEF WishInv, LastWish, Active
  <1>2. ASSUME NEW on \in BOOLEAN, AskSwitch(on) PROVE WishInv'
    <2>1. /\ request'.step = "switch" /\ request'.on = on /\ asked' = on
          /\ request.step = "none" /\ UNCHANGED asyncVars /\ faulty' = faulty
      BY <1>2 DEF AskSwitch
    <2>2. Settling'
      BY <2>1 DEF Settling
    <2>3. HasItems' <=> HasItems
      BY <2>1, <1>0
    <2>4. task'["init"] = task["init"]
      BY <2>1, <1>0
    <2> QED
      BY <2>1, <2>2, <2>3, <2>4 DEF WishInv, LastWish
  <1>3. CASE AskChange
    <2>1. /\ UNCHANGED <<asyncVars, node, wish, asked, routed, work, faulty>>
          /\ request.step = "none" /\ request'.step = "change"
      BY <1>3, <1>t DEF AskChange
    <2> QED
      BY <2>1, <1>0, <1>r, WishGoesOn
  <1>4. CASE AskDelete
    <2>1. /\ UNCHANGED <<node, wish, asked, routed, work, faulty>>
          /\ request.step = "none" /\ request'.step = "delete" /\ Create("cleanup", {NodeKey})
      BY <1>4, <1>t DEF AskDelete
    <2>2. (HasItems => HasItems') /\ task'["init"] = task["init"]
      BY <2>1, <1>0, InitEffects
    <2> QED
      BY <2>1, <2>2, <1>r, WishGoesOn
  <1>5. CASE SubmitInit
    <2>1. /\ request.step = "init" /\ wish' = request.on /\ asked' = asked /\ faulty' = faulty
          /\ Create("init", Served)
          /\ request'.step = IF Served = {} THEN "empty" ELSE "none"
      BY <1>5 DEF SubmitInit, NoRequest
    <2>2. task'["init"].status = "pending"
      BY <2>1, <1>0, <1>t DEF Create, TaskRow
    <2>3. Served # {} => HasItems'
      <3> SUFFICES ASSUME NEW k \in Served PROVE HasItems'
        OBVIOUS
      <3>1. k \in Keys /\ item'["init"][k] = "pending"
        BY <2>1, <1>0, <1>t DEF Create, SetItems
      <3> QED
        BY <3>1 DEF HasItems
    <2>4. wish' = asked'
      BY <2>1 DEF WishInv
    <2> QED
      BY <2>1, <2>2, <2>3, <2>4 DEF WishInv, LastWish
  <1>6. CASE FinishEmpty
    <2>1. /\ UNCHANGED <<node, wish, asked, routed, work, faulty>>
          /\ request.step = "empty" /\ request'.step = "final" /\ CompleteEmpty("init")
      BY <1>6, <1>t DEF FinishEmpty
    <2>2. task["init"].status # "absent" /\ task'["init"].status = "succeeded"
      BY <2>1, <1>0, <1>t DEF CompleteEmpty, TaskRow
    <2>3. Settling'
      BY <2>1 DEF Settling
    <2> QED
      BY <2>1, <2>2, <2>3 DEF WishInv, LastWish, Active
  <1>7. CASE FinalizeEmpty
    <2>1. /\ UNCHANGED <<asyncVars, wish, asked, routed, work, faulty>>
          /\ request.step = "final" /\ request'.step = "none" /\ FinalizeInitTask
      BY <1>7 DEF FinalizeEmpty, NoRequest
    <2>2. task'["init"] = task["init"] /\ (HasItems' <=> HasItems)
      BY <2>1, <1>0
    <2>3. LastWish'
      BY <2>1, <2>2, FinalizeGivesWish DEF WishInv, LastWish
    <2> QED
      BY <2>1, <2>2, <2>3 DEF WishInv
  <1>8. CASE DoSwitch
    <2>1. /\ UNCHANGED <<asyncVars, asked, work, faulty>>
          /\ request.step = "switch" /\ request'.step = "none"
      BY <1>8 DEF DoSwitch, NoRequest
    <2>2. task'["init"] = task["init"] /\ (HasItems' <=> HasItems)
      BY <2>1, <1>0
    <2>3. routed' => task["init"].status \in Active /\ wish' = request.on
      BY <1>8 DEF DoSwitch
    <2> QED
      BY <2>1, <2>2, <2>3 DEF WishInv, LastWish, Active
  <1>9. CASE ReplaceInbounds
    <2>1. /\ UNCHANGED <<asyncVars, node, wish, asked, routed, work, faulty>>
          /\ request.step = "change" /\ request'.step \in {"none", "sync"}
      BY <1>9, <1>t DEF ReplaceInbounds
    <2> QED
      BY <2>1, <1>0, <1>r, WishGoesOn
  <1>10. CASE SubmitSync
    <2>1. /\ UNCHANGED <<node, wish, asked, routed, work, faulty>>
          /\ request.step = "sync" /\ request'.step = "none" /\ Create("sync", Served)
      BY <1>10 DEF SubmitSync, NoRequest
    <2>2. (HasItems => HasItems') /\ task'["init"] = task["init"]
      BY <2>1, <1>0, InitEffects
    <2> QED
      BY <2>1, <2>2, <1>r, WishGoesOn
  <1>11. CASE DeleteNode
    <2>1. /\ UNCHANGED <<asyncVars, wish, asked, routed, work, faulty>>
          /\ request.step = "delete" /\ request'.step = "none" /\ ~node'.there
      BY <1>11 DEF DeleteNode, NoRequest
    <2> QED
      BY <2>1, <1>0, <1>r, WishGoesOn
  <1>12. ASSUME NEW t \in Tasks, SendDue(t) PROVE WishInv'
    <2>1. UNCHANGED <<asyncVars, node, wish, asked, routed, work, request, faulty>>
      BY <1>12 DEF SendDue
    <2> QED
      BY <2>1, <1>0, <1>w, WishGoesOn
  <1> QED
    BY <1>1, <1>2, <1>3, <1>4, <1>5, <1>6, <1>7, <1>8, <1>9, <1>10, <1>11, <1>12,
       KnownWishes, Zenon DEF RequestStep, NewRequest

\* So do retries, the sweeper, plans that lapse, and a restart.
LEMMA OthersKeepWish ==
  ASSUME TasksInv, TasksInv', WishInv,
         \/ \E t \in Tasks : RetryTask(t) \/ Sweep(t)
         \/ \E u \in Users : Lapse(u)
         \/ Restart
  PROVE  WishInv'
  <1> USE DEF rows, pasts, quiet, admin
  <1>0. /\ AsyncInv /\ AsyncInv' /\ "init" \in Tasks
        /\ UNCHANGED asyncVars => (HasItems' <=> HasItems) /\ task'["init"] = task["init"]
    BY Names, InitEffects DEF TasksInv
  <1>w. work' = work /\ request' = request => (Settling' <=> Settling)
    BY DEF Settling, At
  <1>1. ASSUME NEW t \in Tasks, RetryTask(t) PROVE WishInv'
    <2>1. UNCHANGED <<node, wish, asked, routed, work, request, faulty>> /\ Retry(t)
      BY <1>1 DEF RetryTask
    <2>2. /\ HasItems => HasItems'
          /\ task'["init"].status \in Active => task["init"].status \in Active \/ HasItems
          /\ task'["init"].status # "absent" => task["init"].status # "absent"
          /\ task'["init"].status = "succeeded" => task["init"].status = "succeeded"
      BY <2>1, <1>0, InitEffects
    <2> QED
      BY <2>1, <2>2, <1>w, WishGoesOn
  <1>2. ASSUME NEW t \in Tasks, Sweep(t) PROVE WishInv'
    <2>1. UNCHANGED <<node, wish, asked, routed, work, request, faulty>> /\ FailPendingItems(t)
      BY <1>2 DEF Sweep
    <2>2. /\ HasItems => HasItems'
          /\ task'["init"].status \in Active => task["init"].status \in Active
          /\ task'["init"].status # "absent" => task["init"].status # "absent"
          /\ task'["init"].status = "succeeded" =>
               task["init"].status = "succeeded" \/ (task["init"].status \in Active /\ ~HasItems)
      BY <2>1, <1>0, InitEffects
    <2>3. task["init"].status \in Active /\ ~HasItems => faulty \/ Settling
      BY DEF WishInv, Settling
    <2> QED
      BY <2>1, <2>2, <2>3, <1>w, WishGoesOn
  <1>3. ASSUME NEW u \in Users, Lapse(u) PROVE WishInv'
    <2>1. UNCHANGED <<asyncVars, node, wish, asked, routed, work, request, faulty>>
      BY <1>3 DEF Lapse
    <2> QED
      BY <2>1, <1>0, <1>w, WishGoesOn
  <1>4. CASE Restart
    <2>1. faulty' /\ asked' = asked /\ request'.step = "none"
      BY <1>4 DEF Restart, Fault, NoRequest
    <2> QED
      BY <2>1, WishGivenUp
  <1> QED
    BY <1>1, <1>2, <1>3, <1>4

-----------------------------------------------------------------------------
\* A worker that becomes r, with what its transaction does to the init task.
LEMMA WorkerKeepsWish ==
  ASSUME TasksInv, TasksInv', WishInv, NEW w \in Workers, NEW r \in WorkerState, Become(w, r),
         UNCHANGED <<node, wish, asked, routed, request, faulty>>,
         \/ work[w].phase = "free" \/ work[w].kind # "init"
         \/ r.phase # "free" /\ r.kind = work[w].kind,
         HasItems => HasItems',
         task'["init"].status # "absent" => task["init"].status # "absent",
         task'["init"].status \in Active => task["init"].status \in Active,
         task'["init"].status = "succeeded" =>
           \/ task["init"].status = "succeeded"
           \/ task["init"].status \in Active /\ ~HasItems
           \/ r.phase # "free" /\ r.kind = "init"
  PROVE  WishInv'
  <1>1. (Settling => Settling') /\ (r.phase # "free" /\ r.kind = "init" => Settling')
    BY StillSettling DEF TasksInv
  <1>2. task["init"].status \in Active /\ ~HasItems => faulty' \/ Settling
    BY DEF WishInv, Settling
  <1> QED
    BY <1>1, <1>2, WishGoesOn

\* The steps of the workers that succeed.
LEMMA WorkersKeepWish ==
  ASSUME TasksInv, TasksInv', ServedInv, WishInv, NEW w \in Workers, WorkerStep(w)
  PROVE  WishInv'
  <1> USE DEF rows, pasts, quiet, admin, Kept
  <1>0. /\ NodeTasksTypeOK /\ AsyncInv /\ AsyncInv' /\ "init" \in Tasks /\ "sync" \in Tasks
        /\ work[w] \in WorkerState /\ work[w].key \in Keys /\ Current(w) \in Tasks
        /\ UNCHANGED asyncVars => (HasItems' <=> HasItems) /\ task'["init"] = task["init"]
    BY Names, WorkerNames, InitEffects DEF TasksInv
  <1>k. work[w].phase \in {"scan", "compare"} => work[w].kind # "init"
    BY DEF ServedInv, ChangeFirst, SyncFits
  <1>f. Free \in WorkerState /\ Free.phase = "free"
    BY FreeIsState DEF Free
  <1>1. CASE Take(w)
    <2>1. /\ UNCHANGED <<asyncVars, node, wish, asked, routed, request, faulty>>
          /\ work[w].phase = "free"
      BY <1>1 DEF Take, At
    <2>2. PICK r : Become(w, r)
      BY <1>1, Zenon DEF Take
    <2>3. work' \in [Workers -> WorkerState]
      BY DEF TasksInv, NodeTasksTypeOK
    <2>4. r \in WorkerState
      BY <2>2, <2>3, <1>0 DEF Become, NodeTasksTypeOK
    <2> QED
      BY <2>1, <2>2, <2>4, <1>0, WorkerKeepsWish
  <1>2. CASE ClaimNext(w)
    <2> DEFINE k == First(work[w].left)
               r == [work[w] EXCEPT !.left = work[w].left \ {k}]
    <2>0. k \in Keys /\ work[w].phase = "next"
      BY <1>2, <1>0, WorkerNames DEF ClaimNext, At
    <2>1. UNCHANGED <<node, wish, asked, routed, request, faulty>>
      BY <1>2 DEF ClaimNext
    <2>2. \/ ClaimItem(Current(w), k) /\ Become(w, AfterClaim(w, k))
          \/ UNCHANGED asyncVars /\ Become(w, r)
      BY <1>2, Zenon DEF ClaimNext
    <2>3. /\ r \in WorkerState /\ r.phase # "free" /\ r.kind = work[w].kind
      BY <1>0, <2>0 DEF WorkerState
    <2> HIDE DEF k, r
    <2>4. /\ AfterClaim(w, k) \in WorkerState /\ AfterClaim(w, k).phase # "free"
          /\ AfterClaim(w, k).kind = work[w].kind
      BY <1>0, <2>0, AfterClaimType DEF AfterClaim, WorkerState
    <2>5. CASE ClaimItem(Current(w), k) /\ Become(w, AfterClaim(w, k))
      <3>1. /\ HasItems => HasItems'
            /\ task'["init"].status \in Active => task["init"].status \in Active
            /\ task'["init"].status # "absent" => task["init"].status # "absent"
            /\ task'["init"].status = "succeeded" => task["init"].status = "succeeded"
        BY <2>5, <2>0, <1>0, InitEffects
      <3> QED
        BY <3>1, <2>1, <2>4, <2>5, WorkerKeepsWish
    <2>6. CASE UNCHANGED asyncVars /\ Become(w, r)
      BY <2>1, <2>3, <2>6, <1>0, WorkerKeepsWish
    <2> QED
      BY <2>2, <2>5, <2>6
  <1>3. CASE Verdict(w)
    <2> DEFINE r == [work[w] EXCEPT !.phase = "next", !.left = work[w].left \ {work[w].key},
                                    !.key = NodeKey, !.ok = FALSE]
               s == IF work[w].ok THEN "succeeded" ELSE "failed"
    <2>1. UNCHANGED <<node, wish, asked, routed, request, faulty>> /\ Become(w, r)
      BY <1>3 DEF Verdict, Onward
    <2>2. r \in WorkerState /\ r.phase = "next" /\ r.kind = work[w].kind
      BY <1>0, SettleFacts DEF WorkerState
    <2>3. s \in Terminal
      BY DEF Terminal
    <2>4. UNCHANGED asyncVars \/ FinishItem(Current(w), work[w].key, s)
      BY <1>3, Zenon DEF Verdict
    <2>5. Current(w) = "init" => work[w].kind = "init"
      BY DEF Current, TaskOf
    <2> HIDE DEF r, s
    <2>6. CASE UNCHANGED asyncVars
      BY <2>1, <2>2, <2>6, <1>0, WorkerKeepsWish
    <2>7. CASE FinishItem(Current(w), work[w].key, s)
      <3>1. /\ HasItems => HasItems'
            /\ task'["init"].status \in Active => task["init"].status \in Active
            /\ task'["init"].status # "absent" => task["init"].status # "absent"
            /\ Current(w) # "init" => task'["init"] = task["init"]
        BY <2>3, <2>7, <1>0, InitEffects
      <3>2. task["init"].status = "succeeded" \/ task'["init"].status # "succeeded"
            \/ (r.phase # "free" /\ r.kind = "init")
        BY <3>1, <2>2, <2>5
      <3> QED
        BY <3>1, <3>2, <2>1, <2>2, WorkerKeepsWish
    <2> QED
      BY <2>4, <2>6, <2>7
  <1>4. CASE EndBatch(w)
    <2>1. /\ UNCHANGED <<asyncVars, wish, asked, routed, request, faulty>> /\ Become(w, Free)
          /\ IF work[w].kind = "init" THEN FinalizeInitTask ELSE UNCHANGED node
      BY <1>4 DEF EndBatch
    <2>2. task'["init"] = task["init"] /\ (HasItems' <=> HasItems)
      BY <2>1, <1>0
    <2>3. CASE work[w].kind = "init"
      <3>1. request.step = "switch" => Settling'
        BY <2>1 DEF Settling
      <3>2. LastWish'
        BY <2>1, <2>2, <2>3, <3>1, FinalizeGivesWish DEF WishInv, LastWish
      <3> QED
        BY <2>1, <2>2, <3>2 DEF WishInv
    <2>4. CASE work[w].kind # "init"
      BY <2>1, <2>2, <2>4, <1>f, <1>0, WorkerKeepsWish
    <2> QED
      BY <2>3, <2>4
  <1>5. CASE ReadUser(w) \/ ReadInbounds(w) \/ ClearClient(w) \/ AddClient(w) \/ AttachClient(w)
               \/ Clean(w) \/ ReadPending(w)
    <2>1. UNCHANGED <<asyncVars, node, wish, asked, routed, request, faulty>>
      BY <1>5 DEF ReadUser, ReadInbounds, ClearClient, AddClient, AttachClient, Clean, ReadPending
    <2>2. \E r : Become(w, r)
      BY <1>5, Zenon
         DEF ReadUser, ReadInbounds, ClearClient, AddClient, AttachClient, Clean, ReadPending, Settle
    <2>3. work' \in [Workers -> WorkerState] /\ work \in [Workers -> WorkerState]
      BY DEF TasksInv, NodeTasksTypeOK
    <2>4. work'[w] \in WorkerState /\ Become(w, work'[w])
      BY <2>2, <2>3 DEF Become
    <2>5. work'[w].phase # "free" /\ work'[w].kind = work[w].kind
      <3>s. ASSUME NEW ok \in BOOLEAN, Settle(w, ok)
            PROVE  work'[w].phase # "free" /\ work'[w].kind = work[w].kind
        BY <2>3, <3>s DEF Settle, Become, WorkerState
      <3>1. CASE ReadUser(w)
        <4>1. \/ Become(w, [work[w] EXCEPT !.phase = "clear", !.usable = work[w].key \notin lapsed])
              \/ Become(w, [work[w] EXCEPT !.phase = "ticked", !.usable = TRUE])
              \/ Settle(w, TRUE)
          BY <3>1, Zenon DEF ReadUser
        <4>2. ASSUME NEW b \in BOOLEAN, NEW ph \in {"clear", "ticked"},
                     Become(w, [work[w] EXCEPT !.phase = ph, !.usable = b])
              PROVE  work'[w].phase # "free" /\ work'[w].kind = work[w].kind
          BY <2>3, <4>2 DEF Become, WorkerState
        <4> DEFINE b == work[w].key \notin lapsed
        <4>3. b \in BOOLEAN
          OBVIOUS
        <4>4. \/ Become(w, [work[w] EXCEPT !.phase = "clear", !.usable = b])
              \/ Become(w, [work[w] EXCEPT !.phase = "ticked", !.usable = TRUE])
              \/ Settle(w, TRUE)
          BY <4>1, Zenon
        <4> HIDE DEF b
        <4> QED
          BY <3>s, <4>2, <4>3, <4>4
      <3>2. CASE ReadInbounds(w)
        <4> DEFINE ph == IF work[w].kind = "init" THEN "add" ELSE "attach"
        <4>1. \/ Become(w, [work[w] EXCEPT !.ids = inbounds, !.phase = ph])
              \/ Settle(w, TRUE)
          BY <3>2, Zenon DEF ReadInbounds
        <4>2. ph # "free"
          OBVIOUS
        <4> HIDE DEF ph
        <4>3. ASSUME Become(w, [work[w] EXCEPT !.ids = inbounds, !.phase = ph])
              PROVE  work'[w].phase # "free" /\ work'[w].kind = work[w].kind
          <5>1. work'[w] = [work[w] EXCEPT !.ids = inbounds, !.phase = ph] /\ work[w] \in WorkerState
            BY <2>3, <4>3 DEF Become
          <5> QED
            BY <4>2, <5>1 DEF WorkerState
        <4> QED
          BY <3>s, <4>1, <4>3, Zenon
      <3>3. CASE ClearClient(w)
        BY <2>3, <3>3 DEF ClearClient, Become, WorkerState
      <3>4. CASE AddClient(w) \/ AttachClient(w) \/ Clean(w)
        <4>1. CallGranted(w) \in BOOLEAN
          BY Zenon DEF CallGranted, At
        <4>2. Settle(w, CallGranted(w)) \/ Settle(w, TRUE)
          BY <3>4, Zenon DEF AddClient, AttachClient, Clean
        <4> QED
          BY <3>s, <4>1, <4>2, Zenon
      <3>5. CASE ReadPending(w)
        BY <2>3, <3>5 DEF ReadPending, Become, WorkerState
      <3> QED
        BY <1>5, <3>1, <3>2, <3>3, <3>4, <3>5
    <2> QED
      BY <2>1, <2>4, <2>5, <1>0, WorkerKeepsWish
  <1>6. CASE Scan(w)
    <2>1. UNCHANGED <<node, wish, asked, routed, request, faulty>> /\ work[w].kind # "init"
      BY <1>6, <1>k DEF Scan, At
    <2>2. PICK r : Become(w, r) /\ (UNCHANGED asyncVars \/ FailPendingItems("sync"))
      BY <1>6, Zenon DEF Scan
    <2>3. work' \in [Workers -> WorkerState]
      BY DEF TasksInv, NodeTasksTypeOK
    <2>4. r \in WorkerState
      BY <2>2, <2>3, <1>0 DEF Become, NodeTasksTypeOK
    <2>5. CASE UNCHANGED asyncVars
      BY <2>1, <2>2, <2>4, <2>5, <1>0, WorkerKeepsWish
    <2>6. CASE FailPendingItems("sync")
      <3>1. /\ HasItems => HasItems'
            /\ task'["init"].status \in Active => task["init"].status \in Active
            /\ task'["init"].status # "absent" => task["init"].status # "absent"
            /\ task'["init"].status = "succeeded" =>
                 task["init"].status = "succeeded" \/ (task["init"].status \in Active /\ ~HasItems)
        BY <2>6, <1>0, InitEffects
      <3> QED
        BY <3>1, <2>1, <2>2, <2>4, WorkerKeepsWish
    <2> QED
      BY <2>2, <2>5, <2>6
  <1>7. CASE Compare(w)
    <2> DEFINE k == First(work[w].left)
    <2>0. k \in Keys /\ "succeeded" \in Terminal
      BY <1>7, <1>0, WorkerNames DEF Compare, Terminal
    <2>1. UNCHANGED <<node, wish, asked, routed, request, faulty>> /\ work[w].kind # "init"
      BY <1>7, <1>k DEF Compare, At
    <2>2. PICK r : Become(w, r) /\ (UNCHANGED asyncVars \/ FinishItem("sync", k, "succeeded"))
      BY <1>7, Zenon DEF Compare
    <2>3. work' \in [Workers -> WorkerState]
      BY DEF TasksInv, NodeTasksTypeOK
    <2>4. r \in WorkerState
      BY <2>2, <2>3, <1>0 DEF Become, NodeTasksTypeOK
    <2> HIDE DEF k
    <2>5. CASE UNCHANGED asyncVars
      BY <2>1, <2>2, <2>4, <2>5, <1>0, WorkerKeepsWish
    <2>6. CASE FinishItem("sync", k, "succeeded")
      <3>1. /\ HasItems => HasItems'
            /\ task'["init"] = task["init"]
        BY <2>0, <2>6, <1>0, InitEffects
      <3> QED
        BY <3>1, <2>1, <2>2, <2>4, WorkerKeepsWish
    <2> QED
      BY <2>2, <2>5, <2>6
  <1>8. CASE SendBatches(w)
    <2>1. /\ UNCHANGED <<asyncVars, node, wish, asked, routed, request, faulty>>
          /\ Become(w, Free) /\ work[w].kind # "init"
      BY <1>8, <1>k DEF SendBatches, At
    <2> QED
      BY <2>1, <1>f, <1>0, WorkerKeepsWish
  <1> QED
    BY <1>1, <1>2, <1>3, <1>4, <1>5, <1>6, <1>7, <1>8 DEF WorkerStep

\* Every step keeps the wish.
LEMMA StepKeepsWish ==
  TasksInv /\ ServedInv /\ WishInv /\ [NodeTasksNext]_vars => WishInv'
  <1> SUFFICES ASSUME TasksInv, ServedInv, WishInv, [NodeTasksNext]_vars PROVE WishInv'
    OBVIOUS
  <1>1. TasksInv'
    BY StepTasksInv
  <1>2. ASSUME NEW w \in Workers, WorkerFails(w) PROVE WishInv'
    <2>1. faulty' /\ asked' = asked /\ request' = request
      BY <1>2 DEF WorkerFails, CallFails, Refused, ScanFails, HandlerFails,
         Expire, Fault, Kept, admin
    <2> QED
      BY <2>1, WishGivenUp
  <1>3. CASE NodeTasksNext
    <2>1. \/ RequestStep \/ NewRequest
          \/ \E t \in Tasks : RetryTask(t) \/ Sweep(t)
          \/ \E u \in Users : Lapse(u)
          \/ Restart
          \/ \E w \in Workers : WorkerStep(w) \/ WorkerFails(w)
      BY <1>3, Zenon DEF NodeTasksNext
    <2> QED
      BY <1>1, <1>2, <2>1, RequestKeepsWish, OthersKeepWish, WorkersKeepWish
  <1>4. CASE UNCHANGED vars
    <2>1. UNCHANGED <<item, task, node, wish, asked, routed, work, request, faulty>>
      BY <1>4 DEF vars, asyncVars, rows, admin
    <2> QED
      BY <2>1 DEF WishInv, LastWish, HasItems, Settling, At
  <1> QED
    BY <1>3, <1>4

\* When the init task has succeeded, every switch reached it while it was open and nothing
\* failed, the node is as the administrator asked for last, or somebody is left who has still
\* to finalize it, whatever batches, retries and sweeps there were (node_crud.go, nodeUpdate;
\* node_sqlstore.go, FinalizeInitTask).
THEOREM LastWishHolds == NodeTasksSpec => []LastWish
  <1>1. WishInv => LastWish
    BY DEF WishInv
  <1> QED
    BY <1>1, WishInit, StepKeepsWish, ServedInit, StepServedInv, InitTasksInv, StepTasksInv,
       CleanInvariant, PTL DEF NodeTasksSpec
=============================================================================
