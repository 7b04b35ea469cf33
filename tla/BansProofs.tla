----------------------------- MODULE BansProofs -----------------------------
(* That the types hold and that a reset is never doubled, for every set of *)
(* nodes and every bound.                                                  *)
EXTENDS TrafficBans, TLAPS

\* The tasks that are built anew.
LEMMA FreshTasks ==
  ASSUME NEW want \in BOOLEAN, NEW book \in BOOLEAN
  PROVE  Idle \in Tasks /\ Toggle(want, book) \in Tasks
         /\ ~Idle.want /\ Toggle(want, book).want = want
         /\ [Idle EXCEPT !.at = "due"] \in Tasks
         /\ [Idle EXCEPT !.at = "queued"] \in Tasks
         /\ [Idle EXCEPT !.at = "judge"] \in Tasks
BY DEF Idle, Toggle, Tasks, Places, Unread

\* What one worker becomes leaves the types of all of them.
LEMMA BecomeTyped ==
  ASSUME task \in [Workers -> Tasks], ~task["scan"].want,
         NEW w \in Workers, NEW t \in Tasks, w = "scan" => ~t.want, Become(w, t)
  PROVE  task' \in [Workers -> Tasks] /\ ~task'["scan"].want
BY DEF Become, Workers

\* A node that is written keeps the type of all of them.
LEMMA WriteTyped ==
  ASSUME client \in [Nodes -> ClientStates], \A n \in Kernels : client[n] # "off",
         NEW n \in Nodes, NEW c \in ClientStates, n \in Kernels => c # "off"
  PROVE  /\ [client EXCEPT ![n] = c] \in [Nodes -> ClientStates]
         /\ \A m \in Kernels : [client EXCEPT ![n] = c][m] # "off"
BY DEF Nodes

LEMMA SwitchTyped ==
  ASSUME client \in [Nodes -> ClientStates], NEW n \in Nodes, NEW want \in BOOLEAN
  PROVE  Switched(n, want) \in ClientStates /\ (n \in Kernels => Switched(n, want) # "off")
BY DEF Switched, ClientStates

LEMMA ProvideTyped ==
  ASSUME NEW n \in Nodes, NEW enabled \in BOOLEAN
  PROVE  Provided(n, enabled) \in ClientStates /\ (n \in Kernels => Provided(n, enabled) # "off")
BY DEF Provided, ClientStates

-----------------------------------------------------------------------------
\* Every step keeps the types.
LEMMA BansTypeStep ==
  ASSUME BansTypeOK, BansNext
  PROVE  BansTypeOK'
<1> USE DEF row, dates, health, Change, Fault
<1>1. /\ task \in [Workers -> Tasks] /\ ~task["scan"].want
      /\ client \in [Nodes -> ClientStates] /\ \A n \in Kernels : client[n] # "off"
      /\ Panels \subseteq Nodes /\ Kernels \subseteq Nodes
      /\ Reachable \in SUBSET Nodes
  BY DEF BansTypeOK, Nodes, Reachable
<1>2. \A w \in Workers : task[w] \in Tasks
  BY <1>1
<1>3. BanReason \in BOOLEAN /\ Intent \in BOOLEAN
  BY DEF BansTypeOK, BanReason, Intent
<1>rest. month \in Nat /\ next \in Nat /\ changes \in Nat /\ faults \in Nat
      /\ account \in BOOLEAN /\ spent \in BOOLEAN /\ drained \in BOOLEAN /\ marker \in Markers
      /\ up \subseteq Panels /\ online \subseteq Panels /\ stale \subseteq Kernels
  BY DEF BansTypeOK
<1>4. ASSUME NEW w \in Workers, FindNodes(w)
      PROVE  BansTypeOK'
  <2> DEFINE t == [task[w] EXCEPT !.at = "nodes", !.ok = TRUE, !.todo = Reachable]
  <2>1. t \in Tasks /\ t.want = task[w].want /\ Idle \in Tasks /\ ~Idle.want
    <3>1. Idle \in Tasks /\ ~Idle.want
      BY FreshTasks
    <3>2. task[w] \in Tasks /\ Reachable \in SUBSET Nodes
      BY <1>1, <1>2
    <3>3. t \in Tasks /\ t.want = task[w].want
      BY <3>2 DEF Tasks, Places
    <3>4. QED
      BY <3>1, <3>3
  <2>2. \E u \in {Idle, t} : Become(w, u)
    BY <1>4 DEF FindNodes
  <2>3. task' \in [Workers -> Tasks] /\ ~task'["scan"].want
    <3>1. PICK u \in {Idle, t} : Become(w, u)
      BY <2>2
    <3>2. u \in Tasks /\ (w = "scan" => ~u.want)
      BY <1>1, <2>1
    <3>3. QED
      BY <1>1, <3>1, <3>2, BecomeTyped
  <2>4. QED
    BY <1>4, <2>3 DEF FindNodes, BansTypeOK
<1>5. ASSUME NEW w \in Workers, NEW n \in Nodes, Apply(w, n)
      PROVE  BansTypeOK'
  <2> DEFINE t == [task[w] EXCEPT !.todo = @ \ {n}, !.ok = @ /\ Confirms(n, task[w].want)]
  <2>1. t \in Tasks /\ t.want = task[w].want /\ Become(w, t)
    BY <1>2, <1>5 DEF Apply, Tasks, Confirms
  <2>2. task' \in [Workers -> Tasks] /\ ~task'["scan"].want
    BY <1>1, <2>1, BecomeTyped
  <2>3. client' \in [Nodes -> ClientStates] /\ \A m \in Kernels : client'[m] # "off"
    <3>1. task[w].want \in BOOLEAN
      BY <1>2 DEF Tasks
    <3>2. client' \in {client, [client EXCEPT ![n] = Switched(n, task[w].want)]}
      BY <1>5 DEF Apply
    <3>3. QED
      BY <1>1, <3>1, <3>2, SwitchTyped, WriteTyped
  <2>4. QED
    BY <1>5, <2>2, <2>3 DEF Apply, BansTypeOK
<1>6. ASSUME NEW w \in Workers, NEW n \in Nodes, ApplyLost(w, n)
      PROVE  BansTypeOK'
  <2> DEFINE t == [task[w] EXCEPT !.todo = @ \ {n}, !.ok = FALSE]
  <2>1. t \in Tasks /\ t.want = task[w].want /\ Become(w, t)
    BY <1>2, <1>6 DEF ApplyLost, Tasks
  <2>2. task' \in [Workers -> Tasks] /\ ~task'["scan"].want
    BY <1>1, <2>1, BecomeTyped
  <2>3. client' \in [Nodes -> ClientStates] /\ \A m \in Kernels : client'[m] # "off"
    <3>1. task[w].want \in BOOLEAN
      BY <1>2 DEF Tasks
    <3>2. client' \in {client, [client EXCEPT ![n] = Switched(n, task[w].want)]}
      BY <1>6 DEF ApplyLost
    <3>3. QED
      BY <1>1, <3>1, <3>2, SwitchTyped, WriteTyped
  <2>4. QED
    BY <1>6, <2>2, <2>3 DEF ApplyLost, BansTypeOK
<1>7. ASSUME NEW w \in Workers, ToggleEnds(w)
      PROVE  BansTypeOK'
  <2>1. task' \in [Workers -> Tasks] /\ ~task'["scan"].want
    BY <1>1, <1>7, FreshTasks, BecomeTyped DEF ToggleEnds
  <2>2. marker' \in Markers
    BY <1>7 DEF ToggleEnds, BansTypeOK, Markers
  <2>3. QED
    BY <1>7, <2>1, <2>2 DEF ToggleEnds, BansTypeOK
<1>8. CASE ScanUser
  <2>1. task' \in [Workers -> Tasks] /\ ~task'["scan"].want
    BY <1>1, <1>8, FreshTasks, BecomeTyped DEF ScanUser, Workers
  <2>2. QED
    BY <1>8, <2>1 DEF ScanUser, BansTypeOK
<1>9. CASE FindDue
  <2>1. task' \in [Workers -> Tasks] /\ ~task'["scan"].want
    BY <1>1, <1>9, FreshTasks, BecomeTyped DEF FindDue, Workers
  <2>2. QED
    BY <1>9, <2>1 DEF FindDue, BansTypeOK
<1>10. CASE ResetRow
  <2>1. task' \in [Workers -> Tasks] /\ ~task'["scan"].want
    BY <1>1, <1>10, FreshTasks, BecomeTyped DEF ResetRow, Workers
  <2>2. drained' \in BOOLEAN /\ next' \in Nat
    <3>1. next' \in {next, next + 1} /\ drained' \in {drained, FALSE}
      BY <1>10 DEF ResetRow
    <3>2. next' \in Nat
      BY <1>rest, <3>1
    <3>3. drained' \in BOOLEAN
      BY <1>rest, <3>1
    <3>4. QED
      BY <3>2, <3>3
  <2>3. QED
    BY <1>10, <2>1, <2>2 DEF ResetRow, BansTypeOK
<1>11. CASE Pay
  <2>1. task' \in [Workers -> Tasks] /\ ~task'["scan"].want
    BY <1>1, <1>11, FreshTasks, BecomeTyped DEF Pay, Workers
  <2>2. QED
    <3>1. next' \in Nat /\ changes' \in Nat
      BY <1>11, <1>rest DEF Pay
    <3>2. QED
      BY <1>11, <1>1, <1>rest, <2>1, <3>1 DEF Pay, BansTypeOK
<1>12. CASE DeliveryStarts
  <2> DEFINE t == [Idle EXCEPT !.at = "provision", !.enabled = account, !.todo = Reachable]
  <2>1. t \in Tasks /\ Become("delivery", t)
    BY <1>1, <1>12 DEF DeliveryStarts, BansTypeOK, Tasks, Idle, Places, Unread
  <2>2. task' \in [Workers -> Tasks] /\ ~task'["scan"].want
    BY <1>1, <2>1, BecomeTyped DEF Workers
  <2>3. QED
    BY <1>12, <2>2 DEF DeliveryStarts, BansTypeOK
<1>13. ASSUME NEW n \in Nodes, Provide(n)
       PROVE  BansTypeOK'
  <2> DEFINE t == [task["delivery"] EXCEPT !.todo = @ \ {n}]
  <2>1. t \in Tasks /\ Become("delivery", t)
    BY <1>2, <1>13 DEF Provide, Tasks, Workers
  <2>2. task' \in [Workers -> Tasks] /\ ~task'["scan"].want
    BY <1>1, <2>1, BecomeTyped DEF Workers
  <2>3. client' \in [Nodes -> ClientStates] /\ \A m \in Kernels : client'[m] # "off"
    <3>1. task["delivery"].enabled \in BOOLEAN
      BY <1>2 DEF Tasks, Workers
    <3>2. client' \in {client, [client EXCEPT ![n] = Provided(n, task["delivery"].enabled)]}
      BY <1>13 DEF Provide
    <3>3. QED
      BY <1>1, <3>1, <3>2, ProvideTyped, WriteTyped
  <2>4. QED
    BY <1>13, <2>2, <2>3 DEF Provide, BansTypeOK
<1>14. ASSUME NEW n \in Nodes, ProvideLost(n)
       PROVE  BansTypeOK'
  <2> DEFINE t == [task["delivery"] EXCEPT !.todo = @ \ {n}]
  <2>1. t \in Tasks /\ Become("delivery", t)
    BY <1>2, <1>14 DEF ProvideLost, Tasks, Workers
  <2>2. task' \in [Workers -> Tasks] /\ ~task'["scan"].want
    BY <1>1, <2>1, BecomeTyped DEF Workers
  <2>3. QED
    BY <1>14, <2>2 DEF ProvideLost, BansTypeOK
<1>15. CASE ProvideEnds
  <2>1. task' \in [Workers -> Tasks] /\ ~task'["scan"].want
    BY <1>1, <1>15, FreshTasks, BecomeTyped DEF ProvideEnds, Workers
  <2>2. QED
    BY <1>15, <2>1 DEF ProvideEnds, BansTypeOK
<1>16. CASE SwitchAccount
  <2>1. task' \in [Workers -> Tasks] /\ ~task'["scan"].want
    BY <1>1, <1>16, FreshTasks, BecomeTyped DEF SwitchAccount, Workers
  <2>2. QED
    BY <1>16, <2>1 DEF SwitchAccount, BansTypeOK
<1>17. ASSUME NEW w \in {"delivery", "switch"}, Judge(w)
       PROVE  BansTypeOK'
  <2>1. task' \in [Workers -> Tasks] /\ ~task'["scan"].want
    BY <1>1, <1>3, <1>17, FreshTasks, BecomeTyped DEF Judge, Workers
  <2>2. QED
    BY <1>17, <2>1 DEF Judge, BansTypeOK
<1>18. CASE ReadUsers
  <2> DEFINE t == [Idle EXCEPT !.at = "compare", !.want = Intent, !.enabled = account,
                               !.flagged = (marker # "none"), !.todo = Reachable]
  <2>1. t \in Tasks /\ Become("reconcile", t)
    BY <1>1, <1>3, <1>18 DEF ReadUsers, BansTypeOK, Tasks, Idle, Places, Unread
  <2>2. task' \in [Workers -> Tasks] /\ ~task'["scan"].want
    BY <1>1, <2>1, BecomeTyped DEF Workers
  <2>3. QED
    BY <1>18, <2>2 DEF ReadUsers, BansTypeOK
<1>19. ASSUME NEW n \in Nodes, NEW called \in BOOLEAN, Leave(n, called)
       PROVE  task' \in [Workers -> Tasks] /\ ~task'["scan"].want
  <2> DEFINE t == [me EXCEPT !.todo = @ \ {n}, !.ok = @ \/ called,
                             !.seen = IF n \in Panels THEN [@ EXCEPT ![n] = "unread"] ELSE @]
  <2>1. me \in Tasks /\ me.want \in BOOLEAN
    BY <1>2 DEF me, Workers, Tasks
  <2>2. t \in Tasks
    BY <2>1 DEF Tasks
  <2>3. \E u \in {t, Toggle(me.want, TRUE), Idle} : Become("reconcile", u)
    BY <1>19 DEF Leave
  <2>4. \A u \in {t, Toggle(me.want, TRUE), Idle} : u \in Tasks
    BY <2>1, <2>2, FreshTasks
  <2>5. QED
    BY <1>1, <2>3, <2>4, BecomeTyped DEF Workers
<1>20. ASSUME NEW n \in Panels, NEW c \in ClientStates,
              Become("reconcile", [me EXCEPT !.seen[n] = c])
       PROVE  task' \in [Workers -> Tasks] /\ ~task'["scan"].want
  <2>1. [me EXCEPT !.seen[n] = c] \in Tasks
    BY <1>2 DEF me, Workers, Tasks
  <2>2. QED
    BY <1>1, <1>20, <2>1, BecomeTyped DEF Workers
<1>21. ASSUME NEW n \in Panels, ReadList(n)
       PROVE  BansTypeOK'
  <2>1. client[n] \in ClientStates
    BY <1>1
  <2>2. task' \in [Workers -> Tasks] /\ ~task'["scan"].want
    BY <1>20, <1>21, <2>1 DEF ReadList
  <2>3. QED
    BY <1>21, <2>2 DEF ReadList, BansTypeOK
<1>22. ASSUME NEW n \in Panels, ReadCachedList(n)
       PROVE  BansTypeOK'
  <2>1. task' \in [Workers -> Tasks] /\ ~task'["scan"].want
    BY <1>20, <1>22 DEF ReadCachedList
  <2>2. QED
    BY <1>22, <2>1 DEF ReadCachedList, BansTypeOK
<1>23. ASSUME NEW n \in Panels, SkipPanel(n)
       PROVE  BansTypeOK'
  <2>1. task' \in [Workers -> Tasks] /\ ~task'["scan"].want
    BY <1>1, <1>19, <1>23 DEF SkipPanel
  <2>2. QED
    BY <1>23, <2>1 DEF SkipPanel, BansTypeOK
<1>24. ASSUME NEW n \in Panels, Repair(n) \/ RepairLost(n)
       PROVE  BansTypeOK'
  <2>1. task' \in [Workers -> Tasks] /\ ~task'["scan"].want
    BY <1>1, <1>19, <1>24 DEF Repair, RepairLost
  <2>2. me.want \in BOOLEAN /\ n \notin Kernels
    BY <1>2, BansAssumption DEF me, Workers, Tasks
  <2>3. client' \in {client, [client EXCEPT ![n] = "on"],
                     [client EXCEPT ![n] = Switched(n, me.want)]}
    BY <1>24 DEF Repair, RepairLost
  <2>4. client' \in [Nodes -> ClientStates] /\ \A m \in Kernels : client'[m] # "off"
    <3>1. "on" \in ClientStates
      BY DEF ClientStates
    <3>2. QED
      BY <1>1, <2>2, <2>3, <3>1, SwitchTyped, WriteTyped
  <2>5. QED
    <3>1. UNCHANGED <<row, dates, health, stale, changes>> /\ faults' \in Nat
      <4>1. UNCHANGED <<row, dates, health, stale, changes>> /\ faults' \in {faults, faults + 1}
        BY <1>24 DEF Repair, RepairLost
      <4>2. faults' \in Nat
        BY <1>rest, <4>1
      <4>3. QED
        BY <4>1, <4>2
    <3>2. QED
      BY <1>1, <1>rest, <2>1, <2>4, <3>1 DEF BansTypeOK
<1>25. ASSUME NEW n \in Kernels, CompareKernel(n)
       PROVE  BansTypeOK'
  <2>1. (me.want = me.flagged) \in BOOLEAN /\ stale' \subseteq Kernels
    BY <1>25 DEF CompareKernel, BansTypeOK
  <2>2. task' \in [Workers -> Tasks] /\ ~task'["scan"].want
    BY <1>1, <1>19, <1>25, <2>1 DEF CompareKernel
  <2>3. QED
    BY <1>25, <2>1, <2>2 DEF CompareKernel, BansTypeOK
<1>26. ASSUME NEW n \in Kernels, SkipKernel(n)
       PROVE  BansTypeOK'
  <2>1. task' \in [Workers -> Tasks] /\ ~task'["scan"].want
    BY <1>1, <1>19, <1>26 DEF SkipKernel
  <2>2. QED
    BY <1>26, <2>1 DEF SkipKernel, BansTypeOK
<1>27. ASSUME NEW n \in Kernels, Render(n)
       PROVE  BansTypeOK'
  <2>1. client' \in {[client EXCEPT ![n] = "on"], [client EXCEPT ![n] = "absent"]}
    BY <1>27 DEF Render
  <2>2. client' \in [Nodes -> ClientStates] /\ \A m \in Kernels : client'[m] # "off"
    <3>1. "on" \in ClientStates /\ "absent" \in ClientStates
      BY DEF ClientStates
    <3>2. QED
      BY <1>1, <2>1, <3>1, WriteTyped
  <2>3. QED
    BY <1>27, <2>2 DEF Render, BansTypeOK
<1>28. CASE SpendTotal \/ SpendMonth \/ MonthPasses \/ MarkerAges \/ CheckHealth
  <2>1. UNCHANGED <<client, stale, task, next>>
    BY <1>28 DEF SpendTotal, SpendMonth, MonthPasses, MarkerAges, CheckHealth
  <2>2. /\ month' \in {month, month + 1} /\ changes' \in {changes, changes + 1} /\ faults' = faults
        /\ marker' \in {marker, "old"} /\ account' = account
        /\ spent' \in {spent, TRUE} /\ drained' \in {drained, TRUE}
    BY <1>28 DEF SpendTotal, SpendMonth, MonthPasses, MarkerAges, CheckHealth
  <2>2a. month' \in Nat /\ changes' \in Nat /\ faults' \in Nat
    BY <1>rest, <2>2
  <2>2b. /\ marker' \in Markers
         /\ account' \in BOOLEAN /\ spent' \in BOOLEAN /\ drained' \in BOOLEAN
    BY <1>rest, <2>2 DEF Markers
  <2>3. up' \subseteq Panels /\ online' \subseteq Panels
    BY <1>28, <1>rest DEF SpendTotal, SpendMonth, MonthPasses, MarkerAges, CheckHealth
  <2>4. QED
    BY <1>1, <1>rest, <2>1, <2>2a, <2>2b, <2>3 DEF BansTypeOK
<1>29. ASSUME NEW n \in Panels, PanelStops(n) \/ PanelReturns(n)
       PROVE  BansTypeOK'
  BY <1>29 DEF PanelStops, PanelReturns, BansTypeOK
<1>30. CASE Crash
  BY <1>30, FreshTasks DEF Crash, BansTypeOK, Workers
<1>31. \A w \in {"scan", "reset", "delivery", "switch", "reconcile"} :
         Toggling(w) => BansTypeOK'
  BY <1>4, <1>5, <1>7 DEF Toggling, Workers
<1>32. Scanning \/ Resetting \/ Delivering \/ Switching \/ Reconciling => BansTypeOK'
  BY <1>1, <1>8, <1>9, <1>10, <1>12, <1>13, <1>15, <1>17, <1>18, <1>21, <1>23, <1>24, <1>25, <1>31
  DEF Scanning, Resetting, Delivering, Switching, Reconciling
<1>33. QED
  BY <1>6, <1>11, <1>14, <1>16, <1>22, <1>24, <1>26, <1>27, <1>28, <1>29, <1>30, <1>32 DEF BansNext

\* The first states are typed.
LEMMA BansTypeInit == BansInit => BansTypeOK
<1>1. SUFFICES ASSUME BansInit
               PROVE  BansTypeOK
  OBVIOUS
<1>2. Idle \in Tasks /\ ~Idle.want
  BY FreshTasks
<1>3. client \in [Nodes -> ClientStates] /\ \A n \in Kernels : client[n] # "off"
  BY <1>1 DEF BansInit, ClientStates, Nodes
<1>4. QED
  BY <1>1, <1>2, <1>3 DEF BansInit, BansTypeOK, Markers, Workers

\* A stuttering step keeps the types.
LEMMA BansTypeStutter ==
  ASSUME BansTypeOK, UNCHANGED vars
  PROVE  BansTypeOK'
BY DEF BansTypeOK, vars, row, dates, health

\* Every reachable state is typed, for every set of nodes and every bound.
THEOREM BansTyped == BansSpec => []BansTypeOK
<1>1. BansTypeOK /\ [BansNext]_vars => BansTypeOK'
  BY BansTypeStep, BansTypeStutter
<1>2. QED
  BY <1>1, BansTypeInit, PTL DEF BansSpec

-----------------------------------------------------------------------------
\* Only a reset whose date has come, a payment and time move the two dates.
LEMMA ResetOnceStep ==
  ASSUME BansTypeOK, ResetOnce, [BansNext]_vars
  PROVE  ResetOnce'
<1>1. month \in Nat /\ next \in Nat /\ next <= month + 1
  BY DEF BansTypeOK, ResetOnce
<1>2. \/ next' = next /\ month' = month
      \/ next <= month /\ next' = next + 1 /\ month' = month
      \/ next' = month + 1 /\ month' = month
      \/ next' = next /\ month' = month + 1
  <2> USE DEF dates
  <2>1. CASE UNCHANGED vars
    BY <2>1 DEF vars
  <2>2. ASSUME NEW w \in Workers, Toggling(w)
        PROVE  next' = next /\ month' = month
    BY <2>2 DEF Toggling, FindNodes, ToggleEnds, Apply
  <2>3. ASSUME NEW w \in Workers, Judge(w)
        PROVE  next' = next /\ month' = month
    BY <2>3 DEF Judge
  <2>4. CASE Scanning
    BY <2>2, <2>4 DEF Scanning, ScanUser, Workers
  <2>5. CASE Resetting
    BY <2>2, <2>5 DEF Resetting, FindDue, ResetRow, Workers
  <2>6. CASE Delivering
    BY <2>2, <2>3, <2>6 DEF Delivering, DeliveryStarts, ProvideEnds, Provide, Workers
  <2>7. CASE Switching
    BY <2>2, <2>3, <2>7 DEF Switching, Workers
  <2>8. CASE Reconciling
    BY <2>2, <2>8
    DEF Reconciling, ReadUsers, ReadList, SkipPanel, Repair, CompareKernel, Workers
  <2>9. CASE Pay \/ SwitchAccount \/ SpendTotal \/ SpendMonth \/ MonthPasses \/ MarkerAges
             \/ CheckHealth \/ Crash
    BY <2>9 DEF Pay, SwitchAccount, SpendTotal, SpendMonth, MonthPasses, MarkerAges, CheckHealth, Crash
  <2>10. CASE \/ \E w \in Workers, n \in Nodes : ApplyLost(w, n)
              \/ \E n \in Nodes : ProvideLost(n)
              \/ \E n \in Panels : ReadCachedList(n) \/ RepairLost(n) \/ PanelStops(n) \/ PanelReturns(n)
              \/ \E n \in Kernels : SkipKernel(n) \/ Render(n)
    BY <2>10 DEF ApplyLost, ProvideLost, ReadCachedList, RepairLost, PanelStops, PanelReturns,
                 SkipKernel, Render
  <2>11. QED
    BY <2>1, <2>4, <2>5, <2>6, <2>7, <2>8, <2>9, <2>10 DEF BansNext
<1>3. QED
  BY <1>1, <1>2 DEF ResetOnce

\* No reset is taken twice, however resets, payments and months interleave.
THEOREM ResetsOnce == BansSpec => []ResetOnce
<1>1. BansInit => ResetOnce
  BY DEF BansInit, ResetOnce
<1>2. QED
  BY <1>1, BansTyped, ResetOnceStep, PTL DEF BansSpec
=============================================================================
