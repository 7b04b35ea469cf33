----------------------------- MODULE TrafficBans -----------------------------
(***************************************************************************)
(* Cutting a user off and opening again, over all nodes.  One user with a  *)
(* period plan.  Five kinds of work decide from rows they have read        *)
(* earlier and write to the nodes one by one, without a lock between them: *)
(* the ban scan and the ban part of the traffic round                      *)
(* (server/internal/collector/ban.go, sync.go), the monthly reset          *)
(* (reset.go), the delivery after a payment (server/cmd/server/            *)
(* userdelivery.go, userops.go), the account switch of an administrator    *)
(* (handler/admin/user.go), and the reconciliation (reconcile.go,          *)
(* reconcile_bare.go), which repairs what they leave.                      *)
(*                                                                         *)
(* The client of a 3x-ui panel is written over HTTP and may be missing,    *)
(* off or on.  An xray kernel gets commands (confirmed once they are       *)
(* queued, NodeCommands takes them from there) and, after a bump, the      *)
(* rendered list of users (NodeSync).                                      *)
(*                                                                         *)
(* Not modelled: users without a plan, quotas and dates as amounts (two    *)
(* flags say whether a limit is reached), inbounds of a node, the          *)
(* fingerprint shortcut (NodeSync), writes beyond the limit of a round,    *)
(* mails and reports.                                                      *)
(***************************************************************************)
EXTENDS Integers, FiniteSets

CONSTANTS Panels,      \* nodes of driver 3x-ui
          Kernels,     \* nodes of driver xray
          MaxAtWork,   \* bound of the model: workers at work at one time
          MaxChanges,  \* bound of the model: limits reached, payments, switches, months
          MaxFaults    \* bound of the model: lost calls, stale lists, crashes, outages

ASSUME BansAssumption ==
  /\ Panels \cap Kernels = {}
  /\ MaxAtWork \in Nat /\ MaxChanges \in Nat /\ MaxFaults \in Nat

Nodes == Panels \cup Kernels
Workers == {"scan", "reset", "delivery", "switch", "reconcile"}

VARIABLES account,  \* users.enabled
          spent,    \* the total is used up, or the plan has expired
          drained,  \* the month is used up
          marker,   \* traffic_disabled_at: none, recent (under six hours) or old
          month,    \* the month it is
          next,     \* next_traffic_reset_at
          client,   \* client[n]: what the node does with the user
          up,       \* the panels that answer
          online,   \* the panels whose nodes.status is online
          stale,    \* the kernels with a bumped config_version
          task,     \* task[w]: where a worker is, and what it has read
          changes, faults

row == <<account, spent, drained, marker>>
dates == <<month, next>>
health == <<up, online>>
vars == <<row, dates, client, health, stale, task, changes, faults>>

Markers == {"none", "recent", "old"}
ClientStates == {"absent", "off", "on"}
\* at: a toggle of want is decided ("toggle") and under way ("nodes"); todo are the
\* nodes left, ok whether all so far have confirmed, book whether the marker follows.
Places == {"idle", "due", "queued", "provision", "judge", "compare", "toggle", "nodes"}
Tasks == [at : Places, want : BOOLEAN, book : BOOLEAN, ok : BOOLEAN, todo : SUBSET Nodes,
          flagged : BOOLEAN, enabled : BOOLEAN, seen : [Panels -> ClientStates \cup {"unread"}]]
Unread == [n \in Panels |-> "unread"]
Idle == [at |-> "idle", want |-> FALSE, book |-> FALSE, ok |-> FALSE, todo |-> {},
         flagged |-> FALSE, enabled |-> FALSE, seen |-> Unread]

\* A limit may just have been reached, the month just be over, the user not yet
\* be registered on a panel; nobody has acted on it.
BansInit ==
  /\ account = TRUE /\ spent \in BOOLEAN /\ drained \in BOOLEAN /\ marker = "none"
  /\ month \in {0, 1} /\ (spent => month = 0) /\ next = 1
  /\ \E missing \in SUBSET Panels :
       client = [n \in Nodes |-> IF n \in missing THEN "absent" ELSE "on"]
  /\ up = Panels /\ online = Panels /\ stale = {}
  /\ task = [w \in Workers |-> Idle]
  /\ changes = 0 /\ faults = 0

Change == changes < MaxChanges /\ changes' = changes + 1
Fault == faults < MaxFaults /\ faults' = faults + 1

-----------------------------------------------------------------------------
(* Judging a row, and writing to a node *)

\* banReasonAt
BanReason == spent \/ drained
\* reconcileUsers: what the panel wants.
Intent == account /\ ~BanReason
\* eligibleUsers and renderEligible: who is in the configuration of a kernel.
Eligible(enabled, flagged) == enabled /\ ~flagged

\* enabledNodes without the panels that are offline.
Reachable == Kernels \cup online
\* What a write leaves: a client that is missing on a panel stays so.
Switched(n, want) ==
  IF n \in Kernels THEN IF want THEN "on" ELSE "absent"
  ELSE IF client[n] = "absent" THEN "absent" ELSE IF want THEN "on" ELSE "off"
\* What adding or updating leaves.
Provided(n, enabled) == IF n \in Kernels \/ enabled THEN "on" ELSE "off"
\* applyEnableOnNode: a missing client is off, but it cannot be opened.
Confirms(n, want) == n \in Kernels \/ (n \in up /\ (client[n] = "absent" => ~want))

Toggle(want, book) == [Idle EXCEPT !.at = "toggle", !.want = want, !.book = book]
Become(w, t) == task' = [task EXCEPT ![w] = t]
MayStart(w) ==
  /\ task[w].at = "idle"
  /\ Cardinality({v \in Workers : task[v].at # "idle"}) < MaxAtWork

-----------------------------------------------------------------------------
(* toggleClient, whoever calls it *)

FindNodes(w) ==
  /\ task[w].at = "toggle"
  /\ Become(w, IF Reachable = {} THEN Idle
               ELSE [task[w] EXCEPT !.at = "nodes", !.ok = TRUE, !.todo = Reachable])
  /\ UNCHANGED <<row, dates, client, health, stale, changes, faults>>

Apply(w, n) ==
  /\ task[w].at = "nodes" /\ n \in task[w].todo
  /\ Become(w, [task[w] EXCEPT !.todo = @ \ {n}, !.ok = @ /\ Confirms(n, task[w].want)])
  /\ client' = IF n \in up \cup Kernels
               THEN [client EXCEPT ![n] = Switched(n, task[w].want)] ELSE client
  /\ UNCHANGED <<row, dates, health, stale, changes, faults>>

\* The call fails or its answer is lost; it may have been carried out.
ApplyLost(w, n) ==
  /\ task[w].at = "nodes" /\ n \in task[w].todo
  /\ Fault
  /\ Become(w, [task[w] EXCEPT !.todo = @ \ {n}, !.ok = FALSE])
  /\ client' \in {client, [client EXCEPT ![n] = Switched(n, task[w].want)]}
  /\ UNCHANGED <<row, dates, health, stale, changes>>

\* The marker is written or cleared when every node that was tried has confirmed.
ToggleEnds(w) ==
  /\ task[w].at = "nodes" /\ task[w].todo = {}
  /\ marker' = IF task[w].ok /\ task[w].book
               THEN IF task[w].want THEN "none" ELSE "recent" ELSE marker
  /\ Become(w, Idle)
  /\ UNCHANGED <<account, spent, drained, dates, client, health, stale, changes, faults>>

-----------------------------------------------------------------------------
(* The scan: ScanBans, and the ban part of RunTrafficSync *)

\* Mutant: the scan opens.
ScanUserWrongWay ==
  /\ MayStart("scan")
  /\ account /\ BanReason /\ marker # "recent"
  /\ Become("scan", Toggle(TRUE, TRUE))
  /\ UNCHANGED <<row, dates, client, health, stale, changes, faults>>
\* The rows of all users are read at the start; by the time it is the turn of
\* this one, the row may have changed.
ScanUser ==
  /\ MayStart("scan")
  /\ account /\ BanReason /\ marker # "recent"
  /\ Become("scan", Toggle(FALSE, TRUE))
  /\ UNCHANGED <<row, dates, client, health, stale, changes, faults>>

-----------------------------------------------------------------------------
(* The monthly reset: MonthlyReset *)

FindDue ==
  /\ MayStart("reset") /\ next <= month
  /\ Become("reset", [Idle EXCEPT !.at = "due"])
  /\ UNCHANGED <<row, dates, client, health, stale, changes, faults>>

\* Mutant: the statement does not repeat the condition on the date.
ResetRowOfCandidate ==
  /\ task["reset"].at = "due"
  /\ Become("reset", Toggle(TRUE, TRUE))
  /\ drained' = FALSE /\ next' = next + 1
  /\ UNCHANGED <<account, spent, marker, month, client, health, stale, changes, faults>>
\* resetMonthly: one conditional statement.  Then the user is opened, without
\* another look at the row.
ResetRow ==
  /\ task["reset"].at = "due"
  /\ IF next <= month
     THEN /\ Become("reset", Toggle(TRUE, TRUE))
          /\ drained' = FALSE /\ next' = next + 1
     ELSE /\ Become("reset", Idle)
          /\ UNCHANGED <<drained, next>>
  /\ UNCHANGED <<account, spent, marker, month, client, health, stale, changes, faults>>

-----------------------------------------------------------------------------
(* A payment and its delivery: ApplyPlanFields, SetUserEnabled, userDelivery.handle *)

\* The row (two statements, taken as one), and the job that is queued for it.
Pay ==
  /\ MayStart("delivery")
  /\ Change
  /\ spent' = FALSE /\ drained' = FALSE /\ account' = TRUE /\ next' = month + 1
  /\ Become("delivery", [Idle EXCEPT !.at = "queued"])
  /\ UNCHANGED <<marker, month, client, health, stale, faults>>

DeliveryStarts ==
  /\ task["delivery"].at = "queued"
  /\ Become("delivery", [Idle EXCEPT !.at = "provision", !.enabled = account, !.todo = Reachable])
  /\ UNCHANGED <<row, dates, client, health, stale, changes, faults>>

\* ProvisionUser; what fails is logged.
Provide(n) ==
  /\ task["delivery"].at = "provision" /\ n \in task["delivery"].todo
  /\ Become("delivery", [task["delivery"] EXCEPT !.todo = @ \ {n}])
  /\ client' = IF n \in up \cup Kernels
               THEN [client EXCEPT ![n] = Provided(n, task["delivery"].enabled)] ELSE client
  /\ UNCHANGED <<row, dates, health, stale, changes, faults>>

ProvideLost(n) ==
  /\ task["delivery"].at = "provision" /\ n \in task["delivery"].todo
  /\ Fault
  /\ Become("delivery", [task["delivery"] EXCEPT !.todo = @ \ {n}])
  /\ UNCHANGED <<row, dates, client, health, stale, changes>>

ProvideEnds ==
  /\ task["delivery"].at = "provision" /\ task["delivery"].todo = {}
  /\ Become("delivery", IF task["delivery"].enabled THEN [Idle EXCEPT !.at = "judge"] ELSE Idle)
  /\ UNCHANGED <<row, dates, client, health, stale, changes, faults>>

-----------------------------------------------------------------------------
(* The account switch: userUpdate, SetClientEnabled, SetNodesEnabled, EnableAccount *)

SwitchAccount ==
  /\ MayStart("switch")
  /\ Change
  /\ account' = ~account
  /\ Become("switch", IF account THEN Toggle(FALSE, FALSE) ELSE [Idle EXCEPT !.at = "judge"])
  /\ UNCHANGED <<spent, drained, marker, dates, client, health, stale, faults>>

\* EnableAccount: the limits decide, not the switch.
Judge(w) ==
  /\ task[w].at = "judge"
  /\ Become(w, Toggle(~BanReason, TRUE))
  /\ UNCHANGED <<row, dates, client, health, stale, changes, faults>>

-----------------------------------------------------------------------------
(* The reconciliation: ReconcileNodes *)

me == task["reconcile"]

\* Mutant: the candidates are those without a marker.
ReadUsersUnmarked ==
  /\ MayStart("reconcile") /\ Reachable # {} /\ marker = "none"
  /\ Become("reconcile", [Idle EXCEPT !.at = "compare", !.want = Intent, !.enabled = account,
                                      !.flagged = (marker # "none"), !.todo = Reachable])
  /\ UNCHANGED <<row, dates, client, health, stale, changes, faults>>
\* reconcileUsers and enabledNodes.  ok says whether a toggle is called for in the end.
ReadUsers ==
  /\ MayStart("reconcile") /\ Reachable # {}
  /\ Become("reconcile", [Idle EXCEPT !.at = "compare", !.want = Intent, !.enabled = account,
                                      !.flagged = (marker # "none"), !.todo = Reachable])
  /\ UNCHANGED <<row, dates, client, health, stale, changes, faults>>

Comparing(n) == me.at = "compare" /\ n \in me.todo
\* After the last node the marker and every node follow, when that is called for.
Leave(n, called) ==
  Become("reconcile",
    IF me.todo # {n} THEN [me EXCEPT !.todo = @ \ {n}, !.ok = @ \/ called,
                                     !.seen = IF n \in Panels THEN [@ EXCEPT ![n] = "unread"] ELSE @]
    ELSE IF me.ok \/ called THEN Toggle(me.want, TRUE) ELSE Idle)

\* The list of a panel is read as a whole; the user is compared later.
ReadList(n) ==
  /\ Comparing(n) /\ n \in up /\ me.seen[n] = "unread"
  /\ Become("reconcile", [me EXCEPT !.seen[n] = client[n]])
  /\ UNCHANGED <<row, dates, client, health, stale, changes, faults>>

\* ... from the cache of 75 seconds (inbound_cache.go), as old as it may be.
ReadCachedList(n) ==
  /\ Comparing(n) /\ n \in Panels /\ me.seen[n] = "unread"
  /\ Fault
  /\ \E c \in ClientStates : Become("reconcile", [me EXCEPT !.seen[n] = c])
  /\ UNCHANGED <<row, dates, client, health, stale, changes>>

\* A panel that cannot be read is left alone.
SkipPanel(n) ==
  /\ Comparing(n) /\ n \in Panels \ up
  /\ Leave(n, FALSE)
  /\ UNCHANGED <<row, dates, client, health, stale, changes, faults>>

\* Mutant: only what is closed is put right.
RepairOnlyOpens(n) ==
  /\ Comparing(n) /\ n \in up /\ me.seen[n] # "unread"
  /\ IF me.seen[n] = "off" /\ me.want /\ Confirms(n, me.want)
     THEN /\ client' = [client EXCEPT ![n] = Switched(n, me.want)]
          /\ Leave(n, TRUE)
     ELSE /\ UNCHANGED client
          /\ Leave(n, FALSE)
  /\ UNCHANGED <<row, dates, health, stale, changes, faults>>
\* reconcileOnNode: register whom the list does not show, switch whom it shows
\* the wrong way.
Repair(n) ==
  /\ Comparing(n) /\ n \in up /\ me.seen[n] # "unread"
  /\ \/ /\ me.seen[n] = "absent" /\ me.want /\ client[n] = "absent"
        /\ client' = [client EXCEPT ![n] = "on"]
        /\ Leave(n, TRUE)
     \/ /\ me.seen[n] = (IF me.want THEN "off" ELSE "on") /\ Confirms(n, me.want)
        /\ client' = [client EXCEPT ![n] = Switched(n, me.want)]
        /\ Leave(n, TRUE)
     \/ /\ ~(me.seen[n] = "absent" /\ me.want /\ client[n] = "absent")
        /\ ~(me.seen[n] = (IF me.want THEN "off" ELSE "on") /\ Confirms(n, me.want))
        /\ Leave(n, FALSE)
        /\ UNCHANGED client
  /\ UNCHANGED <<row, dates, health, stale, changes, faults>>

RepairLost(n) ==
  /\ Comparing(n) /\ n \in up /\ me.seen[n] # "unread"
  /\ Fault
  /\ client' \in {client, [client EXCEPT ![n] = Switched(n, me.want)]}
  /\ Leave(n, FALSE)
  /\ UNCHANGED <<row, dates, health, stale, changes>>

\* reconcileBareOnNode compares with the rendered list and bumps;
\* markIfContradictory compares the marker with what is wanted.
CompareKernel(n) ==
  /\ Comparing(n) /\ n \in Kernels
  /\ stale' = IF (client[n] = "on") # Eligible(me.enabled, me.flagged) THEN stale \cup {n} ELSE stale
  /\ Leave(n, me.want = me.flagged)
  /\ UNCHANGED <<row, dates, client, health, changes, faults>>

SkipKernel(n) ==
  /\ Comparing(n) /\ n \in Kernels
  /\ Fault
  /\ Leave(n, FALSE)
  /\ UNCHANGED <<row, dates, client, health, stale, changes>>

\* The agent fetches what is rendered now and restarts the kernel.
Render(n) ==
  /\ n \in stale
  /\ client' = [client EXCEPT ![n] = IF Eligible(account, marker # "none") THEN "on" ELSE "absent"]
  /\ stale' = stale \ {n}
  /\ UNCHANGED <<row, dates, health, task, changes, faults>>

-----------------------------------------------------------------------------
(* The user, time, the panels and the process *)

SpendTotal ==
  /\ ~spent /\ Change
  /\ spent' = TRUE
  /\ UNCHANGED <<account, drained, marker, dates, client, health, stale, task, faults>>

SpendMonth ==
  /\ ~drained /\ Change
  /\ drained' = TRUE
  /\ UNCHANGED <<account, spent, marker, dates, client, health, stale, task, faults>>

MonthPasses ==
  /\ Change
  /\ month' = month + 1
  /\ UNCHANGED <<row, next, client, health, stale, task, faults>>

\* Six hours.
MarkerAges ==
  /\ marker = "recent" /\ Change
  /\ marker' = "old"
  /\ UNCHANGED <<account, spent, drained, dates, client, health, stale, task, faults>>

PanelStops(n) ==
  /\ n \in up /\ Fault
  /\ up' = up \ {n}
  /\ UNCHANGED <<row, dates, client, online, stale, task, changes>>

PanelReturns(n) ==
  /\ n \in Panels \ up
  /\ up' = up \cup {n}
  /\ UNCHANGED <<row, dates, client, online, stale, task, changes, faults>>

\* CheckAllEnabled
CheckHealth ==
  /\ online # up
  /\ online' = up
  /\ UNCHANGED <<row, dates, client, up, stale, task, changes, faults>>

Crash ==
  /\ \E w \in Workers : task[w] # Idle
  /\ Fault
  /\ task' = [w \in Workers |-> Idle]
  /\ UNCHANGED <<row, dates, client, health, stale, changes>>

-----------------------------------------------------------------------------
Toggling(w) == FindNodes(w) \/ ToggleEnds(w) \/ (\E n \in Nodes : Apply(w, n))
Scanning == ScanUser \/ Toggling("scan")
Resetting == FindDue \/ ResetRow \/ Toggling("reset")
Delivering ==
  \/ DeliveryStarts \/ ProvideEnds \/ Judge("delivery") \/ Toggling("delivery")
  \/ \E n \in Nodes : Provide(n)
Switching == Judge("switch") \/ Toggling("switch")
Reconciling ==
  \/ ReadUsers \/ Toggling("reconcile")
  \/ \E n \in Panels : ReadList(n) \/ SkipPanel(n) \/ Repair(n)
  \/ \E n \in Kernels : CompareKernel(n)

BansNext ==
  \/ Scanning \/ Resetting \/ Delivering \/ Switching \/ Reconciling
  \/ Pay \/ SwitchAccount \/ SpendTotal \/ SpendMonth \/ MonthPasses
  \/ MarkerAges \/ CheckHealth \/ Crash
  \/ \E w \in Workers, n \in Nodes : ApplyLost(w, n)
  \/ \E n \in Nodes : ProvideLost(n)
  \/ \E n \in Panels : ReadCachedList(n) \/ RepairLost(n) \/ PanelStops(n) \/ PanelReturns(n)
  \/ \E n \in Kernels : SkipKernel(n) \/ Render(n)

BansSpec == BansInit /\ [][BansNext]_vars

\* Every scheduled round comes and runs to its end, panels come back and are
\* found online again, a kernel fetches what was bumped.  That the marker ages
\* is not assumed.
FairBansSpec ==
  /\ BansSpec
  /\ WF_vars(Scanning) /\ WF_vars(Resetting) /\ WF_vars(Delivering)
  /\ WF_vars(Switching) /\ WF_vars(Reconciling)
  /\ WF_vars(CheckHealth)
  /\ \A n \in Panels : WF_vars(PanelReturns(n))
  /\ \A n \in Kernels : WF_vars(Render(n))

-----------------------------------------------------------------------------
BansTypeOK ==
  /\ account \in BOOLEAN /\ spent \in BOOLEAN /\ drained \in BOOLEAN
  /\ marker \in Markers /\ month \in Nat /\ next \in Nat
  /\ client \in [Nodes -> ClientStates] /\ \A n \in Kernels : client[n] # "off"
  /\ up \subseteq Panels /\ online \subseteq Panels /\ stale \subseteq Kernels
  /\ task \in [Workers -> Tasks]
  /\ ~task["scan"].want
  /\ changes \in Nat /\ faults \in Nat

\* The date of the next reset is never pushed more than a month ahead, although
\* a payment may move it between the choice of a candidate and its reset
\* (reset.go: only one of two can hit, the date is not moved by 60 days).
ResetOnce == next <= month + 1

\* A user who may not be served is cut off on every node in the end, whatever
\* was decided from old rows, lost, skipped while offline or opened by a reset
\* (ban.go: one node less and the user goes on from there).
CutOff == <>[](~account \/ spent \/ drained => \A n \in Nodes : client[n] # "on")

\* A user in good standing is served on every node in the end, although a scan
\* with an old row closed him after he had paid (payment_panel.go: the user who
\* has bought a plan and cannot connect anywhere).
Restored == <>[](account /\ ~spent /\ ~drained => \A n \in Nodes : client[n] = "on")
=============================================================================
