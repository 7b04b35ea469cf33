---------------------------- MODULE NodeCommands ----------------------------
(***************************************************************************)
(* The commands the panel queues for one node: rows of node_api_commands,  *)
(* the two carriers that claim them (the push loop over the WebSocket and  *)
(* the HTTP long poll), the connection registry of the panel, the agent    *)
(* that runs them in two goroutines, and the acknowledgements that settle  *)
(* the rows.  Commands are numbered as their rows; a batch is carried as   *)
(* the set of its commands (an agent runs a batch in the order of ids).    *)
(* Left out: payloads and outputs, and pruning of rows settled 30 days ago.*)
(***************************************************************************)
EXTENDS Integers, FiniteSets, Sequences, Functions

CONSTANTS Commands,     \* ids of the commands, in the order of insertion
          Conns,        \* WebSocket connections, numbered as they are dialled
          Polls,        \* request slots of POST /node-api/execute
          BatchSize,    \* commands claimed at once (5 in the code)
          MaxFaults     \* how many faults may happen in all (a bound)

Kinds == {"link", "panel", "agent", "claim", "loss", "flag"}

ASSUME CommandsAssumption == Commands \subseteq Nat
ASSUME ConnsAssumption == Conns \subseteq Nat \ {0}
ASSUME PollsAssumption == "push" \notin Polls /\ "none" \notin Polls
ASSUME BatchAssumption == BatchSize \in Nat \ {0}
ASSUME FaultsAssumption == MaxFaults \in Nat

VARIABLES
  status,       \* status[i]: the row of command i
  place,        \* place[i]: where copies of command i wait to be run
  ran,          \* ran[i]: outcomes of the runs of command i, at the agent
  results,      \* results[h]: outcomes handler h of the agent has still to send
  acks,         \* acknowledgements sent; each may reach the panel late, or twice
  claim,        \* claim[k]: progress of the push loop or of a long poll
  registry,     \* the connection the panel pushes to, 0 if none
  sock,         \* sock[c]: connection c, as the panel sees it
  up,           \* connections whose transport works
  link,         \* the connection the agent reads from, 0 if none
  polling,      \* the long poll the agent waits for, "none" if none
  agent,        \* "up", or "down" between a crash and the next registration
  online,       \* driver_config.ws.connected, the flag of the node list
  faults        \* faults[f]: faults so far

rows == <<status, ran>>
net == <<registry, sock, up, link, online>>
vars == <<status, place, ran, results, acks, claim, registry, sock, up, link,
          polling, agent, online, faults>>

Claimers == {"push"} \cup Polls
Handlers == {"ws", "http"}
Places == ({"claimed"} \X Claimers) \cup ({"wire"} \X Conns) \cup ({"todo"} \X Handlers)
Outcomes == [cmd : Commands, ok : BOOLEAN]
ClaimState == [at : {"idle", "wait", "claim"}, conn : Conns \cup {0}, todo : SUBSET Commands]
Idle == [at |-> "idle", conn |-> 0, todo |-> {}]
Waiting == [at |-> "wait", conn |-> 0, todo |-> {}]

At(p) == {i \in Commands : p \in place[i]}
Pending == {i \in Commands : status[i] = "pending"}
\* ORDER BY id LIMIT n
FirstPending == {i \in Pending : Cardinality({j \in Pending : j < i}) < BatchSize}
\* Mutant: a status that the list of a node does not know.
FinalAsReported(ok) == IF ok THEN "success" ELSE "error"
FinalOf(ok) == IF ok THEN "success" ELSE "failed"

\* The copies at p are gone, or have moved to q.
Dropped(p) == [i \in Commands |-> place[i] \ {p}]
Moved(p, q) == [i \in Commands |-> IF p \in place[i] THEN (place[i] \ {p}) \cup {q}
                                                     ELSE place[i]]
\* A fault of kind f happens.
Fault(f) == /\ FoldFunction(+, 0, faults) < MaxFaults
            /\ faults' = [faults EXCEPT ![f] = @ + 1]

CommandsInit ==
  /\ status = [i \in Commands |-> "absent"]
  /\ place = [i \in Commands |-> {}]
  /\ ran = [i \in Commands |-> <<>>]
  /\ results = [h \in Handlers |-> {}]
  /\ acks = {}
  /\ claim = [k \in Claimers |-> Idle]
  /\ registry = 0
  /\ sock = [c \in Conns |-> "unused"]
  /\ up = {}
  /\ link = 0
  /\ polling = "none"
  /\ agent = "up"
  /\ online = FALSE
  /\ faults = [f \in Kinds |-> 0]

-----------------------------------------------------------------------------
\* The panel: rows and claims.

\* Some handler of the panel inserts command i.
Enqueue(i) ==
  /\ status[i] = "absent"
  /\ \A j \in Commands : j < i => status[j] # "absent"
  /\ status' = [status EXCEPT ![i] = "pending"]
  /\ UNCHANGED <<place, ran, results, acks, claim, net, polling, agent, faults>>

\* The tick of the push loop finds a connection and pending rows.
PushTick ==
  /\ claim["push"].at = "idle"
  /\ registry # 0
  /\ Pending # {}
  /\ claim' = [claim EXCEPT !["push"] = [at |-> "claim", conn |-> registry,
                                         todo |-> FirstPending]]
  /\ UNCHANGED <<rows, place, results, acks, net, polling, agent, faults>>

\* A long poll looks again, every two seconds, and finds pending rows.
PollTick(p) ==
  /\ claim[p].at = "wait"
  /\ Pending # {}
  /\ claim' = [claim EXCEPT ![p] = [at |-> "claim", conn |-> 0, todo |-> FirstPending]]
  /\ UNCHANGED <<rows, place, results, acks, net, polling, agent, faults>>

\* A claim with one candidate less to try.
Without(cl, i) == [at |-> cl.at, conn |-> cl.conn, todo |-> cl.todo \ {i}]

\* Mutant: the claim without AND status = 'pending'.
AcknowledgeAnyway(k) ==
  \E i \in claim[k].todo :
    /\ claim[k].at = "claim"
    /\ \A j \in claim[k].todo : i <= j
    /\ claim' = [claim EXCEPT ![k] = Without(@, i)]
    /\ status' = [status EXCEPT ![i] = "acknowledged"]
    /\ place' = [place EXCEPT ![i] = @ \cup {<<"claimed", k>>}]
    /\ UNCHANGED <<ran, results, acks, net, polling, agent, faults>>

\* Claimer k moves its next candidate to acknowledged, unless another did.
Acknowledge(k) ==
  \E i \in claim[k].todo :
    /\ claim[k].at = "claim"
    /\ \A j \in claim[k].todo : i <= j
    /\ claim' = [claim EXCEPT ![k] = Without(@, i)]
    /\ IF status[i] = "pending"
         THEN /\ status' = [status EXCEPT ![i] = "acknowledged"]
              /\ place' = [place EXCEPT ![i] = @ \cup {<<"claimed", k>>}]
         ELSE UNCHANGED <<status, place>>
    /\ UNCHANGED <<ran, results, acks, net, polling, agent, faults>>

\* A statement of the claim fails: the rows acknowledged so far are not returned.
ClaimFails(k) ==
  /\ claim[k].at = "claim"
  /\ claim[k].todo # {}
  /\ Fault("claim")
  /\ place' = Dropped(<<"claimed", k>>)
  /\ claim' = [claim EXCEPT ![k] = Idle]
  /\ polling' = IF polling = k THEN "none" ELSE polling
  /\ UNCHANGED <<rows, results, acks, net, agent>>

\* The push loop writes the batch to the connection it read before the claim; the
\* error of a closed connection is dropped, and the batch with it.
Push ==
  LET c == claim["push"].conn IN
  /\ claim["push"].at = "claim"
  /\ claim["push"].todo = {}
  /\ place' = IF c \in up THEN Moved(<<"claimed", "push">>, <<"wire", c>>)
                          ELSE Dropped(<<"claimed", "push">>)
  /\ claim' = [claim EXCEPT !["push"] = Idle]
  /\ UNCHANGED <<rows, results, acks, net, polling, agent, faults>>

\* A long poll that claimed something answers: the agent runs the batch if it still
\* waits for this request, and never sees it otherwise.
Respond(p) ==
  /\ claim[p].at = "claim"
  /\ claim[p].todo = {}
  /\ At(<<"claimed", p>>) # {}
  /\ place' = IF polling = p THEN Moved(<<"claimed", p>>, <<"todo", "http">>)
                             ELSE Dropped(<<"claimed", p>>)
  /\ polling' = IF polling = p THEN "none" ELSE polling
  /\ claim' = [claim EXCEPT ![p] = Idle]
  /\ UNCHANGED <<rows, results, acks, net, agent, faults>>

\* Every candidate was claimed by the other carrier: the poll waits on.
LostTheRace(p) ==
  /\ claim[p].at = "claim"
  /\ claim[p].todo = {}
  /\ At(<<"claimed", p>>) = {}
  /\ claim' = [claim EXCEPT ![p] = Waiting]
  /\ UNCHANGED <<rows, place, results, acks, net, polling, agent, faults>>

\* The poll ends with nothing: after twenty seconds, or because the request is gone.
PollEnds(p) ==
  /\ claim[p].at = "wait"
  /\ Pending = {} \/ polling # p
  /\ claim' = [claim EXCEPT ![p] = Idle]
  /\ polling' = IF polling = p THEN "none" ELSE polling
  /\ UNCHANGED <<rows, place, results, acks, net, agent, faults>>

\* Mutant: the row is looked up as the claim looks it up.
ApplyAckToPending(a) ==
  /\ a \in acks
  /\ status[a.cmd] = "pending"
  /\ status' = [status EXCEPT ![a.cmd] = FinalOf(a.ok)]
  /\ UNCHANGED <<place, ran, results, acks, claim, net, polling, agent, faults>>

\* An acknowledgement reaches the panel; the row is written whatever it holds.
ApplyAck(a) ==
  /\ a \in acks
  /\ status' = [status EXCEPT ![a.cmd] = FinalOf(a.ok)]
  /\ UNCHANGED <<place, ran, results, acks, claim, net, polling, agent, faults>>

-----------------------------------------------------------------------------
\* The panel: connections.

\* The handshake is authenticated: the connection enters the registry, the one it
\* replaces is closed.
Accept(c) ==
  /\ sock[c] = "handshake"
  /\ sock' = [sock EXCEPT ![c] = "open"]
  /\ registry' = c
  /\ up' = up \ ({registry} \ {c})
  /\ UNCHANGED <<rows, place, results, acks, claim, link, polling, agent, online, faults>>

\* A hello or a report is handled: the flag is raised.
Report(c) ==
  /\ sock[c] = "open"
  /\ online' = TRUE
  /\ UNCHANGED <<rows, place, results, acks, claim, registry, sock, up, link, polling,
                 agent, faults>>

\* Mutant: the registry forgets whatever connection the node has.
ForgetAny(c) ==
  /\ sock[c] = "open"
  /\ c \notin up
  /\ sock' = [sock EXCEPT ![c] = "closing"]
  /\ registry' = 0
  /\ UNCHANGED <<rows, place, results, acks, claim, up, link, polling, agent, online, faults>>

\* The read loop of a dead connection ends (an error, or the heartbeat closed it):
\* the registry forgets it, if it still holds this connection.
Forget(c) ==
  /\ sock[c] = "open"
  /\ c \notin up
  /\ sock' = [sock EXCEPT ![c] = "closing"]
  /\ registry' = IF registry = c THEN 0 ELSE registry
  /\ UNCHANGED <<rows, place, results, acks, claim, up, link, polling, agent, online, faults>>

\* Mutant: the flag is lowered only by the connection the registry holds, asked after the
\* registry has forgotten it.
MarkOfflineIfHeld(c) ==
  /\ sock[c] = "closing"
  /\ sock' = [sock EXCEPT ![c] = "closed"]
  /\ online' = (online /\ registry # c)
  /\ UNCHANGED <<rows, place, results, acks, claim, registry, up, link, polling, agent, faults>>

\* ... and then the flag is lowered, whatever happened to the node in between; a refused
\* statement is only logged.
MarkOffline(c) ==
  /\ sock[c] = "closing"
  /\ sock' = [sock EXCEPT ![c] = "closed"]
  /\ \/ online' = FALSE /\ UNCHANGED faults
     \/ Fault("flag") /\ UNCHANGED online
  /\ UNCHANGED <<rows, place, results, acks, claim, registry, up, link, polling, agent>>

\* The panel restarts: claims under way, the registry and the connections are gone;
\* rows stay as they are and no flag is lowered.
PanelRestart ==
  /\ Fault("panel")
  /\ place' = [i \in Commands |-> place[i] \ ({"claimed"} \X Claimers)]
  /\ claim' = [k \in Claimers |-> Idle]
  /\ registry' = 0
  /\ sock' = [c \in Conns |-> IF sock[c] = "unused" THEN "unused" ELSE "closed"]
  /\ up' = {}
  /\ polling' = "none"
  /\ UNCHANGED <<rows, results, acks, link, agent, online>>

-----------------------------------------------------------------------------
\* The agent.

\* The agent dials the next connection; the heartbeat of the panel may cut it at
\* any time, as the network may.
Dial(c) ==
  /\ agent = "up"
  /\ link = 0
  /\ sock[c] = "unused"
  /\ \A d \in Conns : d < c => sock[d] # "unused"
  /\ link' = c
  /\ up' = up \cup {c}
  /\ sock' = [sock EXCEPT ![c] = "handshake"]
  /\ UNCHANGED <<rows, place, results, acks, claim, registry, polling, agent, online, faults>>

BreakLink(c) ==
  /\ c \in up
  /\ Fault("link")
  /\ up' = up \ {c}
  /\ UNCHANGED <<rows, place, results, acks, claim, registry, sock, link, polling, agent, online>>

\* A batch that was pushed is read, once the batch before it is acknowledged.
Receive ==
  \E B \in SUBSET At(<<"wire", link>>) :
    /\ B # {}
    /\ At(<<"todo", "ws">>) = {} /\ results["ws"] = {}
    /\ place' = [i \in Commands |-> IF i \in B
                   THEN (place[i] \ {<<"wire", link>>}) \cup {<<"todo", "ws">>}
                   ELSE place[i]]
    /\ UNCHANGED <<rows, results, acks, claim, net, polling, agent, faults>>

\* Handler h runs the next command of its batch; the two handlers run side by side.
Run(h) ==
  \E i \in At(<<"todo", h>>), ok \in BOOLEAN :
    /\ \A j \in At(<<"todo", h>>) : i <= j
    /\ place' = [place EXCEPT ![i] = @ \ {<<"todo", h>>}]
    /\ ran' = [ran EXCEPT ![i] = Append(@, ok)]
    /\ results' = [results EXCEPT ![h] = @ \cup {[cmd |-> i, ok |-> ok]}]
    /\ UNCHANGED <<status, acks, claim, net, polling, agent, faults>>

\* The batch is done: its results are sent, once; over a broken connection, or with
\* a failed request, they are lost.  (A request repeated on the second address of
\* the panel is the same acknowledgement applied twice.)
SendAcks(h) ==
  /\ results[h] # {}
  /\ At(<<"todo", h>>) = {}
  /\ \/ h = "ws" /\ link \notin up /\ UNCHANGED <<acks, faults>>
     \/ (h = "http" \/ link \in up) /\ acks' = acks \cup results[h] /\ UNCHANGED faults
     \/ (h = "http" \/ link \in up) /\ Fault("loss") /\ UNCHANGED acks
  /\ results' = [results EXCEPT ![h] = {}]
  /\ UNCHANGED <<rows, place, claim, net, polling, agent>>

\* The read loop of the agent ends: what it had not read is gone with the socket.
Hangup ==
  /\ link # 0
  /\ link \notin up
  /\ At(<<"todo", "ws">>) = {} /\ results["ws"] = {}
  /\ place' = Dropped(<<"wire", link>>)
  /\ link' = 0
  /\ UNCHANGED <<rows, results, acks, claim, registry, sock, up, polling, agent, online, faults>>

\* Without a connection the agent asks for commands over HTTP, one batch at a time.
PollStart(p) ==
  /\ agent = "up"
  /\ link = 0
  /\ polling = "none"
  /\ At(<<"todo", "http">>) = {} /\ results["http"] = {}
  /\ claim[p].at = "idle"
  /\ claim' = [claim EXCEPT ![p] = Waiting]
  /\ polling' = p
  /\ UNCHANGED <<rows, place, results, acks, net, agent, faults>>

\* The request fails at the agent (a timeout, the other address is tried): its
\* handler at the panel may not have noticed.
GiveUp ==
  /\ polling # "none"
  /\ Fault("loss")
  /\ polling' = "none"
  /\ UNCHANGED <<rows, place, results, acks, claim, net, agent>>

\* The agent stops: a crash, a reboot, or the upgrade a command asked for.
AgentStops ==
  /\ agent = "up"
  /\ Fault("agent")
  /\ agent' = "down"
  /\ place' = [i \in Commands |->
                 place[i] \ (({"todo"} \X Handlers) \cup {<<"wire", link>>})]
  /\ results' = [h \in Handlers |-> {}]
  /\ up' = up \ {link}
  /\ link' = 0
  /\ polling' = "none"
  /\ UNCHANGED <<rows, acks, claim, registry, sock, online>>

\* The agent starts and registers, which lowers the flag.
Register ==
  /\ agent = "down"
  /\ agent' = "up"
  /\ online' = FALSE
  /\ UNCHANGED <<rows, place, results, acks, claim, registry, sock, up, link, polling, faults>>

-----------------------------------------------------------------------------
ClaimSteps(k) == Acknowledge(k) \/ ClaimFails(k)
PollSteps(p) == PollTick(p) \/ Respond(p) \/ LostTheRace(p) \/ PollEnds(p) \/ PollStart(p)
SocketSteps(c) == Accept(c) \/ Report(c) \/ Forget(c) \/ MarkOffline(c) \/ Dial(c)
                  \/ BreakLink(c)

CommandsNext ==
  \/ \E i \in Commands : Enqueue(i)
  \/ PushTick \/ Push
  \/ \E k \in Claimers : ClaimSteps(k)
  \/ \E p \in Polls : PollSteps(p)
  \/ \E a \in Outcomes : ApplyAck(a)
  \/ \E c \in Conns : SocketSteps(c)
  \/ \E h \in Handlers : Run(h) \/ SendAcks(h)
  \/ Receive \/ Hangup \/ GiveUp
  \/ PanelRestart \/ AgentStops \/ Register

CommandsSpec == CommandsInit /\ [][CommandsNext]_vars

\* Every goroutine keeps running: the push loop, the handler of a long poll, the
\* read loop of a connection (and the reports it reads), and the two loops of the
\* agent.  Nothing forces the agent to dial (the panel may have the WebSocket
\* disabled) nor anyone to ask for a command.
PushLoop == PushTick \/ Push \/ Acknowledge("push")
PollHandler(p) == PollTick(p) \/ Acknowledge(p) \/ Respond(p) \/ LostTheRace(p) \/ PollEnds(p)
ReadLoop(c) == Accept(c) \/ Forget(c) \/ MarkOffline(c)
WebSocketLoop == Receive \/ Run("ws") \/ SendAcks("ws") \/ Hangup
FallbackLoop == Run("http") \/ SendAcks("http") \/ \E p \in Polls : PollStart(p)

Fairness ==
  /\ WF_vars(PushLoop)
  /\ \A p \in Polls : WF_vars(PollHandler(p))
  /\ \A c \in Conns : WF_vars(ReadLoop(c)) /\ WF_vars(Report(c))
  /\ WF_vars(WebSocketLoop) /\ WF_vars(FallbackLoop) /\ WF_vars(Register)
  /\ \A a \in Outcomes : WF_vars(ApplyAck(a))

FairCommandsSpec == CommandsSpec /\ Fairness
-----------------------------------------------------------------------------
\* Every variable has its type.
CommandsTypeOK ==
  /\ status \in [Commands -> {"absent", "pending", "acknowledged", "success", "failed"}]
  /\ place \in [Commands -> SUBSET Places]
  /\ ran \in [Commands -> Seq(BOOLEAN)]
  /\ results \in [Handlers -> SUBSET Outcomes]
  /\ acks \subseteq Outcomes
  /\ claim \in [Claimers -> ClaimState]
  /\ registry \in Conns \cup {0}
  /\ sock \in [Conns -> {"unused", "handshake", "open", "closing", "closed"}]
  /\ up \subseteq Conns
  /\ link \in Conns \cup {0}
  /\ polling \in Polls \cup {"none"}
  /\ agent \in {"up", "down"}
  /\ online \in BOOLEAN
  /\ faults \in [Kinds -> Nat]

\* Both carriers together never deliver a command twice: a command has at most one
\* copy under way, none before it is claimed, and none once it ran (the claim of
\* ClaimPending; protocol.go:9-10).
HeldOnce ==
  \A i \in Commands :
    /\ \A p, q \in place[i] : p = q
    /\ place[i] # {} => status[i] = "acknowledged" /\ ran[i] = <<>>
    /\ Len(ran[i]) <= 1

\* A connection the agent is using is the one the panel pushes to, however late the
\* close of an older connection is handled (Registry.Add and Registry.Remove).
RegistryHoldsLink == \A c \in up : sock[c] = "open" => registry = c

\* What a row shows of its command.
RowStage(s) == CASE s = "absent" -> "none"
                 [] s = "pending" -> "queued"
                 [] s = "acknowledged" -> "taken"
                 [] OTHER -> s
stageShown == [i \in Commands |-> RowStage(status[i])]

\* A row shows a command as the run at the node left it: taken once, run once, and
\* settled on that outcome for ever, late and repeated acknowledgements included.
Channel == INSTANCE CommandChannel WITH stage <- stageShown, outcomes <- ran
ChannelSpec == Channel!Spec

\* Some carrier claims every pending command, whatever connections break and
\* restarts happen.
PendingIsTaken == \A i \in Commands : status[i] = "pending" ~> status[i] # "pending"

\* Nothing but a fault leaves a claimed command without an outcome for ever.
TakenIsSettled ==
  \A i \in Commands :
    status[i] = "acknowledged" ~> \/ status[i] \in {"success", "failed"}
                                  \/ \E f \in Kinds \ {"flag"} : faults[f] # 0

\* The flag of the node list comes to agree with a connection that lasts, though the
\* late close of an older one lowers it; and with a disconnection that lasts, unless
\* the panel itself restarted, or was refused the statement, and nobody lowered the flag.
FlagSettles ==
  /\ <>[](link \in up /\ sock[link] = "open") => <>[]online
  /\ <>[](link = 0 /\ faults["panel"] = 0 /\ faults["flag"] = 0) => <>[]~online

=============================================================================
