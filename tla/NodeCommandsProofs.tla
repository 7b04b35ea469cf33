------------------------- MODULE NodeCommandsProofs -------------------------
(***************************************************************************)
(* Proofs about NodeCommands, for any commands, connections and polls and  *)
(* for any number of faults: the types; the registry holds the connection  *)
(* the agent uses; a command is carried by one copy and runs once; and     *)
(* NodeCommands implements CommandChannel.                                 *)
(***************************************************************************)
EXTENDS NodeCommands, TLAPS

\* The disjuncts of the next-state relation, as one list of cases.
LEMMA StepCases ==
  ASSUME CommandsNext, NEW P,
         \A i \in Commands : Enqueue(i) => P,
         PushTick => P, Push => P,
         \A k \in Claimers : Acknowledge(k) => P,
         \A k \in Claimers : ClaimFails(k) => P,
         \A p \in Polls : PollTick(p) => P,
         \A p \in Polls : Respond(p) => P,
         \A p \in Polls : LostTheRace(p) => P,
         \A p \in Polls : PollEnds(p) => P,
         \A p \in Polls : PollStart(p) => P,
         \A a \in Outcomes : ApplyAck(a) => P,
         \A c \in Conns : Accept(c) => P,
         \A c \in Conns : Report(c) => P,
         \A c \in Conns : Forget(c) => P,
         \A c \in Conns : MarkOffline(c) => P,
         \A c \in Conns : Dial(c) => P,
         \A c \in Conns : BreakLink(c) => P,
         \A h \in Handlers : Run(h) => P,
         \A h \in Handlers : SendAcks(h) => P,
         Receive => P, Hangup => P, GiveUp => P,
         PanelRestart => P, AgentStops => P, Register => P
  PROVE  P
  BY Zenon DEF CommandsNext, ClaimSteps, PollSteps, SocketSteps

LEMMA FaultTyped ==
  ASSUME faults \in [Kinds -> Nat], NEW f \in Kinds, Fault(f)
  PROVE  faults' \in [Kinds -> Nat]
<1>1. faults' = [faults EXCEPT ![f] = @ + 1]
  BY DEF Fault
<1> QED BY <1>1

\* Every variable has its type (the columns of node_api_commands, the registry and
\* the two loops of the agent).
THEOREM CommandsTyped == CommandsSpec => []CommandsTypeOK
<1>1. CommandsInit => CommandsTypeOK
  <2> SUFFICES ASSUME CommandsInit PROVE CommandsTypeOK
    OBVIOUS
  <2>1. claim \in [Claimers -> ClaimState]
    BY DEF CommandsInit, ClaimState, Idle
  <2>2. ran \in [Commands -> Seq(BOOLEAN)]
    BY DEF CommandsInit
  <2> QED BY <2>1, <2>2 DEF CommandsInit, CommandsTypeOK
<1>2. CommandsTypeOK /\ [CommandsNext]_vars => CommandsTypeOK'
  <2> SUFFICES ASSUME CommandsTypeOK, [CommandsNext]_vars PROVE CommandsTypeOK'
    OBVIOUS
  <2>1. CASE UNCHANGED vars
    BY <2>1 DEF vars, rows, net, CommandsTypeOK
  <2>2. CASE CommandsNext
    <3> USE DEF CommandsTypeOK, rows, net
    <3>1. ASSUME NEW i \in Commands, Enqueue(i) PROVE CommandsTypeOK'
      BY <3>1 DEF Enqueue
    <3>2. ASSUME PushTick PROVE CommandsTypeOK'
      BY <3>2 DEF PushTick, ClaimState, Claimers, FirstPending, Pending
    <3>3. ASSUME Push PROVE CommandsTypeOK'
      BY <3>3 DEF Push, Dropped, Moved, Places, Idle, Waiting, ClaimState, Claimers
    <3>4. ASSUME NEW k \in Claimers, Acknowledge(k) PROVE CommandsTypeOK'
      <4> PICK i \in claim[k].todo :
            /\ claim' = [claim EXCEPT ![k] = Without(@, i)]
            /\ IF status[i] = "pending"
                 THEN /\ status' = [status EXCEPT ![i] = "acknowledged"]
                      /\ place' = [place EXCEPT ![i] = @ \cup {<<"claimed", k>>}]
                 ELSE UNCHANGED <<status, place>>
            /\ UNCHANGED <<ran, results, acks, net, polling, agent, faults>>
        BY <3>4 DEF Acknowledge
      <4>1. claim' \in [Claimers -> ClaimState] /\ i \in Commands
        BY DEF Without, ClaimState
      <4>2. <<"claimed", k>> \in Places
        BY DEF Places
      <4>3. place' \in [Commands -> SUBSET Places]
        <5> HIDE DEF Places
        <5>1. place \in [Commands -> SUBSET Places] /\ place[i] \in SUBSET Places
          BY <4>1
        <5>2. CASE status[i] = "pending"
          <6> DEFINE grown == place[i] \cup {<<"claimed", k>>}
          <6>1. grown \in SUBSET Places
            BY <5>1, <4>2
          <6>2. place' = [place EXCEPT ![i] = grown]
            BY <5>2
          <6> HIDE DEF grown
          <6> QED BY <5>1, <6>1, <6>2
        <5>3. CASE status[i] # "pending"
          BY <5>1, <5>3
        <5> QED BY <5>2, <5>3
      <4> QED BY <4>1, <4>3
    <3>5. ASSUME NEW k \in Claimers, ClaimFails(k) PROVE CommandsTypeOK'
      BY <3>5, FaultTyped DEF Kinds, ClaimFails, Dropped, Idle, ClaimState
    <3>6. ASSUME NEW p \in Polls, PollTick(p) PROVE CommandsTypeOK'
      BY <3>6 DEF PollTick, ClaimState, Claimers, FirstPending, Pending
    <3>7. ASSUME NEW p \in Polls, Respond(p) PROVE CommandsTypeOK'
      BY <3>7 DEF Respond, Dropped, Moved, Places, Idle, ClaimState, Claimers, Handlers
    <3>8. ASSUME NEW p \in Polls, LostTheRace(p) PROVE CommandsTypeOK'
      BY <3>8 DEF LostTheRace, Waiting, ClaimState, Claimers
    <3>9. ASSUME NEW p \in Polls, PollEnds(p) PROVE CommandsTypeOK'
      BY <3>9 DEF PollEnds, Idle, Waiting, ClaimState, Claimers
    <3>10. ASSUME NEW p \in Polls, PollStart(p) PROVE CommandsTypeOK'
      BY <3>10 DEF PollStart, Idle, Waiting, ClaimState, Claimers
    <3>11. ASSUME NEW a \in Outcomes, ApplyAck(a) PROVE CommandsTypeOK'
      BY <3>11 DEF ApplyAck, FinalOf, Outcomes
    <3>12. ASSUME NEW c \in Conns, Accept(c) PROVE CommandsTypeOK'
      BY <3>12 DEF Accept
    <3>13. ASSUME NEW c \in Conns, Report(c) PROVE CommandsTypeOK'
      BY <3>13 DEF Report
    <3>14. ASSUME NEW c \in Conns, Forget(c) PROVE CommandsTypeOK'
      BY <3>14 DEF Forget
    <3>15. ASSUME NEW c \in Conns, MarkOffline(c) PROVE CommandsTypeOK'
      BY <3>15, FaultTyped DEF Kinds, MarkOffline
    <3>16. ASSUME NEW c \in Conns, Dial(c) PROVE CommandsTypeOK'
      BY <3>16 DEF Dial
    <3>17. ASSUME NEW c \in Conns, BreakLink(c) PROVE CommandsTypeOK'
      BY <3>17, FaultTyped DEF Kinds, BreakLink
    <3>18. ASSUME NEW h \in Handlers, Run(h) PROVE CommandsTypeOK'
      <4> PICK i \in At(<<"todo", h>>), ok \in BOOLEAN :
            /\ place' = [place EXCEPT ![i] = @ \ {<<"todo", h>>}]
            /\ ran' = [ran EXCEPT ![i] = Append(@, ok)]
            /\ results' = [results EXCEPT ![h] = @ \cup {[cmd |-> i, ok |-> ok]}]
            /\ UNCHANGED <<status, acks, claim, net, polling, agent, faults>>
        BY <3>18 DEF Run
      <4>1. i \in Commands
        BY DEF At
      <4>2. ran' \in [Commands -> Seq(BOOLEAN)]
        BY <4>1
      <4>3. results' \in [Handlers -> SUBSET Outcomes]
        BY <4>1 DEF Outcomes
      <4> QED BY <4>1, <4>2, <4>3
    <3>19. ASSUME NEW h \in Handlers, SendAcks(h) PROVE CommandsTypeOK'
      BY <3>19, FaultTyped DEF Kinds, SendAcks
    <3>20. ASSUME Receive PROVE CommandsTypeOK'
      BY <3>20 DEF Receive, Places, Handlers
    <3>21. ASSUME Hangup PROVE CommandsTypeOK'
      BY <3>21 DEF Hangup, Dropped
    <3>22. ASSUME GiveUp PROVE CommandsTypeOK'
      BY <3>22, FaultTyped DEF Kinds, GiveUp
    <3>23. ASSUME PanelRestart PROVE CommandsTypeOK'
      BY <3>23, FaultTyped DEF Kinds, PanelRestart, Idle, ClaimState
    <3>24. ASSUME AgentStops PROVE CommandsTypeOK'
      BY <3>24, FaultTyped DEF Kinds, AgentStops
    <3>25. ASSUME Register PROVE CommandsTypeOK'
      BY <3>25 DEF Register
    <3> HIDE DEF CommandsTypeOK, rows, net
    <3> QED
      BY <2>2, <3>1, <3>2, <3>3, <3>4, <3>5, <3>6, <3>7, <3>8, <3>9, <3>10, <3>11, <3>12,
         <3>13, <3>14, <3>15, <3>16, <3>17, <3>18, <3>19, <3>20, <3>21, <3>22, <3>23, <3>24,
         <3>25, StepCases
  <2> QED BY <2>1, <2>2
<1> QED BY <1>1, <1>2, PTL DEF CommandsSpec

\* The connection an agent uses is the one the panel pushes to, however late an older
\* connection is forgotten (Registry.Add, Registry.Remove).
THEOREM RegistryHolds == CommandsSpec => []RegistryHoldsLink
<1>1. CommandsInit => RegistryHoldsLink
  BY DEF CommandsInit, RegistryHoldsLink
<1>2. CommandsTypeOK /\ RegistryHoldsLink /\ [CommandsNext]_vars => RegistryHoldsLink'
  <2> SUFFICES ASSUME CommandsTypeOK, RegistryHoldsLink, [CommandsNext]_vars
               PROVE  RegistryHoldsLink'
    OBVIOUS
  <2> DEFINE Same == UNCHANGED <<registry, sock, up>>
  <2>1. Same => RegistryHoldsLink'
    BY DEF RegistryHoldsLink
  <2>2. CASE UNCHANGED vars
    BY <2>1, <2>2 DEF vars, net
  <2>3. CASE CommandsNext
    <3>1. ASSUME NEW c \in Conns, Accept(c) PROVE RegistryHoldsLink'
      <4> SUFFICES ASSUME NEW d \in up', sock'[d] = "open" PROVE registry' = d
        BY DEF RegistryHoldsLink
      <4>1. d \in up /\ (d = registry => d = c) /\ registry' = c
        BY <3>1 DEF Accept
      <4>2. d # c => sock[d] = "open"
        BY <3>1, <4>1 DEF Accept, CommandsTypeOK
      <4> QED BY <4>1, <4>2 DEF RegistryHoldsLink
    <3>2. ASSUME NEW c \in Conns, Forget(c) PROVE RegistryHoldsLink'
      BY <3>2 DEF Forget, RegistryHoldsLink, CommandsTypeOK
    <3>3. ASSUME NEW c \in Conns, MarkOffline(c) PROVE RegistryHoldsLink'
      BY <3>3 DEF MarkOffline, RegistryHoldsLink, CommandsTypeOK
    <3>4. ASSUME NEW c \in Conns, Dial(c) PROVE RegistryHoldsLink'
      BY <3>4 DEF Dial, RegistryHoldsLink, CommandsTypeOK
    <3>5. ASSUME NEW c \in Conns, BreakLink(c) PROVE RegistryHoldsLink'
      BY <3>5 DEF BreakLink, RegistryHoldsLink
    <3>6. ASSUME PanelRestart PROVE RegistryHoldsLink'
      BY <3>6 DEF PanelRestart, RegistryHoldsLink
    <3>7. ASSUME AgentStops PROVE RegistryHoldsLink'
      BY <3>7 DEF AgentStops, RegistryHoldsLink
    <3>8. \A i \in Commands : Enqueue(i) => Same
      BY DEF Enqueue, net
    <3>9. (PushTick => Same) /\ (Push => Same)
      BY DEF PushTick, Push, net
    <3>10. \A k \in Claimers : (Acknowledge(k) => Same) /\ (ClaimFails(k) => Same)
      BY DEF Acknowledge, ClaimFails, net
    <3>11. \A p \in Polls : /\ (PollTick(p) => Same) /\ (Respond(p) => Same)
                            /\ (LostTheRace(p) => Same) /\ (PollEnds(p) => Same)
                            /\ (PollStart(p) => Same)
      BY DEF PollTick, Respond, LostTheRace, PollEnds, PollStart, net
    <3>12. \A a \in Outcomes : ApplyAck(a) => Same
      BY DEF ApplyAck, net
    <3>13. \A c \in Conns : Report(c) => Same
      BY DEF Report
    <3>14. \A h \in Handlers : (Run(h) => Same) /\ (SendAcks(h) => Same)
      BY DEF Run, SendAcks, net
    <3>15. (Receive => Same) /\ (Hangup => Same) /\ (GiveUp => Same) /\ (Register => Same)
      BY DEF Receive, Hangup, GiveUp, Register, net
    <3> HIDE DEF Same
    <3> QED
      BY <2>1, <2>3, <3>1, <3>2, <3>3, <3>4, <3>5, <3>6, <3>7, <3>8, <3>9, <3>10, <3>11,
         <3>12, <3>13, <3>14, <3>15, StepCases
  <2> QED BY <2>2, <2>3
<1> QED BY <1>1, <1>2, CommandsTyped, PTL DEF CommandsSpec

-----------------------------------------------------------------------------
(* One copy, one run, one outcome.  HeldOnce alone is not inductive: that a row
   settles on the outcome of its run needs to know that every outcome sent, or
   still to be sent, is the outcome of the one run of its command. *)

Sent == acks \cup results["ws"] \cup results["http"]

\* What the rows, the copies and the outcomes of a command say of each other.
CommandKnown(i) ==
  /\ \A p, q \in place[i] : p = q
  /\ place[i] # {} => status[i] = "acknowledged" /\ ran[i] = <<>>
  /\ ran[i] = <<>> \/ \E ok \in BOOLEAN : ran[i] = <<ok>>
  /\ status[i] \in {"absent", "pending"} => ran[i] = <<>>
  /\ status[i] \in {"success", "failed"} =>
       \E ok \in BOOLEAN : ran[i] = <<ok>> /\ status[i] = FinalOf(ok)

OutcomesKnown == \A a \in Sent : ran[a.cmd] = <<a.ok>>

CopiesInv == (\A i \in Commands : CommandKnown(i)) /\ OutcomesKnown

LEMMA CopiesImplyHeldOnce == CopiesInv => HeldOnce
<1> SUFFICES ASSUME CopiesInv, NEW i \in Commands
             PROVE  /\ \A p, q \in place[i] : p = q
                    /\ place[i] # {} => status[i] = "acknowledged" /\ ran[i] = <<>>
                    /\ Len(ran[i]) <= 1
  BY DEF HeldOnce
<1>1. CommandKnown(i)
  BY DEF CopiesInv
<1>2. Len(ran[i]) <= 1
  <2>1. CASE ran[i] = <<>>
    BY <2>1
  <2>2. ASSUME NEW ok \in BOOLEAN, ran[i] = <<ok>> PROVE Len(ran[i]) <= 1
    BY <2>2
  <2> QED BY <1>1, <2>1, <2>2 DEF CommandKnown
<1> QED BY <1>1, <1>2 DEF CommandKnown

\* A step that runs nothing and writes no row: copies move or are lost.
LEMMA CopiesCarried ==
  ASSUME CopiesInv, UNCHANGED rows, Sent' \subseteq Sent,
         \A i \in Commands : /\ \A p, q \in place'[i] : p = q
                             /\ place'[i] # {} => place[i] # {}
  PROVE  CopiesInv'
<1>1. \A i \in Commands : CommandKnown(i)'
  BY DEF CopiesInv, CommandKnown, rows
<1>2. OutcomesKnown'
  BY DEF CopiesInv, OutcomesKnown, rows
<1> QED BY <1>1, <1>2 DEF CopiesInv

\* Copies dropped, or moved from one place to another, stay single.
LEMMA MovesKeepSingle ==
  ASSUME CommandsTypeOK, CopiesInv, NEW p, NEW q, UNCHANGED rows, Sent' \subseteq Sent,
         place' = Dropped(p) \/ place' = Moved(p, q)
  PROVE  CopiesInv'
<1> SUFFICES ASSUME NEW i \in Commands
             PROVE  /\ \A x, y \in place'[i] : x = y
                    /\ place'[i] # {} => place[i] # {}
  BY CopiesCarried
<1>1. \A x, y \in place[i] : x = y
  BY DEF CopiesInv, CommandKnown
<1> QED BY <1>1 DEF Dropped, Moved, CommandsTypeOK

\* The steps that only carry copies, or touch none.
LEMMA CarryingSteps ==
  ASSUME CommandsTypeOK, CopiesInv
  PROVE  /\ UNCHANGED vars => CopiesInv'
         /\ PushTick => CopiesInv'
         /\ Push => CopiesInv'
         /\ \A k \in Claimers : ClaimFails(k) => CopiesInv'
         /\ \A p \in Polls : PollTick(p) => CopiesInv'
         /\ \A p \in Polls : Respond(p) => CopiesInv'
         /\ \A p \in Polls : LostTheRace(p) => CopiesInv'
         /\ \A p \in Polls : PollEnds(p) => CopiesInv'
         /\ \A p \in Polls : PollStart(p) => CopiesInv'
         /\ \A c \in Conns : Accept(c) => CopiesInv'
         /\ \A c \in Conns : Report(c) => CopiesInv'
         /\ \A c \in Conns : Forget(c) => CopiesInv'
         /\ \A c \in Conns : MarkOffline(c) => CopiesInv'
         /\ \A c \in Conns : Dial(c) => CopiesInv'
         /\ \A c \in Conns : BreakLink(c) => CopiesInv'
         /\ \A h \in Handlers : SendAcks(h) => CopiesInv'
         /\ Receive => CopiesInv'
         /\ Hangup => CopiesInv'
         /\ GiveUp => CopiesInv'
         /\ PanelRestart => CopiesInv'
         /\ AgentStops => CopiesInv'
         /\ Register => CopiesInv'
<1> DEFINE Quiet == UNCHANGED <<rows, place, results, acks>>
<1>1. Quiet => CopiesInv'
  BY DEF CopiesInv, CommandKnown, OutcomesKnown, Sent, rows
<1>2. UNCHANGED vars => Quiet
  BY DEF vars, rows
<1>3. \A p \in Polls : /\ (PollTick(p) => Quiet) /\ (LostTheRace(p) => Quiet)
                       /\ (PollEnds(p) => Quiet) /\ (PollStart(p) => Quiet)
  BY DEF PollTick, LostTheRace, PollEnds, PollStart
<1>4. \A c \in Conns : /\ (Accept(c) => Quiet) /\ (Report(c) => Quiet) /\ (Forget(c) => Quiet)
                       /\ (MarkOffline(c) => Quiet) /\ (Dial(c) => Quiet)
                       /\ (BreakLink(c) => Quiet)
  BY DEF Accept, Report, Forget, MarkOffline, Dial, BreakLink
<1>5. (PushTick => Quiet) /\ (GiveUp => Quiet) /\ (Register => Quiet)
  BY DEF PushTick, GiveUp, Register
<1>6. Push => CopiesInv'
  <2> SUFFICES ASSUME Push PROVE CopiesInv'
    OBVIOUS
  <2>1. \E q : \/ place' = Dropped(<<"claimed", "push">>)
               \/ place' = Moved(<<"claimed", "push">>, q)
    BY DEF Push
  <2>2. UNCHANGED rows /\ Sent' = Sent
    BY DEF Push, Sent
  <2> QED BY <2>1, <2>2, MovesKeepSingle
<1>7. ASSUME NEW k \in Claimers, ClaimFails(k) PROVE CopiesInv'
  <2>1. place' = Dropped(<<"claimed", k>>) /\ UNCHANGED rows /\ Sent' = Sent
    BY <1>7 DEF ClaimFails, Sent
  <2> QED BY <2>1, MovesKeepSingle
<1>8. ASSUME NEW p \in Polls, Respond(p) PROVE CopiesInv'
  <2>1. \/ place' = Dropped(<<"claimed", p>>)
        \/ place' = Moved(<<"claimed", p>>, <<"todo", "http">>)
    BY <1>8 DEF Respond
  <2>2. UNCHANGED rows /\ Sent' = Sent
    BY <1>8 DEF Respond, Sent
  <2> QED BY <2>1, <2>2, MovesKeepSingle
<1>9. ASSUME NEW h \in Handlers, SendAcks(h) PROVE CopiesInv'
  <2>1. UNCHANGED <<rows, place>>
    BY <1>9 DEF SendAcks
  <2>2. results' = [results EXCEPT ![h] = {}] /\ acks' \subseteq acks \cup results[h]
    BY <1>9 DEF SendAcks
  <2>3. Sent' \subseteq Sent
    BY <2>2 DEF Sent, Handlers, CommandsTypeOK
  <2>4. \A i \in Commands : \A x, y \in place[i] : x = y
    BY DEF CopiesInv, CommandKnown
  <2> QED BY <2>1, <2>3, <2>4, CopiesCarried
<1>10. Receive => CopiesInv'
  <2> SUFFICES ASSUME Receive PROVE CopiesInv'
    OBVIOUS
  <2>1. UNCHANGED rows /\ Sent' = Sent
    BY DEF Receive, Sent
  <2>2. PICK B \in SUBSET At(<<"wire", link>>) :
          place' = [i \in Commands |-> IF i \in B
                     THEN (place[i] \ {<<"wire", link>>}) \cup {<<"todo", "ws">>}
                     ELSE place[i]]
    BY DEF Receive
  <2>3. ASSUME NEW i \in Commands
        PROVE  /\ \A x, y \in place'[i] : x = y
               /\ place'[i] # {} => place[i] # {}
    <3>1. \A x, y \in place[i] : x = y
      BY DEF CopiesInv, CommandKnown
    <3>2. i \in B => <<"wire", link>> \in place[i]
      BY DEF At
    <3> QED BY <2>2, <3>1, <3>2
  <2> QED BY <2>1, <2>3, CopiesCarried
<1>11. Hangup => CopiesInv'
  <2> SUFFICES ASSUME Hangup PROVE CopiesInv'
    OBVIOUS
  <2>1. place' = Dropped(<<"wire", link>>) /\ UNCHANGED rows /\ Sent' = Sent
    BY DEF Hangup, Sent
  <2> QED BY <2>1, MovesKeepSingle
<1>12. ASSUME UNCHANGED rows, Sent' \subseteq Sent, NEW S,
              place' = [i \in Commands |-> place[i] \ S]
       PROVE  CopiesInv'
  <2>1. \A i \in Commands : \A x, y \in place[i] : x = y
    BY DEF CopiesInv, CommandKnown
  <2>2. \A i \in Commands : place'[i] \subseteq place[i]
    BY <1>12
  <2> QED BY <1>12, <2>1, <2>2, CopiesCarried
<1>13. PanelRestart => CopiesInv'
  <2> SUFFICES ASSUME PanelRestart PROVE CopiesInv'
    OBVIOUS
  <2>1. UNCHANGED rows /\ Sent' = Sent
    BY DEF PanelRestart, Sent
  <2>2. place' = [i \in Commands |-> place[i] \ ({"claimed"} \X Claimers)]
    BY DEF PanelRestart
  <2> QED BY <2>1, <2>2, <1>12
<1>14. AgentStops => CopiesInv'
  <2> SUFFICES ASSUME AgentStops PROVE CopiesInv'
    OBVIOUS
  <2>1. UNCHANGED rows
    BY DEF AgentStops
  <2>2. results' = [h \in Handlers |-> {}] /\ acks' = acks
    BY DEF AgentStops
  <2>3. Sent' \subseteq Sent
    BY <2>2 DEF Sent, Handlers
  <2>4. place' = [i \in Commands |->
                    place[i] \ (({"todo"} \X Handlers) \cup {<<"wire", link>>})]
    BY DEF AgentStops
  <2> QED BY <2>1, <2>3, <2>4, <1>12
<1> HIDE DEF Quiet
<1> QED
  BY <1>1, <1>2, <1>3, <1>4, <1>5, <1>6, <1>7, <1>8, <1>9, <1>10, <1>11, <1>13, <1>14

LEMMA EnqueueStep ==
  ASSUME CommandsTypeOK, CopiesInv, NEW i \in Commands, Enqueue(i)
  PROVE  CopiesInv'
<1>1. status' = [status EXCEPT ![i] = "pending"] /\ status[i] = "absent"
  BY DEF Enqueue
<1>2. UNCHANGED <<place, ran, results, acks>>
  BY DEF Enqueue
<1>3. ASSUME NEW j \in Commands PROVE CommandKnown(j)'
  <2>1. CommandKnown(j) /\ CommandKnown(i)
    BY DEF CopiesInv
  <2> QED BY <1>1, <1>2, <2>1 DEF CommandKnown, CommandsTypeOK, FinalOf
<1>4. OutcomesKnown'
  BY <1>2 DEF CopiesInv, OutcomesKnown, Sent
<1> QED BY <1>3, <1>4 DEF CopiesInv

LEMMA AcknowledgeStep ==
  ASSUME CommandsTypeOK, CopiesInv, NEW k \in Claimers, Acknowledge(k)
  PROVE  CopiesInv'
<1> PICK i \in claim[k].todo :
      IF status[i] = "pending"
        THEN /\ status' = [status EXCEPT ![i] = "acknowledged"]
             /\ place' = [place EXCEPT ![i] = @ \cup {<<"claimed", k>>}]
        ELSE UNCHANGED <<status, place>>
  BY DEF Acknowledge
<1>1. i \in Commands
  BY DEF CommandsTypeOK, ClaimState
<1>2. UNCHANGED <<ran, results, acks>>
  BY DEF Acknowledge
<1>3. OutcomesKnown'
  BY <1>2 DEF CopiesInv, OutcomesKnown, Sent
<1>4. ASSUME NEW j \in Commands PROVE CommandKnown(j)'
  <2>1. CommandKnown(j) /\ CommandKnown(i)
    BY <1>1 DEF CopiesInv
  <2>2. CASE status[i] = "pending" /\ j = i
    <3>1. place[i] = {} /\ ran[i] = <<>>
      BY <2>1, <2>2 DEF CommandKnown
    <3>2. place'[i] = {<<"claimed", k>>} /\ status'[i] = "acknowledged"
      BY <1>1, <2>2, <3>1 DEF CommandsTypeOK
    <3> QED BY <1>2, <2>2, <3>1, <3>2 DEF CommandKnown
  <2>3. CASE status[i] = "pending" /\ j # i
    <3>1. place'[j] = place[j] /\ status'[j] = status[j]
      BY <1>1, <2>3 DEF CommandsTypeOK
    <3> QED BY <1>2, <2>1, <3>1 DEF CommandKnown
  <2>4. CASE status[i] # "pending"
    BY <1>2, <2>1, <2>4 DEF CommandKnown
  <2> QED BY <2>2, <2>3, <2>4
<1> QED BY <1>3, <1>4 DEF CopiesInv

LEMMA ApplyStep ==
  ASSUME CommandsTypeOK, CopiesInv, NEW a \in Outcomes, ApplyAck(a)
  PROVE  CopiesInv'
<1>1. /\ a \in Sent /\ a.cmd \in Commands /\ a.ok \in BOOLEAN
      /\ status' = [status EXCEPT ![a.cmd] = FinalOf(a.ok)]
  BY DEF ApplyAck, Sent, Outcomes
<1>2. UNCHANGED <<place, ran, results, acks>>
  BY DEF ApplyAck
<1>3. ran[a.cmd] = <<a.ok>>
  BY <1>1 DEF CopiesInv, OutcomesKnown
<1>4. ASSUME NEW j \in Commands PROVE CommandKnown(j)'
  <2>1. CommandKnown(j)
    BY DEF CopiesInv
  <2>2. CASE j = a.cmd
    <3>1. ran[j] # <<>> /\ place[j] = {}
      BY <1>3, <2>1, <2>2 DEF CommandKnown
    <3>2. status'[j] = FinalOf(a.ok)
      BY <1>1, <2>2 DEF CommandsTypeOK
    <3> QED BY <1>1, <1>2, <1>3, <2>1, <2>2, <3>1, <3>2 DEF CommandKnown, FinalOf
  <2>3. CASE j # a.cmd
    <3>1. status'[j] = status[j]
      BY <1>1, <2>3 DEF CommandsTypeOK
    <3> QED BY <1>2, <2>1, <3>1 DEF CommandKnown
  <2> QED BY <2>2, <2>3
<1>5. OutcomesKnown'
  BY <1>2 DEF CopiesInv, OutcomesKnown, Sent
<1> QED BY <1>4, <1>5 DEF CopiesInv

LEMMA RunStep ==
  ASSUME CommandsTypeOK, CopiesInv, NEW h \in Handlers, Run(h)
  PROVE  CopiesInv'
<1> PICK i \in At(<<"todo", h>>), ok \in BOOLEAN :
      /\ place' = [place EXCEPT ![i] = @ \ {<<"todo", h>>}]
      /\ ran' = [ran EXCEPT ![i] = Append(@, ok)]
      /\ results' = [results EXCEPT ![h] = @ \cup {[cmd |-> i, ok |-> ok]}]
  BY DEF Run
<1>1. i \in Commands /\ <<"todo", h>> \in place[i]
  BY DEF At
<1>2. UNCHANGED <<status, acks>>
  BY DEF Run
<1>3. status[i] = "acknowledged" /\ ran[i] = <<>> /\ \A p \in place[i] : p = <<"todo", h>>
  BY <1>1 DEF CopiesInv, CommandKnown
<1>4. place'[i] = {}
  BY <1>1, <1>3 DEF CommandsTypeOK
<1>5. ran'[i] = <<ok>>
  <2>1. ran'[i] = Append(ran[i], ok)
    BY <1>1 DEF CommandsTypeOK
  <2> QED BY <1>3, <2>1
<1>6. \A j \in Commands : j # i => ran'[j] = ran[j] /\ place'[j] = place[j]
  BY <1>1 DEF CommandsTypeOK
<1>7. ASSUME NEW j \in Commands PROVE CommandKnown(j)'
  <2>1. CommandKnown(j)
    BY DEF CopiesInv
  <2>2. CASE j = i
    BY <1>2, <1>3, <1>4, <1>5, <2>2 DEF CommandKnown
  <2>3. CASE j # i
    BY <1>2, <1>6, <2>1, <2>3 DEF CommandKnown
  <2> QED BY <2>2, <2>3
<1>8. OutcomesKnown'
  <2> SUFFICES ASSUME NEW a \in Sent' PROVE ran'[a.cmd] = <<a.ok>>
    BY DEF OutcomesKnown
  <2>1. Sent' \subseteq Sent \cup {[cmd |-> i, ok |-> ok]}
    BY <1>2 DEF Sent, Handlers, CommandsTypeOK
  <2>2. CASE a = [cmd |-> i, ok |-> ok]
    BY <1>5, <2>2
  <2>3. CASE a \in Sent
    <3>1. a \in Outcomes
      BY <2>3 DEF Sent, Handlers, CommandsTypeOK
    <3>2. ran[a.cmd] = <<a.ok>> /\ a.cmd \in Commands
      BY <2>3, <3>1 DEF CopiesInv, OutcomesKnown, Outcomes
    <3>3. a.cmd # i
      BY <1>3, <3>2
    <3> QED BY <1>6, <3>2, <3>3
  <2> QED BY <2>1, <2>2, <2>3
<1> QED BY <1>7, <1>8 DEF CopiesInv

LEMMA CopiesStep == CommandsTypeOK /\ CopiesInv /\ [CommandsNext]_vars => CopiesInv'
<1> SUFFICES ASSUME CommandsTypeOK, CopiesInv, [CommandsNext]_vars PROVE CopiesInv'
  OBVIOUS
<1>1. CASE UNCHANGED vars
  BY <1>1, CarryingSteps
<1>2. CASE CommandsNext
  BY <1>2, CarryingSteps, EnqueueStep, AcknowledgeStep, ApplyStep, RunStep, StepCases
<1> QED BY <1>1, <1>2

LEMMA CopiesHold == CommandsSpec => []CopiesInv
<1>1. CommandsInit => CopiesInv
  BY DEF CommandsInit, CopiesInv, CommandKnown, OutcomesKnown, Sent, Handlers
<1> QED BY <1>1, CopiesStep, CommandsTyped, PTL DEF CommandsSpec

\* Both carriers together never deliver a command twice, and no command runs twice
\* (ClaimPending; protocol.go:9-10).
THEOREM CommandsRunOnce == CommandsSpec => []HeldOnce
BY CopiesHold, CopiesImplyHeldOnce, PTL

-----------------------------------------------------------------------------
(* NodeCommands implements CommandChannel. *)

LEMMA EnqueueAsks ==
  ASSUME CommandsTypeOK, NEW i \in Commands, Enqueue(i)
  PROVE  Channel!Ask(i)
<1>1. status[i] = "absent" /\ status' = [status EXCEPT ![i] = "pending"] /\ ran' = ran
  BY DEF Enqueue
<1>2. stageShown[i] = "none"
  BY <1>1 DEF stageShown, RowStage
<1>3. stageShown' = [stageShown EXCEPT ![i] = "queued"]
  BY <1>1 DEF stageShown, RowStage, CommandsTypeOK
<1> QED BY <1>1, <1>2, <1>3 DEF Channel!Ask

LEMMA AcknowledgeTakes ==
  ASSUME CommandsTypeOK, NEW k \in Claimers, Acknowledge(k)
  PROVE  (\E i \in Commands : Channel!Take(i)) \/ UNCHANGED Channel!channel
<1> PICK i \in claim[k].todo :
      IF status[i] = "pending"
        THEN status' = [status EXCEPT ![i] = "acknowledged"]
        ELSE UNCHANGED status
  BY DEF Acknowledge
<1>1. i \in Commands
  BY DEF CommandsTypeOK, ClaimState
<1>2. ran' = ran
  BY DEF Acknowledge
<1>3. CASE status[i] = "pending"
  <2>1. stageShown[i] = "queued"
    BY <1>1, <1>3 DEF stageShown, RowStage
  <2>2. stageShown' = [stageShown EXCEPT ![i] = "taken"]
    BY <1>1, <1>3 DEF stageShown, RowStage, CommandsTypeOK
  <2> QED BY <1>1, <1>2, <2>1, <2>2 DEF Channel!Take
<1>4. CASE status[i] # "pending"
  BY <1>2, <1>4 DEF Channel!channel, stageShown
<1> QED BY <1>3, <1>4

LEMMA ApplySettles ==
  ASSUME CommandsTypeOK, CopiesInv, NEW a \in Outcomes, ApplyAck(a)
  PROVE  (\E i \in Commands : Channel!Settle(i)) \/ UNCHANGED Channel!channel
<1> DEFINE i == a.cmd
<1>1. /\ a \in Sent /\ i \in Commands /\ a.ok \in BOOLEAN /\ ran' = ran
      /\ status' = [status EXCEPT ![i] = FinalOf(a.ok)]
  BY DEF ApplyAck, Sent, Outcomes
<1>2. ran[i] = <<a.ok>> /\ CommandKnown(i)
  BY <1>1 DEF CopiesInv, OutcomesKnown
<1>3. status[i] \in {"acknowledged", "success", "failed"}
  BY <1>1, <1>2 DEF CommandKnown, CommandsTypeOK
<1>4. CASE status[i] = "acknowledged"
  <2>1. stageShown[i] = "taken"
    BY <1>1, <1>4 DEF stageShown, RowStage
  <2>2. stageShown' = [stageShown EXCEPT ![i] = IF a.ok THEN "success" ELSE "failed"]
    BY <1>1 DEF stageShown, RowStage, FinalOf, CommandsTypeOK
  <2> QED BY <1>1, <1>2, <2>1, <2>2 DEF Channel!Settle
<1>5. CASE status[i] \in {"success", "failed"}
  <2>1. PICK ok \in BOOLEAN : ran[i] = <<ok>> /\ status[i] = FinalOf(ok)
    BY <1>2, <1>5 DEF CommandKnown
  <2>2. ok = a.ok
    BY <1>2, <2>1
  <2>3. status' = status
    BY <1>1, <2>1, <2>2 DEF CommandsTypeOK
  <2> QED BY <1>1, <2>3 DEF Channel!channel, stageShown
<1> QED BY <1>3, <1>4, <1>5

LEMMA RunExecutes ==
  ASSUME CommandsTypeOK, CopiesInv, NEW h \in Handlers, Run(h)
  PROVE  \E i \in Commands : Channel!Execute(i)
<1> PICK i \in At(<<"todo", h>>), ok \in BOOLEAN : ran' = [ran EXCEPT ![i] = Append(@, ok)]
  BY DEF Run
<1>1. i \in Commands /\ <<"todo", h>> \in place[i]
  BY DEF At
<1>2. status' = status
  BY DEF Run
<1>3. status[i] = "acknowledged" /\ ran[i] = <<>>
  BY <1>1 DEF CopiesInv, CommandKnown
<1>4. stageShown[i] = "taken" /\ stageShown' = stageShown
  BY <1>1, <1>2, <1>3 DEF stageShown, RowStage
<1>5. Append(ran[i], ok) = <<ok>>
  BY <1>3
<1>6. ran' = [ran EXCEPT ![i] = <<ok>>]
  BY <1>1, <1>5
<1> QED BY <1>1, <1>3, <1>4, <1>6 DEF Channel!Execute

LEMMA ChannelStep ==
  CommandsTypeOK /\ CopiesInv /\ [CommandsNext]_vars => [Channel!Next]_Channel!channel
<1> SUFFICES ASSUME CommandsTypeOK, CopiesInv, [CommandsNext]_vars
             PROVE  [Channel!Next]_Channel!channel
  OBVIOUS
<1> DEFINE Still == UNCHANGED rows
<1>1. Still => [Channel!Next]_Channel!channel
  BY DEF Channel!channel, stageShown, rows
<1>2. UNCHANGED vars => Still
  BY DEF vars, rows
<1>3. ASSUME NEW i \in Commands, Enqueue(i) PROVE [Channel!Next]_Channel!channel
  BY <1>3, EnqueueAsks DEF Channel!Next
<1>4. ASSUME NEW k \in Claimers, Acknowledge(k) PROVE [Channel!Next]_Channel!channel
  BY <1>4, AcknowledgeTakes DEF Channel!Next
<1>5. ASSUME NEW a \in Outcomes, ApplyAck(a) PROVE [Channel!Next]_Channel!channel
  BY <1>5, ApplySettles DEF Channel!Next
<1>6. ASSUME NEW h \in Handlers, Run(h) PROVE [Channel!Next]_Channel!channel
  BY <1>6, RunExecutes DEF Channel!Next
<1>7. /\ (PushTick => Still) /\ (Push => Still) /\ (Receive => Still) /\ (Hangup => Still)
      /\ (GiveUp => Still) /\ (PanelRestart => Still) /\ (AgentStops => Still)
      /\ (Register => Still)
  BY DEF PushTick, Push, Receive, Hangup, GiveUp, PanelRestart, AgentStops, Register
<1>8. \A k \in Claimers : ClaimFails(k) => Still
  BY DEF ClaimFails
<1>9. \A p \in Polls : /\ (PollTick(p) => Still) /\ (Respond(p) => Still)
                       /\ (LostTheRace(p) => Still) /\ (PollEnds(p) => Still)
                       /\ (PollStart(p) => Still)
  BY DEF PollTick, Respond, LostTheRace, PollEnds, PollStart
<1>10. \A c \in Conns : /\ (Accept(c) => Still) /\ (Report(c) => Still) /\ (Forget(c) => Still)
                        /\ (MarkOffline(c) => Still) /\ (Dial(c) => Still)
                        /\ (BreakLink(c) => Still)
  BY DEF Accept, Report, Forget, MarkOffline, Dial, BreakLink
<1>11. \A h \in Handlers : SendAcks(h) => Still
  BY DEF SendAcks
<1> HIDE DEF Still
<1> QED
  BY <1>1, <1>2, <1>3, <1>4, <1>5, <1>6, <1>7, <1>8, <1>9, <1>10, <1>11, StepCases

\* The rows show every command as its run left it (nodeapi/commands.go, the claim and
\* the acknowledgement together).
THEOREM CommandsRefine == CommandsSpec => ChannelSpec
<1>1. CommandsInit => Channel!Init
  BY DEF CommandsInit, Channel!Init, stageShown, RowStage
<1> QED
  BY <1>1, ChannelStep, CommandsTyped, CopiesHold, PTL DEF CommandsSpec, ChannelSpec, Channel!Spec
=============================================================================
