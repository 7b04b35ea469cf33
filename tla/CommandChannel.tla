--------------------------- MODULE CommandChannel ---------------------------
(***************************************************************************)
(* What the panel is told of the commands it queues for a node, with no    *)
(* word of connections, polls, claims or acknowledgements in flight: a     *)
(* command is taken at most once, runs at most once after it was taken,    *)
(* and its row settles, once, on the outcome of that run.  A command that  *)
(* was taken may stay without an outcome for ever.  NodeCommands           *)
(* implements this specification.                                          *)
(***************************************************************************)
CONSTANT Commands

VARIABLES stage,        \* stage[i]: what the row of command i shows
          outcomes      \* outcomes[i]: the runs of command i at the node

channel == <<stage, outcomes>>

Init == /\ stage = [i \in Commands |-> "none"]
        /\ outcomes = [i \in Commands |-> <<>>]

\* The panel asks for command i.
Ask(i) == /\ stage[i] = "none"
          /\ stage' = [stage EXCEPT ![i] = "queued"]
          /\ UNCHANGED outcomes

\* A carrier takes command i.
Take(i) == /\ stage[i] = "queued"
           /\ stage' = [stage EXCEPT ![i] = "taken"]
           /\ UNCHANGED outcomes

\* The node runs command i.
Execute(i) == /\ stage[i] = "taken"
              /\ outcomes[i] = <<>>
              /\ \E ok \in BOOLEAN : outcomes' = [outcomes EXCEPT ![i] = <<ok>>]
              /\ UNCHANGED stage

\* The row of command i is settled on the outcome of its run.
Settle(i) == /\ stage[i] = "taken"
             /\ \E ok \in BOOLEAN :
                  /\ outcomes[i] = <<ok>>
                  /\ stage' = [stage EXCEPT ![i] = IF ok THEN "success" ELSE "failed"]
             /\ UNCHANGED outcomes

Next == \E i \in Commands : Ask(i) \/ Take(i) \/ Execute(i) \/ Settle(i)

Spec == Init /\ [][Next]_channel
=============================================================================
