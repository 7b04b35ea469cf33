---------------------------- MODULE BalanceBook ----------------------------
(***************************************************************************)
(* What the balance page promises: a balance never goes below zero, it     *)
(* moves only together with a row of the log that says why, and what may   *)
(* happen once (the use of a gift card, the payment of an order, the       *)
(* commission on it) moves it once.  PaymentOrders implements this.        *)
(***************************************************************************)
EXTENDS Integers

CONSTANTS Accounts,     \* users with a balance
          Entries,      \* reasons for which a balance can move
          Account,      \* Account[e] \in Accounts: whose balance entry e moves
          Amount,       \* Amount[e] \in Int: by how much
          Repeatable    \* entries for which only the callers' care prevents a second time

VARIABLES balance,      \* balance[a]
          log           \* log[e]: how often entry e is in the log

book == <<balance, log>>

Init == /\ balance = [a \in Accounts |-> 0]
        /\ log = [e \in Entries |-> 0]

Post(e) ==
  /\ e \notin Repeatable => log[e] = 0
  /\ balance[Account[e]] + Amount[e] >= 0
  /\ balance' = [balance EXCEPT ![Account[e]] = @ + Amount[e]]
  /\ log' = [log EXCEPT ![e] = @ + 1]

Next == \E e \in Entries : Post(e)

Spec == Init /\ [][Next]_book
=============================================================================
