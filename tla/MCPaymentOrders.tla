-------------------------- MODULE MCPaymentOrders --------------------------
(* Small instances of PaymentOrders for TLC. *)
EXTENDS PaymentOrders, TLC

\* A gift card and a recharge together pay for a plan; a plan without a code is free.
MCPrice == [o \in Orders |-> IF o \in Coded THEN 20 ELSE IF o \in Recharges \cup Resets THEN 10 ELSE 0]
MCSymmetry == Permutations(Requests)
=============================================================================
