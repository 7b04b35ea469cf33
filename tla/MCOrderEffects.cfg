\* A plan bought with an invitation and a reset of the traffic: what each paid
\* order sets going, with one failure.
CONSTANTS
  Orders = {plan, reset, free}
  Recharges = {}
  Resets = {reset}
  Coded = {plan}
  Price <- MCPrice
  Cards = {}
  CardValue = 10
  RebatePercent = 10
  Invite = TRUE
  MaxUses = 1
  MaxUsesPerUser = 1
  Buyer = buyer
  Inviter = inviter
  Requests = {r1, r2}
  MaxPushes = 2
  MaxFaults = 1
SPECIFICATION OrdersSpec
SYMMETRY MCSymmetry
INVARIANTS
  NothingUnpaid
  PaidTakesEffect
  CodeWithinBudget
CHECK_DEADLOCK FALSE
