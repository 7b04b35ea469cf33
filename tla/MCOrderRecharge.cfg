\* One recharge, a notification sent twice, and a retry of the buyer between them.
CONSTANTS
  Orders = {recharge}
  Recharges = {recharge}
  Resets = {}
  Coded = {}
  Price <- MCPrice
  Cards = {}
  CardValue = 10
  RebatePercent = 10
  Invite = FALSE
  MaxUses = 1
  MaxUsesPerUser = 1
  Buyer = buyer
  Inviter = inviter
  Requests = {r1, r2}
  MaxPushes = 2
  MaxFaults = 0
SPECIFICATION OrdersSpec
INVARIANTS
  RechargedOnce
CHECK_DEADLOCK FALSE
