\* A recharge, a gift card, and a plan that one of the two can pay for: every
\* way a balance moves, with one failure and a notification sent twice.
CONSTANTS
  Orders = {plan, recharge}
  Recharges = {recharge}
  Resets = {}
  Coded = {plan}
  Price <- MCPrice
  Cards = {card}
  CardValue = 10
  RebatePercent = 10
  Invite = FALSE
  MaxUses = 1
  MaxUsesPerUser = 1
  Buyer = buyer
  Inviter = inviter
  Requests = {r1, r2}
  MaxPushes = 2
  MaxFaults = 1
SPECIFICATION OrdersSpec
INVARIANTS
  OrdersTypeOK
PROPERTIES
  RechargeArrives
  BookSpec
CHECK_DEADLOCK FALSE
