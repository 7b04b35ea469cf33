\* Two plans bought with one code that each user may use once.
CONSTANTS
  Orders = {plan1, plan2}
  Recharges = {}
  Resets = {}
  Coded = {plan1, plan2}
  Price <- MCPrice
  Cards = {}
  CardValue = 10
  RebatePercent = 10
  Invite = FALSE
  MaxUses = 2
  MaxUsesPerUser = 1
  Buyer = buyer
  Inviter = inviter
  Requests = {r1, r2}
  MaxPushes = 1
  MaxFaults = 0
SPECIFICATION OrdersSpec
INVARIANTS
  FirstUseCounts
CHECK_DEADLOCK FALSE
