--------------------------- MODULE PaymentOrders ---------------------------
(***************************************************************************)
(* Orders of one buyer from the checkout to their effects, as the HTTP     *)
(* handlers of server/internal/handler/api run them (payment.go,           *)
(* payment_service.go, payment_balance.go and their SQL stores): plans,    *)
(* resets of the monthly traffic, and recharges of the balance, paid       *)
(* through a gateway or from the balance, with one discount code.          *)
(*                                                                         *)
(* A request reads an order, and decides by that copy; every statement or  *)
(* transaction it sends to the database later is a step of its own.  It    *)
(* may be cut off between two of them: the process dies, the database      *)
(* fails, or the client closes the connection and its context is           *)
(* cancelled.  Only the tables survive.                                    *)
(*                                                                         *)
(* Not modelled: forms, rate limits, proxy orders (no code of the server   *)
(* creates one), the columns of a plan, and the flag users.enabled.        *)
(***************************************************************************)
EXTENDS Integers, FiniteSets

CONSTANTS Orders,               \* order ids
          Recharges, Resets,    \* orders of type balance; orders with an RST number
          Coded,                \* orders placed with the discount code
          Price,                \* Price[o]: what order o costs, in cents
          Cards, CardValue,     \* gift cards and what each is worth
          RebatePercent,        \* affiliate_rebate_rate
          Invite,               \* is the discount code somebody's invitation
          MaxUses, MaxUsesPerUser,  \* of the discount code
          Buyer, Inviter,       \* the users whose balances move
          Requests,             \* HTTP requests being handled at the same time
          MaxPushes,            \* how often the gateway sends a notification
          MaxFaults             \* bound of the model: steps that fail

Plans == Orders \ (Recharges \cup Resets)

ASSUME OrderAssumption ==
  /\ Recharges \subseteq Orders /\ Resets \subseteq Orders /\ Recharges \cap Resets = {}
  /\ Coded \subseteq Plans
  /\ Price \in [Orders -> Nat] /\ \A o \in Recharges \cup Coded : Price[o] > 0
  /\ CardValue \in Nat \ {0} /\ RebatePercent \in 0 .. 100
  /\ Invite \in BOOLEAN /\ MaxUses \in Nat \ {0} /\ MaxUsesPerUser \in Nat \ {0}
  /\ Buyer # Inviter
  /\ MaxPushes \in Nat /\ MaxFaults \in Nat
ASSUME FiniteAssumption == IsFiniteSet(Orders) /\ IsFiniteSet(Requests)

VARIABLES order,     \* orders.status, "none" before the row exists
          code,      \* the row of the discount code: used_count and status
          locked,    \* is users.used_invite_code_id of the buyer set
          rewards,   \* rewards[o]: redeem codes with source_order_id = o
          rebates,   \* order_id of the rows of affiliate_rebates
          balance,   \* users.balance
          log,       \* log[e]: rows of balance_logs for entry e
          applied,   \* applied[o]: how often o changed the buyer's plan or traffic
          delivered, \* orders after which a delivery to the nodes was asked for
          request,   \* request[r]: where a handler is, and what it has read
          gateway,   \* gateway[o]: what the gateway knows of o (external)
          pushes,    \* pushes[o]: notifications sent for o (external)
          faults     \* steps that have failed so far

codeVars == <<code, locked, rewards>>
bookVars == <<rebates, balance, log>>
effectVars == <<applied, delivered>>
outside == <<gateway, pushes>>
vars == <<order, code, locked, rewards, rebates, balance, log, applied, delivered,
          request, gateway, pushes, faults>>

-----------------------------------------------------------------------------
Entries == ({"recharge", "consume", "rebate"} \X Orders) \cup ({"redeem"} \X Cards)

\* rebateCents: the rate of the price, rounded to a cent, half up.
RebateOf(o) == (Price[o] * RebatePercent + 50) \div 100

Account == [e \in Entries |-> IF e[1] = "rebate" THEN Inviter ELSE Buyer]
Amount == [e \in Entries |-> CASE e[1] = "recharge" -> Price[e[2]]
                               [] e[1] = "consume" -> -Price[e[2]]
                               [] e[1] = "rebate" -> RebateOf(e[2])
                               [] e[1] = "redeem" -> CardValue]

\* The statuses of a row, and the places a handler can be at.
Statuses == {"none", "pending", "paid", "expired"}
Places == {"deduct", "query", "refused", "complete", "consume", "lock", "find",
           "reward", "rebate", "apply", "deliver", "answer"}
Idle == [at |-> "idle"]
At(p, o, s, push) == [at |-> p, order |-> o, saw |-> s, push |-> push]
RequestState == {Idle} \cup [at : Places, order : Orders, saw : Statuses, push : BOOLEAN]

\* The gateway has no link for the order, has one, has taken the money, or has
\* taken it and got the answer it waits for.
GatewayState == {"absent", "linked", "paid", "answered"}

OrdersInit ==
  /\ order = [o \in Orders |-> "none"]
  /\ code = [used |-> 0, status |-> "active"]
  /\ locked \in BOOLEAN
  /\ rewards = [o \in Orders |-> 0]
  /\ rebates = {}
  /\ balance = [u \in {Buyer, Inviter} |-> 0]
  /\ log = [e \in Entries |-> 0]
  /\ applied = [o \in Orders |-> 0]
  /\ delivered = {}
  /\ request = [r \in Requests |-> Idle]
  /\ gateway = [o \in Orders |-> "absent"]
  /\ pushes = [o \in Orders |-> 0]
  /\ faults = 0

\* A row of the log and the balance it moves, in one transaction.
Move(e) ==
  /\ balance' = [balance EXCEPT ![Account[e]] = @ + Amount[e]]
  /\ log' = [log EXCEPT ![e] = @ + 1]

GoTo(r, p) == request' = [request EXCEPT ![r].at = p]

\* The handler returns without an error; a notification is answered with OK.
Answer(r) ==
  /\ request' = [request EXCEPT ![r] = Idle]
  /\ gateway' = IF request[r].push
                THEN [gateway EXCEPT ![request[r].order] = "answered"]
                ELSE gateway
  /\ UNCHANGED pushes

PaidWithCode(o) == {p \in Coded \ {o} : order[p] = "paid"}

-----------------------------------------------------------------------------
(* Placing orders *)

\* What validateAndApply asks of the code before the order is placed; nothing
\* is reserved.
CodeAccepted ==
  /\ code.status = "active" /\ code.used < MaxUses
  /\ IF Invite THEN ~locked
     ELSE Cardinality({p \in Coded : order[p] = "paid"}) < MaxUsesPerUser

\* Each request takes a new number for its order.
Fresh(o) ==
  /\ order[o] = "none"
  /\ \A r \in Requests : request[r].at = "deduct" => request[r].order # o

\* CreateOrder, CreateRechargeOrder, CreateResetOrder: what costs nothing is
\* completed by the same request, the rest gets a link of the gateway.
CreateOrder(r, o) ==
  /\ request[r] = Idle
  /\ Fresh(o)
  /\ o \in Coded => CodeAccepted
  /\ order' = [order EXCEPT ![o] = "pending"]
  /\ IF Price[o] = 0
     THEN /\ request' = [request EXCEPT ![r] = At("complete", o, "pending", FALSE)]
          /\ UNCHANGED gateway
     ELSE /\ gateway' = [gateway EXCEPT ![o] = "linked"]
          /\ UNCHANGED request
  /\ UNCHANGED <<codeVars, bookVars, effectVars, pushes, faults>>

\* PayPlanWithBalance up to the deduction: the code is validated.
AskBalancePay(r, o) ==
  /\ request[r] = Idle
  /\ o \in Plans /\ Fresh(o)
  /\ o \in Coded => CodeAccepted
  /\ request' = [request EXCEPT ![r] = At("deduct", o, "none", FALSE)]
  /\ UNCHANGED <<order, codeVars, bookVars, effectVars, outside, faults>>

\* Mutant: the balance is looked at before the transaction and not in it.
AlwaysAffords(o) == TRUE
\* checkBalance and the condition of the UPDATE, on the locked row of the buyer.
Affords(o) == balance[Buyer] >= Price[o]

\* PayOrderWithBalance: one transaction takes the money and writes a paid order,
\* whose effects follow.
PayOrderWithBalance(r) ==
  LET o == request[r].order IN
  /\ request[r].at = "deduct" /\ order[o] = "none"
  /\ Affords(o)
  /\ order' = [order EXCEPT ![o] = "paid"]
  /\ IF Price[o] > 0 THEN Move(<<"consume", o>>) ELSE UNCHANGED <<balance, log>>
  /\ GoTo(r, IF o \in Coded THEN "consume" ELSE "rebate")
  /\ UNCHANGED <<codeVars, rebates, effectVars, outside, faults>>

RefuseBalancePay(r) ==
  /\ request[r].at = "deduct" /\ ~Affords(request[r].order)
  /\ request' = [request EXCEPT ![r] = Idle]
  /\ UNCHANGED <<order, codeVars, bookVars, effectVars, outside, faults>>

\* RedeemGiftcard: the row of the card is locked, so a card is used once.
RedeemGiftcard(c) ==
  /\ log[<<"redeem", c>>] = 0
  /\ Move(<<"redeem", c>>)
  /\ UNCHANGED <<order, codeVars, rebates, effectVars, request, outside, faults>>

-----------------------------------------------------------------------------
(* The gateway and the buyer *)

\* The buyer pays by the link, whatever has become of the order meanwhile.
Pay(o) ==
  /\ gateway[o] = "linked"
  /\ gateway' = [gateway EXCEPT ![o] = "paid"]
  /\ UNCHANGED <<order, codeVars, bookVars, effectVars, request, pushes, faults>>

\* HandleNotify up to the call of CompleteOrder.  The gateway sends again until
\* it is answered with OK.
Notify(r, o) ==
  /\ request[r] = Idle
  /\ gateway[o] = "paid" /\ pushes[o] < MaxPushes
  /\ pushes' = [pushes EXCEPT ![o] = @ + 1]
  /\ request' = [request EXCEPT ![r] = At("complete", o, order[o], TRUE)]
  /\ UNCHANGED <<order, codeVars, bookVars, effectVars, gateway, faults>>

\* handlePaymentStatus: a pending order is looked up at the gateway.
Status(r, o) ==
  /\ request[r] = Idle
  /\ order[o] = "pending"
  /\ request' = [request EXCEPT ![r] = At("query", o, "pending", FALSE)]
  /\ UNCHANGED <<order, codeVars, bookVars, effectVars, outside, faults>>

\* Mutant: whatever the gateway knows of counts as paid.
KnownToGateway(o) == gateway[o] # "absent"
\* The answer of the gateway to a query.
AnswersPaid(o) == gateway[o] \in {"paid", "answered"}

\* A paid order is completed with the status read before the query.
QueryOrder(r) ==
  /\ request[r].at = "query"
  /\ IF AnswersPaid(request[r].order)
     THEN GoTo(r, "complete")
     ELSE request' = [request EXCEPT ![r] = Idle]
  /\ UNCHANGED <<order, codeVars, bookVars, effectVars, outside, faults>>

\* handlePaymentRetry, and handlePaymentCreate when it finds an older pending
\* order: the gateway is asked for a link once more.  Only its refusal of a
\* number it has seen before changes something.
Retry(r, o) ==
  /\ request[r] = Idle
  /\ order[o] = "pending" /\ gateway[o] # "absent"
  /\ request' = [request EXCEPT ![r] = At("refused", o, "pending", FALSE)]
  /\ UNCHANGED <<order, codeVars, bookVars, effectVars, outside, faults>>

\* UpdateOrderStatus asks for the id only, not for the status it has seen.
VoidOrder(r) ==
  /\ request[r].at = "refused"
  /\ order' = [order EXCEPT ![request[r].order] = "expired"]
  /\ request' = [request EXCEPT ![r] = Idle]
  /\ UNCHANGED <<codeVars, bookVars, effectVars, outside, faults>>

\* order:expire-pending, for a row that is old enough.
ExpirePending(o) ==
  /\ order[o] = "pending"
  /\ order' = [order EXCEPT ![o] = "expired"]
  /\ UNCHANGED <<codeVars, bookVars, effectVars, request, outside, faults>>

-----------------------------------------------------------------------------
(* CompleteOrder and what follows *)

\* The order was already paid when this request read it.
SkipPaid(r) ==
  /\ request[r].at = "complete" /\ request[r].saw = "paid"
  /\ GoTo(r, "answer")
  /\ UNCHANGED <<order, codeVars, bookVars, effectVars, outside, faults>>

\* Mutant: only pending orders are credited.
CreditablePending(o) == order[o] = "pending"
Creditable(o) == order[o] # "paid"

\* CreditRechargeOrder locks the row of the order and looks at its status again.
CreditRecharge(r) ==
  LET o == request[r].order IN
  /\ request[r].at = "complete" /\ request[r].saw # "paid" /\ o \in Recharges
  /\ IF Creditable(o)
     THEN order' = [order EXCEPT ![o] = "paid"] /\ Move(<<"recharge", o>>)
     ELSE UNCHANGED <<order, balance, log>>
  /\ GoTo(r, "answer")
  /\ UNCHANGED <<codeVars, rebates, effectVars, outside, faults>>

\* MarkOrderPaid does not look at the row again.
MarkOrderPaid(r) ==
  LET o == request[r].order IN
  /\ request[r].at = "complete" /\ request[r].saw # "paid" /\ o \notin Recharges
  /\ order' = [order EXCEPT ![o] = "paid"]
  /\ GoTo(r, IF o \in Resets THEN "apply" ELSE IF o \in Coded THEN "consume" ELSE "rebate")
  /\ UNCHANGED <<codeVars, bookVars, effectVars, outside, faults>>

\* The row of the code is locked; the other paid orders are counted under the lock.
MayConsume(o) ==
  /\ code.status = "active" /\ code.used < MaxUses
  /\ Invite \/ Cardinality(PaidWithCode(o)) < MaxUsesPerUser

\* Mutant: the last use does not close the code.
ClosesLate == code.used >= MaxUses
ClosesCode == code.used + 1 >= MaxUses

ConsumeDiscountCode(r) ==
  LET o == request[r].order IN
  /\ request[r].at = "consume"
  /\ IF MayConsume(o)
     THEN /\ code' = [used |-> code.used + 1,
                      status |-> IF ClosesCode THEN "used_up" ELSE "active"]
          /\ GoTo(r, IF Invite THEN "lock" ELSE "rebate")
     ELSE /\ GoTo(r, IF Invite THEN "find" ELSE "rebate")
          /\ UNCHANGED code
  /\ UNCHANGED <<order, locked, rewards, bookVars, effectVars, outside, faults>>

LockUserInviteCode(r) ==
  /\ request[r].at = "lock"
  /\ locked' = TRUE
  /\ GoTo(r, "find")
  /\ UNCHANGED <<order, code, rewards, bookVars, effectVars, outside, faults>>

\* rewardInviter: one code for each order, looked up first and inserted then.
FindReward(r) ==
  /\ request[r].at = "find"
  /\ GoTo(r, IF rewards[request[r].order] = 0 THEN "reward" ELSE "rebate")
  /\ UNCHANGED <<order, codeVars, bookVars, effectVars, outside, faults>>

CreateReward(r) ==
  /\ request[r].at = "reward"
  /\ rewards' = [rewards EXCEPT ![request[r].order] = @ + 1]
  /\ GoTo(r, "rebate")
  /\ UNCHANGED <<order, code, locked, bookVars, effectVars, outside, faults>>

\* Mutant: without the unique key.
MayRebateAgain(o) == locked /\ RebateOf(o) > 0
\* affiliate.Grant: a unique key on order_id lets one transaction through.
MayRebate(o) == locked /\ RebateOf(o) > 0 /\ o \notin rebates

\* Mutant: who owes no commission gets no plan.
RebateOrLeave(r) ==
  LET o == request[r].order IN
  /\ request[r].at = "rebate"
  /\ IF MayRebate(o)
     THEN Move(<<"rebate", o>>) /\ rebates' = rebates \cup {o} /\ GoTo(r, "apply")
     ELSE UNCHANGED bookVars /\ GoTo(r, "answer")
  /\ UNCHANGED <<order, codeVars, effectVars, outside, faults>>

GrantRebate(r) ==
  LET o == request[r].order IN
  /\ request[r].at = "rebate"
  /\ IF MayRebate(o)
     THEN Move(<<"rebate", o>>) /\ rebates' = rebates \cup {o}
     ELSE UNCHANGED bookVars
  /\ GoTo(r, "apply")
  /\ UNCHANGED <<order, codeVars, effectVars, outside, faults>>

\* ApplyPlanFields, or AddResetTraffic of a reset.
Apply(r) ==
  /\ request[r].at = "apply"
  /\ applied' = [applied EXCEPT ![request[r].order] = @ + 1]
  /\ GoTo(r, "deliver")
  /\ UNCHANGED <<order, codeVars, bookVars, delivered, outside, faults>>

DeliverUser(r) ==
  /\ request[r].at = "deliver"
  /\ delivered' = delivered \cup {request[r].order}
  /\ GoTo(r, "answer")
  /\ UNCHANGED <<order, codeVars, bookVars, applied, outside, faults>>

AnswerOK(r) ==
  /\ request[r].at = "answer"
  /\ Answer(r)
  /\ UNCHANGED <<order, codeVars, bookVars, effectVars, faults>>

-----------------------------------------------------------------------------
(* Failures *)

\* The request ends with an error, or is cut off; a notification has no OK.
Abort(r) ==
  /\ request[r] # Idle /\ faults < MaxFaults
  /\ faults' = faults + 1
  /\ request' = [request EXCEPT ![r] = Idle]
  /\ UNCHANGED <<order, codeVars, bookVars, effectVars, outside>>

\* Steps whose error is only logged, and where the handler goes on.  A plan
\* that cannot be read ends the handler without an error.
NextAfterError ==
  [consume |-> IF Invite THEN "find" ELSE "rebate", lock |-> "find", find |-> "rebate",
   reward |-> "rebate", rebate |-> "apply", apply |-> "answer", deliver |-> "answer"]

LogError(r) ==
  /\ request[r].at \in DOMAIN NextAfterError /\ faults < MaxFaults
  /\ faults' = faults + 1
  /\ GoTo(r, NextAfterError[request[r].at])
  /\ UNCHANGED <<order, codeVars, bookVars, effectVars, outside>>

-----------------------------------------------------------------------------
Serve(r) ==
  \/ PayOrderWithBalance(r) \/ RefuseBalancePay(r)
  \/ QueryOrder(r) \/ VoidOrder(r)
  \/ SkipPaid(r) \/ CreditRecharge(r) \/ MarkOrderPaid(r)
  \/ ConsumeDiscountCode(r) \/ LockUserInviteCode(r) \/ FindReward(r) \/ CreateReward(r)
  \/ GrantRebate(r) \/ Apply(r) \/ DeliverUser(r) \/ AnswerOK(r)

OrdersNext ==
  \/ \E r \in Requests, o \in Orders :
       CreateOrder(r, o) \/ AskBalancePay(r, o) \/ Notify(r, o) \/ Status(r, o) \/ Retry(r, o)
  \/ \E r \in Requests : Serve(r) \/ Abort(r) \/ LogError(r)
  \/ \E o \in Orders : Pay(o) \/ ExpirePending(o)
  \/ \E c \in Cards : RedeemGiftcard(c)

\* A goroutine runs each request to its end.  The gateway sends its notifications;
\* strong fairness, because a free place in Requests stands for a new goroutine,
\* which is always there.
OrdersSpec ==
  /\ OrdersInit /\ [][OrdersNext]_vars
  /\ \A r \in Requests : WF_vars(Serve(r))
  /\ \A o \in Orders : SF_vars(\E r \in Requests : Notify(r, o))

-----------------------------------------------------------------------------
\* The values every row, handler and counter may have.
OrdersTypeOK ==
  /\ order \in [Orders -> Statuses]
  /\ code \in [used : 0 .. MaxUses, status : {"active", "used_up"}]
  /\ locked \in BOOLEAN
  /\ rewards \in [Orders -> Nat]
  /\ rebates \subseteq Orders
  /\ balance \in [{Buyer, Inviter} -> Nat]
  /\ log \in [Entries -> Nat]
  /\ applied \in [Orders -> Nat]
  /\ delivered \subseteq Orders
  /\ request \in [Requests -> RequestState]
  /\ gateway \in [Orders -> GatewayState]
  /\ pushes \in [Orders -> 0 .. MaxPushes]
  /\ faults \in 0 .. MaxFaults

PaidAtGateway(o) == gateway[o] \in {"paid", "answered"}
PaidFromBalance(o) == log[<<"consume", o>>] > 0
Funded(o) == PaidAtGateway(o) \/ PaidFromBalance(o) \/ Price[o] = 0
\* A handler that has marked the order paid and is at its effects.
AtEffects(r) == request[r].at \in DOMAIN NextAfterError
UnderWay(o) == \E r \in Requests : AtEffects(r) /\ request[r].order = o

\* Whatever a handler believed when it read the order, nothing is given for an
\* order that nobody has paid: no plan, no traffic, no credit, no reward and no
\* commission (HandleNotify, QueryOrder and PayOrderWithBalance are the only ways
\* to CompleteOrder and afterPaid, next to orders without a price).
NothingUnpaid ==
  \A o \in Orders :
    applied[o] > 0 \/ log[<<"recharge", o>>] > 0 \/ rewards[o] > 0 \/ o \in rebates
      => Funded(o)

\* As long as nothing fails, a paid order of a plan or a reset has had its effect
\* and its delivery, or a handler is on the way there: a code that cannot be
\* consumed, a reward already given and a commission that is not due do not stop
\* afterPaid, and no request takes an order for done that another one left half
\* done (payment_service.go, CompleteOrder and afterPaid).
PaidTakesEffect ==
  \A o \in Orders \ Recharges :
    order[o] = "paid" /\ faults = 0 => UnderWay(o) \/ (applied[o] > 0 /\ o \in delivered)

\* Completions of several orders, or of one order twice, never use the code more
\* often than it allows, and close it with the last use (ConsumeDiscountCode).
CodeWithinBudget ==
  /\ code.used <= MaxUses
  /\ code.status = "used_up" <=> code.used = MaxUses

\* A recharge that was paid at the gateway is credited in the end, even if it has
\* expired or was voided before, and even if handlers are cut off, as long as the
\* gateway sends more notifications than there are failures.
RechargeArrives ==
  \A o \in Recharges : PaidAtGateway(o) ~> log[<<"recharge", o>>] > 0

BookOf == INSTANCE BalanceBook WITH Accounts <- {Buyer, Inviter},
                                    Repeatable <- {"recharge"} \X Orders
\* Balances move as BalanceBook says: with a row of the log, never below zero,
\* and at most once for a card, a payment from the balance and a commission, in
\* whatever way the requests interleave (balance_sqlstore.go, affiliate_sqlstore.go).
BookSpec == BookOf!Spec

-----------------------------------------------------------------------------
(* What comments promise and the code does not keep *)

\* A repeated notification does not credit a recharge twice (payment.go, above
\* handleRechargeCreate).
RechargedOnce == \A o \in Recharges : log[<<"recharge", o>>] <= 1

\* Of several orders with one code only those from the second on fail to consume
\* it (payment_sqlstore.go, ConsumeDiscountCode).
FirstUseCounts ==
  (\A o \in Coded : ~UnderWay(o)) /\ faults = 0 /\ (\E o \in Coded : order[o] = "paid")
    => code.used > 0
=============================================================================
