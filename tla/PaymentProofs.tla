--------------------------- MODULE PaymentProofs ---------------------------
(***************************************************************************)
(* Proofs about orders and balances for every set of orders, cards and     *)
(* requests, every price, every discount code and any number of failures.  *)
(***************************************************************************)
EXTENDS PaymentOrders, TLAPS

\* An order without a row is unknown to the gateway and was not paid for.
NoRowNoMoney ==
  \A o \in Orders : order[o] = "none" => gateway[o] = "absent" /\ log[<<"consume", o>>] = 0

\* A commission in the log has its row.
RebatesLogged == \A o \in Orders : o \notin rebates => log[<<"rebate", o>>] = 0

\* A handler works on an order with a row, except before it writes a paid one.
HandlersHaveRows ==
  \A r \in Requests :
    request[r].at \in Places \ {"deduct"} => order[request[r].order] # "none"

\* Places of a handler that does not know its order to be paid for.
Asking == {"deduct", "query", "refused"}

\* A handler that may complete an order, or has completed it, was paid for it.
HandlersFunded ==
  \A r \in Requests :
    request[r].at \in Places \ Asking => Funded(request[r].order)

\* A delivery follows the change it delivers.
AppliedFirst == \A r \in Requests : request[r].at = "deliver" => applied[request[r].order] > 0

\* The inductive invariant.
OrdersInv ==
  /\ OrdersTypeOK
  /\ NoRowNoMoney
  /\ RebatesLogged
  /\ HandlersHaveRows
  /\ HandlersFunded
  /\ AppliedFirst
  /\ NothingUnpaid
  /\ PaidTakesEffect
  /\ CodeWithinBudget

-----------------------------------------------------------------------------
(* The operators *)

\* A commission is a natural number of cents.
LEMMA RebateType == ASSUME NEW o \in Orders PROVE RebateOf(o) \in Nat
  <1>1. Price[o] \in Nat /\ RebatePercent \in Nat
    BY OrderAssumption
  <1>2. Price[o] * RebatePercent \in Nat
    BY <1>1
  <1> QED
    BY <1>2 DEF RebateOf

\* Every entry of the log belongs to the buyer or the inviter, and moves a whole
\* number of cents; only payments from the balance are negative.
LEMMA EntryType ==
  ASSUME NEW e \in Entries
  PROVE  /\ Account[e] \in {Buyer, Inviter}
         /\ Amount[e] \in Int
         /\ e[1] # "consume" => Amount[e] \in Nat
  <1>1. CASE \E o \in Orders : e = <<"recharge", o>>
    BY <1>1, OrderAssumption DEF Account, Amount
  <1>2. CASE \E o \in Orders : e = <<"consume", o>>
    BY <1>2, OrderAssumption DEF Account, Amount
  <1>3. CASE \E o \in Orders : e = <<"rebate", o>>
    BY <1>3, RebateType DEF Account, Amount
  <1>4. CASE \E c \in Cards : e = <<"redeem", c>>
    BY <1>4, OrderAssumption DEF Account, Amount
  <1> QED
    BY <1>1, <1>2, <1>3, <1>4 DEF Entries

\* What Move does to the log, and that a covered movement leaves no debt.
LEMMA MoveType ==
  ASSUME balance \in [{Buyer, Inviter} -> Nat], log \in [Entries -> Nat],
         NEW e \in Entries, balance[Account[e]] + Amount[e] >= 0, Move(e)
  PROVE  /\ balance' \in [{Buyer, Inviter} -> Nat]
         /\ log' \in [Entries -> Nat]
         /\ log'[e] > 0
         /\ \A f \in Entries : log'[f] >= log[f] /\ (f # e => log'[f] = log[f])
  <1>1. Account[e] \in {Buyer, Inviter} /\ balance[Account[e]] + Amount[e] \in Nat
    BY EntryType
  <1>2. balance' \in [{Buyer, Inviter} -> Nat]
    BY <1>1 DEF Move
  <1>3. log[e] \in Nat /\ log'[e] = log[e] + 1
    BY DEF Move
  <1>4. \A f \in Entries \ {e} : log'[f] = log[f] /\ log[f] \in Nat
    BY DEF Move
  <1>5. log' \in [Entries -> Nat]
    BY <1>3 DEF Move
  <1> QED
    BY <1>2, <1>3, <1>4, <1>5

\* Only a payment from the balance needs cover.
LEMMA GainType ==
  ASSUME balance \in [{Buyer, Inviter} -> Nat], NEW e \in Entries, e[1] # "consume"
  PROVE  balance[Account[e]] + Amount[e] >= 0
  <1>1. balance[Account[e]] \in Nat /\ Amount[e] \in Nat
    BY EntryType
  <1> QED
    BY <1>1

\* Only a handler with an order is anywhere.
LEMMA HandlerType ==
  ASSUME request \in [Requests -> RequestState], NEW r \in Requests, request[r].at # "idle"
  PROVE  /\ request[r] \in [at : Places, order : Orders, saw : Statuses, push : BOOLEAN]
         /\ request[r] # Idle
  BY DEF RequestState, Idle

\* A handler that goes on keeps its order, and the others stay.
LEMMA GoToType ==
  ASSUME request \in [Requests -> RequestState], NEW r \in Requests, request[r].at # "idle",
         NEW p \in Places, GoTo(r, p)
  PROVE  /\ request' \in [Requests -> RequestState]
         /\ request'[r].at = p /\ request'[r].order = request[r].order
         /\ \A q \in Requests \ {r} : request'[q] = request[q]
  <1>1. request[r] \in [at : Places, order : Orders, saw : Statuses, push : BOOLEAN]
    BY HandlerType
  <1> QED
    BY <1>1 DEF GoTo, RequestState

\* A handler that starts for an order is where it starts.
LEMMA StartType ==
  ASSUME request \in [Requests -> RequestState], NEW r \in Requests, NEW p \in Places,
         NEW o \in Orders, NEW s \in Statuses, NEW push \in BOOLEAN,
         request' = [request EXCEPT ![r] = At(p, o, s, push)]
  PROVE  /\ request' \in [Requests -> RequestState]
         /\ request'[r].at = p /\ request'[r].order = o
         /\ \A q \in Requests \ {r} : request'[q] = request[q]
  BY DEF At, RequestState

\* A handler that ends is idle.
LEMMA EndType ==
  ASSUME request \in [Requests -> RequestState], NEW r \in Requests,
         request' = [request EXCEPT ![r] = Idle]
  PROVE  /\ request' \in [Requests -> RequestState]
         /\ request'[r].at = "idle"
         /\ \A q \in Requests \ {r} : request'[q] = request[q]
  BY DEF RequestState, Idle

\* The places where afterPaid is at work.
LEMMA EffectPlaces ==
  DOMAIN NextAfterError = {"consume", "lock", "find", "reward", "rebate", "apply", "deliver"}
  BY DEF NextAfterError

-----------------------------------------------------------------------------
(* Types *)

\* The rows, handlers and counters have their types before the first request.
LEMMA InitTypeOK == OrdersInit => OrdersTypeOK
  BY OrderAssumption DEF OrdersInit, OrdersTypeOK, Statuses, GatewayState, RequestState

\* Handlers stay at the places they know.
LEMMA RequestStep ==
  ASSUME OrdersTypeOK, [OrdersNext]_vars
  PROVE  request' \in [Requests -> RequestState]
  <1> DEFINE Good == request' \in [Requests -> RequestState]
  <1>0. request \in [Requests -> RequestState]
    BY DEF OrdersTypeOK
  <1>1. ASSUME NEW r \in Requests, NEW o \in Orders, CreateOrder(r, o) PROVE Good
    BY <1>0, <1>1, StartType DEF CreateOrder, Statuses, Places
  <1>2. ASSUME NEW r \in Requests, NEW o \in Orders, AskBalancePay(r, o) PROVE Good
    BY <1>0, <1>2, StartType DEF AskBalancePay, Statuses, Places
  <1>3. ASSUME NEW r \in Requests, NEW o \in Orders, Notify(r, o) PROVE Good
    BY <1>0, <1>3, StartType DEF Notify, Places, OrdersTypeOK
  <1>4. ASSUME NEW r \in Requests, NEW o \in Orders, Status(r, o) PROVE Good
    BY <1>0, <1>4, StartType DEF Status, Statuses, Places
  <1>5. ASSUME NEW r \in Requests, NEW o \in Orders, Retry(r, o) PROVE Good
    BY <1>0, <1>5, StartType DEF Retry, Statuses, Places
  <1>6. ASSUME NEW r \in Requests, PayOrderWithBalance(r) PROVE Good
    BY <1>0, <1>6, GoToType DEF PayOrderWithBalance, Places
  <1>7. ASSUME NEW r \in Requests, RefuseBalancePay(r) PROVE Good
    BY <1>0, <1>7, EndType DEF RefuseBalancePay
  <1>8. ASSUME NEW r \in Requests, QueryOrder(r) PROVE Good
    BY <1>0, <1>8, GoToType, EndType DEF QueryOrder, Places
  <1>9. ASSUME NEW r \in Requests, VoidOrder(r) PROVE Good
    BY <1>0, <1>9, EndType DEF VoidOrder
  <1>10. ASSUME NEW r \in Requests, SkipPaid(r) PROVE Good
    BY <1>0, <1>10, GoToType DEF SkipPaid, Places
  <1>11. ASSUME NEW r \in Requests, CreditRecharge(r) PROVE Good
    BY <1>0, <1>11, GoToType DEF CreditRecharge, Places
  <1>12. ASSUME NEW r \in Requests, MarkOrderPaid(r) PROVE Good
    BY <1>0, <1>12, GoToType DEF MarkOrderPaid, Places
  <1>13. ASSUME NEW r \in Requests, ConsumeDiscountCode(r) PROVE Good
    BY <1>0, <1>13, GoToType DEF ConsumeDiscountCode, Places
  <1>14. ASSUME NEW r \in Requests, LockUserInviteCode(r) PROVE Good
    BY <1>0, <1>14, GoToType DEF LockUserInviteCode, Places
  <1>15. ASSUME NEW r \in Requests, FindReward(r) PROVE Good
    BY <1>0, <1>15, GoToType DEF FindReward, Places
  <1>16. ASSUME NEW r \in Requests, CreateReward(r) PROVE Good
    BY <1>0, <1>16, GoToType DEF CreateReward, Places
  <1>17. ASSUME NEW r \in Requests, GrantRebate(r) PROVE Good
    BY <1>0, <1>17, GoToType DEF GrantRebate, Places
  <1>18. ASSUME NEW r \in Requests, Apply(r) PROVE Good
    BY <1>0, <1>18, GoToType DEF Apply, Places
  <1>19. ASSUME NEW r \in Requests, DeliverUser(r) PROVE Good
    BY <1>0, <1>19, GoToType DEF DeliverUser, Places
  <1>20. ASSUME NEW r \in Requests, AnswerOK(r) PROVE Good
    BY <1>0, <1>20, EndType DEF AnswerOK, Answer
  <1>21. ASSUME NEW r \in Requests, Abort(r) PROVE Good
    BY <1>0, <1>21, EndType DEF Abort
  <1>22. ASSUME NEW r \in Requests, LogError(r) PROVE Good
    BY <1>0, <1>22, EffectPlaces, GoToType DEF LogError, NextAfterError, Places
  <1>23. ASSUME NEW o \in Orders, Pay(o) PROVE Good
    BY <1>0, <1>23 DEF Pay
  <1>24. ASSUME NEW o \in Orders, ExpirePending(o) PROVE Good
    BY <1>0, <1>24 DEF ExpirePending
  <1>25. ASSUME NEW c \in Cards, RedeemGiftcard(c) PROVE Good
    BY <1>0, <1>25 DEF RedeemGiftcard
  <1>26. CASE UNCHANGED vars
    BY <1>0, <1>26 DEF vars
  <1> QED
    BY <1>1, <1>2, <1>3, <1>4, <1>5, <1>6, <1>7, <1>8, <1>9, <1>10, <1>11,
       <1>12, <1>13, <1>14, <1>15, <1>16, <1>17, <1>18, <1>19, <1>20, <1>21,
       <1>22, <1>23, <1>24, <1>25, <1>26 DEF OrdersNext, Serve
\* Every step keeps the types; a payment from the balance is covered by it.
LEMMA TypeStep ==
  ASSUME OrdersTypeOK, [OrdersNext]_vars
  PROVE  OrdersTypeOK'
  <1>0. request' \in [Requests -> RequestState]
    BY RequestStep
  <1> USE OrderAssumption DEF OrdersTypeOK
  <1>1. ASSUME NEW r \in Requests, NEW o \in Orders, CreateOrder(r, o) PROVE OrdersTypeOK'
    BY <1>0, <1>1
       DEF CreateOrder, codeVars, bookVars, effectVars, outside, Fresh, Statuses, GatewayState
  <1>2. ASSUME NEW r \in Requests, NEW o \in Orders, AskBalancePay(r, o) PROVE OrdersTypeOK'
    BY <1>0, <1>2 DEF AskBalancePay, codeVars, bookVars, effectVars, outside
  <1>3. ASSUME NEW r \in Requests, NEW o \in Orders, Notify(r, o) PROVE OrdersTypeOK'
    <2>1. pushes[o] \in 0 .. MaxPushes /\ pushes[o] + 1 \in 0 .. MaxPushes
      BY <1>3 DEF Notify
    <2>2. pushes' \in [Orders -> 0 .. MaxPushes]
      BY <1>3, <2>1 DEF Notify
    <2> QED
      BY <1>0, <1>3, <2>2 DEF Notify, codeVars, bookVars, effectVars, outside
  <1>4. ASSUME NEW r \in Requests, NEW o \in Orders, Status(r, o) PROVE OrdersTypeOK'
    BY <1>0, <1>4 DEF Status, codeVars, bookVars, effectVars, outside
  <1>5. ASSUME NEW r \in Requests, NEW o \in Orders, Retry(r, o) PROVE OrdersTypeOK'
    BY <1>0, <1>5 DEF Retry, codeVars, bookVars, effectVars, outside
  <1>6. ASSUME NEW r \in Requests, PayOrderWithBalance(r) PROVE OrdersTypeOK'
    <2>1. PICK o \in Orders : o = request[r].order
      BY <1>6, HandlerType DEF PayOrderWithBalance
    <2>2. balance' \in [{Buyer, Inviter} -> Nat] /\ log' \in [Entries -> Nat]
      <3>1. <<"consume", o>> \in Entries
        BY DEF Entries
      <3>2. balance[Account[<<"consume", o>>]] + Amount[<<"consume", o>>] >= 0
        BY <1>6, <2>1, <3>1 DEF PayOrderWithBalance, Affords, Account, Amount
      <3> QED
        BY <1>6, <2>1, <3>1, <3>2, MoveType DEF PayOrderWithBalance
    <2> QED
      BY <1>0, <1>6, <2>1, <2>2
         DEF PayOrderWithBalance, codeVars, bookVars, effectVars, outside, Statuses
  <1>7. ASSUME NEW r \in Requests, RefuseBalancePay(r) PROVE OrdersTypeOK'
    BY <1>0, <1>7 DEF RefuseBalancePay, codeVars, bookVars, effectVars, outside
  <1>8. ASSUME NEW r \in Requests, QueryOrder(r) PROVE OrdersTypeOK'
    BY <1>0, <1>8 DEF QueryOrder, codeVars, bookVars, effectVars, outside
  <1>9. ASSUME NEW r \in Requests, VoidOrder(r) PROVE OrdersTypeOK'
    <2>1. request[r].order \in Orders
      BY <1>9, HandlerType DEF VoidOrder
    <2> QED
      BY <1>0, <1>9, <2>1 DEF VoidOrder, codeVars, bookVars, effectVars, outside, Statuses
  <1>10. ASSUME NEW r \in Requests, SkipPaid(r) PROVE OrdersTypeOK'
    BY <1>0, <1>10 DEF SkipPaid, codeVars, bookVars, effectVars, outside
  <1>11. ASSUME NEW r \in Requests, CreditRecharge(r) PROVE OrdersTypeOK'
    <2>1. request[r].order \in Orders
      BY <1>11, HandlerType DEF CreditRecharge
    <2>2. <<"recharge", request[r].order>> \in Entries
      BY <2>1 DEF Entries
    <2>3. balance' \in [{Buyer, Inviter} -> Nat] /\ log' \in [Entries -> Nat]
      BY <1>11, <2>2, GainType, MoveType DEF CreditRecharge
    <2> QED
      BY <1>0, <1>11, <2>1, <2>3
         DEF CreditRecharge, codeVars, bookVars, effectVars, outside, Statuses
  <1>12. ASSUME NEW r \in Requests, MarkOrderPaid(r) PROVE OrdersTypeOK'
    <2>1. request[r].order \in Orders
      BY <1>12, HandlerType DEF MarkOrderPaid
    <2> QED
      BY <1>0, <1>12, <2>1
         DEF MarkOrderPaid, codeVars, bookVars, effectVars, outside, Statuses, GoTo
  <1>13. ASSUME NEW r \in Requests, ConsumeDiscountCode(r) PROVE OrdersTypeOK'
    <2>1. code' \in [used : 0 .. MaxUses, status : {"active", "used_up"}]
      BY <1>13 DEF ConsumeDiscountCode, MayConsume
    <2> QED
      BY <1>0, <1>13, <2>1
         DEF ConsumeDiscountCode, codeVars, bookVars, effectVars, outside
  <1>14. ASSUME NEW r \in Requests, LockUserInviteCode(r) PROVE OrdersTypeOK'
    BY <1>0, <1>14 DEF LockUserInviteCode, codeVars, bookVars, effectVars, outside
  <1>15. ASSUME NEW r \in Requests, FindReward(r) PROVE OrdersTypeOK'
    BY <1>0, <1>15 DEF FindReward, codeVars, bookVars, effectVars, outside
  <1>16. ASSUME NEW r \in Requests, CreateReward(r) PROVE OrdersTypeOK'
    <2>1. request[r].order \in Orders
      BY <1>16, HandlerType DEF CreateReward
    <2> QED
      BY <1>0, <1>16, <2>1 DEF CreateReward, codeVars, bookVars, effectVars, outside
  <1>17. ASSUME NEW r \in Requests, GrantRebate(r) PROVE OrdersTypeOK'
    <2>1. request[r].order \in Orders
      BY <1>17, HandlerType DEF GrantRebate
    <2>2. <<"rebate", request[r].order>> \in Entries
      BY <2>1 DEF Entries
    <2>3. balance' \in [{Buyer, Inviter} -> Nat] /\ log' \in [Entries -> Nat]
      BY <1>17, <2>2, GainType, MoveType DEF GrantRebate, bookVars
    <2> QED
      BY <1>0, <1>17, <2>1, <2>3 DEF GrantRebate, codeVars, bookVars, effectVars, outside
  <1>18. ASSUME NEW r \in Requests, Apply(r) PROVE OrdersTypeOK'
    <2>1. request[r].order \in Orders
      BY <1>18, HandlerType DEF Apply
    <2> QED
      BY <1>0, <1>18, <2>1 DEF Apply, codeVars, bookVars, effectVars, outside
  <1>19. ASSUME NEW r \in Requests, DeliverUser(r) PROVE OrdersTypeOK'
    <2>1. request[r].order \in Orders
      BY <1>19, HandlerType DEF DeliverUser
    <2> QED
      BY <1>0, <1>19, <2>1 DEF DeliverUser, codeVars, bookVars, effectVars, outside
  <1>20. ASSUME NEW r \in Requests, AnswerOK(r) PROVE OrdersTypeOK'
    <2>1. request[r].order \in Orders
      BY <1>20, HandlerType DEF AnswerOK
    <2> QED
      BY <1>0, <1>20, <2>1
         DEF AnswerOK, Answer, codeVars, bookVars, effectVars, outside, GatewayState
  <1>21. ASSUME NEW r \in Requests, Abort(r) PROVE OrdersTypeOK'
    BY <1>0, <1>21 DEF Abort, codeVars, bookVars, effectVars, outside
  <1>22. ASSUME NEW r \in Requests, LogError(r) PROVE OrdersTypeOK'
    BY <1>0, <1>22 DEF LogError, codeVars, bookVars, effectVars, outside
  <1>23. ASSUME NEW o \in Orders, Pay(o) PROVE OrdersTypeOK'
    BY <1>0, <1>23 DEF Pay, codeVars, bookVars, effectVars, outside, GatewayState
  <1>24. ASSUME NEW o \in Orders, ExpirePending(o) PROVE OrdersTypeOK'
    BY <1>0, <1>24 DEF ExpirePending, codeVars, bookVars, effectVars, outside, Statuses
  <1>25. ASSUME NEW c \in Cards, RedeemGiftcard(c) PROVE OrdersTypeOK'
    <2>1. <<"redeem", c>> \in Entries
      BY DEF Entries
    <2>2. balance' \in [{Buyer, Inviter} -> Nat] /\ log' \in [Entries -> Nat]
      BY <1>25, <2>1, GainType, MoveType DEF RedeemGiftcard
    <2> QED
      BY <1>0, <1>25, <2>2 DEF RedeemGiftcard, codeVars, bookVars, effectVars, outside
  <1>26. CASE UNCHANGED vars
    BY <1>26 DEF vars
  <1> QED
    BY <1>1, <1>2, <1>3, <1>4, <1>5, <1>6, <1>7, <1>8, <1>9, <1>10, <1>11,
       <1>12, <1>13, <1>14, <1>15, <1>16, <1>17, <1>18, <1>19, <1>20, <1>21,
       <1>22, <1>23, <1>24, <1>25, <1>26 DEF OrdersNext, Serve

\* Every row, handler and counter has its type in every reachable state.
THEOREM OrdersTypeCorrect == OrdersSpec => []OrdersTypeOK
  BY InitTypeOK, TypeStep, PTL DEF OrdersSpec

-----------------------------------------------------------------------------
(* Invariants *)

\* The log only grows: by a payment when the order is placed, and by a credit
\* or a commission when a handler is there.
LogGrows ==
  /\ \A e \in Entries : log'[e] >= log[e]
  /\ \A o \in Orders :
       /\ log'[<<"consume", o>>] # log[<<"consume", o>>] => order[o] = "none" /\ order'[o] = "paid"
       /\ log'[<<"recharge", o>>] # log[<<"recharge", o>>] =>
            \E r \in Requests : request[r].at = "complete" /\ request[r].order = o
       /\ log'[<<"rebate", o>>] # log[<<"rebate", o>>] => o \in rebates'
  /\ rebates \subseteq rebates'
  /\ \A o \in rebates' \ rebates :
       \E r \in Requests : request[r].at = "rebate" /\ request[r].order = o

\* What each step adds to the log.
LEMMA LogStep ==
  ASSUME OrdersTypeOK, [OrdersNext]_vars
  PROVE  LogGrows
  <1>0. \A o \in Orders : /\ <<"consume", o>> \in Entries /\ <<"recharge", o>> \in Entries
                          /\ <<"rebate", o>> \in Entries
    BY DEF Entries
  <1>a. ASSUME UNCHANGED <<log, rebates>> PROVE LogGrows
    BY <1>a DEF LogGrows, OrdersTypeOK
  <1>b. ASSUME NEW e \in Entries, Move(e)
        PROVE  /\ \A f \in Entries : log'[f] >= log[f]
               /\ \A f \in Entries \ {e} : log'[f] = log[f]
    BY <1>b DEF Move, OrdersTypeOK
  <1>1. ASSUME NEW r \in Requests, NEW o \in Orders, CreateOrder(r, o) PROVE LogGrows
    BY <1>a, <1>1 DEF CreateOrder, codeVars, bookVars, effectVars, outside
  <1>2. ASSUME NEW r \in Requests, NEW o \in Orders, AskBalancePay(r, o) PROVE LogGrows
    BY <1>a, <1>2 DEF AskBalancePay, codeVars, bookVars, effectVars, outside
  <1>3. ASSUME NEW r \in Requests, NEW o \in Orders, Notify(r, o) PROVE LogGrows
    BY <1>a, <1>3 DEF Notify, codeVars, bookVars, effectVars, outside
  <1>4. ASSUME NEW r \in Requests, NEW o \in Orders, Status(r, o) PROVE LogGrows
    BY <1>a, <1>4 DEF Status, codeVars, bookVars, effectVars, outside
  <1>5. ASSUME NEW r \in Requests, NEW o \in Orders, Retry(r, o) PROVE LogGrows
    BY <1>a, <1>5 DEF Retry, codeVars, bookVars, effectVars, outside
  <1>6. ASSUME NEW r \in Requests, PayOrderWithBalance(r) PROVE LogGrows
    <2>0. PICK o \in Orders : o = request[r].order
      BY <1>6, HandlerType DEF PayOrderWithBalance, OrdersTypeOK
    <2>1. UNCHANGED rebates /\ order[o] = "none" /\ order'[o] = "paid"
      BY <1>6, <2>0 DEF PayOrderWithBalance, OrdersTypeOK
    <2>2. CASE UNCHANGED log
      BY <1>a, <2>1, <2>2
    <2>3. CASE Move(<<"consume", o>>)
      BY <1>0, <1>b, <2>1, <2>3 DEF LogGrows
    <2> QED
      BY <1>6, <2>0, <2>2, <2>3 DEF PayOrderWithBalance
  <1>7. ASSUME NEW r \in Requests, RefuseBalancePay(r) PROVE LogGrows
    BY <1>a, <1>7 DEF RefuseBalancePay, codeVars, bookVars, effectVars, outside
  <1>8. ASSUME NEW r \in Requests, QueryOrder(r) PROVE LogGrows
    BY <1>a, <1>8 DEF QueryOrder, codeVars, bookVars, effectVars, outside
  <1>9. ASSUME NEW r \in Requests, VoidOrder(r) PROVE LogGrows
    BY <1>a, <1>9 DEF VoidOrder, codeVars, bookVars, effectVars, outside
  <1>10. ASSUME NEW r \in Requests, SkipPaid(r) PROVE LogGrows
    BY <1>a, <1>10 DEF SkipPaid, codeVars, bookVars, effectVars, outside
  <1>11. ASSUME NEW r \in Requests, CreditRecharge(r) PROVE LogGrows
    <2>1. request[r].order \in Orders /\ request[r].at = "complete" /\ UNCHANGED rebates
      BY <1>11, HandlerType DEF CreditRecharge, OrdersTypeOK
    <2>2. CASE UNCHANGED log
      BY <1>a, <2>1, <2>2
    <2>3. CASE Move(<<"recharge", request[r].order>>)
      BY <1>0, <1>b, <2>1, <2>3 DEF LogGrows
    <2> QED
      BY <1>11, <2>2, <2>3 DEF CreditRecharge
  <1>12. ASSUME NEW r \in Requests, MarkOrderPaid(r) PROVE LogGrows
    BY <1>a, <1>12 DEF MarkOrderPaid, codeVars, bookVars, effectVars, outside
  <1>13. ASSUME NEW r \in Requests, ConsumeDiscountCode(r) PROVE LogGrows
    BY <1>a, <1>13 DEF ConsumeDiscountCode, codeVars, bookVars, effectVars, outside
  <1>14. ASSUME NEW r \in Requests, LockUserInviteCode(r) PROVE LogGrows
    BY <1>a, <1>14 DEF LockUserInviteCode, codeVars, bookVars, effectVars, outside
  <1>15. ASSUME NEW r \in Requests, FindReward(r) PROVE LogGrows
    BY <1>a, <1>15 DEF FindReward, codeVars, bookVars, effectVars, outside
  <1>16. ASSUME NEW r \in Requests, CreateReward(r) PROVE LogGrows
    BY <1>a, <1>16 DEF CreateReward, codeVars, bookVars, effectVars, outside
  <1>17. ASSUME NEW r \in Requests, GrantRebate(r) PROVE LogGrows
    <2>1. request[r].order \in Orders /\ request[r].at = "rebate"
      BY <1>17, HandlerType DEF GrantRebate, OrdersTypeOK
    <2>2. CASE UNCHANGED <<log, rebates>>
      BY <1>a, <2>2
    <2>3. CASE Move(<<"rebate", request[r].order>>) /\ rebates' = rebates \cup {request[r].order}
      BY <1>0, <1>b, <2>1, <2>3 DEF LogGrows
    <2> QED
      BY <1>17, <2>2, <2>3 DEF GrantRebate, bookVars
  <1>18. ASSUME NEW r \in Requests, Apply(r) PROVE LogGrows
    BY <1>a, <1>18 DEF Apply, codeVars, bookVars, effectVars, outside
  <1>19. ASSUME NEW r \in Requests, DeliverUser(r) PROVE LogGrows
    BY <1>a, <1>19 DEF DeliverUser, codeVars, bookVars, effectVars, outside
  <1>20. ASSUME NEW r \in Requests, AnswerOK(r) PROVE LogGrows
    BY <1>a, <1>20 DEF AnswerOK, codeVars, bookVars, effectVars, outside
  <1>21. ASSUME NEW r \in Requests, Abort(r) PROVE LogGrows
    BY <1>a, <1>21 DEF Abort, codeVars, bookVars, effectVars, outside
  <1>22. ASSUME NEW r \in Requests, LogError(r) PROVE LogGrows
    BY <1>a, <1>22 DEF LogError, codeVars, bookVars, effectVars, outside
  <1>23. ASSUME NEW o \in Orders, Pay(o) PROVE LogGrows
    BY <1>a, <1>23 DEF Pay, codeVars, bookVars, effectVars, outside
  <1>24. ASSUME NEW o \in Orders, ExpirePending(o) PROVE LogGrows
    BY <1>a, <1>24 DEF ExpirePending, codeVars, bookVars, effectVars, outside
  <1>25. ASSUME NEW c \in Cards, RedeemGiftcard(c) PROVE LogGrows
    <2>1. <<"redeem", c>> \in Entries /\ Move(<<"redeem", c>>) /\ UNCHANGED rebates
      BY <1>25 DEF RedeemGiftcard, Entries
    <2> QED
      BY <1>0, <1>b, <2>1 DEF LogGrows
  <1>26. CASE UNCHANGED vars
    BY <1>a, <1>26 DEF vars
  <1> QED
    BY <1>1, <1>2, <1>3, <1>4, <1>5, <1>6, <1>7, <1>8, <1>9, <1>10, <1>11,
       <1>12, <1>13, <1>14, <1>15, <1>16, <1>17, <1>18, <1>19, <1>20, <1>21,
       <1>22, <1>23, <1>24, <1>25, <1>26 DEF OrdersNext, Serve

\* A row stays, the gateway learns of orders with a row only, and does not forget
\* that it was paid.
LEMMA GatewayStep ==
  ASSUME OrdersTypeOK, NoRowNoMoney, HandlersHaveRows, [OrdersNext]_vars
  PROVE  \A p \in Orders :
           /\ order[p] # "none" => order'[p] # "none"
           /\ gateway[p] = "absent" => gateway'[p] = "absent" \/ order'[p] # "none"
           /\ PaidAtGateway(p) => PaidAtGateway(p)'
  <1> DEFINE Good == \A p \in Orders :
                       /\ order[p] # "none" => order'[p] # "none"
                       /\ gateway[p] = "absent" => gateway'[p] = "absent" \/ order'[p] # "none"
                       /\ PaidAtGateway(p) => PaidAtGateway(p)'
  <1> USE DEF PaidAtGateway, OrdersTypeOK, NoRowNoMoney
  <1>1. ASSUME NEW r \in Requests, NEW o \in Orders, CreateOrder(r, o) PROVE Good
    BY <1>1 DEF CreateOrder, Fresh, codeVars, bookVars, effectVars, outside
  <1>2. ASSUME NEW r \in Requests, NEW o \in Orders, AskBalancePay(r, o) PROVE Good
    BY <1>2 DEF AskBalancePay, codeVars, bookVars, effectVars, outside
  <1>3. ASSUME NEW r \in Requests, NEW o \in Orders, Notify(r, o) PROVE Good
    BY <1>3 DEF Notify, codeVars, bookVars, effectVars, outside
  <1>4. ASSUME NEW r \in Requests, NEW o \in Orders, Status(r, o) PROVE Good
    BY <1>4 DEF Status, codeVars, bookVars, effectVars, outside
  <1>5. ASSUME NEW r \in Requests, NEW o \in Orders, Retry(r, o) PROVE Good
    BY <1>5 DEF Retry, codeVars, bookVars, effectVars, outside
  <1>6. ASSUME NEW r \in Requests, PayOrderWithBalance(r) PROVE Good
    <2>1. request[r].order \in Orders
      BY <1>6, HandlerType DEF PayOrderWithBalance
    <2> QED
      BY <1>6, <2>1 DEF PayOrderWithBalance, codeVars, bookVars, effectVars, outside
  <1>7. ASSUME NEW r \in Requests, RefuseBalancePay(r) PROVE Good
    BY <1>7 DEF RefuseBalancePay, codeVars, bookVars, effectVars, outside
  <1>8. ASSUME NEW r \in Requests, QueryOrder(r) PROVE Good
    BY <1>8 DEF QueryOrder, codeVars, bookVars, effectVars, outside
  <1>9. ASSUME NEW r \in Requests, VoidOrder(r) PROVE Good
    <2>1. request[r].order \in Orders
      BY <1>9, HandlerType DEF VoidOrder
    <2> QED
      BY <1>9, <2>1 DEF VoidOrder, codeVars, bookVars, effectVars, outside
  <1>10. ASSUME NEW r \in Requests, SkipPaid(r) PROVE Good
    BY <1>10 DEF SkipPaid, codeVars, bookVars, effectVars, outside
  <1>11. ASSUME NEW r \in Requests, CreditRecharge(r) PROVE Good
    <2>1. request[r].order \in Orders
      BY <1>11, HandlerType DEF CreditRecharge
    <2> QED
      BY <1>11, <2>1 DEF CreditRecharge, codeVars, bookVars, effectVars, outside
  <1>12. ASSUME NEW r \in Requests, MarkOrderPaid(r) PROVE Good
    <2>1. request[r].order \in Orders
      BY <1>12, HandlerType DEF MarkOrderPaid
    <2> QED
      BY <1>12, <2>1 DEF MarkOrderPaid, codeVars, bookVars, effectVars, outside
  <1>13. ASSUME NEW r \in Requests, ConsumeDiscountCode(r) PROVE Good
    BY <1>13 DEF ConsumeDiscountCode, codeVars, bookVars, effectVars, outside
  <1>14. ASSUME NEW r \in Requests, LockUserInviteCode(r) PROVE Good
    BY <1>14 DEF LockUserInviteCode, codeVars, bookVars, effectVars, outside
  <1>15. ASSUME NEW r \in Requests, FindReward(r) PROVE Good
    BY <1>15 DEF FindReward, codeVars, bookVars, effectVars, outside
  <1>16. ASSUME NEW r \in Requests, CreateReward(r) PROVE Good
    BY <1>16 DEF CreateReward, codeVars, bookVars, effectVars, outside
  <1>17. ASSUME NEW r \in Requests, GrantRebate(r) PROVE Good
    BY <1>17 DEF GrantRebate, codeVars, bookVars, effectVars, outside
  <1>18. ASSUME NEW r \in Requests, Apply(r) PROVE Good
    BY <1>18 DEF Apply, codeVars, bookVars, effectVars, outside
  <1>19. ASSUME NEW r \in Requests, DeliverUser(r) PROVE Good
    BY <1>19 DEF DeliverUser, codeVars, bookVars, effectVars, outside
  <1>20. ASSUME NEW r \in Requests, AnswerOK(r) PROVE Good
    <2>1. request[r].order \in Orders /\ order[request[r].order] # "none"
      BY <1>20, HandlerType DEF AnswerOK, HandlersHaveRows, Places
    <2> QED
      BY <1>20, <2>1 DEF AnswerOK, Answer, codeVars, bookVars, effectVars, outside
  <1>21. ASSUME NEW r \in Requests, Abort(r) PROVE Good
    BY <1>21 DEF Abort, codeVars, bookVars, effectVars, outside
  <1>22. ASSUME NEW r \in Requests, LogError(r) PROVE Good
    BY <1>22 DEF LogError, codeVars, bookVars, effectVars, outside
  <1>23. ASSUME NEW o \in Orders, Pay(o) PROVE Good
    BY <1>23 DEF Pay, codeVars, bookVars, effectVars, outside
  <1>24. ASSUME NEW o \in Orders, ExpirePending(o) PROVE Good
    BY <1>24 DEF ExpirePending, codeVars, bookVars, effectVars, outside
  <1>25. ASSUME NEW c \in Cards, RedeemGiftcard(c) PROVE Good
    BY <1>25 DEF RedeemGiftcard, codeVars, bookVars, effectVars, outside
  <1>26. CASE UNCHANGED vars
    BY <1>26 DEF vars
  <1> QED
    BY <1>1, <1>2, <1>3, <1>4, <1>5, <1>6, <1>7, <1>8, <1>9, <1>10, <1>11,
       <1>12, <1>13, <1>14, <1>15, <1>16, <1>17, <1>18, <1>19, <1>20, <1>21,
       <1>22, <1>23, <1>24, <1>25, <1>26 DEF OrdersNext, Serve

\* What was paid for stays paid for.
LEMMA FundedStays ==
  ASSUME OrdersTypeOK, NoRowNoMoney, HandlersHaveRows, [OrdersNext]_vars
  PROVE  \A p \in Orders : Funded(p) => Funded(p)'
  <1> SUFFICES ASSUME NEW p \in Orders, Funded(p) PROVE Funded(p)'
    OBVIOUS
  <1>1. PaidAtGateway(p) => PaidAtGateway(p)'
    BY GatewayStep
  <1>2. <<"consume", p>> \in Entries
    BY DEF Entries
  <1>3. log[<<"consume", p>>] \in Nat /\ log'[<<"consume", p>>] \in Nat
    BY <1>2, TypeStep DEF OrdersTypeOK
  <1>4. PaidFromBalance(p) => PaidFromBalance(p)'
    BY <1>2, <1>3, LogStep DEF LogGrows, PaidFromBalance
  <1> QED
    BY <1>1, <1>4 DEF Funded

\* Rows, payments and commissions agree after each step.
LEMMA MoneyStep ==
  ASSUME OrdersTypeOK, NoRowNoMoney, RebatesLogged, HandlersHaveRows, [OrdersNext]_vars
  PROVE  NoRowNoMoney' /\ RebatesLogged'
  <1>1. LogGrows
    BY LogStep
  <1>2. ASSUME NEW o \in Orders, order'[o] = "none"
        PROVE  gateway'[o] = "absent" /\ log'[<<"consume", o>>] = 0
    <2>1. order[o] = "none"
      BY <1>2, GatewayStep
    <2>2. gateway[o] = "absent" /\ log[<<"consume", o>>] = 0
      BY <2>1 DEF NoRowNoMoney
    <2>3. gateway'[o] = "absent"
      BY <1>2, <2>2, GatewayStep
    <2> QED
      BY <1>1, <1>2, <2>2, <2>3 DEF LogGrows
  <1>3. ASSUME NEW o \in Orders, o \notin rebates' PROVE log'[<<"rebate", o>>] = 0
    <2>1. o \notin rebates /\ log'[<<"rebate", o>>] = log[<<"rebate", o>>]
      BY <1>1, <1>3 DEF LogGrows
    <2> QED
      BY <2>1 DEF RebatesLogged
  <1> QED
    BY <1>2, <1>3 DEF NoRowNoMoney, RebatesLogged

\* Effects are only added, each by a handler that is there.
EffectsGrow ==
  /\ \A p \in Orders :
       /\ applied'[p] >= applied[p]
       /\ applied'[p] # applied[p] => \E r \in Requests : request[r].at = "apply" /\ request[r].order = p
       /\ rewards'[p] # rewards[p] => \E r \in Requests : request[r].at = "reward" /\ request[r].order = p
  /\ delivered \subseteq delivered'
  /\ faults' >= faults

\* What each step does to plans, rewards and deliveries.
LEMMA EffectStep ==
  ASSUME OrdersTypeOK, [OrdersNext]_vars
  PROVE  EffectsGrow
  <1> USE DEF EffectsGrow, OrdersTypeOK
  <1>1. ASSUME NEW r \in Requests, NEW o \in Orders, CreateOrder(r, o) PROVE EffectsGrow
    BY <1>1 DEF CreateOrder, codeVars, bookVars, effectVars, outside
  <1>2. ASSUME NEW r \in Requests, NEW o \in Orders, AskBalancePay(r, o) PROVE EffectsGrow
    BY <1>2 DEF AskBalancePay, codeVars, bookVars, effectVars, outside
  <1>3. ASSUME NEW r \in Requests, NEW o \in Orders, Notify(r, o) PROVE EffectsGrow
    BY <1>3 DEF Notify, codeVars, bookVars, effectVars, outside
  <1>4. ASSUME NEW r \in Requests, NEW o \in Orders, Status(r, o) PROVE EffectsGrow
    BY <1>4 DEF Status, codeVars, bookVars, effectVars, outside
  <1>5. ASSUME NEW r \in Requests, NEW o \in Orders, Retry(r, o) PROVE EffectsGrow
    BY <1>5 DEF Retry, codeVars, bookVars, effectVars, outside
  <1>6. ASSUME NEW r \in Requests, PayOrderWithBalance(r) PROVE EffectsGrow
    BY <1>6 DEF PayOrderWithBalance, codeVars, bookVars, effectVars, outside
  <1>7. ASSUME NEW r \in Requests, RefuseBalancePay(r) PROVE EffectsGrow
    BY <1>7 DEF RefuseBalancePay, codeVars, bookVars, effectVars, outside
  <1>8. ASSUME NEW r \in Requests, QueryOrder(r) PROVE EffectsGrow
    BY <1>8 DEF QueryOrder, codeVars, bookVars, effectVars, outside
  <1>9. ASSUME NEW r \in Requests, VoidOrder(r) PROVE EffectsGrow
    BY <1>9 DEF VoidOrder, codeVars, bookVars, effectVars, outside
  <1>10. ASSUME NEW r \in Requests, SkipPaid(r) PROVE EffectsGrow
    BY <1>10 DEF SkipPaid, codeVars, bookVars, effectVars, outside
  <1>11. ASSUME NEW r \in Requests, CreditRecharge(r) PROVE EffectsGrow
    BY <1>11 DEF CreditRecharge, codeVars, bookVars, effectVars, outside
  <1>12. ASSUME NEW r \in Requests, MarkOrderPaid(r) PROVE EffectsGrow
    BY <1>12 DEF MarkOrderPaid, codeVars, bookVars, effectVars, outside
  <1>13. ASSUME NEW r \in Requests, ConsumeDiscountCode(r) PROVE EffectsGrow
    BY <1>13 DEF ConsumeDiscountCode, codeVars, bookVars, effectVars, outside
  <1>14. ASSUME NEW r \in Requests, LockUserInviteCode(r) PROVE EffectsGrow
    BY <1>14 DEF LockUserInviteCode, codeVars, bookVars, effectVars, outside
  <1>15. ASSUME NEW r \in Requests, FindReward(r) PROVE EffectsGrow
    BY <1>15 DEF FindReward, codeVars, bookVars, effectVars, outside
  <1>16. ASSUME NEW r \in Requests, CreateReward(r) PROVE EffectsGrow
    <2>1. request[r].order \in Orders
      BY <1>16, HandlerType DEF CreateReward
    <2> QED
      BY <1>16, <2>1 DEF CreateReward, codeVars, bookVars, effectVars, outside
  <1>17. ASSUME NEW r \in Requests, GrantRebate(r) PROVE EffectsGrow
    BY <1>17 DEF GrantRebate, codeVars, bookVars, effectVars, outside
  <1>18. ASSUME NEW r \in Requests, Apply(r) PROVE EffectsGrow
    <2>1. request[r].order \in Orders
      BY <1>18, HandlerType DEF Apply
    <2> QED
      BY <1>18, <2>1 DEF Apply, codeVars, bookVars, effectVars, outside
  <1>19. ASSUME NEW r \in Requests, DeliverUser(r) PROVE EffectsGrow
    <2>1. request[r].order \in Orders
      BY <1>19, HandlerType DEF DeliverUser
    <2> QED
      BY <1>19, <2>1 DEF DeliverUser, codeVars, bookVars, effectVars, outside
  <1>20. ASSUME NEW r \in Requests, AnswerOK(r) PROVE EffectsGrow
    BY <1>20 DEF AnswerOK, codeVars, bookVars, effectVars, outside
  <1>21. ASSUME NEW r \in Requests, Abort(r) PROVE EffectsGrow
    BY <1>21 DEF Abort, codeVars, bookVars, effectVars, outside
  <1>22. ASSUME NEW r \in Requests, LogError(r) PROVE EffectsGrow
    BY <1>22 DEF LogError, codeVars, bookVars, effectVars, outside
  <1>23. ASSUME NEW o \in Orders, Pay(o) PROVE EffectsGrow
    BY <1>23 DEF Pay, codeVars, bookVars, effectVars, outside
  <1>24. ASSUME NEW o \in Orders, ExpirePending(o) PROVE EffectsGrow
    BY <1>24 DEF ExpirePending, codeVars, bookVars, effectVars, outside
  <1>25. ASSUME NEW c \in Cards, RedeemGiftcard(c) PROVE EffectsGrow
    BY <1>25 DEF RedeemGiftcard, codeVars, bookVars, effectVars, outside
  <1>26. CASE UNCHANGED vars
    BY <1>26 DEF vars
  <1> QED
    BY <1>1, <1>2, <1>3, <1>4, <1>5, <1>6, <1>7, <1>8, <1>9, <1>10, <1>11,
       <1>12, <1>13, <1>14, <1>15, <1>16, <1>17, <1>18, <1>19, <1>20, <1>21,
       <1>22, <1>23, <1>24, <1>25, <1>26 DEF OrdersNext, Serve

\* Nothing is given by a step for an order that is not paid for.
LEMMA NothingUnpaidStep ==
  ASSUME OrdersTypeOK, NoRowNoMoney, HandlersHaveRows, HandlersFunded, NothingUnpaid, [OrdersNext]_vars
  PROVE  NothingUnpaid'
  <1> SUFFICES ASSUME NEW o \in Orders,
                      (applied[o] > 0 \/ log[<<"recharge", o>>] > 0 \/ rewards[o] > 0 \/ o \in rebates)'
               PROVE  Funded(o)'
    BY DEF NothingUnpaid
  <1>1. CASE applied[o] > 0 \/ log[<<"recharge", o>>] > 0 \/ rewards[o] > 0 \/ o \in rebates
    BY <1>1, FundedStays DEF NothingUnpaid
  <1>2. CASE ~(applied[o] > 0 \/ log[<<"recharge", o>>] > 0 \/ rewards[o] > 0 \/ o \in rebates)
    <2>0. \/ applied'[o] # applied[o] \/ rewards'[o] # rewards[o]
          \/ log'[<<"recharge", o>>] # log[<<"recharge", o>>] \/ o \in rebates' \ rebates
      BY <1>2
    <2>1. PICK r \in Requests :
            request[r].order = o /\ request[r].at \in {"apply", "complete", "reward", "rebate"}
      <3>1. EffectsGrow /\ LogGrows
        BY EffectStep, LogStep
      <3>2. CASE applied'[o] # applied[o] \/ rewards'[o] # rewards[o]
        BY <3>1, <3>2 DEF EffectsGrow
      <3>3. CASE log'[<<"recharge", o>>] # log[<<"recharge", o>>]
        <4>1. \E r \in Requests : request[r].at = "complete" /\ request[r].order = o
          BY <3>1, <3>3 DEF LogGrows
        <4> QED
          BY <4>1
      <3>4. CASE o \in rebates' \ rebates
        BY <3>1, <3>4 DEF LogGrows
      <3> QED
        BY <2>0, <3>2, <3>3, <3>4
    <2>2. Funded(o)
      BY <2>1 DEF HandlersFunded, Places, Asking
    <2> QED
      BY <2>2, FundedStays
  <1> QED
    BY <1>1, <1>2

\* The code is not used more often than it may be.
LEMMA CodeStep ==
  ASSUME OrdersTypeOK, CodeWithinBudget, [OrdersNext]_vars
  PROVE  CodeWithinBudget'
  <1> USE DEF CodeWithinBudget
  <1>1. ASSUME NEW r \in Requests, NEW o \in Orders, CreateOrder(r, o) PROVE CodeWithinBudget'
    BY <1>1 DEF CreateOrder, codeVars
  <1>2. ASSUME NEW r \in Requests, NEW o \in Orders, AskBalancePay(r, o) PROVE CodeWithinBudget'
    BY <1>2 DEF AskBalancePay, codeVars
  <1>3. ASSUME NEW r \in Requests, NEW o \in Orders, Notify(r, o) PROVE CodeWithinBudget'
    BY <1>3 DEF Notify, codeVars
  <1>4. ASSUME NEW r \in Requests, NEW o \in Orders, Status(r, o) PROVE CodeWithinBudget'
    BY <1>4 DEF Status, codeVars
  <1>5. ASSUME NEW r \in Requests, NEW o \in Orders, Retry(r, o) PROVE CodeWithinBudget'
    BY <1>5 DEF Retry, codeVars
  <1>6. ASSUME NEW r \in Requests, PayOrderWithBalance(r) PROVE CodeWithinBudget'
    BY <1>6 DEF PayOrderWithBalance, codeVars
  <1>7. ASSUME NEW r \in Requests, RefuseBalancePay(r) PROVE CodeWithinBudget'
    BY <1>7 DEF RefuseBalancePay, codeVars
  <1>8. ASSUME NEW r \in Requests, QueryOrder(r) PROVE CodeWithinBudget'
    BY <1>8 DEF QueryOrder, codeVars
  <1>9. ASSUME NEW r \in Requests, VoidOrder(r) PROVE CodeWithinBudget'
    BY <1>9 DEF VoidOrder, codeVars
  <1>10. ASSUME NEW r \in Requests, SkipPaid(r) PROVE CodeWithinBudget'
    BY <1>10 DEF SkipPaid, codeVars
  <1>11. ASSUME NEW r \in Requests, CreditRecharge(r) PROVE CodeWithinBudget'
    BY <1>11 DEF CreditRecharge, codeVars
  <1>12. ASSUME NEW r \in Requests, MarkOrderPaid(r) PROVE CodeWithinBudget'
    BY <1>12 DEF MarkOrderPaid, codeVars
  <1>13. ASSUME NEW r \in Requests, ConsumeDiscountCode(r) PROVE CodeWithinBudget'
    BY <1>13, OrderAssumption
       DEF ConsumeDiscountCode, MayConsume, ClosesCode, OrdersTypeOK
  <1>14. ASSUME NEW r \in Requests, LockUserInviteCode(r) PROVE CodeWithinBudget'
    BY <1>14 DEF LockUserInviteCode, codeVars
  <1>15. ASSUME NEW r \in Requests, FindReward(r) PROVE CodeWithinBudget'
    BY <1>15 DEF FindReward, codeVars
  <1>16. ASSUME NEW r \in Requests, CreateReward(r) PROVE CodeWithinBudget'
    BY <1>16 DEF CreateReward, codeVars
  <1>17. ASSUME NEW r \in Requests, GrantRebate(r) PROVE CodeWithinBudget'
    BY <1>17 DEF GrantRebate, codeVars
  <1>18. ASSUME NEW r \in Requests, Apply(r) PROVE CodeWithinBudget'
    BY <1>18 DEF Apply, codeVars
  <1>19. ASSUME NEW r \in Requests, DeliverUser(r) PROVE CodeWithinBudget'
    BY <1>19 DEF DeliverUser, codeVars
  <1>20. ASSUME NEW r \in Requests, AnswerOK(r) PROVE CodeWithinBudget'
    BY <1>20 DEF AnswerOK, codeVars
  <1>21. ASSUME NEW r \in Requests, Abort(r) PROVE CodeWithinBudget'
    BY <1>21 DEF Abort, codeVars
  <1>22. ASSUME NEW r \in Requests, LogError(r) PROVE CodeWithinBudget'
    BY <1>22 DEF LogError, codeVars
  <1>23. ASSUME NEW o \in Orders, Pay(o) PROVE CodeWithinBudget'
    BY <1>23 DEF Pay, codeVars
  <1>24. ASSUME NEW o \in Orders, ExpirePending(o) PROVE CodeWithinBudget'
    BY <1>24 DEF ExpirePending, codeVars
  <1>25. ASSUME NEW c \in Cards, RedeemGiftcard(c) PROVE CodeWithinBudget'
    BY <1>25 DEF RedeemGiftcard, codeVars
  <1>26. CASE UNCHANGED vars
    BY <1>26 DEF vars
  <1> QED
    BY <1>1, <1>2, <1>3, <1>4, <1>5, <1>6, <1>7, <1>8, <1>9, <1>10, <1>11,
       <1>12, <1>13, <1>14, <1>15, <1>16, <1>17, <1>18, <1>19, <1>20, <1>21,
       <1>22, <1>23, <1>24, <1>25, <1>26 DEF OrdersNext, Serve

\* What handlers rely on.
HandlersOK == HandlersHaveRows /\ HandlersFunded /\ AppliedFirst

\* When one handler moves, the others stay as they were, and so does what they
\* rely on.
LEMMA HandlerMoves ==
  ASSUME OrdersTypeOK, NoRowNoMoney, HandlersOK, [OrdersNext]_vars, NEW r \in Requests,
         \A q \in Requests \ {r} : request'[q] = request[q],
         (request[r].at \in Places \ {"deduct"} => order[request[r].order] # "none")',
         (request[r].at \in Places \ Asking => Funded(request[r].order))',
         (request[r].at = "deliver" => applied[request[r].order] > 0)'
  PROVE  HandlersOK'
  <1> USE DEF HandlersOK, Asking
  <1>1. SUFFICES ASSUME NEW q \in Requests, request'[q].at \in Places
        PROVE  /\ request'[q].at # "deduct" => order'[request'[q].order] # "none"
               /\ request'[q].at \notin Asking => (Funded(request[q].order))'
               /\ request'[q].at = "deliver" => applied'[request'[q].order] > 0
    BY DEF HandlersHaveRows, HandlersFunded, AppliedFirst, Places
  <1>2. CASE q = r
    BY <1>1, <1>2
  <1>3. CASE q # r
    <2>1. request'[q] = request[q] /\ request[q].at \in Places /\ request[q].order \in Orders
      BY <1>1, <1>3, HandlerType DEF OrdersTypeOK, Places
    <2>2. request[q].at # "deduct" => order'[request[q].order] # "none"
      BY <2>1, GatewayStep DEF HandlersHaveRows
    <2>3. request[q].at \notin Asking => Funded(request[q].order)'
      BY <2>1, FundedStays DEF HandlersFunded
    <2>4. request[q].at = "deliver" => applied'[request[q].order] > 0
      <3>1. applied[request[q].order] \in Nat /\ applied'[request[q].order] \in Nat
        BY <2>1, TypeStep DEF OrdersTypeOK
      <3> QED
        BY <2>1, <3>1, EffectStep DEF EffectsGrow, AppliedFirst
    <2> QED
      BY <2>1, <2>2, <2>3, <2>4 DEF Funded, PaidAtGateway, PaidFromBalance
  <1> QED
    BY <1>2, <1>3

\* The same for a handler that is there already and goes on with its order.
LEMMA HandlerGoesOn ==
  ASSUME OrdersTypeOK, NoRowNoMoney, HandlersOK, [OrdersNext]_vars, NEW r \in Requests,
         request[r].at \notin {"idle", "deduct"}, NEW p \in Places, GoTo(r, p),
         p \notin Asking =>
           request[r].at \notin Asking \/ Funded(request[r].order),
         p = "deliver" => applied'[request[r].order] > 0
  PROVE  HandlersOK'
  <1> USE DEF Asking
  <1>1. /\ request'[r].at = p /\ request'[r].order = request[r].order
        /\ \A q \in Requests \ {r} : request'[q] = request[q]
    BY GoToType DEF OrdersTypeOK
  <1>2. request[r].at \in Places /\ request[r].order \in Orders
    BY HandlerType DEF OrdersTypeOK
  <1>3. PICK o \in Orders : request[r].order = o
    BY <1>2
  <1>4. order'[o] # "none"
    BY <1>2, <1>3, GatewayStep DEF HandlersOK, HandlersHaveRows
  <1>5. ASSUME p \notin Asking PROVE Funded(o)'
    <2>1. Funded(o)
      BY <1>2, <1>3, <1>5 DEF HandlersOK, HandlersFunded
    <2> QED
      BY <2>1, FundedStays DEF HandlersOK
  <1>6. (request[r].at \in Places \ Asking => Funded(request[r].order))'
    BY <1>1, <1>3, <1>5 DEF Funded, PaidAtGateway, PaidFromBalance
  <1> QED
    BY <1>1, <1>3, <1>4, <1>6, HandlerMoves

\* The same for a handler that ends.
LEMMA HandlerEnds ==
  ASSUME OrdersTypeOK, NoRowNoMoney, HandlersOK, [OrdersNext]_vars, NEW r \in Requests,
         request' = [request EXCEPT ![r] = Idle]
  PROVE  HandlersOK'
  <1>1. request'[r].at = "idle" /\ \A q \in Requests \ {r} : request'[q] = request[q]
    BY EndType DEF OrdersTypeOK
  <1> QED
    BY <1>1, HandlerMoves DEF Places

\* Whatever handlers rely on, each step keeps.
LEMMA HandlersStep ==
  ASSUME OrdersTypeOK, NoRowNoMoney, HandlersOK, [OrdersNext]_vars
  PROVE  HandlersOK'
  <1> USE DEF Asking
  <1>a. ASSUME UNCHANGED request PROVE HandlersOK'
    <2> SUFFICES ASSUME NEW r \in Requests PROVE HandlersOK'
      BY <1>a DEF HandlersOK, HandlersHaveRows, HandlersFunded, AppliedFirst
    <2>1. CASE request[r].at \in {"idle", "deduct"}
      BY <1>a, <2>1, HandlerMoves DEF Places
    <2>2. CASE request[r].at \notin {"idle", "deduct"}
      <3>1. request[r].at \in Places /\ GoTo(r, request[r].at)
        BY <1>a, <2>2, HandlerType DEF GoTo, OrdersTypeOK, RequestState
      <3>2. request[r].order \in Orders
        BY <2>2, HandlerType DEF OrdersTypeOK
      <3>3. request[r].at = "deliver" => applied'[request[r].order] > 0
        <4>1. applied[request[r].order] \in Nat /\ applied'[request[r].order] \in Nat
          BY <3>2, TypeStep DEF OrdersTypeOK
        <4> QED
          BY <3>2, <4>1, EffectStep DEF EffectsGrow, HandlersOK, AppliedFirst
      <3> QED
        BY <2>2, <3>1, <3>3, HandlerGoesOn
    <2> QED
      BY <2>1, <2>2
  <1>1. ASSUME NEW r \in Requests, NEW o \in Orders, CreateOrder(r, o) PROVE HandlersOK'
    <2>1. order'[o] = "pending"
      BY <1>1 DEF CreateOrder, OrdersTypeOK
    <2>2. CASE Price[o] = 0
      <3>1. /\ request'[r].at = "complete" /\ request'[r].order = o
            /\ \A q \in Requests \ {r} : request'[q] = request[q]
        BY <1>1, <2>2, StartType DEF CreateOrder, Statuses, Places, OrdersTypeOK
      <3> QED
        BY <2>1, <2>2, <3>1, HandlerMoves DEF Funded, PaidAtGateway, PaidFromBalance
    <2>3. CASE Price[o] # 0
      BY <1>a, <1>1, <2>3 DEF CreateOrder
    <2> QED
      BY <2>2, <2>3
  <1>2. ASSUME NEW r \in Requests, NEW o \in Orders, AskBalancePay(r, o) PROVE HandlersOK'
    <2>1. /\ request'[r].at = "deduct" /\ request'[r].order = o
          /\ \A q \in Requests \ {r} : request'[q] = request[q]
      BY <1>2, StartType DEF AskBalancePay, Statuses, Places, OrdersTypeOK
    <2> QED
      BY <1>2, <2>1, HandlerMoves DEF AskBalancePay
  <1>3. ASSUME NEW r \in Requests, NEW o \in Orders, Notify(r, o) PROVE HandlersOK'
    <2>1. /\ request'[r].at = "complete" /\ request'[r].order = o
          /\ \A q \in Requests \ {r} : request'[q] = request[q]
      BY <1>3, StartType DEF Notify, Statuses, Places, OrdersTypeOK
    <2>2. order'[o] # "none"
      BY <1>3 DEF Notify, NoRowNoMoney
    <2>3. Funded(o)'
      BY <1>3, FundedStays DEF Notify, Funded, PaidAtGateway
    <2> QED
      BY <2>1, <2>2, <2>3, HandlerMoves DEF Funded, PaidAtGateway, PaidFromBalance
  <1>4. ASSUME NEW r \in Requests, NEW o \in Orders, Status(r, o) PROVE HandlersOK'
    <2>1. /\ request'[r].at = "query" /\ request'[r].order = o
          /\ \A q \in Requests \ {r} : request'[q] = request[q]
      BY <1>4, StartType DEF Status, Statuses, Places, OrdersTypeOK
    <2> QED
      BY <1>4, <2>1, HandlerMoves DEF Status
  <1>5. ASSUME NEW r \in Requests, NEW o \in Orders, Retry(r, o) PROVE HandlersOK'
    <2>1. /\ request'[r].at = "refused" /\ request'[r].order = o
          /\ \A q \in Requests \ {r} : request'[q] = request[q]
      BY <1>5, StartType DEF Retry, Statuses, Places, OrdersTypeOK
    <2> QED
      BY <1>5, <2>1, HandlerMoves DEF Retry
  <1>6. ASSUME NEW r \in Requests, PayOrderWithBalance(r) PROVE HandlersOK'
    <2>1. PICK o \in Orders : o = request[r].order
      BY <1>6, HandlerType DEF PayOrderWithBalance, OrdersTypeOK
    <2>2. /\ request'[r].at = (IF o \in Coded THEN "consume" ELSE "rebate") /\ request'[r].order = o
          /\ \A q \in Requests \ {r} : request'[q] = request[q]
      BY <1>6, <2>1, GoToType DEF PayOrderWithBalance, Places, OrdersTypeOK
    <2>3. order'[o] = "paid"
      BY <1>6, <2>1 DEF PayOrderWithBalance, OrdersTypeOK
    <2>4. Funded(o)'
      <3>1. <<"consume", o>> \in Entries /\ log[<<"consume", o>>] \in Nat /\ Price[o] \in Nat
        BY OrderAssumption DEF Entries, OrdersTypeOK
      <3> QED
        BY <1>6, <2>1, <3>1
           DEF PayOrderWithBalance, Move, Funded, PaidFromBalance, OrdersTypeOK
    <2> QED
      BY <2>2, <2>3, <2>4, HandlerMoves DEF Funded, PaidAtGateway, PaidFromBalance
  <1>7. ASSUME NEW r \in Requests, RefuseBalancePay(r) PROVE HandlersOK'
    BY <1>7, HandlerEnds DEF RefuseBalancePay
  <1>8. ASSUME NEW r \in Requests, QueryOrder(r) PROVE HandlersOK'
    <2>1. CASE AnswersPaid(request[r].order)
      <3>1. Funded(request[r].order)
        BY <2>1 DEF AnswersPaid, Funded, PaidAtGateway
      <3> QED
        BY <1>8, <2>1, <3>1, HandlerGoesOn DEF QueryOrder, Places
    <2>2. CASE ~AnswersPaid(request[r].order)
      BY <1>8, <2>2, HandlerEnds DEF QueryOrder
    <2> QED
      BY <2>1, <2>2
  <1>9. ASSUME NEW r \in Requests, VoidOrder(r) PROVE HandlersOK'
    BY <1>9, HandlerEnds DEF VoidOrder
  <1>10. ASSUME NEW r \in Requests, SkipPaid(r) PROVE HandlersOK'
    BY <1>10, HandlerGoesOn DEF SkipPaid, Places
  <1>11. ASSUME NEW r \in Requests, CreditRecharge(r) PROVE HandlersOK'
    BY <1>11, HandlerGoesOn DEF CreditRecharge, Places
  <1>12. ASSUME NEW r \in Requests, MarkOrderPaid(r) PROVE HandlersOK'
    BY <1>12, HandlerGoesOn DEF MarkOrderPaid, Places
  <1>13. ASSUME NEW r \in Requests, ConsumeDiscountCode(r) PROVE HandlersOK'
    BY <1>13, HandlerGoesOn DEF ConsumeDiscountCode, Places
  <1>14. ASSUME NEW r \in Requests, LockUserInviteCode(r) PROVE HandlersOK'
    BY <1>14, HandlerGoesOn DEF LockUserInviteCode, Places
  <1>15. ASSUME NEW r \in Requests, FindReward(r) PROVE HandlersOK'
    BY <1>15, HandlerGoesOn DEF FindReward, Places
  <1>16. ASSUME NEW r \in Requests, CreateReward(r) PROVE HandlersOK'
    BY <1>16, HandlerGoesOn DEF CreateReward, Places
  <1>17. ASSUME NEW r \in Requests, GrantRebate(r) PROVE HandlersOK'
    BY <1>17, HandlerGoesOn DEF GrantRebate, Places
  <1>18. ASSUME NEW r \in Requests, Apply(r) PROVE HandlersOK'
    <2>1. request[r].order \in Orders
      BY <1>18, HandlerType DEF Apply, OrdersTypeOK
    <2>2. applied'[request[r].order] > 0
      BY <1>18, <2>1 DEF Apply, OrdersTypeOK
    <2> QED
      BY <1>18, <2>2, HandlerGoesOn DEF Apply, Places
  <1>19. ASSUME NEW r \in Requests, DeliverUser(r) PROVE HandlersOK'
    BY <1>19, HandlerGoesOn DEF DeliverUser, Places
  <1>20. ASSUME NEW r \in Requests, AnswerOK(r) PROVE HandlersOK'
    BY <1>20, HandlerEnds DEF AnswerOK, Answer
  <1>21. ASSUME NEW r \in Requests, Abort(r) PROVE HandlersOK'
    BY <1>21, HandlerEnds DEF Abort
  <1>22. ASSUME NEW r \in Requests, LogError(r) PROVE HandlersOK'
    <2>1. /\ NextAfterError[request[r].at] \in Places \ (Asking \cup {"deliver"})
          /\ request[r].at \notin Asking \cup {"idle"}
      BY <1>22, EffectPlaces DEF LogError, NextAfterError, Places
    <2> QED
      BY <1>22, <2>1, HandlerGoesOn DEF LogError
  <1>23. ASSUME NEW o \in Orders, Pay(o) PROVE HandlersOK'
    BY <1>a, <1>23 DEF Pay
  <1>24. ASSUME NEW o \in Orders, ExpirePending(o) PROVE HandlersOK'
    BY <1>a, <1>24 DEF ExpirePending
  <1>25. ASSUME NEW c \in Cards, RedeemGiftcard(c) PROVE HandlersOK'
    BY <1>a, <1>25 DEF RedeemGiftcard
  <1>26. CASE UNCHANGED vars
    BY <1>a, <1>26 DEF vars
  <1> QED
    BY <1>1, <1>2, <1>3, <1>4, <1>5, <1>6, <1>7, <1>8, <1>9, <1>10, <1>11,
       <1>12, <1>13, <1>14, <1>15, <1>16, <1>17, <1>18, <1>19, <1>20, <1>21,
       <1>22, <1>23, <1>24, <1>25, <1>26 DEF OrdersNext, Serve

\* An order that was paid for already, and on whose way nothing changes.
LEMMA StillEffective ==
  ASSUME OrdersTypeOK, PaidTakesEffect, [OrdersNext]_vars,
         NEW o \in Orders \ Recharges, order[o] = "paid", faults = 0,
         UnderWay(o) => UnderWay(o)' \/ (applied'[o] > 0 /\ o \in delivered')
  PROVE  UnderWay(o)' \/ (applied'[o] > 0 /\ o \in delivered')
  <1>1. CASE UnderWay(o)
    BY <1>1
  <1>2. CASE applied[o] > 0 /\ o \in delivered
    <2>1. applied[o] \in Nat /\ applied'[o] \in Nat
      BY TypeStep DEF OrdersTypeOK
    <2> QED
      BY <1>2, <2>1, EffectStep DEF EffectsGrow
  <1> QED
    BY <1>1, <1>2 DEF PaidTakesEffect

\* Without failures, a paid order is effective or on its way after each step.
LEMMA EffectiveStep ==
  ASSUME OrdersTypeOK, AppliedFirst, PaidTakesEffect, [OrdersNext]_vars
  PROVE  PaidTakesEffect'
  <1> DEFINE Done(o) == applied[o] > 0 /\ o \in delivered
  <1> SUFFICES ASSUME NEW p \in Orders \ Recharges, order'[p] = "paid", faults' = 0
               PROVE  UnderWay(p)' \/ Done(p)'
    BY DEF PaidTakesEffect
  <1>0. faults = 0
    BY EffectStep DEF EffectsGrow, OrdersTypeOK
  <1> DEFINE Goal == UnderWay(p)' \/ Done(p)'
  <1>a. ASSUME order[p] = "paid", UnderWay(p) => Goal PROVE Goal
    BY <1>0, <1>a, StillEffective
  <1>b. ASSUME order[p] = "paid", UNCHANGED request PROVE Goal
    <2>1. UnderWay(p) => UnderWay(p)'
      BY <1>b DEF UnderWay, AtEffects
    <2> QED
      BY <1>a, <1>b, <2>1
  <1>c. ASSUME order[p] = "paid", NEW r \in Requests, ~AtEffects(r),
               \A q \in Requests \ {r} : request'[q] = request[q]
        PROVE  Goal
    <2>1. UnderWay(p) => UnderWay(p)'
      BY <1>c DEF UnderWay, AtEffects
    <2> QED
      BY <1>a, <1>c, <2>1
  <1>d. ASSUME order[p] = "paid", NEW r \in Requests, request[r].at # "idle",
               NEW pl \in DOMAIN NextAfterError, GoTo(r, pl)
        PROVE  Goal
    <2>1. pl \in Places
      BY EffectPlaces DEF Places
    <2>2. /\ request'[r].at = pl /\ request'[r].order = request[r].order
          /\ \A q \in Requests \ {r} : request'[q] = request[q]
      BY <1>d, <2>1, GoToType DEF OrdersTypeOK
    <2>3. UnderWay(p) => UnderWay(p)'
      BY <2>2 DEF UnderWay, AtEffects
    <2> QED
      BY <1>a, <1>d, <2>3
  <1>1. ASSUME NEW r \in Requests, NEW o \in Orders, CreateOrder(r, o) PROVE Goal
    <2>1. order[p] = "paid"
      BY <1>1 DEF CreateOrder, OrdersTypeOK
    <2>2. ~AtEffects(r)
      BY <1>1, EffectPlaces DEF CreateOrder, AtEffects, Idle
    <2>3. \A q \in Requests \ {r} : request'[q] = request[q]
      BY <1>1 DEF CreateOrder, GoTo, Answer, OrdersTypeOK
    <2> QED
      BY <1>c, <2>1, <2>2, <2>3
  <1>2. ASSUME NEW r \in Requests, NEW o \in Orders, AskBalancePay(r, o) PROVE Goal
    <2>1. order[p] = "paid"
      BY <1>2 DEF AskBalancePay, OrdersTypeOK
    <2>2. ~AtEffects(r)
      BY <1>2, EffectPlaces DEF AskBalancePay, AtEffects, Idle
    <2>3. \A q \in Requests \ {r} : request'[q] = request[q]
      BY <1>2 DEF AskBalancePay, GoTo, Answer, OrdersTypeOK
    <2> QED
      BY <1>c, <2>1, <2>2, <2>3
  <1>3. ASSUME NEW r \in Requests, NEW o \in Orders, Notify(r, o) PROVE Goal
    <2>1. order[p] = "paid"
      BY <1>3 DEF Notify, OrdersTypeOK
    <2>2. ~AtEffects(r)
      BY <1>3, EffectPlaces DEF Notify, AtEffects, Idle
    <2>3. \A q \in Requests \ {r} : request'[q] = request[q]
      BY <1>3 DEF Notify, GoTo, Answer, OrdersTypeOK
    <2> QED
      BY <1>c, <2>1, <2>2, <2>3
  <1>4. ASSUME NEW r \in Requests, NEW o \in Orders, Status(r, o) PROVE Goal
    <2>1. order[p] = "paid"
      BY <1>4 DEF Status, OrdersTypeOK
    <2>2. ~AtEffects(r)
      BY <1>4, EffectPlaces DEF Status, AtEffects, Idle
    <2>3. \A q \in Requests \ {r} : request'[q] = request[q]
      BY <1>4 DEF Status, GoTo, Answer, OrdersTypeOK
    <2> QED
      BY <1>c, <2>1, <2>2, <2>3
  <1>5. ASSUME NEW r \in Requests, NEW o \in Orders, Retry(r, o) PROVE Goal
    <2>1. order[p] = "paid"
      BY <1>5 DEF Retry, OrdersTypeOK
    <2>2. ~AtEffects(r)
      BY <1>5, EffectPlaces DEF Retry, AtEffects, Idle
    <2>3. \A q \in Requests \ {r} : request'[q] = request[q]
      BY <1>5 DEF Retry, GoTo, Answer, OrdersTypeOK
    <2> QED
      BY <1>c, <2>1, <2>2, <2>3
  <1>6. ASSUME NEW r \in Requests, PayOrderWithBalance(r) PROVE Goal
    <2>1. PICK o \in Orders : o = request[r].order
      BY <1>6, HandlerType DEF PayOrderWithBalance, OrdersTypeOK
    <2>2. PICK pl \in DOMAIN NextAfterError : GoTo(r, pl)
      BY <1>6, EffectPlaces DEF PayOrderWithBalance
    <2>3. CASE p = o
      <3>1. pl \in Places
        BY EffectPlaces DEF Places
      <3>2. request'[r].at = pl /\ request'[r].order = p
        BY <1>6, <2>1, <2>2, <2>3, <3>1, GoToType DEF PayOrderWithBalance, OrdersTypeOK
      <3> QED
        BY <3>2 DEF UnderWay, AtEffects
    <2>4. CASE p # o
      <3>1. order[p] = "paid"
        BY <1>6, <2>1, <2>4 DEF PayOrderWithBalance, OrdersTypeOK
      <3> QED
        BY <1>6, <1>d, <2>2, <3>1 DEF PayOrderWithBalance
    <2> QED
      BY <2>3, <2>4
  <1>7. ASSUME NEW r \in Requests, RefuseBalancePay(r) PROVE Goal
    <2>1. order[p] = "paid"
      BY <1>7 DEF RefuseBalancePay, OrdersTypeOK
    <2>2. ~AtEffects(r)
      BY <1>7, EffectPlaces DEF RefuseBalancePay, AtEffects, Idle
    <2>3. \A q \in Requests \ {r} : request'[q] = request[q]
      BY <1>7 DEF RefuseBalancePay, GoTo, Answer, OrdersTypeOK
    <2> QED
      BY <1>c, <2>1, <2>2, <2>3
  <1>8. ASSUME NEW r \in Requests, QueryOrder(r) PROVE Goal
    <2>1. order[p] = "paid"
      BY <1>8 DEF QueryOrder, OrdersTypeOK
    <2>2. ~AtEffects(r)
      BY <1>8, EffectPlaces DEF QueryOrder, AtEffects, Idle
    <2>3. \A q \in Requests \ {r} : request'[q] = request[q]
      BY <1>8 DEF QueryOrder, GoTo, Answer, OrdersTypeOK
    <2> QED
      BY <1>c, <2>1, <2>2, <2>3
  <1>9. ASSUME NEW r \in Requests, VoidOrder(r) PROVE Goal
    <2>1. order[p] = "paid"
      BY <1>9, HandlerType DEF VoidOrder, OrdersTypeOK
    <2>2. ~AtEffects(r)
      BY <1>9, EffectPlaces DEF VoidOrder, AtEffects
    <2>3. \A q \in Requests \ {r} : request'[q] = request[q]
      BY <1>9 DEF VoidOrder, OrdersTypeOK
    <2> QED
      BY <1>c, <2>1, <2>2, <2>3
  <1>10. ASSUME NEW r \in Requests, SkipPaid(r) PROVE Goal
    <2>1. order[p] = "paid"
      BY <1>10 DEF SkipPaid, OrdersTypeOK
    <2>2. ~AtEffects(r)
      BY <1>10, EffectPlaces DEF SkipPaid, AtEffects, Idle
    <2>3. \A q \in Requests \ {r} : request'[q] = request[q]
      BY <1>10 DEF SkipPaid, GoTo, Answer, OrdersTypeOK
    <2> QED
      BY <1>c, <2>1, <2>2, <2>3
  <1>11. ASSUME NEW r \in Requests, CreditRecharge(r) PROVE Goal
    <2>1. order[p] = "paid"
      BY <1>11, HandlerType DEF CreditRecharge, OrdersTypeOK
    <2>2. ~AtEffects(r)
      BY <1>11, EffectPlaces DEF CreditRecharge, AtEffects
    <2>3. \A q \in Requests \ {r} : request'[q] = request[q]
      BY <1>11 DEF CreditRecharge, GoTo, OrdersTypeOK
    <2> QED
      BY <1>c, <2>1, <2>2, <2>3
  <1>12. ASSUME NEW r \in Requests, MarkOrderPaid(r) PROVE Goal
    <2>1. PICK pl \in DOMAIN NextAfterError : GoTo(r, pl)
      BY <1>12, EffectPlaces DEF MarkOrderPaid
    <2>2. CASE p = request[r].order
      <3>1. pl \in Places
        BY EffectPlaces DEF Places
      <3>2. request'[r].at = pl /\ request'[r].order = p
        BY <1>12, <2>1, <2>2, <3>1, GoToType DEF MarkOrderPaid, OrdersTypeOK
      <3> QED
        BY <3>2 DEF UnderWay, AtEffects
    <2>3. CASE p # request[r].order
      <3>1. order[p] = "paid"
        BY <1>12, <2>3, HandlerType DEF MarkOrderPaid, OrdersTypeOK
      <3> QED
        BY <1>12, <1>d, <2>1, <3>1 DEF MarkOrderPaid
    <2> QED
      BY <2>2, <2>3
  <1>13. ASSUME NEW r \in Requests, ConsumeDiscountCode(r) PROVE Goal
    <2>1. order[p] = "paid"
      BY <1>13 DEF ConsumeDiscountCode, bookVars, codeVars
    <2> QED
      BY <1>13, <1>d, <2>1, EffectPlaces DEF ConsumeDiscountCode
  <1>14. ASSUME NEW r \in Requests, LockUserInviteCode(r) PROVE Goal
    <2>1. order[p] = "paid"
      BY <1>14 DEF LockUserInviteCode, bookVars, codeVars
    <2> QED
      BY <1>14, <1>d, <2>1, EffectPlaces DEF LockUserInviteCode
  <1>15. ASSUME NEW r \in Requests, FindReward(r) PROVE Goal
    <2>1. order[p] = "paid"
      BY <1>15 DEF FindReward, bookVars, codeVars
    <2> QED
      BY <1>15, <1>d, <2>1, EffectPlaces DEF FindReward
  <1>16. ASSUME NEW r \in Requests, CreateReward(r) PROVE Goal
    <2>1. order[p] = "paid"
      BY <1>16 DEF CreateReward, bookVars, codeVars
    <2> QED
      BY <1>16, <1>d, <2>1, EffectPlaces DEF CreateReward
  <1>17. ASSUME NEW r \in Requests, GrantRebate(r) PROVE Goal
    <2>1. order[p] = "paid"
      BY <1>17 DEF GrantRebate, bookVars, codeVars
    <2> QED
      BY <1>17, <1>d, <2>1, EffectPlaces DEF GrantRebate
  <1>18. ASSUME NEW r \in Requests, Apply(r) PROVE Goal
    <2>1. order[p] = "paid"
      BY <1>18 DEF Apply, bookVars, codeVars
    <2> QED
      BY <1>18, <1>d, <2>1, EffectPlaces DEF Apply
  <1>19. ASSUME NEW r \in Requests, DeliverUser(r) PROVE Goal
    <2>1. order[p] = "paid"
      BY <1>19 DEF DeliverUser, bookVars, codeVars
    <2>2. \A q \in Requests \ {r} : request'[q] = request[q]
      BY <1>19 DEF DeliverUser, GoTo, OrdersTypeOK
    <2>3. CASE p = request[r].order
      <3>1. applied[p] > 0 /\ applied' = applied /\ p \in delivered'
        BY <1>19, <2>3 DEF DeliverUser, AppliedFirst
      <3> QED
        BY <3>1
    <2>4. CASE p # request[r].order
      <3>1. UnderWay(p) => UnderWay(p)'
        BY <2>2, <2>4 DEF UnderWay, AtEffects
      <3> QED
        BY <1>a, <2>1, <3>1
    <2> QED
      BY <2>3, <2>4
  <1>20. ASSUME NEW r \in Requests, AnswerOK(r) PROVE Goal
    <2>1. order[p] = "paid"
      BY <1>20 DEF AnswerOK, OrdersTypeOK
    <2>2. ~AtEffects(r)
      BY <1>20, EffectPlaces DEF AnswerOK, AtEffects, Idle
    <2>3. \A q \in Requests \ {r} : request'[q] = request[q]
      BY <1>20 DEF AnswerOK, GoTo, Answer, OrdersTypeOK
    <2> QED
      BY <1>c, <2>1, <2>2, <2>3
  <1>21. ASSUME NEW r \in Requests, Abort(r) PROVE Goal
    BY <1>21, <1>0 DEF Abort, OrdersTypeOK
  <1>22. ASSUME NEW r \in Requests, LogError(r) PROVE Goal
    BY <1>22, <1>0 DEF LogError, OrdersTypeOK
  <1>23. ASSUME NEW o \in Orders, Pay(o) PROVE Goal
    BY <1>b, <1>23 DEF Pay, OrdersTypeOK
  <1>24. ASSUME NEW o \in Orders, ExpirePending(o) PROVE Goal
    BY <1>b, <1>24 DEF ExpirePending, OrdersTypeOK
  <1>25. ASSUME NEW c \in Cards, RedeemGiftcard(c) PROVE Goal
    BY <1>b, <1>25 DEF RedeemGiftcard, OrdersTypeOK
  <1>26. CASE UNCHANGED vars
    BY <1>b, <1>26 DEF vars
  <1> QED
    BY <1>1, <1>2, <1>3, <1>4, <1>5, <1>6, <1>7, <1>8, <1>9, <1>10, <1>11,
       <1>12, <1>13, <1>14, <1>15, <1>16, <1>17, <1>18, <1>19, <1>20, <1>21,
       <1>22, <1>23, <1>24, <1>25, <1>26 DEF OrdersNext, Serve

-----------------------------------------------------------------------------
(* Theorems *)

\* The invariant holds of the empty tables.
THEOREM InitOrdersInv == OrdersInit => OrdersInv
  <1> SUFFICES ASSUME OrdersInit PROVE OrdersInv
    OBVIOUS
  <1>1. OrdersTypeOK
    BY InitTypeOK
  <1>2. NoRowNoMoney /\ RebatesLogged
    BY DEF OrdersInit, NoRowNoMoney, RebatesLogged, Entries
  <1>3. HandlersHaveRows /\ HandlersFunded /\ AppliedFirst
    BY DEF OrdersInit, HandlersHaveRows, HandlersFunded, AppliedFirst, Places, Idle
  <1>4. NothingUnpaid
    BY DEF OrdersInit, NothingUnpaid, Entries
  <1>5. PaidTakesEffect
    BY DEF OrdersInit, PaidTakesEffect
  <1>6. CodeWithinBudget
    BY OrderAssumption DEF OrdersInit, CodeWithinBudget
  <1> QED
    BY <1>1, <1>2, <1>3, <1>4, <1>5, <1>6 DEF OrdersInv

\* Every step of a request, the gateway or the clock keeps the invariant.
THEOREM StepOrdersInv == OrdersInv /\ [OrdersNext]_vars => OrdersInv'
  <1> SUFFICES ASSUME OrdersInv, [OrdersNext]_vars PROVE OrdersInv'
    OBVIOUS
  <1> USE DEF OrdersInv
  <1>1. OrdersTypeOK'
    BY TypeStep
  <1>2. NoRowNoMoney' /\ RebatesLogged'
    BY MoneyStep
  <1>3. HandlersHaveRows' /\ HandlersFunded' /\ AppliedFirst'
    BY HandlersStep DEF HandlersOK
  <1>4. NothingUnpaid'
    BY NothingUnpaidStep
  <1>5. PaidTakesEffect'
    BY EffectiveStep
  <1>6. CodeWithinBudget'
    BY CodeStep
  <1> QED
    BY <1>1, <1>2, <1>3, <1>4, <1>5, <1>6

\* The invariant holds in every reachable state.
THEOREM OrdersInvariant == OrdersSpec => []OrdersInv
  BY InitOrdersInv, StepOrdersInv, PTL DEF OrdersSpec

\* Nothing is given for an order that nobody has paid (CompleteOrder, afterPaid).
THEOREM NothingIsUnpaid == OrdersSpec => []NothingUnpaid
  <1>1. OrdersInv => NothingUnpaid
    BY DEF OrdersInv
  <1> QED
    BY <1>1, OrdersInvariant, PTL

\* Without a failure, every paid plan and reset has its effect or is on its way.
THEOREM PaidIsEffective == OrdersSpec => []PaidTakesEffect
  <1>1. OrdersInv => PaidTakesEffect
    BY DEF OrdersInv
  <1> QED
    BY <1>1, OrdersInvariant, PTL

\* A discount code is used as often as it allows, and closed by the last use.
THEOREM CodeIsWithinBudget == OrdersSpec => []CodeWithinBudget
  <1>1. OrdersInv => CodeWithinBudget
    BY DEF OrdersInv
  <1> QED
    BY <1>1, OrdersInvariant, PTL


-----------------------------------------------------------------------------
(* Balances move as BalanceBook says *)

\* A step of the book, or none.
BookStep == [BookOf!Next]_(BookOf!book)

\* A covered movement that may happen is an entry in the book.
LEMMA MovePosts ==
  ASSUME NEW e \in Entries, Move(e), balance[Account[e]] + Amount[e] >= 0,
         log[e] = 0 \/ e \in {"recharge"} \X Orders
  PROVE  BookStep
  BY DEF Move, BookStep, BookOf!Next, BookOf!Post

\* Every step posts one entry or leaves balances and log alone.
LEMMA StepIsBookStep ==
  ASSUME OrdersTypeOK, NoRowNoMoney, RebatesLogged, [OrdersNext]_vars
  PROVE  BookStep
  <1>0. balance \in [{Buyer, Inviter} -> Nat]
    BY DEF OrdersTypeOK
  <1>a. ASSUME UNCHANGED <<balance, log>> PROVE BookStep
    BY <1>a DEF BookStep, BookOf!book
  <1>1. ASSUME NEW r \in Requests, NEW o \in Orders, CreateOrder(r, o) PROVE BookStep
    BY <1>a, <1>1 DEF CreateOrder, codeVars, bookVars, effectVars, outside
  <1>2. ASSUME NEW r \in Requests, NEW o \in Orders, AskBalancePay(r, o) PROVE BookStep
    BY <1>a, <1>2 DEF AskBalancePay, codeVars, bookVars, effectVars, outside
  <1>3. ASSUME NEW r \in Requests, NEW o \in Orders, Notify(r, o) PROVE BookStep
    BY <1>a, <1>3 DEF Notify, codeVars, bookVars, effectVars, outside
  <1>4. ASSUME NEW r \in Requests, NEW o \in Orders, Status(r, o) PROVE BookStep
    BY <1>a, <1>4 DEF Status, codeVars, bookVars, effectVars, outside
  <1>5. ASSUME NEW r \in Requests, NEW o \in Orders, Retry(r, o) PROVE BookStep
    BY <1>a, <1>5 DEF Retry, codeVars, bookVars, effectVars, outside
  <1>6. ASSUME NEW r \in Requests, PayOrderWithBalance(r) PROVE BookStep
    <2>1. PICK o \in Orders : o = request[r].order
      BY <1>6, HandlerType DEF PayOrderWithBalance, OrdersTypeOK
    <2>2. CASE Price[o] > 0
      <3>1. <<"consume", o>> \in Entries
        BY DEF Entries
      <3>2. balance[Account[<<"consume", o>>]] + Amount[<<"consume", o>>] >= 0
        BY <1>0, <1>6, <2>1, <3>1, OrderAssumption
           DEF PayOrderWithBalance, Affords, Account, Amount
      <3>3. log[<<"consume", o>>] = 0
        BY <1>6, <2>1 DEF PayOrderWithBalance, NoRowNoMoney
      <3> QED
        BY <1>6, <2>1, <2>2, <3>1, <3>2, <3>3, MovePosts DEF PayOrderWithBalance
    <2>3. CASE ~(Price[o] > 0)
      BY <1>a, <1>6, <2>1, <2>3 DEF PayOrderWithBalance
    <2> QED
      BY <2>2, <2>3
  <1>7. ASSUME NEW r \in Requests, RefuseBalancePay(r) PROVE BookStep
    BY <1>a, <1>7 DEF RefuseBalancePay, codeVars, bookVars, effectVars, outside
  <1>8. ASSUME NEW r \in Requests, QueryOrder(r) PROVE BookStep
    BY <1>a, <1>8 DEF QueryOrder, codeVars, bookVars, effectVars, outside
  <1>9. ASSUME NEW r \in Requests, VoidOrder(r) PROVE BookStep
    BY <1>a, <1>9 DEF VoidOrder, codeVars, bookVars, effectVars, outside
  <1>10. ASSUME NEW r \in Requests, SkipPaid(r) PROVE BookStep
    BY <1>a, <1>10 DEF SkipPaid, codeVars, bookVars, effectVars, outside
  <1>11. ASSUME NEW r \in Requests, CreditRecharge(r) PROVE BookStep
    <2>1. CASE Creditable(request[r].order)
      <3>1. request[r].order \in Orders
        BY <1>11, HandlerType DEF CreditRecharge, OrdersTypeOK
      <3>2. /\ <<"recharge", request[r].order>> \in Entries
            /\ <<"recharge", request[r].order>> \in {"recharge"} \X Orders
        BY <3>1 DEF Entries
      <3>3. balance[Account[<<"recharge", request[r].order>>]]
              + Amount[<<"recharge", request[r].order>>] >= 0
        BY <1>0, <3>2, GainType
      <3> QED
        BY <1>11, <2>1, <3>2, <3>3, MovePosts DEF CreditRecharge
    <2>2. CASE ~Creditable(request[r].order)
      BY <1>a, <1>11, <2>2 DEF CreditRecharge
    <2> QED
      BY <2>1, <2>2
  <1>12. ASSUME NEW r \in Requests, MarkOrderPaid(r) PROVE BookStep
    BY <1>a, <1>12 DEF MarkOrderPaid, codeVars, bookVars, effectVars, outside
  <1>13. ASSUME NEW r \in Requests, ConsumeDiscountCode(r) PROVE BookStep
    BY <1>a, <1>13 DEF ConsumeDiscountCode, codeVars, bookVars, effectVars, outside
  <1>14. ASSUME NEW r \in Requests, LockUserInviteCode(r) PROVE BookStep
    BY <1>a, <1>14 DEF LockUserInviteCode, codeVars, bookVars, effectVars, outside
  <1>15. ASSUME NEW r \in Requests, FindReward(r) PROVE BookStep
    BY <1>a, <1>15 DEF FindReward, codeVars, bookVars, effectVars, outside
  <1>16. ASSUME NEW r \in Requests, CreateReward(r) PROVE BookStep
    BY <1>a, <1>16 DEF CreateReward, codeVars, bookVars, effectVars, outside
  <1>17. ASSUME NEW r \in Requests, GrantRebate(r) PROVE BookStep
    <2>1. CASE MayRebate(request[r].order)
      <3>1. request[r].order \in Orders
        BY <1>17, HandlerType DEF GrantRebate, OrdersTypeOK
      <3>2. <<"rebate", request[r].order>> \in Entries /\ log[<<"rebate", request[r].order>>] = 0
        BY <2>1, <3>1 DEF Entries, MayRebate, RebatesLogged
      <3>3. balance[Account[<<"rebate", request[r].order>>]]
              + Amount[<<"rebate", request[r].order>>] >= 0
        BY <1>0, <3>2, GainType
      <3> QED
        BY <1>17, <2>1, <3>2, <3>3, MovePosts DEF GrantRebate
    <2>2. CASE ~MayRebate(request[r].order)
      BY <1>a, <1>17, <2>2 DEF GrantRebate, bookVars
    <2> QED
      BY <2>1, <2>2
  <1>18. ASSUME NEW r \in Requests, Apply(r) PROVE BookStep
    BY <1>a, <1>18 DEF Apply, codeVars, bookVars, effectVars, outside
  <1>19. ASSUME NEW r \in Requests, DeliverUser(r) PROVE BookStep
    BY <1>a, <1>19 DEF DeliverUser, codeVars, bookVars, effectVars, outside
  <1>20. ASSUME NEW r \in Requests, AnswerOK(r) PROVE BookStep
    BY <1>a, <1>20 DEF AnswerOK, codeVars, bookVars, effectVars, outside
  <1>21. ASSUME NEW r \in Requests, Abort(r) PROVE BookStep
    BY <1>a, <1>21 DEF Abort, codeVars, bookVars, effectVars, outside
  <1>22. ASSUME NEW r \in Requests, LogError(r) PROVE BookStep
    BY <1>a, <1>22 DEF LogError, codeVars, bookVars, effectVars, outside
  <1>23. ASSUME NEW o \in Orders, Pay(o) PROVE BookStep
    BY <1>a, <1>23 DEF Pay, codeVars, bookVars, effectVars, outside
  <1>24. ASSUME NEW o \in Orders, ExpirePending(o) PROVE BookStep
    BY <1>a, <1>24 DEF ExpirePending, codeVars, bookVars, effectVars, outside
  <1>25. ASSUME NEW c \in Cards, RedeemGiftcard(c) PROVE BookStep
    <2>1. <<"redeem", c>> \in Entries
      BY DEF Entries
    <2>2. balance[Account[<<"redeem", c>>]] + Amount[<<"redeem", c>>] >= 0
      BY <1>0, <2>1, GainType
    <2> QED
      BY <1>25, <2>1, <2>2, MovePosts DEF RedeemGiftcard
  <1>26. CASE UNCHANGED vars
    BY <1>a, <1>26 DEF vars
  <1> QED
    BY <1>1, <1>2, <1>3, <1>4, <1>5, <1>6, <1>7, <1>8, <1>9, <1>10, <1>11,
       <1>12, <1>13, <1>14, <1>15, <1>16, <1>17, <1>18, <1>19, <1>20, <1>21,
       <1>22, <1>23, <1>24, <1>25, <1>26 DEF OrdersNext, Serve

\* The requests of the buyer implement the balance book: no debt, no movement
\* without a row of the log, and no card, payment or commission booked twice
\* (balance_sqlstore.go, affiliate_sqlstore.go).
THEOREM OrdersImplementBook == OrdersSpec => BookSpec
  <1>1. OrdersInit => BookOf!Init
    BY DEF OrdersInit, BookOf!Init
  <1>2. OrdersInv /\ [OrdersNext]_vars => [BookOf!Next]_(BookOf!book)
    BY StepIsBookStep DEF OrdersInv, BookStep
  <1> QED
    BY <1>1, <1>2, OrdersInvariant, PTL DEF OrdersSpec, BookSpec, BookOf!Spec

=============================================================================
