--------------------------- MODULE TrafficProofs ---------------------------
(***************************************************************************)
(* What the accounting of traffic keeps for every multiplier, whatever the *)
(* user carries, and any number of collectors, resets and faults.          *)
(***************************************************************************)
EXTENDS TrafficAccounting, TLAPS

\* A sample that was taken: the counter has moved on since by no more than the user carried.
Past(s) ==
  /\ s.carried <= carried /\ s.resets <= resets
  /\ counter <= s.total + (carried - s.carried)
  /\ (s.carried = carried /\ s.resets = resets) => s.total = counter
  /\ s.total <= s.carried
  /\ s.resets = 0 => s.total = s.carried

\* Of two samples the later one shows no more than what was carried between them.
Follows(s, t) ==
  Moment(s) <= Moment(t) =>
    s.carried <= t.carried /\ t.total <= s.total + (t.carried - s.carried)

\* Every sample that somebody still holds.
Held == {NoSample, newest, cache.sample} \cup {task[c].sample : c \in Collectors}

CounterInside == counter <= carried /\ (resets = 0 => counter = carried)
SamplesPast == \A s \in Held : Past(s)
SamplesFollow == \A s, t \in Held : Follows(s, t)
Samplings == CounterInside /\ SamplesPast /\ SamplesFollow

\* Who works has the lock, and the snapshot it has read is the one that is stored.
OneWorks == ~overrun => \A c \in Collectors : Working(c) => lock.owner = c
ReadsHold == ~overrun => \A c \in Collectors : task[c].at = "read" => task[c].last = snapshot

\* What is billed is what the newest settled sample had carried, and the snapshot is that sample.
Account ==
  ~late /\ ~overrun =>
    /\ billed * Den <= newest.carried * Num
    /\ snapshot = NoRow => billed = 0
    /\ snapshot # NoRow => snapshot = newest.total
    /\ resets = 0 /\ snapshot # NoRow => billed >= snapshot * (Num \div Den)

Books == OneWorks /\ ReadsHold /\ Account
TrafficInv == TrafficTypeOK /\ Samplings /\ Books

-----------------------------------------------------------------------------
\* The quotient of a division with remainder.
LEMMA DivBound ==
  ASSUME NEW n \in Nat, NEW d \in Nat \ {0}
  PROVE  /\ n \div d \in Nat
         /\ (n \div d) * d <= n
         /\ n < (n \div d) * d + d
<1>1. n \div d \in Int /\ n % d \in 0 .. d - 1 /\ n = d * (n \div d) + (n % d)
  OBVIOUS
<1>2. (n \div d) * d <= n /\ n < (n \div d) * d + d
  BY <1>1
<1>3. n \div d \in Nat
  BY <1>1
<1>4. QED
  BY <1>2, <1>3

\* Products grow with their factors.
LEMMA MulMono ==
  ASSUME NEW a \in Nat, NEW b \in Nat, NEW k \in Nat, a <= b
  PROVE  a * k <= b * k
OBVIOUS

\* A factor is taken over a sum.
LEMMA Distribute ==
  ASSUME NEW a \in Nat, NEW b \in Nat, NEW k \in Nat
  PROVE  (a + b) * k = a * k + b * k
OBVIOUS

\* A positive factor can be cancelled.
LEMMA MulCancel ==
  ASSUME NEW a \in Int, NEW b \in Int, NEW k \in Nat \ {0}, a * k < b * k
  PROVE  a < b
OBVIOUS

\* The quotient is the largest number that fits.
LEMMA DivFits ==
  ASSUME NEW n \in Nat, NEW d \in Nat \ {0}, NEW q \in Nat, q * d <= n
  PROVE  q <= n \div d
<1>1. n < (n \div d) * d + d /\ n \div d \in Nat
  BY DivBound
<1>2. (n \div d) * d + d = (n \div d + 1) * d
  BY <1>1
<1>3. q * d < (n \div d + 1) * d
  BY <1>1, <1>2
<1>4. q < n \div d + 1
  BY <1>1, <1>3, MulCancel
<1>5. QED
  BY <1>1, <1>4

\* What is billed for an advance: never more than its share, and at least the whole part of
\* the multiplier for each byte.
LEMMA WeightedBounds ==
  ASSUME NEW n \in Nat
  PROVE  /\ Weighted(n) \in Nat
         /\ Weighted(n) * Den <= n * Num
         /\ n * (Num \div Den) <= Weighted(n)
<1>1. n * Num \in Nat /\ Den \in Nat \ {0} /\ Num \in Nat
  BY TrafficAssumption
<1>2. Weighted(n) \in Nat /\ Weighted(n) * Den <= n * Num
  BY <1>1, DivBound DEF Weighted
<1>3. Num \div Den \in Nat /\ (Num \div Den) * Den <= Num
  BY <1>1, DivBound
<1>4. n * (Num \div Den) \in Nat /\ (n * (Num \div Den)) * Den = ((Num \div Den) * Den) * n
  BY <1>1, <1>3
<1>5. ((Num \div Den) * Den) * n <= Num * n
  BY <1>1, <1>3, MulMono
<1>6. (n * (Num \div Den)) * Den <= n * Num
  BY <1>1, <1>3, <1>4, <1>5
<1>7. n * (Num \div Den) <= (n * Num) \div Den
  BY <1>1, <1>4, <1>6, DivFits
<1>8. QED
  BY <1>2, <1>7 DEF Weighted

\* An advance is never negative.
LEMMA AdvanceIsNat ==
  ASSUME NEW last \in Nat \cup {NoRow}, NEW total \in Nat
  PROVE  Advance(last, total) \in Nat
BY DEF Advance, NoRow

\* Nothing that is blank has a type of its own.
LEMMA Blanks == NoSample \in Samples /\ Idle \in Tasks /\ Empty \in Maybe /\ Unlocked \in Locks
<1>1. NoSample \in Samples
  BY DEF NoSample, Samples
<1>2. QED
  BY <1>1 DEF Idle, Tasks, Places, Empty, Maybe, Unlocked, Locks

-----------------------------------------------------------------------------
\* A transaction keeps the types of the ledger.
LEMMA SettleTypes ==
  ASSUME TrafficTypeOK, NEW c \in Collectors, Settle(c)
  PROVE  /\ snapshot' \in Nat \cup {NoRow} /\ billed' \in Nat
         /\ newest' \in Samples /\ late' \in BOOLEAN
<1>1. task[c] \in Tasks
  BY DEF TrafficTypeOK
<1>2. task[c].sample \in Samples /\ task[c].last \in Nat \cup {NoRow} /\ task[c].sample.total \in Nat
  BY <1>1 DEF Tasks, Samples
<1>3. Weighted(Advance(task[c].last, task[c].sample.total)) \in Nat
  BY <1>2, AdvanceIsNat, WeightedBounds
<1>4. QED
  BY <1>2, <1>3 DEF Settle, Dated, TrafficTypeOK

\* Every step keeps the types.
LEMMA TypeStep ==
  ASSUME TrafficTypeOK, [TrafficNext]_vars
  PROVE  TrafficTypeOK'
<1> USE DEF TrafficTypeOK, node, agent
<1>1. Current \in Samples
  BY DEF Current, Samples
<1>2. CASE Carry
  BY <1>2 DEF Carry, ledger
<1>3. CASE CounterReset
  BY <1>3 DEF CounterReset, ledger
<1>4. CASE Subscribe
  BY <1>4 DEF Subscribe, ledger
<1>5. CASE LockRunsOut
  BY <1>5 DEF LockRunsOut, Locks, ledger
<1>6. CASE LockOverruns
  <2>1. lock' \in Locks
    BY <1>6 DEF LockOverruns, Locks
  <2>2. QED
    BY <1>6, <2>1 DEF LockOverruns, Fault, ledger
<1>7. CASE ReconcileFills
  BY <1>1, <1>7 DEF ReconcileFills, Full, Maybe, ledger
<1>8. CASE CacheExpires
  BY <1>8, Blanks DEF CacheExpires, ledger
<1>9. CASE PanelCrash
  BY <1>9, Blanks DEF PanelCrash, Fault, ledger
<1>10. ASSUME NEW c \in Pollers, PollLock(c)
       PROVE  TrafficTypeOK'
  BY <1>10 DEF PollLock, TakeLock, Locks, Tasks, Places, Collectors, ledger
<1>11. ASSUME NEW c \in Conns, Connect(c)
       PROVE  TrafficTypeOK'
  BY <1>11, Blanks DEF Connect, Collectors, ledger
<1>12. ASSUME NEW c \in Conns, Report(c)
       PROVE  TrafficTypeOK'
  <2>1. task' \in [Collectors -> Tasks] /\ sent' \in Maybe
    BY <1>1, <1>12 DEF Report, Full, Maybe, Tasks, Places
  <2>2. QED
    BY <1>12, <2>1 DEF Report, ledger
<1>13. ASSUME NEW c \in Collectors, PollNode(c)
       PROVE  TrafficTypeOK'
  <2>1. task' \in [Collectors -> Tasks]
    BY <1>1, <1>13 DEF PollNode, Sampled, Tasks, Places
  <2>2. cache' \in Maybe
    BY <1>1, <1>13 DEF PollNode, Full, Maybe
  <2>3. QED
    BY <1>13, <2>1, <2>2 DEF PollNode, ledger
<1>14. ASSUME NEW c \in Collectors, PollCache(c)
       PROVE  TrafficTypeOK'
  <2>1. task' \in [Collectors -> Tasks]
    BY <1>14 DEF PollCache, Sampled, Maybe, Tasks, Places
  <2>2. QED
    BY <1>14, <2>1 DEF PollCache, Fault, ledger
<1>15. ASSUME NEW c \in Collectors, PushLock(c)
       PROVE  TrafficTypeOK'
  BY <1>15 DEF PushLock, TakeLock, Locks, Tasks, Places, ledger
<1>16. ASSUME NEW c \in Collectors, PushBusy(c)
       PROVE  TrafficTypeOK'
  BY <1>16, Blanks DEF PushBusy, ledger
<1>17. ASSUME NEW c \in Collectors, ReadRows(c)
       PROVE  TrafficTypeOK'
  <2>1. task' \in [Collectors -> Tasks]
    <3>1. task[c] \in Tasks /\ planned \in BOOLEAN /\ snapshot \in Nat \cup {NoRow}
      OBVIOUS
    <3>2. [task[c] EXCEPT !.at = "read", !.last = snapshot, !.plan = planned] \in Tasks
      BY <3>1 DEF Tasks, Places
    <3>3. QED
      BY <1>17, <3>2 DEF ReadRows
  <2>2. QED
    BY <1>17, <2>1 DEF ReadRows, ledger
<1>18. ASSUME NEW c \in Collectors, Commit(c)
       PROVE  TrafficTypeOK'
  <2>1. /\ snapshot' \in Nat \cup {NoRow} /\ billed' \in Nat
        /\ newest' \in Samples /\ late' \in BOOLEAN
    BY <1>18, SettleTypes DEF Commit, ledger
  <2>2. task' \in [Collectors -> Tasks]
    BY <1>18 DEF Commit, Tasks, Places
  <2>3. QED
    BY <1>18, <2>1, <2>2 DEF Commit
<1>19. ASSUME NEW c \in Collectors, Release(c)
       PROVE  TrafficTypeOK'
  BY <1>19, Blanks DEF Release, Unlock, ledger
<1>20. ASSUME NEW c \in Collectors, SettleFails(c)
       PROVE  TrafficTypeOK'
  BY <1>20 DEF SettleFails, Fault, Tasks, Places, ledger
<1>21. CASE UNCHANGED vars
  BY <1>21 DEF vars
<1>22. QED
  BY <1>2, <1>3, <1>4, <1>5, <1>6, <1>7, <1>8, <1>9, <1>10, <1>11, <1>12, <1>13, <1>14,
     <1>15, <1>16, <1>17, <1>18, <1>19, <1>20, <1>21 DEF TrafficNext, Step

\* All types hold from the start.
LEMMA TypeInit == TrafficInit => TrafficTypeOK
<1>1. TrafficInit => task \in [Collectors -> Tasks] /\ lock \in Locks /\ cache \in Maybe
                     /\ sent \in Maybe /\ newest \in Samples
  BY Blanks DEF TrafficInit
<1>2. QED
  <2>1. SUFFICES ASSUME TrafficInit
                 PROVE  TrafficTypeOK
    OBVIOUS
  <2>2. counter \in Nat /\ carried \in Nat /\ resets \in Nat /\ billed \in Nat /\ faults \in Nat
    BY <2>1 DEF TrafficInit
  <2>3. snapshot \in Nat \cup {NoRow} /\ link \in Conns \cup {Nobody}
    BY <2>1 DEF TrafficInit
  <2>4. driver \in {"3x-ui", "xray"} /\ planned \in BOOLEAN /\ late \in BOOLEAN /\ overrun \in BOOLEAN
    BY <2>1 DEF TrafficInit
  <2>5. QED
    BY <1>1, <2>1, <2>2, <2>3, <2>4 DEF TrafficTypeOK

\* Every variable keeps its type: traffic_used never falls, and no snapshot is negative.
THEOREM TrafficTyped == TrafficSpec => []TrafficTypeOK
<1>1. QED
  BY TypeInit, TypeStep, PTL DEF TrafficSpec

-----------------------------------------------------------------------------
\* The value of the counter that is read now fits all samples that are held.
LEMMA CurrentFits ==
  ASSUME TrafficTypeOK, Samplings
  PROVE  /\ Past(Current)
         /\ \A s \in Held : Follows(s, Current) /\ Follows(Current, s)
         /\ Follows(Current, Current)
<1>1. \A s \in Held : s \in Samples
  BY Blanks DEF Held, TrafficTypeOK, Maybe, Tasks
<1>2. Past(Current) /\ Follows(Current, Current)
  BY DEF Past, Follows, Current, Moment, Samplings, CounterInside, TrafficTypeOK
<1>3. ASSUME NEW s \in Held
      PROVE  Follows(s, Current) /\ Follows(Current, s)
  <2>1. Past(s) /\ s \in Samples
    BY <1>1, <1>3 DEF Samplings, SamplesPast
  <2>2. Follows(s, Current)
    BY <2>1 DEF Past, Follows, Current, Moment, Samples, TrafficTypeOK
  <2>3. Follows(Current, s)
    BY <2>1 DEF Past, Follows, Current, Moment, Samples, TrafficTypeOK
  <2>4. QED
    BY <2>2, <2>3
<1>4. QED
  BY <1>2, <1>3

\* A step that leaves the counter alone and takes at most one sample.
LEMMA SamplesKept ==
  ASSUME TrafficTypeOK, Samplings, UNCHANGED <<counter, carried, resets>>,
         Held' \subseteq Held \cup {Current}
  PROVE  Samplings'
<1>1. \A s : Past(s)' = Past(s)
  BY DEF Past
<1>2. CounterInside'
  BY DEF CounterInside, Samplings
<1>3. SamplesPast'
  BY <1>1, CurrentFits DEF SamplesPast, Samplings
<1>4. ASSUME NEW s \in Held', NEW t \in Held'
      PROVE  Follows(s, t)
  BY <1>4, CurrentFits DEF Samplings, SamplesFollow
<1>5. SamplesFollow'
  BY <1>4 DEF SamplesFollow, Follows, Moment
<1>6. QED
  BY <1>2, <1>3, <1>5 DEF Samplings

\* A step that moves the counter forward or back to zero takes no sample.
LEMMA SamplesOutlive ==
  ASSUME TrafficTypeOK, Samplings, Carry \/ CounterReset
  PROVE  Samplings'
<1>1. Held' = Held
  BY DEF Held, Carry, CounterReset, ledger
<1>2. \A s \in Held : s \in Samples
  BY Blanks DEF Held, TrafficTypeOK, Maybe, Tasks
<1>3. CounterInside'
  <2>1. CASE Carry
    BY <2>1 DEF Carry, CounterInside, Samplings, TrafficTypeOK
  <2>2. CASE CounterReset
    BY <2>2 DEF CounterReset, CounterInside, Samplings, TrafficTypeOK
  <2>3. QED
    BY <2>1, <2>2
<1>4. ASSUME NEW s \in Held
      PROVE  Past(s)'
  <2>1. Past(s) /\ s \in Samples
    BY <1>2, <1>4 DEF Samplings, SamplesPast
  <2>2. CASE Carry
    BY <2>1, <2>2 DEF Carry, Past, Samples, TrafficTypeOK
  <2>3. CASE CounterReset
    BY <2>1, <2>3 DEF CounterReset, Past, Samples, TrafficTypeOK
  <2>4. QED
    BY <2>2, <2>3
<1>5. SamplesPast'
  BY <1>1, <1>4 DEF SamplesPast
<1>6. SamplesFollow'
  BY <1>1 DEF SamplesFollow, Samplings, Follows, Moment
<1>7. QED
  BY <1>3, <1>5, <1>6 DEF Samplings

\* Who holds a sample took it from the node, from the cache, or from somebody who held it.
LEMMA SampleStep ==
  ASSUME TrafficTypeOK, Samplings, [TrafficNext]_vars
  PROVE  Samplings'
<1> DEFINE Known == Held \cup {Current}
<1> DEFINE Takes(c) == \A d \in Collectors \ {c} : task'[d] = task[d]
<1>1. NoSample \in Known /\ newest \in Known /\ cache.sample \in Known /\ Current \in Known
      /\ \A c \in Collectors : task[c].sample \in Known
  BY DEF Held
<1>2. ASSUME newest' \in Known, cache'.sample \in Known,
             \A c \in Collectors : task'[c].sample \in Known
      PROVE  Held' \subseteq Known
  BY <1>1, <1>2 DEF Held
<1>3. CASE Carry \/ CounterReset
  BY <1>3, SamplesOutlive
<1>4. CASE Subscribe \/ LockRunsOut \/ LockOverruns \/ UNCHANGED vars
  <2>1. UNCHANGED <<newest, cache, task, counter, carried, resets>>
    BY <1>4 DEF Subscribe, LockRunsOut, LockOverruns, vars, node, ledger
  <2>2. Held' \subseteq Known
    BY <1>1, <1>2, <2>1
  <2>3. QED
    BY <2>1, <2>2, SamplesKept
<1>5. CASE ReconcileFills \/ CacheExpires \/ PanelCrash
  <2>1. UNCHANGED <<newest, counter, carried, resets>>
    BY <1>5 DEF ReconcileFills, CacheExpires, PanelCrash, node, ledger
  <2>2. cache'.sample \in {Current, NoSample}
    BY <1>5 DEF ReconcileFills, CacheExpires, PanelCrash, Full, Empty
  <2>3. \A c \in Collectors : task'[c].sample \in Known
    BY <1>1, <1>5 DEF ReconcileFills, CacheExpires, PanelCrash, Idle
  <2>4. QED
    BY <1>1, <1>2, <2>1, <2>2, <2>3, SamplesKept
<1>6. ASSUME NEW c \in Collectors, UNCHANGED <<newest, counter, carried, resets>>,
             cache'.sample \in Known, task'[c].sample \in Known, Takes(c)
      PROVE  Samplings'
  <2>1. \A d \in Collectors : task'[d].sample \in Known
    BY <1>1, <1>6
  <2>2. QED
    BY <1>1, <1>2, <1>6, <2>1, SamplesKept
<1>7. ASSUME NEW c \in Pollers, PollLock(c)
      PROVE  Samplings'
  BY <1>1, <1>6, <1>7 DEF PollLock, Collectors, node, ledger, TrafficTypeOK, Tasks
<1>8. ASSUME NEW c \in Conns, Connect(c)
      PROVE  Samplings'
  BY <1>1, <1>6, <1>8 DEF Connect, Collectors, node, ledger, TrafficTypeOK, Tasks
<1>9. ASSUME NEW c \in Conns, Report(c)
      PROVE  Samplings'
  BY <1>1, <1>6, <1>9 DEF Report, Collectors, node, ledger, TrafficTypeOK, Tasks
<1>10. ASSUME NEW c \in Collectors, PollNode(c)
       PROVE  Samplings'
  BY <1>1, <1>6, <1>10 DEF PollNode, Sampled, Full, node, ledger, TrafficTypeOK, Tasks
<1>11. ASSUME NEW c \in Collectors, PollCache(c)
       PROVE  Samplings'
  BY <1>1, <1>6, <1>11 DEF PollCache, Sampled, node, ledger, TrafficTypeOK, Tasks
<1>12. ASSUME NEW c \in Collectors, PushLock(c) \/ PushBusy(c) \/ ReadRows(c) \/ Release(c)
       PROVE  Samplings'
  <2>1. UNCHANGED <<newest, counter, carried, resets, cache>>
    BY <1>12 DEF PushLock, PushBusy, ReadRows, Release, node, ledger
  <2>2. Takes(c)
    BY <1>12 DEF PushLock, PushBusy, ReadRows, Release, TrafficTypeOK
  <2>3. task'[c].sample \in {NoSample, task[c].sample}
    BY <1>12 DEF PushLock, PushBusy, ReadRows, Release, Idle, TrafficTypeOK, Tasks
  <2>4. QED
    BY <1>1, <1>6, <2>1, <2>2, <2>3
<1>13. ASSUME NEW c \in Collectors, SettleFails(c)
       PROVE  Samplings'
  BY <1>1, <1>6, <1>13 DEF SettleFails, node, ledger, TrafficTypeOK, Tasks
<1>14. ASSUME NEW c \in Collectors, Commit(c)
       PROVE  Samplings'
  <2>1. UNCHANGED <<counter, carried, resets, cache>>
    BY <1>14 DEF Commit, node
  <2>2. newest' \in {newest, task[c].sample}
    BY <1>14 DEF Commit, Settle, Dated, ledger
  <2>3. \A d \in Collectors : task'[d].sample = task[d].sample
    BY <1>14 DEF Commit, TrafficTypeOK, Tasks
  <2>4. QED
    BY <1>1, <1>2, <2>1, <2>2, <2>3, SamplesKept
<1>15. QED
  BY <1>3, <1>4, <1>5, <1>7, <1>8, <1>9, <1>10, <1>11, <1>12, <1>13, <1>14 DEF TrafficNext, Step

-----------------------------------------------------------------------------
\* What a transaction does to the books, when its sample is not late and the snapshot it has
\* read is still the stored one.
LEMMA SettleBooks ==
  ASSUME TrafficTypeOK, Samplings, Account, NEW c \in Collectors, Settle(c),
         task[c].last = snapshot, ~overrun, ~late', UNCHANGED <<resets, overrun>>
  PROVE  Account'
<1> DEFINE s == newest
<1> DEFINE t == task[c].sample
<1> DEFINE d == Advance(snapshot, t.total)
<1>1. s \in Samples /\ t \in Samples /\ snapshot \in Nat \cup {NoRow} /\ billed \in Nat
      /\ resets \in Nat /\ task[c] \in Tasks
  BY DEF TrafficTypeOK, Tasks
<1>2. ~late /\ newest' = t /\ Moment(s) <= Moment(t)
  <2>1. ~late /\ ~(Moment(t) < Moment(s))
    BY DEF Settle, Dated
  <2>2. Moment(t) \in Nat /\ Moment(s) \in Nat
    BY <1>1 DEF Moment, Samples
  <2>3. newest' = t
    BY <2>1 DEF Settle, Dated
  <2>4. QED
    BY <2>1, <2>2, <2>3
<1>3. s \in Held /\ t \in Held
  BY DEF Held
<1>4. Past(s) /\ Past(t) /\ Follows(s, t)
  BY <1>3 DEF Samplings, SamplesPast, SamplesFollow
<1>5. /\ billed * Den <= s.carried * Num
      /\ snapshot = NoRow => billed = 0
      /\ snapshot # NoRow => snapshot = s.total
      /\ resets = 0 /\ snapshot # NoRow => billed >= snapshot * (Num \div Den)
  BY <1>2 DEF Account
<1>6. d \in Nat /\ (IF snapshot = NoRow THEN d ELSE s.carried + d) <= t.carried
  <2>1. d \in Nat
    BY <1>1, AdvanceIsNat DEF Samples
  <2>2. s.carried <= t.carried /\ t.total <= s.total + (t.carried - s.carried)
    BY <1>2, <1>4 DEF Follows
  <2>3. CASE snapshot # NoRow
    BY <1>1, <1>5, <2>1, <2>2, <2>3 DEF Advance, Samples
  <2>4. CASE snapshot = NoRow
    BY <1>1, <1>4, <2>4 DEF Advance, Past, Samples
  <2>5. QED
    BY <2>1, <2>3, <2>4
<1>7. /\ Weighted(d) \in Nat /\ Weighted(d) * Den <= d * Num
      /\ d * (Num \div Den) <= Weighted(d)
  BY <1>6, WeightedBounds
<1>8. Num \in Nat /\ Den \in Nat \ {0} /\ Num \div Den \in Nat
  BY TrafficAssumption, DivBound
<1>9. billed' = billed + Weighted(d)
  BY DEF Settle
<1>10. billed' * Den <= newest'.carried * Num
  <2>1. CASE snapshot = NoRow
    <3>1. d * Num <= t.carried * Num
      BY <1>1, <1>6, <1>8, <2>1, MulMono DEF Samples
    <3>2. QED
      BY <1>1, <1>2, <1>5, <1>6, <1>7, <1>8, <1>9, <2>1, <3>1 DEF Samples
  <2>2. CASE snapshot # NoRow
    <3>1. (billed + Weighted(d)) * Den = billed * Den + Weighted(d) * Den
      BY <1>1, <1>7, <1>8, Distribute
    <3>2. s.carried \in Nat /\ t.carried \in Nat /\ s.carried + d \in Nat
          /\ s.carried + d <= t.carried
      BY <1>1, <1>6, <2>2 DEF Samples
    <3>3. (s.carried + d) * Num = s.carried * Num + d * Num
      <4>1. s.carried \in Nat /\ d \in Nat /\ Num \in Nat
        BY <1>6, <1>8, <3>2
      <4>2. \A a, b, e \in Nat : (a + b) * e = a * e + b * e
        BY Distribute
      <4> HIDE DEF d, s
      <4>3. QED
        BY <4>1, <4>2
    <3>4. (s.carried + d) * Num <= t.carried * Num
      BY <1>8, <3>2, MulMono
    <3>5. QED
      <4>1. /\ billed * Den \in Int /\ Weighted(d) * Den \in Int
            /\ s.carried * Num \in Int /\ d * Num \in Int /\ t.carried * Num \in Int
        BY <1>1, <1>6, <1>7, <1>8, <3>2
      <4>2. billed * Den + Weighted(d) * Den <= t.carried * Num
        BY <1>5, <1>7, <3>3, <3>4, <4>1
      <4>3. QED
        BY <1>2, <1>9, <3>1, <4>2
  <2>3. QED
    BY <2>1, <2>2
<1>11. snapshot' = NoRow => billed' = 0
  <2>1. SUFFICES ASSUME snapshot' = NoRow
                 PROVE  billed' = 0
    OBVIOUS
  <2>2. snapshot = NoRow /\ t.total = 0
    BY <1>1, <2>1 DEF Settle, NoRow, Samples
  <2>3. d = 0 /\ billed = 0
    BY <1>5, <2>2 DEF Advance
  <2>4. Weighted(d) * Den <= 0
    BY <1>7, <1>8, <2>3
  <2>5. Weighted(d) = 0
    BY <1>7, <1>8, <2>4
  <2>6. QED
    BY <1>9, <2>3, <2>5
<1>12. snapshot' # NoRow => snapshot' = newest'.total
  BY <1>1, <1>2 DEF Settle
<1>13. ASSUME resets' = 0, snapshot' # NoRow
       PROVE  billed' >= snapshot' * (Num \div Den)
  <2>1. resets = 0 /\ snapshot' = t.total
    BY <1>2, <1>12, <1>13
  <2>2. s.total = s.carried /\ t.total = t.carried
    BY <1>1, <1>4, <2>1 DEF Past, Samples
  <2>3. CASE snapshot = NoRow
    BY <1>1, <1>5, <1>7, <1>8, <1>9, <2>1, <2>3 DEF Advance, Samples
  <2>4. CASE snapshot # NoRow
    <3>1. snapshot = s.total /\ snapshot \in Nat /\ t.total = snapshot + d
      BY <1>1, <1>5, <1>6, <2>2, <2>4 DEF Advance, Samples
    <3>2. (snapshot + d) * (Num \div Den) = snapshot * (Num \div Den) + d * (Num \div Den)
      BY <1>6, <1>8, <3>1
    <3>3. QED
      BY <1>1, <1>5, <1>6, <1>7, <1>8, <1>9, <2>1, <2>4, <3>1, <3>2
  <2>5. QED
    BY <2>3, <2>4
<1>14. QED
  BY <1>10, <1>11, <1>12, <1>13 DEF Account

\* Taking the lock while nobody works under it.
LEMMA LockTaken ==
  ASSUME TrafficTypeOK, OneWorks, NEW c \in Collectors, TakeLock(c), ~overrun'
  PROVE  lock'.owner = c /\ ~overrun /\ \A d \in Collectors : ~Working(d)
<1>1. ~overrun /\ lock' = [owner |-> c, live |-> TRUE]
  BY DEF TakeLock, TrafficTypeOK
<1>2. lock.owner # Nobody => ~Working(lock.owner)
  BY DEF TakeLock
<1>3. \A d \in Collectors : ~Working(d)
  BY <1>1, <1>2, NobodyAssumption DEF OneWorks
<1>4. QED
  BY <1>1, <1>3

\* A step that leaves the ledger alone: nobody new works, and nobody new has read the snapshot.
LEMMA BooksKept ==
  ASSUME Books, UNCHANGED <<ledger, resets, overrun>>,
         \A c \in Collectors : Working(c)' => Working(c) /\ lock'.owner = lock.owner,
         \A c \in Collectors : task'[c].at = "read" =>
            task[c].at = "read" /\ task'[c].last = task[c].last
  PROVE  Books'
<1>1. OneWorks' /\ ReadsHold'
  BY DEF Books, OneWorks, ReadsHold, ledger
<1>2. Account'
  BY DEF Books, Account, ledger
<1>3. QED
  BY <1>1, <1>2 DEF Books

\* Every step keeps the books.
LEMMA BookStep ==
  ASSUME TrafficTypeOK, Samplings, Books, [TrafficNext]_vars
  PROVE  Books'
<1>1. CASE Carry \/ Subscribe \/ LockRunsOut \/ LockOverruns \/ ReconcileFills \/ CacheExpires
           \/ UNCHANGED vars
  <2>1. UNCHANGED <<ledger, resets, overrun, task>> /\ lock'.owner = lock.owner
    BY <1>1 DEF Carry, Subscribe, LockRunsOut, LockOverruns, ReconcileFills, CacheExpires, vars,
         node, ledger, TrafficTypeOK, Locks
  <2>2. QED
    BY <2>1, BooksKept DEF Working
<1>2. CASE CounterReset
  <2>1. UNCHANGED <<ledger, overrun, task, lock>> /\ resets' # 0
    BY <1>2 DEF CounterReset, TrafficTypeOK
  <2>2. OneWorks' /\ ReadsHold'
    BY <2>1 DEF Books, OneWorks, ReadsHold, Working, ledger
  <2>3. Account'
    BY <2>1 DEF Books, Account, ledger
  <2>4. QED
    BY <2>2, <2>3 DEF Books
<1>3. CASE PanelCrash
  <2>1. UNCHANGED <<ledger, resets, overrun, lock>>
        /\ \A c \in Collectors : task'[c].at = "idle"
    BY <1>3 DEF PanelCrash, Idle, node
  <2>2. QED
    BY <2>1, BooksKept DEF Working
<1>4. ASSUME NEW c \in Collectors, UNCHANGED <<ledger, resets>>, TakeLock(c),
             \A d \in Collectors \ {c} : task'[d] = task[d],
             task'[c].at # "read"
      PROVE  Books'
  <2>1. SUFFICES ASSUME ~overrun'
                 PROVE  Books'
    BY DEF Books, OneWorks, ReadsHold, Account
  <2>2. lock'.owner = c /\ ~overrun /\ \A d \in Collectors : ~Working(d)
    BY <1>4, <2>1, LockTaken DEF Books
  <2>3. OneWorks'
    BY <1>4, <2>2 DEF OneWorks, Working
  <2>4. ReadsHold'
    BY <1>4, <2>2 DEF ReadsHold, Working
  <2>5. Account'
    BY <1>4, <2>2 DEF Books, Account, ledger
  <2>6. QED
    BY <2>3, <2>4, <2>5 DEF Books
<1>5. ASSUME NEW c \in Pollers, PollLock(c)
      PROVE  Books'
  <2>1. UNCHANGED <<ledger, resets>> /\ TakeLock(c) /\ c \in Collectors
        /\ task' = [task EXCEPT ![c].at = "locked"]
    BY <1>5 DEF PollLock, node, Collectors
  <2>2. task'[c].at = "locked" /\ \A d \in Collectors \ {c} : task'[d] = task[d]
    BY <2>1 DEF TrafficTypeOK, Tasks
  <2>3. QED
    BY <1>4, <2>1, <2>2
<1>6. ASSUME NEW c \in Collectors, PushLock(c)
      PROVE  Books'
  <2>1. UNCHANGED <<ledger, resets>> /\ TakeLock(c) /\ task' = [task EXCEPT ![c].at = "sampled"]
    BY <1>6 DEF PushLock, node
  <2>2. task'[c].at = "sampled" /\ \A d \in Collectors \ {c} : task'[d] = task[d]
    BY <2>1 DEF TrafficTypeOK, Tasks
  <2>3. QED
    BY <1>4, <2>1, <2>2
<1>7. ASSUME NEW c \in Collectors, UNCHANGED <<ledger, resets, overrun, lock>>,
             \A d \in Collectors \ {c} : task'[d] = task[d],
             Working(c)' => Working(c), task'[c].at # "read"
      PROVE  Books'
  <2>1. \A d \in Collectors : Working(d)' => Working(d)
    BY <1>7 DEF Working
  <2>2. \A d \in Collectors : task'[d].at = "read" =>
           task[d].at = "read" /\ task'[d].last = task[d].last
    BY <1>7
  <2>3. QED
    BY <1>7, <2>1, <2>2, BooksKept
<1>8. ASSUME NEW c \in Conns, Connect(c)
      PROVE  Books'
  <2>1. UNCHANGED <<ledger, resets, overrun, lock, task>>
    BY <1>8 DEF Connect, node
  <2>2. QED
    BY <2>1, BooksKept DEF Working
<1>9. ASSUME NEW c \in Conns, Report(c)
      PROVE  Books'
  <2>1. UNCHANGED <<ledger, resets, overrun, lock>> /\ c \in Collectors
    BY <1>9 DEF Report, node, Collectors
  <2>2. task'[c].at = "arrived" /\ \A d \in Collectors \ {c} : task'[d] = task[d]
    BY <1>9, <2>1 DEF Report, TrafficTypeOK, Tasks
  <2>3. QED
    BY <1>7, <2>1, <2>2 DEF Working
<1>10. ASSUME NEW c \in Collectors, PollNode(c)
       PROVE  Books'
  <2>1. UNCHANGED <<ledger, resets, overrun, lock>> /\ task[c].at = "locked"
    BY <1>10 DEF PollNode, node
  <2>2. task'[c].at = "sampled" /\ \A d \in Collectors \ {c} : task'[d] = task[d]
    BY <1>10 DEF PollNode, Sampled, TrafficTypeOK, Tasks
  <2>3. QED
    BY <1>7, <2>1, <2>2 DEF Working
<1>11. ASSUME NEW c \in Collectors, PollCache(c)
       PROVE  Books'
  <2>1. UNCHANGED <<ledger, resets, overrun, lock>> /\ task[c].at = "locked"
    BY <1>11 DEF PollCache, node
  <2>2. task'[c].at = "sampled" /\ \A d \in Collectors \ {c} : task'[d] = task[d]
    BY <1>11 DEF PollCache, Sampled, TrafficTypeOK, Tasks
  <2>3. QED
    BY <1>7, <2>1, <2>2 DEF Working
<1>12. ASSUME NEW c \in Collectors, PushBusy(c)
       PROVE  Books'
  <2>1. UNCHANGED <<ledger, resets, overrun, lock>>
    BY <1>12 DEF PushBusy, node
  <2>2. task'[c].at = "idle" /\ \A d \in Collectors \ {c} : task'[d] = task[d]
    BY <1>12 DEF PushBusy, Idle, TrafficTypeOK
  <2>3. QED
    BY <1>7, <2>1, <2>2 DEF Working
<1>13. ASSUME NEW c \in Collectors, SettleFails(c)
       PROVE  Books'
  <2>1. UNCHANGED <<ledger, resets, overrun, lock>> /\ Working(c)
    BY <1>13 DEF SettleFails, node, Working
  <2>2. task'[c].at = "done" /\ \A d \in Collectors \ {c} : task'[d] = task[d]
    BY <1>13 DEF SettleFails, TrafficTypeOK, Tasks
  <2>3. QED
    BY <1>7, <2>1, <2>2
<1>14. ASSUME NEW c \in Collectors, ReadRows(c)
       PROVE  Books'
  <2>1. UNCHANGED <<ledger, resets, overrun, lock>> /\ Working(c)
    BY <1>14 DEF ReadRows, node, Working
  <2>2. task'[c].last = snapshot /\ \A d \in Collectors \ {c} : task'[d] = task[d]
    BY <1>14 DEF ReadRows, TrafficTypeOK, Tasks
  <2>3. OneWorks'
    BY <2>1, <2>2 DEF Books, OneWorks, Working
  <2>4. ReadsHold'
    BY <2>1, <2>2 DEF Books, ReadsHold, ledger
  <2>5. Account'
    BY <2>1 DEF Books, Account, ledger
  <2>6. QED
    BY <2>3, <2>4, <2>5 DEF Books
<1>15. ASSUME NEW c \in Collectors, Release(c)
       PROVE  Books'
  <2>1. UNCHANGED <<ledger, resets, overrun>> /\ Working(c)
    BY <1>15 DEF Release, node, Working
  <2>2. task'[c].at = "idle" /\ \A d \in Collectors \ {c} : task'[d] = task[d]
    BY <1>15 DEF Release, Idle, TrafficTypeOK
  <2>3. lock' = lock \/ lock.owner = c
    BY <1>15 DEF Release, Unlock
  <2>4. OneWorks'
    <3>1. SUFFICES ASSUME ~overrun', NEW d \in Collectors, Working(d)'
                   PROVE  lock'.owner = d
      BY DEF OneWorks
    <3>2. d # c /\ Working(d) /\ lock.owner = d
      BY <2>1, <2>2, <3>1 DEF Books, OneWorks, Working
    <3>3. QED
      BY <2>3, <3>2
  <2>5. ReadsHold'
    BY <2>1, <2>2 DEF Books, ReadsHold, ledger
  <2>6. Account'
    BY <2>1 DEF Books, Account, ledger
  <2>7. QED
    BY <2>4, <2>5, <2>6 DEF Books
<1>16. ASSUME NEW c \in Collectors, Commit(c)
       PROVE  Books'
  <2>1. UNCHANGED <<resets, overrun, lock>> /\ Working(c) /\ task[c].at = "read"
        /\ (Settle(c) \/ UNCHANGED ledger)
    BY <1>16 DEF Commit, node, Working
  <2>2. task'[c].at = "done" /\ \A d \in Collectors \ {c} : task'[d] = task[d]
    BY <1>16 DEF Commit, TrafficTypeOK, Tasks
  <2>3. OneWorks'
    BY <2>1, <2>2 DEF Books, OneWorks, Working
  <2>4. ReadsHold'
    <3>1. SUFFICES ASSUME ~overrun', NEW d \in Collectors, task'[d].at = "read"
                   PROVE  FALSE
      BY DEF ReadsHold
    <3>2. d # c /\ Working(d) /\ ~overrun
      BY <2>1, <2>2, <3>1 DEF Working
    <3>3. QED
      BY <2>1, <3>2 DEF Books, OneWorks
  <2>5. Account'
    <3>1. CASE UNCHANGED ledger
      BY <2>1, <3>1 DEF Books, Account, ledger
    <3>2. CASE Settle(c)
      <4>1. SUFFICES ASSUME ~late', ~overrun
                     PROVE  Account'
        BY <2>1 DEF Account
      <4>2. task[c].last = snapshot
        BY <2>1, <4>1 DEF Books, ReadsHold
      <4>3. QED
        BY <2>1, <3>2, <4>1, <4>2, SettleBooks DEF Books
    <3>3. QED
      BY <2>1, <3>1, <3>2
  <2>6. QED
    BY <2>3, <2>4, <2>5 DEF Books
<1>17. QED
  BY <1>1, <1>2, <1>3, <1>5, <1>6, <1>8, <1>9, <1>10, <1>11, <1>12, <1>13, <1>14, <1>15, <1>16
     DEF TrafficNext, Step

\* The start: no sample is held but the blank one, and nothing is billed.
LEMMA InvInit == TrafficInit => TrafficInv
<1> SUFFICES ASSUME TrafficInit
             PROVE  TrafficInv
  OBVIOUS
<1>1. TrafficTypeOK
  BY TypeInit
<1>2. Held \subseteq {NoSample}
  BY DEF TrafficInit, Held, Empty, Idle
<1>3. Past(NoSample) /\ Follows(NoSample, NoSample) /\ CounterInside
  BY DEF TrafficInit, Past, Follows, Moment, NoSample, CounterInside
<1>4. Samplings
  BY <1>2, <1>3 DEF Samplings, SamplesPast, SamplesFollow
<1>5. OneWorks /\ ReadsHold
  BY DEF TrafficInit, OneWorks, ReadsHold, Working, Idle
<1>6. Account
  BY TrafficAssumption DEF TrafficInit, Account, NoSample
<1>7. QED
  BY <1>1, <1>4, <1>5, <1>6 DEF TrafficInv, Books

\* Unless a sample overtakes a newer one or a lock runs out under its owner, no byte is billed
\* twice; and without a reset none up to the snapshot is forgotten.
THEOREM BytesBilledOnce == TrafficSpec => []BilledOnce
<1>1. TrafficInv /\ [TrafficNext]_vars => TrafficInv'
  BY TypeStep, SampleStep, BookStep DEF TrafficInv
<1>2. TrafficInv => BilledOnce
  <2>1. SUFFICES ASSUME TrafficInv, ~late, ~overrun
                 PROVE  billed * Den <= carried * Num
    BY DEF TrafficInv, Books, Account, BilledOnce
  <2>2. newest \in Held
    BY DEF Held
  <2>3. newest.carried \in Nat /\ carried \in Nat /\ newest.carried <= carried
    BY <2>1, <2>2 DEF TrafficInv, Samplings, SamplesPast, Past, TrafficTypeOK, Samples
  <2>4. Num \in Nat /\ Den \in Nat /\ billed \in Nat
    BY <2>1, TrafficAssumption DEF TrafficInv, TrafficTypeOK
  <2>5. newest.carried * Num <= carried * Num
    BY <2>3, <2>4, MulMono
  <2>6. billed * Den <= newest.carried * Num
    BY <2>1 DEF TrafficInv, Books, Account
  <2>7. QED
    BY <2>3, <2>4, <2>5, <2>6
<1>3. QED
  BY <1>1, <1>2, InvInit, PTL DEF TrafficSpec
=============================================================================
