---------------------------- MODULE TriggerProofs ----------------------------
(* Invariants of the trigger loop, for any levels, ticks and timings.      *)
EXTENDS Trigger, TLAPS

LEMMA InitOK == Init => IInv
BY TriggerAssumption
DEF Init, IInv, TypeOK, LoopOK, CopiesHold, Undecided, OneLiveOrderPerLevel,
    OrdersKeepTheirLevel, NoLevels, NoOrders, Silence

\* Going idle forgets the tick and leaves the tables alone.
LEMMA GoIdleOK ==
  ASSUME IInv, GoIdle, UNCHANGED <<tables, now>>,
         queue' \in Seq(PriceTick), Len(queue') <= TickChannel, quiet' \in [Levels -> Nat]
  PROVE  IInv'
<1>1. TypeOK'
  BY TriggerAssumption DEF IInv, TypeOK, GoIdle, tables, NoLevels, NoOrders
<1>2. LoopOK' /\ CopiesHold'
  BY DEF LoopOK, CopiesHold, Undecided, GoIdle
<1>3. OneLiveOrderPerLevel' /\ OrdersKeepTheirLevel'
  BY DEF IInv, OneLiveOrderPerLevel, OrdersKeepTheirLevel, tables
<1> QED
  BY <1>1, <1>2, <1>3 DEF IInv

\* What is undecided only shrinks, and neither table moves.
LEMMA NarrowsOK ==
  ASSUME IInv, TypeOK', LoopOK', UNCHANGED <<tables, seenOrders>>,
         Undecided' \subseteq Undecided
  PROVE  IInv'
<1>1. CopiesHold'
  BY DEF IInv, CopiesHold, is_spent, OrdersOf, tables
<1>2. OneLiveOrderPerLevel' /\ OrdersKeepTheirLevel'
  BY DEF IInv, OneLiveOrderPerLevel, OrdersKeepTheirLevel, tables
<1> QED
  BY <1>1, <1>2 DEF IInv

LEMMA FeedOK == ASSUME IInv, NEW t \in PriceTick, Feed(t) PROVE IInv'
<1>1. TypeOK'
  <2>1. queue' \in Seq(PriceTick) /\ Len(queue') <= TickChannel
    BY TriggerAssumption DEF IInv, TypeOK, Feed
  <2> QED
    BY <2>1 DEF IInv, TypeOK, Feed, tables, loopVars
<1>2. LoopOK' /\ Undecided' \subseteq Undecided
  BY DEF IInv, LoopOK, Undecided, Rests, is_quiet, cooling_down, OrdersOf, Feed, loopVars
<1> QED
  BY <1>1, <1>2, NarrowsOK DEF Feed, loopVars

LEMMA ReceiveTickOK == ASSUME IInv, ReceiveTick PROVE IInv'
<1>1. TypeOK'
  <2>1. /\ Head(queue) \in PriceTick /\ Tail(queue) \in Seq(PriceTick)
        /\ Len(Tail(queue)) <= TickChannel
    BY TriggerAssumption DEF IInv, TypeOK, ReceiveTick
  <2> QED
    BY <2>1, TriggerAssumption DEF IInv, TypeOK, ReceiveTick, tables
<1>2. LoopOK' /\ Undecided' \subseteq Undecided
  BY DEF IInv, LoopOK, Undecided, ReceiveTick
<1> QED
  BY <1>1, <1>2, NarrowsOK DEF ReceiveTick

LEMMA ListOrdersOK == ASSUME IInv, ListOrders PROVE IInv'
<1>1. TypeOK'
  BY DEF IInv, TypeOK, ListOrders, tables, fired_levels
<1>2. LoopOK'
  BY DEF LoopOK, ListOrders
<1>3. CopiesHold'
  BY DEF CopiesHold, Undecided, ListOrders, fired_levels, is_spent, OrdersOf, tables
<1>4. OneLiveOrderPerLevel' /\ OrdersKeepTheirLevel'
  BY DEF IInv, OneLiveOrderPerLevel, OrdersKeepTheirLevel, ListOrders, tables
<1> QED
  BY <1>1, <1>2, <1>3, <1>4 DEF IInv

LEMMA DropTickOK == ASSUME IInv, DropTick PROVE IInv'
BY GoIdleOK DEF DropTick, IInv, TypeOK

LEMMA RestartOK == ASSUME IInv, Restart PROVE IInv'
<1>1. queue' \in Seq(PriceTick) /\ Len(queue') <= TickChannel /\ quiet' \in [Levels -> Nat]
  BY TriggerAssumption DEF Restart, Silence
<1> QED
  BY <1>1, GoIdleOK DEF Restart

LEMMA SkipOK == ASSUME IInv, NEW l \in Levels, Skip(l) PROVE IInv'
<1>1. TypeOK'
  BY DEF IInv, TypeOK, Skip, tables
<1>2. LoopOK' /\ Undecided' \subseteq Undecided
  BY DEF IInv, LoopOK, Undecided, Skip
<1> QED
  BY <1>1, <1>2, NarrowsOK DEF Skip

LEMMA QuoteOK == ASSUME IInv, NEW l \in Levels, Quote(l) PROVE IInv'
<1>1. TypeOK'
  BY TriggerAssumption DEF IInv, TypeOK, Quote, tables
<1>2. LoopOK' /\ Undecided' \subseteq Undecided
  BY DEF IInv, LoopOK, Undecided, Rests, is_quiet, cooling_down, OrdersOf, Quote
<1> QED
  BY <1>1, <1>2, NarrowsOK DEF Quote

LEMMA PlaceOrderOK == ASSUME IInv, PlaceOrder PROVE IInv'
<1> DEFINE id  == [level |-> cur, published_at |-> tick.published_at]
           row == [status |-> "Pending",
                   created_at |-> IF orders[id] = NoOrder THEN at ELSE orders[id].created_at]
<1>1. /\ cur \in Levels /\ tick \in PriceTick /\ id \in OrderId
      /\ id.level = cur /\ levels[cur] # NoLevel
  BY TriggerAssumption DEF IInv, TypeOK, PlaceOrder, PriceTick, OrderId
<1>2. /\ orders' = [orders EXCEPT ![id] = row]
      /\ row \in Order /\ row # NoOrder
  BY <1>1, TriggerAssumption DEF IInv, TypeOK, PlaceOrder, Order, Status
<1>3. TypeOK'
  BY <1>1, <1>2, TriggerAssumption DEF IInv, TypeOK, PlaceOrder
<1>4. LoopOK'
  BY DEF IInv, LoopOK, PlaceOrder
<1> HIDE DEF id, row
<1>5. /\ orders \in [OrderId -> Order \cup {NoOrder}]
      /\ orders'[id] = row
      /\ \A i \in OrderId : i # id => orders'[i] = orders[i]
  BY <1>1, <1>2 DEF IInv, TypeOK
<1>6. CopiesHold'
  <2>1. UNCHANGED <<seenOrders, fired>> /\ Undecided' = fired /\ cur \notin fired
        /\ fired \subseteq Undecided
    BY DEF PlaceOrder, Undecided, IInv, LoopOK
  <2>2. \A l \in fired, i \in OrderId : i.level = l => orders'[i] = orders[i]
    BY <1>1, <1>5, <2>1
  <2> QED
    BY <2>1, <2>2 DEF IInv, CopiesHold, is_spent, OrdersOf
<1>7. OneLiveOrderPerLevel'
  <2>1. \A i \in OrderId : i.level = cur /\ orders[i] # NoOrder => orders[i].status = "Failed"
    BY <1>1 DEF IInv, CopiesHold, Undecided, is_spent, OrdersOf, PlaceOrder
  <2> QED
    BY <1>1, <1>5, <2>1 DEF IInv, OneLiveOrderPerLevel
<1>8. OrdersKeepTheirLevel'
  BY <1>1, <1>5 DEF IInv, OrdersKeepTheirLevel, PlaceOrder
<1> QED
  BY <1>3, <1>4, <1>6, <1>7, <1>8 DEF IInv

LEMMA RejectOK == ASSUME IInv, Reject PROVE IInv'
<1>1. TypeOK'
  BY TriggerAssumption DEF IInv, TypeOK, Reject, tables
<1>2. LoopOK' /\ Undecided' \subseteq Undecided
  BY DEF IInv, LoopOK, Undecided, Reject
<1> QED
  BY <1>1, <1>2, NarrowsOK DEF Reject

LEMMA ExecuteOK == ASSUME IInv, NEW id \in OrderId, Execute(id) PROVE IInv'
<1>1. /\ orders[id] \in Order /\ orders[id] # NoOrder /\ orders[id].status # "Failed"
      /\ orders \in [OrderId -> Order \cup {NoOrder}]
  BY DEF IInv, TypeOK, Execute, Moved
<1>2. PICK to \in Moved(orders[id].status) : orders' = [orders EXCEPT ![id].status = to]
  BY DEF Execute
<1>3. to \in Status
  BY <1>2 DEF Moved, Status
<1>4. /\ orders'[id] \in Order
      /\ \A i \in OrderId : i # id => orders'[i] = orders[i]
      /\ orders' \in [OrderId -> Order \cup {NoOrder}]
  BY <1>1, <1>2, <1>3 DEF Order
<1>5. UNCHANGED <<levels, queue, phase, tick, at, seenLevels, seenOrders, fired, cur,
                  quiet, now>>
  BY DEF Execute, loopVars
<1>6. TypeOK' /\ LoopOK'
  BY <1>4, <1>5
  DEF IInv, TypeOK, LoopOK, Rests, is_quiet, cooling_down, OrdersOf
<1>7. CopiesHold'
  <2>1. Undecided' = Undecided
    BY <1>5 DEF Undecided
  <2>2. \A l \in Undecided, i \in OrderId : i.level = l => i # id
    BY <1>1 DEF IInv, CopiesHold, is_spent, OrdersOf
  <2>3. \A l \in Undecided, i \in OrderId : i.level = l => orders'[i] = orders[i]
    BY <1>4, <2>2
  <2> QED
    BY <1>5, <2>1, <2>3 DEF IInv, CopiesHold, is_spent, OrdersOf
<1>8. OneLiveOrderPerLevel' /\ OrdersKeepTheirLevel'
  BY <1>1, <1>4, <1>5 DEF IInv, OneLiveOrderPerLevel, OrdersKeepTheirLevel
<1> QED
  BY <1>6, <1>7, <1>8 DEF IInv

LEMMA AdminOK ==
  ASSUME IInv, NEW l \in Levels,
         DeleteLevel(l) \/ \E terms \in Terms : SetLevel(l, terms)
  PROVE  IInv'
<1>1. /\ UNCHANGED <<orders, queue, phase, tick, at, seenLevels, seenOrders, fired, cur,
                     quiet, now>>
      /\ levels' \in [Levels -> Terms \cup {NoLevel}]
  BY DEF DeleteLevel, SetLevel, loopVars, IInv, TypeOK
<1>2. TypeOK'
  BY <1>1 DEF IInv, TypeOK
<1>3. LoopOK' /\ CopiesHold' /\ OneLiveOrderPerLevel'
  BY <1>1
  DEF IInv, LoopOK, Rests, is_quiet, cooling_down, OrdersOf, CopiesHold, Undecided, is_spent,
      OneLiveOrderPerLevel
<1>4. OrdersKeepTheirLevel'
  BY <1>1, TriggerAssumption
  DEF IInv, TypeOK, OrdersKeepTheirLevel, DeleteLevel, SetLevel, OrdersOf, OrderId
<1> QED
  BY <1>2, <1>3, <1>4 DEF IInv

LEMMA PassOK == ASSUME IInv, Pass PROVE IInv'
<1>1. TypeOK'
  BY TriggerAssumption DEF IInv, TypeOK, Pass, tables, loopVars
<1>2. LoopOK' /\ Undecided' \subseteq Undecided
  BY DEF IInv, LoopOK, Undecided, Rests, is_quiet, cooling_down, OrdersOf, Pass, loopVars
<1> QED
  BY <1>1, <1>2, NarrowsOK DEF Pass, loopVars

LEMMA NextOK == IInv /\ [Next]_vars => IInv'
<1> SUFFICES ASSUME IInv, [Next]_vars PROVE IInv'
  OBVIOUS
<1>1. CASE UNCHANGED vars
  <2>1. TypeOK'
    BY <1>1 DEF IInv, TypeOK, vars, tables, loopVars
  <2>2. LoopOK' /\ Undecided' \subseteq Undecided
    BY <1>1 DEF IInv, LoopOK, Undecided, Rests, is_quiet, cooling_down, OrdersOf, vars, loopVars
  <2> QED
    BY <1>1, <2>1, <2>2, NarrowsOK DEF vars, loopVars
<1>2. CASE Next
  BY <1>2, FeedOK, ReceiveTickOK, ListOrdersOK, DropTickOK, PlaceOrderOK, RejectOK, SkipOK,
     QuoteOK, AdminOK, ExecuteOK, RestartOK, PassOK
  DEF Next
<1> QED
  BY <1>1, <1>2

-----------------------------------------------------------------------------
(* The theorems.                                                           *)

\* The inductive invariant holds of every reachable state.
THEOREM Invariance == Spec => []IInv
BY InitOK, NextOK, PTL DEF Spec

\* The loop, its copies of the tables and the tables keep their types, and the queue
\* of ticks its bound.
THEOREM TypesHold == Spec => []TypeOK
<1>1. IInv => TypeOK
  BY DEF IInv
<1> QED
  BY <1>1, Invariance, PTL

\* A level never has two live orders, for any number of levels, replayed ticks,
\* restarts and admin calls, and however long the venue takes to quote.
THEOREM OneLiveOrder == Spec => []OneLiveOrderPerLevel
<1>1. IInv => OneLiveOrderPerLevel
  BY DEF IInv
<1> QED
  BY <1>1, Invariance, PTL

\* No order refers to a level that is gone.
THEOREM NoOrphans == Spec => []OrdersKeepTheirLevel
<1>1. IInv => OrdersKeepTheirLevel
  BY DEF IInv
<1> QED
  BY <1>1, Invariance, PTL

\* What was decided on the copies is still right when the order is stored.
LEMMA PlacedWhenArmed ==
  ASSUME IInv, PlaceOrder
  PROVE  level_state(cur, orders, now) = "Armed"
<1>1. /\ cur \in Levels /\ at \in Nat /\ now \in Nat /\ at <= now /\ quiet[cur] \in Nat
      /\ ~is_quiet(cur, at) /\ ~cooling_down(cur, seenOrders, at)
  BY TriggerAssumption DEF IInv, TypeOK, LoopOK, Rests, PlaceOrder
<1>2. /\ ~is_spent(cur, orders)
      /\ \A id \in OrderId : id.level = cur => orders[id] = seenOrders[id]
  BY DEF IInv, CopiesHold, Undecided, PlaceOrder
<1>3. ~is_quiet(cur, now)
  BY <1>1 DEF is_quiet
<1>4. \A id \in OrdersOf(orders, cur) : orders[id].status = "Failed"
  BY <1>2 DEF is_spent
<1>5. ~cooling_down(cur, orders, now)
  <2>1. SUFFICES ASSUME NEW id \in OrdersOf(orders, cur)
                 PROVE  ~(now < orders[id].created_at + Cooldown)
    BY DEF cooling_down
  <2>2. id \in OrdersOf(seenOrders, cur) /\ seenOrders[id] = orders[id]
        /\ orders[id].created_at \in Nat
    BY <1>2 DEF OrdersOf, IInv, TypeOK, Order
  <2>3. ~(at < orders[id].created_at + Cooldown)
    BY <1>1, <1>4, <2>2 DEF cooling_down
  <2> QED
    BY <1>1, <2>2, <2>3, TriggerAssumption
<1>6. {orders[id].status : id \in OrdersOf(orders, cur)} \subseteq {"Failed"}
  BY <1>4
<1> QED
  BY <1>3, <1>5, <1>6 DEF level_state

LEMMA ArmedStep ==
  ASSUME IInv, [Next]_vars, NEW l \in Levels, ~is_spent(l, orders), is_spent(l, orders')
  PROVE  level_state(l, orders, now) = "Armed"
<1>1. PICK i \in OrderId : /\ i.level = l /\ orders'[i] # NoOrder
                           /\ orders'[i].status # "Failed" /\ orders'[i] # orders[i]
  BY DEF is_spent, OrdersOf
<1>2. CASE PlaceOrder
  <2>1. i.level = cur
    BY <1>1, <1>2 DEF PlaceOrder, IInv, TypeOK
  <2> QED
    BY <1>1, <1>2, <2>1, PlacedWhenArmed
<1>3. ASSUME NEW id \in OrderId, Execute(id) PROVE FALSE
  <2>1. orders[id] # NoOrder /\ orders[id].status # "Failed"
    BY <1>3 DEF Execute, Moved
  <2>2. i = id
    BY <1>1, <1>3 DEF Execute, IInv, TypeOK
  <2> QED
    BY <1>1, <2>1, <2>2 DEF is_spent, OrdersOf
<1>4. CASE UNCHANGED orders
  BY <1>1, <1>4
<1> QED
  BY <1>2, <1>3, <1>4
  DEF Next, vars, tables, Feed, ReceiveTick, ListOrders, DropTick, Reject, Skip, Quote,
      DeleteLevel, SetLevel, Restart, Pass

\* An order is only ever stored at a moment when its level is armed.
THEOREM ArmedTruly == Spec => ArmedWhenPlaced
<1>1. IInv /\ [Next]_vars =>
        [\A l \in Levels : ~is_spent(l, orders) /\ is_spent(l, orders')
                            => level_state(l, orders, now) = "Armed"]_vars
  BY ArmedStep
<1> QED
  BY <1>1, Invariance, PTL DEF Spec, ArmedWhenPlaced
=============================================================================
