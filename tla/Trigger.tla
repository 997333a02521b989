------------------------------- MODULE Trigger -------------------------------
(***************************************************************************)
(* The trigger loop of crates/trigger (run.rs, fired.rs, runtime.rs): it   *)
(* takes price ticks from a bounded queue, decides which stored levels     *)
(* they fire and stores one order for each.  The decision is taken on      *)
(* copies of both tables read at the start of a tick; a venue is asked for *)
(* a quote, and meanwhile the executor, the operator, the admin tools, the *)
(* clock and the price feed go on.                                         *)
(*                                                                         *)
(* The executor moves orders as OrderLifecycle allows, which Execution is  *)
(* shown to implement.  An order keeps its status and its creation time;   *)
(* amounts, tokens and the plan are left out, and a quote is what it leads *)
(* to: an order or a rejection.                                            *)
(***************************************************************************)
EXTENDS Integers, Sequences

CONSTANTS
  Levels,              \* level ids
  Terms,               \* what a level may say: records [market, side, trigger]
  Markets, Prices,     \* price pairs, and the prices they take
  Stamps,              \* published_at of ticks
  NoLevel, NoOrder,    \* no such row
  NoTick, Nobody,      \* no tick, no level in hand
  Cooldown,            \* LEVEL_COOLDOWN_SECS
  PreflightRetry,      \* PREFLIGHT_RETRY_SECS
  MaxAge, Skew,        \* DEFAULT_MAX_AGE_SECS, FUTURE_TOLERANCE_SECS
  TickChannel,         \* TICK_CHANNEL
  MaxNow               \* bound: the clock stops here

PriceTick == [market: Markets, price: Prices, published_at: Stamps]

\* The id of an order is its level's id and the time of the tick.
OrderId == [level: Levels, published_at: Stamps]

Status == {"Pending", "Submitted", "Filled", "Failed", "Quarantined"}
Order  == [status: Status, created_at: Nat]

ASSUME TriggerAssumption ==
  /\ Terms \subseteq [market: Markets, side: {"buy", "sell"}, trigger: Int]
  /\ Prices \subseteq Int /\ Stamps \subseteq Int
  /\ NoLevel \notin Terms /\ NoOrder \notin Order
  /\ NoTick \notin PriceTick /\ Nobody \notin Levels
  /\ Cooldown \in Nat /\ PreflightRetry \in Nat
  /\ MaxAge \in Nat /\ Skew \in Nat
  /\ TickChannel \in Nat \ {0} /\ MaxNow \in Nat

VARIABLES
  levels, orders,         \* the two tables
  queue,                  \* ticks on their way from the feeds
  phase, tick, at,        \* the loop: its place, the tick in hand, when it was taken up
  seenLevels, seenOrders, \* the copies of the tables it decides on
  fired, cur,             \* levels still to be handled, the one being quoted
  quiet,                  \* RuntimeStatus.quiet_until, 0 where there is no entry
  now

tables   == <<levels, orders>>
loopVars == <<phase, tick, at, seenLevels, seenOrders, fired, cur>>
vars     == <<tables, queue, loopVars, quiet, now>>

-----------------------------------------------------------------------------
(* Decisions, on any copy of the orders table.                             *)

OrdersOf(table, l) ==
  {id \in OrderId : id.level = l /\ table[id] # NoOrder}

\* Mutant: only an open order spends its level.
OpenSpends(l, table) ==
  \E id \in OrdersOf(table, l) : table[id].status \in {"Pending", "Submitted"}

\* A non-failed order, filled and quarantined ones included, spends its level.
is_spent(l, table) ==
  \E id \in OrdersOf(table, l) : table[id].status # "Failed"

cooling_down(l, table, t) ==
  \E id \in OrdersOf(table, l) :
    table[id].status = "Failed" /\ t < table[id].created_at + Cooldown

level_fires(terms, price) ==
  IF terms.side = "buy" THEN price <= terms.trigger ELSE price >= terms.trigger

fired_levels(stored, table, t) ==
  {l \in Levels :
    /\ stored[l] # NoLevel
    /\ ~is_spent(l, table)
    /\ stored[l].market = t.market
    /\ level_fires(stored[l], t.price)}

is_quiet(l, t) == t < quiet[l]

\* What the dashboard says of a level.
level_state(l, table, t) ==
  LET statuses == {table[id].status : id \in OrdersOf(table, l)}
  IN IF "Quarantined" \in statuses THEN "Quarantined"
     ELSE IF statuses \cap {"Pending", "Submitted"} # {} THEN "Executing"
     ELSE IF "Filled" \in statuses THEN "Filled"
     ELSE IF is_quiet(l, t) \/ cooling_down(l, table, t) THEN "Cooldown"
     ELSE "Armed"

is_stale(t, time) ==
  time - t.published_at > MaxAge \/ time - t.published_at < -Skew

-----------------------------------------------------------------------------
NoLevels == [l \in Levels |-> NoLevel]
NoOrders == [id \in OrderId |-> NoOrder]
Silence  == [l \in Levels |-> 0]

Init ==
  /\ levels = NoLevels /\ orders = NoOrders
  /\ queue = <<>>
  /\ phase = "idle" /\ tick = NoTick /\ at = 0
  /\ seenLevels = NoLevels /\ seenOrders = NoOrders
  /\ fired = {} /\ cur = Nobody
  /\ quiet = Silence /\ now = 0

\* The locals of handle_tick are gone.
GoIdle ==
  /\ phase' = "idle" /\ tick' = NoTick /\ at' = 0
  /\ seenLevels' = NoLevels /\ seenOrders' = NoOrders
  /\ fired' = {} /\ cur' = Nobody

\* Mutant: the queue does not push back.
FeedUnbounded(t) ==
  /\ ~is_stale(t, now)
  /\ queue' = Append(queue, t)
  /\ UNCHANGED <<tables, loopVars, quiet, now>>

\* A feed hands over a tick that passed its filter.  A source that reconnects
\* may publish a tick it has published before; a full queue makes it wait (the
\* tick it waits with is one that has not been fed yet).
Feed(t) ==
  /\ Len(queue) < TickChannel
  /\ ~is_stale(t, now)
  /\ queue' = Append(queue, t)
  /\ UNCHANGED <<tables, loopVars, quiet, now>>

\* recv, then the first await: list_levels.
ReceiveTick ==
  /\ phase = "idle" /\ queue # <<>>
  /\ phase' = "listing"
  /\ tick' = Head(queue) /\ queue' = Tail(queue)
  /\ seenLevels' = levels
  /\ UNCHANGED <<tables, at, seenOrders, fired, cur, quiet, now>>

\* The second: list_orders.  Then the clock is read and the levels chosen.
ListOrders ==
  /\ phase = "listing"
  /\ phase' = "firing"
  /\ seenOrders' = orders /\ at' = now
  /\ fired' = fired_levels(seenLevels, orders, tick)
  /\ UNCHANGED <<tables, queue, tick, seenLevels, cur, quiet, now>>

\* A tick that cannot be handled, or is done, is forgotten.
DropTick ==
  /\ phase = "listing" \/ (phase = "firing" /\ fired = {})
  /\ GoIdle
  /\ UNCHANGED <<tables, queue, quiet, now>>

\* Mutant: a rejected pre-flight does not quiet its level.
RestsAfterOrders(l) == cooling_down(l, seenOrders, at)

\* Persisted orders and rejected pre-flights use separate cooldowns.
Rests(l) == is_quiet(l, at) \/ cooling_down(l, seenOrders, at)

Skip(l) ==
  /\ phase = "firing" /\ l \in fired /\ Rests(l)
  /\ fired' = fired \ {l}
  /\ UNCHANGED <<tables, queue, phase, tick, at, seenLevels, seenOrders, cur, quiet, now>>

\* place_order asks the venue for a quote and waits.
Quote(l) ==
  /\ phase = "firing" /\ l \in fired /\ ~Rests(l)
  /\ phase' = "quoting" /\ cur' = l /\ fired' = fired \ {l}
  /\ UNCHANGED <<tables, queue, tick, at, seenLevels, seenOrders, quiet, now>>

\* The quote agrees with the price: the order is upserted.  A row that is
\* there already is overwritten, except for the time it was created.
PlaceOrder ==
  LET id == [level |-> cur, published_at |-> tick.published_at]
  IN /\ phase = "quoting"
     /\ levels[cur] # NoLevel       \* orders.level_id REFERENCES levels(id)
     /\ orders' = [orders EXCEPT ![id] =
          [status     |-> "Pending",
           created_at |-> IF orders[id] = NoOrder THEN at ELSE orders[id].created_at]]
     /\ quiet' = [quiet EXCEPT ![cur] = 0]
     /\ phase' = "firing" /\ cur' = Nobody
     /\ UNCHANGED <<levels, queue, tick, at, seenLevels, seenOrders, fired, now>>

\* The quote fails or disagrees with the price, or the upsert is refused.
Reject ==
  /\ phase = "quoting"
  /\ quiet' = [quiet EXCEPT ![cur] = at + PreflightRetry]
  /\ phase' = "firing" /\ cur' = Nobody
  /\ UNCHANGED <<tables, queue, tick, at, seenLevels, seenOrders, fired, now>>

-----------------------------------------------------------------------------
(* The rest of the daemon and its surroundings.                            *)

\* The executor and the operator, as far as the orders table tells.
Moved(from) ==
  IF from = "Pending" THEN {"Submitted", "Failed", "Quarantined"}
  ELSE IF from = "Submitted" THEN {"Pending", "Filled", "Failed"}
  ELSE IF from = "Quarantined" THEN {"Failed"}
  ELSE {}

Execute(id) ==
  /\ orders[id] # NoOrder
  /\ \E to \in Moved(orders[id].status) : orders' = [orders EXCEPT ![id].status = to]
  /\ UNCHANGED <<levels, queue, loopVars, quiet, now>>

\* set_level stores a level or replaces one.
SetLevel(l, terms) ==
  /\ levels' = [levels EXCEPT ![l] = terms]
  /\ UNCHANGED <<orders, queue, loopVars, quiet, now>>

\* Mutant: the table is not protected by its foreign key.
DeleteAnyway(l) ==
  /\ levels' = [levels EXCEPT ![l] = NoLevel]
  /\ UNCHANGED <<orders, queue, loopVars, quiet, now>>

\* delete_level is refused while an order refers to the level.
DeleteLevel(l) ==
  /\ OrdersOf(orders, l) = {}
  /\ levels' = [levels EXCEPT ![l] = NoLevel]
  /\ UNCHANGED <<orders, queue, loopVars, quiet, now>>

\* The daemon dies and starts again: the tables are all it keeps.
Restart ==
  /\ queue' = <<>> /\ GoIdle /\ quiet' = Silence
  /\ UNCHANGED <<tables, now>>

Pass ==
  /\ now < MaxNow /\ now' = now + 1
  /\ UNCHANGED <<tables, queue, loopVars, quiet>>

Next ==
  \/ \E t \in PriceTick : Feed(t)
  \/ ReceiveTick \/ ListOrders \/ DropTick \/ PlaceOrder \/ Reject
  \/ \E l \in Levels : Skip(l) \/ Quote(l) \/ DeleteLevel(l)
                       \/ \E terms \in Terms : SetLevel(l, terms)
  \/ \E id \in OrderId : Execute(id)
  \/ Restart \/ Pass

Spec == Init /\ [][Next]_vars

-----------------------------------------------------------------------------
TypeOK ==
  /\ levels \in [Levels -> Terms \cup {NoLevel}]
  /\ orders \in [OrderId -> Order \cup {NoOrder}]
  /\ queue \in Seq(PriceTick) /\ Len(queue) <= TickChannel
  /\ phase \in {"idle", "listing", "firing", "quoting"}
  /\ tick \in PriceTick \cup {NoTick} /\ (phase # "idle" => tick # NoTick)
  /\ at \in Nat /\ now \in Nat /\ at <= now
  /\ seenLevels \in [Levels -> Terms \cup {NoLevel}]
  /\ seenOrders \in [OrderId -> Order \cup {NoOrder}]
  /\ fired \in SUBSET Levels
  /\ cur \in Levels \cup {Nobody} /\ (phase = "quoting" => cur # Nobody)
  /\ quiet \in [Levels -> Nat]

\* However long a quote takes and whatever happens meanwhile, a level never
\* has two orders that are open, filled or quarantined at once (fired_levels
\* decides on a copy, the upsert does not look again).
OneLiveOrderPerLevel ==
  \A i, j \in OrderId :
    /\ i.level = j.level
    /\ orders[i] # NoOrder /\ orders[i].status # "Failed"
    /\ orders[j] # NoOrder /\ orders[j].status # "Failed"
    => i = j

\* An order is never left without its level: one deleted while its quote was
\* on the way gets no order, one that has an order cannot be deleted.
OrdersKeepTheirLevel ==
  \A id \in OrderId : orders[id] # NoOrder => levels[id.level] # NoLevel

\* A level takes up a new order only at a moment when the dashboard, reading
\* the tables as they are now, would show it armed.
ArmedWhenPlaced ==
  [][\A l \in Levels :
       ~is_spent(l, orders) /\ is_spent(l, orders') => level_state(l, orders, now) = "Armed"]_vars

\* "A deterministic ID makes tick replays idempotent" (place_order, run.rs):
\* placing again an order that exists leaves it as it is.
ReplaysChangeNothing ==
  [][\A id \in OrderId :
       orders[id] # NoOrder /\ orders[id].status = "Failed" => orders'[id] = orders[id]]_vars

-----------------------------------------------------------------------------
(* The inductive invariant behind the properties above.                    *)

\* Levels this tick may still place an order for.
Undecided == fired \cup IF phase = "quoting" THEN {cur} ELSE {}

\* Nobody but this loop gives an unspent level an order, so what was read of
\* an undecided level still stands.
CopiesHold ==
  \A l \in Undecided :
    /\ ~is_spent(l, orders)
    /\ \A id \in OrderId : id.level = l => orders[id] = seenOrders[id]

LoopOK ==
  /\ phase \in {"idle", "listing"} => fired = {}
  /\ phase = "quoting" => cur \notin fired /\ ~Rests(cur)

IInv ==
  /\ TypeOK /\ LoopOK /\ CopiesHold
  /\ OneLiveOrderPerLevel /\ OrdersKeepTheirLevel
=============================================================================
