------------------------------ MODULE PriceFeed ------------------------------
(***************************************************************************)
(* Prices on their way to the trigger loop.  A producer                    *)
(* (trigger/src/prices.rs) reads the levels now and then and keeps one     *)
(* task, a pump, for every pair some level needs.  A pump takes what the   *)
(* source (price-dexpaprika) yields and the filter (price/src/filtered.rs) *)
(* lets pass, reports it to the feed table (trigger/src/runtime.rs) and    *)
(* puts it into the queue, where it waits while the queue is full.         *)
(*                                                                         *)
(* Tasks run on several threads: an abort stops a pump at its next         *)
(* suspension, not before.  The filter's state belongs to the stream and   *)
(* hence to the pump.  Price 0 stands for all that is not a positive       *)
(* finite number; a tick's age is a flag.                                  *)
(***************************************************************************)
EXTENDS Integers, Sequences

CONSTANTS
  Pairs,
  Slots,          \* names for the tasks of one pair: a task that ended gives its own back
  Prices,
  max_move_bps,
  QueueBound,     \* TICK_CHANNEL
  NoTask, NoPrice

ASSUME PriceFeedAssumption ==
  /\ Prices \subseteq Nat /\ max_move_bps \in Nat /\ QueueBound \in Nat \ {0}
  /\ NoTask \notin Slots /\ NoPrice \notin Nat

VARIABLES
  needed,         \* pairs of the levels stored by the admin tools
  wanted,         \* the producer's copy, while it reconciles
  reconciling,
  tasks,          \* the producer's handles
  pump, aborted,  \* the tasks and those told to stop
  feeds,          \* the feed table
  queue

vars == <<needed, wanted, reconciling, tasks, pump, aborted, feeds, queue>>
producer == <<wanted, reconciling, tasks>>

Ids == Pairs \X Slots

-----------------------------------------------------------------------------
(* The filter.                                                             *)

is_implausible(prev, next) ==
  \/ prev <= 0 \/ next <= 0
  \/ (IF next > prev THEN next - prev ELSE prev - next) * 10000 > max_move_bps * prev

\* What the filter remembers and whether it lets the quote pass.
\* Mutant: a rejected quote becomes the new baseline.
keep_poisoned(previous, price, fresh) ==
  LET passes == fresh /\ (previous # NoPrice => ~is_implausible(previous, price))
  IN [passes |-> passes, previous |-> IF fresh THEN price ELSE previous]

keep(previous, price, fresh) ==
  LET passes == fresh /\ (previous # NoPrice => ~is_implausible(previous, price))
  IN [passes |-> passes, previous |-> IF passes THEN price ELSE previous]

-----------------------------------------------------------------------------
(* The feed table.                                                         *)

NoFeed == [phase |-> "absent", last |-> NoPrice]

\* connecting, error and end keep the last tick.
Shows(p, phase) == feeds' = [feeds EXCEPT ![p] = [phase |-> phase, last |-> @.last]]

feed_tick(p, price) == feeds' = [feeds EXCEPT ![p] = [phase |-> "tick", last |-> price]]

-----------------------------------------------------------------------------
Fresh == [stage |-> "spawned", previous |-> NoPrice]
Over  == [stage |-> "over", previous |-> NoPrice]

Init ==
  /\ needed \in SUBSET Pairs /\ wanted = {} /\ reconciling = FALSE
  /\ tasks = [p \in Pairs |-> NoTask]
  /\ pump = [i \in Ids |-> Over] /\ aborted = {}
  /\ feeds = [p \in Pairs |-> NoFeed]
  /\ queue = <<>>

\* A level is stored or deleted.
Author ==
  /\ needed' \in SUBSET Pairs
  /\ UNCHANGED <<producer, pump, aborted, feeds, queue>>

-----------------------------------------------------------------------------
(* The producer.                                                           *)

\* Suspended, a task that was told to stop is gone; running, it goes on.
Suspended == {"spawned", "idle", "blocked", "over"}
Running   == {"running", "got", "send"}

\* reconcile_every is long enough for every task to be polled in between.
ListLevels ==
  /\ ~reconciling /\ aborted = {}
  /\ wanted' = needed /\ reconciling' = TRUE
  /\ UNCHANGED <<needed, tasks, pump, aborted, feeds, queue>>

Has(p)         == tasks[p] # NoTask
is_finished(p) == pump[<<p, tasks[p]>>].stage = "over"

\* What retain drops, stops and leaves to be started again.
Unwanted == {p \in Pairs : Has(p) /\ p \notin wanted}

\* Mutant: a handle is dropped and its task lives on.
NoneStopped == {}

Stopped == {<<p, tasks[p]>> : p \in Unwanted}

\* Mutant: the handle of a task that has ended is kept.
NeverStarted == {p \in wanted : ~Has(p)}

Vacant == {p \in wanted : Has(p) => is_finished(p)}

Reconcile ==
  /\ reconciling /\ reconciling' = FALSE
  /\ \E slot \in [Vacant -> Slots] :
       LET new == {<<p, slot[p]>> : p \in Vacant}
       IN /\ \A i \in new : pump[i].stage = "over"
          /\ tasks' = [p \in Pairs |-> IF p \in Vacant THEN slot[p]
                                       ELSE IF p \in Unwanted THEN NoTask ELSE tasks[p]]
          /\ pump' = [i \in Ids |->
               IF i \in new THEN Fresh
               ELSE IF i \in Stopped /\ pump[i].stage \in Suspended THEN Over
               ELSE pump[i]]
  /\ aborted' = {i \in Stopped : pump[i].stage \in Running}
  /\ feeds' = [p \in Pairs |-> IF p \in Unwanted THEN NoFeed ELSE feeds[p]]
  /\ UNCHANGED <<needed, wanted, queue>>

-----------------------------------------------------------------------------
(* A pump, from one suspension to the next.                                *)

Goes(i, stage) ==
  /\ pump' = [pump EXCEPT ![i] = [stage |-> stage, previous |-> @.previous]]
  /\ UNCHANGED aborted

Ends(i) == pump' = [pump EXCEPT ![i] = Over] /\ aborted' = aborted \ {i}

\* Where it waits, a task that was told to stop ends.
Waits(i, stage) == IF i \in aborted THEN Ends(i) ELSE Goes(i, stage)

Start(i) ==
  /\ pump[i].stage = "spawned"
  /\ Shows(i[1], "connecting") /\ Goes(i, "running")
  /\ UNCHANGED <<needed, producer, queue>>

\* Nothing new: wait for the stream.
Wait(i) ==
  /\ pump[i].stage = "running"
  /\ Waits(i, "idle")
  /\ UNCHANGED <<needed, producer, feeds, queue>>

\* A frame about the pair, and what the filter makes of it.
Quote(i, price, fresh) ==
  LET kept == keep(pump[i].previous, price, fresh)
  IN /\ pump[i].stage \in {"running", "idle"}
     /\ pump' = [pump EXCEPT ![i] = [stage |-> IF kept.passes THEN "got" ELSE "running",
                                     previous |-> kept.previous]]
     /\ UNCHANGED <<needed, producer, aborted, feeds, queue>>

\* The connection fails; the source tries again by itself.
SourceError(i) ==
  /\ pump[i].stage \in {"running", "idle"}
  /\ Shows(i[1], "degraded") /\ Goes(i, "running")
  /\ UNCHANGED <<needed, producer, queue>>

\* A source may end, for a chain it does not know.
SourceEnds(i) ==
  /\ pump[i].stage \in {"running", "idle"}
  /\ Shows(i[1], "ended") /\ Ends(i)
  /\ UNCHANGED <<needed, producer, queue>>

\* Mutant: the tick is queued before it is reported.
ReportLater(i) ==
  /\ pump[i].stage = "got"
  /\ Goes(i, "send")
  /\ UNCHANGED <<needed, producer, feeds, queue>>

Report(i) ==
  /\ pump[i].stage = "got"
  /\ feed_tick(i[1], pump[i].previous) /\ Goes(i, "send")
  /\ UNCHANGED <<needed, producer, queue>>

\* Mutant: nobody waits for room.
SendAtOnce(i) ==
  /\ pump[i].stage = "send"
  /\ queue' = Append(queue, [pair |-> i[1], price |-> pump[i].previous])
  /\ Goes(i, "running")
  /\ UNCHANGED <<needed, producer, feeds>>

Send(i) ==
  /\ pump[i].stage \in {"send", "blocked"}
  /\ Len(queue) < QueueBound
  /\ queue' = Append(queue, [pair |-> i[1], price |-> pump[i].previous])
  /\ Goes(i, "running")
  /\ UNCHANGED <<needed, producer, feeds>>

\* A full queue makes the feed wait.
Block(i) ==
  /\ pump[i].stage = "send"
  /\ Len(queue) >= QueueBound
  /\ Waits(i, "blocked")
  /\ UNCHANGED <<needed, producer, feeds, queue>>

-----------------------------------------------------------------------------
\* The trigger loop takes a tick.
Take ==
  /\ queue # <<>> /\ queue' = Tail(queue)
  /\ UNCHANGED <<needed, producer, pump, aborted, feeds>>

Pump(i) ==
  \/ Start(i) \/ Wait(i) \/ Report(i) \/ Send(i) \/ Block(i)
  \/ SourceError(i) \/ SourceEnds(i)
  \/ \E price \in Prices, fresh \in BOOLEAN : Quote(i, price, fresh)

Next ==
  \/ Author \/ ListLevels \/ Reconcile \/ Take
  \/ \E i \in Ids : Pump(i)

Spec == Init /\ [][Next]_vars

(* Every task is polled, and tokio's budget makes one that always finds       *)
(* something to do wait now and then.                                        *)
Fairness ==
  /\ WF_vars(ListLevels) /\ WF_vars(Reconcile)
  /\ \A i \in Ids :
       /\ WF_vars(Start(i)) /\ WF_vars(Report(i)) /\ WF_vars(Send(i) \/ Block(i))
       /\ SF_vars(Wait(i))

LiveSpec == Spec /\ Fairness

-----------------------------------------------------------------------------
Stages == Suspended \cup Running
Phases == {"absent", "connecting", "tick", "degraded", "ended"}

TypeOK ==
  /\ needed \subseteq Pairs /\ wanted \subseteq Pairs /\ reconciling \in BOOLEAN
  /\ tasks \in [Pairs -> Slots \cup {NoTask}]
  /\ pump \in [Ids -> [stage: Stages, previous: Prices \cup {NoPrice}]]
  /\ aborted \subseteq Ids
  /\ feeds \in [Pairs -> [phase: Phases, last: Prices \cup {NoPrice}]]
  /\ queue \in Seq([pair: Pairs, price: Prices]) /\ Len(queue) <= QueueBound

\* "Keeps one shared subscription per active price pair": no two tasks of a
\* pair run at once, however aborts, endings and new levels interleave.
OneSubscription ==
  \A i, j \in Ids :
    i[1] = j[1] /\ pump[i].stage # "over" /\ pump[j].stage # "over" => i = j

\* The feed table shows what the pump of a pair does, though others, stopped
\* or ended, wrote to the same row: an end as an end, a running feed as one, a
\* tick that waits for room in the queue as the last tick.
FeedsShowTheirPump ==
  \A p \in Pairs : Has(p) =>
    LET mine == pump[<<p, tasks[p]>>]
    IN /\ mine.stage = "over" => feeds[p].phase = "ended"
       /\ mine.stage \notin {"over", "spawned"} =>
            feeds[p].phase \in {"connecting", "tick", "degraded"}
       /\ mine.stage \in {"send", "blocked"} =>
            feeds[p].phase = "tick" /\ feeds[p].last = mine.previous

\* While a feed runs without trouble, the prices it shows and trades on move
\* no further than the filter allows, whatever was rejected in between.
ShownMovesArePlausible ==
  [][\A p \in Pairs :
       feeds[p].phase = "tick" /\ feeds'[p].phase = "tick" /\ feeds'[p] # feeds[p]
       => ~is_implausible(feeds[p].last, feeds'[p].last)]_vars

\* "The subscription will be retried": a pair that stays needed gets a task
\* again and again, however often its source ends.
NeededIsWatched ==
  \A p \in Pairs : <>[](p \in needed) => []<>(Has(p) /\ ~is_finished(p))

\* "Rejects excessive moves and invalid values" (gates.rs), "drops stale or
\* implausible quotes" (filtered.rs): no invalid price is traded on.
QuotesAreValid == \A k \in 1..Len(queue) : queue[k].price > 0

-----------------------------------------------------------------------------
(* The inductive invariant behind the properties above.                    *)

\* A task that is not over has a handle or was told to stop; of a pair, one.
HandlesOK ==
  /\ \A i \in Ids : pump[i].stage # "over" => tasks[i[1]] = i[2] \/ i \in aborted
  /\ \A i \in aborted : pump[i].stage \in Running /\ tasks[i[1]] = NoTask
  /\ \A i, j \in aborted : i[1] = j[1] => i = j
  /\ reconciling => aborted = {}

\* The price a feed shows is what the filter of the pump behind it remembers.
BaselinesOK ==
  /\ \A i \in Ids : pump[i].stage \in {"got", "send", "blocked"} => pump[i].previous # NoPrice
  /\ \A p \in Pairs : feeds[p].phase = "tick" => feeds[p].last # NoPrice
  /\ \A i \in Ids : feeds[i[1]].phase = "tick" =>
       /\ pump[i].stage \in {"running", "idle", "send", "blocked"} =>
            feeds[i[1]].last = pump[i].previous
       /\ pump[i].stage = "got" => ~is_implausible(feeds[i[1]].last, pump[i].previous)

IInv == TypeOK /\ HandlesOK /\ FeedsShowTheirPump /\ BaselinesOK
=============================================================================
