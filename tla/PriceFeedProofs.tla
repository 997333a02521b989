--------------------------- MODULE PriceFeedProofs ---------------------------
(***************************************************************************)
(* Proofs about PriceFeed, for any number of pairs, any prices, any limit  *)
(* on moves and any queue.                                                 *)
(***************************************************************************)
EXTENDS PriceFeed, TLAPS

-----------------------------------------------------------------------------
(* Types.                                                                  *)

LEMMA IdParts ==
  /\ \A i \in Ids : i[1] \in Pairs /\ i[2] \in Slots /\ i = <<i[1], i[2]>>
  /\ \A p \in Pairs, s \in Slots : <<p, s>> \in Ids /\ <<p, s>>[1] = p /\ <<p, s>>[2] = s
BY DEF Ids

LEMMA TaskId ==
  ASSUME TypeOK, NEW p \in Pairs, Has(p)
  PROVE  <<p, tasks[p]>> \in Ids /\ tasks[p] \in Slots
BY DEF TypeOK, Has, Ids

LEMMA Kept ==
  ASSUME NEW previous \in Prices \cup {NoPrice}, NEW price \in Prices, NEW fresh \in BOOLEAN
  PROVE  LET kept == keep(previous, price, fresh)
         IN /\ kept.passes \in BOOLEAN /\ kept.previous \in Prices \cup {NoPrice}
            /\ kept.passes => kept.previous = price
            /\ kept.passes /\ previous # NoPrice => ~is_implausible(previous, price)
            /\ ~kept.passes => kept.previous = previous
BY DEF keep

LEMMA QueueTypes ==
  ASSUME TypeOK
  PROVE  /\ Len(queue) \in Nat
         /\ \A e \in [pair: Pairs, price: Prices] :
              /\ Append(queue, e) \in Seq([pair: Pairs, price: Prices])
              /\ Len(Append(queue, e)) = Len(queue) + 1
         /\ queue # <<>> => /\ Tail(queue) \in Seq([pair: Pairs, price: Prices])
                            /\ Len(Tail(queue)) = Len(queue) - 1
BY DEF TypeOK

LEMMA TypesOfReconcile ==
  ASSUME TypeOK, Reconcile
  PROVE  TypeOK'
<1>1. tasks' \in [Pairs -> Slots \cup {NoTask}]
  BY DEF TypeOK, Reconcile
<1>2. pump' \in [Ids -> [stage: Stages, previous: Prices \cup {NoPrice}]]
  BY DEF TypeOK, Reconcile, Fresh, Over, Stages, Suspended
<1>3. aborted' \subseteq Ids
  BY TaskId DEF Reconcile, Stopped, Unwanted
<1>4. feeds' \in [Pairs -> [phase: Phases, last: Prices \cup {NoPrice}]]
  BY DEF TypeOK, Reconcile, NoFeed, Phases
<1> QED
  BY <1>1, <1>2, <1>3, <1>4 DEF TypeOK, Reconcile

LEMMA TypesOfPump ==
  ASSUME IInv, NEW i \in Ids, Pump(i)
  PROVE  TypeOK'
<1> USE IdParts DEF IInv
<1>0. pump[i].previous \in Prices \cup {NoPrice}
  BY DEF TypeOK
<1>1. CASE Start(i)
  BY <1>1 DEF Start, TypeOK, Shows, Goes, Stages, Running, Phases, producer
<1>2. CASE Wait(i)
  BY <1>2 DEF Wait, TypeOK, Waits, Ends, Goes, Over, Stages, Suspended, producer
<1>3. CASE Report(i)
  <2>1. pump[i].previous \in Prices
    BY <1>0, <1>3 DEF Report, BaselinesOK
  <2> QED
    BY <1>3, <2>1 DEF Report, TypeOK, feed_tick, Goes, Stages, Running, Phases, producer
<1>4. CASE Send(i)
  <2>1. pump[i].previous \in Prices
    BY <1>0, <1>4 DEF Send, BaselinesOK
  <2>2. [pair |-> i[1], price |-> pump[i].previous] \in [pair: Pairs, price: Prices]
    BY <2>1
  <2>3. queue' \in Seq([pair: Pairs, price: Prices]) /\ Len(queue') <= QueueBound
    BY <1>4, <2>2, QueueTypes, PriceFeedAssumption DEF Send
  <2> QED
    BY <1>4, <2>3 DEF Send, TypeOK, Goes, Stages, Running, producer
<1>5. CASE Block(i)
  BY <1>5 DEF Block, TypeOK, Waits, Ends, Goes, Over, Stages, Suspended, producer
<1>6. CASE SourceError(i)
  BY <1>6 DEF SourceError, TypeOK, Shows, Goes, Stages, Running, Phases, producer
<1>7. CASE SourceEnds(i)
  BY <1>7 DEF SourceEnds, TypeOK, Shows, Ends, Over, Stages, Suspended, Phases, producer
<1>8. ASSUME NEW price \in Prices, NEW fresh \in BOOLEAN, Quote(i, price, fresh)
      PROVE  TypeOK'
  <2> DEFINE kept == keep(pump[i].previous, price, fresh)
  <2>1. kept.passes \in BOOLEAN /\ kept.previous \in Prices \cup {NoPrice}
    BY <1>0, Kept
  <2>2. pump' = [pump EXCEPT ![i] = [stage |-> IF kept.passes THEN "got" ELSE "running",
                                     previous |-> kept.previous]]
    BY <1>8 DEF Quote
  <2> HIDE DEF kept
  <2>3. pump' \in [Ids -> [stage: Stages, previous: Prices \cup {NoPrice}]]
    BY <2>1, <2>2 DEF TypeOK, Stages, Running
  <2> QED
    BY <1>8, <2>3 DEF Quote, TypeOK, producer
<1> QED
  BY <1>1, <1>2, <1>3, <1>4, <1>5, <1>6, <1>7, <1>8 DEF Pump

LEMMA Types ==
  ASSUME IInv, [Next]_vars
  PROVE  TypeOK'
<1>1. CASE Author
  BY <1>1 DEF IInv, Author, TypeOK, producer
<1>2. CASE ListLevels
  BY <1>2 DEF IInv, ListLevels, TypeOK
<1>3. CASE Reconcile
  BY <1>3, TypesOfReconcile DEF IInv
<1>4. CASE Take
  BY <1>4, QueueTypes, PriceFeedAssumption DEF IInv, Take, TypeOK, producer
<1>5. ASSUME NEW i \in Ids, Pump(i)
      PROVE  TypeOK'
  BY <1>5, TypesOfPump
<1>6. CASE UNCHANGED vars
  BY <1>6 DEF IInv, vars, TypeOK
<1> QED
  BY <1>1, <1>2, <1>3, <1>4, <1>5, <1>6 DEF Next

-----------------------------------------------------------------------------
(* One task for each pair.                                                 *)

LEMMA Single ==
  ASSUME TypeOK, HandlesOK
  PROVE  OneSubscription
<1> SUFFICES ASSUME NEW i \in Ids, NEW j \in Ids, i[1] = j[1],
                    pump[i].stage # "over", pump[j].stage # "over"
             PROVE  i = j
  BY DEF OneSubscription
<1>1. tasks[i[1]] = i[2] \/ i \in aborted
  BY DEF HandlesOK
<1>2. tasks[i[1]] = j[2] \/ j \in aborted
  BY DEF HandlesOK
<1>3. i \in aborted \/ j \in aborted => tasks[i[1]] = NoTask
  BY DEF HandlesOK
<1>4. i[2] # NoTask /\ j[2] # NoTask
  BY IdParts, PriceFeedAssumption
<1>5. CASE i \in aborted
  BY <1>2, <1>3, <1>4, <1>5 DEF HandlesOK
<1>6. CASE i \notin aborted
  BY <1>1, <1>2, <1>3, <1>4, <1>6, IdParts
<1> QED
  BY <1>5, <1>6

\* A pump that runs and was not told to stop is the one with the handle.
LEMMA Handle ==
  ASSUME TypeOK, HandlesOK, NEW i \in Ids, pump[i].stage # "over"
  PROVE  Has(i[1]) => tasks[i[1]] = i[2]
BY DEF HandlesOK, Has

-----------------------------------------------------------------------------
(* What a step of a pump does to itself and to its row of the feed table.  *)

Becomes(i, stage) ==
  pump'[i].stage = stage /\ pump'[i].previous = pump[i].previous

Ended(i) == pump'[i].stage = "over" /\ aborted' = aborted \ {i}

RowIs(i, phase, last) == feeds'[i[1]].phase = phase /\ feeds'[i[1]].last = last

PumpDoes(i) ==
  \/ Ended(i) /\ RowIs(i, "ended", feeds[i[1]].last)
  \/ Ended(i) /\ feeds'[i[1]] = feeds[i[1]] /\ i \in aborted
  \/ /\ Becomes(i, "running") /\ aborted' = aborted
     /\ \/ RowIs(i, "connecting", feeds[i[1]].last)
        \/ RowIs(i, "degraded", feeds[i[1]].last)
  \/ /\ pump[i].stage \in {"running", "idle"} /\ Becomes(i, "running")
     /\ feeds'[i[1]] = feeds[i[1]] /\ aborted' = aborted
  \/ /\ pump[i].stage \in {"running", "idle"}
     /\ pump'[i].stage = "got" /\ pump'[i].previous \in Prices
     /\ pump[i].previous # NoPrice => ~is_implausible(pump[i].previous, pump'[i].previous)
     /\ feeds'[i[1]] = feeds[i[1]] /\ aborted' = aborted
  \/ /\ pump[i].stage = "got" /\ Becomes(i, "send") /\ aborted' = aborted
     /\ RowIs(i, "tick", pump[i].previous)
  \/ /\ pump[i].stage \in {"send", "blocked"} /\ Becomes(i, "running")
     /\ feeds'[i[1]] = feeds[i[1]] /\ aborted' = aborted
  \/ /\ pump[i].stage = "running" /\ Becomes(i, "idle")
     /\ feeds'[i[1]] = feeds[i[1]] /\ aborted' = aborted /\ i \notin aborted
  \/ /\ pump[i].stage = "send" /\ Becomes(i, "blocked")
     /\ feeds'[i[1]] = feeds[i[1]] /\ aborted' = aborted /\ i \notin aborted

LEMMA PumpStep ==
  ASSUME TypeOK, NEW i \in Ids, Pump(i)
  PROVE  /\ UNCHANGED producer
         /\ pump[i].stage # "over"
         /\ \A j \in Ids : j # i => pump'[j] = pump[j]
         /\ \A p \in Pairs : p # i[1] => feeds'[p] = feeds[p]
         /\ PumpDoes(i)
<1> USE IdParts DEF TypeOK
<1>1. CASE Start(i)
  BY <1>1 DEF Start, Shows, Goes, PumpDoes, Becomes, Ended, RowIs, Over
<1>2. CASE Wait(i)
  BY <1>2 DEF Wait, Waits, Ends, Goes, PumpDoes, Becomes, Ended, RowIs, Over
<1>3. CASE Report(i)
  BY <1>3 DEF Report, feed_tick, Goes, PumpDoes, Becomes, Ended, RowIs, Over
<1>4. CASE Send(i)
  BY <1>4 DEF Send, Goes, PumpDoes, Becomes, Ended, RowIs, Over
<1>5. CASE Block(i)
  BY <1>5 DEF Block, Waits, Ends, Goes, PumpDoes, Becomes, Ended, RowIs, Over
<1>6. CASE SourceError(i)
  BY <1>6 DEF SourceError, Shows, Goes, PumpDoes, Becomes, Ended, RowIs, Over
<1>7. CASE SourceEnds(i)
  BY <1>7 DEF SourceEnds, Shows, Ends, PumpDoes, Becomes, Ended, RowIs, Over
<1>8. ASSUME NEW price \in Prices, NEW fresh \in BOOLEAN, Quote(i, price, fresh)
      PROVE  /\ UNCHANGED producer /\ pump[i].stage # "over"
             /\ \A j \in Ids : j # i => pump'[j] = pump[j]
             /\ \A p \in Pairs : p # i[1] => feeds'[p] = feeds[p]
             /\ PumpDoes(i)
  <2> DEFINE kept == keep(pump[i].previous, price, fresh)
  <2>1. /\ kept.passes \in BOOLEAN
        /\ kept.passes => kept.previous = price
        /\ kept.passes /\ pump[i].previous # NoPrice
             => ~is_implausible(pump[i].previous, price)
        /\ ~kept.passes => kept.previous = pump[i].previous
    <3>1. pump[i].previous \in Prices \cup {NoPrice}
      OBVIOUS
    <3> HIDE DEF TypeOK
    <3> QED
      BY <3>1 DEF keep
  <2>2. /\ pump' = [pump EXCEPT ![i] = [stage |-> IF kept.passes THEN "got" ELSE "running",
                                        previous |-> kept.previous]]
        /\ pump[i].stage \in {"running", "idle"}
        /\ UNCHANGED <<needed, producer, aborted, feeds, queue>>
    BY <1>8 DEF Quote
  <2> HIDE DEF kept
  <2>3. PumpDoes(i)
    BY <2>1, <2>2 DEF PumpDoes, Becomes, Ended, RowIs, Over
  <2> QED
    BY <2>2, <2>3 DEF producer
<1> QED
  BY <1>1, <1>2, <1>3, <1>4, <1>5, <1>6, <1>7, <1>8 DEF Pump

-----------------------------------------------------------------------------
(* The parts of the invariant, for a step of a pump.                       *)

LEMMA HandlesOfPump ==
  ASSUME IInv, NEW i \in Ids, Pump(i)
  PROVE  HandlesOK'
<1> USE DEF IInv
<1>1. /\ UNCHANGED producer /\ pump[i].stage # "over"
      /\ \A j \in Ids : j # i => pump'[j] = pump[j]
      /\ PumpDoes(i)
  BY PumpStep
<1>2. \/ aborted' = aborted
      \/ pump'[i].stage = "over" /\ aborted' = aborted \ {i}
  BY <1>1 DEF PumpDoes, Becomes, Ended
<1>3. i \in aborted' => pump'[i].stage \in Running
  BY <1>1 DEF PumpDoes, Becomes, Ended, HandlesOK, Running
<1>4. pump'[i].stage # "over" => tasks[i[1]] = i[2] \/ i \in aborted'
  BY <1>1, <1>2 DEF HandlesOK
<1>5. aborted \subseteq Ids
  BY DEF TypeOK
<1> QED
  BY <1>1, <1>2, <1>3, <1>4, <1>5 DEF HandlesOK, producer

LEMMA FeedsOfPump ==
  ASSUME IInv, NEW i \in Ids, Pump(i)
  PROVE  FeedsShowTheirPump'
<1> USE DEF IInv
<1>1. /\ UNCHANGED producer /\ pump[i].stage # "over"
      /\ \A j \in Ids : j # i => pump'[j] = pump[j]
      /\ \A p \in Pairs : p # i[1] => feeds'[p] = feeds[p]
      /\ PumpDoes(i)
  BY PumpStep
<1> SUFFICES ASSUME NEW p \in Pairs, Has(p)'
             PROVE  LET mine == pump'[<<p, tasks[p]>>]
                    IN /\ mine.stage = "over" => feeds'[p].phase = "ended"
                       /\ mine.stage \notin {"over", "spawned"} =>
                            feeds'[p].phase \in {"connecting", "tick", "degraded"}
                       /\ mine.stage \in {"send", "blocked"} =>
                            feeds'[p].phase = "tick" /\ feeds'[p].last = mine.previous
  BY <1>1 DEF FeedsShowTheirPump, producer
<1>2. Has(p) /\ <<p, tasks[p]>> \in Ids
  BY <1>1, TaskId DEF Has, producer
<1>3. CASE p # i[1]
  <2>1. <<p, tasks[p]>> # i
    BY <1>2, <1>3, IdParts
  <2> QED
    BY <1>1, <1>2, <1>3, <2>1 DEF FeedsShowTheirPump
<1>4. CASE p = i[1]
  <2>1. i = <<p, tasks[p]>> /\ i \notin aborted
    BY <1>1, <1>2, <1>4, Handle, IdParts DEF HandlesOK, Has
  <2>2. /\ pump[i].stage \notin {"over", "spawned"} =>
             feeds[p].phase \in {"connecting", "tick", "degraded"}
        /\ pump[i].stage \in {"send", "blocked"} =>
             feeds[p].phase = "tick" /\ feeds[p].last = pump[i].previous
    BY <1>2, <2>1 DEF FeedsShowTheirPump
  <2>3. feeds[p] \in [phase: Phases, last: Prices \cup {NoPrice}]
    BY DEF TypeOK
  <2> HIDE DEF IInv
  <2> QED
    BY <1>1, <1>4, <2>1, <2>2, <2>3 DEF PumpDoes, Becomes, Ended, RowIs
<1> QED
  BY <1>3, <1>4

LEMMA BaselinesOfPump ==
  ASSUME IInv, NEW i \in Ids, Pump(i)
  PROVE  BaselinesOK'
<1> USE DEF IInv
<1>1. /\ pump[i].stage # "over"
      /\ \A j \in Ids : j # i => pump'[j] = pump[j]
      /\ \A p \in Pairs : p # i[1] => feeds'[p] = feeds[p]
      /\ PumpDoes(i)
  BY PumpStep
<1>2. feeds[i[1]] \in [phase: Phases, last: Prices \cup {NoPrice}]
  BY IdParts DEF TypeOK
<1>3. /\ pump[i].stage \in {"got", "send", "blocked"} => pump[i].previous # NoPrice
      /\ feeds[i[1]].phase = "tick" => feeds[i[1]].last # NoPrice
      /\ feeds[i[1]].phase = "tick" =>
           /\ pump[i].stage \in {"running", "idle", "send", "blocked"} =>
                feeds[i[1]].last = pump[i].previous
           /\ pump[i].stage = "got" => ~is_implausible(feeds[i[1]].last, pump[i].previous)
  BY IdParts DEF BaselinesOK
<1>4. /\ pump'[i].stage \in {"got", "send", "blocked"} => pump'[i].previous # NoPrice
      /\ feeds'[i[1]].phase = "tick" => feeds'[i[1]].last # NoPrice
      /\ feeds'[i[1]].phase = "tick" =>
           /\ pump'[i].stage \in {"running", "idle", "send", "blocked"} =>
                feeds'[i[1]].last = pump'[i].previous
           /\ pump'[i].stage = "got" => ~is_implausible(feeds'[i[1]].last, pump'[i].previous)
  <2> HIDE DEF IInv
  <2> QED
    BY <1>1, <1>2, <1>3, PriceFeedAssumption DEF PumpDoes, Becomes, Ended, RowIs
<1>5. \A j \in Ids : j # i /\ j[1] = i[1] => pump'[j].stage = "over"
  BY <1>1, Single DEF OneSubscription
<1> QED
  BY <1>1, <1>3, <1>4, <1>5, IdParts DEF BaselinesOK

-----------------------------------------------------------------------------
(* The parts of the invariant, for the producer.                           *)

\* What Reconcile does to one task and to one pair.
LEMMA ReconcileStep ==
  ASSUME IInv, Reconcile
  PROVE  /\ aborted = {} /\ reconciling' = FALSE
         /\ \A i \in Ids : pump'[i] = pump[i] \/ pump'[i] = Fresh \/ pump'[i] = Over
         /\ \A i \in Ids : pump'[i].stage # "over" => tasks'[i[1]] = i[2] \/ i \in aborted'
         /\ \A i \in aborted' :
              /\ i \in Ids /\ pump'[i].stage \in Running
              /\ tasks'[i[1]] = NoTask /\ tasks[i[1]] = i[2]
         /\ \A p \in Pairs : feeds'[p] = feeds[p] \/ feeds'[p] = NoFeed
         /\ \A p \in Pairs : tasks'[p] # NoTask =>
              LET i == <<p, tasks'[p]>>
              IN \/ pump'[i] = Fresh
                 \/ tasks'[p] = tasks[p] /\ pump'[i] = pump[i] /\ feeds'[p] = feeds[p]
<1> USE DEF IInv
<1>1. aborted = {} /\ reconciling' = FALSE
  BY DEF Reconcile, HandlesOK
<1>2. PICK slot \in [Vacant -> Slots] :
        LET new == {<<p, slot[p]>> : p \in Vacant}
        IN /\ \A i \in new : pump[i].stage = "over"
           /\ tasks' = [p \in Pairs |-> IF p \in Vacant THEN slot[p]
                                        ELSE IF p \in Unwanted THEN NoTask ELSE tasks[p]]
           /\ pump' = [i \in Ids |->
                IF i \in new THEN Fresh
                ELSE IF i \in Stopped /\ pump[i].stage \in Suspended THEN Over
                ELSE pump[i]]
  BY DEF Reconcile
<1> DEFINE new == {<<p, slot[p]>> : p \in Vacant}
<1>3. Vacant \subseteq wanted /\ wanted \subseteq Pairs
  BY DEF Vacant, TypeOK
<1>4. \A i \in Ids : i \in new <=> i[1] \in Vacant /\ i[2] = slot[i[1]]
  BY <1>3, IdParts
<1>5. \A i \in Ids : i \in Stopped <=> i[1] \in Unwanted /\ i[2] = tasks[i[1]]
  BY IdParts, TaskId DEF Stopped, Unwanted
<1>6. \A p \in Unwanted : p \in Pairs /\ p \notin Vacant /\ tasks[p] # NoTask
  BY <1>3 DEF Unwanted, Has
<1>7. \A i \in Ids :
        pump'[i] = IF i \in new THEN Fresh
                   ELSE IF i \in Stopped /\ pump[i].stage \in Suspended THEN Over
                   ELSE pump[i]
  BY <1>2
<1>8. \A p \in Pairs :
        tasks'[p] = IF p \in Vacant THEN slot[p]
                    ELSE IF p \in Unwanted THEN NoTask ELSE tasks[p]
  BY <1>2
<1>9. aborted' = {i \in Stopped : pump[i].stage \in Running}
  BY DEF Reconcile
<1>10. Stopped \subseteq Ids
  BY TaskId DEF Stopped, Unwanted
<1> HIDE DEF new, IInv
<1>11. ASSUME NEW i \in Ids, pump'[i].stage # "over"
       PROVE  tasks'[i[1]] = i[2] \/ i \in aborted'
  <2>0. i[1] \in Pairs /\ i = <<i[1], i[2]>>
    BY IdParts
  <2>1. CASE i \in new
    BY <1>4, <1>8, <2>0, <2>1
  <2>2. CASE i \notin new /\ i \in Stopped
    BY <1>7, <1>9, <1>11, <2>2 DEF IInv, TypeOK, Stages, Over
  <2>3. CASE i \notin new /\ i \notin Stopped
    <3>1. pump[i].stage # "over"
      BY <1>7, <1>11, <2>3
    <3>2. tasks[i[1]] = i[2]
      BY <1>1, <3>1 DEF IInv, HandlesOK
    <3>3. i[2] # NoTask
      BY IdParts, PriceFeedAssumption
    <3>4. i[1] \notin Vacant
      BY <2>0, <3>1, <3>2, <3>3 DEF Vacant, Has, is_finished
    <3>5. i[1] \notin Unwanted
      BY <1>5, <2>3, <3>2
    <3> QED
      BY <1>8, <2>0, <3>2, <3>4, <3>5
  <2> QED
    BY <2>1, <2>2, <2>3
<1>12. ASSUME NEW i \in aborted'
       PROVE  /\ i \in Ids /\ pump'[i].stage \in Running
              /\ tasks'[i[1]] = NoTask /\ tasks[i[1]] = i[2]
  <2>1. i \in Ids /\ i \in Stopped /\ pump[i].stage \in Running
    BY <1>9, <1>10
  <2>2. i[1] \in Unwanted /\ i[2] = tasks[i[1]] /\ i[1] \notin Vacant /\ i[1] \in Pairs
    BY <1>5, <1>6, <2>1
  <2>3. pump'[i] = pump[i]
    BY <1>4, <1>7, <2>1, <2>2 DEF Running, Suspended
  <2> QED
    BY <1>8, <2>1, <2>2, <2>3
<1>13. ASSUME NEW p \in Pairs, tasks'[p] # NoTask
       PROVE  \/ pump'[<<p, tasks'[p]>>] = Fresh
              \/ /\ tasks'[p] = tasks[p] /\ feeds'[p] = feeds[p]
                 /\ pump'[<<p, tasks'[p]>>] = pump[<<p, tasks'[p]>>]
  <2>1. CASE p \in Vacant
    <3>1. tasks'[p] = slot[p] /\ slot[p] \in Slots
      BY <1>8, <2>1
    <3> QED
      BY <1>4, <1>7, <2>1, <3>1, IdParts
  <2>2. CASE p \notin Vacant
    <3>1. p \notin Unwanted /\ tasks'[p] = tasks[p]
      BY <1>8, <1>13, <2>2
    <3>2. <<p, tasks[p]>> \in Ids
      BY <1>13, <3>1, TaskId DEF IInv, Has
    <3>3. <<p, tasks[p]>> \notin new /\ <<p, tasks[p]>> \notin Stopped
      BY <1>4, <1>5, <2>2, <3>1, <3>2
    <3>4. feeds'[p] = feeds[p]
      BY <3>1 DEF Reconcile
    <3> QED
      BY <1>7, <3>1, <3>2, <3>3, <3>4
  <2> QED
    BY <2>1, <2>2
<1>14. \A p \in Pairs : feeds'[p] = feeds[p] \/ feeds'[p] = NoFeed
  BY DEF Reconcile
<1> QED
  BY <1>1, <1>7, <1>11, <1>12, <1>13, <1>14

LEMMA Reconciled ==
  ASSUME IInv, Reconcile
  PROVE  HandlesOK' /\ FeedsShowTheirPump' /\ BaselinesOK'
<1>1. HandlesOK'
  <2>1. \A i \in Ids : pump'[i].stage # "over" => tasks'[i[1]] = i[2] \/ i \in aborted'
    BY ReconcileStep
  <2>2. \A i \in aborted' :
          /\ i \in Ids /\ pump'[i].stage \in Running
          /\ tasks'[i[1]] = NoTask /\ tasks[i[1]] = i[2]
    BY ReconcileStep
  <2>3. \A i, j \in aborted' : i[1] = j[1] => i = j
    BY <2>2, IdParts
  <2>4. reconciling' = FALSE
    BY ReconcileStep
  <2> QED
    BY <2>1, <2>2, <2>3, <2>4 DEF HandlesOK
<1>2. FeedsShowTheirPump'
  <2> SUFFICES ASSUME NEW p \in Pairs, tasks'[p] # NoTask
               PROVE  LET mine == pump'[<<p, tasks'[p]>>]
                      IN /\ mine.stage = "over" => feeds'[p].phase = "ended"
                         /\ mine.stage \notin {"over", "spawned"} =>
                              feeds'[p].phase \in {"connecting", "tick", "degraded"}
                         /\ mine.stage \in {"send", "blocked"} =>
                              feeds'[p].phase = "tick" /\ feeds'[p].last = mine.previous
    BY DEF FeedsShowTheirPump, Has
  <2>1. \/ pump'[<<p, tasks'[p]>>] = Fresh
        \/ /\ tasks'[p] = tasks[p] /\ feeds'[p] = feeds[p]
           /\ pump'[<<p, tasks'[p]>>] = pump[<<p, tasks'[p]>>]
    BY ReconcileStep
  <2>2. CASE pump'[<<p, tasks'[p]>>] = Fresh
    BY <2>2 DEF Fresh
  <2>3. CASE /\ tasks'[p] = tasks[p] /\ feeds'[p] = feeds[p]
             /\ pump'[<<p, tasks'[p]>>] = pump[<<p, tasks'[p]>>]
    BY <2>3 DEF IInv, FeedsShowTheirPump, Has
  <2> QED
    BY <2>1, <2>2, <2>3
<1>3. BaselinesOK'
  <2>1. \A i \in Ids : pump'[i] = pump[i] \/ pump'[i] = Fresh \/ pump'[i] = Over
    BY ReconcileStep
  <2>2. \A p \in Pairs : feeds'[p] = feeds[p] \/ feeds'[p] = NoFeed
    BY ReconcileStep
  <2>3. \A i \in Ids : pump'[i].stage \in {"running", "idle", "got", "send", "blocked"}
                         => pump'[i] = pump[i]
    BY <2>1 DEF Fresh, Over
  <2>4. \A p \in Pairs : feeds'[p].phase = "tick" => feeds'[p] = feeds[p]
    BY <2>2 DEF NoFeed
  <2> QED
    BY <2>3, <2>4, IdParts DEF IInv, BaselinesOK
<1> QED
  BY <1>1, <1>2, <1>3

-----------------------------------------------------------------------------
(* The theorems.                                                           *)

LEMMA Inductive ==
  ASSUME IInv, [Next]_vars
  PROVE  IInv'
<1>0. TypeOK'
  BY Types
<1>1. CASE Author \/ Take \/ UNCHANGED vars
  BY <1>0, <1>1
     DEF IInv, Author, Take, vars, producer, HandlesOK, FeedsShowTheirPump, BaselinesOK, Has
<1>2. CASE ListLevels
  BY <1>0, <1>2 DEF IInv, ListLevels, HandlesOK, FeedsShowTheirPump, BaselinesOK, Has
<1>3. CASE Reconcile
  BY <1>0, <1>3, Reconciled DEF IInv
<1>4. ASSUME NEW i \in Ids, Pump(i)
      PROVE  IInv'
  BY <1>0, <1>4, HandlesOfPump, FeedsOfPump, BaselinesOfPump DEF IInv
<1> QED
  BY <1>1, <1>2, <1>3, <1>4 DEF Next

LEMMA Initial == Init => IInv
<1> SUFFICES ASSUME Init
             PROVE  IInv
  OBVIOUS
<1>1. TypeOK
  <2>1. <<>> \in Seq([pair: Pairs, price: Prices]) /\ Len(<<>>) <= QueueBound
    BY PriceFeedAssumption
  <2> QED
    BY <2>1 DEF Init, TypeOK, Over, NoFeed, Stages, Suspended, Phases
<1>2. HandlesOK
  BY DEF Init, HandlesOK, Over
<1>3. FeedsShowTheirPump
  BY DEF Init, FeedsShowTheirPump, Has
<1>4. BaselinesOK
  BY IdParts DEF Init, BaselinesOK, Over, NoFeed
<1> QED
  BY <1>1, <1>2, <1>3, <1>4 DEF IInv

\* The invariant holds throughout, whatever pairs the levels need and however
\* tasks are started, stopped and end.
THEOREM Invariance == Spec => []IInv
<1>1. IInv /\ [Next]_vars => IInv'
  BY Inductive
<1> QED
  BY Initial, <1>1, PTL DEF Spec

\* The producer's handles, the tasks, the feed table and the queue keep their
\* types, and the queue never holds more than its bound.
THEOREM TypesHold == Spec => []TypeOK
<1>1. IInv => TypeOK
  BY DEF IInv
<1> QED
  BY Invariance, <1>1, PTL

\* A pair never has two subscriptions that run (prices.rs: "one shared
\* subscription per active price pair").
THEOREM OneTaskForEachPair == Spec => []OneSubscription
<1>1. IInv => OneSubscription
  BY Single DEF IInv
<1> QED
  BY Invariance, <1>1, PTL

\* The feed table tells the truth about the pump that has the handle.
THEOREM FeedTableIsTrue == Spec => []FeedsShowTheirPump
<1>1. IInv => FeedsShowTheirPump
  BY DEF IInv
<1> QED
  BY Invariance, <1>1, PTL

LEMMA PlausibleStep ==
  ASSUME IInv, [Next]_vars, NEW p \in Pairs,
         feeds[p].phase = "tick", feeds'[p].phase = "tick", feeds'[p] # feeds[p]
  PROVE  ~is_implausible(feeds[p].last, feeds'[p].last)
<1>1. PICK i \in Ids : Pump(i)
  <2>1. ASSUME Reconcile
        PROVE  FALSE
    <3>1. feeds'[p] = feeds[p] \/ feeds'[p] = NoFeed
      BY <2>1, ReconcileStep
    <3> QED
      BY <3>1 DEF NoFeed
  <2> QED
    BY <2>1 DEF Next, Author, ListLevels, Take, vars
<1>2. /\ p = i[1]
      /\ PumpDoes(i)
  BY <1>1, PumpStep DEF IInv
<1>3. feeds[p] \in [phase: Phases, last: Prices \cup {NoPrice}]
  BY DEF IInv, TypeOK
<1>4. pump[i].stage = "got" /\ feeds'[p].last = pump[i].previous
  BY <1>2, <1>3 DEF PumpDoes, RowIs
<1> QED
  BY <1>2, <1>4 DEF IInv, BaselinesOK

\* From one shown tick to the next a price moves no further than the limit.
THEOREM MovesArePlausible == Spec => ShownMovesArePlausible
<1>1. IInv /\ [Next]_vars
      => [\A p \in Pairs :
            feeds[p].phase = "tick" /\ feeds'[p].phase = "tick" /\ feeds'[p] # feeds[p]
            => ~is_implausible(feeds[p].last, feeds'[p].last)]_vars
  BY PlausibleStep
<1> QED
  BY Invariance, <1>1, PTL DEF Spec, ShownMovesArePlausible
=============================================================================
