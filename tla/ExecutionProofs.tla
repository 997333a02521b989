-------------------------- MODULE ExecutionProofs ---------------------------
(* What Execution guarantees for every number of orders, faults and limits. *)
EXTENDS Execution, TLAPS

Kinds == {"StillPending", "Signed", "Broadcast", "Confirmed", "Reverted",
          "ExecFailed", "QuarantineResolved", "BroadcastBlocked", "ReceiptTimedOut"}

Outcome == [kind: Kinds, step: Steps, tx: Tx \cup {NoTx}, at: Nat]

\* The retry delay is a number of seconds between nought and the cap.
LEMMA BackoffType ==
  ASSUME NEW attempts
  PROVE  swap_retry_backoff_secs(attempts) \in 0 .. MaxBackoff
<1> DEFINE shift   == IF attempts - 1 > 20 THEN 20 ELSE IF attempts = 0 THEN 0 ELSE attempts - 1
           doubled == InitialBackoff * 2 ^ shift
<1>1. swap_retry_backoff_secs(attempts)
        = IF doubled \in 0 .. MaxBackoff THEN doubled ELSE MaxBackoff
  BY Zenon DEF swap_retry_backoff_secs
<1> HIDE DEF doubled
<1>2. MaxBackoff \in 0 .. MaxBackoff
  BY MachineAssumption
<1> QED
  BY <1>1, <1>2

\* `apply` turns a well-typed row and outcome into a well-typed state.
LEMMA ApplyType ==
  ASSUME NEW row \in Row, NEW outcome \in Outcome
  PROVE  apply(row, outcome) \in State
<1>1. row.state \in State /\ outcome.step \in Steps /\ "Swap" \in Steps
      /\ outcome.tx \in Tx \cup {NoTx} /\ outcome.at \in Nat
  BY DEF Row, Outcome, Steps
<1> QED
  BY <1>1 DEF apply, Confirmed, State, Open, Terminal, SwapReady, Broadcasting, Submitted, Ended

\* The two rows drive_order writes are rows, and differ from the old one in
\* the fields named only.
LEMMA RowUpdates ==
  ASSUME NEW row \in Row, now \in Nat
  PROVE  /\ \A s \in State : /\ MovedTo(row, s) \in Row
                            /\ MovedTo(row, s).state = s
                            /\ MovedTo(row, s).attempts = row.attempts
         /\ RetryLater(row) \in Row
         /\ RetryLater(row).state = row.state
         /\ RetryLater(row).attempts = row.attempts + 1
<1>1. row.attempts \in Nat
  BY DEF Row
<1>2. swap_retry_backoff_secs(row.attempts + 1) \in Nat
  BY BackoffType, MachineAssumption
<1>3. now + swap_retry_backoff_secs(row.attempts + 1) \in Nat /\ row.attempts + 1 \in Nat
  BY <1>1, <1>2
<1>4. \A s \in State : /\ MovedTo(row, s) \in Row
                     /\ MovedTo(row, s).state = s
                     /\ MovedTo(row, s).attempts = row.attempts
  BY DEF Row, MovedTo
<1>5. RetryLater(row) =
        [row EXCEPT !.attempts = row.attempts + 1,
                    !.retryAt  = now + swap_retry_backoff_secs(row.attempts + 1)]
  BY DEF RetryLater
<1> QED
  BY <1>3, <1>4, <1>5 DEF Row

\* Settle keeps the types of the sweep, and the order in hand.
LEMMA SettleType ==
  ASSUME TypeOK, InHand, pc = "loop", left > 0,
         NEW outcome \in Outcome, Settle(outcome)
  PROVE  /\ held' \in [Orders -> Row \cup {NoRow}]
         /\ pc' \in {"next", "moved", "retry"}
         /\ cur' \in Orders \cup {NoOrder}
         /\ left' \in 0 .. MaxTransitions
         /\ InHand'
<1>1. cur \in Orders /\ held[cur] \in Row /\ now \in Nat /\ NoRow \notin Row
  BY ExecutionAssumption DEF TypeOK, InHand, Driving
<1>2. apply(held[cur], outcome) \in State
  BY <1>1, ApplyType
<1>3. /\ MovedTo(held[cur], apply(held[cur], outcome)) \in Row
      /\ RetryLater(held[cur]) \in Row
  BY <1>1, <1>2, RowUpdates
<1> QED
  BY <1>1, <1>3, ExecutionAssumption DEF TypeOK, InHand, Driving, Settle, Leave

-----------------------------------------------------------------------------
\* The outcomes the loop settles are outcomes.
LEMMA OutcomeTypes ==
  /\ \A kind \in Kinds : Plain(kind) \in Outcome
  /\ \A step \in Steps, tx \in Tx : Signed(step, tx) \in Outcome
  /\ \A tx \in Tx, at \in Nat : Broadcast(tx, at) \in Outcome
BY DEF Plain, Signed, Broadcast, Outcome, Kinds, Steps

LEMMA NewTxType ==
  ASSUME TypeOK, NEW o \in Orders, NEW step \in Steps, NEW nonce \in Nat
  PROVE  NewTx(o, step, nonce) \in Tx /\ NewTx(o, step, nonce).placement = placed[o]
BY DEF TypeOK, NewTx, Tx

\* Nothing is said of the rest: receipts, the clock, the operators, faults.
LEMMA TableStays ==
  ASSUME IInv, UNCHANGED <<orders, pc, held, cur, left, sent, signs, placed>>, succeeded \subseteq succeeded'
  PROVE  InHand' /\ HeldIsStored' /\ RowsOK' /\ WriteOK' /\ SentOK' /\ OneSwapPerOrder'
<1>1. InHand'
  BY DEF IInv, InHand, Driving
<1>2. HeldIsStored'
  BY DEF IInv, HeldIsStored, Writing, IsOpen, is_terminal
<1>3. RowsOK'
  BY DEF IInv, RowsOK, RowOK
<1>4. WriteOK'
  <2> SUFFICES ASSUME pc \in {"moved", "retry"}
               PROVE  (IsOpen(orders[cur]) /\ RowOK(cur, held[cur]) /\ Continues(orders[cur], held[cur]))'
    BY DEF WriteOK
  <2>1. IsOpen(orders[cur]) /\ RowOK(cur, held[cur]) /\ Continues(orders[cur], held[cur])
    BY DEF IInv, WriteOK
  <2>2. IsOpen(orders[cur])'
    BY <2>1 DEF IsOpen, is_terminal
  <2>3. RowOK(cur, held[cur])'
    BY <2>1 DEF RowOK
  <2>4. Continues(orders[cur], held[cur])'
    BY <2>1 DEF Continues
  <2> QED
    BY <2>2, <2>3, <2>4
<1>5. SentOK'
  BY DEF IInv, SentOK
<1>6. OneSwapPerOrder'
  BY DEF IInv, OneSwapPerOrder, Swaps
<1> QED
  BY <1>1, <1>2, <1>3, <1>4, <1>5, <1>6

LEMMA InitOK == Init => IInv
<1> SUFFICES ASSUME Init PROVE IInv
  OBVIOUS
<1>1. TypeOK
  BY ExecutionAssumption DEF Init, TypeOK
<1> QED
  BY <1>1 DEF Init, IInv, InHand, Driving, HeldIsStored, IsOpen, RowsOK, WriteOK, SentOK,
     OneSwapPerOrder, Swaps, ReleasedOK

-----------------------------------------------------------------------------
(* One lemma per action, or per group that changes the same variables.      *)

\* The row a placement overwrites is absent or failed: no copy in hand is open,
\* no write is due and no release is in progress that could undo it.
LEMMA PlaceOK ==
  ASSUME ReleasesAreApart, IInv, NEW o \in Orders, Place(o) PROVE IInv'
<1>1. NewOrder \in Row /\ NewOrder # NoRow
  BY ExecutionAssumption, MachineAssumption
  DEF NewOrder, Row, State, SwapReady, Steps, Open, NoTime
<1>2. /\ ~IsOpen(orders[o])
      /\ orders[o] # NoRow => orders[o].state.phase = "Failed" /\ MaxReplays # 0
  <2>1. orders[o] # NoRow => orders[o].state.phase \in Open \cup Terminal
    BY DEF IInv, TypeOK, Row, State
  <2>2. orders[o] # NoRow => orders[o].state.phase = "Failed"
    BY <2>1 DEF Place, StatusOf, status, Open, Terminal
  <2>3. orders[o] # NoRow => MaxReplays # 0
    BY DEF Place, IInv, TypeOK
  <2> QED
    BY <2>2, <2>3 DEF IsOpen, is_terminal, Terminal
<1>3. /\ orders' = [orders EXCEPT ![o] = NewOrder]
      /\ \A q \in Orders : q # o => orders'[q] = orders[q]
      /\ orders'[o] = NewOrder
      /\ \A q \in Orders : q # o => placed'[q] = placed[q]
      /\ placed'[o] = placed[o] + 1
  BY DEF Place, IInv, TypeOK
<1>4. TypeOK'
  <2>1. placed' \in [Orders -> Nat] /\ replays' \in 0 .. MaxReplays
    BY ExecutionAssumption DEF IInv, TypeOK, Place
  <2> QED
    BY <1>1, <1>3, <2>1 DEF IInv, TypeOK, Place, sweepVars, chainVars
<1>5. InHand'
  BY DEF IInv, InHand, Driving, Place, sweepVars
<1>6. HeldIsStored'
  BY <1>2, <1>3 DEF IInv, HeldIsStored, IsOpen, is_terminal, Writing, Place, sweepVars, WriteOK
<1>7. RowsOK'
  <2>1. ASSUME NEW q \in Orders, orders'[q] # NoRow
        PROVE  placed'[q] > 0 /\ RowOK(q, orders[q])'
    <3>1. CASE q = o
      BY <1>1, <1>3, <3>1, MachineAssumption
      DEF IInv, TypeOK, RowOK, NewOrder, SwapReady, Place, chainVars
    <3>2. CASE q # o
      BY <1>3, <2>1, <3>2 DEF IInv, RowsOK, RowOK, Place, chainVars
    <3> QED
      BY <3>1, <3>2
  <2> QED
    BY <2>1 DEF RowsOK
<1>8. WriteOK'
  <2>1. pc \in {"moved", "retry"} => cur \in Orders /\ cur # o
    BY <1>2 DEF IInv, WriteOK, InHand, Driving
  <2>2. pc \in {"moved", "retry"} => orders'[cur] = orders[cur] /\ placed'[cur] = placed[cur]
    BY <1>3, <2>1
  <2> SUFFICES ASSUME pc \in {"moved", "retry"}
               PROVE  (IsOpen(orders[cur]) /\ RowOK(cur, held[cur]) /\ Continues(orders[cur], held[cur]))'
    BY DEF WriteOK, Place, sweepVars
  <2>3. /\ UNCHANGED <<pc, cur, held, sent, succeeded, signs>>
        /\ orders'[cur] = orders[cur] /\ placed'[cur] = placed[cur]
    BY <2>2 DEF Place, sweepVars, chainVars
  <2>4. IsOpen(orders[cur]) /\ RowOK(cur, held[cur]) /\ Continues(orders[cur], held[cur])
    BY DEF IInv, WriteOK
  <2>5. IsOpen(orders[cur])' /\ RowOK(cur, held[cur])'
    BY <2>3, <2>4 DEF IsOpen, is_terminal, RowOK
  <2>6. Continues(orders[cur], held[cur])'
    BY <2>3, <2>4 DEF Continues
  <2> QED
    BY <2>5, <2>6
<1>9. SentOK' /\ OneSwapPerOrder'
  <2>1. ASSUME NEW tx \in sent
        PROVE  /\ tx.serial < signs
               /\ orders'[tx.order] # NoRow
               /\ 0 < tx.placement /\ tx.placement <= placed'[tx.order]
               /\ \/ orders'[tx.order].state.tx = tx
                  \/ tx.step # "Swap" /\ tx \in succeeded
                  \/ tx.placement < placed'[tx.order]
                  \/ orders'[tx.order].state.phase = "Failed" /\ FALSE \in BroadcastModes
    <3>1. tx.order \in Orders /\ placed[tx.order] \in Nat /\ tx.placement \in Nat
      BY DEF IInv, TypeOK, Tx
    <3>2. /\ tx.serial < signs /\ orders[tx.order] # NoRow
          /\ 0 < tx.placement /\ tx.placement <= placed[tx.order]
          /\ \/ orders[tx.order].state.tx = tx
             \/ tx.step # "Swap" /\ tx \in succeeded
             \/ tx.placement < placed[tx.order]
             \/ orders[tx.order].state.phase = "Failed" /\ FALSE \in BroadcastModes
      BY <3>1 DEF IInv, SentOK
    <3>3. CASE tx.order = o
      <4>1. tx.placement < placed'[o] /\ tx.placement <= placed'[o]
        BY <1>3, <3>1, <3>2, <3>3
      <4> QED
        BY <1>1, <1>3, <3>2, <3>3, <4>1
    <3>4. CASE tx.order # o
      BY <1>3, <3>1, <3>2, <3>4
    <3> QED
      BY <3>3, <3>4
  <2>2. SentOK'
    BY <2>1 DEF SentOK, Place, chainVars
  <2> QED
    BY <2>2 DEF IInv, OneSwapPerOrder, Swaps, Place, chainVars
<1>10. ReleasedOK'
  <2>1. \A p \in Operators : released[p] # NoRelease => released[p].order # o
    BY <1>2, ExecutionAssumption DEF IInv, ReleasedOK
  <2>2. \A p \in Operators : released[p] # NoRelease => released[p].order \in Orders
    BY DEF IInv, TypeOK
  <2> QED
    BY <1>3, <2>1, <2>2 DEF IInv, ReleasedOK, Place
<1> QED
  BY <1>4, <1>5, <1>6, <1>7, <1>8, <1>9, <1>10 DEF IInv

\* Steps that leave the table, the chain and the operators alone, and write
\* nothing next.
LEMMA QuietOK ==
  ASSUME IInv, TypeOK', InHand', HeldIsStored',
         pc' \notin {"moved", "retry"},
         UNCHANGED <<orders, released, chainVars, signs, placed>>
  PROVE  IInv'
<1>1. WriteOK'
  BY DEF WriteOK
<1>2. RowsOK' /\ SentOK' /\ OneSwapPerOrder' /\ ReleasedOK'
  BY DEF IInv, RowsOK, RowOK, SentOK, OneSwapPerOrder, Swaps, ReleasedOK, chainVars
<1> QED
  BY <1>1, <1>2 DEF IInv

LEMMA StartSweepOK == ASSUME IInv, StartSweep PROVE IInv'
<1>1. TypeOK' /\ InHand' /\ HeldIsStored'
  BY DEF IInv, TypeOK, InHand, Driving, HeldIsStored, IsOpen, StartSweep, chainVars
<1> QED
  BY <1>1, QuietOK DEF StartSweep

LEMMA NextOrderOK == ASSUME IInv, NEW o \in Orders, NextOrder(o) PROVE IInv'
<1>1. TypeOK' /\ InHand' /\ HeldIsStored'
  BY ExecutionAssumption
  DEF IInv, TypeOK, InHand, Driving, HeldIsStored, Writing, NextOrder, chainVars
<1> QED
  BY <1>1, QuietOK DEF NextOrder

LEMMA EndSweepOK == ASSUME IInv, EndSweep PROVE IInv'
<1>1. TypeOK' /\ InHand' /\ HeldIsStored'
  BY DEF IInv, TypeOK, InHand, Driving, HeldIsStored, Writing, EndSweep, chainVars
<1> QED
  BY <1>1, QuietOK DEF EndSweep

\* Dropping the copy in hand is always safe: the table is what counts.
LEMMA LeaveOK ==
  ASSUME IInv, Driving, Leave,
         UNCHANGED <<orders, allowBroadcast, released, chainVars, signs, now, placed, replays>>,
         faults' \in 0 .. MaxFaults
  PROVE  IInv'
<1>1. TypeOK' /\ InHand'
  BY ExecutionAssumption DEF IInv, TypeOK, InHand, Driving, Leave, chainVars
<1>2. HeldIsStored'
  BY DEF IInv, TypeOK, HeldIsStored, IsOpen, Writing, Leave
<1> QED
  BY <1>1, <1>2, QuietOK DEF Leave

LEMMA StopDrivingOK == ASSUME IInv, StopDriving PROVE IInv'
BY LeaveOK DEF StopDriving, Driving, IInv, TypeOK

LEMMA PersistFailsOK == ASSUME IInv, PersistFails PROVE IInv'
<1>1. faults' \in 0 .. MaxFaults
  BY ExecutionAssumption DEF IInv, TypeOK, PersistFails
<1> QED
  BY <1>1, LeaveOK DEF PersistFails, Driving

LEMMA RestartOK == ASSUME IInv, Restart PROVE IInv'
<1>1. TypeOK' /\ InHand' /\ HeldIsStored'
  BY ExecutionAssumption
  DEF IInv, TypeOK, InHand, Driving, HeldIsStored, IsOpen, Restart, chainVars
<1> QED
  BY <1>1, QuietOK DEF Restart

LEMMA TickOK == ASSUME IInv, Tick PROVE IInv'
<1>1. TypeOK'
  BY DEF IInv, TypeOK, Tick, sweepVars, chainVars
<1>2. UNCHANGED <<orders, pc, held, cur, left, sent, signs, placed>> /\ succeeded \subseteq succeeded'
  BY DEF Tick, sweepVars, chainVars
<1>3. ReleasedOK'
  BY DEF IInv, ReleasedOK, Tick, sweepVars, chainVars
<1> QED
  BY <1>1, <1>2, <1>3, TableStays DEF IInv

\* The write: the stored row of the order in hand becomes what is in memory.
LEMMA PersistOK == ASSUME IInv, Persist PROVE IInv'
<1> DEFINE new == held[cur]
<1>1. /\ cur \in Orders /\ new \in Row /\ new # NoRow /\ IsOpen(orders[cur])
      /\ RowOK(cur, new) /\ Continues(orders[cur], new)
      /\ pc = "moved" => left > 0
  BY ExecutionAssumption DEF IInv, TypeOK, InHand, Driving, WriteOK, Persist
<1>2. /\ orders' = [orders EXCEPT ![cur] = new]
      /\ orders'[cur] = new
      /\ \A q \in Orders : q # cur => orders'[q] = orders[q]
      /\ UNCHANGED <<allowBroadcast, released, sent, succeeded, reverted,
                    accountNonce, signs, now, faults, placed, replays>>
      /\ pc' \in {"loop", "next"}
  BY <1>1 DEF IInv, TypeOK, Persist, Leave, chainVars
<1>3. TypeOK'
  BY <1>1, <1>2, ExecutionAssumption DEF IInv, TypeOK, Persist, Leave
<1>4. InHand'
  BY <1>1 DEF InHand, Driving, Persist, Leave
<1>5. HeldIsStored'
  BY <1>1, <1>2 DEF IInv, TypeOK, HeldIsStored, IsOpen, Writing, Persist, Leave
<1>6. RowsOK' /\ WriteOK'
  <2>1. ASSUME NEW q \in Orders, orders'[q] # NoRow
        PROVE  placed[q] > 0 /\ RowOK(q, orders[q])'
    <3>0. placed[q] > 0
      BY <1>1, <1>2, <2>1 DEF IInv, RowsOK, IsOpen
    <3>1. CASE q # cur
      <4>1. orders'[q] = orders[q] /\ UNCHANGED <<succeeded, signs, placed>> /\ RowOK(q, orders[q])
        BY <1>2, <2>1, <3>1 DEF IInv, RowsOK
      <4> QED
        BY <3>0, <4>1 DEF RowOK
    <3>2. CASE q = cur
      <4>1. orders'[q] = new /\ UNCHANGED <<succeeded, signs, placed>> /\ RowOK(q, new)
        BY <1>1, <1>2, <3>2
      <4> HIDE DEF new
      <4> QED
        BY <3>0, <4>1 DEF RowOK
    <3> QED
      BY <3>1, <3>2
  <2> QED
    <3>1. RowsOK'
      BY <1>2, <2>1 DEF RowsOK
    <3> QED
      BY <1>2, <3>1 DEF WriteOK
<1>7. SentOK'
  <2> SUFFICES ASSUME NEW tx \in sent, tx.order = cur
               PROVE  \/ new.state.tx = tx
                      \/ tx.step # "Swap" /\ tx \in succeeded
                      \/ tx.placement < placed[cur]
                      \/ new.state.phase = "Failed" /\ FALSE \in BroadcastModes
    BY <1>1, <1>2 DEF IInv, SentOK, TypeOK, Tx
  <2>1. \/ orders[cur].state.tx = tx
        \/ tx.step # "Swap" /\ tx \in succeeded
        \/ tx.placement < placed[cur]
    BY <1>1 DEF IInv, SentOK, IsOpen, is_terminal, Terminal
  <2>2. CASE orders[cur].state.tx = tx
    <3>1. tx \in Tx /\ tx # NoTx /\ RowOK(cur, orders[cur])
      BY <1>1, MachineAssumption DEF IInv, TypeOK, RowsOK, IsOpen
    <3> QED
      BY <1>1, <2>2, <3>1 DEF Continues, RowOK
  <2> QED
    BY <2>1, <2>2
<1>8. OneSwapPerOrder'
  BY <1>2 DEF IInv, OneSwapPerOrder, Swaps
<1>9. ReleasedOK'
  BY <1>1, <1>2 DEF IInv, TypeOK, ReleasedOK, IsOpen, is_terminal, Terminal
<1> QED
  BY <1>3, <1>4, <1>5, <1>6, <1>7, <1>8, <1>9 DEF IInv

\* The operator's read and the write that may come much later.
LEMMA ReadQuarantinedOK ==
  ASSUME IInv, NEW p \in Operators, NEW o \in Orders, ReadQuarantined(p, o)
  PROVE  IInv'
<1>1. orders[o] \in Row /\ orders[o].state.phase = "SwapQuarantined"
      /\ orders[o].state.tx \in Tx \cup {NoTx}
  BY DEF IInv, TypeOK, ReadQuarantined, Moves, Plain, Row, State
<1>2. TypeOK'
  BY <1>1 DEF IInv, TypeOK, ReadQuarantined, sweepVars, chainVars
<1>3. ReleasedOK'
  BY <1>1, <1>2 DEF IInv, TypeOK, ReleasedOK, ReadQuarantined, sweepVars, chainVars
<1>4. UNCHANGED <<orders, pc, held, cur, left, sent, signs, placed>> /\ succeeded \subseteq succeeded'
  BY DEF ReadQuarantined, sweepVars, chainVars
<1> QED
  BY <1>2, <1>3, <1>4, TableStays DEF IInv

LEMMA WriteReleasedOK ==
  ASSUME ReleasesAreApart, IInv, NEW p \in Operators, WriteReleased(p)
  PROVE  IInv'
<1> DEFINE o == released[p].order
           new == ReleasedRow(released[p].tx)
<1>1. /\ o \in Orders /\ released[p].tx \in Tx \cup {NoTx}
      /\ orders[o] \in Row /\ orders[o] # NoRow
      /\ orders[o].state.phase \in {"SwapQuarantined", "Failed"}
      /\ orders[o].state.tx = released[p].tx
  BY DEF IInv, TypeOK, ReleasedOK, WriteReleased
<1>2. /\ new \in Row /\ new # NoRow /\ new.state.phase = "Failed"
      /\ new.state.tx = released[p].tx /\ new.attempts = 0
  BY <1>1, ExecutionAssumption DEF ReleasedRow, Row, State, Ended, Terminal, Steps, NoTime
<1>3. /\ orders' = [orders EXCEPT ![o] = new]
      /\ orders'[o] = new
      /\ \A q \in Orders : q # o => orders'[q] = orders[q]
      /\ UNCHANGED <<pc, held, cur, left, allowBroadcast, sent, succeeded, reverted,
                    accountNonce, signs, now, faults, placed, replays>>
      /\ released' = [released EXCEPT ![p] = NoRelease]
  BY <1>1 DEF IInv, TypeOK, WriteReleased, sweepVars, chainVars
<1> HIDE DEF new
<1>4. TypeOK'
  BY <1>1, <1>2, <1>3 DEF IInv, TypeOK
<1>5. InHand'
  BY <1>3 DEF IInv, InHand, Driving
<1>6. HeldIsStored'
  BY <1>1, <1>3 DEF IInv, HeldIsStored, IsOpen, is_terminal, Terminal, Writing
<1>7. RowsOK'
  BY <1>1, <1>2, <1>3, MachineAssumption DEF IInv, RowsOK, RowOK
<1>8. WriteOK'
  <2>1. pc \in {"moved", "retry"} => cur \in Orders /\ cur # o
    BY <1>1 DEF IInv, InHand, Driving, WriteOK, IsOpen, is_terminal, Terminal
  <2>2. pc \in {"moved", "retry"} => orders'[cur] = orders[cur]
    BY <1>3, <2>1
  <2>3. IsOpen(orders[cur])' <=> IsOpen(orders'[cur])
    BY <1>3 DEF IsOpen, is_terminal
  <2>4. Continues(orders[cur], held[cur])' <=> Continues(orders'[cur], held[cur])
    BY <1>3 DEF Continues
  <2>5. RowOK(cur, held[cur])' <=> RowOK(cur, held[cur])
    BY <1>3 DEF RowOK
  <2> QED
    BY <1>3, <2>2, <2>3, <2>4, <2>5 DEF IInv, WriteOK
<1>9. SentOK' /\ OneSwapPerOrder'
  <2>1. \A tx \in sent : tx.order \in Orders
    BY DEF IInv, TypeOK, Tx
  <2>2. \A q \in Orders : orders[q] # NoRow =>
          /\ orders'[q] # NoRow
          /\ orders'[q].state.tx = orders[q].state.tx
          /\ orders[q].state.phase = "Failed" => orders'[q].state.phase = "Failed"
    BY <1>1, <1>2, <1>3
  <2>3. SentOK'
    BY <1>3, <2>1, <2>2 DEF IInv, SentOK
  <2> QED
    BY <1>3, <2>3 DEF IInv, OneSwapPerOrder, Swaps
<1>10. ReleasedOK'
  <2> SUFFICES ASSUME NEW q \in Operators, released[q] # NoRelease, q # p
               PROVE  /\ orders'[released[q].order] # NoRow
                      /\ \/ orders'[released[q].order].state.phase = "SwapQuarantined"
                         \/ orders'[released[q].order].state.phase = "Failed" /\ MaxReplays = 0
                      /\ orders'[released[q].order].state.tx = released[q].tx
    BY <1>3 DEF IInv, TypeOK, ReleasedOK
  <2>1. released[q].order \in Orders /\ MaxReplays = 0
    BY DEF IInv, TypeOK, ReleasesAreApart
  <2> QED
    BY <1>1, <1>2, <1>3, <2>1 DEF IInv, ReleasedOK
<1> QED
  BY <1>4, <1>5, <1>6, <1>7, <1>8, <1>9, <1>10 DEF IInv

\* Receipts only accumulate.
LEMMA LandOK == ASSUME IInv, NEW tx \in sent, Land(tx) PROVE IInv'
<1>1. TypeOK'
  BY DEF IInv, TypeOK, Land, sweepVars
<1>2. succeeded \subseteq succeeded'
  BY DEF Land
<1>3. UNCHANGED <<orders, pc, held, cur, left, released, sent, signs, placed>>
  BY DEF Land, sweepVars
<1>4. ReleasedOK'
  BY <1>3 DEF IInv, ReleasedOK
<1> QED
  BY <1>1, <1>2, <1>3, <1>4, TableStays DEF IInv

-----------------------------------------------------------------------------
(* The actions that run one action of the machine.                         *)

\* An order about to be worked on is open, and its copy is the stored row.
LEMMA InHandIsStored ==
  ASSUME IInv, NEW action \in {"Sign", "Broadcast", "CheckReceipt"}, Performs(action)
  PROVE  /\ pc = "loop" /\ left > 0 /\ cur \in Orders
         /\ held[cur] \in Row /\ orders[cur] = held[cur] /\ IsOpen(orders[cur])
         /\ RowOK(cur, held[cur])
         /\ action = "Sign"         => held[cur].state.phase = "SwapReady"
         /\ action = "Broadcast"    => held[cur].state.phase = "Broadcasting"
         /\ action = "CheckReceipt" => held[cur].state.phase = "Submitted"
<1>1. /\ pc = "loop" /\ left > 0 /\ cur \in Orders /\ held[cur] \in Row /\ held[cur] # NoRow
      /\ next_action(held[cur]) = action
  BY DEF IInv, TypeOK, InHand, Driving, Performs
<1>2. /\ action = "Sign"         => held[cur].state.phase = "SwapReady"
      /\ action = "Broadcast"    => held[cur].state.phase = "Broadcasting"
      /\ action = "CheckReceipt" => held[cur].state.phase = "Submitted"
  BY <1>1 DEF next_action
<1>3. IsOpen(held[cur])
  BY <1>1, <1>2 DEF IsOpen, is_terminal, Terminal
<1>4. orders[cur] = held[cur]
  BY <1>1, <1>3 DEF IInv, HeldIsStored, Writing
<1> QED
  BY <1>1, <1>2, <1>3, <1>4 DEF IInv, RowsOK

\* What is left to show of such a step: the write it leaves due, and what it
\* sent.
LEMMA SettleOK ==
  ASSUME IInv, pc = "loop", left > 0, NEW outcome \in Outcome, Settle(outcome),
         UNCHANGED <<orders, allowBroadcast, released, succeeded, reverted,
                     accountNonce, now, faults, placed, replays>>,
         signs' \in Nat, signs' >= signs,
         sent' \in SUBSET Tx, sent \subseteq sent',
         WriteOK', SentOK', OneSwapPerOrder'
  PROVE  IInv'
<1>1. TypeOK' /\ InHand'
  BY SettleType DEF IInv, TypeOK
<1>2. HeldIsStored'
  BY DEF IInv, TypeOK, InHand, Driving, HeldIsStored, Writing, IsOpen, Settle, Leave
<1>3. RowsOK'
  <2>1. \A o \in Orders, tx \in Tx : tx.serial \in Nat
    BY DEF Tx
  <2> QED
    BY <2>1 DEF IInv, TypeOK, RowsOK, RowOK
<1>4. ReleasedOK'
  BY DEF IInv, ReleasedOK
<1> QED
  BY <1>1, <1>2, <1>3, <1>4 DEF IInv

\* A step that sends and signs nothing.
LEMMA SettleOnlyOK ==
  ASSUME IInv, pc = "loop", left > 0, NEW outcome \in Outcome, Settle(outcome),
         UNCHANGED <<orders, allowBroadcast, released, chainVars, signs, now, faults, placed, replays>>,
         WriteOK'
  PROVE  IInv'
<1>1. UNCHANGED <<orders, released, sent, succeeded, reverted, accountNonce, signs>>
  BY DEF chainVars
<1>2. SentOK' /\ OneSwapPerOrder'
  <2>1. succeeded' = succeeded /\ orders' = orders /\ sent' = sent /\ signs' = signs
    BY <1>1
  <2>2. SentOK'
    BY <2>1 DEF IInv, SentOK
  <2> QED
    BY <2>1, <2>2 DEF IInv, OneSwapPerOrder, Swaps
<1>3. sent' \in SUBSET Tx /\ sent \subseteq sent' /\ signs' \in Nat /\ signs' >= signs
  BY <1>1 DEF IInv, TypeOK
<1> QED
  BY <1>1, <1>2, <1>3, SettleOK

\* An outcome that moves the order leaves the moved row to be written.
LEMMA SettleMoves ==
  ASSUME IInv, pc = "loop", left > 0, NEW outcome \in Outcome, Settle(outcome),
         Moves(held[cur], outcome)
  PROVE  /\ pc' = "moved" /\ cur' = cur
         /\ held'[cur].state = apply(held[cur], outcome)
         /\ held'[cur].attempts = held[cur].attempts
<1>1. cur \in Orders /\ held[cur] \in Row /\ now \in Nat
  BY DEF IInv, TypeOK, InHand, Driving
<1>2. outcome.kind # "StillPending" /\ ~Keeps(held[cur], outcome)
  <2>1. held[cur].attempts \in Nat /\ SwapRetryCap \in Nat
    BY <1>1, MachineAssumption DEF Row
  <2> QED
    BY <2>1 DEF Moves, Keeps
<1>3. /\ pc' = "moved" /\ cur' = cur
      /\ held'[cur] = MovedTo(held[cur], apply(held[cur], outcome))
  BY <1>1, <1>2 DEF Settle, IInv, TypeOK
<1>4. apply(held[cur], outcome) \in State
  BY <1>1, ApplyType
<1> QED
  BY <1>1, <1>3, <1>4, RowUpdates

LEMMA SignOK == ASSUME IInv, Sign PROVE IInv'
<1>1. PICK step \in Steps, nonce \in accountNonce .. accountNonce + signs :
        Settle(Signed(step, NewTx(cur, step, nonce))) /\ signs' = signs + 1
  BY DEF Sign
<1> DEFINE new  == NewTx(cur, step, nonce)
           out == Signed(step, new)
           row == held[cur]
<1>2. /\ pc = "loop" /\ left > 0 /\ cur \in Orders /\ row \in Row /\ orders[cur] = row
      /\ IsOpen(orders[cur]) /\ RowOK(cur, row) /\ row.state.phase = "SwapReady"
  BY InHandIsStored DEF Sign
<1>3. /\ new \in Tx /\ new.order = cur /\ new.step = step /\ new.serial = signs
      /\ new.placement = placed[cur]
      /\ signs \in Nat
  BY <1>2, NewTxType DEF NewTx, IInv, TypeOK
<1>4. UNCHANGED <<orders, allowBroadcast, released, sent, succeeded, reverted,
                  accountNonce, now, faults, placed, replays>>
  BY DEF Sign, chainVars
<1>5. out \in Outcome /\ Settle(out) /\ Moves(row, out)
      /\ apply(row, out) = Broadcasting(step, new)
  BY <1>1, <1>2, <1>3, OutcomeTypes DEF Moves, apply, Confirmed, Signed
<1> HIDE DEF new
<1>6. new \notin sent
  <2>1. \A t \in sent : t.serial < signs
    BY DEF IInv, SentOK
  <2> QED
    BY <1>3, <2>1
<1>7. /\ pc' = "moved" /\ cur' = cur
      /\ held'[cur].state = Broadcasting(step, new)
      /\ held'[cur].attempts = row.attempts
  <2> HIDE DEF out
  <2> QED
    BY <1>2, <1>5, SettleMoves
<1>8. WriteOK'
  <2>1. /\ held'[cur].state.phase = "Broadcasting" /\ held'[cur].state.step = step
        /\ held'[cur].state.tx = new
    BY <1>7 DEF Broadcasting
  <2>2. RowOK(cur, held[cur])'
    BY <1>1, <1>2, <1>3, <1>4, <1>7, <2>1 DEF RowOK
  <2>3. Continues(orders[cur], held[cur])'
    BY <1>2, <1>4, <1>6, <1>7, <2>1 DEF Continues
  <2> QED
    BY <1>2, <1>4, <1>7, <2>2, <2>3 DEF WriteOK, IsOpen
<1>9. SentOK' /\ OneSwapPerOrder'
  <2>1. \A t \in sent : t.serial \in Nat /\ t.serial < signs
    BY DEF IInv, TypeOK, Tx, SentOK
  <2>2. \A t \in sent : t.serial < signs'
    BY <1>1, <1>3, <2>1
  <2>3. SentOK'
    BY <1>4, <2>2 DEF IInv, SentOK
  <2> QED
    BY <1>4, <2>3 DEF IInv, OneSwapPerOrder, Swaps
<1>10. signs' \in Nat /\ signs' >= signs /\ sent' \in SUBSET Tx /\ sent \subseteq sent'
  BY <1>1, <1>3, <1>4 DEF IInv, TypeOK
<1> HIDE DEF out
<1> QED
  BY <1>2, <1>4, <1>5, <1>8, <1>9, <1>10, SettleOK

LEMMA SignFailsOK == ASSUME IInv, SignFails PROVE IInv'
<1> DEFINE out == Plain("ExecFailed")
           row == held[cur]
<1>1. /\ pc = "loop" /\ left > 0 /\ cur \in Orders /\ row \in Row /\ orders[cur] = row
      /\ IsOpen(orders[cur]) /\ RowOK(cur, row) /\ row.state.phase = "SwapReady"
  BY InHandIsStored DEF SignFails
<1>2. /\ out \in Outcome /\ Settle(out) /\ Moves(row, out)
      /\ apply(row, out) = Ended("Failed", NoTx)
  BY <1>1, OutcomeTypes DEF SignFails, Moves, apply, Confirmed, Plain, Kinds
<1> HIDE DEF out
<1>3. /\ pc' = "moved" /\ cur' = cur
      /\ held'[cur].state = Ended("Failed", NoTx)
      /\ held'[cur].attempts = row.attempts
  BY <1>1, <1>2, SettleMoves
<1>4. UNCHANGED <<orders, allowBroadcast, released, chainVars, signs, now, faults, placed, replays>>
  BY DEF SignFails
<1>5. WriteOK'
  <2>1. held'[cur].state.phase = "Failed" /\ held'[cur].state.tx = NoTx
    BY <1>3 DEF Ended
  <2>2. RowOK(cur, held[cur])' /\ Continues(orders[cur], held[cur])'
    BY <1>1, <1>3, <1>4, <2>1 DEF RowOK, Continues
  <2> QED
    BY <1>1, <1>3, <1>4, <2>2 DEF WriteOK, IsOpen
<1> QED
  BY <1>1, <1>2, <1>4, <1>5, SettleOnlyOK

\* Sending the stored bytes once more, or for the first time, adds no other
\* transaction of this order.
LEMMA SentGrows ==
  ASSUME IInv, Performs("Broadcast"), sent' \in {sent, sent \cup {held[cur].state.tx}},
         UNCHANGED <<orders, succeeded, signs, placed>>
  PROVE  /\ sent' \in SUBSET Tx /\ sent \subseteq sent'
         /\ SentOK' /\ OneSwapPerOrder'
<1> DEFINE new == held[cur].state.tx
<1>1. /\ cur \in Orders /\ orders[cur].state.tx = new /\ orders[cur] # NoRow
      /\ orders[cur].state.phase = "Broadcasting"
      /\ new \in Tx /\ new.order = cur /\ new.serial < signs
      /\ new.placement = placed[cur] /\ placed[cur] \in Nat /\ placed[cur] > 0
  BY InHandIsStored DEF IsOpen, RowOK, IInv, RowsOK, TypeOK
<1> HIDE DEF new
<1>2. sent' \in SUBSET Tx /\ sent \subseteq sent'
  BY <1>1 DEF IInv, TypeOK, new
<1>3. SentOK'
  <2>1. ASSUME NEW tx \in sent' PROVE tx \in sent \/ tx = new
    BY <2>1 DEF new
  <2>2. placed[cur] <= placed[cur]
    BY <1>1
  <2> QED
    BY <1>1, <2>1, <2>2 DEF IInv, SentOK
<1>4. ASSUME NEW t \in Swaps(cur), t.placement = placed[cur] PROVE t = new
  <2>1. t \in sent /\ t.order = cur /\ t.step = "Swap" /\ ~(t.placement < placed[cur])
    BY <1>1, <1>4 DEF Swaps
  <2> QED
    BY <1>1, <2>1 DEF IInv, SentOK
<1>5. OneSwapPerOrder'
  BY <1>1, <1>4 DEF IInv, OneSwapPerOrder, Swaps, new
<1> QED
  BY <1>2, <1>3, <1>5

LEMMA SendOK == ASSUME IInv, Send PROVE IInv'
<1> DEFINE row == held[cur]
           out == Broadcast(row.state.tx, now)
<1>1. /\ pc = "loop" /\ left > 0 /\ cur \in Orders /\ row \in Row /\ orders[cur] = row
      /\ IsOpen(orders[cur]) /\ RowOK(cur, row) /\ row.state.phase = "Broadcasting"
      /\ row.state.tx \in Tx /\ now \in Nat
  BY InHandIsStored DEF Send, RowOK, IInv, TypeOK
<1>2. /\ out \in Outcome /\ Settle(out) /\ Moves(row, out)
      /\ apply(row, out) = Submitted(row.state.step, row.state.tx, now)
  BY <1>1, OutcomeTypes DEF Send, Moves, apply, Confirmed, Broadcast
<1> HIDE DEF out
<1>3. /\ pc' = "moved" /\ cur' = cur
      /\ held'[cur].state = Submitted(row.state.step, row.state.tx, now)
      /\ held'[cur].attempts = row.attempts
  BY <1>1, <1>2, SettleMoves
<1>4. /\ UNCHANGED <<orders, allowBroadcast, released, succeeded, reverted,
                    accountNonce, signs, now, faults, placed, replays>>
      /\ sent' \in {sent, sent \cup {row.state.tx}}
  BY DEF Send
<1>5. WriteOK'
  <2>1. /\ held'[cur].state.phase = "Submitted" /\ held'[cur].state.tx = row.state.tx
        /\ held'[cur].state.step = row.state.step
    BY <1>3 DEF Submitted
  <2>2. RowOK(cur, held[cur])' /\ Continues(orders[cur], held[cur])'
    BY <1>1, <1>3, <1>4, <2>1 DEF RowOK, Continues
  <2> QED
    BY <1>1, <1>3, <1>4, <2>2 DEF WriteOK, IsOpen
<1>6. signs' \in Nat /\ signs' >= signs
  BY <1>4 DEF IInv, TypeOK
<1>7. sent' \in SUBSET Tx /\ sent \subseteq sent' /\ SentOK' /\ OneSwapPerOrder'
  BY <1>4, SentGrows DEF Send
<1> QED
  BY <1>1, <1>2, <1>4, <1>5, <1>6, <1>7, SettleOK

LEMMA SendFailsOK == ASSUME IInv, SendFails PROVE IInv'
<1> DEFINE row == held[cur]
           out == Plain("ExecFailed")
<1>1. /\ pc = "loop" /\ left > 0 /\ cur \in Orders /\ row \in Row /\ orders[cur] = row
      /\ IsOpen(orders[cur]) /\ RowOK(cur, row) /\ row.state.phase = "Broadcasting"
      /\ row.attempts \in Nat /\ SwapRetryCap \in Nat /\ now \in Nat
  BY InHandIsStored, MachineAssumption DEF SendFails, Row, IInv, TypeOK
<1>2. out \in Outcome /\ Settle(out) /\ out.kind = "ExecFailed"
  BY <1>1, OutcomeTypes DEF SendFails, Plain, Kinds
<1> HIDE DEF out
<1>3. /\ UNCHANGED <<orders, allowBroadcast, released, succeeded, reverted,
                    accountNonce, signs, now, faults, placed, replays>>
      /\ sent' \in {sent, sent \cup {row.state.tx}}
  BY DEF SendFails
<1>4. ASSUME row.attempts >= SwapRetryCap PROVE WriteOK'
  <2>1. Moves(row, out) /\ apply(row, out) = Ended("SwapQuarantined", row.state.tx)
    BY <1>1, <1>2, <1>4 DEF Moves, apply, Confirmed
  <2>2. /\ pc' = "moved" /\ cur' = cur
        /\ held'[cur].state = Ended("SwapQuarantined", row.state.tx)
        /\ held'[cur].attempts = row.attempts
    BY <1>1, <1>2, <2>1, SettleMoves
  <2>3. /\ held'[cur].state.phase = "SwapQuarantined" /\ held'[cur].state.tx = row.state.tx
    BY <2>2 DEF Ended
  <2>4. row.attempts = SwapRetryCap
    BY <1>1, <1>4 DEF RowOK
  <2>5. RowOK(cur, held[cur])' /\ Continues(orders[cur], held[cur])'
    BY <1>1, <1>3, <2>2, <2>3, <2>4 DEF RowOK, Continues
  <2> QED
    BY <1>1, <1>3, <2>2, <2>5 DEF WriteOK, IsOpen
<1>5. ASSUME row.attempts < SwapRetryCap PROVE WriteOK'
  <2>1. /\ pc' = "retry" /\ cur' = cur /\ held'[cur] = RetryLater(row)
    BY <1>1, <1>2, <1>5 DEF Settle, Moves, Keeps, IInv, TypeOK
  <2>2. /\ held'[cur].state = row.state /\ held'[cur].attempts = row.attempts + 1
    BY <1>1, <2>1, RowUpdates
  <2>3. RowOK(cur, held[cur])' /\ Continues(orders[cur], held[cur])'
    BY <1>1, <1>3, <1>5, <2>1, <2>2 DEF RowOK, Continues
  <2> QED
    BY <1>1, <1>3, <2>1, <2>3 DEF WriteOK, IsOpen
<1>6. WriteOK'
  BY <1>1, <1>4, <1>5
<1>7. signs' \in Nat /\ signs' >= signs
  BY <1>3 DEF IInv, TypeOK
<1>8. sent' \in SUBSET Tx /\ sent \subseteq sent' /\ SentOK' /\ OneSwapPerOrder'
  BY <1>3, SentGrows DEF SendFails
<1> QED
  BY <1>1, <1>2, <1>3, <1>6, <1>7, <1>8, SettleOK

LEMMA BlockOK == ASSUME IInv, Block PROVE IInv'
<1> DEFINE row == held[cur]
           out == Plain("BroadcastBlocked")
<1>1. /\ pc = "loop" /\ left > 0 /\ cur \in Orders /\ row \in Row /\ orders[cur] = row
      /\ IsOpen(orders[cur]) /\ RowOK(cur, row) /\ row.state.phase = "Broadcasting"
  BY InHandIsStored DEF Block
<1>2. /\ out \in Outcome /\ Settle(out) /\ Moves(row, out)
      /\ apply(row, out) = Ended("Failed", NoTx)
  BY <1>1, OutcomeTypes DEF Block, Moves, apply, Confirmed, Plain, Kinds
<1>3. FALSE \in BroadcastModes
  BY ExecutionAssumption, Zenon DEF Block, IInv, TypeOK
<1> HIDE DEF out
<1>4. /\ pc' = "moved" /\ cur' = cur
      /\ held'[cur].state = Ended("Failed", NoTx)
      /\ held'[cur].attempts = row.attempts
  BY <1>1, <1>2, SettleMoves
<1>5. UNCHANGED <<orders, allowBroadcast, released, chainVars, signs, now, faults, placed, replays>>
  BY DEF Block
<1>6. WriteOK'
  <2>1. held'[cur].state.phase = "Failed"
    BY <1>4 DEF Ended
  <2>2. RowOK(cur, held[cur])' /\ Continues(orders[cur], held[cur])'
    BY <1>1, <1>3, <1>4, <1>5, <2>1 DEF RowOK, Continues
  <2> QED
    BY <1>1, <1>4, <1>5, <2>2 DEF WriteOK, IsOpen
<1> QED
  BY <1>1, <1>2, <1>5, <1>6, SettleOnlyOK

\* A receipt that has not come yet ends the order's turn.
LEMMA StillPendingOK ==
  ASSUME IInv, Performs("CheckReceipt"), Settle(Plain("StillPending")),
         UNCHANGED <<orders, allowBroadcast, released, chainVars, signs, now, faults, placed, replays>>
  PROVE  IInv'
<1>1. Leave
  BY DEF Settle, Moves, Plain
<1> QED
  BY <1>1, LeaveOK DEF Performs, Driving, IInv, TypeOK

LEMMA CheckReceiptFailsOK == ASSUME IInv, CheckReceiptFails PROVE IInv'
BY StillPendingOK DEF CheckReceiptFails

LEMMA CheckReceiptOK == ASSUME IInv, CheckReceipt PROVE IInv'
<1> DEFINE row == held[cur]
           out == Plain(ReceiptOutcome(row))
<1>1. /\ pc = "loop" /\ left > 0 /\ cur \in Orders /\ row \in Row /\ orders[cur] = row
      /\ IsOpen(orders[cur]) /\ RowOK(cur, row) /\ row.state.phase = "Submitted"
      /\ row.state.tx \in Tx /\ row.state.tx.order = cur /\ row.state.tx.step = row.state.step
  BY InHandIsStored DEF CheckReceipt, RowOK
<1>2. Performs("CheckReceipt") /\ Settle(out)
      /\ UNCHANGED <<orders, allowBroadcast, released, chainVars, signs, now, faults, placed, replays>>
  BY DEF CheckReceipt
<1>3. CASE ReceiptOutcome(row) = "StillPending"
  BY <1>2, <1>3, StillPendingOK
<1>4. CASE ReceiptOutcome(row) # "StillPending"
  <2>1. /\ ReceiptOutcome(row) \in {"Confirmed", "Reverted", "ReceiptTimedOut"}
        /\ ReceiptOutcome(row) = "Confirmed" => row.state.tx \in succeeded
    BY <1>4 DEF ReceiptOutcome
  <2> DEFINE new == apply(row, out)
  <2>2. /\ out \in Outcome /\ Moves(row, out)
        /\ \/ /\ new.phase = "Filled" /\ new.tx = row.state.tx
              /\ row.state.step = "Swap" /\ row.state.tx \in succeeded
           \/ /\ new.phase = "SwapReady" /\ new.tx = NoTx
              /\ row.state.step # "Swap" /\ row.state.tx \in succeeded
           \/ new.phase = "Failed" /\ new.tx = row.state.tx
    BY <1>1, <2>1, OutcomeTypes DEF Moves, apply, Confirmed, Plain, Kinds, Ended, SwapReady
  <2> HIDE DEF out, new
  <2>3. /\ pc' = "moved" /\ cur' = cur
        /\ held'[cur].state = new
        /\ held'[cur].attempts = row.attempts
    BY <1>1, <1>2, <2>2, SettleMoves DEF new
  <2>4. RowOK(cur, held[cur])'
    BY <1>1, <1>2, <2>2, <2>3 DEF RowOK, chainVars
  <2>5. Continues(orders[cur], held[cur])'
    BY <1>1, <1>2, <2>2, <2>3 DEF Continues, chainVars
  <2>6. WriteOK'
    BY <1>1, <1>2, <2>3, <2>4, <2>5 DEF WriteOK, IsOpen
  <2> QED
    BY <1>1, <1>2, <2>2, <2>6, SettleOnlyOK
<1> QED
  BY <1>3, <1>4

-----------------------------------------------------------------------------
(* The theorems.                                                           *)

LEMMA NextOK == ReleasesAreApart /\ IInv /\ [Next]_vars => IInv'
<1> SUFFICES ASSUME ReleasesAreApart, IInv, [Next]_vars PROVE IInv'
  OBVIOUS
<1>1. CASE UNCHANGED vars
  <2>1. TypeOK'
    BY <1>1 DEF IInv, TypeOK, vars, sweepVars, chainVars
  <2>2. UNCHANGED <<orders, pc, held, cur, left, sent, signs, placed>> /\ succeeded \subseteq succeeded'
    BY <1>1 DEF vars, sweepVars, chainVars
  <2>3. ReleasedOK'
    BY <1>1 DEF IInv, ReleasedOK, vars, sweepVars, chainVars
  <2> QED
    BY <2>1, <2>2, <2>3, TableStays DEF IInv
<1>2. ASSUME NEW o \in Orders, Place(o) PROVE IInv'
  BY <1>2, PlaceOK
<1>3. CASE Sweep
  BY <1>3, StartSweepOK, EndSweepOK, StopDrivingOK, PersistOK, SignOK, SignFailsOK,
     SendOK, SendFailsOK, BlockOK, CheckReceiptOK, NextOrderOK
  DEF Sweep
<1>4. CASE CheckReceiptFails \/ PersistFails \/ Restart \/ Tick
  BY <1>4, CheckReceiptFailsOK, PersistFailsOK, RestartOK, TickOK
<1>5. ASSUME NEW p \in Operators, WriteReleased(p) PROVE IInv'
  BY <1>5, WriteReleasedOK
<1>6. ASSUME NEW p \in Operators, NEW o \in Orders, ReadQuarantined(p, o) PROVE IInv'
  BY <1>6, ReadQuarantinedOK
<1>7. ASSUME NEW tx \in sent, Land(tx) PROVE IInv'
  BY <1>7, LandOK
<1> QED
  BY <1>1, <1>2, <1>3, <1>4, <1>5, <1>6, <1>7 DEF Next

\* The inductive invariant holds of every reachable state, for any number of
\* orders, crashes, failed upserts, retries and ticks seen again, and of
\* operators where no two release while ticks are seen again.
THEOREM Invariance ==
  ASSUME ReleasesAreApart
  PROVE  Spec => []IInv
<1>1. IInv /\ [Next]_vars => IInv'
  BY NextOK
<1> QED
  BY <1>1, InitOK, PTL DEF Spec

\* Types: what the database and the loop hold is always of the declared form.
THEOREM TypeCorrect ==
  ASSUME ReleasesAreApart
  PROVE  Spec => []TypeOK
<1>1. IInv => TypeOK
  BY DEF IInv
<1> QED
  BY <1>1, Invariance, PTL

\* No crash, failed upsert, lost answer or restart with another broadcast
\* setting makes an order hand the chain two different swaps for one placement.
THEOREM NoSecondSwap ==
  ASSUME ReleasesAreApart
  PROVE  Spec => []OneSwapPerOrder
<1>1. IInv => OneSwapPerOrder
  BY DEF IInv
<1> QED
  BY <1>1, Invariance, PTL

\* As long as broadcasting is never switched off, the orders table accounts
\* for everything a node was given since the order was last placed: only a tick
\* seen again loses a transaction.
THEOREM NothingSentIsForgotten ==
  ASSUME BroadcastModes = {TRUE}, ReleasesAreApart
  PROVE  Spec => []SentIsRecorded
<1>1. FALSE \notin BroadcastModes
  BY Zenon
<1>2. IInv => SentIsRecorded
  BY <1>1 DEF IInv, SentOK, SentIsRecorded
<1> QED
  BY <1>2, Invariance, PTL

\* Filled is said only of an order whose own swap the chain executed.
THEOREM FilledTruly ==
  ASSUME ReleasesAreApart
  PROVE  Spec => []FilledIsLanded
<1>1. IInv => FilledIsLanded
  BY DEF IInv, TypeOK, RowsOK, RowOK, FilledIsLanded, Swaps
<1> QED
  BY <1>1, Invariance, PTL

\* Failed sends are counted across restarts and never exceed the cap.
THEOREM RetryCap ==
  ASSUME ReleasesAreApart
  PROVE  Spec => []RetriesAreCapped
<1>1. IInv => RetriesAreCapped
  BY DEF IInv, RowsOK, RowOK, RetriesAreCapped
<1> QED
  BY <1>1, Invariance, PTL

------------------------------------------------------------------------------
(* The execution loop implements the lifecycle of an order.                *)

Stage   == [o \in Orders |-> StatusOf(orders[o])]
Swapped == [o \in Orders |-> {tx.placement : tx \in Swaps(o) \cap succeeded}]

\* Writing one row moves one order.
LEMMA WriteMoves ==
  ASSUME TypeOK, NEW o \in Orders, NEW new, orders' = [orders EXCEPT ![o] = new],
         UNCHANGED <<sent, succeeded>>
  PROVE  /\ Stage' = [Stage EXCEPT ![o] = StatusOf(new)]
         /\ Swapped' = Swapped
<1>1. Stage' = [Stage EXCEPT ![o] = StatusOf(new)]
  BY DEF TypeOK, Stage, StatusOf, status
<1>2. Swapped' = Swapped
  BY DEF Swapped, Swaps
<1> QED
  BY <1>1, <1>2

\* Every action but four leaves the abstract state alone.
LEMMA Stutters ==
  ASSUME IInv,
         \/ UNCHANGED <<orders, sent, succeeded, placed>>
         \/ Send \/ SendFails
  PROVE  Stage' = Stage /\ Swapped' = Swapped /\ placed' = placed
<1>1. succeeded \subseteq sent
  BY DEF IInv, TypeOK
<1>2. CASE UNCHANGED <<orders, sent, succeeded, placed>>
  BY <1>2 DEF Stage, Swapped, StatusOf, status, Swaps
<1>3. CASE Send \/ SendFails
  <2> DEFINE tx == held[cur].state.tx
  <2>1. UNCHANGED <<orders, succeeded, placed>> /\ sent' \in {sent, sent \cup {tx}}
    BY <1>3 DEF Send, SendFails
  <2>2. sent \subseteq sent' /\ sent' \subseteq sent \cup {tx}
    BY <2>1
  <2>3. Stage' = Stage
    BY <2>1 DEF Stage, StatusOf, status
  <2>4. \A o : Swaps(o)' \cap succeeded = Swaps(o) \cap succeeded
    BY <1>1, <2>2 DEF Swaps
  <2> QED
    BY <2>1, <2>3, <2>4 DEF Swapped
<1> QED
  BY <1>2, <1>3

\* A move of the lifecycle, as the mapping shows it.
LEMMA MoveIs ==
  ASSUME NEW o \in Orders, NEW from, NEW to,
         Stage[o] \in from, Stage' = [Stage EXCEPT ![o] = to], Swapped' = Swapped
  PROVE  Lifecycle!Move(o, from, to)
BY DEF Lifecycle!Move, Stage, Swapped

\* Placing an order and storing a transition: the write that is due is one
\* move of the lifecycle, or none.
LEMMA PlaceMoves ==
  ASSUME IInv, NEW o \in Orders, Place(o)
  PROVE  Lifecycle!Place(o)
<1>1. NewOrder # NoRow /\ status(NewOrder) = "Pending"
  BY ExecutionAssumption, MachineAssumption
  DEF NewOrder, Row, State, SwapReady, Steps, Open, NoTime, status
<1>2. /\ Stage' = [Stage EXCEPT ![o] = "Pending"] /\ Swapped' = Swapped
      /\ Stage[o] \in {"Absent", "Failed"}
  BY <1>1, WriteMoves DEF Place, IInv, StatusOf, Stage, chainVars
<1>3. Lifecycle!Move(o, {"Absent", "Failed"}, "Pending")
  BY <1>2 DEF Lifecycle!Move, Stage, Swapped
<1> QED
  BY <1>3 DEF Lifecycle!Place, Place

LEMMA PersistMoves ==
  ASSUME IInv, Persist
  PROVE  \/ \E o \in Orders : \/ Lifecycle!Submit(o) \/ Lifecycle!Continue(o)
                              \/ Lifecycle!Fill(o) \/ Lifecycle!Fail(o) \/ Lifecycle!Park(o)
         \/ Stage' = Stage /\ Swapped' = Swapped /\ placed' = placed
<1> DEFINE old  == orders[cur]
           new  == held[cur]
           from == status(old)
           to   == status(new)
<1>1. /\ cur \in Orders /\ old # NoRow /\ new # NoRow /\ new \in Row
      /\ RowOK(cur, new) /\ Continues(old, new)
  BY DEF IInv, InHand, Driving, Persist, WriteOK, IsOpen, TypeOK
<1>2. /\ Stage' = [Stage EXCEPT ![cur] = to] /\ Swapped' = Swapped
      /\ Stage[cur] = from /\ placed' = placed
  BY <1>1, WriteMoves DEF Persist, IInv, StatusOf, Stage, chainVars
<1>3. \/ from = to
      \/ from = "Pending" /\ to \in {"Submitted", "Quarantined", "Failed"}
      \/ from = "Submitted" /\ to \in {"Failed", "Pending"}
      \/ from = "Submitted" /\ to = "Filled" /\ new.state.phase = "Filled"
  BY <1>1 DEF Continues, status
<1> HIDE DEF from, to
<1>4. CASE from = to
  BY <1>1, <1>2, <1>4 DEF Stage
<1>5. ASSUME NEW F, from \in F PROVE Lifecycle!Goes(cur, F, to)
  <2>1. Lifecycle!Move(cur, F, to)
    BY <1>1, <1>2, <1>5, MoveIs
  <2> QED
    BY <1>2, <2>1 DEF Lifecycle!Goes
<1>6. CASE from = "Pending" /\ to \in {"Submitted", "Quarantined", "Failed"}
  <2>1. Lifecycle!Goes(cur, {"Pending"}, to) /\ Lifecycle!Goes(cur, {"Pending", "Submitted"}, to)
    BY <1>5, <1>6
  <2> QED
    BY <1>1, <1>6, <2>1 DEF Lifecycle!Submit, Lifecycle!Park, Lifecycle!Fail
<1>7. CASE from = "Submitted" /\ to \in {"Failed", "Pending"}
  <2>1. Lifecycle!Goes(cur, {"Submitted"}, to) /\ Lifecycle!Goes(cur, {"Pending", "Submitted"}, to)
    BY <1>5, <1>7
  <2> QED
    BY <1>1, <1>7, <2>1 DEF Lifecycle!Continue, Lifecycle!Fail
<1>8. CASE from = "Submitted" /\ to = "Filled" /\ new.state.phase = "Filled"
  <2>1. new.state.tx \in Swaps(cur) \cap succeeded /\ new.state.tx.placement = placed[cur]
    BY <1>1, <1>8 DEF RowOK, Swaps, IInv, TypeOK
  <2>2. placed[cur] \in Swapped[cur]
    BY <1>1, <2>1 DEF Swapped
  <2>3. Lifecycle!Goes(cur, {"Submitted"}, "Filled")
    BY <1>5, <1>8
  <2>4. Lifecycle!Fill(cur)
    BY <2>2, <2>3 DEF Lifecycle!Fill, Swapped
  <2> QED
    BY <1>1, <2>4
<1> QED
  BY <1>3, <1>4, <1>6, <1>7, <1>8

LEMMA ReleaseMoves ==
  ASSUME IInv, NEW p \in Operators, WriteReleased(p)
  PROVE  \/ \E o \in Orders : Lifecycle!Release(o)
         \/ Stage' = Stage /\ Swapped' = Swapped /\ placed' = placed
<1> DEFINE o   == released[p].order
           new == ReleasedRow(released[p].tx)
<1>1. /\ o \in Orders \cup {NoOrder}
      /\ orders[o] # NoRow
      /\ orders[o].state.phase \in {"SwapQuarantined", "Failed"}
  BY DEF IInv, ReleasedOK, TypeOK, WriteReleased, NoRelease
<1>2. o \in Orders
  BY DEF IInv, ReleasedOK, TypeOK, WriteReleased, NoRelease
<1>3. new # NoRow /\ status(new) = "Failed"
  <2>1. released[p].tx \in Tx \cup {NoTx}
    BY DEF IInv, TypeOK, WriteReleased, NoRelease
  <2>2. new \in Row
    BY <2>1 DEF ReleasedRow, Row, State, Ended, NoTime, Terminal, Steps
  <2> QED
    BY <2>2, ExecutionAssumption DEF ReleasedRow, Ended, status
<1>4. /\ Stage' = [Stage EXCEPT ![o] = "Failed"] /\ Swapped' = Swapped
      /\ Stage[o] \in {"Quarantined", "Failed"}
  <2>1. TypeOK /\ orders' = [orders EXCEPT ![o] = new] /\ UNCHANGED <<sent, succeeded>>
    BY DEF IInv, WriteReleased, chainVars
  <2>2. Stage[o] \in {"Quarantined", "Failed"}
    BY <1>1, <1>2 DEF Stage, StatusOf, status
  <2> HIDE DEF new
  <2> QED
    <3>1. /\ Stage' = [Stage EXCEPT ![o] = StatusOf(new)]
          /\ Swapped' = Swapped
      BY <1>2, <2>1, WriteMoves
    <3> QED
      BY <1>3, <2>2, <3>1 DEF StatusOf
<1>5. placed' = placed
  BY DEF WriteReleased
<1>6. CASE Stage[o] = "Failed"
  BY <1>2, <1>4, <1>5, <1>6 DEF Stage
<1>7. CASE Stage[o] \in {"Quarantined"}
  <2>1. Lifecycle!Move(o, {"Quarantined"}, "Failed")
    BY <1>2, <1>4, <1>7 DEF Lifecycle!Move, Stage, Swapped
  <2> QED
    BY <1>2, <1>5, <2>1 DEF Lifecycle!Release, Lifecycle!Goes
<1> QED
  BY <1>4, <1>6, <1>7

\* A receipt is the swap of one order or says nothing new: by OneSwapPerOrder
\* an order has no second swap to be mined.
LEMMA LandMoves ==
  ASSUME IInv, NEW tx \in sent, Land(tx)
  PROVE  \/ \E o \in Orders : Lifecycle!Swap(o)
         \/ Stage' = Stage /\ Swapped' = Swapped /\ placed' = placed
<1> DEFINE o == tx.order
           n == tx.placement
<1>1. /\ tx \in Tx /\ o \in Orders /\ succeeded \subseteq sent
      /\ n \in 1 .. placed[o]
  <2>1. n \in Nat /\ placed[o] \in Nat /\ 0 < n /\ n <= placed[o]
    BY DEF IInv, TypeOK, SentOK, Tx
  <2> QED
    BY <2>1 DEF IInv, TypeOK, Tx
<1>2. Stage' = Stage /\ placed' = placed
  BY DEF Land, Stage, StatusOf, status
<1>3. /\ UNCHANGED sent
      /\ succeeded' = succeeded \/ succeeded' = succeeded \cup {tx}
  BY DEF Land
<1>4. CASE tx \in Swaps(o) /\ tx \notin succeeded /\ succeeded' = succeeded \cup {tx}
  <2>1. \A s \in Swaps(o) \cap succeeded : s.placement # n
    BY <1>1, <1>4 DEF IInv, OneSwapPerOrder
  <2>2. (Swaps(o) \cap succeeded)' = (Swaps(o) \cap succeeded) \cup {tx}
    BY <1>3, <1>4 DEF Swaps
  <2>3. \A q \in Orders : q # o => (Swaps(q) \cap succeeded)' = Swaps(q) \cap succeeded
    BY <1>3, <1>4 DEF Swaps
  <2>4. n \notin Swapped[o]
    BY <1>1, <2>1 DEF Swapped
  <2>5. Swapped'[o] = Swapped[o] \cup {n}
    <3>1. Swapped'[o] = {s.placement : s \in (Swaps(o) \cap succeeded)'}
      BY <1>1 DEF Swapped
    <3>2. Swapped[o] = {s.placement : s \in Swaps(o) \cap succeeded}
      BY <1>1 DEF Swapped
    <3> QED
      BY <2>2, <3>1, <3>2
  <2>6. \A q \in Orders : q # o => Swapped'[q] = Swapped[q]
    BY <2>3 DEF Swapped
  <2>7. Swapped' = [Swapped EXCEPT ![o] = Swapped[o] \cup {n}]
    BY <1>1, <2>5, <2>6 DEF Swapped
  <2>8. Lifecycle!Swap(o)
    BY <1>1, <1>2, <2>4, <2>7 DEF Lifecycle!Swap, Stage, Swapped
  <2> QED
    BY <1>1, <2>8
<1>5. CASE ~(tx \in Swaps(o) /\ tx \notin succeeded /\ succeeded' = succeeded \cup {tx})
  <2>1. \A q \in Orders : (Swaps(q) \cap succeeded)' = Swaps(q) \cap succeeded
    BY <1>3, <1>5 DEF Swaps
  <2> QED
    BY <1>2, <2>1 DEF Swapped
<1> QED
  BY <1>4, <1>5

LEMMA StepImplements ==
  ASSUME IInv, [Next]_vars
  PROVE  [Lifecycle!Next]_(Lifecycle!vars)
<1>1. CASE UNCHANGED vars
  <2>1. UNCHANGED <<orders, sent, succeeded, placed>>
    BY <1>1 DEF vars, chainVars
  <2> QED
    BY <2>1, Stutters DEF Lifecycle!vars, Stage, Swapped
<1>2. ASSUME NEW o \in Orders, Place(o) PROVE Lifecycle!Place(o)
  BY <1>2, PlaceMoves
<1>3. CASE Sweep
  <2>1. CASE Persist
    BY <2>1, PersistMoves DEF Lifecycle!Next, Lifecycle!vars, Stage, Swapped
  <2>2. CASE Sweep /\ ~Persist
    <3>1. \/ UNCHANGED <<orders, sent, succeeded, placed>>
          \/ Send \/ SendFails
      BY <2>2 DEF Sweep, StartSweep, EndSweep, StopDriving, Sign, SignFails, Block,
                  CheckReceipt, NextOrder, chainVars
    <3> QED
      BY <3>1, Stutters DEF Lifecycle!vars, Stage, Swapped
  <2> QED
    BY <1>3, <2>1, <2>2
<1>4. CASE CheckReceiptFails \/ PersistFails \/ Restart \/ Tick
  <2>1. UNCHANGED <<orders, sent, succeeded, placed>>
    BY <1>4 DEF CheckReceiptFails, PersistFails, Restart, Tick, chainVars
  <2> QED
    BY <2>1, Stutters DEF Lifecycle!vars, Stage, Swapped
<1>5. ASSUME NEW p \in Operators, WriteReleased(p)
      PROVE  [Lifecycle!Next]_(Lifecycle!vars)
  BY <1>5, ReleaseMoves DEF Lifecycle!Next, Lifecycle!vars, Stage, Swapped
<1>6. ASSUME NEW p \in Operators, NEW o \in Orders, ReadQuarantined(p, o)
      PROVE  [Lifecycle!Next]_(Lifecycle!vars)
  <2>1. UNCHANGED <<orders, sent, succeeded, placed>>
    BY <1>6 DEF ReadQuarantined, chainVars
  <2> QED
    BY <2>1, Stutters DEF Lifecycle!vars, Stage, Swapped
<1>7. ASSUME NEW tx \in sent, Land(tx) PROVE [Lifecycle!Next]_(Lifecycle!vars)
  BY <1>7, LandMoves DEF Lifecycle!Next, Lifecycle!vars, Stage, Swapped
<1>8. ASSUME NEW o \in Orders, Place(o) PROVE Lifecycle!Next
  BY <1>8, <1>2 DEF Lifecycle!Next
<1> QED
  BY <1>1, <1>3, <1>4, <1>5, <1>6, <1>7, <1>8 DEF Next, Lifecycle!vars, Stage, Swapped

LEMMA InitImplements == Init => Lifecycle!Init
BY DEF Init, Lifecycle!Init, StatusOf, Swaps

-----------------------------------------------------------------------------
\* Whatever fails or restarts, the orders table moves only as the lifecycle of
\* an order allows, a fill follows the swap, and the swap happens at most once.
THEOREM Implements ==
  ASSUME ReleasesAreApart
  PROVE  Spec => ImplementsLifecycle
<1>1. Init => Lifecycle!Init
  BY InitImplements
<1>2. IInv /\ [Next]_vars => [Lifecycle!Next]_(Lifecycle!vars)
  BY StepImplements
<1> QED
  BY <1>1, <1>2, Invariance, PTL DEF Spec, ImplementsLifecycle, Lifecycle!Spec

\* What no step of the lifecycle takes back.
Kept(o) ==
  /\ Stage[o] = "Filled" => Stage'[o] = "Filled"
  /\ Stage[o] = "Failed" => \/ Stage'[o] = "Failed"
                            \/ Stage'[o] = "Pending" /\ placed'[o] = placed[o] + 1
  /\ Stage[o] = "Quarantined" => Stage'[o] \in {"Quarantined", "Failed"}
  /\ Swapped[o] \subseteq Swapped'[o]
  /\ placed'[o] # placed[o] => Stage[o] \in {"Absent", "Failed"}

LEMMA LifecycleKeeps ==
  ASSUME NEW o \in Orders, TypeOK, [Lifecycle!Next]_(Lifecycle!vars)
  PROVE  Kept(o)
<1>0. DOMAIN Stage = Orders /\ DOMAIN Swapped = Orders /\ DOMAIN placed = Orders
  BY DEF Stage, Swapped, TypeOK
<1>1. CASE UNCHANGED Lifecycle!vars
  BY <1>1 DEF Lifecycle!vars, Stage, Swapped, Kept
<1>2. ASSUME NEW q \in Orders, NEW from, NEW to, Lifecycle!Goes(q, from, to),
             "Filled" \notin from, "Failed" \notin from, "Quarantined" \in from => to = "Failed"
      PROVE  Kept(o)
  <2>1. Stage[q] \in from /\ Stage' = [Stage EXCEPT ![q] = to] /\ Swapped' = Swapped
        /\ placed' = placed
    BY <1>2 DEF Lifecycle!Goes, Lifecycle!Move, Stage, Swapped
  <2> HIDE DEF Stage, Swapped
  <2> QED
    BY <1>0, <1>2, <2>1 DEF Kept
<1>3. ASSUME NEW q \in Orders, Lifecycle!Swap(q)
      PROVE  Kept(o)
  <2>1. PICK n : Stage' = Stage /\ placed' = placed
                 /\ Swapped' = [Swapped EXCEPT ![q] = Swapped[q] \cup {n}]
    BY <1>3 DEF Lifecycle!Swap, Stage, Swapped
  <2> HIDE DEF Stage, Swapped
  <2>2. Swapped'[o] = IF o = q THEN Swapped[q] \cup {n} ELSE Swapped[o]
    BY <1>0, <2>1
  <2> QED
    BY <2>1, <2>2 DEF Kept
<1>4. ASSUME NEW q \in Orders, Lifecycle!Place(q)
      PROVE  Kept(o)
  <2>1. /\ Stage[q] \in {"Absent", "Failed"} /\ Stage' = [Stage EXCEPT ![q] = "Pending"]
        /\ Swapped' = Swapped /\ placed' = [placed EXCEPT ![q] = placed[q] + 1]
    BY <1>4 DEF Lifecycle!Place, Lifecycle!Move, Stage, Swapped
  <2> HIDE DEF Stage, Swapped
  <2> QED
    BY <1>0, <2>1 DEF Kept
<1> QED
  BY <1>1, <1>2, <1>3, <1>4
  DEF Lifecycle!Next, Lifecycle!Submit, Lifecycle!Continue, Lifecycle!Fill,
      Lifecycle!Fail, Lifecycle!Park, Lifecycle!Release

\* How an order ended is never taken back by the loop, an operator or a crash: a
\* filled one stays filled, also when its tick is seen again (is_spent); a failed one
\* leaves only for a new placement, which nothing but such a tick makes; a parked one
\* leaves only for failed (resolve_quarantine); no swap on the chain is undone.
THEOREM SettledForGood ==
  ASSUME ReleasesAreApart
  PROVE  Spec => [][\A o \in Orders : Kept(o)]_vars
<1>1. IInv /\ [Next]_vars => \A o \in Orders : Kept(o)
  BY StepImplements, LifecycleKeeps DEF IInv
<1> QED
  BY <1>1, Invariance, PTL DEF Spec
=============================================================================
