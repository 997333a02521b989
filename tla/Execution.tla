----------------------------- MODULE Execution ------------------------------
(***************************************************************************)
(* The execution loop of crates/orchestrator (run.rs, io.rs, operator.rs): *)
(* one daemon sweeps the open orders, drives each through the machine and  *)
(* stores it after every transition.  `orders` is the orders table, the    *)
(* only thing that survives a crash; `held` is the sweep's copies of rows. *)
(*                                                                         *)
(* A call that leaves the process ends an action: the call to the node is  *)
(* one step, the upsert that follows it another, and the daemon may die or *)
(* the upsert fail between the two.  The node, the clock, the operator's   *)
(* command (another process) and the trigger loop interleave with them.    *)
(***************************************************************************)
EXTENDS OrderMachine

CONSTANTS
  NoRow, NoOrder,       \* no such row; no order in hand
  Operators,            \* concurrent resolve-quarantine commands
  BroadcastModes,       \* what MAINNET_SWAP may say each time the daemon starts
  MaxTransitions,       \* MAX_TRANSITIONS_PER_PASS
  AllowanceBound,       \* bound: allowance steps come before this many signings
  MaxReplays,           \* bound: ticks seen again that place an order anew
  MaxFaults,            \* bound: crashes and failed upserts
  MaxNow                \* bound: the clock stops here

ASSUME ExecutionAssumption ==
  /\ NoRow \notin Row
  /\ NoOrder \notin Orders
  /\ BroadcastModes \in (SUBSET BOOLEAN) \ {{}}
  /\ MaxTransitions \in Nat \ {0}
  /\ AllowanceBound \in Nat
  /\ MaxReplays \in Nat
  /\ MaxFaults \in Nat /\ MaxNow \in Nat

VARIABLES
  orders,               \* the orders table
  pc, held, cur, left,  \* the sweep: its place, copies, order in hand, loop budget
  allowBroadcast,       \* deps.allow_broadcast of the running daemon
  released,             \* each operator's row between get_order and upsert_order
  sent,                 \* transactions that ever reached a node
  succeeded, reverted,  \* transactions with a receipt
  accountNonce,         \* the signer's next nonce on the chain
  signs, now, faults,   \* signings so far, unix seconds, faults so far
  placed, replays       \* how often each order was placed (history), and all but the first times

sweepVars == <<pc, held, cur, left>>
chainVars == <<sent, succeeded, reverted, accountNonce>>
vars == <<orders, sweepVars, allowBroadcast, released, chainVars, signs, now, faults, placed, replays>>

-----------------------------------------------------------------------------
StatusOf(row) == IF row = NoRow THEN "Absent" ELSE status(row)

IsOpen(row) == row # NoRow /\ ~is_terminal(row)

NoRelease == [order |-> NoOrder, tx |-> NoTx]

Init ==
  /\ orders = [o \in Orders |-> NoRow]
  /\ pc = "waiting" /\ cur = NoOrder /\ left = 0
  /\ held = [o \in Orders |-> NoRow]
  /\ allowBroadcast \in BroadcastModes
  /\ released = [p \in Operators |-> NoRelease]
  /\ sent = {} /\ succeeded = {} /\ reverted = {}
  /\ accountNonce = 0 /\ signs = 0 /\ now = 0 /\ faults = 0
  /\ placed = [o \in Orders |-> 0] /\ replays = 0

\* Mutant: the level of an order that still waits is not spent.
PlaceUnlessFilled(o) ==
  /\ StatusOf(orders[o]) \in {"Absent", "Failed", "Submitted"}
  /\ replays' = IF orders[o] = NoRow THEN replays ELSE replays + 1
  /\ replays' <= MaxReplays
  /\ orders' = [orders EXCEPT ![o] = NewOrder]
  /\ placed' = [placed EXCEPT ![o] = @ + 1]
  /\ UNCHANGED <<sweepVars, allowBroadcast, released, chainVars, signs, now, faults>>

\* The trigger loop upserts an order whose id is its level and the time of the
\* tick.  A level fires while every order of it has failed (is_spent; Trigger
\* has the rest), so a tick seen again finds no row, or a failed one, which it
\* overwrites with its transaction.
Place(o) ==
  /\ StatusOf(orders[o]) \in {"Absent", "Failed"}
  /\ replays' = IF orders[o] = NoRow THEN replays ELSE replays + 1
  /\ replays' <= MaxReplays
  /\ orders' = [orders EXCEPT ![o] = NewOrder]
  /\ placed' = [placed EXCEPT ![o] = @ + 1]
  /\ UNCHANGED <<sweepVars, allowBroadcast, released, chainVars, signs, now, faults>>

-----------------------------------------------------------------------------
(* The sweep.                                                              *)

StartSweep ==
  /\ pc = "waiting"
  /\ held' = [o \in Orders |-> IF IsOpen(orders[o]) THEN orders[o] ELSE NoRow]
  /\ pc' = "next"
  /\ UNCHANGED <<orders, cur, left, allowBroadcast, released, chainVars, signs, now, faults, placed, replays>>

\* The list is sorted by creation time, which is arbitrary here: any order
\* still in hand may be next.
NextOrder(o) ==
  /\ pc = "next" /\ held[o] # NoRow
  /\ cur' = o /\ left' = MaxTransitions /\ pc' = "loop"
  /\ UNCHANGED <<orders, held, allowBroadcast, released, chainVars, signs, now, faults, placed, replays>>

EndSweep ==
  /\ pc = "next" /\ \A o \in Orders : held[o] = NoRow
  /\ pc' = "waiting"
  /\ UNCHANGED <<orders, held, cur, left, allowBroadcast, released, chainVars, signs, now, faults, placed, replays>>

\* drive_order returns and its copy of the row is dropped.
Leave ==
  /\ held' = [held EXCEPT ![cur] = NoRow]
  /\ pc' = "next" /\ cur' = NoOrder /\ left' = 0

BackingOff == held[cur].retryAt # NoTime /\ now < held[cur].retryAt

StopDriving ==
  /\ pc = "loop"
  /\ left = 0 \/ BackingOff \/ next_action(held[cur]) = "Done"
  /\ Leave
  /\ UNCHANGED <<orders, allowBroadcast, released, chainVars, signs, now, faults, placed, replays>>

\* Mutant: the pass has no limit on transitions.
PerformsUnlimited(action) ==
  pc = "loop" /\ ~BackingOff /\ next_action(held[cur]) = action

Performs(action) ==
  pc = "loop" /\ left > 0 /\ ~BackingOff /\ next_action(held[cur]) = action

\* Mutant: a failed send is retried by signing again.
RetrySigning(row) ==
  [row EXCEPT !.state    = SwapReady,
              !.attempts = @ + 1,
              !.retryAt  = now + swap_retry_backoff_secs(row.attempts + 1)]

RetryLater(row) ==
  [row EXCEPT !.attempts = @ + 1,
              !.retryAt  = now + swap_retry_backoff_secs(row.attempts + 1)]

MovedTo(row, state) == [row EXCEPT !.state = state, !.retryAt = NoTime]

\* What drive_order does with an outcome, up to its upsert.
Settle(outcome) ==
  \/ /\ Moves(held[cur], outcome)
     /\ held' = [held EXCEPT ![cur] = MovedTo(held[cur], apply(held[cur], outcome))]
     /\ pc' = "moved"
     /\ UNCHANGED <<cur, left>>
  \/ /\ Keeps(held[cur], outcome) /\ outcome.kind # "StillPending"
     /\ held' = [held EXCEPT ![cur] = RetryLater(held[cur])]
     /\ pc' = "retry"
     /\ UNCHANGED <<cur, left>>
  \/ /\ \/ outcome.kind = "StillPending"
        \/ ~Moves(held[cur], outcome) /\ ~Keeps(held[cur], outcome)
     /\ Leave

Persist ==
  /\ pc \in {"moved", "retry"}
  /\ orders' = [orders EXCEPT ![cur] = held[cur]]
  /\ IF pc = "moved"
       THEN pc' = "loop" /\ left' = left - 1 /\ UNCHANGED <<held, cur>>
       ELSE Leave
  /\ UNCHANGED <<allowBroadcast, released, chainVars, signs, now, faults, placed, replays>>

\* Mutant: the loop goes on when a transition could not be stored.
PersistFailsUnnoticed ==
  /\ pc = "moved"
  /\ faults < MaxFaults /\ faults' = faults + 1
  /\ pc' = "loop" /\ left' = left - 1
  /\ UNCHANGED <<held, cur, orders, allowBroadcast, released, chainVars, signs, now, placed, replays>>

PersistFails ==
  /\ pc \in {"moved", "retry"}
  /\ faults < MaxFaults /\ faults' = faults + 1
  /\ Leave
  /\ UNCHANGED <<orders, allowBroadcast, released, chainVars, signs, now, placed, replays>>

-----------------------------------------------------------------------------
(* Performing an action.                                                   *)

\* The node's pending count: past every transaction it has seen.
IsPendingNonce(n) ==
  /\ n >= accountNonce
  /\ \A tx \in sent : tx.nonce # n
  /\ \A k \in accountNonce .. n - 1 : \E tx \in sent : tx.nonce = k

NewTx(o, step, nonce) ==
  [order |-> o, placement |-> placed[o], step |-> step, nonce |-> nonce, serial |-> signs]

\* The venue reports the first remaining step, the node the nonce.
Sign ==
  /\ Performs("Sign")
  /\ \E step \in Steps, nonce \in accountNonce .. accountNonce + signs :
       /\ step # "Swap" => signs < AllowanceBound
       /\ IsPendingNonce(nonce)
       /\ Settle(Signed(step, NewTx(cur, step, nonce)))
       /\ signs' = signs + 1
  /\ UNCHANGED <<orders, allowBroadcast, released, chainVars, now, faults, placed, replays>>

\* Any failure to find the step, the nonce, the calldata or the key.
SignFails ==
  /\ Performs("Sign")
  /\ Settle(Plain("ExecFailed"))
  /\ UNCHANGED <<orders, allowBroadcast, released, chainVars, signs, now, faults, placed, replays>>

\* A node keeps a transaction unless its nonce is spent.
Accepts(tx) == tx.nonce >= accountNonce

\* The node takes the bytes, has them already, or finds their nonce spent:
\* "already known" and "nonce too low" count as sent.
Send ==
  /\ Performs("Broadcast") /\ allowBroadcast
  /\ LET tx == held[cur].state.tx
     IN /\ Settle(Broadcast(tx, now))
        /\ sent' = IF Accepts(tx) THEN sent \cup {tx} ELSE sent
  /\ UNCHANGED <<orders, allowBroadcast, released, succeeded, reverted, accountNonce, signs, now, faults, placed, replays>>

\* The send fails, or it arrives and its answer is lost.
SendFails ==
  /\ Performs("Broadcast") /\ allowBroadcast
  /\ LET tx == held[cur].state.tx
     IN /\ Settle(Plain("ExecFailed"))
        /\ \/ sent' = sent
           \/ Accepts(tx) /\ sent' = sent \cup {tx}
  /\ UNCHANGED <<orders, allowBroadcast, released, succeeded, reverted, accountNonce, signs, now, faults, placed, replays>>

Block ==
  /\ Performs("Broadcast") /\ ~allowBroadcast
  /\ Settle(Plain("BroadcastBlocked"))
  /\ UNCHANGED <<orders, allowBroadcast, released, chainVars, signs, now, faults, placed, replays>>

PastDeadline(row) == now > row.state.at + ReceiptDeadline

\* Mutants: a receipt counts whatever it says; it is never overdue; the
\* deadline is looked at first.
AnyReceipt(row) ==
  IF row.state.tx \in succeeded \cup reverted THEN "Confirmed"
  ELSE IF PastDeadline(row) THEN "ReceiptTimedOut"
  ELSE "StillPending"
NeverOverdue(row) ==
  IF row.state.tx \in succeeded THEN "Confirmed"
  ELSE IF row.state.tx \in reverted THEN "Reverted"
  ELSE "StillPending"
DeadlineFirst(row) ==
  IF PastDeadline(row) THEN "ReceiptTimedOut"
  ELSE IF row.state.tx \in succeeded THEN "Confirmed"
  ELSE IF row.state.tx \in reverted THEN "Reverted"
  ELSE "StillPending"

\* What confirmation says; a landed transaction is never overdue.
ReceiptOutcome(row) ==
  IF row.state.tx \in succeeded THEN "Confirmed"
  ELSE IF row.state.tx \in reverted THEN "Reverted"
  ELSE IF PastDeadline(row) THEN "ReceiptTimedOut"
  ELSE "StillPending"

CheckReceipt ==
  /\ Performs("CheckReceipt")
  /\ Settle(Plain(ReceiptOutcome(held[cur])))
  /\ UNCHANGED <<orders, allowBroadcast, released, chainVars, signs, now, faults, placed, replays>>

\* The node cannot be asked: the deadline is not looked at.
CheckReceiptFails ==
  /\ Performs("CheckReceipt")
  /\ Settle(Plain("StillPending"))
  /\ UNCHANGED <<orders, allowBroadcast, released, chainVars, signs, now, faults, placed, replays>>

-----------------------------------------------------------------------------
(* The daemon dies and starts again; the operator; the world outside.      *)

Restart ==
  /\ faults < MaxFaults /\ faults' = faults + 1
  /\ pc' = "waiting" /\ cur' = NoOrder /\ left' = 0
  /\ held' = [o \in Orders |-> NoRow]
  /\ allowBroadcast' \in BroadcastModes
  /\ UNCHANGED <<orders, released, chainVars, signs, now, placed, replays>>

\* Mutant: the operator may release any order.
ReadAny(p, o) ==
  /\ released[p] = NoRelease
  /\ orders[o] # NoRow
  /\ released' = [released EXCEPT ![p] = [order |-> o, tx |-> orders[o].state.tx]]
  /\ UNCHANGED <<orders, sweepVars, allowBroadcast, chainVars, signs, now, faults, placed, replays>>

\* resolve_quarantine reads the row and refuses any other state.
ReadQuarantined(p, o) ==
  /\ released[p] = NoRelease
  /\ orders[o] # NoRow
  /\ Moves(orders[o], Plain("QuarantineResolved"))
  /\ released' = [released EXCEPT ![p] = [order |-> o, tx |-> orders[o].state.tx]]
  /\ UNCHANGED <<orders, sweepVars, allowBroadcast, chainVars, signs, now, faults, placed, replays>>

ReleasedRow(tx) ==
  [state |-> Ended("Failed", tx), attempts |-> 0, retryAt |-> NoTime]

\* The whole row is written back, as it was read but for the release.
WriteReleased(p) ==
  /\ released[p] # NoRelease
  /\ orders' = [orders EXCEPT ![released[p].order] = ReleasedRow(released[p].tx)]
  /\ released' = [released EXCEPT ![p] = NoRelease]
  /\ UNCHANGED <<sweepVars, allowBroadcast, chainVars, signs, now, faults, placed, replays>>

\* Transactions of one account are mined in nonce order, one per nonce.
Land(tx) ==
  /\ tx.nonce = accountNonce
  /\ accountNonce' = accountNonce + 1
  /\ \/ succeeded' = succeeded \cup {tx} /\ UNCHANGED reverted
     \/ reverted' = reverted \cup {tx} /\ UNCHANGED succeeded
  /\ UNCHANGED <<orders, sweepVars, allowBroadcast, released, sent, signs, now, faults, placed, replays>>

\* Time is only ever compared with these; it stands still when none runs.
TimerRuns(row) ==
  /\ row # NoRow
  /\ \/ row.retryAt > now
     \/ row.state.phase = "Submitted" /\ ~PastDeadline(row)

Tick ==
  /\ \E o \in Orders : TimerRuns(orders[o]) \/ TimerRuns(held[o])
  /\ now < MaxNow /\ now' = now + 1
  /\ UNCHANGED <<orders, sweepVars, allowBroadcast, released, chainVars, signs, faults, placed, replays>>

-----------------------------------------------------------------------------
Sweep ==
  \/ StartSweep \/ EndSweep \/ StopDriving \/ Persist
  \/ Sign \/ SignFails \/ Send \/ SendFails \/ Block \/ CheckReceipt
  \/ \E o \in Orders : NextOrder(o)

Next ==
  \/ \E o \in Orders : Place(o)
  \/ Sweep \/ CheckReceiptFails \/ PersistFails \/ Restart
  \/ \E p \in Operators : WriteReleased(p) \/ \E o \in Orders : ReadQuarantined(p, o)
  \/ \E tx \in sent : Land(tx)
  \/ Tick

Spec == Init /\ [][Next]_vars

\* The loop runs, time passes, and a node that is asked again and again about
\* an order's receipt answers in the end.
Fairness ==
  /\ WF_vars(Sweep)
  /\ WF_vars(Tick)
  /\ \A o \in Orders : SF_vars(cur = o /\ CheckReceipt)

LiveSpec == Spec /\ Fairness

-----------------------------------------------------------------------------
TypeOK ==
  /\ orders \in [Orders -> Row \cup {NoRow}]
  /\ pc \in {"waiting", "next", "loop", "moved", "retry"}
  /\ held \in [Orders -> Row \cup {NoRow}]
  /\ cur \in Orders \cup {NoOrder}
  /\ left \in 0 .. MaxTransitions
  /\ allowBroadcast \in BroadcastModes
  /\ released \in [Operators -> {NoRelease} \cup [order: Orders, tx: Tx \cup {NoTx}]]
  /\ sent \subseteq Tx /\ succeeded \subseteq sent /\ reverted \subseteq sent
  /\ accountNonce \in Nat /\ signs \in Nat /\ now \in Nat
  /\ faults \in 0 .. MaxFaults
  /\ placed \in [Orders -> Nat] /\ replays \in 0 .. MaxReplays
-----------------------------------------------------------------------------
(* What must hold.                                                         *)

Swaps(o) == {tx \in sent : tx.order = o /\ tx.step = "Swap"}

\* Across crashes, failed upserts and resends, an order never gives the chain
\* two different swap transactions for one placement: a resend carries the bytes
\* that were stored before the first send (drive_order's upsert precedes
\* broadcast).  Only a tick seen again, which places the order anew, adds one.
OneSwapPerOrder ==
  \A o \in Orders : \A s, t \in Swaps(o) : s.placement = t.placement => s = t

\* Until a tick seen again overwrites its order, whatever reached a node can be
\* traced from the orders table: it is the hash its order records, or an
\* allowance known to have succeeded.  An operator or a restarted daemon looking
\* for a transaction has only the table.
SentIsRecorded ==
  \A tx \in sent :
    \/ orders[tx.order].state.tx = tx
    \/ tx.step # "Swap" /\ tx \in succeeded
    \/ tx.placement < placed[tx.order]

\* An order is filled only by its own swap of its latest placement, executed
\* successfully: an allowance receipt, a revert, another order's transaction or
\* the late swap of a placement that failed never fills it.
FilledIsLanded ==
  \A o \in Orders : orders[o] # NoRow /\ orders[o].state.phase = "Filled" =>
    \E tx \in succeeded \cap Swaps(o) :
      orders[o].state.tx = tx /\ tx.placement = placed[o]

\* The stored retry count survives crashes and is a cap: no row counts more
\* than SwapRetryCap failed sends, and only one that used them all is parked.
RetriesAreCapped ==
  \A o \in Orders : orders[o] # NoRow =>
    /\ orders[o].attempts <= SwapRetryCap
    /\ orders[o].state.phase = "SwapQuarantined" => orders[o].attempts = SwapRetryCap

\* Two orders that both wait to send or to confirm never share a nonce, or one
\* of them could never be mined ("Pending nonces stay unique", io.rs).
NoncesStayUnique ==
  \A o, p \in Orders :
    /\ o # p /\ orders[o] # NoRow /\ orders[p] # NoRow
    /\ orders[o].state.phase \in {"Broadcasting", "Submitted"}
    /\ orders[p].state.phase \in {"Broadcasting", "Submitted"}
    => orders[o].state.tx.nonce # orders[p].state.tx.nonce

\* Every order that is placed is filled, failed or parked in the end: backoff,
\* the retry cap and the receipt deadline leave none behind.
EveryOrderSettles ==
  \A o \in Orders : orders[o] # NoRow ~> orders[o] # NoRow /\ is_terminal(orders[o])

\* A swap mined while its order waits for the receipt is reported as filled,
\* even when the receipt is first seen after the deadline.
Awaiting(row) == row # NoRow /\ row.state.phase = "Submitted"

MinedSwapIsReported ==
  \A o \in Orders :
    /\ Awaiting(orders[o]) /\ (held[o] = NoRow \/ Awaiting(held[o]))
    /\ orders[o].state.tx \in succeeded \cap Swaps(o)
    ~> orders[o] # NoRow /\ orders[o].state.phase = "Filled"

\* The loop implements the lifecycle of an order.
Lifecycle == INSTANCE OrderLifecycle WITH
  stage   <- [o \in Orders |-> StatusOf(orders[o])],
  swapped <- [o \in Orders |-> {tx.placement : tx \in Swaps(o) \cap succeeded}]

ImplementsLifecycle == Lifecycle!Spec

-----------------------------------------------------------------------------
(* The inductive invariant behind the properties above.                    *)

Driving == pc \in {"loop", "moved", "retry"}

\* The order in hand has a copy, and a transition comes out of the budget.
InHand ==
  /\ Driving => cur \in Orders /\ held[cur] # NoRow
  /\ pc = "moved" => left > 0

Writing(o) == pc \in {"moved", "retry"} /\ o = cur

\* An open copy that is not about to be written is the stored row: nobody else
\* writes the row of an open order.
HeldIsStored ==
  \A o \in Orders : IsOpen(held[o]) /\ ~Writing(o) => orders[o] = held[o]

\* What a row says of the transaction it names.
RowOK(o, row) ==
  /\ row.attempts <= SwapRetryCap
  /\ row.state.phase = "SwapReady" => row.state.tx = NoTx
  /\ row.state.phase \in {"Broadcasting", "Submitted"} =>
       /\ row.state.tx \in Tx
       /\ row.state.tx.order = o
       /\ row.state.tx.placement = placed[o]
       /\ row.state.tx.step = row.state.step
       /\ row.state.tx.serial < signs
  /\ row.state.phase = "Filled" =>
       /\ row.state.tx \in succeeded
       /\ row.state.tx.order = o
       /\ row.state.tx.placement = placed[o]
       /\ row.state.tx.step = "Swap"
  /\ row.state.phase = "SwapQuarantined" => row.attempts = SwapRetryCap

RowsOK ==
  \A o \in Orders : orders[o] # NoRow => placed[o] > 0 /\ RowOK(o, orders[o])

\* The write that is due continues the stored row.
Continues(old, new) ==
  LET s == old.state
      t == new.state
  IN \/ /\ pc = "retry" /\ s.phase = "Broadcasting" /\ t = s
     \/ /\ pc = "moved"
        /\ \/ s.phase = "SwapReady" /\ t.phase = "Broadcasting" /\ t.tx \notin sent
           \/ s.phase = "SwapReady" /\ t.phase = "Failed" /\ t.tx = NoTx
           \/ s.phase = "Broadcasting" /\ t.phase \in {"Submitted", "SwapQuarantined"} /\ t.tx = s.tx
           \/ s.phase = "Broadcasting" /\ t.phase = "Failed" /\ FALSE \in BroadcastModes
           \/ s.phase = "Submitted" /\ t.phase \in {"Filled", "Failed"} /\ t.tx = s.tx
           \/ s.phase = "Submitted" /\ t.phase = "SwapReady" /\ s.step # "Swap" /\ s.tx \in succeeded

WriteOK ==
  pc \in {"moved", "retry"} =>
    /\ IsOpen(orders[cur])
    /\ RowOK(cur, held[cur])
    /\ Continues(orders[cur], held[cur])

\* SentIsRecorded, for every setting of the broadcast switch.
SentOK ==
  \A tx \in sent :
    /\ tx.serial < signs
    /\ orders[tx.order] # NoRow
    /\ 0 < tx.placement /\ tx.placement <= placed[tx.order]
    /\ \/ orders[tx.order].state.tx = tx
       \/ tx.step # "Swap" /\ tx \in succeeded
       \/ tx.placement < placed[tx.order]
       \/ orders[tx.order].state.phase = "Failed" /\ FALSE \in BroadcastModes

\* Two commands that release one order at once write its row twice, and the second
\* write must not find the order placed again.
ReleasesAreApart == (\A p, q \in Operators : p = q) \/ MaxReplays = 0

\* A release in progress is of an order that only a release still writes.
ReleasedOK ==
  \A p \in Operators : released[p] # NoRelease =>
    /\ orders[released[p].order] # NoRow
    /\ \/ orders[released[p].order].state.phase = "SwapQuarantined"
       \/ orders[released[p].order].state.phase = "Failed" /\ MaxReplays = 0
    /\ orders[released[p].order].state.tx = released[p].tx

IInv ==
  /\ TypeOK /\ InHand /\ HeldIsStored /\ RowsOK /\ WriteOK
  /\ SentOK /\ OneSwapPerOrder /\ ReleasedOK
=============================================================================
