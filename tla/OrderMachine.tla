---------------------------- MODULE OrderMachine ----------------------------
(***************************************************************************)
(* The pure order state machine of crates/orchestrator/src/machine.rs: the *)
(* next action of an order, the state an outcome leads to, and the delay   *)
(* before a failed send is tried again.  It has no variables; Execution    *)
(* runs it against a database, a chain, crashes and an operator.           *)
(*                                                                         *)
(* A transaction is one value: the code stores signed bytes and the hash   *)
(* they determine.  Amounts, reasons and withdraw_action_id are carried    *)
(* along unchanged by every arm of `apply` and are left out.               *)
(***************************************************************************)
EXTENDS Integers

CONSTANTS
  Orders,            \* order ids
  Allowances,        \* the steps a venue may put before the swap
  NoTx,              \* the absent transaction hash
  SwapRetryCap,      \* SWAP_RETRY_CAP
  InitialBackoff,    \* SWAP_RETRY_INITIAL_BACKOFF_SECS
  MaxBackoff,        \* SWAP_RETRY_MAX_BACKOFF_SECS
  ReceiptDeadline    \* RECEIPT_DEADLINE_SECS

Steps == Allowances \cup {"Swap"}

\* A signed transaction: whose it is, what it does, the account nonce it
\* spends and a serial number (two signings never give the same bytes).  That
\* the order had been placed so many times when it was signed is noted for the
\* properties; no action looks at it.
Tx == [order: Orders, placement: Nat, step: Steps, nonce: Nat, serial: Nat]

ASSUME MachineAssumption ==
  /\ NoTx \notin Tx
  /\ SwapRetryCap \in Nat
  /\ InitialBackoff \in Nat
  /\ MaxBackoff \in Nat
  /\ ReceiptDeadline \in Nat

-----------------------------------------------------------------------------
NoTime == -1    \* swap_retry_after_ts = None

Open     == {"SwapReady", "Broadcasting", "Submitted"}
Terminal == {"Filled", "Failed", "SwapQuarantined"}

\* Withdrawing and Depositing exist in the type only: nothing constructs them.
State == [phase: Open \cup Terminal, step: Steps, tx: Tx \cup {NoTx}, at: Nat]

\* The part of an Order that execution changes.
Row == [state: State, attempts: Nat, retryAt: Nat \cup {NoTime}]

SwapReady ==
  [phase |-> "SwapReady", step |-> "Swap", tx |-> NoTx, at |-> 0]
Broadcasting(step, tx) ==
  [phase |-> "Broadcasting", step |-> step, tx |-> tx, at |-> 0]
Submitted(step, tx, at) ==
  [phase |-> "Submitted", step |-> step, tx |-> tx, at |-> at]
Ended(phase, tx) ==
  [phase |-> phase, step |-> "Swap", tx |-> tx, at |-> 0]

NewOrder == [state |-> SwapReady, attempts |-> 0, retryAt |-> NoTime]

is_terminal(row) == row.state.phase \in Terminal

\* Submitted, Filled and Failed have the name of their phase.
status(row) ==
  IF row.state.phase \in {"SwapReady", "Broadcasting"} THEN "Pending"
  ELSE IF row.state.phase = "SwapQuarantined" THEN "Quarantined"
  ELSE row.state.phase

next_action(row) ==
  IF row.state.phase = "SwapReady" THEN "Sign"
  ELSE IF row.state.phase = "Broadcasting" THEN "Broadcast"
  ELSE IF row.state.phase = "Submitted" THEN "CheckReceipt"
  ELSE "Done"

-----------------------------------------------------------------------------
\* What running an action produced.
Signed(step, tx)  == [kind |-> "Signed", step |-> step, tx |-> tx, at |-> 0]
Broadcast(tx, at) == [kind |-> "Broadcast", step |-> "Swap", tx |-> tx, at |-> at]
Plain(kind)       == [kind |-> kind, step |-> "Swap", tx |-> NoTx, at |-> 0]

\* apply gives a new state ...
Moves(row, outcome) ==
  \/ /\ row.state.phase = "SwapReady"
     /\ outcome.kind \in {"Signed", "ExecFailed"}
  \/ /\ row.state.phase = "Broadcasting"
     /\ \/ outcome.kind \in {"Broadcast", "BroadcastBlocked"}
        \/ outcome.kind = "ExecFailed" /\ row.attempts >= SwapRetryCap
  \/ /\ row.state.phase = "Submitted"
     /\ outcome.kind \in {"Confirmed", "Reverted", "ReceiptTimedOut"}
  \/ row.state.phase = "SwapQuarantined" /\ outcome.kind = "QuarantineResolved"

\* Mutant: the retry cap is off by one.
KeepsPastCap(row, outcome) ==
  \/ outcome.kind = "StillPending"
  \/ /\ row.state.phase = "Broadcasting" /\ outcome.kind = "ExecFailed"
     /\ row.attempts <= SwapRetryCap

\* ... or Ok(None), the order keeps its state; anything else is an error.
Keeps(row, outcome) ==
  \/ outcome.kind = "StillPending"
  \/ /\ row.state.phase = "Broadcasting" /\ outcome.kind = "ExecFailed"
     /\ row.attempts < SwapRetryCap

\* Mutant: any confirmed receipt fills the order.
FilledByAny(s) == Ended("Filled", s.tx)

\* A confirmed swap fills the order, a confirmed allowance leads to the next step.
Confirmed(s) ==
  IF s.step = "Swap" THEN Ended("Filled", s.tx) ELSE SwapReady

\* The state an order moves to.
apply(row, outcome) ==
  LET s == row.state
  IN IF outcome.kind = "Signed" THEN Broadcasting(outcome.step, outcome.tx)
     ELSE IF outcome.kind = "Broadcast" THEN Submitted(s.step, outcome.tx, outcome.at)
     ELSE IF outcome.kind = "Confirmed" THEN Confirmed(s)
     ELSE IF outcome.kind = "ExecFailed" /\ s.phase = "Broadcasting" THEN
       Ended("SwapQuarantined", s.tx)
     ELSE IF outcome.kind \in {"ExecFailed", "BroadcastBlocked"} THEN Ended("Failed", NoTx)
     ELSE Ended("Failed", s.tx)

\* 2, 4, 8, ... seconds, never above MaxBackoff.
swap_retry_backoff_secs(attempts) ==
  LET shift   == IF attempts - 1 > 20 THEN 20 ELSE IF attempts = 0 THEN 0 ELSE attempts - 1
      doubled == InitialBackoff * 2 ^ shift
  IN IF doubled \in 0 .. MaxBackoff THEN doubled ELSE MaxBackoff
=============================================================================
