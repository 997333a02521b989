--------------------------- MODULE OrderLifecycle ---------------------------
(***************************************************************************)
(* What the execution loop promises of an order, without saying how: the   *)
(* coarse stage of crates/strategy/src/order.rs, how often the order was   *)
(* placed, and for which placements its swap has happened on the chain.    *)
(***************************************************************************)
EXTENDS Naturals

CONSTANT Orders

VARIABLES
  stage,     \* OrderStatus of each order, "Absent" before it is placed
  placed,    \* how often each order was placed
  swapped    \* the placements whose swap the chain has executed

vars == <<stage, placed, swapped>>

Init ==
  /\ stage = [o \in Orders |-> "Absent"]
  /\ placed = [o \in Orders |-> 0]
  /\ swapped = [o \in Orders |-> {}]

Move(o, from, to) ==
  /\ stage[o] \in from
  /\ stage' = [stage EXCEPT ![o] = to]
  /\ UNCHANGED swapped

\* A tick seen again places a failed order anew, and no other.
Place(o) ==
  /\ Move(o, {"Absent", "Failed"}, "Pending")
  /\ placed' = [placed EXCEPT ![o] = @ + 1]

Goes(o, from, to) == Move(o, from, to) /\ UNCHANGED placed

Submit(o) == Goes(o, {"Pending"}, "Submitted")

\* A confirmed allowance: the order has another transaction to send.
Continue(o) == Goes(o, {"Submitted"}, "Pending")

\* An order is filled only when the swap of its latest placement happened.
Fill(o) == placed[o] \in swapped[o] /\ Goes(o, {"Submitted"}, "Filled")

Fail(o) == Goes(o, {"Pending", "Submitted"}, "Failed")

Park(o) == Goes(o, {"Pending"}, "Quarantined")

Release(o) == Goes(o, {"Quarantined"}, "Failed")

\* The chain executes a swap of an order at most once for each placement.  It may
\* do so after the order has failed, or was placed again: bytes once sent cannot
\* be called back.
Swap(o) ==
  /\ \E n \in (1 .. placed[o]) \ swapped[o] :
       swapped' = [swapped EXCEPT ![o] = @ \cup {n}]
  /\ UNCHANGED <<stage, placed>>

Next ==
  \E o \in Orders :
    \/ Place(o) \/ Submit(o) \/ Continue(o) \/ Fill(o)
    \/ Fail(o) \/ Park(o) \/ Release(o) \/ Swap(o)

Spec == Init /\ [][Next]_vars
=============================================================================
