---------------------------- MODULE MCExecution -----------------------------
(* Small instances of Execution for TLC.                                   *)
EXTENDS Execution, TLC

CONSTANTS o1, o2, p1

MCOrders     == {o1, o2}
MCAllowances == {"Approval"}
OnlyOn       == {TRUE}
OffAndOn     == {TRUE, FALSE}
Symmetry     == Permutations(MCOrders)
=============================================================================
