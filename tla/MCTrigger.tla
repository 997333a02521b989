------------------------------ MODULE MCTrigger ------------------------------
(* Small instances of Trigger for TLC.                                     *)
EXTENDS Trigger, TLC

CONSTANTS l1, l2, eth

MCLevels  == {l1, l2}
MCMarkets == {eth}
MCTerms   == {[market |-> eth, side |-> "buy", trigger |-> 1]}
Symmetry  == Permutations(MCLevels)
=============================================================================
