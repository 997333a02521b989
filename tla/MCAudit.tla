------------------------------- MODULE MCAudit -------------------------------
(* A small instance of Audit for TLC.                                      *)
EXTENDS Audit, TLC

CONSTANTS q1, q2, s1, s2, t1, t2

Symmetry == Permutations(Quotes) \cup Permutations(Sessions) \cup Permutations(Tasks)
=============================================================================
