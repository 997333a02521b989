----------------------------- MODULE MCDashboard -----------------------------
(* Values for the constants of Dashboard.  Two of everything: a selection can   *)
(* move, be lost and fall back, and a chart can be of the wrong one.            *)
EXTENDS Dashboard

MCStrategies == {1, 2}
MCLevels == {1, 2}
MCMarkets == {"eth", "sol"}

MCSeeds == {[market |-> [s \in MCStrategies |-> "eth"],
             strategy_of |-> [l \in MCLevels |-> 1], orders |-> <<2>>]}
==============================================================================
