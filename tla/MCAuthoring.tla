----------------------------- MODULE MCAuthoring -----------------------------
(* Small instances of Authoring for TLC.                                   *)
EXTENDS Authoring, TLC

CONSTANTS d1, d2, c1, c2, s1, lv1, lv2, eth, btc, usd

MCMarkets == {[base |-> eth, quote |-> usd], [base |-> btc, quote |-> usd]}
MCTokens  == {eth, btc, usd}

\* The second configuration counts eth in other units, allows less slippage and
\* no longer trades btc.
Wide   == [tradable |-> MCMarkets, decimals |-> [t \in MCTokens |-> 2], max_slippage |-> 1]
Narrow == [tradable |-> {[base |-> eth, quote |-> usd]},
           decimals |-> [t \in MCTokens |-> IF t = eth THEN 1 ELSE 2], max_slippage |-> 0]
MCConfigs == {Wide, Narrow}

Symmetry == Permutations({d1, d2}) \cup Permutations({c1, c2})
=============================================================================
