------------------------------ MODULE MCVenues ------------------------------
(* Values for the constants of Venues, and the cases it goes through: pools of  *)
(* one to three ranges at every kind of place, three chains of which two may    *)
(* go by one name, and charts of pools of either orientation.                   *)
EXTENDS Venues

(* Configurations: a fraction of two digits, a base of 20 for 10_000. *)

Tok(symbol, address, decimals, peg) ==
  [symbol |-> symbol, spelling |-> symbol, address |-> address, decimals |-> decimals, usd_peg |-> peg]

ChainOne == [name |-> "main", chain_id |-> "1", graph_subgraph_id |-> "g",
             tokens |-> {Tok("eth", "native", 1, FALSE), Tok("usd", "usd1", 2, TRUE)}]
ChainTwo == [name |-> "side", chain_id |-> "8453", graph_subgraph_id |-> "",
             tokens |-> {Tok("eth", "weth2", 1, FALSE), Tok("usd", "usd2", 1, FALSE)}]
SameName == [ChainTwo EXCEPT !.name = "main"]

Coin(symbol, type, decimals, peg) ==
  [symbol |-> symbol, coin_type |-> type, decimals |-> decimals, usd_peg |-> peg,
   price_ref |-> [chain_id |-> "1", address |-> type]]

Base == [malformed |-> {}, quote_ttl_seconds |-> 1, max_slippage_bps |-> 12,
         max_quote_deviation_bps |-> 8, chains |-> <<ChainOne, ChainTwo>>,
         keys |-> [evm |-> "k1", sui |-> "k2"],
         files |-> [k1 |-> "private", k2 |-> "private", k3 |-> "readable", k4 |-> "missing"],
         sui |-> [enabled |-> TRUE,
                  coins |-> {Coin("sui", "SUI", 1, FALSE), Coin("usdc", "USDC", 1, TRUE)}]]
Twins == [Base EXCEPT !.chains = <<ChainOne, SameName>>]
Turned == [Base EXCEPT !.chains = <<SameName, ChainOne>>]

Invalid == {[Base EXCEPT !.malformed = {"graph.gateway_url"}], [Base EXCEPT !.malformed = {"sui.rpc_url"}],
            [Base EXCEPT !.keys.evm = "k3"], [Base EXCEPT !.keys.sui = "k4"],
            [Base EXCEPT !.quote_ttl_seconds = 0],
            [Base EXCEPT !.max_slippage_bps = 21], [Base EXCEPT !.max_quote_deviation_bps = 0],
            [Base EXCEPT !.chains = <<>>, !.sui.enabled = FALSE],
            [Base EXCEPT !.keys.sui = "k1"], [Base EXCEPT !.chains = <<ChainOne, ChainOne>>],
            [Base EXCEPT !.sui.coins = {}]}

MCSupportedChains == {"1", "8453"}
MCPricedChains == {"1", "8453"}

(* Cetus: prices from 2 to 9 at five ticks, R = 4. *)

MCTickPrice == <<2, 4, 6, 8, 9>>
Pool(tick, at_price, positions, fee, paused) ==
  [coin_type_a |-> "SUI", coin_type_b |-> "USDC", sqrt_price |-> at_price, tick |-> tick,
   positions |-> positions, fee |-> fee, paused |-> paused, upward |-> -1]
Upwards(states) == {[state EXCEPT !.upward = 1] : state \in states}
Range_(lo, hi, size) == [lo |-> lo, hi |-> hi, size |-> size]
Wide == {Range_(1, 5, 6)}
Steps_ == {Range_(1, 3, 4), Range_(2, 4, 5)}
Gap == {Range_(1, 2, 6), Range_(3, 5, 5)}
Thin == {Range_(1, 5, 2), Range_(2, 3, 7)}
Many == {Range_(1, 2, 5), Range_(3, 4, 5), Range_(4, 5, 3)}

Stands == {<<1, 3>>, <<1, 4>>, <<2, 4>>, <<2, 5>>, <<2, 6>>, <<3, 6>>, <<4, 8>>}
Standing(fee) ==
  {Pool(s[1], s[2], positions, fee, FALSE) : s \in Stands, positions \in {Wide, Steps_, Gap, Thin}}
Downwards ==
  {Pool(s[1], s[2], positions, 1, FALSE) : s \in {<<1, 4>>, <<2, 6>>, <<4, 8>>}, positions \in {Steps_, Gap, Thin}}
    \cup {Pool(2, 5, Wide, 1, TRUE)}
MCPoolStates == Downwards \cup Upwards({Pool(2, 6, positions, 1, FALSE) : positions \in {Steps_, Thin}})
MCCoinDecimals == [c \in {"SUI", "USDC"} |-> 1]

SuiLevelOf(side, amount, decimals, slippage) ==
  [venue |-> "cetus", chain |-> "sui", base_token |-> "SUI", quote_token |-> "USDC",
   side |-> side, amount |-> amount, amount_decimals |-> decimals, slippage_bps |-> slippage]
SuiLevel(side, amount) == SuiLevelOf(side, amount, 1, 2)
MCCetusCases ==
  {[config |-> Base, level |-> SuiLevel(side, amount), price |-> 4,
    pools |-> [id \in {"p"} |-> state], coins |-> [c \in {"SUI", "USDC"} |-> <<9, 1, 30>>]] :
     side \in {"buy", "sell"}, amount \in {1, 3, 6, 9, 14}, state \in Standing(1) \cup Standing(3) \cup Downwards}
  \cup
  {[config |-> Base, level |-> SuiLevel(side, amount), price |-> 4,
    pools |-> [id \in {"p"} |-> state], coins |-> [c \in {"SUI", "USDC"} |-> <<30>>]] :
     side \in {"buy", "sell"}, amount \in {3, 9, 14}, state \in Upwards(Standing(1))}
  \cup
  {[config |-> Base, level |-> SuiLevel("buy", 6), price |-> 2,
    pools |-> [id \in {"p", "q"} |-> IF id = "p" THEN one ELSE other],
    coins |-> [c \in {"SUI", "USDC"} |-> <<3, 2, 30>>]] :
     one \in {Pool(2, 5, Wide, 1, TRUE), Pool(2, 5, Thin, 1, FALSE)},
     other \in {Pool(2, 5, Wide, 1, FALSE), Pool(2, 5, Steps_, 1, FALSE)}}
  \cup
  {[config |-> Base, level |-> l, price |-> p,
    pools |-> [id \in {"p"} |-> Pool(2, 5, positions, 1, FALSE)],
    coins |-> [c \in {"SUI", "USDC"} |-> <<30>>]] :
     l \in {SuiLevel("buy", 6), SuiLevelOf("buy", 5, 2, 2), SuiLevelOf("sell", 4, 1, 11), SuiLevelOf("sell", 4, 1, 13), SuiLevelOf("sell", 30, 1, 2)},
     p \in {0, 2}, positions \in {Wide, Many}}
  \cup
  {[config |-> c, level |-> SuiLevel("buy", 6), price |-> 2, pools |-> [id \in {} |-> None],
    coins |-> [t \in {"SUI", "USDC"} |-> <<>>]] : c \in Invalid \cup {Base}}

(* Uniswap. *)

EvmLevel(side, slippage, decimals) ==
  [venue |-> "uniswap", chain |-> "main", base_token |-> "eth", quote_token |-> "usd",
   side |-> side, amount |-> IF decimals = 1 THEN 20 ELSE 200, amount_decimals |-> decimals, slippage_bps |-> slippage]
Addresses == {"native", "usd1", "weth2", "usd2"}
MCUniswapCases ==
  {[config |-> c, level |-> l, price |-> 4,
    balances |-> [a \in Addresses |-> IF a = "native" THEN 20 ELSE 250], allowances |-> [a \in Addresses |-> allowed], truthful |-> TRUE,
    tvls |-> [id \in {"1", "8453"} |-> listed]] :
     c \in {Base, Twins, Turned}, l \in {EvmLevel("buy", 2, 1), EvmLevel("sell", 2, 1), EvmLevel("buy", 11, 1), EvmLevel("buy", 2, 2)},
     allowed \in {0, 3, 300}, listed \in {{}, {5, -1}, {10}}}
  \cup
  {[config |-> Base, level |-> l, price |-> p,
    balances |-> [a \in Addresses |-> 250], allowances |-> [a \in Addresses |-> 300], truthful |-> FALSE,
    tvls |-> [id \in {"1", "8453"} |-> {10}]] :
     l \in {EvmLevel("buy", 2, 2), EvmLevel("sell", 2, 1)}, p \in {0, 3, 10000000}}
MCOtherAmounts == {1, 2, 150, 299}
MCApiOuts == {0, 1, 9, 10, 36, 40, 213, 237, 360, 400}

(* Charts: ticks from -2 to 2. *)

MCPairPrice == [t \in -2 .. 2 |-> <<8, 9, 10, 11, 12>>[t + 3]]
IndexPool(tick, positions, tvl) == [tick |-> tick, positions |-> positions, tvl |-> tvl]
Market(forward, reverse, low, errors, quote) ==
  [forward |-> forward, reverse |-> reverse, errors |-> errors, quote |-> quote,
   candles |-> {[started_at |-> 1, low |-> low, high |-> low], [started_at |-> 2, low |-> low, high |-> low + 1],
                [started_at |-> 3, low |-> low, high |-> low + 1]}]
Spread == {Range_(-2, 2, 3), Range_(-1, 1, 2)}
Uneven == {Range_(-2, 0, 4), Range_(-1, 2, 1), Range_(0, 1, 2)}
MCIndexStates ==
  {Market(IndexPool(t, p, 5), None, low, FALSE, None) : t \in {-1, 0, 1}, p \in {Spread, Uneven}, low \in {8, 12}}
  \cup {Market(None, IndexPool(t, p, 5), 8, FALSE, 1) : t \in {-1, 1}, p \in {Spread, Uneven}}
  \cup {Market(IndexPool(0, Spread, 4), IndexPool(1, Uneven, 4), 9, FALSE, None),
        Market(None, None, 9, FALSE, None), Market(IndexPool(0, Spread, 4), None, 9, TRUE, None)}
ChartStrategy(venue, chain) ==
  [venue |-> venue, chain |-> chain, base_token |-> "eth", quote_token |-> "usd"]
MCChartCases ==
  {[config |-> Base, strategy |-> ChartStrategy("uniswap", "main"),
    levels |-> {[trigger |-> 12, filled |-> f], [trigger |-> 9, filled |-> TRUE]},
    index |-> i] : i \in MCIndexStates, f \in BOOLEAN}
  \cup
  {[config |-> Base, strategy |-> s, levels |-> {},
    index |-> Market(None, None, 9, FALSE, None)] :
     s \in {None, ChartStrategy("cetus", "sui"), ChartStrategy("uniswap", "side"), ChartStrategy("uniswap", "main")}}
  \cup
  {[config |-> Base, strategy |-> [ChartStrategy("uniswap", "main") EXCEPT !.base_token = base, !.quote_token = "eth"],
    levels |-> {},
    index |-> Market(IndexPool(0, Uneven, 5), IndexPool(1, Spread, 4), low, FALSE, usd)] :
     base \in {"usd", "sui"}, low \in {0, 9}, usd \in {None, 2}}
==============================================================================
