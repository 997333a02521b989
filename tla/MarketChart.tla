----------------------------- MODULE MarketChart -----------------------------
(***************************************************************************)
(* The dashboard's market chart: what the daemon answers for a strategy    *)
(* (crates/mcp admin.rs dashboard_market, server.rs) from the pool, its    *)
(* candles and its ticks, which crates/graph reads from a subgraph in a    *)
(* query for the state and one for each page of ticks.  The queries name   *)
(* no block: the subgraph indexes further blocks between them.             *)
(*                                                                         *)
(* A pool of the subgraph is its positions over ranges of ticks, the tick  *)
(* it stands at and its TVL.  A price is a number, one for each tick; the  *)
(* floats that bound the query of ticks are taken as exact.                *)
(***************************************************************************)
EXTENDS Venue, FiniteSetsExt, Functions

CONSTANTS
  PairPrice,        \* price of the pair at each tick index
  IndexStates,      \* what the subgraph may hold of a pair: [forward, reverse, candles, quote, errors]
  MARKET_HOURS,     \* 24
  TICK_PAGE_SIZE,   \* 1_000
  MaxBlocks         \* bound: blocks indexed while a chart is read

VARIABLES
  strategy,         \* the strategy a chart is asked for, None when it is not stored
  levels,           \* its levels: [trigger, filled]
  index,            \* the subgraph
  blocks,           \* bound used up
  chart_pc,
  level_prices,     \* read before the subgraph is asked
  pool,             \* best_pool, and what comes with it
  ticks,            \* ticks fetched so far
  chart             \* DashboardMarketView, or why there is none

chart_request == <<strategy, levels>>
chart_vars == <<chart_request, index, blocks, chart_pc, level_prices, pool, ticks, chart>>

------------------------------------------------------------------------------
(* The subgraph.                                                           *)

Covering(p, tick) ==
  SumFunctionOnSet([q \in p.positions |-> q.size], {q \in p.positions : q.lo <= tick /\ tick < q.hi})

NetLiquidity(p, tick) ==
  SumFunctionOnSet([q \in p.positions |-> (IF q.lo = tick THEN q.size ELSE 0)
                                            - (IF q.hi = tick THEN q.size ELSE 0)],
                   p.positions)

ValidIndex(i) ==
  /\ \A p \in {i.forward, i.reverse} \ {None} :
       /\ IsFiniteSet(p.positions) /\ p.tick \in DOMAIN PairPrice
       /\ \A q \in p.positions :
            q.lo \in DOMAIN PairPrice /\ q.hi \in DOMAIN PairPrice /\ q.lo < q.hi /\ q.size \in Nat
  /\ IsFiniteSet(i.candles) /\ \A c \in i.candles : c.low \in Int /\ c.high \in Int
  /\ i.quote # None => i.quote \in Nat \ {0}

ASSUME ChartAssumption ==
  /\ IsFiniteSet(DOMAIN PairPrice) /\ DOMAIN PairPrice \subseteq Int
  /\ \A t \in DOMAIN PairPrice : -t \in DOMAIN PairPrice /\ PairPrice[t] \in Nat \ {0}
  /\ \A t, u \in DOMAIN PairPrice : t < u => PairPrice[t] < PairPrice[u]
  /\ TICK_PAGE_SIZE \in Nat \ {0} /\ MaxBlocks \in Nat
  /\ \A i \in IndexStates : ValidIndex(i)

IndexBlock ==
  /\ chart_pc \in {"state", "ticks"} /\ blocks < MaxBlocks
  /\ \E new \in IndexStates \ {index} :
       /\ (new.forward = None) = (index.forward = None)
       /\ (new.reverse = None) = (index.reverse = None)
       /\ index' = new
  /\ blocks' = blocks + 1
  /\ UNCHANGED <<chart_request, chart_pc, level_prices, pool, ticks, chart>>

------------------------------------------------------------------------------
(* dashboard_market.                                                       *)

Answer(reason) == chart_pc' = "answered" /\ chart' = [status |-> reason]

\* Of chains of one name the first is taken.
ChartChain ==
  LET named == {i \in DOMAIN config.chains : config.chains[i].name = strategy.chain}
  IN IF named = {} THEN None ELSE config.chains[Min(named)]

\* The strategy, then whether it can have a chart (the daemon always has a graph
\* client), then its unfilled levels.
dashboard_market ==
  /\ pc = "serving" /\ chart_pc = "asked"
  /\ CASE strategy = None -> Answer("not_found") /\ UNCHANGED level_prices
       [] /\ strategy # None
          /\ \/ strategy.venue # "uniswap" \/ ChartChain = None
             \/ ChartChain.graph_subgraph_id = "" ->
            Answer("unsupported") /\ UNCHANGED level_prices
       [] OTHER ->
            /\ level_prices' = {l.trigger : l \in {l \in levels : ~l.filled}}
            /\ chart_pc' = "state" /\ UNCHANGED chart
  /\ UNCHANGED <<chart_request, index, blocks, pool, ticks>>

\* The pool of larger TVL; the reverse one on a tie.
best_pool ==
  IF index.reverse = None \/ (index.forward # None /\ index.forward.tvl > index.reverse.tvl)
  THEN [state |-> index.forward, base_is_token0 |-> TRUE]
  ELSE [state |-> index.reverse, base_is_token0 |-> FALSE]

\* Of a pool whose tokens are the other way round the prices are turned round too.
PriceAt(is0, tick) == IF is0 THEN PairPrice[tick] ELSE PairPrice[-tick]

quote_usd(quote_token) == IF quote_token.usd_peg THEN 1 ELSE index.quote
\* Mutant: the range of the candles and levels, whatever the pool's price is.
pair_price_bounds_of_history(prices, current) == <<Min(prices) * 95, Max(prices) * 105>>

\* In hundredths of a dollar, with five of a hundred added at both ends; the code
\* divides both sides by the price of the quote token.
pair_price_bounds(prices, current) ==
  <<Min(prices \cup {current}) * 95, Max(prices \cup {current}) * 105>>

\* The last hours.
parse_prices ==
  {c \in index.candles : Cardinality({d \in index.candles : c.started_at < d.started_at}) < MARKET_HOURS}

market_state ==
  LET base   == find_token(ChartChain, strategy.base_token)
      quote  == find_token(ChartChain, strategy.quote_token)
      found  == best_pool
      usd    == quote_usd(quote)
      now    == PriceAt(found.base_is_token0, found.state.tick)
      prices == (UNION {{c.low, c.high} : c \in parse_prices}) \cup level_prices
  IN /\ chart_pc = "state"
     /\ \/ Answer("unavailable") /\ UNCHANGED pool
        \/ CASE base = None \/ quote = None \/ index.errors ->
                  Answer("unavailable") /\ UNCHANGED pool
             [] /\ ~(base = None \/ quote = None \/ index.errors)
                /\ index.forward = None /\ index.reverse = None ->
                  Answer("no_pool") /\ UNCHANGED pool
             [] OTHER ->
                  IF usd = None \/ (\E p \in prices : p <= 0)
                  THEN Answer("unavailable") /\ UNCHANGED pool
                  ELSE /\ chart_pc' = "ticks" /\ UNCHANGED chart
                       /\ pool' = [tick |-> found.state.tick, pair_price |-> now,
                                   liquidity |-> Covering(found.state, found.state.tick),
                                   base_is_token0 |-> found.base_is_token0, quote_usd |-> usd,
                                   prices |-> parse_prices,
                                   bounds |-> pair_price_bounds(prices, now * usd)]
     /\ UNCHANGED <<chart_request, index, blocks, level_prices, ticks>>

SidePool == IF pool.base_is_token0 THEN index.forward ELSE index.reverse
UsdAt(tick) == PriceAt(pool.base_is_token0, tick) * pool.quote_usd

\* The ticks that are asked for, as the subgraph has them by now, and in their order.
Found ==
  {t \in DOMAIN PairPrice : /\ NetLiquidity(SidePool, t) # 0
                            /\ UsdAt(t) * 100 \in pool.bounds[1] .. pool.bounds[2]}

InOrder(set) ==
  [i \in 1 .. Cardinality(set) |-> CHOOSE x \in set : Cardinality({y \in set : y < x}) = i - 1]

TickOf(t) == [index |-> t, net |-> NetLiquidity(SidePool, t), price |-> UsdAt(t)]

\* After those that are there already.
Page ==
  LET all  == InOrder(Found)
      left == Min({TICK_PAGE_SIZE, Cardinality(Found) - Len(ticks)})
  IN [i \in 1 .. left |-> TickOf(all[Len(ticks) + i])]

FetchPage ==
  /\ chart_pc = "ticks"
  /\ \/ Answer("unavailable") /\ UNCHANGED ticks
     \/ /\ ticks' = ticks \o Page
        /\ chart_pc' = IF Len(Page) < TICK_PAGE_SIZE THEN "points" ELSE "ticks"
        /\ UNCHANGED chart
  /\ UNCHANGED <<chart_request, index, blocks, level_prices, pool>>

------------------------------------------------------------------------------
(* liquidity_points: from the pool's own liquidity outwards, tick by tick. *)

Nets(places) == SumFunctionOnSet([k \in DOMAIN ticks |-> ticks[k].net], places)
Point(k, active) == [index |-> ticks[k].index, price |-> ticks[k].price, active |-> active]

\* Each tick takes out, on the way down, what it adds on the way up.
Below ==
  LET down == {k \in DOMAIN ticks : ticks[k].index <= pool.tick}
  IN {Point(k, pool.liquidity - Nets({j \in down : k <= j})) : k \in down}
Above ==
  LET up == {k \in DOMAIN ticks : ticks[k].index > pool.tick}
  IN {Point(k, pool.liquidity + Nets({j \in up : j <= k})) : k \in up}
Current == [index |-> pool.tick, price |-> pool.pair_price * pool.quote_usd,
            active |-> pool.liquidity]

\* Liquidity below zero is an error of the whole chart.
liquidity_points ==
  /\ chart_pc = "points" /\ chart_pc' = "answered"
  /\ chart' = IF \E p \in Below \cup Above : p.active < 0
              THEN [status |-> "unavailable"]
              ELSE [status |-> "ok", prices |-> pool.prices,
                    below |-> Below, current |-> Current, above |-> Above]
  /\ UNCHANGED <<chart_request, index, blocks, level_prices, pool, ticks>>

\* What the dashboard is answered: the daemon, and not a proxy, fails with 502.
StatusCode ==
  [ok |-> 200, not_found |-> 404, unsupported |-> 422, no_pool |-> 422,
   unavailable |-> 502][chart.status]

ChartInit ==
  /\ blocks = 0 /\ level_prices = {} /\ pool = None /\ ticks = <<>> /\ chart = None

ChartNext == dashboard_market \/ market_state \/ FetchPage \/ liquidity_points

------------------------------------------------------------------------------
ChartTypes ==
  /\ chart_pc \in {"idle", "asked", "state", "ticks", "points", "answered"}
  /\ \A i \in DOMAIN ticks : ticks[i].index \in DOMAIN PairPrice /\ ticks[i].net # 0
  /\ chart # None => StatusCode \in {200, 404, 422, 502}
  /\ blocks \in 0 .. MaxBlocks

TickRecord == [index: DOMAIN PairPrice, net: Int \ {0}, price: Int]
Candles == UNION {{c.low, c.high} : c \in pool.prices}

\* A pool that was read, and of which ticks are read.
PoolRead ==
  /\ pool.base_is_token0 \in BOOLEAN /\ SidePool # None
  /\ pool.quote_usd \in Nat \ {0} /\ pool.tick \in DOMAIN PairPrice
  /\ pool.pair_price = PriceAt(pool.base_is_token0, pool.tick)
  /\ IsFiniteSet(Candles) /\ Candles \cup level_prices \subseteq Nat \ {0}
  /\ pool.bounds = pair_price_bounds(Candles \cup level_prices, pool.pair_price * pool.quote_usd)

\* As long as the subgraph is what it was, the pool and the first of its ticks are there.
AsIndexed ==
  /\ pool.tick = SidePool.tick /\ pool.liquidity = Covering(SidePool, SidePool.tick)
  /\ Len(ticks) <= Cardinality(Found)
  /\ \A i \in 1 .. Len(ticks) : ticks[i] = TickOf(InOrder(Found)[i])
  /\ chart_pc = "points" => Len(ticks) = Cardinality(Found)

ChartOK ==
  /\ chart_pc # "idle" => ValidIndex(index)
  /\ IsFiniteSet(levels) /\ \A l \in levels : l.trigger \in Int
  /\ IsFiniteSet(level_prices) /\ level_prices \subseteq Int
  /\ ticks \in Seq(TickRecord)
  /\ chart_pc \in {"idle", "asked", "state"} => ticks = <<>>
  /\ chart_pc \in {"ticks", "points"} => PoolRead /\ (blocks = 0 => AsIndexed)

------------------------------------------------------------------------------
(* In a chart of a pool that the subgraph did not change while it was read, the
   liquidity at each tick is that of the positions which span the prices just beyond
   it, away from the current price; and between the current price and any price of a
   candle or of an unfilled level no tick is left out (the range of the tick query,
   the pages, the walk of liquidity_points). *)
PointsAreTrue ==
  chart_pc = "answered" /\ chart.status = "ok" /\ blocks = 0 =>
    LET p == SidePool
        drawn == {x.index : x \in chart.below \cup chart.above}
        shown == level_prices \cup {chart.current.price}
                   \cup UNION {{c.low, c.high} : c \in chart.prices}
    IN /\ \A x \in chart.below : x.active = Covering(p, x.index - 1)
       /\ \A x \in chart.above : x.active = Covering(p, x.index)
       /\ chart.current.active = Covering(p, p.tick)
       /\ \A t \in DOMAIN PairPrice :
            /\ NetLiquidity(p, t) # 0
            /\ UsdAt(t) \in Min(shown) .. Max(shown)
            => t \in drawn
==============================================================================
