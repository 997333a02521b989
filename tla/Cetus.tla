-------------------------------- MODULE Cetus --------------------------------
(***************************************************************************)
(* The Cetus venue (crates/cetus): finds the pool of a pair, reads its     *)
(* state and then its ticks, walks a swap through the ticks as the pool's  *)
(* contract would, and builds the transaction of a stored plan.  Every     *)
(* read of a pool, and each page of its ticks, is a call of its own, and   *)
(* traders and liquidity providers go on between two of them.              *)
(*                                                                         *)
(* A pool is what its contract keeps of it: the liquidity positions over   *)
(* ranges of ticks, the price and tick it stands at, a fee, a pause flag,  *)
(* and the sign it gives to the net liquidity of a tick.  Prices are       *)
(* square roots scaled by R (2^64 in the code); sums that leave 128 bits   *)
(* wrap or fail as the code lets them.                                     *)
(***************************************************************************)
EXTENDS Venue, FiniteSetsExt, Functions

CONSTANTS
  R,                              \* 2^64
  U128, U64,                      \* 2^128, 2^64: integers are below
  FEE_RATE_DENOMINATOR,
  MIN_SQRT_PRICE, MAX_SQRT_PRICE,
  TickPrice,                      \* sqrt price of each tick index
  CoinDecimals,                   \* CoinMetadata of the coin types that have one
  PoolStates,                     \* states a pool can be in
  MAX_TICKS_FETCHED,
  TickPage,                       \* ticks listed by one call: 1000
  CoinPage,                       \* coins listed for an owner: 50
  MaxMoves,                       \* bound: what others do to pools and coins meanwhile
  Multiple                        \* a multiple of every price, for the properties

Tick == DOMAIN TickPrice

VARIABLES
  pools,       \* the registry and the pools: pool id to its state
  coins,       \* the owner's coin objects: coin type to balances, in the node's order
  moves,       \* bound used up
  candidates,  \* pools of the pair that discover_pool has still to look at
  best,        \* the best it has seen
  seen,        \* PoolState and ticks, as fetched
  walk         \* compute_swap: what is left and what it has come to

cetus_chain == <<pools, coins, moves>>
cetus_vars == <<cetus_chain, candidates, best, seen, walk>>

------------------------------------------------------------------------------
(* What a pool's contract keeps of its positions.                          *)

LiquidityAt(pool, tick) ==
  SumFunctionOnSet([p \in pool.positions |-> p.size],
                   {p \in pool.positions : p.lo <= tick /\ tick < p.hi})

\* liquidity_net: what crossing the tick upwards adds where `upward' is 1, and downwards
\* where it is -1.  The contract is not here: swap_math.rs reads it as -1, and of the
\* repository's own ticks some are of the one sign and some of the other.
NetAt(pool, tick) ==
  pool.upward * SumFunctionOnSet([p \in pool.positions |-> (IF p.lo = tick THEN p.size ELSE 0)
                                                             - (IF p.hi = tick THEN p.size ELSE 0)],
                                 pool.positions)

\* A pool stands between its tick and the next, and no liquidity leaves 128 bits.
ValidPool(pool) ==
  /\ IsFiniteSet(pool.positions)
  /\ \A p \in pool.positions : p.lo \in Tick /\ p.hi \in Tick /\ p.lo < p.hi /\ p.size \in Nat \ {0}
  /\ \A t \in Tick : LiquidityAt(pool, t) < U128
  /\ pool.tick \in Tick /\ pool.tick + 1 \in Tick
  /\ pool.sqrt_price \in TickPrice[pool.tick] .. TickPrice[pool.tick + 1]
  /\ pool.fee \in 0 .. FEE_RATE_DENOMINATOR - 1
  /\ pool.upward \in {1, -1}

ASSUME CetusAssumption ==
  /\ \A c \in DOMAIN CoinDecimals : CoinDecimals[c] \in 0 .. Places
  /\ {R, U64, U128, FEE_RATE_DENOMINATOR, MIN_SQRT_PRICE, MAX_SQRT_PRICE, Multiple} \subseteq Nat \ {0}
  /\ U64 <= U128 /\ MaxMoves \in Nat
  /\ IsFiniteSet(Tick) /\ Tick \subseteq Int
  /\ \A t \in Tick : TickPrice[t] \in MIN_SQRT_PRICE .. MAX_SQRT_PRICE
  /\ \A t, u \in Tick : t < u => TickPrice[t] < TickPrice[u]
  /\ \A s \in MIN_SQRT_PRICE .. MAX_SQRT_PRICE : Multiple % s = 0
  /\ \A p \in PoolStates : ValidPool(p)

InitializedTicks(pool) == UNION {{p.lo, p.hi} : p \in pool.positions}

Coins(pool) == {pool.coin_type_a, pool.coin_type_b}

\* Another trade, a position added or taken out, a pause or its end.
MovePool(id) ==
  /\ moves < MaxMoves
  /\ \E state \in PoolStates \ {pools[id]} :
       /\ state.coin_type_a = pools[id].coin_type_a /\ state.coin_type_b = pools[id].coin_type_b
       /\ state.upward = pools[id].upward
       /\ pools' = [pools EXCEPT ![id] = state]
  /\ moves' = moves + 1
  /\ UNCHANGED <<coins, candidates, best, seen, walk>>

\* Another order spends the owner's first coin of a type.
SpendCoin(type) ==
  /\ moves < MaxMoves /\ coins[type] # <<>>
  /\ coins' = [coins EXCEPT ![type] = Tail(@)]
  /\ moves' = moves + 1
  /\ UNCHANGED <<pools, candidates, best, seen, walk>>

------------------------------------------------------------------------------
(* discover_pool, fetch_pool_state, fetch_ticks.                           *)

ListRegistry ==
  /\ pc = "registry"
  /\ candidates' = {id \in DOMAIN pools : Coins(pools[id]) = {request.token_in, request.token_out}}
  /\ best' = None
  /\ IF candidates' = {} THEN Reject ELSE pc' = "discover" /\ UNCHANGED <<request, draft>>
  /\ UNCHANGED <<config, level, price, plan, tx, cetus_chain, seen, walk>>

\* A pool that is paused, or that cannot be read, is passed over.
Consider(id) ==
  /\ pc = "discover" /\ id \in candidates
  /\ candidates' = candidates \ {id}
  /\ LET liquidity == LiquidityAt(pools[id], pools[id].tick)
     IN \E read \in BOOLEAN :
          best' = IF ~read \/ pools[id].paused \/ (best # None /\ liquidity <= best.liquidity) THEN best
                  ELSE [pool |-> id, liquidity |-> liquidity]
  /\ UNCHANGED <<venue_vars, cetus_chain, seen, walk>>

Discovered ==
  /\ pc = "discover" /\ candidates = {}
  /\ IF best = None THEN Reject ELSE pc' = "state" /\ UNCHANGED <<request, draft>>
  /\ UNCHANGED <<config, level, price, plan, tx, cetus_vars>>

FetchState ==
  LET pool == pools[best.pool]
  IN /\ pc = "state"
     /\ IF pool.paused
        THEN Reject /\ UNCHANGED seen
        ELSE /\ pc' = "ticks" /\ UNCHANGED <<request, draft>>
             /\ seen' = [sqrt_price |-> pool.sqrt_price, tick |-> pool.tick,
                         liquidity |-> LiquidityAt(pool, pool.tick), fee |-> pool.fee,
                         net |-> <<>>]
     /\ UNCHANGED <<config, level, price, plan, tx, cetus_chain, candidates, best, walk>>

a2b == pools[best.pool].coin_type_a = request.token_in

\* The amount is read with the decimals of the chain, not of the configuration.
InputAmount ==
  IF ~({request.token_in, request.token_out} \subseteq DOMAIN CoinDecimals) THEN None
  ELSE LET raw == parse_units_string(request.amount, CoinDecimals[request.token_in])
       IN IF raw = None THEN None ELSE IF raw < U64 THEN raw ELSE None

\* The ticks are listed in one order, which only stands here as that of their index,
\* and a page begins after the last one that was listed.
PagesOf(rest) ==
  {page \in SUBSET rest :
     /\ \A t \in page, u \in rest \ page : t < u
     /\ Cardinality(page) <= TickPage /\ (page # rest => Cardinality(page) = TickPage)}

FetchTicks ==
  LET pool == pools[best.pool]
      rest == {t \in InitializedTicks(pool) : \A u \in DOMAIN seen.net : u < t}
  IN /\ pc = "ticks"
     /\ \E page \in PagesOf(rest) :
          LET net == [t \in DOMAIN seen.net \cup page |->
                        IF t \in page THEN NetAt(pool, t) ELSE seen.net[t]]
          IN IF Cardinality(DOMAIN net) > MAX_TICKS_FETCHED
             THEN Reject /\ UNCHANGED seen
             ELSE /\ seen' = [seen EXCEPT !.net = net]
                  /\ pc' = IF page = rest THEN "decimals" ELSE "ticks"
                  /\ UNCHANGED <<request, draft>>
     /\ UNCHANGED <<config, level, price, plan, tx, cetus_chain, candidates, best, walk>>

\* What a coin's decimals are never changes.
FetchDecimals ==
  /\ pc = "decimals"
  /\ IF InputAmount = None
     THEN Reject /\ UNCHANGED walk
     ELSE /\ pc' = "walk" /\ UNCHANGED <<request, draft>>
          /\ walk' = [remaining |-> InputAmount, liquidity |-> seen.liquidity,
                      sqrt_price |-> seen.sqrt_price, ticks |-> DOMAIN seen.net,
                      amount_in |-> 0, amount_out |-> 0, fee_amount |-> 0, crossed |-> 0]
  /\ UNCHANGED <<config, level, price, plan, tx, cetus_chain, candidates, best, seen>>

\* Any of the calls may fail.
CetusQuoteFails ==
  /\ pc \in {"registry", "discover", "state", "ticks", "decimals"} /\ Reject
  /\ UNCHANGED <<config, level, price, plan, tx, cetus_vars>>

------------------------------------------------------------------------------
(* swap_math.rs, for the exact input the daemon always asks for.           *)

Distance(a, b) == IF a < b THEN b - a ELSE a - b
CeilDiv(a, b) == (a + b - 1) \div b
DivRoundUpIf(a, b, round_up) == IF round_up THEN CeilDiv(a, b) ELSE a \div b

\* Between two prices: how much of coin a, and how much of coin b.
get_delta_a(s, t, liquidity, round_up) ==
  DivRoundUpIf((liquidity * Distance(s, t) * R) % (U128 * U128), s * t, round_up)

get_delta_b(s, t, liquidity, round_up) ==
  DivRoundUpIf(liquidity * Distance(s, t), R, round_up)

get_next_sqrt_price_a_up(s, liquidity, amount) ==
  IF amount = 0 THEN s
  ELSE CeilDiv((s * liquidity * R) % (U128 * U128), liquidity * R + s * amount)

get_next_sqrt_price_b_down(s, liquidity, amount) ==
  s + (amount * R) \div liquidity

get_next_sqrt_price_from_input(s, liquidity, amount, a_to_b) ==
  IF a_to_b THEN get_next_sqrt_price_a_up(s, liquidity, amount)
  ELSE get_next_sqrt_price_b_down(s, liquidity, amount)

get_delta_up_from_input(s, t, liquidity, a_to_b) ==
  IF a_to_b THEN get_delta_a(s, t, liquidity, TRUE) ELSE get_delta_b(s, t, liquidity, TRUE)

get_delta_down_from_output(s, t, liquidity, a_to_b) ==
  IF a_to_b THEN get_delta_b(s, t, liquidity, FALSE) ELSE get_delta_a(s, t, liquidity, FALSE)

AfterFee(amount, fee) == (amount * (FEE_RATE_DENOMINATOR - fee)) \div FEE_RATE_DENOMINATOR

\* Goes to the target, or as far as the amount lasts.
compute_swap_step(s, target, liquidity, amount, fee) ==
  LET a_to_b  == s >= target
      remain  == AfterFee(amount, fee)
      most    == get_delta_up_from_input(s, target, liquidity, a_to_b)
      partial == most > remain
      next    == IF partial THEN get_next_sqrt_price_from_input(s, liquidity, remain, a_to_b)
                 ELSE target
  IN IF liquidity = 0
     THEN [most |-> 0, amount_in |-> 0, amount_out |-> 0, fee_amount |-> 0, next |-> target]
     ELSE [most       |-> most,
           amount_in  |-> IF partial THEN remain ELSE most,
           amount_out |-> get_delta_down_from_output(s, next, liquidity, a_to_b),
           fee_amount |-> IF partial THEN amount - remain
                          ELSE CeilDiv(most * fee, FEE_RATE_DENOMINATOR - fee),
           next       |-> next]

\* Also an input that is not taken must have 128 bits.
InBounds(step) ==
  /\ {step.most, step.amount_in, step.amount_out} \subseteq 0 .. U128 - 1
  /\ step.next \in MIN_SQRT_PRICE .. MAX_SQRT_PRICE
  /\ step.amount_in + step.fee_amount <= walk.remaining

------------------------------------------------------------------------------
(* compute_swap: one tick after the other, away from the pool's own.       *)

\* Mutant: leaves out the tick the pool stands at.
AheadOf(ticks) == {t \in ticks : IF a2b THEN t < seen.tick ELSE t > seen.tick}

Ahead(ticks) == {t \in ticks : IF a2b THEN t <= seen.tick ELSE t > seen.tick}

NextTick == IF a2b THEN Max(Ahead(walk.ticks)) ELSE Min(Ahead(walk.ticks))

TargetOf(tick) ==
  IF a2b THEN Max({MIN_SQRT_PRICE, TickPrice[tick]}) ELSE Min({MAX_SQRT_PRICE, TickPrice[tick]})

\* Mutant: keeps a negative sum.
CrossedSigned(tick) ==
  IF a2b THEN walk.liquidity + seen.net[tick] ELSE walk.liquidity - seen.net[tick]
\* Mutant: takes the net for what crossing the tick upwards adds.
CrossedUpwards(tick) ==
  (IF a2b THEN walk.liquidity - seen.net[tick] ELSE walk.liquidity + seen.net[tick]) % U128

\* In 128 bits, whatever the sign of the sum.
Crossed(tick) ==
  (IF a2b THEN walk.liquidity + seen.net[tick] ELSE walk.liquidity - seen.net[tick]) % U128

WalkTick ==
  /\ pc = "walk" /\ walk.remaining # 0 /\ Ahead(walk.ticks) # {}
  /\ LET tick == NextTick
         step == compute_swap_step(walk.sqrt_price, TargetOf(tick), walk.liquidity,
                                   walk.remaining, seen.fee)
     IN IF ~InBounds(step) THEN Reject /\ UNCHANGED walk
        ELSE /\ walk' = [remaining  |-> IF step.amount_in = 0 THEN walk.remaining
                                        ELSE walk.remaining - step.amount_in - step.fee_amount,
                         liquidity  |-> IF step.next = TickPrice[tick] THEN Crossed(tick)
                                        ELSE walk.liquidity,
                         sqrt_price |-> step.next,
                         ticks      |-> walk.ticks \ {tick},
                         amount_in  |-> walk.amount_in + step.amount_in,
                         amount_out |-> walk.amount_out + step.amount_out,
                         fee_amount |-> walk.fee_amount + step.fee_amount,
                         crossed    |-> walk.crossed + 1]
             /\ UNCHANGED <<pc, request, draft>>
  /\ UNCHANGED <<config, level, price, plan, tx, cetus_chain, candidates, best, seen>>

WalkEnd ==
  LET minimum_out == apply_slippage(walk.amount_out, request.slippage_bps)
      decimals == CoinDecimals[request.token_out]
  IN /\ pc = "walk" /\ (walk.remaining = 0 \/ Ahead(walk.ticks) = {})
     /\ IF walk.remaining # 0 \/ walk.amount_out >= U64 \/ minimum_out = None
        THEN Reject
        ELSE /\ draft' = [amount_in |-> request.amount,
                          expected_amount_out |-> format_units_string(walk.amount_out, decimals),
                          minimum_amount_out |-> format_units_string(minimum_out, decimals),
                          output_decimals |-> decimals,
                          plan |-> [kind |-> "cetus", pool |-> best.pool, a2b |-> a2b,
                                    input_amount |-> InputAmount, min_amount_out |-> minimum_out]]
             /\ pc' = "drafted" /\ UNCHANGED request
     /\ UNCHANGED <<config, level, price, plan, tx, cetus_vars>>

------------------------------------------------------------------------------
(* build: always one step, the swap.                                       *)

CetusBuild ==
  /\ pc = "steps" /\ plan.kind = "cetus"
  /\ \E read \in BOOLEAN : pc' = IF read /\ ~pools[plan.pool].paused THEN "fund" ELSE "failed"
  /\ UNCHANGED <<config, level, price, request, draft, plan, tx, cetus_vars>>

\* fund_exact_coin: the first coins that make up the amount, of the first page.
CetusFund ==
  LET type == IF plan.a2b THEN pools[plan.pool].coin_type_a ELSE pools[plan.pool].coin_type_b
      listed == {n \in 1 .. CoinPage : n <= Len(coins[type])}
      enough == {n \in listed : SumFunctionOnSet(coins[type], 1 .. n) >= plan.input_amount}
  IN /\ pc = "fund"
     /\ \/ pc' = "failed" /\ UNCHANGED tx
        \/ /\ enough # {} /\ pc' = "done"
             /\ tx' = [step |-> "swap", pool |-> plan.pool, a2b |-> plan.a2b,
                       input |-> type, merged |-> Min(enough), split |-> plan.input_amount,
                       limit |-> plan.min_amount_out,
                       sqrt_price_limit |-> IF plan.a2b THEN MIN_SQRT_PRICE ELSE MAX_SQRT_PRICE]
     /\ UNCHANGED <<config, level, price, request, draft, plan, cetus_vars>>

CetusInit ==
  /\ moves = 0 /\ candidates = {} /\ best = None /\ seen = None /\ walk = None

CetusNext ==
  \/ ListRegistry \/ (\E id \in candidates : Consider(id)) \/ Discovered
  \/ FetchState \/ FetchTicks \/ FetchDecimals \/ CetusQuoteFails \/ WalkTick \/ WalkEnd
  \/ CetusBuild \/ CetusFund

CetusMoves == (\E id \in DOMAIN pools : MovePool(id)) \/ (\E c \in DOMAIN coins : SpendCoin(c))

------------------------------------------------------------------------------
(* Types, and what they rest on.                                           *)

WalkType ==
  /\ walk.remaining \in 0 .. U64 - 1 /\ walk.liquidity \in 0 .. U128 - 1
  /\ walk.sqrt_price \in MIN_SQRT_PRICE .. MAX_SQRT_PRICE
  /\ walk.amount_in \in Nat /\ walk.amount_out \in Nat /\ walk.fee_amount \in Nat
  /\ walk.crossed \in 0 .. Cardinality(Tick)

CetusTypes ==
  /\ moves \in 0 .. MaxMoves /\ candidates \subseteq DOMAIN pools
  /\ best # None => best.pool \in DOMAIN pools /\ best.liquidity \in Nat
  /\ walk # None => WalkType

\* What was read of a pool is what a pool can be, however often it moved meanwhile.
ReadOK ==
  /\ \A id \in DOMAIN pools : ValidPool(pools[id])
  /\ pc \in {"state", "ticks", "decimals", "walk"} => best # None
  /\ pc \in {"ticks", "decimals", "walk"} =>
       /\ DOMAIN seen = {"sqrt_price", "tick", "liquidity", "fee", "net"}
       /\ seen.sqrt_price \in MIN_SQRT_PRICE .. MAX_SQRT_PRICE
       /\ seen.liquidity \in 0 .. U128 - 1 /\ seen.fee \in 0 .. FEE_RATE_DENOMINATOR - 1
       /\ DOMAIN seen.net \subseteq Tick /\ \A t \in DOMAIN seen.net : seen.net[t] \in Int
  /\ pc = "walk" =>
       /\ WalkType /\ InputAmount \in 1 .. U64 - 1
       /\ walk.ticks \subseteq DOMAIN seen.net
       /\ walk.crossed + Cardinality(walk.ticks) <= Cardinality(Tick)

------------------------------------------------------------------------------
(* What the pool itself would take and pay, position by position.          *)

Within(s, p) ==
  IF s < TickPrice[p.lo] THEN TickPrice[p.lo] ELSE IF TickPrice[p.hi] < s THEN TickPrice[p.hi] ELSE s

\* Of coin a, in units of 1/Multiple, and of coin b, in units of 1/R.
ExactA(pool, s, t) ==
  SumFunctionOnSet([p \in pool.positions |->
                      p.size * R * Distance(Multiple \div Within(s, p), Multiple \div Within(t, p))],
                   pool.positions)
ExactB(pool, s, t) ==
  SumFunctionOnSet([p \in pool.positions |-> p.size * Distance(Within(s, p), Within(t, p))],
                   pool.positions)

\* The code shifts and multiplies in 256 bits, and keeps results of 128: each of the
\* three holds of a liquidity below 2^96.
HasRoom(liquidity) ==
  /\ liquidity * MAX_SQRT_PRICE * R < U128 * U128
  /\ liquidity * R <= (U128 - 1) * MIN_SQRT_PRICE
  /\ liquidity * MAX_SQRT_PRICE <= (U128 - 1) * R

Fits(pool) == \A t \in Tick : HasRoom(LiquidityAt(pool, t))

\* From the price a walk began at to the one it has come to, by what it took and gave.
Traded ==
  LET pool == pools[best.pool]
      a    == ExactA(pool, walk.sqrt_price, pool.sqrt_price)
      b    == ExactB(pool, walk.sqrt_price, pool.sqrt_price)
      output == IF a2b THEN b ELSE a
      unit   == IF a2b THEN R ELSE Multiple
  IN /\ IF a2b THEN a <= walk.amount_in * Multiple ELSE b <= walk.amount_in * R
     /\ walk.amount_out * unit <= output /\ output <= (walk.amount_out + walk.crossed) * unit

\* A net decides about the quote from the second tick on.
CountsNets == walk.crossed > 1 \/ (walk.crossed = 1 /\ walk.remaining # 0 /\ Ahead(walk.ticks) # {})

\* Nets add downwards, as compute_swap takes them, or do not count yet.
NetsAreRead == pools[best.pool].upward = -1 \/ ~CountsNets

(* A quote of a pool that nobody touched since it was read, whose liquidity the
   arithmetic has room for, and whose nets have the sign compute_swap takes them to
   have, or do not matter since it stops at the first tick, takes the whole input, the
   fee included, and never more out of the pool than its positions hold between the
   two prices, nor less than that but for one unit a crossed tick; and what goes in
   pays for the move of the price: reading the liquidity tick by tick loses or
   invents none of the positions (compute_swap against the positions). *)
QuoteIsThePools ==
  moves = 0 /\ walk # None /\ Fits(pools[best.pool]) /\ NetsAreRead =>
    /\ Traded
    /\ walk.remaining = 0 =>
         /\ walk.amount_in + walk.fee_amount = InputAmount
         /\ walk.fee_amount * FEE_RATE_DENOMINATOR >= InputAmount * pools[best.pool].fee

(* Such a pool is refused as too small only where it is: no position is
   left beyond the price the walk has come to, or what is left of the input is so
   little that all of it would be fee (compute_swap's `insufficient liquidity'). *)
RefusalIsTrue ==
  moves = 0 /\ pc = "rejected" /\ walk # None /\ walk.remaining # 0
    /\ Fits(pools[best.pool]) /\ NetsAreRead =>
    \/ AfterFee(walk.remaining, seen.fee) = 0
    \/ \A p \in pools[best.pool].positions :
         IF a2b THEN walk.sqrt_price <= TickPrice[p.lo] ELSE TickPrice[p.hi] <= walk.sqrt_price

------------------------------------------------------------------------------
(* The inductive invariant behind the two: where the walk through a pool   *)
(* that does not move has come to.                                         *)

\* No net of the other sign was added yet.
NetsStand == pools[best.pool].upward = -1 \/ walk.crossed = 0

\* The walk goes from s to t, or stays.
Onward(s, t) == IF a2b THEN t <= s ELSE s <= t

\* It enters a position at the near end and leaves it at the far one.
Near(p) == IF a2b THEN p.hi ELSE p.lo
Far(p) == IF a2b THEN p.lo ELSE p.hi
Inside ==
  {p \in pools[best.pool].positions : Far(p) \in Ahead(walk.ticks) /\ Near(p) \notin Ahead(walk.ticks)}

\* The price is past the ticks that were crossed, and the liquidity is that of the
\* positions it is inside of.
Going ==
  LET pool  == pools[best.pool]
      ahead == Ahead(walk.ticks)
  IN /\ walk.amount_in + walk.fee_amount + walk.remaining = InputAmount
     /\ NetsStand => walk.liquidity = SumFunctionOnSet([p \in pool.positions |-> p.size], Inside)
     /\ \A t \in ahead : Onward(walk.sqrt_price, TickPrice[t])
     /\ \A t \in InitializedTicks(pool) \ ahead :
          Onward(TickPrice[t], walk.sqrt_price) /\ \A u \in ahead : Onward(t, u)

\* What is left is all fee, and nothing moves any more.
Stuck ==
  /\ walk.remaining # 0 /\ AfterFee(walk.remaining, seen.fee) = 0 /\ walk.liquidity # 0
  /\ \A t \in Ahead(walk.ticks) :
       Onward(walk.sqrt_price, TickPrice[t]) /\ walk.sqrt_price # TickPrice[t]

Done == walk.remaining = 0 /\ walk.amount_in + walk.fee_amount = InputAmount

StateRead ==
  LET pool == pools[best.pool]
  IN /\ seen.sqrt_price = pool.sqrt_price /\ seen.tick = pool.tick /\ seen.fee = pool.fee
     /\ seen.liquidity = LiquidityAt(pool, pool.tick)

\* The ticks of a pool that does not move, up to the last page.
TicksRead ==
  LET pool == pools[best.pool]
  IN /\ DOMAIN seen.net \subseteq InitializedTicks(pool)
     /\ \A t \in DOMAIN seen.net : seen.net[t] = NetAt(pool, t)
     /\ \A t \in DOMAIN seen.net, u \in InitializedTicks(pool) \ DOMAIN seen.net : t < u
     /\ pc # "ticks" => DOMAIN seen.net = InitializedTicks(pool)

Walked ==
  LET pool == pools[best.pool]
  IN /\ NetsStand => \E t \in Tick : walk.liquidity <= LiquidityAt(pool, t)
     /\ Onward(pool.sqrt_price, walk.sqrt_price)
     /\ Going \/ Stuck \/ Done
     /\ Traded
     /\ walk.fee_amount * FEE_RATE_DENOMINATOR >= (walk.amount_in + walk.fee_amount) * pool.fee
     /\ walk.remaining # 0 =>
          pc = "walk" \/ (pc = "rejected" /\ Ahead(walk.ticks) = {})

Walking == StateRead /\ TicksRead /\ (NetsAreRead => Walked)
==============================================================================
