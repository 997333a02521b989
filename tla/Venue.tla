-------------------------------- MODULE Venue --------------------------------
(***************************************************************************)
(* From a level that fired to the order stored for it, and from the order  *)
(* to the transactions signed for it: what crates/trigger (place_order,    *)
(* quote_guard.rs) and crates/orchestrator (sign) ask of a venue, and what *)
(* they make of its answers (crates/domain venue.rs, ports.rs).  The venue *)
(* itself is Cetus or Uniswap.                                             *)
(*                                                                         *)
(* One level and one tick: Trigger says which levels fire and when, and    *)
(* Execution what becomes of an order between two transactions.            *)
(***************************************************************************)
EXTENDS TokenConfig

CONSTANTS
  Mantissa,     \* 2^52: of an f64, the least mantissa
  MaxExponent,  \* 971: of the ulp of its largest numbers; none here is too small for it
  PriceUnit     \* prices count parts of a dollar

VARIABLES
  config,    \* the configuration the daemon started with
  level,     \* the level that fired: its strategy's fields and its own; None if none does
  price,     \* the tick's price: dollars for one of the base token, in 1 / PriceUnit
  pc,        \* where the order is
  request,   \* QuoteTradeRequest
  draft,     \* QuoteDraft, as the venue made it
  plan,      \* ExecutionPlan of the stored order
  tx         \* the transaction last signed for it

venue_vars == <<config, level, price, pc, request, draft, plan, tx>>

------------------------------------------------------------------------------
TradeDirection ==
  IF level.side = "buy"
  THEN [token_in |-> level.quote_token, token_out |-> level.base_token]
  ELSE [token_in |-> level.base_token, token_out |-> level.quote_token]

\* The amount as authored, in units of the decimals its token had then.
quote_request ==
  [venue |-> level.venue,
   token_in |-> TradeDirection.token_in, token_out |-> TradeDirection.token_out,
   amount |-> format_units_string(level.amount, level.amount_decimals),
   slippage_bps |-> level.slippage_bps,
   chains |-> {level.chain}]

\* The decimals the level was written with are still those of its input token.
validate_stored_level ==
  /\ validate_strategy_model(config, level)
  /\ level.slippage_bps <= config.max_slippage_bps
  /\ level.amount_decimals = token(config, level.chain, TradeDirection.token_in).decimals

\* Of what is stored: the level and its strategy, and strategies without one.
preflight(strategies) ==
  /\ \A s \in strategies : validate_strategy_model(config, s)
  /\ level # None => validate_stored_level

\* The daemon does not start on a configuration that is not valid, nor on rules that
\* no longer match it.
Load(strategies) ==
  /\ pc = "off"
  /\ pc' = IF ~validate(config) \/ ~preflight(strategies) THEN "stopped"
           ELSE IF level # None THEN "fired" ELSE "serving"
  /\ UNCHANGED <<config, level, price, request, draft, plan, tx>>

\* A venue is not asked to trade a token for itself.
PlaceOrder ==
  /\ pc = "fired"
  /\ request' = quote_request
  /\ pc' = IF request'.token_in = request'.token_out THEN "rejected"
           ELSE IF request'.venue = "cetus" THEN "registry" ELSE "chains"
  /\ UNCHANGED <<config, level, price, draft, plan, tx>>

Reject == pc' = "rejected" /\ UNCHANGED <<request, draft>>

------------------------------------------------------------------------------
(* Arithmetic in f64.  <<n, d>> is n / d, and 1 / 0 is infinite.  Each      *)
(* result is the nearest number with a mantissa, of two as near the even   *)
(* one.  0 / 0, which is over no limit, ends as 0, which is over none.  A   *)
(* number too large, or too small, for the exponents counts as infinite.   *)

ASSUME FloatAssumption ==
  /\ Mantissa \in Nat /\ Mantissa >= 4 /\ MaxExponent \in Nat
  /\ \A k \in 0 .. MaxExponent : 2 ^ k > 0     \* no prover here knows powers
  /\ PriceUnit \in Nat \ {0}

Infinite == <<1, 0>>

Nearest(n, d) ==
  LET floor == n \div d
      over  == 2 * (n % d)
  IN IF over > d \/ (over = d /\ floor % 2 = 1) THEN floor + 1 ELSE floor

IsMantissa(n) == Mantissa <= n /\ n < 2 * Mantissa

\* The number's ulp is 2^k if it is large and 1 / 2^k if it is small.
RoundedAt(n, d, large, k) ==
  IF large THEN <<Nearest(n, d * 2 ^ k) * 2 ^ k, 1>> ELSE <<Nearest(n * 2 ^ k, d), 2 ^ k>>

Rounded(n, d) ==
  LET large   == n >= Mantissa * d
      fits(k) == IsMantissa(IF large THEN (n \div d) \div 2 ^ k ELSE (n * 2 ^ k) \div d)
  IN IF n = 0 THEN <<0, 1>>
     ELSE IF d = 0 \/ ~(\E k \in 0 .. MaxExponent : fits(k)) THEN Infinite
     ELSE RoundedAt(n, d, large, CHOOSE k \in 0 .. MaxExponent : fits(k))

------------------------------------------------------------------------------
(* The check of a quote against the price that fired the level.            *)

QuoteLeg == IF level.side = "buy" THEN TradeDirection.token_in ELSE TradeDirection.token_out

Pegged ==
  LET leg == token(config, level.chain, QuoteLeg) IN leg # None /\ leg.usd_peg

\* A decimal amount, and what it is worth at the price.
Parsed(amount) == Rounded(amount, Fine(0))
Priced(x) == Rounded(x[1] * price, x[2] * PriceUnit)

dollars_in ==
  IF level.side = "buy" THEN Parsed(draft.amount_in) ELSE Priced(Parsed(draft.amount_in))

dollars_out ==
  IF level.side = "buy" THEN Priced(Parsed(draft.expected_amount_out))
  ELSE Parsed(draft.expected_amount_out)

abs(n) == IF n < 0 THEN -n ELSE n
\* Mutant: forgets that a quote may be worth less than its input.
ApartSigned(in, out) ==
  LET apart == out[1] * in[2] - in[1] * out[2]
  IN Rounded(IF apart < 0 THEN 0 ELSE apart, in[2] * out[2])

Apart(in, out) == Rounded(abs(in[1] * out[2] - out[1] * in[2]), in[2] * out[2])

deviation_bps ==
  LET apart == Apart(dollars_in, dollars_out)
      share == Rounded(apart[1] * dollars_in[2], apart[2] * dollars_in[1])
  IN Rounded(share[1] * Bps, share[2])

\* The counter token counts as dollars where it is pegged, and else nothing is checked.
check_quote ==
  \/ ~Pegged
  \/ /\ Parsed(draft.amount_in) # Infinite /\ Parsed(draft.expected_amount_out) # Infinite
     /\ price > 0 /\ dollars_in[1] > 0
     /\ deviation_bps[1] <= config.max_quote_deviation_bps * deviation_bps[2]

StoreOrder ==
  /\ pc = "drafted"
  /\ IF check_quote
     THEN plan' = draft.plan /\ pc' = "steps"
     ELSE pc' = "rejected" /\ UNCHANGED plan
  /\ UNCHANGED <<config, level, price, request, draft, tx>>

VenueNext == PlaceOrder \/ StoreOrder

VenueInit ==
  /\ pc = "off"
  /\ request = None /\ draft = None /\ plan = None /\ tx = None

------------------------------------------------------------------------------
(* What an order is worth at worst: the least the plan accepts, at the     *)
(* price of the tick that fired it, in exact numbers.                      *)

Checked == plan # None /\ Pegged /\ dollars_in # Infinite

Spent == IF level.side = "buy" THEN draft.amount_in * PriceUnit ELSE draft.amount_in * price
Worth(amount) == IF level.side = "buy" THEN amount * price ELSE amount * PriceUnit

(* However a quote came about, and whatever it was computed from, an order that is
   stored for a pegged pair, and spends a finite number of dollars, accepts no less
   than its input is worth at the observed price, less the configured deviation, seven
   times the error of one f64 rounding and then the level's slippage, rounded down by
   no more than one base unit of the output (check_quote, apply_slippage). *)
GuardedOrder ==
  Checked =>
    LET least     == draft.minimum_amount_out + Fine(draft.output_decimals)
        precision == 2 * Mantissa
    IN Worth(least) * Bps * Bps * precision
         >= Spent * ((Bps - config.max_quote_deviation_bps) * precision - 7 * Bps)
                  * (Bps - level.slippage_bps)

(* The plan an order is stored with is that of its level: the input it spends is the
   level's amount, its tokens are those the strategy names on the strategy's chain,
   the same the price was observed of, and the least it accepts keeps the level's
   slippage, whatever the venue's API answered and however decimals and chains are
   configured, as long as no two chains go by one name (candidate, quote_request). *)
PlanIsTheLevels ==
  plan # None /\ (\A i, j \in DOMAIN config.chains :
                    config.chains[i].name \in {config.chains[j].name, config.chains[j].chain_id} => i = j) =>
    LET in  == token(config, level.chain, TradeDirection.token_in)
        out == token(config, level.chain, TradeDirection.token_out)
    IN /\ draft.amount_in = level.amount * Fine(level.amount_decimals)
       /\ (draft.minimum_amount_out + Fine(draft.output_decimals)) * Bps
            >= draft.expected_amount_out * (Bps - level.slippage_bps)
       /\ plan.kind = "uniswap" =>
            /\ plan.chain_id = in.chain /\ plan.chain_id = out.chain
            /\ plan.input_token = in.price_ref.address
            /\ plan.quote.output = out.price_ref.address
            /\ format_units_string(plan.input_amount, in.decimals) = draft.amount_in
            /\ plan.quote.amount = plan.input_amount
==============================================================================
