-------------------------------- MODULE Venues -------------------------------
(***************************************************************************)
(* The daemon's venues and its market chart under one configuration: what  *)
(* is loaded at the start decides how tokens, chains and decimals are read *)
(* by the venue that quotes, by the check of the quote against the price,  *)
(* and by the chart.  A behaviour is one case: a level that fires for a    *)
(* Cetus or for a Uniswap strategy, or a chart that is asked for.  They    *)
(* share nothing but the configuration, so one at a time is enough.        *)
(***************************************************************************)
EXTENDS Cetus, Uniswap, MarketChart

CONSTANTS CetusCases, UniswapCases, ChartCases

\* Numbers are numbers: prices are exact and not negative, amounts have no more
\* digits than Places, chains come in a list, and what is found on a chain or in a
\* subgraph is what a pool can be.
ASSUME VenuesAssumption ==
  /\ ApiOuts \subseteq Nat /\ Unlimited \in Nat /\ MaxSpends \in Nat
  /\ \A c \in CetusCases \cup UniswapCases \cup ChartCases :
       /\ Len(c.config.chains) \in Nat /\ DOMAIN c.config.chains = 1 .. Len(c.config.chains)
       /\ \A i \in DOMAIN c.config.chains : \A t \in c.config.chains[i].tokens : t.decimals \in Nat
  /\ \A c \in CetusCases \cup UniswapCases :
       /\ c.price \in Nat
       /\ c.level # None => /\ c.level.amount \in Nat /\ c.level.amount_decimals \in 0 .. Places
                           /\ c.level.slippage_bps \in Nat
  /\ \A c \in CetusCases : \A id \in DOMAIN c.pools : ValidPool(c.pools[id])
  /\ \A c \in UniswapCases :
       /\ \A a \in DOMAIN c.allowances : c.allowances[a] \in 0 .. Unlimited
       /\ \A a \in DOMAIN c.balances : c.balances[a] \in Nat
       /\ c.truthful \in BOOLEAN
  /\ \A c \in ChartCases :
       ValidIndex(c.index) /\ IsFiniteSet(c.levels) /\ \A l \in c.levels : l.trigger \in Int

vars == <<venue_vars, cetus_vars, uniswap_vars, chart_vars>>

NoPools == pools = <<>> /\ coins = <<>>
NoChains == balances = <<>> /\ allowances = <<>> /\ tvls = <<>> /\ truthful = TRUE
NoChart ==
  /\ strategy = None /\ levels = {} /\ index = None /\ chart_pc = "idle"

Init ==
  /\ VenueInit /\ CetusInit /\ UniswapInit /\ ChartInit
  /\ \/ /\ \E c \in CetusCases :
             /\ config = c.config /\ level = c.level /\ price = c.price
             /\ pools = c.pools /\ coins = c.coins
        /\ NoChains /\ NoChart
     \/ /\ \E c \in UniswapCases :
             /\ config = c.config /\ level = c.level /\ price = c.price
             /\ balances = c.balances /\ allowances = c.allowances /\ tvls = c.tvls
             /\ truthful = c.truthful
        /\ NoPools /\ NoChart
     \/ /\ \E c \in ChartCases :
             /\ config = c.config /\ level = None /\ price = 0
             /\ strategy = c.strategy /\ levels = c.levels
             /\ index = c.index /\ chart_pc = "asked"
        /\ NoPools /\ NoChains

\* Pools and allowances change only while somebody reads them: before, they are as
\* they are found to be.
Next ==
  \/ (Load({strategy} \ {None}) \/ VenueNext) /\ UNCHANGED <<cetus_vars, uniswap_vars, chart_vars>>
  \/ CetusNext /\ UNCHANGED <<uniswap_vars, chart_vars>>
  \/ CetusMoves /\ pc \in {"discover", "state", "ticks", "walk", "drafted", "steps", "fund"}
       /\ UNCHANGED <<venue_vars, uniswap_vars, chart_vars>>
  \/ UniswapNext /\ UNCHANGED <<cetus_vars, chart_vars>>
  \/ UniswapMoves /\ pc \in {"steps", "build", "sign", "sent"}
       /\ UNCHANGED <<venue_vars, cetus_vars, chart_vars>>
  \/ (ChartNext \/ IndexBlock) /\ UNCHANGED <<venue_vars, cetus_vars, uniswap_vars>>

Spec == Init /\ [][Next]_vars

------------------------------------------------------------------------------
(* The variables keep their types: among them, that an amount is a number of base
   units within the width the code gives it, and that a walk spends no more than it
   was given. *)
PlanType(p) ==
  /\ p.kind = "cetus" => p.input_amount \in 1 .. U64 - 1 /\ p.min_amount_out \in 0 .. U64 - 1
  /\ p.kind = "uniswap" => p.input_amount \in Nat \ {0}

TypeOK ==
  /\ pc \in {"off", "stopped", "serving", "fired", "rejected", "failed", "drafted", "steps",
             "registry", "discover", "state", "ticks", "decimals", "walk", "fund",
             "chains", "chain", "build", "sign", "sent", "done"}
  /\ plan # None => PlanType(plan)
  /\ CetusTypes /\ UniswapTypes /\ ChartTypes

------------------------------------------------------------------------------
(* The inductive invariant behind the three properties of what is stored   *)
(* and signed.                                                             *)

\* What the start found.
LevelOK ==
  pc \notin {"off", "stopped", "serving"} =>
    /\ level # None /\ validate(config) /\ validate_stored_level
    /\ price \in Nat /\ level.amount \in Nat /\ level.amount_decimals \in 0 .. Places
    /\ level.slippage_bps \in Nat
    /\ Len(config.chains) \in Nat /\ DOMAIN config.chains = 1 .. Len(config.chains)
    /\ \A i \in DOMAIN config.chains : \A t \in config.chains[i].tokens : t.decimals \in Nat

CasesOK ==
  pc = "off" /\ level # None => \E c \in CetusCases \cup UniswapCases :
    config = c.config /\ level = c.level /\ price = c.price

RequestOK ==
  /\ pc \notin {"off", "stopped", "serving", "fired"} => request = quote_request
  /\ pc \in {"chains", "chain"} => request.venue # "cetus"
  /\ pc = "chain" => at \in Nat \ {0}

WalkOK ==
  pc = "walk" => walk.amount_out \in Nat /\ CoinDecimals[request.token_out] \in 0 .. Places

\* A draft that was made of answers about the i-th chain.
OfChain(d, i) ==
  LET chain  == config.chains[i]
      input  == find_token(chain, request.token_in)
      output == find_token(chain, request.token_out)
  IN /\ request.venue # "cetus"
     /\ chain_requested(chain) /\ input # None /\ output # None
     /\ d.plan.chain_id = chain.chain_id
     /\ d.plan.input_token = input.address /\ d.plan.quote.output = output.address
     /\ d.plan.quote.amount = d.plan.input_amount
     /\ format_units_string(d.plan.input_amount, input.decimals) = request.amount

\* A draft that keeps the slippage of its request, to one base unit.
FromRequest(d) ==
  /\ d.amount_in = request.amount
  /\ d.expected_amount_out \in Nat /\ d.minimum_amount_out \in Int
  /\ d.output_decimals \in 0 .. Places
  /\ request.slippage_bps <= Bps
  /\ (d.minimum_amount_out + Fine(d.output_decimals)) * Bps
       >= d.expected_amount_out * (Bps - request.slippage_bps)
  /\ d.plan.kind \in {"cetus", "uniswap"}
  /\ d.plan.kind = "uniswap" => \E i \in DOMAIN config.chains : OfChain(d, i)

Drafting ==
  {"off", "stopped", "serving", "fired", "registry", "discover", "state", "ticks", "decimals",
   "walk", "chains", "chain"}

DraftOK ==
  /\ pc = "chain" /\ candidate # None => FromRequest(candidate)
  /\ pc = "drafted" => FromRequest(draft)
  /\ pc \in Drafting \cup {"drafted"} => plan = None
  /\ plan # None => FromRequest(draft) /\ plan = draft.plan /\ check_quote

\* Neither venue builds for the other's plan, and what is built is of the plan.
BuildOK ==
  /\ pc = "fund" => plan.kind = "cetus"
  /\ pc \in {"build", "sign"} =>
       /\ plan.kind = "uniswap" /\ step \in {"cancel", "approval", "swap"}
       /\ plan.input_token = Native => step = "swap"
  /\ pc = "sign" =>
       /\ validate_transaction(unsigned, step)
       /\ step # "swap" => validate_approval_calldata(unsigned)
       /\ step # "swap" /\ truthful /\ ~late => step \in Needs

IInv == LevelOK /\ CasesOK /\ RequestOK /\ WalkOK /\ DraftOK /\ BuildOK

\* Behind the types: of a draft that is made or kept, and of the plan that is built.
DraftTypes ==
  /\ Len(config.chains) \in Nat
  /\ candidate # None => PlanType(candidate.plan)
  /\ pc = "drafted" => PlanType(draft.plan)
  /\ pc \in {"steps", "fund", "build", "sign", "sent"} => plan.kind \in {"cetus", "uniswap"} /\ PlanType(plan)

Typed == TypeOK /\ ReadOK /\ DraftTypes

\* Behind the two properties of a quote: what was read and walked while nobody moved.
WalkIsTrue ==
  /\ pc \in Drafting \ {"walk"} => walk = None
  /\ moves = 0 /\ pc \in {"ticks", "decimals"} => StateRead /\ TicksRead
  /\ moves = 0 /\ (pc = "walk" \/ walk # None) /\ Fits(pools[best.pool]) => Walking
==============================================================================
