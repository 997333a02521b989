----------------------------- MODULE TokenConfig -----------------------------
(***************************************************************************)
(* The configuration the daemon runs on: what `Config::validate' lets pass *)
(* (crates/config), how tokens are found in it (crates/trigger resolver,   *)
(* crates/uniswap find_token), and the decimal amounts counted in them     *)
(* (crates/domain model.rs).                                               *)
(*                                                                         *)
(* A name written in two ways that differ in case only is one name with    *)
(* two spellings.  Fields that are checked for their form alone (URLs,     *)
(* names, addresses) are known by whether they are `malformed'.  A decimal *)
(* amount is the number of 10^-Places it is; a chain id is the string of   *)
(* its digits.                                                             *)
(***************************************************************************)
EXTENDS Integers, Sequences

CONSTANTS
  Places,          \* the longest fraction of a decimal amount
  Bps,             \* 10_000
  MaxDecimals,     \* 38
  U256,            \* 2^256: base units are below
  SupportedChains, \* chain ids of is_supported_evm_chain
  PricedChains,    \* chain ids DexPaprika quotes
  MaxTtl,          \* 3_600
  None

------------------------------------------------------------------------------
(* Units.                                                                  *)

\* One base unit.
Fine(decimals) == 10 ^ (Places - decimals)

ASSUME ConfigAssumption ==
  /\ Places \in Nat /\ MaxDecimals \in Nat /\ MaxDecimals <= Places
  /\ \A d \in 0 .. Places : Fine(d) > 0     \* no prover here knows powers
  /\ Bps \in Nat \ {0} /\ Bps % 2 = 0 /\ U256 \in Nat
  /\ MaxTtl \in Nat

\* Base units of a decimal amount; none of one with a longer fraction, of 0, or of more
\* than 256 bits.
parse_units_string(value, decimals) ==
  IF value % Fine(decimals) = 0 /\ value \div Fine(decimals) \in 1 .. U256 - 1
  THEN value \div Fine(decimals) ELSE None

format_units_string(raw, decimals) == raw * Fine(decimals)

\* The two differ in the slippage they accept; u64 base units, or a string of digits.
apply_slippage(raw, slippage_bps) ==
  IF slippage_bps > Bps \div 2 THEN None ELSE (raw * (Bps - slippage_bps)) \div Bps

apply_slippage_string(raw, slippage_bps) ==
  IF slippage_bps > Bps THEN None ELSE (raw * (Bps - slippage_bps)) \div Bps

------------------------------------------------------------------------------
(* What a configuration must be.                                           *)

\* Every field has its form; those of Sui are looked at only where it is enabled.
WellFormed(config) ==
  \A field \in config.malformed : field = "sui.rpc_url" /\ ~config.sui.enabled

\* A key file is there, under an absolute path, and nobody else can read it.
validate_key_file(config, path) == config.files[path] = "private"

ValidChain(chain) ==
  /\ chain.chain_id \in SupportedChains
  /\ \E t, u \in chain.tokens : t # u
  /\ \A t, u \in chain.tokens : t.symbol = u.symbol => t = u
  /\ \A t \in chain.tokens : t.decimals <= MaxDecimals

ValidSuiCoins(coins) ==
  /\ \E c, d \in coins : c # d
  /\ \A c, d \in coins : c.symbol = d.symbol \/ c.coin_type = d.coin_type => c = d
  /\ \A c \in coins :
       /\ c.decimals <= MaxDecimals
       /\ c.price_ref # None => c.price_ref.chain_id \in SupportedChains

\* A key file for each family; that of Sui only where Sui is enabled.
ValidKeys(config) ==
  /\ validate_key_file(config, config.keys.evm)
  /\ config.sui.enabled =>
       /\ config.keys.sui # None /\ config.keys.sui # config.keys.evm
       /\ validate_key_file(config, config.keys.sui)

validate(config) ==
  /\ WellFormed(config)
  /\ config.quote_ttl_seconds \in 1 .. MaxTtl
  /\ config.max_slippage_bps <= Bps
  /\ config.max_quote_deviation_bps \in 1 .. Bps
  /\ config.chains # <<>> \/ config.sui.enabled
  /\ ValidKeys(config)
  /\ \A i, j \in DOMAIN config.chains :
       config.chains[i].chain_id = config.chains[j].chain_id => i = j
  /\ \A i \in DOMAIN config.chains : ValidChain(config.chains[i])
  /\ config.sui.enabled => ValidSuiCoins(config.sui.coins)

------------------------------------------------------------------------------
(* Tokens as they are looked up.                                           *)

find_token(chain, symbol) ==
  IF \E t \in chain.tokens : t.symbol = symbol
  THEN CHOOSE t \in chain.tokens : t.symbol = symbol
  ELSE None

EvmToken(chain, t) ==
  [chain |-> chain.chain_id, id |-> t.symbol, decimals |-> t.decimals,
   usd_peg |-> t.usd_peg, price_ref |-> [chain_id |-> chain.chain_id, address |-> t.address]]

SuiToken(c) ==
  [chain |-> "sui", id |-> c.coin_type, decimals |-> c.decimals,
   usd_peg |-> c.usd_peg, price_ref |-> c.price_ref]

\* Tokens are kept by the name of their chain: of chains of one name the last is
\* kept, and none where Sui is enabled and the name is its own.
token(config, chain, name) ==
  LET named == {i \in DOMAIN config.chains : config.chains[i].name = chain}
      last  == CHOOSE i \in named : \A j \in named : j <= i
      coins == {c \in config.sui.coins : name \in {c.symbol, c.coin_type}}
      found == find_token(config.chains[last], name)
  IN CASE config.sui.enabled /\ chain = "sui" ->
            IF coins = {} THEN None ELSE SuiToken(CHOOSE c \in coins : TRUE)
       [] ~(config.sui.enabled /\ chain = "sui") /\ named = {} -> None
       [] OTHER -> IF found = None THEN None ELSE EvmToken(config.chains[last], found)

\* A strategy is priced on its base token.
price_pair(config, strategy) ==
  LET base == token(config, strategy.chain, strategy.base_token)
  IN IF base = None THEN None ELSE base.price_ref

\* What a strategy says of tokens, when it is written and when the daemon starts on it.
validate_strategy_model(config, strategy) ==
  LET base  == token(config, strategy.chain, strategy.base_token)
      quote == token(config, strategy.chain, strategy.quote_token)
      pair  == price_pair(config, strategy)
  IN /\ base # None /\ quote # None
     /\ strategy.base_token # strategy.quote_token
     /\ (strategy.venue = "cetus") = (base.chain = "sui")
     /\ pair # None /\ pair.chain_id \in PricedChains
==============================================================================
