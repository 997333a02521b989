------------------------------- MODULE Uniswap -------------------------------
(***************************************************************************)
(* The Uniswap venue (crates/uniswap): asks the API for a quote on each    *)
(* requested chain, keeps the best, and for a stored plan derives the next *)
(* transaction anew each time one is to be signed.  The API is not         *)
(* trusted: what it answers may differ from what was asked in any field    *)
(* the venue compares, and what it tells of an allowance may be true or    *)
(* not, for the venue never reads one.  Allowances live on the chain,      *)
(* where other orders of the wallet spend and renew them.                  *)
(*                                                                         *)
(* Addresses are strings, "other" one that is not ours; an amount read as  *)
(* decimal or hex is its value.                                            *)
(***************************************************************************)
EXTENDS Venue, FiniteSets

CONSTANTS
  Wallet, Proxy, Native,   \* addresses: the signer, PROXY_APPROVAL_ADDRESS, the native token
  ApiOuts,                 \* outputs the API may quote, in base units
  MinPoolTvl,              \* graph.min_pool_tvl_usd
  Unlimited,               \* what an approval grants
  OtherAmounts,            \* what other orders of the wallet may spend of it
  MaxSpends                \* bound: what other orders do to allowances

VARIABLES
  balances,    \* of the wallet: token address to base units
  allowances,  \* what the proxy may spend of it
  tvls,        \* pools the subgraph of a chain lists for the pair: their TVL
  truthful,    \* the API tells the allowance as it is when it is asked
  at,          \* the chain being asked, by its place in the configuration
  candidate,   \* the best draft so far
  step,        \* the step to build, as steps() told
  unsigned,    \* the transaction that was built for it
  late,        \* history: since it was asked for, another order changed an allowance
  spends       \* bound used up

uniswap_chain == <<balances, allowances, tvls, truthful, late, spends>>
uniswap_vars == <<uniswap_chain, at, candidate, step, unsigned>>

------------------------------------------------------------------------------
(* A quote.                                                                *)

chain_requested(chain) ==
  request.chains = {} \/ chain.name \in request.chains \/ chain.chain_id \in request.chains

Configured(name) ==
  \E i \in DOMAIN config.chains : name \in {config.chains[i].name, config.chains[i].chain_id}

AskChains ==
  /\ pc = "chains"
  /\ IF request.slippage_bps > config.max_slippage_bps \/ ~(\A c \in request.chains : Configured(c))
        \/ ~(\E i \in DOMAIN config.chains : chain_requested(config.chains[i]))
     THEN Reject /\ UNCHANGED at
     ELSE pc' = "chain" /\ at' = 1 /\ UNCHANGED <<request, draft>>
  /\ candidate' = None
  /\ UNCHANGED <<config, level, price, plan, tx, uniswap_chain, step, unsigned>>

\* Chains without a subgraph are not guarded.  A TVL that is no plain decimal is -1.
guard_passed(chain) ==
  chain.graph_subgraph_id = "" \/ \E tvl \in tvls[chain.chain_id] : tvl >= MinPoolTvl

\* A quote as asked for, and what each field holds in an answer to something else.
Asked(chain, input, output, amount) ==
  [routing |-> "CLASSIC", chain_id |-> chain.chain_id, swapper |-> Wallet,
   input |-> input.address, output |-> output.address, amount |-> amount,
   trade_type |-> "EXACT_INPUT"]
Otherwise ==
  [routing |-> "DUTCH", chain_id |-> "other", swapper |-> "other",
   input |-> "other", output |-> "other", amount |-> 0, trade_type |-> "EXACT_OUTPUT"]

Answers(chain, input, output, amount) ==
  LET asked == Asked(chain, input, output, amount)
  IN {asked} \cup {[asked EXCEPT ![f] = Otherwise[f]] : f \in DOMAIN asked}
\* Mutant: does not compare the amounts.
validate_quote_fields(quote, chain, input, output, amount) ==
  /\ quote.chain_id = chain.chain_id /\ quote.swapper = Wallet
  /\ quote.input = input.address /\ quote.output = output.address
  /\ quote.trade_type = "EXACT_INPUT"

validate_quote(quote, chain, input, output, amount) ==
  /\ quote.chain_id = chain.chain_id /\ quote.swapper = Wallet
  /\ quote.input = input.address /\ quote.output = output.address
  /\ quote.amount = amount
  /\ quote.trade_type = "EXACT_INPUT"

Acceptable(quote, chain, input, output, amount, out, minimum) ==
  /\ quote.routing = "CLASSIC" /\ validate_quote(quote, chain, input, output, amount)
  /\ out > 0
  /\ apply_slippage_string(out, request.slippage_bps) # None
  /\ minimum >= apply_slippage_string(out, request.slippage_bps)

\* On a tie the later chain is kept.
Better(new) == candidate = None \/ new.expected_amount_out >= candidate.expected_amount_out

\* One chain: what is wrong with it costs its candidate and nothing else.
NoCandidate == candidate' = candidate

Candidate(chain) ==
  LET input  == find_token(chain, request.token_in)
      output == find_token(chain, request.token_out)
      amount == parse_units_string(request.amount, input.decimals)
  IN /\ input # None /\ output # None
     /\ amount # None /\ balances[input.address] >= amount
     /\ guard_passed(chain)
     /\ \E quote \in Answers(chain, input, output, amount), out \in ApiOuts, minimum \in ApiOuts :
          /\ Acceptable(quote, chain, input, output, amount, out, minimum)
          /\ LET new == [amount_in |-> request.amount,
                         expected_amount_out |-> format_units_string(out, output.decimals),
                         minimum_amount_out |-> format_units_string(minimum, output.decimals),
                         output_decimals |-> output.decimals,
                         plan |-> [kind |-> "uniswap", chain_id |-> chain.chain_id,
                                   input_token |-> input.address, input_amount |-> amount,
                                   quote |-> quote]]
             IN candidate' = IF Better(new) THEN new ELSE candidate

\* Any of the calls may fail too.
AskChain ==
  /\ pc = "chain" /\ at <= Len(config.chains)
  /\ \/ chain_requested(config.chains[at]) /\ Candidate(config.chains[at])
     \/ NoCandidate
  /\ at' = at + 1
  /\ UNCHANGED <<venue_vars, uniswap_chain, step, unsigned>>

ChooseBest ==
  /\ pc = "chain" /\ at > Len(config.chains)
  /\ IF candidate = None THEN Reject
     ELSE draft' = candidate /\ pc' = "drafted" /\ UNCHANGED request
  /\ UNCHANGED <<config, level, price, plan, tx, uniswap_vars>>

------------------------------------------------------------------------------
(* The transactions of a plan.                                             *)

Needs == {f \in {"cancel", "approval"} :
            /\ allowances[plan.input_token] < plan.input_amount
            /\ f = "cancel" => allowances[plan.input_token] > 0}

\* /check_approval: the truth is the allowance as it is now, and that only some tokens
\* need the old one cancelled first.
check_approval ==
  IF truthful THEN {Needs, Needs \ {"cancel"}} ELSE SUBSET {"cancel", "approval"}

\* What the API must send next; a native token needs no allowance.
steps_from_check_approval(approval) ==
  IF "cancel" \in approval THEN "cancel" ELSE IF "approval" \in approval THEN "approval" ELSE "swap"

Steps ==
  /\ pc = "steps" /\ plan.kind = "uniswap"
  /\ IF plan.input_token = Native THEN step' = "swap"
     ELSE \E approval \in check_approval : step' = steps_from_check_approval(approval)
  /\ pc' = "build"
  /\ UNCHANGED <<config, level, price, request, draft, plan, tx, uniswap_chain, at, candidate, unsigned>>

Expected(s) ==
  [chain_id |-> plan.chain_id, from |-> Wallet,
   to |-> IF s = "swap" THEN Proxy ELSE plan.input_token,
   value |-> IF s = "swap" /\ plan.input_token = Native THEN plan.input_amount ELSE 0,
   call |-> IF s = "swap" THEN "swap" ELSE "approve",
   spender |-> IF s = "swap" THEN None ELSE Proxy]
Unexpected ==
  [chain_id |-> "other", from |-> "other", to |-> "other", value |-> 1, call |-> "other",
   spender |-> "other"]

\* The API's transaction for a step, as it should be or with one field that is not.
Transactions(s) ==
  {Expected(s)} \cup {[Expected(s) EXCEPT ![f] = Unexpected[f]] : f \in DOMAIN Unexpected}
validate_transaction(t, s) ==
  /\ t.from = Wallet /\ t.chain_id = plan.chain_id
  /\ t.to = Expected(s).to /\ t.value = Expected(s).value

\* A swap's calldata is not looked into, nor an approval's amount.
validate_approval_calldata(t) == t.call = "approve" /\ t.spender = Proxy

\* Mutant: approves because steps() said so.
BuildTold ==
  /\ pc = "build"
  /\ \/ pc' = "failed" /\ UNCHANGED unsigned
     \/ /\ \E t \in Transactions(step) :
             /\ step # "swap" => validate_approval_calldata(t)
             /\ validate_transaction(t, step)
             /\ unsigned' = t
        /\ pc' = "sign"
  /\ late' = FALSE
  /\ UNCHANGED <<config, level, price, request, draft, plan, tx, balances, allowances, tvls, truthful,
                 spends, at, candidate, step>>

\* For an approval the API is asked again, and may need none by now.
Build ==
  /\ pc = "build"
  /\ \/ pc' = "failed" /\ UNCHANGED unsigned
     \/ /\ step # "swap" => \E approval \in check_approval : step \in approval
        /\ \E t \in Transactions(step) :
             /\ step # "swap" => validate_approval_calldata(t)
             /\ validate_transaction(t, step)
             /\ unsigned' = t
        /\ pc' = "sign"
  /\ late' = FALSE
  /\ UNCHANGED <<config, level, price, request, draft, plan, tx, balances, allowances, tvls, truthful,
                 spends, at, candidate, step>>

\* The node is asked for the gas it takes, and the vault to sign.
Sign ==
  /\ pc = "sign"
  /\ \/ pc' = "failed" /\ UNCHANGED tx
     \/ pc' = "sent" /\ tx' = [step |-> step, sent |-> unsigned]
  /\ UNCHANGED <<config, level, price, request, draft, plan, uniswap_vars>>

\* The chain carries the transaction out, or it fails there.
Land ==
  /\ pc = "sent"
  /\ \/ /\ tx.step = "swap"
        /\ \/ /\ balances[plan.input_token] >= plan.input_amount
              /\ plan.input_token = Native \/ allowances[plan.input_token] >= plan.input_amount
              /\ balances' = [balances EXCEPT ![plan.input_token] = @ - plan.input_amount]
              /\ allowances' = IF plan.input_token = Native \/ allowances[plan.input_token] = Unlimited THEN allowances
                               ELSE [allowances EXCEPT ![plan.input_token] = @ - plan.input_amount]
              /\ pc' = "done"
           \/ UNCHANGED <<balances, allowances>> /\ pc' = "failed"
     \/ /\ tx.step # "swap"
        /\ \/ /\ allowances' = [allowances EXCEPT ![plan.input_token] =
                                  IF tx.step = "cancel" THEN 0 ELSE Unlimited]
              /\ pc' = "steps"
           \/ UNCHANGED allowances /\ pc' = "failed"
        /\ UNCHANGED balances
  /\ UNCHANGED <<config, level, price, request, draft, plan, tx, tvls, truthful, late, spends, at, candidate,
                 step, unsigned>>

\* Another order of the wallet is approved, cancels an approval, or swaps.
OtherOrder(token_address) ==
  /\ spends < MaxSpends
  /\ \/ \E spent \in OtherAmounts \cap (0 .. allowances[token_address]) :
          allowances' = [allowances EXCEPT ![token_address] = @ - spent]
     \/ \E set \in {0, Unlimited} : allowances' = [allowances EXCEPT ![token_address] = set]
  /\ allowances' # allowances
  /\ spends' = spends + 1 /\ late' = TRUE
  /\ UNCHANGED <<balances, tvls, truthful, at, candidate, step, unsigned>>

UniswapInit ==
  at = 0 /\ candidate = None /\ step = None /\ unsigned = None /\ late = FALSE /\ spends = 0

UniswapNext == AskChains \/ AskChain \/ ChooseBest \/ Steps \/ Build \/ Sign \/ Land
UniswapMoves == \E a \in DOMAIN allowances : OtherOrder(a)

------------------------------------------------------------------------------
UniswapTypes ==
  /\ \A a \in DOMAIN allowances : allowances[a] \in 0 .. Unlimited
  /\ \A a \in DOMAIN balances : balances[a] \in Nat
  /\ spends \in 0 .. MaxSpends /\ step \in {None, "cancel", "approval", "swap"}
  /\ at \in 0 .. Len(config.chains) + 1

------------------------------------------------------------------------------
\* Of the transaction being signed.
SignsThePlan ==
  LET t == tx'.sent
  IN /\ t.from = Wallet /\ t.chain_id = plan.chain_id
     /\ tx'.step = "swap" =>
          t.to = Proxy /\ t.value = IF plan.input_token = Native THEN plan.input_amount ELSE 0
     /\ tx'.step # "swap" =>
          /\ plan.input_token # Native /\ t.to = plan.input_token
          /\ t.call = "approve" /\ t.spender = Proxy /\ t.value = 0
          /\ truthful /\ ~late =>
               /\ allowances[plan.input_token] < plan.input_amount
               /\ tx'.step = "cancel" => allowances[plan.input_token] > 0

(* Whatever the API answers, a transaction that is signed for an order is the wallet's
   and on the chain of the plan: the swap, which alone carries native coins and then
   the amount of the plan, or an approval of the proxy, and nobody else, for the input
   token.  That an approval is needed, only the API knows: where it tells the truth,
   the allowance is short of the amount as the approval is signed, whatever other
   orders did to it after the step was derived, unless one changed it after the
   transaction was asked for, while the gas was estimated (steps, build). *)
SignedIsThePlan == [][pc = "sign" /\ pc' = "sent" => SignsThePlan]_<<pc, tx>>
==============================================================================
