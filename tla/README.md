# Verification of nofomo

nofomo is a daemon that watches prices and trades by standing rules. A strategy
names a market, a level says at which price to trade, and an order is one
attempt to do so. This directory holds TLA+ models of the parts whose mistakes
cost money, the TLC runs that check them on small instances and TLAPS proofs for
instances of every size.

| module | what it is |
|---|---|
| `OrderMachine` | the pure order state machine (`orchestrator/machine.rs`, `strategy/order.rs`) |
| `Execution` | the execution loop against a database, a chain, crashes and an operator (`orchestrator/{run,io,operator}.rs`, `chain/evm.rs`) |
| `OrderLifecycle` | the abstract specification of an order, which `Execution` implements |
| `Trigger` | the loop that turns price ticks into orders (`trigger/{run,fired,runtime}.rs`, the tables of `storage`) |
| `Authoring` | who may change rules, under which configuration: the lock file, the daemon's life, the manifest, the admin calls and the command line (`apps/.../{lib,main,admin_client}.rs`, `storage/{lock,strategy}.rs`, `mcp/{server,admin}.rs`, `trigger/authoring.rs`) |
| `PriceFeed` | from the price source to the tick queue: the filter, one task for each pair, the feed table (`trigger/{prices,runtime}.rs`, `price/{filtered,gates}.rs`) |
| `Audit` | sessions, quotes that are claimed once and the attempts to execute them (`storage/lib.rs`, `storage/schema.sql`) |
| `TokenConfig` | what a configuration must be, how tokens are found in it, decimal amounts and slippage (`config/lib.rs`, `trigger/resolver.rs`, `domain/model.rs`) |
| `Venue` | the start on a configuration, from a fired level to a quote, its check against the price, the stored plan (`apps/.../lib.rs`, `trigger/{run,quote_guard,authoring}.rs`) |
| `Cetus` | the Sui venue: pool discovery, the walk of a swap in fixed-point arithmetic, building and funding (`cetus/{lib,pool,swap_math}.rs`) |
| `Uniswap` | the EVM venue over an API that is not trusted, and allowances others use (`uniswap/{lib,validate,amount}.rs`) |
| `MarketChart` | the market chart: the endpoint and the subgraph it reads in several queries (`graph/lib.rs`, `mcp/admin.rs`) |
| `Venues` | the last five under one configuration |
| `Dashboard` | the terminal dashboard against a daemon that comes and goes (`apps/.../dashboard.rs`, `admin_client.rs`, `mcp/{server,admin}.rs`) |
| `MCExecution`, `MCTrigger`, `MCAuthoring`, `MCPriceFeed`, `MCAudit`, `MCDashboard`, `MCVenues` | small sets for TLC |
| `ExecutionProofs`, `TriggerProofs`, `AuthoringProofs`, `PriceFeedProofs`, `AuditProofs`, `DashboardProofs`, `VenuesProofs` | theorems and their proofs |
| `PoolProofs` | what `VenuesProofs` rests on: induction and sums over finite sets, the arithmetic of a swap, the points of a chart |

`PROJECT.json` maps every definition to the lines it stands for.

## The system

The daemon is one process with three tasks, joined by two tables and a channel:

```
 price source --> filter --> pump (one per pair) ==queue(256)==> trigger loop
                                ^                                  |  venue.quote
                  reconcile -- levels                              v
 admin tools / CLI --> strategies, levels          orders <-- upsert (Pending)
                                                     |  waker / poll
 operator: resolve-quarantine ----------------->     v
                                              execution loop --> vault (sign), chain (send, receipt)
```

| component | state | operations | what makes it correct |
|---|---|---|---|
| Order machine (`orchestrator/machine.rs`) | an order's state, retry count and time | `next_action`, `apply`, backoff | sign, store, send, store, confirm, in that order; retries are capped |
| Execution loop (`orchestrator/run.rs`, `io.rs`) | copies of the open orders | sweep, sign, broadcast, check receipt, upsert | no second swap for an order; nothing sent is forgotten; every order settles |
| Operator (`orchestrator/operator.rs`) | a row between read and write | release a quarantined order | touches only what the loop leaves alone |
| Trigger loop (`trigger/run.rs`, `fired.rs`) | the tick in hand, copies of both tables | receive, list, quote, store or reject | one live order per level; only armed levels trade |
| Runtime status (`trigger/runtime.rs`) | feed table, quiet periods | feed events, quiet, snapshot | shows what is the case |
| Price feed (`trigger/prices.rs`, `price/*`, `price-dexpaprika/*`) | one subscription per pair, the filter's baseline | reconcile, pump, filter, reconnect | fresh, plausible ticks of wanted pairs; a full queue makes it wait |
| Authoring, admin tools (`trigger/authoring.rs`, `mcp/admin.rs`) | none | set/delete strategy and level | never stores a level validated against another market |
| Strategy store (`storage/strategy.rs`) | SQLite | upserts with conditions, deletes | foreign keys hold; no level of another market |
| Audit store (`storage/lib.rs`) | process sessions, quotes, attempts | open, record a quote, claim it, record the result, prune | a quote is consumed once, by the session that made it; its result is its own |
| Daemon, lock, manifest (`apps/.../lib.rs`, `storage/lock.rs`) | lock file, manifest | start, stop, abort | one daemon per database |
| Configuration, token resolver (`config`, `trigger/resolver.rs`) | a file | load, validate, look up | one name means one token on one chain to everybody |
| Quote check (`trigger/quote_guard.rs`) | none | compare a quote with the tick's price | an order is worth its input, whatever the venue says |
| Cetus (`cetus`) | none; reads pools on the chain | discover, read state, read ticks, walk, build | a quote is one the pool can keep; rounding favours the pool |
| Uniswap (`uniswap`) | none; allowances on the chain | quote each chain, choose, next step, build, sign | what is signed is the plan, whatever the API answers |
| Graph client, market endpoint (`graph`, `mcp/admin.rs`) | none; reads a subgraph | state, pages of ticks, points | the points are the pool's |
| Dashboard (`apps/.../dashboard.rs`) | a snapshot, a selection, a chart, a request | keys, poll, reconnect, ask for a chart | the screen says of itself what is true, and recovers |
| Vault, command line, logging | files | | not on the concurrent path |

The hard behaviours: a crash or a failed upsert between a side effect and its
record; answers of a node that are lost; the same transaction sent again;
receipts after deadlines; a switch (`MAINNET_SWAP`) that changes between runs;
decisions taken on copies of tables that change during a network call; a pool that
is read in two calls while others trade; an API that may answer anything; a
source that repeats ticks; a client that outlives the daemon it talks to; the operator's and the admin's processes writing the same
tables. `PROJECT.json` lists each at its line.

## Execution

`orders` is the table and survives; `held` is the sweep's copies and does not.
`pc`, `cur` and `left` are the place in `sweep`/`drive_order`: `waiting` (between
sweeps), `next` (choose the next copy), `loop` (top of the loop), `moved` and
`retry` (the upsert after a transition, or after a failed send, is due). An
`await` that leaves the process ends an action, so the node and the database
can be reached by others, and the daemon can die, between any two of them.

| action | code |
|---|---|
| `StartSweep`, `NextOrder`, `EndSweep` | `sweep`: list, filter, one order at a time |
| `StopDriving` | the transition limit, the backoff and `Done` in `drive_order` |
| `Sign`, `SignFails` | `io.rs::sign`: first remaining step, pending nonce, build, sign |
| `Send`, `SendFails`, `Block` | `io.rs::broadcast` and the blocked arm of `perform`; `SendFails` may have reached the node |
| `CheckReceipt`, `CheckReceiptFails` | `check_receipt`, `past_deadline` |
| `Settle`, `Persist`, `PersistFails` | `apply` and the two upserts |
| `Restart` | the process dies; the next one may have another `MAINNET_SWAP` |
| `ReadQuarantined`, `WriteReleased` | `resolve_quarantine`, a process of its own |
| `Place` | the trigger loop upserts an order: a new one, or, when a tick is seen again, over the failed order it made before (`place_order`, `ON CONFLICT`) |
| `Land`, `Tick` | external: the chain and the clock |

The nonce model is EVM's: the pending count of the node, transactions executed
in nonce order, one for each nonce, "already known" and "nonce too low" counted
as sent (`is_duplicate_submission`). Sui's objects are not modelled. Nodes do not
evict transactions. `Withdrawing` and `Depositing` are in the type but nothing
constructs them; amounts and reasons are carried along and left out.

An order's id is its level and the time of the tick, so a tick that is published
again after the level's cooldown upserts the row of the failed order it made before.
`Place` does that too. `placed` counts the placements and a transaction notes which
one signed it; both are history that no guard looks at. Two `resolve-quarantine`
commands at once could both read one parked row, and the second write could then
find the order placed again and fail it; the command takes no lock (main.rs:272).
The theorems exclude this with `ReleasesAreApart`: one operator at a time, or no
tick seen again. The runs have one operator.

Properties:

- `OneSwapPerOrder`: an order never gives the chain two different swaps for one
  placement.
- `SentIsRecorded`: what reached a node can be found from the orders table, until a
  tick seen again overwrites the order. That overwrite loses the hash of a swap that
  timed out and may still land; `TriggerReplay` is the finding. The exemption is no
  wider than that: any other way to lose a hash violates the property.
- `FilledIsLanded`: filled means that the order's own swap succeeded, the one of its
  latest placement and not a late one of an earlier placement.
- `RetriesAreCapped`: the stored count is a cap across crashes, and only an order
  that used it up is parked.
- `ImplementsLifecycle`: the loop implements `OrderLifecycle`, where a stage is
  the order's status, `placed` counts its placements and `swapped` names those whose
  swap succeeded on the chain. Only a failed order is placed again.
- `EveryOrderSettles`, `MinedSwapIsReported`: liveness, below.
- `NoncesStayUnique`: what io.rs says of nonces; violated.

### Fairness

`LiveSpec` adds `WF(Sweep)`: the loop is one task that runs for ever and wakes at
least every `ORCHESTRATOR_POLL`. It assumes that calls return. The HTTP clients
of the node and the venue set no timeout, so a connection that hangs would stop
the sweep for every order; this is a listed hazard, not something the model
hides. `WF(Tick)`: time passes; `Tick` is enabled only while a timer of the code
runs, which keeps the state space finite without stopping a timer early.
`SF(cur = o /\ CheckReceipt)`: a node that is asked again and again answers in
the end; without it `EveryOrderSettles` is false, because a receipt call that
fails does not look at the deadline (`io.rs:158`). Failing sends, failing
signatures and landing are not fair: they may happen always or never.

## Trigger

`Trigger` has one action for each stretch of `handle_tick` between two awaits:
`ReceiveTick` (reads `levels`), `ListOrders` (reads `orders`, then the clock, then
chooses), `Skip`, `Quote`, then `PlaceOrder` or `Reject`; `DropTick` ends a tick or
stands for a failed read. `seenLevels`, `seenOrders` and `at` are the locals the
decision is taken on, `quiet` is the in-memory cooldown. `Execute` moves an order
as `OrderLifecycle` allows, `SetLevel` and `DeleteLevel` are the admin's writes,
`Restart` keeps only the tables. `attempted` is observed only. `Execute` releases
a quarantined order in one step (one operator at a time).

- `OneLiveOrderPerLevel`: never two orders of a level that are open, filled or
  quarantined. This does not say that a level's amount is spent once: an order
  whose receipt timed out is failed, its level trades again, and the old
  transaction may still land (machine.rs:189 says so).
- `OrdersKeepTheirLevel`: the foreign key, through a quote that overlaps a delete.
- `ArmedWhenPlaced`: an order is stored only when the level is armed by the tables
  of that moment, although the decision was taken on older copies.
- `ReplaysChangeNothing`: what a comment says of replays; violated.

## Authoring

The state on disk is the config file, the two tables, who created the lock file
and whose address and token the manifest names. A daemon is a process id whose
`phase` walks through `run`; each start is another process with another token, so
the id stands for both. A client is an agent with a manifest or a command; its
`job` says what it is doing and for whom (`by`): itself under the lock, or a daemon
whose handler works for it.

| action | code |
|---|---|
| `Load`, `Acquire` | the config, then `LockFile::acquire`: in this order |
| `CheckStrategies`, `CheckLevels` | the two reads of `preflight` |
| `GiveUp` | every `?` of `run` after the lock: it is dropped |
| `Publish`, `Close`, `Unlock`, `Exit` | `AdminServer::start`, its drop, the lock's drop (later, by the order of declaration), the end of the process |
| `Crash`, `Kill`, `RemoveStaleLock` | a process dies and leaves its files; a user removes the lock of a dead one |
| `TakeLock`, `Attach` | `authoring`: the lock and then the config, or the manifest |
| `Call`, `CallFails` | the token fits the daemon that serves, or nobody listens or it is refused |
| `SetStrategy` | `set_strategy` and `strategy_add`: one conditional upsert |
| `ReadStrategy`, `SetLevel` | `set_level` and `level add`: the read, then validation and the conditional upsert |
| `DeleteLevel`, `Refuse` | the delete; any validation or database error |

A market, which is a strategy's row, is its pair of tokens; venue and chain are
compared alongside them and left out. A config is what validation asks of it:
the markets it can trade, its tokens' decimals and its largest slippage. All
configs name the same database. `EditConfig` may happen at any moment.

- `LevelsFitTheirStrategy`: a level belongs to the market it was validated for,
  however strategy and level writes interleave. Only both `WHERE` clauses
  together ensure it.
- `ServingIsFound`: a daemon that serves owns lock and manifest, so it is the only
  one, whatever crashed before.
- `TradesOnlyChecked`: it trades on no rule that its own config rejects, although
  it loads the config before the lock, others write in between, and it checks
  only once. It speaks of rules written by the holder of the lock (`claimed`). The
  write of a call that outlives its daemon's lock (server.rs:100) is an action of the
  model, but no property here catches it.

## PriceFeed

`needed` is what the stored levels ask for, `wanted` the set the producer computed
from its read, `tasks` its handles. A handle names a task of the pair by a slot; a
task that is over gives its slot back. `pump[i].stage` is where a task is:
`spawned`, `running` (it polls the stream), `idle` (it waits for it), `got` (the filter
let a tick pass), `send` (reported, about to enter the queue), `blocked` (waits for
room), `over`. `previous` is the filter's baseline, which lives in the stream and so
in the task. `feeds` is the feed table, `queue` the channel to the trigger loop.

| action | code |
|---|---|
| `ListLevels`, `Reconcile` | one round of `produce_every`: read, then `retain` and `or_insert_with`, which run without an await |
| `Start` | `feed_connecting` |
| `Quote`, `SourceError`, `SourceEnds` | what `stream.next()` yields: a frame through `keep`, an error, the end |
| `Report`, `Send`, `Block` | `feed_tick`, then `ticks.send`: at once or when there is room |
| `Wait` | `stream.next()` is pending |
| `Take`, `Author` | the trigger loop takes a tick; a level is stored or deleted |

The runtime has several threads. `task.abort()` ends a suspended task before it is
polled again, which `Reconcile` does in one step; a running one is put into `aborted`
and goes on, through as many synchronous steps as it likes, to the next place
where it waits. `ListLevels` assumes that the 30 s between two rounds are enough
for that (`aborted = {}`). Price 0 stands for all values `is_implausible` calls invalid;
a quote's age is a flag.

- `OneSubscription`: prices.rs says one subscription per pair; handles, late aborts
  and tasks that ended by themselves must not add up to two.
- `FeedsShowTheirPump`: several tasks write one row in turn, yet it shows the one
  with the handle, and a tick before it waits for room, as the comment in `pump`
  says.
- `ShownMovesArePlausible`: between two shown ticks without an error, a removal or a
  new subscription in between the price moves within the limit, whatever was
  rejected in between.
- `NeededIsWatched`: a pair that stays needed has a running task again and again.
- `QuotesAreValid`, what gates.rs and filtered.rs say, is violated by the first quote
  of a subscription.

`LiveSpec`: the producer and every task are polled (`WF`). `SF(Wait)` is tokio's
cooperative budget: a task whose stream always has something ready is made to
wait from time to time; without it a stopped task could run on for ever. Nothing is
assumed of the source, of `Take` or of the admin.

## Audit

The store is a port (`AuditStore`) that nothing in the repository calls yet, so the
model lets any caller do what the trait offers, with two habits a caller must have:
it records a result only for an attempt it claimed and executed, and only one.
Processes and tasks are not told apart: a call names the session it was opened
with, and a process whose session was ended by the next `open` may go on calling.

| action | code |
|---|---|
| `open` | a session starts, all others end, quoted quotes are invalidated |
| `record_quote` | inserted if the session is the live one |
| `ReadQuote`, `claim_quote` | the `SELECT` of `claim_quote`, and its `UPDATE`, `INSERT` and commit |
| `Execute` | the caller trades; `outcome` observes how it went |
| `record_execution` | `record_execution_success` and `_failure`, which do not look at the session or the status |
| `prune` | quotes of a certain age, with their attempts and transactions (`ON DELETE CASCADE`) |
| `Fails` | an error, or the process dies |

A transaction whose first statement writes holds SQLite's write lock from there on and
is one step. `claim_quote` reads first: in WAL mode SQLite refuses to let it write
when another transaction has committed since (`stale`), on top of which its `WHERE`
clause asks again.

- `QuoteShowsItsAttempt`: exactly one attempt for a consumed quote, with the same
  status, none for another; through restarts, results that come late and pruning.
- `QuotedIsLive`: after a start nothing of an older session can be claimed, although
  the older process may still be quoting.
- `ResultsAreTheirOwn`: a late result does not reach another attempt even if its own
  was pruned; this rests on `AUTOINCREMENT`, without which SQLite gives ids again.
- `ClaimsAreDue`: what is executed was confirmed, in time when it was asked for, in
  the session that is live at the claim.

## Venues

A behaviour is one case: one configuration, and a level that fired for a Cetus or a
Uniswap strategy, or a chart that is asked for. `Trigger` says which levels fire and
when, `Execution` what becomes of an order between two transactions; here `pc` walks
from `Load` (the configuration is validated and the stored rules pass `preflight`) over
the quote to the signed transaction, and `chart_pc` from the request to its answer.

`TokenConfig` has no state. Names are compared as the code compares them: the resolver
keeps the last chain of a name, the venue asks every chain of a name or id, the chart
takes the first. A decimal amount is a number of 10^-`Places`; base units that leave 256
bits are refused. Fields checked for their form alone are a set of `malformed` ones.

| action | code |
|---|---|
| `Load` | `Config::load`, then `preflight`: strategies, then levels with the decimals they were stored with |
| `PlaceOrder`, `StoreOrder` | `place_order` up to `venue.quote`, and from its answer: `check_quote`, then the plan is stored |
| `ListRegistry`, `Consider`, `Discovered` | `discover_pool`: the pools of the pair, each read in turn, the one with the most liquidity; one that cannot be read is passed over |
| `FetchState`, `FetchTicks`, `FetchDecimals` | the reads of `candidate`: the pool, a page of its ticks at a time, the decimals of its coins; an amount that does not fit is refused |
| `CetusQuoteFails` | the `?` of those calls |
| `WalkTick`, `WalkEnd` | one turn of the loop of `compute_swap`, and the draft |
| `CetusBuild`, `CetusFund` | `build`: the pool is read again, then coins are collected from the first page |
| `AskChains`, `AskChain`, `ChooseBest` | `quote` of Uniswap: each chain costs at most its own candidate |
| `Steps`, `Build`, `Sign`, `Land` | `steps`; `build` up to the transaction; `build_unsigned`'s gas estimate and the vault; the chain: again and again until the swap |
| `dashboard_market`, `market_state`, `FetchPage`, `liquidity_points` | the endpoint, the state query, a query for each page, the points |
| `MovePool`, `SpendCoin`, `OtherOrder`, `IndexBlock` | external: what others do between two calls |

The state of a pool is its liquidity positions; what the code reads (liquidity, the
nets of ticks) is computed from them, so that properties can compare a quote with the
positions and not with the code's own sums. Integers have `U64`, `U128` and a scale `R`
of the code's 2^64: products wrap where the code shifts in 256 bits (swap_math.rs:63; the
bits are lost without an error), `(liquidity as i128 + net) as u128` wraps at `U128`.

**Floating point.** `quote_guard.rs` parses the decimal amounts to f64 and compares a
quotient of f64s with the limit. `Venue` does the same: every result (`Parsed`,
`Priced`, `Apart`, `deviation_bps`) is `Rounded` to the nearest number whose mantissa lies
in `Mantissa` .. 2 `Mantissa` - 1 (2^52 in the code), of two as near the even one, and
infinite where the exponent does not suffice. Seven roundings separate the amounts from the
comparison in the worst case: two parse the amounts, one prices one of them, and the
four parts the deviation loses to its difference, quotient and product are counted as
four. Each is at most one part in 2 `Mantissa`, so `GuardedOrder` allows 7 / (2 `Mantissa`)
beside the configured deviation: 8e-16 of the order in the code, which for an order of
18 decimals is more than one base unit and is stated as what it is. An input worth more
dollars than f64 can hold makes the quotient NaN, which is not greater than any limit, so
the check passes; `Checked` leaves these orders out.

**The sign of net liquidity.** The contract is not in the repository, and the repository
disagrees with itself about the sign of a tick's `liquidity_net`. `compute_swap` adds it on
the way down and subtracts it on the way up (swap_math.rs:388), and the vector at
tests/swap_math.rs:58-62 follows it: below the price stands -500,000 and "liquidity halves"
when the walk goes down. In the vectors at tests/swap_math.rs:99-105 and
swap_math.rs:452-458 the tick above the price has a negative net, as it has where nets add
on the way up, and so the graph client reads the subgraph (graph/lib.rs:547-563 and the test
at 769-774). A pool of the model therefore has a sign, `upward`, and pools of either sign
are walked. The two properties of a quote hold of a pool whose sign is the one of
`compute_swap` (`upward` = -1) and, whatever the sign, as long as no net decides, which is up
to the second tick (`NetsAreRead`). They do not hold beyond it where nets add upwards: without
that premise TLC finds `QuoteIsThePools` violated by a pool with `upward` = 1 whose walk
crosses two ticks. The checks and the proofs therefore show that a quote is right if the
contract has the sign `compute_swap` takes it to have, and not that it has.

- `GuardedOrder`: whatever the venue computed from whatever it read, a stored order of
  a pegged pair accepts at least the input's worth at the observed price, less
  deviation, the error of f64 and slippage, to one base unit. It holds for quotes of pools
  that never existed as well (state and ticks of two moments).
- `PlanIsTheLevels`: amount, tokens, chain and least output of a stored plan are the
  level's, whatever single field of an answer of the API differs from what was asked.
  Premise: no two chains go by one name. Of a Cetus plan it constrains the amount and the
  least output only; the pool is chosen by the coins' types.
- `QuoteIsThePools`: a quote of an untouched pool, against the positions: it takes the
  whole input and its fee, pays out no more than they hold between the two prices and
  at most one unit for each crossed tick less, and never pays for less of a move than
  it makes.
  Premises, also of the next: `NetsAreRead`, above, and `Fits`, the arithmetic has room
  for the pool's liquidity at every tick. Each of its three inequalities holds of a
  liquidity below 2^96; beyond it a shift may lose bits and a quote mean nothing.
- `RefusalIsTrue`: a pool is refused as too small only if nothing is left beyond the
  price reached, or what is left of the input would be all fee.
- `SignedIsThePlan`: whatever the API answers, each signed transaction is the wallet's on
  the plan's chain: the swap, or an approval of the proxy for the input token. Whether
  an approval is needed, only the API says: `steps` and `build` look for a field that is
  not null (uniswap/lib.rs:402) and never read the allowance. So that part of the property
  has two premises: the API is `truthful`, and no other order changed an allowance while
  the gas was estimated, between that answer and the signature (`late`). What changed
  before, after the step was derived, is caught, as `build` asks again. An API that lies
  can have approvals of the proxy signed that nobody needs.
- `PointsAreTrue`: the points of a chart are the liquidity of the positions, and no tick
  between the prices shown is left out, if the subgraph did not move on meanwhile; what
  a chart shows that was read across two blocks (graph/lib.rs:312), no property says.

Two branches are never taken in the run: `InBounds` is never false for pools that
obey the assumption, and after `preflight` the refusals of `AskChains` repeat what was
found before.

## Dashboard

`pc` is the place in the loop of `run`: `draw` (a key may be read), `manifest` and `fetch`
(a poll), `market` (a chart may be asked for), `finish` (an answer is taken up). Timers
expire at any time. The daemon is the number of its start, which stands for its
address and its token; `Edit`, `Start` and `Stop` change its rules and replace it, a
kill leaves the manifest behind, and a start may find a new database. A chart is the
strategy it is of and the market that strategy had when the daemon answered. What the
screen shows (`StrategyRows`, `LevelRows`, `Detail`, `MarketPane`, `Executions`) is
defined from the state as the `render` functions do it, and properties speak of that.

| action | code |
|---|---|
| `Input`, `Quit` | `handle_key` with `move_selection`, `r`, Tab, q; then whether a poll is due |
| `ReadManifest`, `Fetch` | `refresh`: the manifest after a failed poll, then the snapshot, `apply` or `disconnect` |
| `Refresh` | `start_market_refresh`, which may abort the request that is out |
| `finish_market_refresh` | `apply_market`, for the selected strategy only |
| `AnswerMarket` | the request's task: the endpoint's answer, or an error |

- `SelectionIsListed`: the selection is always among the rows, the level is the
  strategy's, and the price in the header is of its pair.
- `PaneIsTrue`: no chart of another strategy, and `loading` only while a request for
  the selected one is out.
- `Reconnects`: a daemon that stays is found, and its rules are shown.
- `ChartCatchesUp`: a chart of a market that was replaced under its strategy's id is
  replaced or marked stale in the end.

Fairness: `WF(Loop)`, as each step of the loop ends within a timeout; `WF(AnswerMarket)`,
the request's timeout; `SF(Input /\ Poll)` and `SF(Refresh /\ start_market_refresh)`,
both intervals pass whatever keys are pressed; `SF(Fetch /\ ~disconnected')`, a daemon
that runs and is asked again and again answers in time once. Nothing is assumed of
the daemon or the operator, except in the premises of the two properties.
`ChartCatchesUp` also supposes that the operator stops asking for charts: `r` and a new
selection discard the chart that is under way, so an impatient one may never see it.

## Runs

| run | instance | shows |
|---|---|---|
| `Execution` | 2 orders of one account, 1 fault, 1 tick seen again, 1 operator, cap 1, transition limit 2, the clock to 1 | all safety properties and the refinement, with orders that compete for nonces and a pass that is cut off |
| `ExecutionModes` | 1 order with an allowance before its swap, 2 faults, 1 tick seen again, broadcasting on or off at each start, cap 1 | that filled means landed with an allowance in front, the refinement, and both liveness properties |
| `ExecutionBlocked` | as `ExecutionModes` | `SentIsRecorded` fails when broadcasting is switched off: sent, answer lost, restarted, blocked, failed without a hash |
| `ExecutionNonces` | 2 orders, no fault | `NoncesStayUnique` fails: the first order's send fails and the second signs the same pending nonce |
| `Trigger` | 2 levels, 2 prices, 2 stamps, queue of 1, time 0..2 | the safety properties and `ArmedWhenPlaced` |
| `TriggerReplay` | 1 level | a repeated tick overwrites the failed order |
| `Authoring` | 2 daemon starts, 2 clients, 1 strategy of 2 markets, 2 levels, 2 configs | the three safety properties |
| `PriceFeed` | 1 pair with 2 task names, prices 0, 2, 3, 4 with a limit of 50 %, queue of 1 | the safety properties and `NeededIsWatched` |
| `PriceFeedFirst` | the same with prices 0 and 2 | an invalid first price is queued |
| `Audit` | 2 sessions, 2 quotes, 2 calls at once, 3 attempts, time 0..1 | its properties |
| `Dashboard` | 2 strategies, 2 levels, 2 markets, 2 daemon starts, 1 edit of the rules, 1 order in a snapshot | its safety and liveness properties |
| `Venues` | 938 cases: pools of one to three ranges at seven places, seven amounts, two fees, both sides, both signs of the nets; Uniswap levels under three configurations, with an API that tells allowances truly and one that does not; charts of either orientation; one move of others in each | all properties of the last five modules |

Bounds: `MaxFaults` counts crashes and failed upserts together; one is enough to fall
between any two steps, two let a restart meet a row another fault left behind.
`AllowanceBound` limits allowances, because a venue could ask for ever. The cap, the
backoffs, the deadline and the transition limit are parameters, small enough that each
is reached: with cap 1 and 2 orders are parked after 1 and 2 retries; a limit of 2 or
3 cuts a pass in its middle. Time stands at 0..2 in Trigger with cooldowns, age and
pre-flight delay 1, so each expires and starts again. In Authoring one config is
narrower than the other in each of its three parts, so that each reason to reject a
stored rule arises; two starts let one daemon follow, race or be refused by the other.
In PriceFeed pairs share nothing but the queue, so one is enough to see everything but
a queue filled by another pair, and `Send` and `Block` do not ask who filled it; 2 to
3 and 3 to 4 are plausible moves, 2 to 4 is not, so a rejected 4 can become plausible
later. Three attempts on two quotes let a quote be pruned and recorded again while the
first trade is still under way. `Symmetry` permutes orders, levels, daemons, clients,
or quotes, sessions and tasks, only in runs without liveness; nothing in the models
tells them apart. The proofs have none of these bounds, `MaxFaults` and
`AllowanceBound` being arbitrary naturals there.

In Dashboard two strategies and two levels are the fewest with which a selection moves,
is lost and falls back; one edit of the rules is enough to delete, move or fill what is
selected at any point, and the daemon is replaced by one with other or no rules. In
Venues prices are 2 to 9 over five ticks with `R` = 4, `U64` = 64 and `U128` = 256, so
that products wrap and round at every size of input; `U256` = 256; `MAX_TICKS_FETCHED` = 4,
`TickPage` = 2, `CoinPage` = 2 and `TICK_PAGE_SIZE` = 2 are exceeded or met exactly by some
case, and 20 stands for 10,000 basis points. A mantissa of five bits after the first
(`Mantissa` = 32) rounds amounts of three digits, so that a quote at the limit passes or
fails by its rounding; with `MaxExponent` = 16 the largest price makes dollars infinite;
`PriceUnit` = 2 lets prices be halves. `MaxMoves`, `MaxSpends` and `MaxBlocks` allow one move of others,
between any two reads of a case. Cases do not share state, so one at a time is enough.

Deadlock is checked in all runs but `Audit` (a store nobody calls rests), `Dashboard`
(the operator quits) and `Venues` (a case ends).

## Proofs

The assumptions are those of the modules (`MachineAssumption`,
`ExecutionAssumption`, `TriggerAssumption`, `AuthoringAssumption`,
`PriceFeedAssumption`, `AuditAssumption`, `DashboardAssumption`, `ConfigAssumption`,
`FloatAssumption`, `CetusAssumption`, `VenuesAssumption`): absent values are not values of the
type they stand beside, bounds are natural numbers. TLC evaluates them in every
run.

`ExecutionProofs` proves `Spec => []IInv`. `OneSwapPerOrder` is not inductive: that
a second signing cannot happen after a send depends on what the row in the table
says while the sweep works on a copy. `IInv` therefore says that an open copy not
about to be written equals its row (`HeldIsStored`: nobody else writes the row of
an open order, the operator included, `ReleasedOK`), that the write which is due
continues the row (`WriteOK`: from ready to signed with bytes no node has seen,
from signed to submitted with the same bytes, ...), that rows name transactions of
their own order (`RowsOK`), and that whatever was sent is named by its row
(`SentOK`). A crash falls back to the row, which is why `WriteOK` speaks of row and
copy together. From it:

- `TypeCorrect`, `NoSecondSwap`, `FilledTruly`, `RetryCap`, and
- `NothingSentIsForgotten`: `SentIsRecorded` if `FALSE \notin BroadcastModes`; the run
  `ExecutionBlocked` shows that the condition is needed. The statement itself exempts what
  was signed for an earlier placement of an order that was placed again since.

All theorems of this module assume `ReleasesAreApart` in so many words. A tick that is
seen again overwrites a failed row only (`PlaceOK`): no copy in hand is open then and no
write is due, so only an operator who read the row before it failed could undo the new
placement, and one operator alone cannot have, since nobody but he takes a parked row to
failed.

The same module proves `Implements == Spec => ImplementsLifecycle`: only the
upserts, the operator's write, `Place` and `Land` change what the refinement
mapping sees; each is matched with an action of `OrderLifecycle`, everything else
with a stutter. `SettledForGood` follows from the lifecycle: a filled order stays filled,
a parked one leaves only for failed, a failed one only for a new placement of its own
(what a tick seen again makes of it; the run `TriggerReplay`), an open one is never placed
over, and no swap on the chain is undone.

`TriggerProofs` proves its `IInv` from `CopiesHold`: what was read of a level still
to be decided holds of the table, because only this loop gives an unspent level
an order. `OneLiveOrder`, `NoOrphans` and `ArmedTruly` follow; the last one also
needs that the clock does not run backwards between the decision and the write.

`AuthoringProofs` proves its `IInv`: whoever is between taking and dropping the lock
is the one the file names (`ClaimsHold`); a handler works under the config of a
daemon that has passed preflight (`JobsOK`); and what preflight found stays true
(`StillPasses`), because a write under the lock is either the daemon's own, which
validates against the same config, or excludes a daemon past `Acquire`.
`NoHybridLevels`, `OneDaemonServes` and `TradedRulesPass` follow. The invariant says
nothing of rules written without the lock, which is why `claimed` is recorded.

`PriceFeedProofs` proves its `IInv`, for any number of pairs. A task that is not over
has the handle or was told to stop, the latter only while it runs and only one for a
pair that has no handle (`HandlesOK`); from this `OneTaskForEachPair` follows without
counting tasks. The price a row shows is the baseline of the task behind it, or
the baseline before the quote in hand (`BaselinesOK`), which makes `MovesArePlausible`
a fact about one step, `Report`. A lemma, `PumpStep`, sums up what a step of a task
does to itself and to its row, so that each part of the invariant is argued once.

`AuditProofs` proves its `IInv`: an attempt is executed by the one task that made it,
and ids from `next_id` on are unused (`WorkOK`), and what a task read is still in the
table unless somebody committed (`SnapshotOK`). `Matches` is `QuoteShowsItsAttempt`
without sets, which the provers handle better; `MatchesIsEnough` shows them equal.
`OneAttempt`, `RestartInvalidates`, `OwnResults` and `DueClaims` follow.

`DashboardProofs` proves its `IInv`: rules, and so every snapshot, name no level without
its strategy, and each level has that strategy's pair (`RulesOK`, `SnapshotOK`: the
foreign key, through the poll); `selected_id` and `move_id` pick a listed id if there is
one (`SelectedOK`, from lemmas about the two; `DashboardAssumption` says that lists of
ids have ends, which makes `CHOOSE` of the least one mean something); and a chart that
is wanted is on its way or about to be asked for (`PaneOK`). The last part relates
`market_dirty`, `market_loading` and the request at each place of the loop, which no
property says by itself: `loading` is true in between for a request that was aborted,
because the next one is started before the screen is drawn.

`VenuesProofs` proves, for any configuration, pools, answers and moves of others, all that
the run `Venues` checks. Its `IInv` follows the level's numbers through a case: what was
asked for is the level's (`RequestOK`), the output a walk has come to and the decimals it
is read with are numbers (`WalkOK`), and a draft keeps its request's amount and slippage
and was made of one configured chain's tokens (`FromRequest`, `OfChain`). From it:

- `OrdersAreWorthIt` (`GuardedOrder`), for any mantissa of three bits or more: a rounding is
  off by no more than one part in `Precision` (`RoundedIs`, from `NearestIs`); a limit on
  what was rounded is one on what was there before, but for that part (`LimitBefore`), so the
  three roundings of the deviation cost four parts (`LimitOfThree`, `DeviationKept`), and
  parsing and pricing three more (`BuyIsWorth`, `SellIsWorth`). An infinite output does not
  pass, as it stays infinite to the end (`StaysInfinite`). The roundings of slippage and of
  base units cost one base unit together (`SlippageKept`), and deviation and slippage
  multiply;
- `PlansAreTheLevels` (`PlanIsTheLevels`): if chains' names are their own, the chain that
  was asked is the one the price's lookup finds (`TokenNamed`);
- `SignedTransactions` (`SignedIsThePlan`): neither venue builds for the other's plan, what
  was built was compared with the plan, and as long as nobody else changed an allowance a
  truthful answer is still true when the node has estimated the gas (`BuildOK`).

A pool is a set of positions and everything about it is a sum over them, so the other
four need induction over finite sets. The library's theorems for that take an operator
and cannot be used here. `PoolProofs` does without: a set of naturals that is not empty
has a least member (`LeastNat`, from the well-foundedness of `<` alone), so a set of
cardinalities that has 0 and every successor has them all (`FromNought`, `OneByOne`); and
`SumFunctionOnSet` is unfolded down to the recursive function of the library's
fold and shown to be the one function that adds up (`PartExists`, `PartUnique`,
`SumElements`). From there sums are used by what they satisfy: `SumLess`, `SumLinear`,
`SumSubset`, `SumThrough`, `SumGrows`, `SumAdds`.

- `TypeCorrect` (`TypeOK`): amounts have 64 bits and liquidity 128, where the code wraps
  and where it checks; a walk takes no more than it was given, because a step's input and
  fee are no more than what is left (`StepTypes`); and no tick is crossed twice.
- `ChartsAreTrue` (`PointsAreTrue`): the points below the current price subtract the nets of
  the ticks above them, those above add them. Both come to the sum of the positions
  around the point (`BelowIsTrue`, `AboveIsTrue`, from `CoverThrough`: cover at one tick is
  cover at another plus the nets between). The ticks come in pages, and a page that is
  full is followed by another (`FetchPageTypes`), so none in the bounds is missing
  (`NoneLeftOut`).
- `QuotesAreThePools` and `RefusalsAreTrue` (`QuoteIsThePools`, `RefusalIsTrue`) from
  `WalksAreTrue`, whose invariant is `WalkIsTrue`. While nobody moves, what was read of the
  ticks is the pool's, page by page (`TicksRead`, `PageRead`), and a walk whose nets have
  the sign it takes them to have, or did not decide yet (`NetsStood`), is in one of three
  situations: `Going`, with the crossed ticks behind it, the others ahead, and the
  liquidity of just the positions it is inside of; `Stuck`, when what is left is all fee
  and nothing moves any more; `Done`. In each it has traded what the pool's positions come
  to on its way (`Traded`). Crossing the nearest tick takes it into the positions that
  begin there and out of those that end there, which is what the tick's net is
  (`CrossingIs`); the liquidity it then has is no more than the pool's at some tick
  (`NoMoreThanThere`), so it has room and nothing wraps. A step fits, goes no further than
  its target and pays for its way (`StepIs`, of `StepDown` and `StepUp`); up to the nearest
  tick the way of the walk's liquidity is the way of the pool's positions (`WayIs`), and
  ways add up (`AlongIs`, `TradedOn`). The shares of a price are whole numbers
  because `Multiple` is a multiple of every price, so no fractions are needed.
  As a step always fits, arithmetic is never the reason of a refusal; and a walk that has
  no tick ahead while something is left is past both ends of every position.
  `WalkIsTrue` was checked by TLC on the instance of the run before it was proved, together
  with `IInv`, `Typed` and `ChartOK`.

`VenuesAssumption` says that prices, amounts and decimals of the cases are natural numbers,
chains come in a list, and pools and indexed pools are such as a contract can have
(`ValidPool`, `ValidIndex`: finitely many positions over ranges of ticks, a price between the
pool's tick and the next, liquidity of 128 bits). `CetusAssumption` says the same of what
others make of a pool, that prices grow with their ticks and stay in the code's bounds,
and that integers have the widths they have; `ChartAssumption` that a pair's price grows
with the tick and pages are not empty; `ConfigAssumption` that powers of ten are
positive, which TLC evaluates and the provers do not know.

Type correctness is proved of every state machine.

Model-checked only: the liveness properties (fairness is out of the prover's reach) and
the properties that are violated.

## What the code does and its comments do not say

`PROJECT.json` has four findings: the blocked broadcast (machine.rs:199), the nonce
(io.rs:83), the replayed tick (trigger/run.rs:98) and the invalid first quote
(filtered.rs:65). Met besides, without a run:

- An order that a replayed tick overwrites keeps its first `created_at`
  (storage/strategy.rs:345), so the level does not rest after the second attempt as
  fired.rs:21 says.
- lib.rs drops the lock when `run` returns; a call the admin server accepted is a task
  of its own (server.rs:100) that may still write after it, although lock.rs:7 calls the
  lock a "process-lifetime exclusive database claim".
- `delete_level`'s description says that orders a level started are kept
  (mcp/admin.rs:528, docs/SKILL.md), while the foreign key refuses to delete a level
  that has any order.
- The configuration may name two chains alike, or one like another's id. Uniswap then
  quotes them all and takes the best, although trigger/run.rs:116 says "Never let the
  venue choose a different chain".
- The sign of net liquidity: `compute_swap` and the graph client take it the opposite way,
  and each has test vectors of the repository on its side (see Venues).
- An input of more dollars than f64 holds passes the check of the quote, as NaN exceeds no
  limit (quote_guard.rs:49).
- Cetus refuses an input of which one base unit is left after a tick: its fee is all of
  it, nothing moves, and the walk ends with "insufficient liquidity".
- The dashboard shows the executions of a level among the newest 50 orders of all, so
  a filled level may show none (admin.rs:24). One level whose token is no longer
  configured fails the whole snapshot (admin.rs:384); preflight makes that impossible
  for rules that were there at the start.
- Uniswap's approval is signed when the API says that one is needed, may grant any amount
  and is compared with no allowance; a swap's calldata is not looked into, and
  `build` does not compare the plan with a fresh price: the plan's minimum is the guard.
- `fund_exact_coin` counts the first 50 coins only. Two Sui orders that are built at one
  time may spend the same coin object; one of them fails on the chain.

## Plan

Done: execution with its lifecycle, trigger, authoring, price feed and audit store with
their proofs; the dashboard with its proofs; configuration, units, both venues, the
quote check and the market chart, with proofs of all that their run checks.

Left:

1. Reconnecting price source: sessions, empty sessions and the two backoffs, under the
   filter of `PriceFeed`; that a source that comes back is heard again.
2. Composition: `Trigger` and `Execution` over one orders table
   and a refinement of each to its part; the trigger loop's `Feed` as what `PriceFeed`
   delivers, so that `Trigger`'s assumption becomes a refinement; `Venues` as the quote
   and the build of those two.
3. Proofs: that a chart and a quote of one pool agree at the current price, and the
   refinements of 2.

## Not modelled

- Key files and signatures (`vault`): cryptography and files; signing is a step of
  `Execution` that succeeds or fails. What `Config::validate` asks of key files is in
  `TokenConfig`.
- The Sui client's simulation, gas and object versions; `Execution` has EVM's nonces.
- JSON, HTTP and MCP framing, the decoding of Sui objects, URL and address syntax, colours
  and layout: pure input and output.
- `compute_swap` for an exact output, `create_pool` and other one-off tools: nothing in
  the daemon calls them.
- Research runs of the audit store: written and never read.
