------------------------------ MODULE Dashboard ------------------------------
(***************************************************************************)
(* The terminal dashboard (daemon/src/dashboard.rs): a loop that draws,    *)
(* reads one key, polls the daemon and asks for a market chart, against a  *)
(* daemon that restarts with another address and token and whose rules     *)
(* change between two polls.                                               *)
(*                                                                         *)
(* A daemon is the number of its start: whoever has read the manifest of   *)
(* start n holds its address and its token, and no other daemon answers.   *)
(* Lists arrive sorted by id, so ids are numbers.  A chart is the strategy *)
(* it was asked for and the market that strategy had when the daemon       *)
(* answered; prices and liquidity are MarketChart's.                       *)
(***************************************************************************)
EXTENDS Integers, Sequences, SequencesExt

CONSTANTS
  Strategies, Levels,        \* ids: numbers
  Markets,                   \* what a strategy trades
  Seeds,                     \* rules the database may hold at first
  DEFAULT_ORDER_LIMIT,       \* orders in a snapshot
  MaxStarts, MaxEdits,       \* bounds: starts of the daemon, changes of its rules
  None

Daemons == 1 .. MaxStarts

\* What dashboard_data reads in one transaction.  An order is the level it is of, and
\* is filled: orders that are open or failed are Execution's.
Rules == [market: [Strategies -> Markets \cup {None}],
          strategy_of: [Levels -> Strategies \cup {None}],
          orders: Seq(Levels)]

\* What the daemon makes of it for the dashboard: levels with their price pair and
\* their state, orders newest first.
LevelView == [pair: Markets, runtime_state: {"armed", "filled"}]
Snapshots == [market: [Strategies -> Markets \cup {None}],
              strategy_of: [Levels -> Strategies \cup {None}],
              view: [Levels -> LevelView \cup {None}],
              orders: Seq(Levels)]

Panels == {"strategies", "levels", "market", "executions"}
Charts == [strategy: Strategies, market: Markets]
Requests == [id: Strategies, daemon: Daemons,
             answer: {"pending", "error"} \cup Markets]

ASSUME DashboardAssumption ==
  /\ Strategies \subseteq Nat /\ Levels \subseteq Nat
  /\ \A ids \in (SUBSET Strategies) \cup (SUBSET Levels) : ids # {} =>  \* lists have ends
       \E lo, hi \in ids : \A i \in ids : lo <= i /\ i <= hi
  /\ \A r \in Seeds : r \in Rules /\ \A l \in Levels :
       r.strategy_of[l] # None => r.market[r.strategy_of[l]] # None
  /\ MaxStarts \in Nat \ {0} /\ MaxEdits \in Nat
  /\ DEFAULT_ORDER_LIMIT \in Nat
  /\ None \notin Strategies /\ None \notin Levels /\ None \notin Daemons
  /\ None \notin Requests /\ None \notin Charts
  /\ Markets \cap {None, "pending", "error"} = {}

VARIABLES
  rules, daemon, manifest,   \* the daemon: its database, the start that serves, the manifest
  edits, starts,             \* bounds used up
  pc,                        \* where the client's loop is
  snapshot,
  endpoint, reload_manifest,
  selected_strategy, selected_level,
  disconnected,
  panel,
  market, market_loading, market_stale, market_error, market_dirty,
  market_request,
  market_due                 \* a key has put next_market to now

server == <<rules, daemon, manifest, edits, starts>>
selection == <<selected_strategy, selected_level>>
chart == <<market, market_loading, market_stale, market_error>>
link == <<endpoint, reload_manifest, disconnected>>
vars == <<server, pc, snapshot, link, selection, panel, chart, market_dirty,
          market_request, market_due>>

------------------------------------------------------------------------------
(* Lists and the selection in them.                                        *)

StrategiesOf(r) == {s \in Strategies : r.market[s] # None}
LevelsOf(r, s) == {l \in Levels : s # None /\ r.strategy_of[l] = s}

Least(ids) == CHOOSE i \in ids : \A j \in ids : i <= j
Greatest(ids) == CHOOSE i \in ids : \A j \in ids : j <= i
\* Mutant: keeps an id that is listed no more.
selected_id_kept(current, ids) ==
  IF current # None THEN current ELSE IF ids = {} THEN None ELSE Least(ids)

\* Keeps the current id if it is listed, else takes the first.
selected_id(current, ids) ==
  IF current \in ids THEN current ELSE IF ids = {} THEN None ELSE Least(ids)

\* An id that is not listed counts as the first; the ends do not wrap around.
move_id(current, ids, delta) ==
  LET at == selected_id(current, ids)
      next == {i \in ids : IF delta = 1 THEN at < i ELSE i < at}
  IN IF ids = {} THEN None
     ELSE IF next = {} THEN at
     ELSE IF delta = 1 THEN Least(next) ELSE Greatest(next)

\* The chart is dropped when another strategy is selected, and another is wanted.
ClearIfMoved ==
  IF selected_strategy' # selected_strategy
  THEN /\ market' = None /\ market_error' = FALSE /\ market_stale' = FALSE
       /\ market_dirty' = TRUE
       /\ UNCHANGED market_loading
  ELSE UNCHANGED <<chart, market_dirty>>

apply(shown) ==
  /\ selected_strategy' = selected_id(selected_strategy, StrategiesOf(shown))
  /\ selected_level' = selected_id(selected_level, LevelsOf(shown, selected_strategy'))
  /\ ClearIfMoved
  /\ snapshot' = shown
  /\ disconnected' = FALSE

------------------------------------------------------------------------------
(* The daemon.                                                             *)

NoRules == [market |-> [s \in Strategies |-> None],
            strategy_of |-> [l \in Levels |-> None],
            orders |-> <<>>]

Filled == Range(rules.orders)

\* A strategy is added, or changes its market while it has no levels.
SetStrategy(s, m) ==
  /\ LevelsOf(rules, s) = {} /\ rules.market[s] # m
  /\ rules' = [rules EXCEPT !.market[s] = m]

\* A level is added, or moved to another strategy.
SetLevel(l, s) ==
  /\ rules.market[s] # None /\ rules.strategy_of[l] # s
  /\ rules' = [rules EXCEPT !.strategy_of[l] = s]

\* The foreign key keeps a level that has an order.
DeleteLevel(l) ==
  /\ rules.strategy_of[l] # None /\ l \notin Filled
  /\ rules' = [rules EXCEPT !.strategy_of[l] = None]

Fill(l) ==
  /\ rules.strategy_of[l] # None /\ l \notin Filled
  /\ rules' = [rules EXCEPT !.orders = Append(@, l)]

dashboard_level_view(l) ==
  IF rules.strategy_of[l] = None THEN None
  ELSE [pair |-> rules.market[rules.strategy_of[l]],
        runtime_state |-> IF l \in Filled THEN "filled" ELSE "armed"]

dashboard_snapshot ==
  [market |-> rules.market, strategy_of |-> rules.strategy_of,
   view |-> [l \in Levels |-> dashboard_level_view(l)],
   orders |-> LET newest == Reverse(rules.orders)
              IN SubSeq(newest, 1, IF Len(newest) < DEFAULT_ORDER_LIMIT THEN Len(newest)
                                   ELSE DEFAULT_ORDER_LIMIT)]

\* A daemon answers those who hold its address and its token.
authorized(holder) == holder = daemon

Edit ==
  /\ daemon # None /\ edits < MaxEdits
  /\ edits' = edits + 1
  /\ \/ \E s \in Strategies, m \in Markets : SetStrategy(s, m)
     \/ \E l \in Levels, s \in Strategies : SetLevel(l, s)
     \/ \E l \in Levels : DeleteLevel(l) \/ Fill(l)
  /\ UNCHANGED <<daemon, manifest, starts>>

\* Start publishes a new address and token; the operator may have removed the database.
Start ==
  /\ daemon = None /\ starts < MaxStarts
  /\ starts' = starts + 1
  /\ daemon' = starts + 1 /\ manifest' = starts + 1
  /\ \/ UNCHANGED <<rules, edits>>
     \/ edits < MaxEdits /\ rules' = NoRules /\ edits' = edits + 1

\* A daemon that stops takes its manifest with it, one that is killed leaves it.
Stop ==
  /\ daemon # None
  /\ daemon' = None
  /\ manifest' \in {None, manifest}
  /\ UNCHANGED <<rules, edits, starts>>

\* dashboard_market, as the daemon answers it: not for a strategy it does not know.
AnswerMarket ==
  /\ market_request # None /\ market_request.answer = "pending"
  /\ \/ /\ authorized(market_request.daemon)
        /\ rules.market[market_request.id] # None
        /\ market_request' = [market_request EXCEPT !.answer = rules.market[market_request.id]]
     \/ market_request' = [market_request EXCEPT !.answer = "error"]
  /\ UNCHANGED <<server, pc, snapshot, link, selection, panel, chart, market_dirty,
                 market_due>>

Serve ==
  \/ /\ Edit \/ Start \/ Stop
     /\ UNCHANGED <<pc, snapshot, link, selection, panel, chart, market_dirty,
                    market_request, market_due>>
  \/ AnswerMarket

------------------------------------------------------------------------------
(* The client.  A step of its loop ends where the next begins; `draw' is   *)
(* the moment the screen is drawn and a key may be read.                   *)

move_selection(delta) ==
  CASE panel = "strategies" ->
         /\ selected_strategy' = move_id(selected_strategy, StrategiesOf(snapshot), delta)
         /\ selected_level' = selected_id(None, LevelsOf(snapshot, selected_strategy'))
         /\ ClearIfMoved
    [] panel = "levels" ->
         /\ selected_level' = move_id(selected_level, LevelsOf(snapshot, selected_strategy), delta)
         /\ UNCHANGED <<selected_strategy, chart, market_dirty>>
    [] OTHER -> UNCHANGED <<selection, chart, market_dirty>>

NextPanel == [strategies |-> "levels", levels |-> "market", market |-> "executions",
              executions |-> "strategies"]

\* next_poll is reached at any time.  The key that toggles the kind of chart is left out.
Poll == pc' = IF reload_manifest THEN "manifest" ELSE "fetch"
NoPoll == pc' = "market"

handle_key ==
  \/ /\ \E delta \in {1, -1} : move_selection(delta)
     /\ market_due' = (selected_strategy' # selected_strategy)
     /\ UNCHANGED panel
     /\ Poll \/ NoPoll
  \/ /\ market_due' = TRUE
     /\ UNCHANGED <<selection, chart, market_dirty, panel>>
     /\ Poll
  \/ /\ panel' = NextPanel[panel]
     /\ UNCHANGED <<selection, chart, market_dirty, market_due>>
     /\ Poll \/ NoPoll

NoKey ==
  /\ UNCHANGED <<selection, chart, market_dirty, panel, market_due>>
  /\ Poll \/ NoPoll

Input ==
  /\ pc = "draw"
  /\ handle_key \/ NoKey
  /\ UNCHANGED <<server, snapshot, link, market_request>>

Quit ==
  /\ pc = "draw" /\ pc' = "quit"
  /\ UNCHANGED <<server, snapshot, link, selection, panel, chart, market_dirty,
                 market_request, market_due>>

\* After a failed poll the manifest is read again, and without one nothing is asked.
ReadManifest ==
  /\ pc = "manifest"
  /\ IF manifest # None
     THEN endpoint' = manifest /\ pc' = "fetch" /\ UNCHANGED disconnected
     ELSE disconnected' = TRUE /\ pc' = "market" /\ UNCHANGED endpoint
  /\ UNCHANGED <<server, snapshot, reload_manifest, selection, panel, chart, market_dirty,
                 market_request, market_due>>
\* Mutant: goes on asking the address it has.
FetchForGood ==
  /\ pc = "fetch" /\ pc' = "market"
  /\ \/ /\ authorized(endpoint)
        /\ apply(dashboard_snapshot) /\ reload_manifest' = FALSE
     \/ /\ disconnected' = TRUE
        /\ UNCHANGED <<selection, chart, market_dirty, snapshot, reload_manifest>>
  /\ UNCHANGED <<server, endpoint, panel, market_request, market_due>>

\* The daemon answers its own token only; an answer may come too late.  The client
\* does nothing between the moment the daemon reads its rules and the answer.
Fetch ==
  /\ pc = "fetch" /\ pc' = "market"
  /\ \/ /\ authorized(endpoint)
        /\ apply(dashboard_snapshot) /\ reload_manifest' = FALSE
     \/ /\ disconnected' = TRUE /\ reload_manifest' = TRUE
        /\ UNCHANGED <<selection, chart, market_dirty, snapshot>>
  /\ UNCHANGED <<server, endpoint, panel, market_request, market_due>>
\* Mutant: waits for the request that is out, whatever was selected since.
start_market_refresh_later ==
  CASE selected_strategy = None ->
         /\ market_dirty' = FALSE /\ market_loading' = FALSE
         /\ UNCHANGED market_request
    [] selected_strategy # None /\ market_request # None ->
         /\ market_dirty' = FALSE /\ market_loading' = TRUE
         /\ UNCHANGED market_request
    [] OTHER ->
         /\ market_dirty' = FALSE /\ market_loading' = TRUE
         /\ market_request' = [id |-> selected_strategy, daemon |-> endpoint, answer |-> "pending"]

\* One request at a time; one that is under way is given up for another strategy only.
start_market_refresh ==
  CASE selected_strategy = None ->
         /\ market_dirty' = FALSE /\ market_loading' = FALSE
         /\ UNCHANGED market_request
    [] /\ selected_strategy # None /\ ~market_dirty
       /\ market_request # None /\ market_request.answer = "pending" ->
         UNCHANGED <<market_dirty, market_loading, market_request>>
    [] OTHER ->
         /\ market_dirty' = FALSE /\ market_loading' = TRUE
         /\ market_request' = [id |-> selected_strategy, daemon |-> endpoint, answer |-> "pending"]
\* Mutant: asks for a chart when one is wanted, and never again.
RefreshOnce ==
  /\ pc = "market" /\ pc' = "finish"
  /\ IF market_due \/ market_dirty
     THEN start_market_refresh
     ELSE UNCHANGED <<market_dirty, market_loading, market_request>>
  /\ market_due' = FALSE
  /\ UNCHANGED <<server, snapshot, link, selection, panel, market, market_stale, market_error>>

\* next_market is reached at any time too, except while a request is out: its
\* interval is five minutes, the timeout of a request fifteen seconds.
Refresh ==
  /\ pc = "market" /\ pc' = "finish"
  /\ \/ /\ market_due \/ market_dirty \/ market_request = None
        /\ start_market_refresh
     \/ /\ ~market_due /\ ~market_dirty
        /\ UNCHANGED <<market_dirty, market_loading, market_request>>
  /\ market_due' = FALSE
  /\ UNCHANGED <<server, snapshot, link, selection, panel, market, market_stale,
                 market_error>>

apply_market_error ==
  /\ market_loading' = FALSE
  /\ market_stale' = (market # None) /\ market_error' = TRUE
  /\ UNCHANGED market
\* Mutant: takes an error for a chart.
apply_market_unread(id, answer) ==
  IF id # selected_strategy THEN UNCHANGED chart
  ELSE /\ market' = [strategy |-> id, market |-> answer]
       /\ market_loading' = FALSE /\ market_stale' = FALSE /\ market_error' = FALSE

apply_market(id, answer) ==
  CASE id # selected_strategy -> UNCHANGED chart
    [] id = selected_strategy /\ answer = "error" -> apply_market_error
    [] OTHER ->
         /\ market' = [strategy |-> id, market |-> answer]
         /\ market_loading' = FALSE /\ market_stale' = FALSE /\ market_error' = FALSE

finish_market_refresh ==
  /\ pc = "finish" /\ pc' = "draw"
  /\ IF market_request = None \/ market_request.answer = "pending"
     THEN UNCHANGED <<chart, market_request>>
     ELSE /\ market_request' = None
          /\ apply_market(market_request.id, market_request.answer)
  /\ UNCHANGED <<server, snapshot, link, selection, panel, market_dirty, market_due>>

Loop == Input \/ ReadManifest \/ Fetch \/ Refresh \/ finish_market_refresh

\* DashboardClient::attach: the client starts with an answer of a daemon that runs.
InitWith(r) ==
  /\ rules = r /\ daemon = 1 /\ manifest = 1
  /\ edits = 0 /\ starts = 1
  /\ pc = "finish" /\ snapshot = dashboard_snapshot
  /\ endpoint = 1 /\ reload_manifest = FALSE /\ disconnected = FALSE
  /\ selected_strategy = selected_id(None, StrategiesOf(r))
  /\ selected_level = selected_id(None, LevelsOf(r, selected_strategy))
  /\ panel = "strategies"
  /\ market = None /\ market_loading = FALSE /\ market_stale = FALSE /\ market_error = FALSE
  /\ market_dirty = (selected_strategy # None) /\ market_request = None
  /\ market_due = TRUE

Init == \E r \in Seeds : InitWith(r)

Next == Serve \/ Loop \/ Quit

Spec == Init /\ [][Next]_vars

\* The loop never waits longer than a timeout and both intervals pass; a daemon that
\* is asked again and again answers in time, and a chart is answered or times out.
\* Nothing is asked of the daemon or of its operator.
Fairness ==
  /\ WF_vars(Loop) /\ WF_vars(AnswerMarket)
  /\ SF_vars(Input /\ Poll) /\ SF_vars(Fetch /\ ~disconnected') /\ SF_vars(Refresh /\ start_market_refresh)
LiveSpec == Spec /\ Fairness

------------------------------------------------------------------------------
(* What is on the screen, a function of the state when it is drawn.        *)

Connection == IF disconnected THEN "disconnected" ELSE "connected"

\* The pair whose price and health the header shows: that of the selected level.
selected_feed == IF selected_level = None THEN None ELSE snapshot.view[selected_level].pair

\* A list and its highlighted row.
StrategyRows ==
  [rows |-> StrategiesOf(snapshot), highlighted |-> StrategiesOf(snapshot) \cap {selected_strategy}]
LevelRows ==
  LET rows == LevelsOf(snapshot, selected_strategy)
  IN [rows |-> rows, highlighted |-> rows \cap {selected_level}]

\* The orders of the selected level among the newest of all levels.
Executions == SelectSeq(snapshot.orders, LAMBDA l : l = selected_level)

\* The levels drawn as lines across a chart.
active_levels ==
  {l \in LevelsOf(snapshot, selected_strategy) : snapshot.view[l].runtime_state # "filled"}

market_suffix == IF market_stale THEN "stale" ELSE IF market_loading THEN "refreshing" ELSE ""

PriceChart ==
  [shows |-> "prices", of |-> market.market, mark |-> market_suffix, lines |-> active_levels]
LiquidityChart ==
  [shows |-> "liquidity", of |-> market.market, mark |-> market_suffix, lines |-> active_levels]

\* What is said of the selection above the chart, with the last error.
Detail ==
  [market |-> IF selected_strategy = None THEN None ELSE snapshot.market[selected_strategy],
   level  |-> selected_level, error |-> market_error]

MarketPane(mode) ==
  CASE market # None /\ market.strategy = selected_strategy ->
         IF mode = "price" THEN PriceChart ELSE LiquidityChart
    [] (market = None \/ market.strategy # selected_strategy) /\ market_loading ->
         [shows |-> "loading"]
    [] OTHER -> [shows |-> IF market_error THEN "error" ELSE "not loaded"]

\* Below a minimal size only the panel in focus is drawn.
Visible(large) == IF large THEN Panels ELSE {panel}

------------------------------------------------------------------------------
(* Properties.                                                             *)

(* The variables keep their types. *)
TypeOK ==
  /\ rules \in Rules /\ snapshot \in Snapshots
  /\ daemon \in Daemons \cup {None} /\ manifest \in Daemons \cup {None}
  /\ edits \in 0 .. MaxEdits /\ starts \in Daemons
  /\ pc \in {"draw", "manifest", "fetch", "market", "finish", "quit"}
  /\ endpoint \in Daemons /\ reload_manifest \in BOOLEAN /\ disconnected \in BOOLEAN
  /\ selected_strategy \in Strategies \cup {None}
  /\ selected_level \in Levels \cup {None}
  /\ panel \in Panels
  /\ market \in Charts \cup {None}
  /\ market_loading \in BOOLEAN /\ market_stale \in BOOLEAN /\ market_error \in BOOLEAN
  /\ market_dirty \in BOOLEAN
  /\ market_request \in Requests \cup {None}
  /\ market_due \in BOOLEAN

(* Whatever strategies and levels come, go or move between polls, the selected
   strategy and level are in the lists on the screen, the level is one of the
   selected strategy, none is selected only when there is none, and so the price
   in the header is of the selected strategy's pair (apply, move_selection). *)
SelectionIsListed ==
  LET one(list) == list.rows # {} => list.highlighted # {}
  IN /\ one(StrategyRows) /\ one(LevelRows)
     /\ selected_strategy \in StrategyRows.rows \cup {None}
     /\ selected_level \in LevelRows.rows \cup {None}
     /\ selected_level # None => selected_feed = Detail.market

(* A chart asked for one strategy is never held for another, however late it is
   answered; `loading' and `refreshing' are shown only while a request for the
   selected strategy is out, and `not loaded' only before the first one or with
   nothing selected: the pane cannot hang in a state that no answer will end. *)
PaneIsTrue ==
  /\ market # None => market.strategy = selected_strategy
  /\ pc = "draw" /\ market_loading =>
       market_request # None /\ market_request.id = selected_strategy
  /\ pc = "draw" /\ MarketPane("price").shows = "not loaded" =>
       selected_strategy = None \/ (market_dirty /\ market_request = None)

(* If the daemon, however often it was replaced, in the end keeps running, a
   dashboard that is not closed shows its rules again and again, from that daemon
   and with no hint of a stale snapshot, without being started anew. *)
Reconnects ==
  <>[](daemon # None) =>
    <>[](pc = "quit") \/ []<>(Connection = "connected" /\ endpoint = daemon /\ snapshot = dashboard_snapshot)

(* If moreover the operator stops asking for charts, the chart is in the end of the
   market its strategy has now, or is marked stale: the chart of a market that was
   replaced under the same strategy id does not stay for good. *)
ChartCatchesUp ==
  <>[](daemon # None /\ ~market_due) =>
    <>[](pc = "quit") \/
    <>[](market # None => market_stale \/ market.market = rules.market[market.strategy])

------------------------------------------------------------------------------
(* The inductive invariant.                                                *)

Picks(id, ids) == id \in ids \/ (id = None /\ ids = {})

\* Levels have a strategy that is there: the foreign key.
RulesOK ==
  \A l \in Levels : rules.strategy_of[l] # None => rules.market[rules.strategy_of[l]] # None

\* So has what the daemon made of them, and each level the pair of its strategy.
SnapshotOK ==
  \A l \in Levels : snapshot.strategy_of[l] # None =>
    /\ snapshot.market[snapshot.strategy_of[l]] # None
    /\ snapshot.view[l].pair = snapshot.market[snapshot.strategy_of[l]]

SelectedOK ==
  /\ Picks(selected_strategy, StrategiesOf(snapshot))
  /\ Picks(selected_level, LevelsOf(snapshot, selected_strategy))

\* A chart is on its way whenever one is wanted and there is neither one nor an error.
PaneOK ==
  /\ market # None => market.strategy = selected_strategy
  /\ market_loading =>
       market_dirty \/ (market_request # None /\ market_request.id = selected_strategy)
  /\ selected_strategy # None /\ market = None /\ ~market_error => market_loading \/ market_dirty
  /\ pc \in {"finish", "draw"} => ~market_dirty \/ (market_request = None /\ ~market_loading)

IInv == TypeOK /\ RulesOK /\ SnapshotOK /\ SelectedOK /\ PaneOK
==============================================================================
