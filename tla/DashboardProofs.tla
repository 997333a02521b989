---------------------------- MODULE DashboardProofs ----------------------------
(***************************************************************************)
(* Proofs about Dashboard, for any ids, rules, starts and edits.           *)
(***************************************************************************)
EXTENDS Dashboard, TLAPS

-----------------------------------------------------------------------------
(* The selection in a list.                                                *)

Lists == (SUBSET Strategies) \cup (SUBSET Levels)

LEMMA ListOfIds ==
  ASSUME NEW ids \in Lists
  PROVE  /\ ids \in SUBSET Nat /\ None \notin ids
         /\ \A part \in SUBSET ids : part \in Lists
<1>1. ids \subseteq Strategies \/ ids \subseteq Levels
  BY DEF Lists
<1>3. /\ Strategies \subseteq Nat /\ Levels \subseteq Nat
      /\ None \notin Strategies /\ None \notin Levels
  BY DashboardAssumption
<1>2. \A part \in SUBSET ids : part \in Lists
  BY DEF Lists
<1> QED
  BY <1>1, <1>2, <1>3

LEMMA EndsIn ==
  ASSUME NEW ids \in Lists, ids # {}
  PROVE  Least(ids) \in ids /\ Greatest(ids) \in ids
<1>1. PICK lo \in ids, hi \in ids : \A i \in ids : lo <= i /\ i <= hi
  BY DashboardAssumption DEF Lists
<1> QED
  BY <1>1 DEF Least, Greatest

LEMMA SelectedIdPicks ==
  ASSUME NEW ids \in Lists, NEW current
  PROVE  Picks(selected_id(current, ids), ids)
BY EndsIn DEF Picks, selected_id

LEMMA MoveIdPicks ==
  ASSUME NEW ids \in Lists, NEW current, NEW delta
  PROVE  Picks(move_id(current, ids, delta), ids)
<1> DEFINE at == selected_id(current, ids)
           next == {i \in ids : IF delta = 1 THEN at < i ELSE i < at}
<1>1. Picks(at, ids)
  BY SelectedIdPicks
<1>2. next \in Lists
  BY ListOfIds
<1>3. next # {} => Least(next) \in ids /\ Greatest(next) \in ids
  <2> HIDE DEF at
  <2> QED
    BY <1>2, EndsIn
<1>4. CASE ids = {}
  BY <1>4 DEF move_id, Picks
<1>5. CASE ids # {} /\ next = {}
  <2>1. move_id(current, ids, delta) = at
    BY <1>5 DEF move_id
  <2> QED
    BY <1>1, <2>1
<1>6. CASE ids # {} /\ next # {}
  <2>1. move_id(current, ids, delta) = IF delta = 1 THEN Least(next) ELSE Greatest(next)
    BY <1>6 DEF move_id
  <2> HIDE DEF next
  <2> QED
    BY <1>3, <1>6, <2>1 DEF Picks
<1> QED
  BY <1>4, <1>5, <1>6

LEMMA ListsAre ==
  ASSUME NEW r, NEW s
  PROVE  StrategiesOf(r) \in Lists /\ LevelsOf(r, s) \in Lists
BY DEF StrategiesOf, LevelsOf, Lists

LEMMA NoneApart ==
  /\ None \notin Strategies /\ None \notin Levels /\ None \notin Daemons
  /\ \A m \in Markets : m # None /\ m # "pending" /\ m # "error"
<1>1. Markets \cap {None, "pending", "error"} = {}
  BY DashboardAssumption
<1> QED
  BY <1>1, DashboardAssumption

-----------------------------------------------------------------------------
(* The daemon's rules, and what it shows of them.                          *)

\* A snapshot of rules that are sound is one the client can show.
LEMMA SnapshotShows ==
  ASSUME rules \in Rules, RulesOK
  PROVE  /\ dashboard_snapshot \in Snapshots
         /\ \A l \in Levels : dashboard_snapshot.strategy_of[l] # None =>
              /\ dashboard_snapshot.market[dashboard_snapshot.strategy_of[l]] # None
              /\ dashboard_snapshot.view[l].pair
                   = dashboard_snapshot.market[dashboard_snapshot.strategy_of[l]]
<1> USE NoneApart
<1>1. /\ rules.market \in [Strategies -> Markets \cup {None}]
      /\ rules.strategy_of \in [Levels -> Strategies \cup {None}]
      /\ rules.orders \in Seq(Levels)
  BY DEF Rules
<1>2. ASSUME NEW l \in Levels, rules.strategy_of[l] # None
      PROVE  /\ rules.market[rules.strategy_of[l]] \in Markets
             /\ dashboard_level_view(l) \in LevelView
             /\ dashboard_level_view(l).pair = rules.market[rules.strategy_of[l]]
  BY <1>1, <1>2 DEF RulesOK, dashboard_level_view, LevelView
<1>3. ASSUME NEW l \in Levels
      PROVE  dashboard_level_view(l) \in LevelView \cup {None}
  BY <1>2 DEF dashboard_level_view
<1> DEFINE view == [l \in Levels |-> dashboard_level_view(l)]
           newest == Reverse(rules.orders)
           last == IF Len(newest) < DEFAULT_ORDER_LIMIT THEN Len(newest) ELSE DEFAULT_ORDER_LIMIT
<1>4. view \in [Levels -> LevelView \cup {None}]
  BY <1>3
<1>5. newest \in Seq(Levels)
  BY <1>1 DEF Reverse
<1>6. last \in 0 .. Len(newest)
  <2> HIDE DEF newest
  <2> QED
    BY <1>5, DashboardAssumption
<1>7. SubSeq(newest, 1, last) \in Seq(Levels)
  <2> HIDE DEF newest, last
  <2> QED
    BY <1>5, <1>6
<1>8. dashboard_snapshot = [market |-> rules.market, strategy_of |-> rules.strategy_of,
                            view |-> view, orders |-> SubSeq(newest, 1, last)]
  BY DEF dashboard_snapshot
<1>9. dashboard_snapshot \in Snapshots
  <2> HIDE DEF view, newest, last
  <2> QED
    BY <1>1, <1>4, <1>7, <1>8 DEF Snapshots
<1>10. ASSUME NEW l \in Levels, dashboard_snapshot.strategy_of[l] # None
       PROVE  /\ dashboard_snapshot.market[dashboard_snapshot.strategy_of[l]] # None
              /\ dashboard_snapshot.view[l].pair
                   = dashboard_snapshot.market[dashboard_snapshot.strategy_of[l]]
  <2>1. rules.strategy_of[l] # None
    BY <1>8, <1>10
  <2>2. dashboard_snapshot.view[l] = dashboard_level_view(l)
    BY <1>8
  <2> QED
    BY <1>2, <1>8, <2>1, <2>2
<1> QED
  BY <1>9, <1>10

LEMMA EditRules ==
  ASSUME rules \in Rules, RulesOK,
         \/ \E s \in Strategies, m \in Markets : SetStrategy(s, m)
         \/ \E l \in Levels, s \in Strategies : SetLevel(l, s)
         \/ \E l \in Levels : DeleteLevel(l) \/ Fill(l)
  PROVE  rules' \in Rules /\ RulesOK'
<1> USE NoneApart
<1>1. /\ rules.market \in [Strategies -> Markets \cup {None}]
      /\ rules.strategy_of \in [Levels -> Strategies \cup {None}]
      /\ rules.orders \in Seq(Levels)
  BY DEF Rules
<1>2. ASSUME NEW s \in Strategies, NEW m \in Markets, SetStrategy(s, m)
      PROVE  rules' \in Rules /\ RulesOK'
  <2>1. rules' = [rules EXCEPT !.market = [rules.market EXCEPT ![s] = m]]
    BY <1>2 DEF SetStrategy
  <2>2. /\ rules'.market = [rules.market EXCEPT ![s] = m]
        /\ rules'.strategy_of = rules.strategy_of /\ rules' \in Rules
    BY <1>1, <2>1 DEF Rules
  <2> QED
    BY <1>1, <2>2 DEF RulesOK
<1>3. ASSUME NEW l \in Levels, NEW s \in Strategies, SetLevel(l, s)
      PROVE  rules' \in Rules /\ RulesOK'
  <2>1. rules' = [rules EXCEPT !.strategy_of = [rules.strategy_of EXCEPT ![l] = s]]
    BY <1>3 DEF SetLevel
  <2>2. /\ rules'.strategy_of = [rules.strategy_of EXCEPT ![l] = s]
        /\ rules'.market = rules.market /\ rules' \in Rules
    BY <1>1, <2>1 DEF Rules
  <2> QED
    BY <1>1, <1>3, <2>2 DEF RulesOK, SetLevel
<1>4. ASSUME NEW l \in Levels, DeleteLevel(l)
      PROVE  rules' \in Rules /\ RulesOK'
  <2>1. rules' = [rules EXCEPT !.strategy_of = [rules.strategy_of EXCEPT ![l] = None]]
    BY <1>4 DEF DeleteLevel
  <2>2. /\ rules'.strategy_of = [rules.strategy_of EXCEPT ![l] = None]
        /\ rules'.market = rules.market /\ rules' \in Rules
    BY <1>1, <2>1 DEF Rules
  <2> QED
    BY <1>1, <2>2 DEF RulesOK
<1>5. ASSUME NEW l \in Levels, Fill(l)
      PROVE  rules' \in Rules /\ RulesOK'
  <2>1. rules' = [rules EXCEPT !.orders = Append(rules.orders, l)]
    BY <1>5 DEF Fill
  <2>2. Append(rules.orders, l) \in Seq(Levels)
    BY <1>1
  <2>3. /\ rules'.strategy_of = rules.strategy_of
        /\ rules'.market = rules.market /\ rules' \in Rules
    BY <1>1, <2>1, <2>2 DEF Rules
  <2> QED
    BY <2>3 DEF RulesOK
<1> QED
  BY <1>2, <1>3, <1>4, <1>5

LEMMA NoRulesOK == NoRules \in Rules /\ \A l \in Levels : NoRules.strategy_of[l] = None
BY DEF NoRules, Rules

-----------------------------------------------------------------------------
(* Steps of the selection.                                                 *)

LEMMA PicksType ==
  ASSUME NEW r, NEW s, NEW id
  PROVE  /\ Picks(id, StrategiesOf(r)) => id \in Strategies \cup {None}
         /\ Picks(id, LevelsOf(r, s)) => id \in Levels \cup {None}
BY DEF Picks, StrategiesOf, LevelsOf

\* The part of PaneOK that holds all through the loop.
PaneLoop ==
  /\ market # None => market.strategy = selected_strategy
  /\ market_loading =>
       market_dirty \/ (market_request # None /\ market_request.id = selected_strategy)
  /\ selected_strategy # None /\ market = None /\ ~market_error => market_loading \/ market_dirty

ChartTypes ==
  /\ market \in Charts \cup {None}
  /\ market_loading \in BOOLEAN /\ market_stale \in BOOLEAN /\ market_error \in BOOLEAN
  /\ market_dirty \in BOOLEAN

LEMMA Cleared ==
  ASSUME PaneLoop, ChartTypes, ClearIfMoved, market_request' = market_request
  PROVE  PaneLoop' /\ ChartTypes'
<1>1. CASE selected_strategy' # selected_strategy
  BY <1>1 DEF PaneLoop, ChartTypes, ClearIfMoved
<1>2. CASE selected_strategy' = selected_strategy
  BY <1>2 DEF PaneLoop, ChartTypes, ClearIfMoved, chart
<1> QED
  BY <1>1, <1>2

LEMMA Kept ==
  ASSUME PaneLoop, ChartTypes, UNCHANGED <<chart, market_dirty, market_request, selected_strategy>>
  PROVE  PaneLoop' /\ ChartTypes'
BY DEF PaneLoop, ChartTypes, chart

\* Whatever moves the selection, it stays in the lists on the screen.
LEMMA MovedSelection ==
  ASSUME SelectedOK, PaneLoop, ChartTypes, NEW delta, move_selection(delta),
         snapshot' = snapshot, market_request' = market_request
  PROVE  SelectedOK' /\ PaneLoop' /\ ChartTypes'
<1>1. CASE panel = "strategies"
  <2>1. /\ selected_strategy' = move_id(selected_strategy, StrategiesOf(snapshot), delta)
        /\ selected_level' = selected_id(None, LevelsOf(snapshot, selected_strategy'))
        /\ ClearIfMoved
    BY <1>1 DEF move_selection
  <2>2. Picks(selected_strategy', StrategiesOf(snapshot))
    BY <2>1, ListsAre, MoveIdPicks
  <2>3. Picks(selected_level', LevelsOf(snapshot, selected_strategy'))
    BY <2>1, ListsAre, SelectedIdPicks
  <2> QED
    BY <2>1, <2>2, <2>3, Cleared DEF SelectedOK
<1>2. CASE panel = "levels"
  <2>1. /\ selected_level' = move_id(selected_level, LevelsOf(snapshot, selected_strategy), delta)
        /\ UNCHANGED <<selected_strategy, chart, market_dirty>>
    BY <1>2 DEF move_selection
  <2>2. Picks(selected_level', LevelsOf(snapshot, selected_strategy))
    BY <2>1, ListsAre, MoveIdPicks
  <2> QED
    BY <2>1, <2>2, Kept DEF SelectedOK
<1>3. CASE panel # "strategies" /\ panel # "levels"
  <2>1. UNCHANGED <<selection, chart, market_dirty>>
    BY <1>3 DEF move_selection
  <2> QED
    BY <2>1, Kept DEF SelectedOK, selection
<1> QED
  BY <1>1, <1>2, <1>3

\* A new snapshot keeps what is still listed.
LEMMA AppliedSelection ==
  ASSUME PaneLoop, ChartTypes, NEW shown, apply(shown), market_request' = market_request
  PROVE  SelectedOK' /\ PaneLoop' /\ ChartTypes'
<1>1. /\ selected_strategy' = selected_id(selected_strategy, StrategiesOf(shown))
      /\ selected_level' = selected_id(selected_level, LevelsOf(shown, selected_strategy'))
      /\ ClearIfMoved /\ snapshot' = shown
  BY DEF apply
<1>2. Picks(selected_strategy', StrategiesOf(shown))
  BY <1>1, ListsAre, SelectedIdPicks
<1>3. Picks(selected_level', LevelsOf(shown, selected_strategy'))
  BY <1>1, ListsAre, SelectedIdPicks
<1> QED
  BY <1>1, <1>2, <1>3, Cleared DEF SelectedOK

-----------------------------------------------------------------------------
(* Every step keeps the invariant.                                         *)

\* TypeOK, but for the selection and the chart.
OtherTypes ==
  /\ rules \in Rules /\ snapshot \in Snapshots
  /\ daemon \in Daemons \cup {None} /\ manifest \in Daemons \cup {None}
  /\ edits \in 0 .. MaxEdits /\ starts \in Daemons
  /\ pc \in {"draw", "manifest", "fetch", "market", "finish", "quit"}
  /\ endpoint \in Daemons /\ reload_manifest \in BOOLEAN /\ disconnected \in BOOLEAN
  /\ panel \in Panels /\ market_request \in Requests \cup {None} /\ market_due \in BOOLEAN

Settled == ~market_dirty \/ (market_request = None /\ ~market_loading)

LEMMA Parts ==
  IInv <=> /\ OtherTypes /\ ChartTypes /\ RulesOK /\ SnapshotOK /\ SelectedOK /\ PaneLoop
           /\ pc \in {"finish", "draw"} => Settled
<1>1. SelectedOK => selected_strategy \in Strategies \cup {None} /\ selected_level \in Levels \cup {None}
  BY PicksType DEF SelectedOK
<1>2. PaneOK <=> PaneLoop /\ (pc \in {"finish", "draw"} => Settled)
  BY DEF PaneOK, PaneLoop, Settled
<1>3. TypeOK <=> /\ OtherTypes /\ ChartTypes
                 /\ selected_strategy \in Strategies \cup {None}
                 /\ selected_level \in Levels \cup {None}
  BY DEF TypeOK, OtherTypes, ChartTypes
<1> QED
  BY <1>1, <1>2, <1>3 DEF IInv

LEMMA PartsLater ==
  (/\ OtherTypes /\ ChartTypes /\ RulesOK /\ SnapshotOK /\ SelectedOK /\ PaneLoop
   /\ pc \in {"finish", "draw"} => Settled)' => IInv'
BY Parts, PTL

LEMMA InitOK == Init => IInv
<1> SUFFICES ASSUME NEW r \in Seeds, InitWith(r) PROVE IInv
  BY DEF Init
<1> USE DEF InitWith
<1>1. rules \in Rules /\ RulesOK
  BY DashboardAssumption DEF RulesOK
<1>2. dashboard_snapshot \in Snapshots /\ SnapshotOK
  BY <1>1, SnapshotShows DEF SnapshotOK
<1>3. OtherTypes
  <2>1. 1 \in Daemons /\ 0 \in 0 .. MaxEdits
    BY DashboardAssumption DEF Daemons
  <2>2. "strategies" \in Panels
    BY DEF Panels
  <2> QED
    BY <1>1, <1>2, <2>1, <2>2 DEF OtherTypes
<1>4. StrategiesOf(snapshot) = StrategiesOf(r) /\ \A s : LevelsOf(snapshot, s) = LevelsOf(r, s)
  BY DEF dashboard_snapshot, StrategiesOf, LevelsOf
<1>5. SelectedOK
  BY <1>4, ListsAre, SelectedIdPicks DEF SelectedOK
<1>6. ChartTypes
  BY DEF ChartTypes
<1>7. PaneLoop /\ Settled
  BY DEF PaneLoop, Settled
<1> QED
  BY <1>1, <1>2, <1>3, <1>5, <1>6, <1>7, Parts

LEMMA ServeOK ==
  ASSUME IInv, Serve
  PROVE  IInv'
<1> USE Parts, PartsLater
<1>1. ASSUME Edit \/ Start \/ Stop,
             UNCHANGED <<pc, snapshot, link, selection, panel, chart, market_dirty,
                         market_request, market_due>>
      PROVE  IInv'
  <2>1. SnapshotOK' /\ SelectedOK' /\ (pc' \in {"finish", "draw"} => Settled')
    BY <1>1 DEF SnapshotOK, SelectedOK, Settled, selection, chart
  <2>2. PaneLoop' /\ ChartTypes'
    BY <1>1, Kept DEF selection
  <2>3. RulesOK' /\ rules' \in Rules
    <3>1. CASE Edit
      BY <3>1, EditRules DEF OtherTypes, Edit
    <3>2. CASE Start
      <4>1. CASE rules' = rules
        BY <4>1 DEF OtherTypes, RulesOK
      <4>2. CASE rules' = NoRules
        BY <4>2, NoRulesOK DEF RulesOK
      <4> QED
        BY <3>2, <4>1, <4>2 DEF Start
    <3>3. CASE Stop
      BY <3>3 DEF Stop, OtherTypes, RulesOK
    <3> QED
      BY <1>1, <3>1, <3>2, <3>3
  <2>4. /\ daemon' \in Daemons \cup {None} /\ manifest' \in Daemons \cup {None}
        /\ edits' \in 0 .. MaxEdits /\ starts' \in Daemons
    BY <1>1, DashboardAssumption DEF OtherTypes, Edit, Start, Stop, Daemons
  <2>5. OtherTypes'
    BY <1>1, <2>3, <2>4 DEF OtherTypes, link
  <2> QED
    BY <2>1, <2>2, <2>3, <2>5
<1>2. ASSUME AnswerMarket PROVE IInv'
  <2>1. /\ market_request \in Requests /\ market_request' \in Requests
        /\ market_request'.id = market_request.id
    <3>1. market_request \in Requests
      BY <1>2 DEF AnswerMarket, OtherTypes
    <3>2. PICK a \in {"error"} \cup Markets : market_request' = [market_request EXCEPT !.answer = a]
      <4>1. CASE market_request' = [market_request EXCEPT !.answer = "error"]
        BY <4>1
      <4>2. CASE /\ rules.market[market_request.id] # None
                 /\ market_request' = [market_request EXCEPT !.answer = rules.market[market_request.id]]
        BY <3>1, <4>2 DEF OtherTypes, Rules, Requests
      <4> QED
        BY <1>2, <4>1, <4>2 DEF AnswerMarket
    <3> QED
      BY <3>1, <3>2 DEF Requests
  <2>2. UNCHANGED <<server, pc, snapshot, link, selection, panel, chart, market_dirty, market_due>>
    BY <1>2 DEF AnswerMarket
  <2>3. market_request # None
    BY <1>2 DEF AnswerMarket
  <2>4. OtherTypes'
    BY <2>1, <2>2 DEF OtherTypes, server, link
  <2>5. RulesOK' /\ SnapshotOK' /\ SelectedOK' /\ ChartTypes'
    BY <2>2 DEF RulesOK, SnapshotOK, SelectedOK, ChartTypes, server, selection, chart
  <2>6. market_request' # None
    BY <2>1, DashboardAssumption
  <2>7. PaneLoop' /\ (pc' \in {"finish", "draw"} => Settled')
    BY <2>1, <2>2, <2>3, <2>6 DEF PaneLoop, Settled, selection, chart
  <2> QED
    BY <2>4, <2>5, <2>7
<1> QED
  BY <1>1, <1>2 DEF Serve

LEMMA InputOK ==
  ASSUME IInv, Input
  PROVE  IInv'
<1> USE Parts, PartsLater
<1>1. /\ pc = "draw" /\ (handle_key \/ NoKey)
      /\ UNCHANGED <<server, snapshot, link, market_request>>
  BY DEF Input
<1>2. pc' \in {"manifest", "fetch", "market"}
  BY <1>1 DEF handle_key, NoKey, Poll, NoPoll
<1>3. RulesOK' /\ SnapshotOK'
  BY <1>1 DEF RulesOK, SnapshotOK, server
<1>4. ASSUME \E delta \in {1, -1} : move_selection(delta)
      PROVE  SelectedOK' /\ PaneLoop' /\ ChartTypes'
  BY <1>1, <1>4, MovedSelection
<1>5. ASSUME UNCHANGED <<selection, chart, market_dirty>>
      PROVE  SelectedOK' /\ PaneLoop' /\ ChartTypes'
  BY <1>1, <1>5, Kept DEF selection, SelectedOK
<1>6. SelectedOK' /\ PaneLoop' /\ ChartTypes'
  BY <1>1, <1>4, <1>5 DEF handle_key, NoKey
<1>7. panel' \in Panels /\ market_due' \in BOOLEAN
  <2>1. \A p \in Panels : NextPanel[p] \in Panels
    BY DEF Panels, NextPanel
  <2> QED
    BY <1>1, <2>1 DEF handle_key, NoKey, OtherTypes
<1>8. OtherTypes'
  BY <1>1, <1>2, <1>7 DEF OtherTypes, server, link
<1> QED
  BY <1>2, <1>3, <1>6, <1>8

LEMMA PollOK ==
  ASSUME IInv, ReadManifest \/ Fetch \/ Quit
  PROVE  IInv'
<1> USE Parts, PartsLater
<1>1. CASE ReadManifest
  <2>1. /\ pc' \in {"fetch", "market"} /\ endpoint' \in Daemons /\ disconnected' \in BOOLEAN
        /\ UNCHANGED <<server, snapshot, reload_manifest, selection, panel, chart, market_dirty,
                       market_request, market_due>>
    BY <1>1 DEF ReadManifest, OtherTypes
  <2>2. OtherTypes' /\ RulesOK' /\ SnapshotOK' /\ SelectedOK'
    BY <2>1 DEF OtherTypes, RulesOK, SnapshotOK, SelectedOK, server, selection
  <2> QED
    BY <2>1, <2>2, Kept DEF selection
<1>2. CASE Fetch
  <2>1. /\ pc' = "market"
        /\ UNCHANGED <<server, endpoint, panel, market_request, market_due>>
    BY <1>2 DEF Fetch
  <2>2. CASE apply(dashboard_snapshot) /\ reload_manifest' = FALSE
    <3>1. snapshot' = dashboard_snapshot /\ disconnected' = FALSE
      BY <2>2 DEF apply
    <3>2. SelectedOK' /\ PaneLoop' /\ ChartTypes'
      BY <2>1, <2>2, AppliedSelection
    <3>3. snapshot' \in Snapshots /\ SnapshotOK'
      BY <3>1, SnapshotShows DEF OtherTypes, SnapshotOK
    <3>4. OtherTypes' /\ RulesOK'
      BY <2>1, <2>2, <3>1, <3>3 DEF OtherTypes, RulesOK, server
    <3> QED
      BY <2>1, <3>2, <3>3, <3>4
  <2>3. CASE /\ disconnected' = TRUE /\ reload_manifest' = TRUE
             /\ UNCHANGED <<selection, chart, market_dirty, snapshot>>
    <3>1. OtherTypes' /\ RulesOK' /\ SnapshotOK' /\ SelectedOK'
      BY <2>1, <2>3 DEF OtherTypes, RulesOK, SnapshotOK, SelectedOK, server, selection
    <3> QED
      BY <2>1, <2>3, <3>1, Kept DEF selection
  <2> QED
    BY <1>2, <2>2, <2>3 DEF Fetch
<1>3. CASE Quit
  <2>1. OtherTypes' /\ RulesOK' /\ SnapshotOK' /\ SelectedOK'
    BY <1>3 DEF Quit, OtherTypes, RulesOK, SnapshotOK, SelectedOK, server, selection, link
  <2> QED
    BY <1>3, <2>1, Kept DEF Quit, selection
<1> QED
  BY <1>1, <1>2, <1>3

LEMMA RefreshOK ==
  ASSUME IInv, Refresh
  PROVE  IInv'
<1> USE Parts, PartsLater, NoneApart
<1>1. /\ pc' = "finish" /\ market_due' = FALSE
      /\ UNCHANGED <<server, snapshot, link, selection, panel, market, market_stale, market_error>>
  BY DEF Refresh
<1> DEFINE asked == [id |-> selected_strategy, daemon |-> endpoint, answer |-> "pending"]
<1>2. selected_strategy # None => asked \in Requests /\ asked # None
  <2>1. selected_strategy # None => selected_strategy \in Strategies
    BY PicksType DEF SelectedOK
  <2>2. selected_strategy # None => asked \in Requests
    BY <2>1 DEF Requests, OtherTypes
  <2> QED
    BY <2>2, DashboardAssumption
<1>3. \/ /\ selected_strategy = None /\ ~market_dirty' /\ ~market_loading'
         /\ market_dirty' \in BOOLEAN /\ market_loading' \in BOOLEAN
         /\ UNCHANGED market_request
      \/ ~market_dirty /\ UNCHANGED <<market_dirty, market_loading, market_request>>
      \/ /\ selected_strategy # None /\ market_dirty' = FALSE /\ market_loading' = TRUE
         /\ market_request' = asked
  BY DEF Refresh, start_market_refresh
<1>4. market_request' \in Requests \cup {None}
  <2> HIDE DEF asked
  <2> QED
    BY <1>2, <1>3 DEF OtherTypes
<1>5. OtherTypes'
  BY <1>1, <1>4 DEF OtherTypes, server, link
<1>6. RulesOK' /\ SnapshotOK' /\ SelectedOK'
  BY <1>1 DEF RulesOK, SnapshotOK, SelectedOK, server, selection
<1>7. ChartTypes'
  BY <1>1, <1>3 DEF ChartTypes
<1>8. Settled'
  BY <1>3 DEF Settled
<1>9. PaneLoop'
  BY <1>1, <1>2, <1>3 DEF PaneLoop, selection
<1> QED
  BY <1>5, <1>6, <1>7, <1>8, <1>9

LEMMA FinishOK ==
  ASSUME IInv, finish_market_refresh
  PROVE  IInv'
<1> USE Parts, PartsLater, NoneApart
<1>1. /\ pc = "finish" /\ pc' = "draw"
      /\ UNCHANGED <<server, snapshot, link, selection, panel, market_dirty, market_due>>
  BY DEF finish_market_refresh
<1>2. RulesOK' /\ SnapshotOK' /\ SelectedOK'
  BY <1>1 DEF RulesOK, SnapshotOK, SelectedOK, server, selection
<1>3. CASE UNCHANGED <<chart, market_request>>
  <2>1. OtherTypes' /\ Settled'
    BY <1>1, <1>3 DEF OtherTypes, Settled, server, link, chart
  <2> QED
    BY <1>1, <1>2, <1>3, <2>1, Kept DEF selection
<1>4. CASE /\ market_request # None /\ market_request.answer # "pending"
           /\ market_request' = None
           /\ apply_market(market_request.id, market_request.answer)
  <2>1. market_request \in Requests /\ Settled /\ ~market_dirty
    BY <1>1, <1>4 DEF OtherTypes, Settled
  <2>2. OtherTypes'
    BY <1>1, <1>4 DEF OtherTypes, server, link
  <2>3. Settled'
    BY <1>1, <2>1 DEF Settled
  <2>4. CASE market_request.id # selected_strategy
    <3>1. UNCHANGED chart /\ ~market_loading
      BY <1>4, <2>1, <2>4 DEF apply_market, PaneLoop
    <3> QED
      BY <1>1, <1>2, <2>2, <2>3, <3>1 DEF PaneLoop, ChartTypes, chart, selection
  <2>5. CASE market_request.id = selected_strategy /\ market_request.answer = "error"
    <3>1. apply_market_error
      BY <1>4, <2>5 DEF apply_market
    <3>2. PaneLoop' /\ ChartTypes'
      BY <1>1, <3>1 DEF apply_market_error, PaneLoop, ChartTypes, selection
    <3> QED
      BY <1>1, <1>2, <2>2, <2>3, <3>2
  <2>6. CASE market_request.id = selected_strategy /\ market_request.answer # "error"
    <3>1. /\ market' = [strategy |-> market_request.id, market |-> market_request.answer]
          /\ market_loading' = FALSE /\ market_stale' = FALSE /\ market_error' = FALSE
      BY <1>4, <2>6 DEF apply_market
    <3>2. market' \in Charts /\ market'.strategy = selected_strategy
      BY <1>4, <2>1, <2>6, <3>1 DEF Requests, Charts
    <3>3. market' # None
      BY <3>2, DashboardAssumption
    <3>4. PaneLoop' /\ ChartTypes'
      BY <1>1, <3>1, <3>2, <3>3 DEF PaneLoop, ChartTypes, selection
    <3> QED
      BY <1>1, <1>2, <2>2, <2>3, <3>4
  <2> QED
    BY <2>4, <2>5, <2>6
<1> QED
  BY <1>3, <1>4 DEF finish_market_refresh

LEMMA StutterOK ==
  ASSUME IInv, UNCHANGED vars
  PROVE  IInv'
<1> USE Parts, PartsLater
<1>1. OtherTypes' /\ RulesOK' /\ SnapshotOK' /\ SelectedOK' /\ (pc' \in {"finish", "draw"} => Settled')
  BY DEF vars, OtherTypes, RulesOK, SnapshotOK, SelectedOK, Settled, server, selection, link, chart
<1> QED
  BY <1>1, Kept DEF vars, selection

-----------------------------------------------------------------------------
(* Theorems.                                                               *)

\* The invariant holds of every reachable state.
THEOREM Invariance == Spec => []IInv
<1>1. IInv /\ [Next]_vars => IInv'
  BY ServeOK, InputOK, PollOK, RefreshOK, FinishOK, StutterOK DEF Next, Loop
<1> QED
  BY InitOK, <1>1, PTL DEF Spec

\* What the client keeps, and what it and the daemon tell each other, keep their types.
THEOREM TypesHold == Spec => []TypeOK
<1>1. IInv => TypeOK
  BY DEF IInv
<1> QED
  BY <1>1, Invariance, PTL

\* The highlighted rows are listed, and the header's price is of the selected strategy,
\* for any lists and however they change.
THEOREM SelectionStaysListed == Spec => []SelectionIsListed
<1>1. ASSUME IInv PROVE SelectionIsListed
  <2>1. SelectedOK /\ SnapshotOK
    BY <1>1 DEF IInv
  <2>2. /\ StrategyRows.rows = StrategiesOf(snapshot)
        /\ StrategyRows.highlighted = StrategiesOf(snapshot) \cap {selected_strategy}
        /\ LevelRows.rows = LevelsOf(snapshot, selected_strategy)
        /\ LevelRows.highlighted = LevelsOf(snapshot, selected_strategy) \cap {selected_level}
    BY DEF StrategyRows, LevelRows
  <2>3. ASSUME selected_level # None PROVE selected_feed = Detail.market
    <3>1. selected_level \in LevelsOf(snapshot, selected_strategy)
      BY <2>1, <2>3 DEF SelectedOK, Picks
    <3>2. /\ selected_level \in Levels /\ selected_strategy # None
          /\ snapshot.strategy_of[selected_level] = selected_strategy
      BY <3>1 DEF LevelsOf
    <3> QED
      BY <2>1, <2>3, <3>2 DEF SnapshotOK, selected_feed, Detail
  <2> QED
    BY <2>1, <2>2, <2>3 DEF SelectionIsListed, SelectedOK, Picks
<1> QED
  BY <1>1, Invariance, PTL

\* The chart's pane tells what is going on: no answer, however late, is shown under
\* another strategy, and nothing is said to be loading that no request will end.
THEOREM PaneStaysTrue == Spec => []PaneIsTrue
<1>1. ASSUME IInv PROVE PaneIsTrue
  <2>1. PaneOK
    BY <1>1 DEF IInv
  <2>2. MarketPane("price").shows = "not loaded" => market = None /\ ~market_loading /\ ~market_error
    BY <2>1 DEF PaneOK, MarketPane, PriceChart
  <2> QED
    BY <2>1, <2>2 DEF PaneOK, PaneIsTrue
<1> QED
  BY <1>1, Invariance, PTL
=============================================================================
