--------------------------- MODULE AuthoringProofs ---------------------------
(***************************************************************************)
(* Proofs about Authoring, for any number of daemons, clients, strategies, *)
(* levels and configurations.                                              *)
(***************************************************************************)
EXTENDS Authoring, TLAPS

-----------------------------------------------------------------------------
(* Types.                                                                  *)

LEMMA JobFields ==
  ASSUME TypeOK, NEW c \in Clients
  PROVE  /\ job[c] \in Job
         /\ job[c].stage = "calling" => job[c].by \in Pids
         /\ job[c].stage \in Working => job[c].by \in Pids \cup Clients /\ job[c].config \in Configs
         /\ job[c].stage = "read" => job[c].strategy \in Strategies /\ job[c].market \in Markets
BY DEF TypeOK, Job, Idle, Working

LEMMA ConfigFields ==
  ASSUME NEW k \in Configs
  PROVE  /\ k.tradable \subseteq Markets /\ k.max_slippage \in Nat
         /\ \A t \in Tokens : k.decimals[t] \in Nat
BY AuthoringAssumption

LEMMA InputToken ==
  ASSUME NEW m \in Markets, NEW side \in {"buy", "sell"}
  PROVE  token_in(m, side) \in Tokens
BY AuthoringAssumption DEF token_in

LEMMA DoneTypes ==
  ASSUME TypeOK, NEW c \in Clients, Done(c)
  PROVE  /\ job' \in [Clients -> Job] /\ lock' \in Pids \cup Clients \cup {Nobody}
         /\ file' \in Configs /\ manifest' \in Pids \cup {NoManifest}
         /\ phase' \in [Pids -> Phases] /\ config' \in [Pids -> Configs]
         /\ passed' \in [Pids -> BOOLEAN]
BY DEF TypeOK, Done, Job

LEMMA TypesOfDaemon ==
  ASSUME TypeOK, NEW p \in Pids, Daemon(p)
  PROVE  TypeOK'
<1>1. CASE Load(p)
  BY <1>1 DEF Load, Enter, TypeOK, Phases, disk
<1>2. CASE Acquire(p)
  BY <1>2 DEF Acquire, Enter, TypeOK, Phases
<1>3. CASE CheckStrategies(p)
  BY <1>3 DEF CheckStrategies, Enter, TypeOK, Phases, disk
<1>4. CASE CheckLevels(p)
  BY <1>4 DEF CheckLevels, Enter, TypeOK, Phases, disk
<1>5. CASE GiveUp(p)
  BY <1>5 DEF GiveUp, Enter, TypeOK, Phases
<1>6. CASE Publish(p)
  BY <1>6 DEF Publish, Enter, TypeOK, Phases
<1>7. CASE Close(p)
  BY <1>7 DEF Close, Enter, TypeOK, Phases
<1>8. CASE Unlock(p)
  BY <1>8 DEF Unlock, Enter, TypeOK, Phases
<1>9. CASE Gone(p)
  <2>1. job' \in [Clients -> Job]
    BY <1>9 DEF Gone, TypeOK, Job
  <2> QED
    BY <1>9, <2>1 DEF Gone, TypeOK, Phases, disk
<1> QED
  BY <1>1, <1>2, <1>3, <1>4, <1>5, <1>6, <1>7, <1>8, <1>9 DEF Daemon, Exit, Crash

LEMMA TypesOfClient ==
  ASSUME TypeOK, NEW c \in Clients, Client(c)
  PROVE  TypeOK'
<1>1. CASE TakeLock(c)
  <2>1. [stage |-> "handling", by |-> c, config |-> file] \in Job
    BY DEF TypeOK, Job
  <2> QED
    BY <1>1, <2>1 DEF TakeLock, TypeOK
<1>2. CASE Attach(c)
  <2>1. [stage |-> "calling", by |-> manifest] \in Job
    BY <1>2 DEF Attach, TypeOK, Job
  <2> QED
    BY <1>2, <2>1 DEF Attach, TypeOK, disk
<1>3. CASE Call(c)
  <2>1. [stage |-> "handling", by |-> job[c].by, config |-> config[job[c].by]] \in Job
    BY <1>3, JobFields DEF Call, TypeOK, Job
  <2> QED
    BY <1>3, <2>1 DEF Call, TypeOK, disk
<1>4. CASE CallFails(c) \/ Kill(c)
  BY <1>4 DEF CallFails, Kill, TypeOK, disk, Job
<1>5. CASE Refuse(c)
  BY <1>5, DoneTypes DEF Refuse, TypeOK
<1>6. ASSUME NEW s \in Strategies, ReadStrategy(c, s) PROVE TypeOK'
  <2>1. [stage |-> "read", by |-> job[c].by, config |-> job[c].config, strategy |-> s,
         market |-> strategies[s]] \in Job
    BY <1>6, JobFields DEF ReadStrategy, TypeOK, Job, Working
  <2> QED
    BY <1>6, <2>1 DEF ReadStrategy, TypeOK, disk
<1>7. ASSUME NEW s \in Strategies, NEW m \in Markets, SetStrategy(c, s, m) PROVE TypeOK'
  BY <1>7, DoneTypes DEF SetStrategy, upsert_strategy, TypeOK
<1>8. ASSUME NEW l \in Levels, DeleteLevel(c, l) PROVE TypeOK'
  BY <1>8, DoneTypes DEF DeleteLevel, TypeOK
<1>9. ASSUME NEW l \in Levels, NEW side \in {"buy", "sell"}, NEW slippage \in Slippages,
             SetLevel(c, l, side, slippage)
      PROVE  TypeOK'
  <2>1. job[c].stage = "read"
    BY <1>9 DEF SetLevel
  <2>2. job[c].config.decimals[token_in(job[c].market, side)] \in Nat
    BY <2>1, JobFields, ConfigFields, InputToken DEF Working
  <2>3. [strategy |-> job[c].strategy, side |-> side,
         decimals |-> job[c].config.decimals[token_in(job[c].market, side)],
         slippage |-> slippage, market |-> job[c].market, claimed |-> lock = job[c].by]
        \in LevelRow
    BY <2>1, <2>2, JobFields DEF LevelRow
  <2>4. levels' \in [Levels -> LevelRow \cup {NoRow}]
    BY <1>9, <2>3 DEF SetLevel, upsert_level, TypeOK
  <2> QED
    BY <1>9, <2>4, DoneTypes DEF SetLevel, TypeOK
<1> QED
  BY <1>1, <1>2, <1>3, <1>4, <1>5, <1>6, <1>7, <1>8, <1>9 DEF Client

-----------------------------------------------------------------------------
(* The claim on the database, the jobs and the manifest.                   *)

\* A finished command drops the lock only if it had it.
LEMMA DoneKeepsClaims ==
  ASSUME IInv, NEW c \in Clients, Done(c)
  PROVE  ClaimsHold'
<1>1. \A x \in Clients : Holds(x)' => Holds(x) /\ x # c
  BY DEF Done, IInv, TypeOK, Holds, Idle
<1>2. phase' = phase /\ (lock' = lock \/ (Holds(c) /\ lock = c))
  BY DEF Done, IInv, ClaimsHold
<1> QED
  BY <1>1, <1>2, AuthoringAssumption DEF IInv, ClaimsHold, Done

LEMMA DoneKeepsJobs ==
  ASSUME IInv, NEW c \in Clients, Done(c)
  PROVE  JobsOK'
<1>1. \A x \in Clients : job'[x] = job[x] \/ job'[x] = Idle
  BY DEF Done, IInv, TypeOK
<1> QED
  BY <1>1 DEF Done, IInv, JobsOK, Working, Idle

LEMMA ClaimsOfDaemon ==
  ASSUME IInv, NEW p \in Pids, Daemon(p)
  PROVE  ClaimsHold'
<1> USE DEF Holds
<1>1. CASE Load(p)
  BY <1>1 DEF Load, Enter, IInv, TypeOK, ClaimsHold, Claiming, disk
<1>2. CASE Acquire(p)
  BY <1>2, AuthoringAssumption DEF Acquire, Enter, IInv, TypeOK, ClaimsHold, Claiming
<1>3. CASE CheckStrategies(p) \/ CheckLevels(p)
  BY <1>3 DEF CheckStrategies, CheckLevels, Enter, IInv, TypeOK, ClaimsHold, Claiming, disk
<1>4. CASE GiveUp(p) \/ Unlock(p)
  <2>1. lock = p /\ phase'[p] \notin Claiming /\ job' = job
    BY <1>4 DEF GiveUp, Unlock, Enter, IInv, TypeOK, ClaimsHold, Claiming
  <2>2. \A q \in Pids : phase'[q] \in Claiming => q # p /\ phase[q] \in Claiming
    BY <1>4, <2>1 DEF GiveUp, Unlock, Enter, IInv, TypeOK
  <2> QED
    BY <2>1, <2>2, AuthoringAssumption DEF IInv, ClaimsHold
<1>5. CASE Publish(p) \/ Close(p)
  BY <1>5 DEF Publish, Close, Enter, IInv, TypeOK, ClaimsHold, Claiming
<1>6. CASE Gone(p)
  BY <1>6 DEF Gone, IInv, TypeOK, ClaimsHold, Claiming, disk, Idle
<1> QED
  BY <1>1, <1>2, <1>3, <1>4, <1>5, <1>6 DEF Daemon, Exit, Crash

LEMMA ClaimsOfClient ==
  ASSUME IInv, NEW c \in Clients, Client(c)
  PROVE  ClaimsHold'
<1>1. CASE TakeLock(c)
  BY <1>1, AuthoringAssumption DEF TakeLock, IInv, TypeOK, ClaimsHold, Claiming, Holds
<1>2. CASE Attach(c) \/ Call(c) \/ CallFails(c) \/ Kill(c)
  <2>1. CASE Call(c)
    <3>1. job[c].by \in Pids /\ c \notin Pids
      BY <2>1, JobFields, AuthoringAssumption DEF Call, IInv
    <3> QED
      BY <2>1, <3>1 DEF Call, disk, IInv, TypeOK, ClaimsHold, Holds
  <2> QED
    BY <1>2, <2>1 DEF Attach, CallFails, Kill, disk, IInv, TypeOK, ClaimsHold, Holds, Idle
<1>3. ASSUME NEW s \in Strategies, ReadStrategy(c, s) PROVE ClaimsHold'
  BY <1>3 DEF ReadStrategy, IInv, TypeOK, ClaimsHold, Holds, disk
<1>4. CASE Done(c)
  BY <1>4, DoneKeepsClaims
<1> QED
  BY <1>1, <1>2, <1>3, <1>4 DEF Client, Refuse, SetStrategy, SetLevel, DeleteLevel

LEMMA JobsOfDaemon ==
  ASSUME IInv, NEW p \in Pids, Daemon(p)
  PROVE  JobsOK'
<1>1. CASE Gone(p)
  <2> SUFFICES ASSUME NEW c \in Clients, job'[c].stage \in Working
               PROVE  /\ job'[c].by \in Pids =>
                           /\ phase'[job'[c].by] \in {"serving", "closed", "leaving"}
                           /\ job'[c].config = config'[job'[c].by]
                      /\ job'[c].by \in Clients => job'[c].by = c
    BY DEF JobsOK
  <2>1. job'[c] = job[c] /\ ~At(p, c)
    BY <1>1 DEF Gone, Idle, Working
  <2>2. job[c].by # p
    BY <2>1 DEF At, Working
  <2> QED
    BY <1>1, <2>1, <2>2 DEF Gone, IInv, TypeOK, JobsOK
<1>2. ASSUME job' = job, config' = config,
             \A q \in Pids : phase[q] \in {"serving", "closed", "leaving"}
                              => phase'[q] \in {"serving", "closed", "leaving"}
      PROVE  JobsOK'
  BY <1>2 DEF IInv, JobsOK
<1>3. CASE Load(p)
  BY <1>3 DEF Load, Enter, IInv, TypeOK, JobsOK, Working
<1> QED
  BY <1>1, <1>2, <1>3
  DEF Daemon, Exit, Crash, Acquire, CheckStrategies, CheckLevels, GiveUp, Publish, Close,
      Unlock, Enter, IInv, TypeOK

LEMMA JobsOfClient ==
  ASSUME IInv, NEW c \in Clients, Client(c)
  PROVE  JobsOK'
<1>1. CASE TakeLock(c)
  BY <1>1, AuthoringAssumption DEF TakeLock, IInv, TypeOK, JobsOK, Working
<1>2. CASE Attach(c) \/ CallFails(c) \/ Kill(c)
  BY <1>2 DEF Attach, CallFails, Kill, IInv, TypeOK, JobsOK, Working, Idle
<1>3. CASE Call(c)
  BY <1>3, JobFields, AuthoringAssumption DEF Call, IInv, TypeOK, JobsOK, Working
<1>4. ASSUME NEW s \in Strategies, ReadStrategy(c, s) PROVE JobsOK'
  BY <1>4 DEF ReadStrategy, IInv, TypeOK, JobsOK, Working
<1>5. CASE Done(c)
  BY <1>5, DoneKeepsJobs
<1> QED
  BY <1>1, <1>2, <1>3, <1>4, <1>5 DEF Client, Refuse, SetStrategy, SetLevel, DeleteLevel

LEMMA ManifestStep ==
  ASSUME IInv, [Next]_vars
  PROVE  ManifestOK'
<1>1. ASSUME NEW p \in Pids, Publish(p) \/ Close(p) PROVE ManifestOK'
  <2> SUFFICES ASSUME NEW q \in Pids, phase'[q] = "serving" PROVE manifest' = q
    BY DEF ManifestOK
  <2>1. lock = p
    BY <1>1 DEF Publish, Close, Enter, IInv, ClaimsHold, Claiming
  <2>2. CASE q = p
    BY <1>1, <2>2 DEF Publish, Close, Enter, IInv, TypeOK
  <2>3. CASE q # p
    <3>1. phase[q] = "serving"
      BY <1>1, <2>3 DEF Publish, Close, Enter, IInv, TypeOK
    <3> QED
      BY <2>1, <2>3, <3>1 DEF IInv, ClaimsHold, Claiming
  <2> QED
    BY <2>2, <2>3
<1>2. ASSUME manifest' = manifest, \A q \in Pids : phase'[q] = "serving" => phase[q] = "serving"
      PROVE  ManifestOK'
  BY <1>2 DEF IInv, ManifestOK
<1>3. ASSUME NEW p \in Pids, Daemon(p) PROVE ManifestOK'
  BY <1>1, <1>2, <1>3
  DEF Daemon, Load, Acquire, CheckStrategies, CheckLevels, GiveUp, Unlock, Exit, Crash, Gone,
      Enter, IInv, TypeOK, disk
<1>4. ASSUME NEW c \in Clients, Client(c) PROVE ManifestOK'
  BY <1>2, <1>4
  DEF Client, TakeLock, Attach, Call, CallFails, Kill, Refuse, ReadStrategy, SetStrategy,
      SetLevel, DeleteLevel, Done, disk
<1> QED
  BY <1>2, <1>3, <1>4 DEF Next, EditConfig, RemoveStaleLock, vars, disk

-----------------------------------------------------------------------------
(* The rules.                                                              *)

\* The market of a strategy that has levels does not change.
LEMMA MarketsStay ==
  ASSUME IInv, NEW c \in Clients, NEW s \in Strategies, NEW m \in Markets, SetStrategy(c, s, m),
         NEW l \in Levels, levels[l] # NoRow
  PROVE  /\ levels' = levels /\ levels[l].strategy \in Strategies
         /\ strategies'[levels[l].strategy] = strategies[levels[l].strategy]
BY DEF SetStrategy, upsert_strategy, IInv, TypeOK, LevelRow

\* What SetLevel stores has been validated, for the market its strategy has.
LEMMA StoredLevel ==
  ASSUME IInv, NEW c \in Clients, NEW l \in Levels, NEW side \in {"buy", "sell"},
         NEW slippage \in Slippages, SetLevel(c, l, side, slippage)
  PROVE  /\ strategies' = strategies
         /\ \A k \in Levels : k # l => levels'[k] = levels[k]
         /\ job[c].by \in Pids \cup Clients /\ job[c].stage \in Working
         /\ levels'[l].strategy \in Strategies
         /\ strategies[levels'[l].strategy] = levels'[l].market
         /\ validate_stored_level(job[c].config, levels'[l].market, levels'[l])
         /\ levels'[l].claimed = (lock = job[c].by)
<1>1. job[c].stage = "read"
  BY DEF SetLevel
<1>2. /\ job[c].by \in Pids \cup Clients /\ job[c].stage \in Working
      /\ job[c].strategy \in Strategies
  BY <1>1, JobFields DEF IInv, Working
<1>3. levels'[l] = [strategy |-> job[c].strategy, side |-> side,
                    decimals |-> job[c].config.decimals[token_in(job[c].market, side)],
                    slippage |-> slippage, market |-> job[c].market,
                    claimed |-> lock = job[c].by]
  BY DEF SetLevel, upsert_level, IInv, TypeOK
<1>4. validate_stored_level(job[c].config, levels'[l].market, levels'[l])
  BY <1>3 DEF SetLevel, validate_stored_level
<1> QED
  BY <1>2, <1>3, <1>4 DEF SetLevel, upsert_level, IInv, TypeOK

LEMMA FitStep ==
  ASSUME IInv, [Next]_vars
  PROVE  LevelsFitTheirStrategy'
<1>1. CASE strategies' = strategies /\ levels' = levels
  BY <1>1 DEF IInv, LevelsFitTheirStrategy
<1>2. ASSUME NEW c \in Clients, NEW s \in Strategies, NEW m \in Markets, SetStrategy(c, s, m)
      PROVE  LevelsFitTheirStrategy'
  BY <1>2, MarketsStay DEF IInv, LevelsFitTheirStrategy, SetStrategy
<1>3. ASSUME NEW c \in Clients, NEW l \in Levels, NEW side \in {"buy", "sell"},
             NEW slippage \in Slippages, SetLevel(c, l, side, slippage)
      PROVE  LevelsFitTheirStrategy'
  BY <1>3, StoredLevel DEF IInv, LevelsFitTheirStrategy
<1>4. ASSUME NEW c \in Clients, NEW l \in Levels, DeleteLevel(c, l) PROVE LevelsFitTheirStrategy'
  BY <1>4 DEF DeleteLevel, IInv, TypeOK, LevelsFitTheirStrategy
<1>5. ASSUME NEW p \in Pids, Daemon(p) PROVE strategies' = strategies /\ levels' = levels
  BY <1>5
  DEF Daemon, Load, Acquire, CheckStrategies, CheckLevels, GiveUp, Publish, Close, Unlock, Exit,
      Crash, Gone, disk
<1> QED
  BY <1>1, <1>2, <1>3, <1>4, <1>5
  DEF Next, Client, TakeLock, Attach, Call, CallFails, Kill, Refuse, ReadStrategy, EditConfig,
      RemoveStaleLock, vars, disk

LEMMA PassesStep ==
  ASSUME IInv, [Next]_vars
  PROVE  StillPasses'
<1> SUFFICES ASSUME NEW p \in Pids, NEW l \in Levels,
                    phase'[p] \in {"ready", "serving", "closed"},
                    levels'[l] # NoRow, levels'[l].claimed
             PROVE  validate_stored_level(config'[p], strategies'[levels'[l].strategy], levels'[l])
  BY DEF StillPasses
<1>1. ASSUME strategies' = strategies, levels' = levels, config'[p] = config[p],
             phase[p] \in {"ready", "serving", "closed"}
      PROVE  validate_stored_level(config'[p], strategies'[levels'[l].strategy], levels'[l])
  BY <1>1 DEF IInv, StillPasses
<1>2. ASSUME NEW q \in Pids, Daemon(q)
      PROVE  validate_stored_level(config'[p], strategies'[levels'[l].strategy], levels'[l])
  <2>1. CASE CheckLevels(q) /\ q = p
    BY <2>1 DEF CheckLevels, LevelsPass, disk
  <2>2. strategies' = strategies /\ levels' = levels
    BY <1>2
    DEF Daemon, Load, Acquire, CheckStrategies, CheckLevels, GiveUp, Publish, Close, Unlock, Exit,
        Crash, Gone, disk
  <2>3. CASE ~(CheckLevels(q) /\ q = p)
    <3>1. config'[p] = config[p] /\ phase[p] \in {"ready", "serving", "closed"}
      BY <1>2, <2>3
      DEF Daemon, Load, Acquire, CheckStrategies, CheckLevels, GiveUp, Publish, Close, Unlock,
          Exit, Crash, Gone, Enter, IInv, TypeOK
    <3> QED
      BY <1>1, <2>2, <3>1
  <2> QED
    BY <2>1, <2>3
<1>3. ASSUME phase' = phase, config' = config
      PROVE  config'[p] = config[p] /\ phase[p] \in {"ready", "serving", "closed"}
  BY <1>3
<1>4. ASSUME NEW c \in Clients, NEW s \in Strategies, NEW m \in Markets, SetStrategy(c, s, m)
      PROVE  validate_stored_level(config'[p], strategies'[levels'[l].strategy], levels'[l])
  <2>1. phase' = phase /\ config' = config /\ levels' = levels
    BY <1>4 DEF SetStrategy, Done
  <2> QED
    BY <1>3, <1>4, <2>1, MarketsStay DEF IInv, StillPasses
<1>5. ASSUME NEW c \in Clients, NEW k \in Levels, NEW side \in {"buy", "sell"},
             NEW slippage \in Slippages, SetLevel(c, k, side, slippage)
      PROVE  validate_stored_level(config'[p], strategies'[levels'[l].strategy], levels'[l])
  <2>1. phase' = phase /\ config' = config
    BY <1>5 DEF SetLevel, Done
  <2>0. /\ strategies' = strategies /\ \A j \in Levels : j # k => levels'[j] = levels[j]
        /\ job[c].stage \in Working /\ strategies[levels'[k].strategy] = levels'[k].market
        /\ validate_stored_level(job[c].config, levels'[k].market, levels'[k])
        /\ levels'[k].claimed = (lock = job[c].by)
    BY <1>5, StoredLevel
  <2>2. CASE l # k
    BY <1>3, <2>0, <2>1, <2>2 DEF IInv, StillPasses
  <2>3. CASE l = k
    <3>1. lock = p /\ lock = job[c].by /\ job[c].stage \in Working
      BY <1>3, <2>0, <2>1, <2>3 DEF IInv, ClaimsHold, Claiming
    <3>2. job[c].config = config[p]
      BY <3>1 DEF IInv, JobsOK
    <3> QED
      BY <2>0, <2>1, <2>3, <3>2
  <2> QED
    BY <2>2, <2>3
<1>6. ASSUME NEW c \in Clients, NEW k \in Levels, DeleteLevel(c, k)
      PROVE  validate_stored_level(config'[p], strategies'[levels'[l].strategy], levels'[l])
  <2>1. phase' = phase /\ config' = config /\ strategies' = strategies /\ levels'[l] = levels[l]
    BY <1>6 DEF DeleteLevel, Done, IInv, TypeOK
  <2> QED
    BY <1>3, <2>1 DEF IInv, StillPasses
<1> QED
  BY <1>1, <1>2, <1>3, <1>4, <1>5, <1>6
  DEF Next, Client, TakeLock, Attach, Call, CallFails, Kill, Refuse, ReadStrategy, Done,
      EditConfig, RemoveStaleLock, vars, disk

-----------------------------------------------------------------------------
(* The theorems.                                                           *)

LEMMA InitOK == Init => IInv
BY AuthoringAssumption
DEF Init, IInv, TypeOK, Phases, Job, Idle, ClaimsHold, Claiming, Holds, JobsOK, Working,
    ManifestOK, LevelsFitTheirStrategy, StillPasses

LEMMA NextOK == IInv /\ [Next]_vars => IInv'
<1> SUFFICES ASSUME IInv, [Next]_vars PROVE IInv'
  OBVIOUS
<1>1. TypeOK' /\ ClaimsHold' /\ JobsOK'
  <2>1. CASE EditConfig \/ UNCHANGED vars
    BY <2>1 DEF EditConfig, vars, disk, IInv, TypeOK, ClaimsHold, Holds, JobsOK
  <2>2. CASE RemoveStaleLock
    <3>1. ClaimsHold'
      BY <2>2 DEF RemoveStaleLock, Alive, Claiming, Holds, IInv, TypeOK, ClaimsHold
    <3> QED
      BY <2>2, <3>1 DEF RemoveStaleLock, IInv, TypeOK, JobsOK
  <2>3. ASSUME NEW p \in Pids, Daemon(p) PROVE TypeOK' /\ ClaimsHold' /\ JobsOK'
    BY <2>3, TypesOfDaemon, ClaimsOfDaemon, JobsOfDaemon DEF IInv
  <2>4. ASSUME NEW c \in Clients, Client(c) PROVE TypeOK' /\ ClaimsHold' /\ JobsOK'
    BY <2>4, TypesOfClient, ClaimsOfClient, JobsOfClient DEF IInv
  <2> QED
    BY <2>1, <2>2, <2>3, <2>4 DEF Next
<1> QED
  BY <1>1, ManifestStep, FitStep, PassesStep DEF IInv

\* The inductive invariant holds of every reachable state.
THEOREM Invariance == Spec => []IInv
BY InitOK, NextOK, PTL DEF Spec

\* Tables, files and jobs keep their types: among them that a job that stores a level
\* has read the strategy it stores it under.
THEOREM TypesHold == Spec => []TypeOK
<1>1. IInv => TypeOK
  BY DEF IInv
<1> QED
  BY <1>1, Invariance, PTL

\* A level's amount is never spent on another market than it was validated for.
THEOREM NoHybridLevels == Spec => []LevelsFitTheirStrategy
<1>1. IInv => LevelsFitTheirStrategy
  BY DEF IInv
<1> QED
  BY <1>1, Invariance, PTL

\* At most one daemon serves, and the files beside the database are its own.
THEOREM OneDaemonServes == Spec => []ServingIsFound
<1>1. IInv => ServingIsFound
  BY DEF IInv, ClaimsHold, Claiming, ManifestOK, ServingIsFound
<1> QED
  BY <1>1, Invariance, PTL

\* Rules stored under the lock pass the configuration of the daemon that trades
\* on them, whatever configurations come and go.
THEOREM TradedRulesPass == Spec => []TradesOnlyChecked
<1>1. IInv => TradesOnlyChecked
  BY DEF IInv, StillPasses, TradesOnlyChecked
<1> QED
  BY <1>1, Invariance, PTL
=============================================================================
