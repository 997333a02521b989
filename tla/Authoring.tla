------------------------------ MODULE Authoring ------------------------------
(***************************************************************************)
(* Who may change the rules, and under which configuration.  A daemon      *)
(* (apps/tempo-agentic-daemon/src/lib.rs) loads the config, claims the     *)
(* database with a lock file (storage/src/lock.rs), checks every stored    *)
(* rule, publishes a manifest (mcp/src/server.rs) and serves admin calls   *)
(* (mcp/src/admin.rs) until it stops or dies.  A client is an agent that   *)
(* knows a manifest or the command line (main.rs), which writes by itself  *)
(* when it gets the lock and asks the daemon otherwise.                    *)
(*                                                                         *)
(* A configuration is what validation asks of it (trigger/src/authoring.rs)*)
(* and a market, a strategy's row, is the pair of tokens it trades; the    *)
(* amount of a level is its decimals, the part that depends on the market. *)
(***************************************************************************)
EXTENDS Integers

CONSTANTS
  Pids,              \* daemon processes; each start is another one, with another token
  Clients,           \* agents and command lines
  Strategies, Levels, \* ids
  Tokens, Markets,   \* records [base, quote] of tokens
  Slippages,         \* what drafts ask for
  Configs,           \* records [tradable, decimals, max_slippage]
  NoRow,             \* no such row
  Nobody, NoManifest \* no lock file, no manifest

LevelRow ==
  [strategy: Strategies, side: {"buy", "sell"}, decimals: Nat, slippage: Slippages,
   market: Markets,    \* observed only: the market it was validated for
   claimed: BOOLEAN]   \* observed only: written by the holder of the lock

ASSUME AuthoringAssumption ==
  /\ Markets \subseteq [base: Tokens, quote: Tokens]
  /\ Configs \subseteq [tradable: SUBSET Markets, decimals: [Tokens -> Nat], max_slippage: Nat]
  /\ Slippages \subseteq Nat
  /\ NoRow \notin Markets /\ NoRow \notin LevelRow
  /\ Nobody \notin Pids \cup Clients /\ NoManifest \notin Pids
  /\ Pids \cap Clients = {}

VARIABLES
  file,                \* the config file
  strategies, levels,  \* the tables
  lock,                \* who created the lock file
  manifest,            \* whose address and token the manifest names
  phase, config,       \* of each daemon
  passed,              \* did its preflight find no bad strategy
  job                  \* of each client

disk == <<file, strategies, levels, lock, manifest>>
vars == <<disk, phase, config, passed, job>>

-----------------------------------------------------------------------------
(* Validation.                                                             *)

token_in(market, side) == IF side = "buy" THEN market.quote ELSE market.base

\* Known tokens, a venue of the chain's family and a price for the base.
validate_strategy_model(c, market) == market \in c.tradable

validate_level(c, market, slippage) ==
  validate_strategy_model(c, market) /\ slippage <= c.max_slippage

validate_stored_level(c, market, level) ==
  /\ validate_level(c, market, level.slippage)
  /\ level.decimals = c.decimals[token_in(market, level.side)]

-----------------------------------------------------------------------------
Idle == [stage |-> "idle"]

Init ==
  /\ file \in Configs
  /\ strategies = [s \in Strategies |-> NoRow]
  /\ levels = [l \in Levels |-> NoRow]
  /\ lock = Nobody /\ manifest = NoManifest
  /\ phase = [p \in Pids |-> "new"]
  /\ config = [p \in Pids |-> file]
  /\ passed = [p \in Pids |-> FALSE]
  /\ job = [c \in Clients |-> Idle]

EditConfig ==
  /\ file' \in Configs
  /\ UNCHANGED <<strategies, levels, lock, manifest, phase, config, passed, job>>

-----------------------------------------------------------------------------
(* A daemon, from start to end.                                            *)

Enter(p, from, to) == phase[p] = from /\ phase' = [phase EXCEPT ![p] = to]

\* The config is loaded before the lock is taken.
Load(p) ==
  /\ Enter(p, "new", "loaded")
  /\ config' = [config EXCEPT ![p] = file]
  /\ UNCHANGED <<disk, passed, job>>

\* Mutant: the lock file is opened whether it exists or not.
AcquireAnyway(p) ==
  /\ Enter(p, "loaded", "locked") /\ lock' = p
  /\ UNCHANGED <<file, strategies, levels, manifest, config, passed, job>>

\* create_new lets one win, the others give up.
Acquire(p) ==
  /\ \/ lock = Nobody /\ Enter(p, "loaded", "locked") /\ lock' = p
     \/ lock # Nobody /\ Enter(p, "loaded", "dead") /\ UNCHANGED lock
  /\ UNCHANGED <<file, strategies, levels, manifest, config, passed, job>>

\* preflight reads the strategies, then the levels, and complains of both.
CheckStrategies(p) ==
  /\ Enter(p, "locked", "checking")
  /\ passed' = [passed EXCEPT ![p] =
       \A s \in Strategies :
         strategies[s] # NoRow => validate_strategy_model(config[p], strategies[s])]
  /\ UNCHANGED <<disk, config, job>>

LevelsPass(p) ==
  \A l \in Levels : levels[l] # NoRow =>
    validate_stored_level(config[p], strategies[levels[l].strategy], levels[l])

\* Mutant: only the strategies are checked.
LevelsUnchecked(p) ==
  /\ passed[p] /\ Enter(p, "checking", "ready")
  /\ UNCHANGED <<disk, config, passed, job>>

CheckLevels(p) ==
  /\ passed[p] /\ LevelsPass(p) /\ Enter(p, "checking", "ready")
  /\ UNCHANGED <<disk, config, passed, job>>

\* A failed preflight, an unreadable database, no port: the lock is dropped.
GiveUp(p) ==
  /\ \E from \in {"locked", "checking", "ready"} : Enter(p, from, "dead")
  /\ lock' = Nobody
  /\ UNCHANGED <<file, strategies, levels, manifest, config, passed, job>>

Publish(p) ==
  /\ Enter(p, "ready", "serving")
  /\ manifest' = p
  /\ UNCHANGED <<file, strategies, levels, lock, config, passed, job>>

\* run ends: the admin server goes first, with its manifest ...
Close(p) ==
  /\ Enter(p, "serving", "closed")
  /\ manifest' = NoManifest
  /\ UNCHANGED <<file, strategies, levels, lock, config, passed, job>>

\* ... and the lock last.  Calls that were accepted are tasks of their own and
\* run until the process is gone.
Unlock(p) ==
  /\ Enter(p, "closed", "leaving")
  /\ lock' = Nobody
  /\ UNCHANGED <<file, strategies, levels, manifest, config, passed, job>>

At(p, c) == job[c].stage \in {"handling", "read"} /\ job[c].by = p

Gone(p) ==
  /\ phase' = [phase EXCEPT ![p] = "dead"]
  /\ job' = [c \in Clients |-> IF At(p, c) THEN Idle ELSE job[c]]
  /\ UNCHANGED <<disk, config, passed>>

Exit(p) == phase[p] = "leaving" /\ Gone(p)

\* A crash leaves the lock and the manifest behind.
Crash(p) == phase[p] \notin {"new", "dead"} /\ Gone(p)

-----------------------------------------------------------------------------
(* A client.                                                               *)

Holds(c) == job[c].stage \in {"handling", "read"} /\ job[c].by = c

\* authoring: the lock first, then the config ...
TakeLock(c) ==
  /\ job[c] = Idle /\ lock = Nobody
  /\ lock' = c
  /\ job' = [job EXCEPT ![c] = [stage |-> "handling", by |-> c, config |-> file]]
  /\ UNCHANGED <<file, strategies, levels, manifest, phase, config, passed>>

\* ... or the address and the token that were published last.
Attach(c) ==
  /\ job[c] = Idle /\ manifest # NoManifest
  /\ job' = [job EXCEPT ![c] = [stage |-> "calling", by |-> manifest]]
  /\ UNCHANGED <<disk, phase, config, passed>>

\* The call reaches the daemon whose token it carries.
Call(c) ==
  /\ job[c].stage = "calling" /\ phase[job[c].by] = "serving"
  /\ job' = [job EXCEPT ![c] =
       [stage |-> "handling", by |-> job[c].by, config |-> config[job[c].by]]]
  /\ UNCHANGED <<disk, phase, config, passed>>

\* Nobody listens, or another daemon refuses the token.
CallFails(c) ==
  /\ job[c].stage = "calling"
  /\ job' = [job EXCEPT ![c] = Idle]
  /\ UNCHANGED <<disk, phase, config, passed>>

\* The command is over; one that held the lock drops it.
Done(c) ==
  /\ job' = [job EXCEPT ![c] = Idle]
  /\ lock' = IF Holds(c) THEN Nobody ELSE lock
  /\ UNCHANGED <<file, manifest, phase, config, passed>>

\* Validation or the store says no.
Refuse(c) ==
  /\ job[c].stage \in {"handling", "read"}
  /\ Done(c)
  /\ UNCHANGED <<strategies, levels>>

\* A strategy keeps its market while it has levels.
upsert_strategy(s, market) ==
  /\ strategies[s] = market \/ \A l \in Levels : levels[l] # NoRow => levels[l].strategy # s
  /\ strategies' = [strategies EXCEPT ![s] = market]

SetStrategy(c, s, market) ==
  /\ job[c].stage = "handling"
  /\ validate_strategy_model(job[c].config, market)
  /\ upsert_strategy(s, market)
  /\ Done(c)
  /\ UNCHANGED levels

\* set_level reads the strategy ...
\* Mutant: a strategy that is not there is not noticed.
ReadAnyStrategy(c, s) ==
  /\ job[c].stage = "handling"
  /\ job' = [job EXCEPT ![c] =
       [stage |-> "read", by |-> @.by, config |-> @.config, strategy |-> s,
        market |-> strategies[s]]]
  /\ UNCHANGED <<disk, phase, config, passed>>

ReadStrategy(c, s) ==
  /\ job[c].stage = "handling"
  /\ strategies[s] # NoRow
  /\ job' = [job EXCEPT ![c] =
       [stage |-> "read", by |-> @.by, config |-> @.config, strategy |-> s,
        market |-> strategies[s]]]
  /\ UNCHANGED <<disk, phase, config, passed>>

\* Mutant: the level is stored whatever has become of the strategy.
upsert_level_anyway(l, row) == levels' = [levels EXCEPT ![l] = row]

\* ... and stores the level if the strategy is still the one it validated for.
upsert_level(l, row) ==
  /\ strategies[row.strategy] = row.market
  /\ levels' = [levels EXCEPT ![l] = row]

SetLevel(c, l, side, slippage) ==
  LET j == job[c]
  IN /\ j.stage = "read"
     /\ validate_level(j.config, j.market, slippage)
     /\ upsert_level(l, [strategy |-> j.strategy, side |-> side,
                         decimals |-> j.config.decimals[token_in(j.market, side)],
                         slippage |-> slippage, market |-> j.market,
                         claimed |-> lock = j.by])
     /\ Done(c)
     /\ UNCHANGED strategies

\* Refuse stands for the levels that have orders and stay.
DeleteLevel(c, l) ==
  /\ job[c].stage = "handling"
  /\ levels' = [levels EXCEPT ![l] = NoRow]
  /\ Done(c)
  /\ UNCHANGED strategies

\* A command that is killed drops nothing.
Kill(c) ==
  /\ Holds(c)
  /\ job' = [job EXCEPT ![c] = Idle]
  /\ UNCHANGED <<disk, phase, config, passed>>

Alive(x) == \/ x \in Pids /\ phase[x] \notin {"new", "dead"}
            \/ x \in Clients /\ Holds(x)

\* "Remove the file if it crashed", says the message.
RemoveStaleLock ==
  /\ lock # Nobody /\ ~Alive(lock)
  /\ lock' = Nobody
  /\ UNCHANGED <<file, strategies, levels, manifest, phase, config, passed, job>>

-----------------------------------------------------------------------------
Daemon(p) ==
  \/ Load(p) \/ Acquire(p) \/ CheckStrategies(p) \/ CheckLevels(p) \/ GiveUp(p)
  \/ Publish(p) \/ Close(p) \/ Unlock(p) \/ Exit(p) \/ Crash(p)

Client(c) ==
  \/ TakeLock(c) \/ Attach(c) \/ Call(c) \/ CallFails(c) \/ Refuse(c) \/ Kill(c)
  \/ \E s \in Strategies : ReadStrategy(c, s) \/ \E m \in Markets : SetStrategy(c, s, m)
  \/ \E l \in Levels :
       \/ DeleteLevel(c, l)
       \/ \E side \in {"buy", "sell"}, slippage \in Slippages : SetLevel(c, l, side, slippage)

Next ==
  \/ EditConfig \/ RemoveStaleLock
  \/ \E p \in Pids : Daemon(p)
  \/ \E c \in Clients : Client(c)

Spec == Init /\ [][Next]_vars

-----------------------------------------------------------------------------
Phases == {"new", "loaded", "locked", "checking", "ready", "serving", "closed",
           "leaving", "dead"}

Job ==
  {Idle}
  \cup [stage: {"calling"}, by: Pids]
  \cup [stage: {"handling"}, by: Pids \cup Clients, config: Configs]
  \cup [stage: {"read"}, by: Pids \cup Clients, config: Configs, strategy: Strategies,
        market: Markets]

TypeOK ==
  /\ file \in Configs
  /\ strategies \in [Strategies -> Markets \cup {NoRow}]
  /\ levels \in [Levels -> LevelRow \cup {NoRow}]
  /\ lock \in Pids \cup Clients \cup {Nobody}
  /\ manifest \in Pids \cup {NoManifest}
  /\ phase \in [Pids -> Phases]
  /\ config \in [Pids -> Configs]
  /\ passed \in [Pids -> BOOLEAN]
  /\ job \in [Clients -> Job]

\* A level's amount is spent on the market it was validated for, however
\* set_strategy, set_level and delete_level of several clients interleave.
LevelsFitTheirStrategy ==
  \A l \in Levels : levels[l] # NoRow => strategies[levels[l].strategy] = levels[l].market

\* A daemon that serves is the only one and can be found: the lock file and
\* the manifest are its own, whatever crashed or stopped before.
ServingIsFound ==
  \A p \in Pids : phase[p] = "serving" => lock = p /\ manifest = p

\* A daemon trades on no rule that its own configuration rejects, though the
\* file is edited, daemons come and go and clients write by themselves in
\* between.  (A rule stored by a process that had let go of the lock is not
\* claimed: an accepted call may still write after the lock was dropped.)
TradesOnlyChecked ==
  \A p \in Pids, l \in Levels :
    phase[p] = "serving" /\ levels[l] # NoRow /\ levels[l].claimed
    => validate_stored_level(config[p], strategies[levels[l].strategy], levels[l])

-----------------------------------------------------------------------------
(* The inductive invariant behind the properties above.                    *)

Claiming == {"locked", "checking", "ready", "serving", "closed"}
Working  == {"handling", "read"}

\* Between taking and dropping the lock a process is the one the file names.
ClaimsHold ==
  /\ \A p \in Pids : phase[p] \in Claiming => lock = p
  /\ \A c \in Clients : Holds(c) => lock = c

\* A call is handled by a daemon that has served, under its configuration; a
\* command that writes by itself works for nobody else.
JobsOK ==
  \A c \in Clients : job[c].stage \in Working =>
    /\ job[c].by \in Pids =>
         /\ phase[job[c].by] \in {"serving", "closed", "leaving"}
         /\ job[c].config = config[job[c].by]
    /\ job[c].by \in Clients => job[c].by = c

ManifestOK == \A p \in Pids : phase[p] = "serving" => manifest = p

\* What preflight found stays true.
StillPasses ==
  \A p \in Pids, l \in Levels :
    phase[p] \in {"ready", "serving", "closed"} /\ levels[l] # NoRow /\ levels[l].claimed
    => validate_stored_level(config[p], strategies[levels[l].strategy], levels[l])

IInv ==
  /\ TypeOK /\ ClaimsHold /\ JobsOK /\ ManifestOK
  /\ LevelsFitTheirStrategy /\ StillPasses
=============================================================================
