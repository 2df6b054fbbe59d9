# TLA+ models of AurumIQ

AurumIQ turns closed 15-minute XAUUSD candles into decisions that are shown, alerted and
observed on paper. It is a Django application: PostgreSQL holds all durable state, Celery
workers run the tasks, Redis carries the messages and a WebSocket brings the updates to the
dashboard. Nothing trades. What can go wrong is therefore not an order but a *record*: a
decision that is lost, duplicated, shown without its plan, or a 14-day observation phase that
is declared complete without having earned it. These modules model that part.

Paths below are relative to the repository root (`apps/...`, `engine/...`).

## Inventory of the system

| Component | State it keeps | Operations | Talks to |
|---|---|---|---|
| Ingestion, `apps/market_data/tasks.py` | `MarketCandle`, `DataQualitySnapshot` rows | `ingest_primary_candles`, `check_provider_health_task`, `dispatch_closed_candle_ingestion` | providers (HTTP), sends the closed-candle task after commit |
| Backfill, `apps/market_data/management/commands/backfill_xauusd_twelve_data.py` | the same rows | pages backwards through a window within a budget of credits; `--resume` | the same provider and its count of credits, beside live ingestion |
| Request scheduler, `apps/market_data/scheduler.py` | credits, retries, suppressions and circuit, in the cache and again in each process; attempts in the process only | `CandleRequestLedger`, `ClosedCandleScheduler` | the dispatcher asks it before each request, the health check before its own |
| Decision pipeline, `apps/live_monitor/{tasks,services,recovery}.py` | `SignalRecord`, `LiveRiskPlanRecord`, the one `LiveMonitorState` row | `process_xauusd_closed_candle_task`, `process_closed_candle`, `catch_up_unprocessed_xauusd_candles`, `reconstruct_xauusd_state` | engines (pure), alerts, paper observation task, WebSocket |
| Live quotes, `apps/live_monitor/services.py` | quote fields, zone and incident flags of the same row | `process_quote` | quote alerts, events to the WebSocket |
| Alerts, `apps/alerts` | `AlertEvent` rows | `_create_or_get_alert`, `dispatch_alert` | webhook, Telegram |
| Phase 8, `apps/live_monitor/paper_service.py`, `engine/paper` | `PaperObservationRecord`, the one `Phase8OperationalState` row | `process_production_signal_observation`, `step_observation_cycle`, `record_interruption`, `audit_operational_continuity` | reads candles and signals |
| Signal engine, `engine/signals` | none | hard gates, scores of both sides, tiers, conflict resolution | pure; reads the state of the feeds |
| Risk planner, `engine/risk/xauusd_{planner,stops,targets}.py` | none | zones, stops, targets, plan validity | pure |
| Trade simulation, `engine/risk/xauusd_intrabar.py`, `engine/backtest/xauusd_outcomes.py` | none | entry, barriers in a bar, replay of lower candles, labels | pure |
| Cycle evidence, `engine/cycles`, `apps/live_monitor/services.py` | `CycleSnapshotRecord` of a close | profile resolution, macro gate, snapshot of a decision | called by the decision pipeline, one transaction of its own |
| Features, structure, regime, `engine/*` | none | numeric series | pure |
| Backtests, `engine/backtest`, `apps/backtests` | `BacktestRun` rows with their trades | tasks that load, run and record; folds, purge, replay, walk-forward | read candles; planner and trade simulation |
| Calibration, `scripts/run_xauusd_*calibration.py` | candidate ledger, snapshot caches, locked artifact (files) | judge every candidate, resume, lock, confirm out of sample | reads candles and schedules; uses planner, simulation, folds |
| Macro evidence, `apps/market_data/macro` | append-only snapshots, schedule vintages, provenance, observations | `ingest_xauusd_macro_evidence`, replay as of a day, coverage report | official calendars and series; read by the blackout gate |
| Friction evidence, `apps/market_data/friction`, `scripts/activate_xauusd_standard_cent_friction.py` | append-only snapshots, attestations, claims, model versions, activations | ingestion command, activation script, validator, resolver | paper observation and readiness ask for the model of a moment |
| Readiness, `apps/market_data/readiness.py` | the manifest | audit of the candles, then of all evidence | reads candles query by query, and the two above |
| Dashboard, `apps/dashboard`, `apps/live_monitor/consumers.py`, `static/dashboard/js/dashboard.js` | the page's socket, attempts and what it shows | snapshot, subscription, reconnect | WebSocket, HTTP; an older page, `static/js/dashboard.js`, reconciles over HTTP |
| Accounts, instruments, analysis | reference data | CRUD | — |
| Providers, `tools/mt5_bridge` | none | HTTP | — |

What is hard in it:

* **Concurrency.** `docker/docker-compose.yml` starts the worker with `-c 4`, so tasks of one
  queue run at once. The guards of the pipeline are plain queries; only the monitor row is
  ever locked (`select_for_update`). The Phase 8 row is read and saved as a whole with no lock.
* **Unlocked reading.** The readiness audit and the backtest tasks read tables in many queries
  outside any transaction while backfill and live ingestion store rows.
* **Failure.** The signal, the plan and the projection are committed one after another. A
  statement that raises makes Celery retry the whole task (three times); a killed worker loses
  its message, because messages are acknowledged on receipt.
* **Shared counts.** The request ledger checks a cache key and writes it in separate calls, and
  falls back to the process's own dictionaries when a key is missing.
* **Ordering.** Catch-up sends candles newest first; a reconstruction reads before it locks;
  alerts leave after the commit.
* **Time.** Grace period, staleness and window age of the continuity gate; market closure.
* **The past.** A replay must not see what was published later, and must go on seeing what it saw;
  calendars are revised, commands break off, an activation is dated before it is committed.
* **Two copies.** Scores, plans, fills and barriers are written out once for each side.
* **Hindsight.** A trade's label depends on prices after it, a bar hides the order of its prices,
  and folds must not share either.

`PROJECT.json` lists each hazard at its line, with the properties that cover it, or the reason
why none does.

## Modules

| Module | Models |
|---|---|
| `DecisionLedger` | abstract: what the decision path promises its readers, without tasks or queues |
| `DecisionPipeline` | the path of a closed candle from ingestion to the alert and the observation |
| `Phase8Gate` | the Phase 8 row with its writers, and the continuity gate |
| `CycleSnapshot` | the cycle snapshot of a decision: profile, macro gate, stored row, retries |
| `LiveView` | the live row with its two writers, its alerts, the events, the consumer and the page |
| `CandleDispatch` | the closed-candle dispatcher, its scheduler and the request ledger |
| `CandleHistory` | the stored candles with the backfill and live ingestion as their writers |
| `ReadinessAudit` | the readiness audit over the candles while others store them |
| `BacktestRuns` | the backtest tasks, their guards and the table of runs |
| `Selection` | list comprehensions with a condition, as operators that can be reasoned about |
| `SignalEngine` | from the evidence of a decision time to a candidate state (extends `Selection`) |
| `RiskPlanner` | from zones and volatility to a plan: stop, targets, validity |
| `TradeReplay` | a backtest: candidates, plans, trades and their labels, folds (extends `RiskPlanner`) |
| `CandidateScore` | what the two calibration scripts make of one list of trades (extends `Selection`) |
| `CalibrationCampaign` | the calibration run with its files, killed and resumed while data, policies and code change |
| `MacroEvidence` | the macro command, its tables, the replay as of a day, the coverage report |
| `FrictionLedger` | the friction evidence, the activation script, the validator and the resolver |
| `DecisionPipeline_proofs` | theorems of `DecisionPipeline` |
| `DecisionGates_proofs` | theorems of `Phase8Gate` and `CycleSnapshot` |
| `DataOperations_proofs` | theorems of `CandleDispatch`, `CandleHistory`, `ReadinessAudit`, `BacktestRuns` |
| `ResearchChain_proofs` | theorems of `Selection`, `SignalEngine`, `RiskPlanner` with `TradeReplay`, `CandidateScore` |
| `LiveView_proofs`, `MacroEvidence_proofs`, `FrictionLedger_proofs`, `CalibrationCampaign_proofs` | theorems of the module each is named after |
| `MCDecisionPipeline`, `MCPhase8Gate`, `MCCycleSnapshot`, `MCCandleDispatch`, `MCCandleHistory`, `MCReadinessAudit`, `MCBacktestRuns`, `MCLiveView`, `MCSignalEngine`, `MCTradeReplay`, `MCMacroEvidence`, `MCCandidateScore`, `MCCalibrationCampaign` | values of the constants for TLC |
| `MCDecisionEvidence`, `MCDecisionGates`, `MCDataOperations`, `MCParts` | disjoint unions: parts that share no state, checked in one run |

The composition inside the decision path is `DecisionPipeline` itself (ingestion, tasks, projection,
alerts, observation) and `LiveView` (decision and quote tasks on one row, consumer, page). The other
parts meet through values only: the engine is `Candidate` in the pipeline, the plan of a decision is
what `LiveView` takes as `Decisions`, the replay of macro events is `blackout` in `SignalEngine`
and, vintage by vintage, `EventsAsOf` in `CycleSnapshot`, whose snapshot is what `SignalEngine` reads
of the cycle. Writers of the candle table appear in each module that reads it, as what may happen to
the rows meanwhile (`BackfillCandle`, `ArriveLateRow`, `StoreRows`, `StoreBar`, `AddRow`).

### DecisionPipeline

*Names.* A candle is its closing time. A signal is its `analysis_fingerprint`, a hash of the
candle and of the history that was visible when it was analysed; the model uses the pair
`[candle, seen]`, where `seen` is the set of rows (`LateRows`: 1h, 4h or 1d candles, health
snapshots, back-filled rows) that had arrived. `Candidate` is the engine: any function from
fingerprints to what matters here, a window decision (plan and alert), a notice (alert only)
or nothing. The risk plan and the alert of a decision are functions of the signal, and are
named by it.

*State and code.*

| Variable | Code |
|---|---|
| `stored`, `history`, `backfilled` | closed `MarketCandle` rows; the last is a history variable |
| `queue` | copies of each `process_xauusd_closed_candle_task` message in the broker |
| `pc`, `job`, `fp`, `owes` | where a worker stands, its message, the fingerprint in its hands, the alert its transaction's `on_commit` hook will send |
| `signals`, `plans`, `observed` | `SignalRecord` (in creation order), `LiveRiskPlanRecord`, `PaperObservationRecord` |
| `monitor` | `analysis_fingerprint`, the plan fields and `decision_sequence` of `LiveMonitorState` |
| `alert`, `sends` | `AlertEvent.status`; how often the channels were called |
| `recon` | what a `reconstruct_xauusd_state` has read and not written yet |
| `toObserve` | paper observation messages |
| `evaluations`, `errors`, `crashes` | history variables |

*Steps.* One action is what one database statement or transaction makes visible:
`Receive` (steps 0a and 0b of the task), `Guard` (step 2b), `ReadHistory`, `SaveSignal`,
`SavePlan`, `CommitDecision` (the transaction of steps 10 and 11, which locks the monitor row),
`RunHooks` and `MarkAlert` (transport), `HandOn`. At any of them `TaskFails` (the exception
handler and `self.retry`) or `WorkerKilled` may happen instead. `IngestCandle`,
`IngestWithoutDispatch`, `BackfillCandle`, `ArriveLateRow`, `CatchUp`, `ReconstructRead`,
`ReconstructWrite`, `Observe` run beside them. The retry's countdown is not modelled: a
retried message may be taken at once or much later.

*Abstracted.* The four history queries of `process_closed_candle` are one read. The plan and
the signal of a reconstruction are read together (a plan row never changes once written). The
safety-hold and blackout alerts of `evaluate_closed_candle_alerts` go through the same
`_create_or_get_alert` under other event ids and are not separate state here. Ingestion of
several candles in one transaction is one action per candle: their hooks run one by one.

### Phase8Gate

Time is counted in 15-minute slots, and the candle `c` closes at slot `c`. `row` is the one
`Phase8OperationalState` record. An observation (`BeginObservation`, `EndObservation`) is one
transaction of `process_production_signal_observation`: at its first step the record is got or
created and the row read, at its last the row is saved whole and all is committed. A second
get-or-create of a record that is not committed yet waits for it (`Uncommitted`: the unique
key). `BeginEmptyCycle` is `step_observation_cycle` with no signal at all, ending in
`EndOpening` or `EndInterruption`. The watchdog has no transaction around it, so
`BeginAudit`, `AuditCounts`, `AuditInterrupts`, `AuditSavesInterruption`, `AuditRefreshes` and
`EndAudit` are separate steps; its loop over the candles is one of them, since records and
candles are only ever added and each is looked at once. Processes may be killed
(`TaskKilled`, `AuditKilled`); none outlives `TaskLimit` (Celery's time limit). One watchdog
runs at a time. The counters that no decision reads (buy, sell, duplicates, closure cycles)
and the outcome of a paper trade are left out.

### CycleSnapshot

Times are minutes. `known` is the schedule vintages ingested so far, `artifact` the configured
calibration artifact, `snapshots` the `CycleSnapshotRecord` of each close, `decisions` the signal rows
with what they rest on, `decider[d]` what a worker holds. A worker resolves the profile, the stored
snapshot and the macro gate's answer (`LookUp`), computes and stores a snapshot of its own if the
close has none and a schedule covers it (`Analyse`, a transaction that may fail without ending the
task) and saves its decision (`Decide`). It may be lost between any two of these (`LoseDecision`),
and the close is then decided again; schedules arrive (`ListEvent`) and artifacts are exchanged
(`Configure`) meanwhile. The four parts of the score (session, swing, calendar, clearance) are
operators with the code's floors, factors and confidence weights.

*Abstracted.* An envelope's digest is its payload, so that a tampered one has another digest. The
analysis itself is taken not to raise; if it did, the code would log it and decide with the older
snapshot it had found. Bars come from the primary provider and are enough.

### CandleDispatch

One timeframe within one UTC day, time counted in candles; the candle `c` closes at slot `c`, and
the calendar is given by constants (`Closed`, `Leaving`, `Returning`, `ClosureSpans`, `Break`).
`auto`, `retry`, `suppressed` and `circuit` are the cache keys, `local[p]` the dictionaries of the
ledger object in process `p`, `stored` the candle table and `task[p]` the dispatch a process is
in. Reads prefer the cache or the process's own copy exactly as each method does: the counts take
the cache if the key is there, the suppression takes either, the circuit takes the process's own
first (`AutoCount`, `IsSuppressed`, `CircuitOpen`).

*Steps.* `Evaluate` is the dispatcher up to the due check, `Plan` the second query and
`plan_recovery_batches`; then per batch `CheckCap`, `RecordCredit` and, if `incr` found no key,
`SetCredit`; the request with its outcome (`RequestSucceeds`, `RequestFails`, `RequestSuspect`,
`RequestLimited`). The provider drops only the bars that open after the batch's end, so that a full
answer also holds the bar that opens at it, if that has closed (`Answerable`); an answer may leave
candles out. `RequestSuspect` is an answer that is stored and still fails the integrity check; what
else its reason names decides whether it counts as an empty answer and whether it is asked again.
Short and suspect answers, kills and cache losses are the faults `MaxFaults` bounds. Then come
`MayRetry` with the same credit steps again, `Settle` for a success, and `CountAttempt`, `SetRetry`
and `Penalise` for a failure.
`BeginOther` and `RequestOther` are `check_provider_health_task`, and stand also for the
dispatcher's requests for the other timeframes, which share the credits. `ProcessDies` takes a
process's dictionaries, `CacheLost` the keys.

*Abstracted.* The task of Celery carries the time it began, and so does the model (`target`); the
two keys of the circuit are one. The two cache reads of `can_retry` are one step. Within the day
a suppression does not expire (its 24 hours reach beyond it). A failure that makes no request at
all (an unhealthy snapshot) is counted in `sent` with those that do, which can only make
`OvershootBounded` harder to satisfy. Ingestion's own health probe, made when the last snapshot
is older than 35 minutes, records no credit and is not part of `sent`.

### CandleHistory

A bar opens at its number and closes one later; every frame is numbered alike. `offered` is what the
provider has, `candles` the rows, `usage` the count the provider keeps. A run of the backfill
(`BeginFill`) chooses for each frame where to begin (`ChooseEnd`: with `--resume` at the earliest row
of the window), and then per page checks its budget (`RunOutOfBudget`, `Recheck`), makes the request
(`Request`, answered, timed out or refused) and stores what lies inside (`PersistPage`, one
transaction) or leaves the frame (`LeaveFrame`). It may be killed anywhere (`BreakFill`). Beside it
`IngestLive` appends what closed since the latest row, and `RequestElsewhere` uses credits. `looks`
is a history variable: which ends runs asked for, and whether live ingestion had left a hole.

*Abstracted.* A row is its bar; values and quality flags are left out. The generic backfill writes
rows of another source, which only the audit sees (`StoreForeign`).

### ReadinessAudit

`rows` is the candle table, `audit` the evaluation under way, `manifest` the last one written. Every
query is a step: `CountRows`, `ReadCoverage` per frame, `ReadIdentity`, and `Seal` with the
fingerprint of all frames and the decision. `StoreRows` and `StoreForeign` happen between them.
`Streamed` is the single pass that counts gaps, a fold over the rows in their order whose step is
`WithRow`; `Listed` is the older function over a list, which the tests compare with; `Decision` keeps the order of the refusals.

*Abstracted.* A fingerprint is the set of rows it covers. How macro and friction evidence and quotes
are judged are inputs of `Seal`; the friction gate is in `FrictionLedger`, the macro report in
`MacroEvidence`.

### BacktestRuns

`jobs` are the tasks, `runs` the `BacktestRun` rows, `bars` the candles. `Launch` is the endpoint with
its governance check, `BeginRun` the task's guards (governance again, `Resolves` for the profiles),
`LoadSeries` one query per frame while `StoreBar` adds bars, `Run` the identity check and the replay,
`FindRun` and `InsertRun` the two statements of persisting (the key is unique), `RecordFailure` the
exception handler, `BreakRun` a kill. A run is deterministic, so its result is what it read and its
setup.

*Abstracted.* The XAUT task (`run_backtest_task`) is the same machine with other queries and no check
of the identity; requests for it come from outside the endpoint.

### LiveView

`row` is the `LiveMonitorState` record again, now with what quotes own: sequence number, source
time, prices, staleness, the zone status and the flags of the open incidents. A transaction under
the row lock is one step (`TakeQuote` is `process_quote`, `ProjectDecision` steps 10 to 12 of
`process_closed_candle`, `RebuildRead` and `RebuildWrite` the two halves of
`reconstruct_xauusd_state`); its events are published one by one afterwards, so that those of two
transactions may overtake one another (`outbox`, `Publish`). The consumer reads a snapshot, sends it
and only then starts its Redis listener, and each of the three may fail (`ReadSnapshot`,
`MissSnapshot`, `Subscribe(ok)`): a listener without a client, or ended by an exception later on
(`ListenerEnds`), leaves the page `deaf` on an open socket until that closes. The page counts
attempts, waits, gives up and shows a pill (`Open`, `Closed`, `Drop`, `Fail`, `Retry`, `Pill`), and
is `stopped` when `new WebSocket` throws, for its `catch` sets no timer (`Throw`). A decision is the record
`[side, lo, hi, stop, usable, healthy, gated]`: its entry zone and stop, whether its plan may be
executed, and what the alert rules read of it. A page starts without a socket; a closure is what
the last snapshot said.

*Abstracted.* Quotes are taken once each, from a small set, in any order. The socket keeps its
order, so an event is received as it is published. Callbacks inside one process, the rows saved
before the transaction (they are in `DecisionPipeline`) are left out; the reference price is assumed
present.

### Selection

`Having(s, S)` is the list comprehension `[x for x in s if ...]` with the condition as a set. It says
what `SelectSeq` says for a test; a set can be named in a theorem, an operator argument cannot be
instantiated by the provers at hand.

### SignalEngine

`evidence` is what one analysis rests on, and `signal` the last snapshot; `Analyze` is
`XauUsdSignalEngine.analyze`, `FeedTurns` a health check in between. Scores are in hundredths of a
point, so the weights times percentages are exact. Wherever the source has a copy of a rule per
side the module has two branches; where the copies are the same text (`ZonePoints`, `CyclePoints`)
it has one. A price is kept as what the rules read of it (a percentage, a sign, a class).

*Abstracted.* Both sides share one policy, as in the profile the deployment loads; the runtime
health is always present; `UNHEALTHY` stands for all statuses that are neither `HEALTHY` nor
`MISSING`, which the code treats alike.

### RiskPlanner and TradeReplay

`RiskPlanner` is `XauUsdRiskPlanner` as operators: the zones known at the setup's time, the entry
zone of a side, its stop, its targets, and the plan with what each gate leaves of a refused one.
Prices are even whole numbers, so that the middle of a zone is whole; ratios are compared by their
products. Both sides share one policy.

`TradeReplay` walks over the closed bars of a `tape`: a step is a candidate (`TakeCandidate`, which
plans and resolves its trade as `resolve_trade` does, from the entry at the next bar's open to the
first barrier, the horizon or the end of the run) or a bar without one (`PassBy`), and at the end
`WalkForward` cuts the trades into folds and purges them. A bar carries the path its price really
took, two prices a minute, and which of its 1m and 5m candles are stored; what the code sees of a
candle is only what its extremes say (`PricesIn`), and the properties compare its answers with the
path. `Ambiguity` is the resolver's policy; `WORST_CASE` is none of its values, for an ambiguous bar
then demands an adverse gap that no caller hands over, and `resolve_trade` fails with it.

*Abstracted.* Minutes stand for the time units, four to a bar in the runs; the entry is the
deployed one (open of the next bar plus a synthetic spread, no latency).

### MacroEvidence

Time is counted in days; `family` is one family of events, its agency's calendar as it reads on
each day, the days figures really came out, and the period the 2025 lapse hit. `snapshots` keeps
the first body of each url for good (`FetchOrReuse`), also the one of a terminal client error (403,
404, 410), in which the parsers find no dates, no release and no figures (`Refusal`; the sources that
may give one are bounded by `Refusing`, in the runs one of each kind), `vintages` the schedule rows,
`assertions` their provenance, `observations` the figures. Each commit of `ingest_xauusd_macro_evidence` is an
action, from `FetchSource` to `RecordObservation`, and `BreakOff` may end the run at any of them
(three failed attempts at a source, a row the database refuses, a kill). `Replay(T)` is
`resolve_macro_events_as_of`, `Covered` the coverage report.

*Abstracted.* The yearly calendar pages are one page; an archived release that does not exist is a
body that is not about the release. Families are followed one at a time, and so are operators: no
two commands run at once. A dry run writes nothing and is left out; revisions are never written by
the code. Rows of an earlier version (`LegacyRows`) may stand in the tables.

### FrictionLedger

Attestations and claims are rows per role (`proofs` of the tick archive, `claims`), found again
when written again (`Written`: the id covers the content). The ingestion command commits row by row
(`CaptureTicks`, `SampleTicks`, `AttestTicks`, `ClaimTicks`, `BreakCapture`); a file offered
instead is one step (`OfferTicks`). The activation script reads the clock and looks for a model
(`StartScript`), and writes everything else in one transaction (`SealModel`), dating the activation
by the clock it read. `Valid` is `validate_friction_model_for_activation`, `Resolve` the resolver,
`Configured` what readiness asks for, and `Consult` the observer asking for the model of a moment.

*Abstracted.* One venue, symbol and account tier, hence one version id; one tick archive. The
statistics, parsers and seals of the artifacts are taken to succeed or to abort the script
(`AbandonScript`; also when a later telemetry set is picked by its sample end, or when no
attestation of the archive exists). The script's closing checks write nothing. The ingestion
command's own attempt to build a model cannot yield one that validates (its slippage evidence comes
as a file, and a file is only DECLARED), so its versions are left out, and so are the static
artifacts it captures, which are not those of the sealed version. A file offered with a provenance
file leaves a DECLARED attestation that the script may pick up as the archive's: not modelled.

### CandidateScore

`ScoreReplay` scores one list of simulated trades as both scripts do: `WholeFigures` and
`SideOfWhole` are `evaluate_candidate_val` of `run_xauusd_calibration.py`, `SideAlone` and
`CompositeFigures` are `evaluate_side_trades` and `evaluate_dual_side_composite` of
`run_xauusd_directional_composite_calibration.py`. The statistics (`Mean`, `Deviation`,
`LowerBound`, `Drawdown`, `Share`, `Stability`) are the code's, in hundredths of R with means, roots
and quotients rounded down. The scripts write the statistics out again for each use; the copies
compute the same today and are one operator here (`StatisticsOf`), so the model says nothing of a
copy that is changed alone. What differs between them, the order of the filters and the scale of
the stability, is an operator of its own for each, and that is what `SidesAreCountedAlike` compares.

*Abstracted.* The number of independent observations (`measure_empirical_a16`) is the constant
`EffectiveN`, a function of the trades, since both scripts call the same code for it.

### CalibrationCampaign

`stored` is the candle tables (a number of rows and an edition of what they say), `policy` and
`code` what is deployed, `ledger` and `valCache` the files, `campaign` the run. Around it
`AddRow`, `Rewrite` and `Release` change the surroundings. The run insists on the governed number of
15m rows (`BeginCampaign`), loads one table after the other (`LoadTable`), takes or builds the
snapshots (`TakeSnapshots`, `BuildSnapshots`, `SaveSnapshots`), reuses or makes the judgement of each
candidate in turn (`ReuseJudgement`, `Judge`), locks the best (`Lock`), and may be killed at any of
these (`EndCampaign`). `drifted` is a history variable: something has changed that no provenance of
a ledger entry or cache file tells of.

*Abstracted.* A judgement is represented by everything it depends on, so that two are equal exactly
if nothing relevant differs. Writing the ledger is one step, as the code replaces the file
atomically; the cache file is written in place and may be left half written.

## Runs

| Run | Question | Bounds |
|---|---|---|
| `pipeline_faults` | Do rows, projection and alerts stay consistent, and does the pipeline implement the ledger, under every interleaving and fault? | 2 workers; a candle to decide and one in closure; 1 late row; 1 failing statement, 1 kill, 1 retry; at most 2 equal messages; catch-up of 1 |
| `pipeline_liveness` (`MCDecisionEvidence`) | Does every queued candle end with a signal? Is every stored but unobserved candle flagged? And beside it: does the friction model of a past moment stay, and when does a sealed model fail the gate? | pipeline: 2 candles, 2 workers, 2 failing statements with 2 retries, 1 kill; gate: 4 slots, the third closed, 1 observer and the watchdog, 1 kill; friction: 2 operators, 3 moments, 1 archive |
| `pipeline_once` | Is a candle evaluated at most once? (It is not.) | 1 candle, 2 workers, no fault |
| `phase8_gate` (`MCDecisionGates`) | Does COMPLETE always stand beside what earns it? And before a decision: do points of the cycle have authority, and is nothing traded on old evidence? | gate: 3 slots, the third closed; 2 observers and the watchdog; processes up to 1 slot long (kills are in `pipeline_liveness`, and in the proofs); snapshot: 2 workers, 2 closes, 4 artifacts exchanged once, 3 vintages, 1 failure or kill |
| `phase8_forgets` | Does a recorded failure forbid COMPLETE? (It does not.) | 4 slots, 2 observers and the watchdog |
| `phase8_coverage` | Does COMPLETE cover the window? (It does not.) | as above |
| `snapshot_blackout` (`MCCycleSnapshot`) | Does a blackout hold at every attempt at a close? (It does not.) | 2 workers, a champion without a cycle profile, 3 vintages, 1 failure |
| `dispatch_credits` (`MCDataOperations`) | By how much is the credit cap exceeded, and does recovery leave holes? Is a completed backfill whole, and within its credits? Does the audit's manifest say what was there? Do backtest rows stand and match what the tasks reply? | dispatch: 2 processes, 2 credits, 4 slots with the second closed, batches of 2, 1 fault (short or suspect answer, kill or cache loss); backfill: 2 frames, windows of 2 ends, pages of 2 bars, 2 runs, 1 other request; audit: 2 frames, 3 bars; backtests: 2 tasks, 7 requests, 5 bars, 1 kill |
| `dispatch_closure` | Are closed hours never requested? (They are.) | 1 process, 5 slots, the second and third closed |
| `dispatch_suppression` | Is a suppressed candle not requested? (It is.) | 1 process, 3 slots, no closure |
| `parts` (`MCParts`) | Live view: does the page tell the truth and come back, are alerts backed and raised once? Signal engine: is a decision fair to both sides and blind to the future? Trade replay: are plans and labels honest? Macro evidence: does a replay see neither the future nor less than it saw? Candidate score: do two scripts mean the same by the same figures? Campaign: is a resumed run worth an uninterrupted one? | see below |
| `trade_ambiguity` | Does the resolver use 1m candles where they decide? (Not always.) | as the trade replay of `parts` |

Two workers are enough for every race of the pipeline, each of which is between two tasks of
one candle, or a task and a reconstruction; the second candle is there for what differs
between candles (closure, order of the latest). One late row makes two evaluations of one
candle differ. One error and one kill in one behaviour cover each fault alone and in pairs;
`MaxCopies = 2` lets catch-up duplicate a message that still waits. For the gate, a window of
two slots inside three or four has room for opening, missing, closure and completion, and
`MaxCount = 1` is enough because the code compares the counters it bounds only with zero. The
workers and the observing processes are symmetric.

For the dispatcher, two processes make every race of check and record; two credits let the cap be
reached and exceeded, and let a retry compete for the last one. Four slots with batches of two
hold the four plans: a normal lookback, a gap of two batches, a gap taken for closure (slots 1 to
4) and a batch that is partly closed. The proofs cover any number of processes, credits and slots.

`parts`, `pipeline_liveness`, `phase8_gate` and `dispatch_credits` check parts that share no state as
a disjoint union: a behaviour is one part's, chosen at the start, while the others stay in an initial
state. An invariant or action property is checked in its own part. The fairness of `parts` is the
live view's and that of `pipeline_liveness` the pipeline's and the watchdog's: behaviours of another
part are not fair to them, so `Resubscribes` speaks of the live view, `QueuedCandleIsDecided` of the
pipeline and `MissedIsFlagged` of the gate alone. The type invariants of joined modules are stated
in each and left out of the runs' lists, where the theorems of types take their place.

For the backfill, pages of two bars make every window take more than one page, two ends of windows
make one run's rows the next one's hole, and a history with a bar missing keeps "whole" from being
"consecutive". For the audit, three bars hold a gap between two rows, and a write between any two of
its queries. For the backtests, two tasks race for one key with and without a bar stored between
their loads, and the seven requests take each refusal. For the snapshot, the event lies between the
closes and is cancelled after it was due, and the artifacts are no profile, two names, and a
tampered one.

Bounds of `parts`. *Live view:* 3 quotes (two numbered, one not; one inside the entry zone, one at
the stop) of which at most 2 with decisions arrive, 2 decisions (the second on the other side and
with an unhealthy feed), 2 disturbances, clock up to 2, 1 attempt: two events overtake one another,
a rebuild meets a decision, a page drops, fails and gives up. *Signal engine:* four markets (long,
its mirror image, dull, torn) with one input changed at a time, over each branch of each rule, and
every change of a feed. *Trade replay:* 8 setups, 36 tapes of 3 bars of 4 minutes, among them bars
that touch both barriers in both orders and with lower candles missing, 2 trades, 2 ends, 2
configurations of 2 folds. *Macro evidence:* 3 periods, 7 days, 3 families (prices and jobs with the
lapse, rate decisions), a postponed and an unlisted release, 3 sets of left-over rows, a source of each kind that
may answer with a client error. *Friction:* one activation needs a start and a later commit; the third moment is one after it.
*Candidate score:* every list of up to 4 of 10 trades in the order of time, 2 folds that overlap, 3
baselines. *Campaign:* 2 candidates, at most 1 row in each table (the governed number), 2 changes of
the surroundings, 3 policies (another revision; a narrower window), 4 codes (another evaluation;
another way of building snapshots, announced or not); at the start the first revision is deployed with
either window, and the changes lead to the others.

`CHECK_DEADLOCK FALSE`: with a bounded number of candles, faults and slots each model really
comes to a stop.

### What the passing runs show

* `ProjectionIsDurable`, `AlertAtMostOnce`: whichever of two tasks, a retry and a reconstruction
  writes last, the row shows a committed decision and that decision's plan; an alert goes to the
  channels at most once.
* `EvaluationsBounded`: a candle is projected at most once per worker, since only tasks that
  passed the guards before the first signal row was committed go on.
* `StrandedOnlyByFaults`: a candle whose signal is saved but which is never projected costs one
  fault each. This is the price of the guard: the retry finds the signal of the attempt that
  failed and stops. `CompleteWhenQuiet`: without faults every ingested candle is decided,
  projected and handed on.
* `ImplementsLedger`: the pipeline is a refinement of `DecisionLedger`.
* `QueuedCandleIsDecided`: with as many retries as failing statements, a queued candle gets a
  signal, or a process was killed.
* `CompleteIsConsistent`, `CountsAreBacked`, `MissedIsFlagged`: mixed reads and whole-row saves
  do lose updates, but never put COMPLETE beside counters that deny it, never count more
  observations than there are records, and never keep the watchdog from interrupting the phase
  for a stored candle that stays unobserved.
* `PointsAreAuthorised`, `NoTradeOnOldEvidence`: although snapshots outlive the attempt that stored
  them and artifacts are exchanged, points come from a complete frozen profile of the decision's own
  name and from outside its blackout; a decision that does not wait stands on a snapshot of its own
  close and on a schedule that covers it.
* `OvershootBounded`: processes that check the cap together exceed it, but never by more than the
  other processes, and the bound is reached; a lost key or the `set` of a process that found no
  key makes the ledger forget credits, and then no bound holds (`forgotten`).
* `NoSilentHole`: whichever batches run at once, and although a batch that fails the integrity
  check is stored, no market-open candle before the latest one is missing unless the plan took it
  for closure or the provider left it out.
* `FilledIsWhole`: a frame that the backfill calls complete has every bar the provider offers of its
  window, however runs were killed, resumed and overtaken by live ingestion, under the two conditions
  the property names: one end for all runs, past, and no hole of live ingestion. Without the first, a
  resumed run is answered ALREADY_COVERED over a hole (see below). `CreditsRespected`: it leaves the
  reserve alone, but for what others used since its last look.
* `ManifestIsTrue`: the pass over the rows counts what the list would have given and what is missing;
  a manifest whose candles are ready fingerprints rows that reach across the window and hold what
  was read, although each was read in a query of its own.
* `CompletedRunsStand`, `ReplyMatchesRow`, `ResearchIsIsolated`: completed rows stay; the figures a
  task replies are those of the row it names, be it another task's; none has seen a bar outside the
  research partition.
* `ZoneAgrees`, `IncidentAlertedOnce`, `ZoneAlertIsBacked`: of the two writers of one row neither
  leaves a zone of the other's quote or plan behind (a rebuild does, and the property says so); an
  incident of stale quotes alerts once whatever decisions come between; a zone alert stands on a
  recorded usable plan and a fresh quote at its level.
* `ConvergesWhenQuiet`, `Resubscribes`: a subscribed page with nothing to come shows the newest of
  everything it has not provably missed. A page that lost its socket is not left waiting: while
  disturbances stay finite it comes to a running listener, to an open socket without one, to the
  end of its attempts in an open market, or to a constructor that threw. That it gets a subscription
  is *not* said, for the code does not see to it.
* `NoSideIsFavoured`, `FutureIsInvisible`: the two copies of every score and the matrix of sixteen
  pairs are mirror images; later candles change nothing, forming ones included.
* `PlanIsTradeable`: an opened position lies between its barriers with its whole zone, and nothing
  stands in the way of its first target.
* `NeverOptimistic`: when the simulator says the target came first, the price path went there first.
* `LabelsOwnTheirPast`: what a fold learns from is what a run that had ended at its boundary would
  have said.
* `NoLookahead`, `ToldStays`, `CoveredIsForeseen`, `RerunHeals`: no replay shows a figure early; what
  a replay of a day has shown, later replays of that day show; where the report says complete, each
  release is foreseen on every day from its announcement on; a run completes what earlier runs left.
* `AnswersStand`: the model of a past moment changes only inside the window between the start of the
  script and its commit. `UnconfiguredHasCause`: a sealed model the gate refuses was sealed before
  the legal review, met a later claim about its archive, or a second script that had started before
  the first was committed; two operators at once can thus leave an active model that never passes.
* `SidesAreCountedAlike`, `CompositeFallsShortOfBaseline`: the two scripts compute the same figures of
  a side although one filters before and one after the folds are assigned; what the composite script
  lets through and the calibration would not differs from it in two named respects only.
* `ResumeIsFaithful`, `LedgerKeeps`: as long as only what provenance names has changed, a run that
  took judgements and snapshots from files locks what a run from nothing would; a run that is killed
  loses no judgement, and none is replaced by anything but a judgement of the current provenance.

### What the violated properties show

* `AtMostOneEvaluation` (`apps/live_monitor/services.py:440`): the queued task and the one
  catch-up sends for the same candle both pass the guards and both project it; the decision
  sequence advances twice.
* `FailureForbidsComplete` (`engine/paper/continuity.py:124-125`): an observation reads the row,
  `record_interruption` counts a failure and saves, the observation saves the row it read, and
  the failure is gone. The phase completes.
* `CompleteCoversWindow` (`engine/paper/continuity.py:130`): the number of expected cycles is
  raised to the observed ones and by nothing else, and the watchdog looks at stored candles
  only; a candle that was never stored is not missed.

* `NoRequestAcrossClosure` (`apps/market_data/scheduler.py:633`): a weekend counts as closure only
  if the candle that is due closes by Monday 03:59. A worker down from Friday's close until later
  plans batches from Friday's close on. With 20 candles of 15 minutes the first batch is wholly
  inside the closure, the provider has nothing for it, the recovery ends, and the next dispatch
  plans the same batch: the candles after the weekend are not reached.
* `SuppressedNotRequested` (`apps/market_data/scheduler.py:246`): attempts and suppression are
  recorded for the end of the failed batch, but looked up for the newest close. The first batch
  of a longer gap is requested however often it failed. Also, a request and its failed retry count
  as one attempt, so that suppression comes after four requests and not two.

* `BlackoutSurvivesRetry` (`engine/cycles/events.py:21-22`): the first attempt at a close has no stored
  snapshot and asks the calendar with the default windows; it stores a snapshot computed with the
  profile's windows, of which a champion without a cycle profile has none. The next attempt takes the
  stored snapshot's word and does not wait.
* `AmbiguityIsReplayed` (`docs/phases/PHASE_6_BACKTEST_VALIDATION.md:90`): the resolver wants the
  first lower candle to open no later than the fill, and is handed those of the parent bar. In every
  bar after the one the position was filled in, a complete set of 1m candles is refused and a bar
  that touches both barriers is a stop, although its candles show that the target came first.

### Behaviour named but not stated as a property

*Decisions.* Catch-up sends the newest candle first and `CommitDecision` overwrites
unconditionally, so the monitor may show an older candle than it did; a reconstruction does not
advance `decision_sequence`; an alert stays PENDING if its worker dies before the result is saved,
and a FAILED one is never retried. The outcome of a paper trade is recorded once, before there is
evidence for it (`paper_service.py:208`).

*Dispatch.* A plan that takes a gap for closure may skip market-open candles just after the
reopening (`skipped`), and the result still says `data_continuity_ready`. A retry that succeeds does
not count against the daily retry cap (`scheduler.py:221`). A process whose own circuit expires does
not look at the shared one in that call, so it may probe while another process keeps it open
(`scheduler.py:274`). Ingestion's health probe counts no credit (`tasks.py:218`).

*Cycle snapshot.* A built candidate declares a fingerprint that the resolver's digest never equals, and
nothing in the repository produces a frozen profile, so that the deployment always decides without
points of the cycle. A stored snapshot is used under another artifact whose profile has the same
name; version and content are not compared. Had the analysis raised, the decision would rest on an
older snapshot. `sample_guard` returns the raw count as the effective one when it is below 30, while
`statistical_significance.py` begins with "NEVER raw sample count".

*Backfill.* A run killed between two pages and resumed for a later end pages on from the earliest
row, and ends COMPLETED or ALREADY_COVERED over the hole between; so does one over rows of live
ingestion. It writes a suspect row over with quality OK, and stores bars of a closed market.

*Audit.* Coverage looks at the ends of a frame, not between. `readiness.py:6` says that it fails closed
on suspect data; it never reads `data_quality_flag`. The fingerprint falls back to a digest of the
number of rows on any exception. The dispatcher asks for the newest row of any source
(`tasks.py:711`), so that rows of another source hide missing primary ones from it. Quotes are counted only when
friction is configured.

*Backtest tasks.* The XAUT task loads bars of every instrument and never verifies the identity it is
given; the check for an empty dataset cannot be reached. `MARKET_AFTER_SIGNAL` always ends
EVIDENCE_NOT_CONFIGURED, since nothing loads quotes. The status of a risk profile is not checked when
it is given as a dictionary, and an artifact's own status replaces that of a profile which states
none. FAILED rows are keyed by 16 digits of the dataset and 8 of the revision: they overwrite one
another and stay after a later success; of two tasks that race, the loser leaves one beside the
COMPLETED row. A kill, and an error before the replay, leave no row; `max_retries=1` and nothing
retries.

*Live view.* A provider that restarts its numbering has its quotes ignored (`services.py:161`); a
feed that falls silent never turns stale (`services.py:128`: staleness is computed when a quote
comes); a rebuild leaves the zone of the plan before (`services.py:2060`); a consumer whose Redis
listener ends never starts another (`consumers.py:360`), so that a page on an open socket may stay
without events for ever and show LIVE; after a constructor that threw the pill stays RECONNECTING and
no retry comes (`dashboard.js:205-212`), which `PillIsTrue` excepts by name. The older page (`static/js/dashboard.js:208`)
discards a plan update because the signal update before it stored the same sequence number.

*Research.* A bar before the fill is evaluated when latency is positive (`xauusd_outcomes.py:352`); a
stop that is gapped through exits at the stop's price (`xauusd_intrabar.py:239`); `LIMIT_TOUCH` is no
member of `EntryExecutionPolicy` (`xauusd_outcomes.py:249`); the flag of the second target reads
beyond the window a trade is said to depend on (`xauusd_outcomes.py:433`), which is why
`LabelsOwnTheirPast` leaves it out.

*Macro.* A figure asked for before its release is stored as N/A for good, replayed as released and
counted as covered (`ingestion.py:884`). A calendar page fetched before a postponement is never
fetched again; one fetched after it dates the knowledge of the new day to the release before. Two
operators with different pages may leave a row that stops every later run, as (event, period,
known_at) is unique.

*Friction.* `resolution.py:13` says that activations never leak backward; the window in
`AnswersStand` is where one does, for as long as the script's transaction lasts. A run that seals a
version before the review passes fails its own closing assertion in every later run. The audit of
the parity compares the model's id with a default of the same value, so it does not notice.

*Calibration.* `compute_dataset_hash` hashes the numbers of rows and the first and last times.
Rewritten prices, or schedules collected later, keep every entry of the candidate ledger valid,
although `engine/backtest/xauusd_candidate_ledger.py:8` says that "Persistence does not alter
evaluation or ranking logic"; `drifted` stands for these cases in `ResumeIsFaithful`. The composite
script promises "the complete original dual-side requirements"
(`run_xauusd_directional_composite_calibration.py:176`) and leaves out the ceiling relative to
candidate 0. The out-of-sample cache is keyed by the policy alone, a torn one ends every later run,
and nothing across runs keeps an evaluation that is to happen "strictly ONCE" from happening again.
Artifact and lock record the dataset fingerprint the manifest expects, not the one that was loaded.

## Fairness

`DecisionPipeline`: weak fairness of each worker's next step and of the observation task. The
deployment keeps the pool running (`restart: unless-stopped` in the compose files), a worker
that has started a task goes on, and a free worker takes a waiting message. No fairness is
assumed of ingestion, catch-up, reconstruction, late rows or faults.

`Phase8Gate`: weak fairness of the clock, of the end of a started transaction (the 30-minute
time limit, `config/settings/base.py`) and of the watchdog's steps (Celery beat every five
minutes). None of observations or candles.

`LiveView`: weak fairness of what a worker has begun (`ProjectDecision`, `RebuildWrite`), of the
page's timer (`Retry`), of the clock, and of the *end* of an attempt to connect, of reading a
snapshot, of starting a listener and of a publication, each well or badly: the fairness is on the
disjunction of the outcomes, and no step is fair to succeed. None of quotes, new decisions, or an end
to disturbances but their bound: `Drop`, `Fail`, `Throw` and `ListenerEnds` may come at any time, and
there are finitely many of them. That bound matters: behind a closure the page retries without end,
and were every attempt to fail it would never come to rest.

All other modules: none; their properties are safety. For the unions see *Runs*.

## Proofs

The eight proof modules hold for every value of the constants under the assumptions the modules
name: candles are naturals, workers and candles are finite sets, `Candidate` is a function into
the three outcomes, `None` is not a fingerprint; times and bounds are naturals; the set of
processes is finite and not empty, the cap and the batch sizes are positive, and no candle of a
closure lies after the reopening; quotes, decisions, evidences, families and left-over rows are of
the shapes the modules give; weights sum to 100 and thresholds do not decrease, as the policies'
constructors demand; `None`, `Missing`, `Unset`, `Unproved` and `Unsealed` are not values.

| Module of the proofs | Theorems |
|---|---|
| `DecisionPipeline_proofs` | `TypeCorrect`, `TasksSafe`, `ProjectionSafe`, `AlertSafe`, `AlertBacked`, `HistorySafe`, `EvaluationSafe`, `OnlyFaultsStrand`, `QuietIsComplete`, `LedgerImplemented` |
| `DecisionGates_proofs` | `TypeCorrect`, `CompleteSafe`, `CountsSafe`; `CyclePointsNeedAuthority`, `FreshEvidenceOnly` |
| `DataOperations_proofs` | `TypeCorrect`, `CreditsBounded`, `RecoveryCovers`; `ReserveIsLeft`, `CompletedHasNoHole`; `ManifestsAreTrue`; `RepliesMatch`, `ResearchKeepsOut`, `RunsStand` |
| `LiveView_proofs` | `TypeCorrect`, `ZoneFollows`, `OneAlertAnIncident`, `AlertsAreBacked`, `PillTells`, `GivesUpOnlyOnFailures`, `QuietPagesConverge` |
| `ResearchChain_proofs` | `FavoursNoSide`, `HealthNeverTurns`, `FutureUnseen`; `PlansAreTradeable`, `TargetsAreTrue`, `LabelsAreOwned`; `SidesAreOne`, `CompositeGivesUpLittle`, `DrawdownsAreDeepest` |
| `MacroEvidence_proofs` | `MacroTyped`, `NothingSeenEarly`, `CompleteIsForeseen`, `RunsHeal`, `WhatIsToldStays` |
| `FrictionLedger_proofs` | `FrictionTyped`, `AnswersStandAlways`, `CausesAreKnown` |
| `CalibrationCampaign_proofs` | `CampaignTyped`, `LedgerKept`, `ResumeFaithful` |

*DecisionPipeline.* The inductive invariant is `Consistent`: the types, `TaskIsConsistent` and
`RowsAreConsistent`. The visible properties are not inductive alone. The projection is durable
after `CommitDecision` only if the task's own fingerprint is recorded and planned by then, which
is a fact about the task (`ConsistentTask`), and after `ReconstructWrite` only if what was read
before the lock is still committed (`ReadsAreDurable`, with plans and signals only growing).
`AlertAtMostOnce` needs that an owed alert is PENDING, unsent and owed by one task only.
`HistorySafe` and `LedgerImplemented` follow from the same invariant, one step at a time: six
kinds of step change what the ledger sees, all others stutter. `EvaluationSafe` adds to it that
evaluations done plus tasks still able to evaluate never exceed the workers once there is a
signal; the lemmas on cardinality say how a step moves a worker in or out of that set.

For `OnlyFaultsStrand` a step strands at most the candle its worker was about, and only if a
statement raised or the worker died; every other step leaves the set of stranded candles or shrinks
it. `QuietIsComplete` needs to know where each candle is on its way (`Progress`, as long as nothing
failed): an ingested one is queued, in a task or decided; a decided one is projected and handed on, or
a task still will; a window decision has its plan, or a task is about to save it. `OpenMarket` keeps
closure candles out of all tasks.

*Phase8Gate* (`DecisionGates_proofs`). The invariant is `Typed` and `Earned`: not only the row earns
its COMPLETE, but so does the copy in the hands of every observation, because a duplicate saves its
copy with the status it read; all other saves compute the status anew or take COMPLETE away. The age
part holds since time only grows. `Backed` says of every copy that its counters do not exceed the
committed records, that only an observation whose record is new counts it, and that no two
processes create the same record.

*CycleSnapshot* (`DecisionGates_proofs`). `SnapshotInv` is about what is stored, what workers hold and
what was decided: a score is above zero only from a complete profile and outside its blackout
(`Honest`), a stored snapshot is of its close, which was covered when it was computed (`OfItsClose`)
and stays so, as schedules are only added, and a worker that may answer without waiting has the
snapshot of its close or is about to compute it (`WellHeld`). Both theorems are parts of it.

*CandleDispatch* (`DataOperations_proofs`). `TypeCorrect` carries `BatchInPlace`: a batch in flight
begins before its target and ends within the day. For `CreditsBounded` the invariant is `Budget`: as long as nothing was
forgotten, the shared count plus the processes that have passed the check and not recorded yet is
below the cap plus the number of processes, and the requests made or in flight are covered by the
count; while the key is unknown, a process's own count is 1 if it is about to set the key and 0
otherwise. For `RecoveryCovers` it is `Coverage`: everything up to where a batch begins is stored
or accounted for, and everything up to its end once it succeeded. That is what lets a process go
on to its next batch, and it survives other processes because the table only grows.

*CandleHistory* (`DataOperations_proofs`). `ReserveIsLeft` rests on `CreditsKept`: usage and what is
left of the budget never exceed the credits without the reserve and what others used since the run
began; and after a look, the attempts since it are the remainder of the attempts by the interval, so
that usage stays below the same bound with what was used since. `CompletedHasNoHole` rests on
`HistoryWhole` (the rows of a frame that only runs with one end have written have no hole before that
end) and `PagesWhole` (a run has all rows from the end of its next page on, and the page in its hands
has no hole). The second says why an exclusive end is safe: the next page ends where the earliest row
begins, and is asked for inclusively.

*ReadinessAudit* (`DataOperations_proofs`). `ManifestsAreTrue` has two halves. `FingerprintsCover` is from
`AuditInv`: what an audit has read of a frame is still there, and once the identity is read, that of
the analysed frame lies between what was read and what is stored. `CountsAreTrue` says what a fold
computes of any set of rows, which takes an induction over the rows. The library's induction theorems
take the claim as an operator argument and cannot be used here, but the fact below them can: inclusion
is well-founded on finite sets (`SmallestSet`), so that a set of rows of which the claim is false has a
smallest one inside it, and its last row leads to a contradiction. `FoldsExist` shows that way that both
recursive functions satisfy their equations, `PassedTallies` what the pass has counted up to some row
(`Tally`), `AddedCounts` that the sum over the list is the number of bars missing between its rows.
The attempt to prove the first half showed a fault of an earlier version of `Decision`: it was a CASE, whose arms
TLC tries in order and the language does not, where the code's refusals have an order. They are
nested now.

*BacktestRuns* (`DataOperations_proofs`). `RunsInv`: an XAUUSD task was asked for an approved window and has
read nothing outside it (`JobSound`); once it has verified the identity, what it read is what its
caller named (`JobVerified`); a completed row has the result its key determines and holds no bar of
another partition (`RowSound`); a task that replied names a row that is there (`ReplyBacked`).
The identity check is what makes `RepliesMatch` true: two tasks of one key that pass it have read the
same bars.

*LiveView.* `TypeCorrect`, `ZoneFollows`, `OneAlertAnIncident`, `AlertsAreBacked`, `PillTells`,
`GivesUpOnlyOnFailures`, `QuietPagesConverge`. `Shaped` adds to the types that no sequence
in the outbox is empty and that a page has not failed more often than there were troubles. The
incident needs `IncidentOpen`: an incident that raised its alert is open in the row, so an alert is
raised only when it was not, and what a decision or a rebuild writes keeps it open. `Counted` relates
the page's phase to its attempts and failures, for the pill and for giving up. A snapshot that fails
counts as a quote lost. Convergence needs
`Announced` and `Told`: nothing published or waiting in the outbox is newer than the newest event of
its kind, and the newest is published or still waits; and unless the page lost track of a kind, it
shows what was published last (a snapshot may be ahead of the publications).

*Selection* (`ResearchChain_proofs`). `Having` enumerates the positions it keeps by their rank: ranks
rise, every rank up to the number of positions is taken, and a list in which each position has its
rank is the only one (`ListIsOne`). From these: what it returns is a sequence of what satisfies the
condition (`HavingSeq`), filtering twice is filtering once (`HavingTwice`), and elements that do not
satisfy it do not matter (`HavingOnly`). The proofs count with finite sets and need no induction over
the sequence.

*SignalEngine* (`ResearchChain_proofs`). `FavoursNoSide` is proved from one mirror lemma for each
component of both scores, and then for the tiers and the matrix; no state but the evidence's type is
needed. `HealthNeverTurns` needs `Judged`: the last snapshot was held back, or is what the evidence at
hand gives when no hard gate blocks it. `FutureUnseen` says that the visible candles of a series and
of the series without its later candles are one list (`KnownCandles`), whence every operator
that reads candles gives the same (`CandlesUnread`, `FutureUnread`).

*RiskPlanner and TradeReplay* (`ResearchChain_proofs`). `ReplayInv` says that every trade is
`Trade(tape, close, setup, runEnd)`, for a close and a setup; the rest is about that operator. The
entry zone and the targets are first by a key, and a first one exists among finitely many zones
(`FirstExists`), so `LongTradeable` and `ShortTradeable` give the order of stop, zone and target,
and `PlansAreTradeable` adds the entry. For `TargetsAreTrue`, the bars a position is held in are found
(`EndedIs`, `EarlierHeld`), a bar's touch is that of a price of its path (`TouchIs`, `BarTouch`), and a
replay of lower candles that says target has a candle whose prices touch it and none before
that touches the stop (`ReplayedIsTrue`); `TargetWasFirst` puts them together for every branch of the
resolver. For `LabelsAreOwned`, a run that ends earlier sees the same bars up to its end
(`CutBars`), enters and settles alike what is settled by then (`CutEntry`, `CutHeld`, `CutTrade`), and
what a purged segment keeps is settled by its end (`KeptStands`, `WindowsEnd`). The lemmas on
division (`Quotient`) place a minute in its bar.

*CandidateScore* (`ResearchChain_proofs`). `ScoreInv` says that scores are those of the replay. With
it `SidesAreOne` is `HavingTwice` in both orders: choosing a side of the fold's trades is choosing
the fold of the side's trades. `CompositeGivesUpLittle` compares the two lists of requirements.
`DrawdownsAreDeepest` is an induction over the trades, by least counterexample: the function that
takes the running sums is one that recurs (`FallingIs`), the account's is another, and after each
trade the sum, the peak and the worst fall of the one are those of the other (`RightAfter`).

*MacroEvidence.* `MacroTyped`, `NothingSeenEarly`, `CompleteIsForeseen`, `RunsHeal`,
`WhatIsToldStays`, from `Sound`: the types; every vintage is an old one, this version's own, or
the cancellation of the lapse (`Origins`); the bodies fetched say nothing too early (`Kept`); an
observation rests on a row of its announcement and is dated like it, or by the lapse (`Founded`);
where the command stands, so that a step continues what the step before it found (`Standing`).
`RerunHeals` is part of it, since the report may call complete only what a run has been through.

*FrictionLedger.* `FrictionTyped`, `AnswersStandAlways`, `CausesAreKnown`, from `Recorded`: starts and
commits are ordered (`Clocked`), all attestations of the archive carry the moment of its one capture
(`CapturedOnce`), only scripts claim a held role, each under its own start (`Claimed`),
nothing is active before a version is sealed (`BeforeSealing`), and a reviewed version was born
with an activation whose script signed every role of its fingerprint (`Born`): either the newest
claims are still that script's (`Fresh`), or the newest claim of the legal entity is that of another
run, which had started by the commit (`Late`).

*CalibrationCampaign.* `CampaignTyped`, `LedgerKept`, `ResumeFaithful`, from `CampaignClean`: unless
something has drifted, code and policy name one another (`SurroundingsClean`), every file of
snapshots and every ledger entry is what its key says it is (`FilesClean`, `LedgerClean`), and so is
what the run has loaded, taken or judged so far (`RunClean`).

What the assumptions on constants are. Beside bounds and types: the plan's setups are of the shapes
`SetupSet` gives, with finitely many zones in a structure; a tape is a sequence of bars; replays are
sequences of trades; a walk-forward configuration has parts that sum to 100; the calibration policy's
instants are in order, and its windows are not empty; `Absent` and `Unset` are no values.
Each is an ASSUME of the module that declares the constant, and TLC evaluates it in every run.

## Only model-checked

* Liveness is beyond the proof system used: `QueuedCandleIsDecided`, `MissedIsFlagged`, `Resubscribes`.
* The arithmetic of `CandidateScore` is examined no further than that both scripts share it, the
  drawdown apart: means, roots and shares are functions of the list to the theorems.

Every other property of a passing run is a theorem. Some are the other way round, proved and in no
run: `TaskIsConsistent` (`TasksSafe`), `AlertIsBacked` (`AlertBacked`), `HistoryIsImmutable`
(`HistorySafe`), `HealthOnlyHoldsBack` (`HealthNeverTurns`), the page's `PillIsTrue` and `GivesUpLate`
(`PillTells`, `GivesUpOnlyOnFailures`), `DrawdownIsDeepestFall` (`DrawdownsAreDeepest`), and the types.

## Not modelled

The numeric engines (features, structure, regime) have no state: what they compute enters
`SignalEngine` as evidence, and a close's regime and swings enter `CycleSnapshot` as constants. Parsers
and statistics of the friction artifacts, MT5 export receipts, event identities and fingerprints of
the macro half are conversions whose protocol, not content, is in the models. Of readiness, how macro
evidence and quotes are judged is left out. Cycle evidence replay is a single pass over frozen files;
so are the out-of-sample confirmation and the composite script, whose gates are in `CandidateScore`
and whose files are named above. HTTP clients, permissions, rendering and reference data have no
protocol to check. The legacy
`LiveDecisionPipelineService` and the older dashboard page are not on the deployed XAUUSD path.

## What is left

1. The order of the readiness ladder over macro evidence, friction and quotes, with the age of each report.
2. The offline cycle evidence chain (`engine/cycles/evidence_replay.py` and its scripts), which would
   calibrate a profile, as the campaign does for policies.
3. Proofs that `OperationsSpec` and the other unions implement their parts: today a union is checked
   by TLC and each part proved on its own.
