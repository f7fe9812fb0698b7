# Formal verification of web-predict-stock

This directory holds TLA+ models of the parts of web-predict-stock whose
correctness depends on the order in which processes, threads and the database
do things, the TLC configurations that check them on small instances, and the
TLAPS proofs of their main invariants for instances of any size. Source paths
below are relative to the repository; `src/` in `PROJECT.json` is its root.

## 1. The system

A research workbench for Taiwan daily equity data. A FastAPI server
(`backend/main.py`, `backend/app`) serves synchronous endpoints, each call on a
thread of its own; scripts under `scripts/` are run by hand or by cron in
processes of their own and call the same service functions. Everything meets in
one TimescaleDB. Nothing else coordinates the parts: there is no queue, no
lease and, but for two semaphores in the server's memory (calibration and
method selection), no lock. Every
repository function opens its own session and commits once, so **one repository
call is one atomic step and anything may run between two of them**. All of them
call `session.refresh` after `session.commit` inside the same `try`, so a
failure that is reported may have been committed.

### Inventory

| Component | State it keeps | Operations | What makes it correct | Status |
|---|---|---|---|---|
| Research run lifecycle (`research/services/runs.py`, `registry.py`, `repositories/runs.py`) | `research_runs` rows, one per run id | `create_research_run` with its three `except` branches; `record_started / success / rejection / failure / unexpected_failure` | the registry agrees with what the caller was told; a started run settles; settled evidence is final | modelled |
| Strict prospective cohorts (`research/services/prospective.py`, `policies/prospective.py`, two scripts) | none of its own: reads runs, market dates, the active universe | preflight, start validation, freeze, evaluation | what counts as evidence was computed and frozen on its basis date; one valid run per slot; a retry keeps the frozen timestamp | partly (not the outcome metrics) |
| HTTP error layer (`app/application.py`, `platform/http`) | none | writes `validation_failed` rows; the catch-all handler records a failure | a failed request does not leave a succeeded run | partly |
| Research execution (`execution.py`, `_foundation_flow.py`) | factor rows, usability observations, peer runs, orders, exclusions | `execute_research_run`: context, profiles, frames and splits, fits, backtest, validation, outputs | no model is tested on labels it was fitted on; a strict opinion is on an unlabelled row; a succeeded run has every output once | partly (no scores) |
| Raw ingestion and payload replay (`ingestion_runtime.py`, `replay.py`, `repositories/raw_ingest.py`) | `raw_ingest_audit`, `daily_ohlcv`, `normalized_replay_runs` | `ingest_symbol`, `replay_raw_payload` | an official row is not replaced by a fallback; what succeeded can be replayed | partly |
| Scheduled ingestion (`scheduled_ingestion.py`) | `scheduled_ingestion_runs`, `..._attempts` | `dispatch_due_scheduled_ingestions` | attempts and runs agree; the ceiling holds; a success is final | modelled |
| Recovery drills (`recovery.py`) | `recovery_drills` | manual drill, `dispatch_due_recovery_drills` | a drill marked succeeded restored its payload; failed slots are drilled again | modelled |
| Company profiles (`company_crawlers.py`, `company_profiles.py`) | `tw_company_profiles` | crawl, upsert, reconcile | only attested symbols are active; a truncated feed does not empty the universe | modelled |
| Market batch crawl (`ingest_tw_market_batch`, `scripts/crawl_tw_daily_batch.py`) | `daily_ohlcv`; the script's aggregate | per date: refresh, resolve, fetch twice, load | fail closed: a date filed as done has no hole | partly (no TLS repair) |
| Daily bar readiness (`readiness.py`) | none | coverage of symbols over a range | ready means complete | partly |
| Tick archive and governance (`tick_*.py`) | `tick_archive_runs`, `..._objects`, `tick_restore_runs`, `tick_observations`, archive files | dispatch with compensation, import, replay, benchmark windows, phase gate | what was reported as archived stays whole; a failed dispatch is taken back; a gate that passed stands for a restored archive | partly (not the ratios of the KPI summary) |
| Calibration matrices (`calibration.py`) | `calibration_matrices`, a semaphore | create, read | one at a time, always released; a gate is blind to what it judges; every cell has one result | modelled |
| Method selection matrices (`method_selection.py`) | `method_selection_matrices`, a semaphore, promoted runs | create, read | one at a time, always released; choices are blind to their holdouts; the final holdout is run once; runs and matrix are stored together | modelled |
| Capability gates, governance, KPIs (`capability_gates.py`, `governance.py`, `micro_kpis.py`, `market_data/services/ops.py`) | none | rules over counts and ratios | no gate passes on no evidence | not modelled |
| Run projection and opinion artifact (`run_projection.py`, `domain/opinion.py`) | none | stored run to response | completeness is derived, not invented | not modelled |
| Watchlist, benchmark profiles | one keyed row each | upsert | last writer wins | not modelled: the set of symbols of the models |
| Lifecycle records, important events (`official_crawlers.py`) | append-only tables | parse and append | parsing | not modelled |
| Pooled model, features, backtest (`shared/analytics`) | none | rows, windows, labels, splits, folds, fits | labels settle before what they are tested on begins | partly (which rows and dates, not values) |
| Tradability (`tradability.py`) | microstructure observations | numerical | - | not modelled |
| Signals (`signals/`) | factor catalogs, cluster snapshots, factor rows, peer runs, external signals | single-transaction writes | uniqueness | partly (what a run reads and writes) |
| Execution boundary (`execution/`) | orders, events, kill switch | dispatch of a run's signals; endpoints that no application mounts | all orders of a run are decided by one reading of the switch | partly |
| Adaptive stubs (`adaptive/`) | profiles, exclusions | constant answers | an adaptive run is excluded from the default surfaces | partly |
| Database platform, migrations | the schema | sessions | unique constraints are guards of the models | partly |
| System endpoints, protobuf guard, frontend | none the server reads back | - | - | not modelled |

### Interactions

- The universe (`tw_company_profiles`) is written by company crawls and read by
  the cohort preflight, by the start check of a strict run, and by every date
  of a batch ingestion.
- The raw audit is written by every crawler and read by replays and drills.
- Bars are written by per-symbol ingestion, batch ingestion and replays, and
  read by research inputs, matrices and readiness.
- A research run reads factor catalogs, cluster snapshots and the kill switch in
  sessions of their own, between which other requests may write them, and
  leaves five kinds of rows behind before it succeeds.
- A tick replay and the phase gate read what a dispatch may be taking back.
- A run row is written up to four times by one call (started, success, outcome,
  catch-all handler), and by a script's retry under the same derived id.

### The hard behaviours

Overlapping calls with a check and a write in different sessions; a commit
reported as a failure; compensation and best-effort records after a failure;
retries that overwrite the row of the attempt before; midnight between the
computation, the freeze and the write; a killed process; two providers of which
one fails or declares no data; a universe that changes under a batch;
files and a mirror that no transaction spans; and, in the research code, time
itself: a label, a feature window, a purge and a holdout are measured on three
different axes (market dates, observed rows, model-ready rows), and an
off-by-one between them leaks the future without failing anything.
`PROJECT.json` lists each as a hazard at the line where it bites, with the
properties that would catch it.

## 2. Modules

    ResearchRun ------ INSTANCE ---> EvidenceLedger        (refinement)
      MCResearchRun, ResearchRun_proofs

    RawIngest <- ScheduledIngestion \
              <- RecoveryDrill       >- DataPlane          (composition)
      MCDataPlane, DataPlane_proofs

    CompanyUniverse <- MarketBatch                         (composition)
      MCMarketBatch, MarketBatch_proofs

    MarketFolds <- PooledDataset <- MethodSelection \
                                 <- Calibration      >- MCMatrices
      MarketFolds_proofs <- MethodSelection_proofs, Calibration_proofs

    WalkForward <- RunExecution
      MCRunExecution; MarketFolds_proofs <- RunExecution_proofs

    TickArchive <- TickGovernance
      MCTickArchive; MarketFolds_proofs <- TickArchive_proofs

### ResearchRun

State: the `research_runs` table (`rows`), the uuids already drawn, the active
universe, the clock, and per worker the stage, the call, the forward signals,
the timestamp it is about to persist, the `except` branch it is in and its last
answer. A row is reduced to what a reader decides on: status, slot, coverage,
freeze time, computation time and completeness of its signals.

Workers are *scripts* (`run_tw_prospective_cohorts`, which derive the run id
from the slot) and API *threads* (which draw a fresh id). One action per
session or computation: `ScriptInvoke`, `ScriptPreflight`, `Post`,
`PostMalformed`, `CheckUniverse`, `CheckDuplicate`, `RecordStarted`, `Execute`,
`Freeze`, `RecordSuccess`, `RecordOutcome`, `HandleUnexpected`. Each storage
action has a failing alternative on either side of its commit. The environment
is `Tick`, `UniverseChanges`, `CrashScript`, `CrashServer` (the server takes all
its threads down).

`EvidenceLedger` is the abstract promise: a slot receives evidence at most once,
computed and frozen on its basis date, and never loses it. `ImplementsLedger`
maps the registry to it: the evidence of a slot is its single valid run once
the call that wrote it is over. One step may show the evidence of several
slots: when the server is killed, all its calls end at once.

### RawIngest, ScheduledIngestion, RecoveryDrill, DataPlane

`RawIngest` has what the two share: the audit (per symbol, the kinds of payload
recorded as fetched and the latest one), the source of the latest bar, and the
bound on faults. `ScheduledIngestion` has a dispatcher per process or thread:
`Dispatch`, `Look` (one turn of the loop), the pipeline `Backfill`,
`LoadBackfill`, `Daily`, `LoadDaily`, `Minutes`, then `SaveRun`, `SaveAttempt`,
`Reload`, and `DispatcherDies`. An exception in the pipeline fails the attempt;
one in the run and attempt tables leaves the dispatch. `RecoveryDrill` has
dispatchers (`DispatchDrills`, `NextSlot`, `Resolve`, `FileMissing`) and
operators (`OperatorCall`), the replay both use (`ReplayPayload`, `LogReplay`,
`LogReplayFailure`) and the rest of a drill (`Measure`, `LogDrill`,
`LogFailure`). `DataPlane` composes them over the shared tables.

### CompanyUniverse, MarketBatch

`CompanyUniverse` has a crawl per process: `Call`, `Fetch` / `FetchFails`,
`Compare` (the snapshot of active symbols a reconciling crawl takes), `Read` and
`Write` (the SELECT and the commit of one upsert), `Reconcile` (the coverage
guard and the one UPDATE), `Count`. A payload is the set of symbols it lists; a
profile is its status and the payload its provenance columns name. `Written`
models the ORM flush: only columns that differ from the row as read are
written. `MarketBatch` adds the script: `Start`, `NextDate` (the refresh
attempts), `Crawled`, `Resolve` (with the bootstrap of an empty universe),
`IngestDate`, `Finish`; and the readiness rule as operators (`MarketDays`,
`CoveredDays`, `StaleDays`, `Readiness`). `steady`, the symbols active ever
since the script started, is an auxiliary variable: nothing reads it but
properties.

### MarketFolds, PooledDataset

Operators only. `MarketFolds` is `build_market_date_folds`: a set of dates is
cut by the *place* of a date in their order, with the purge between training
dates and holdout, and the rows on either side of a fold. `PooledDataset` says
which rows are model-ready from what each symbol's history holds on each market
date (`quotes`: no row, an invalid row, a valid row): the target's reach, the
warm-up of the features, the window of the volatility. A row is its symbol, its
date and the last date its target reads. Prices are left out: leakage is a
matter of which dates are read.

### MethodSelection, Calibration

One action per phase of the matrix, in the thread that holds the semaphore.
`MethodSelection`: `Accept` / `Refuse`, `Load`, per outer fold `Screen`
(feature sets), `Tune` (parameters), `Assess` (its holdout), then `Rank`
(shortlist), `Refine` (the final inner selection), `Final` (one per shortlist
entry, with the cache of the frozen candidate's artifacts), `Report`, `Save`;
`Raises` is an exception in an outer fold and `Crash` a restart. `behind` and
`read` record the last dates of the prices behind a choice and of all that was
read. An evaluation chooses nondeterministically among the outcomes its folds
allow. `Calibration`: `Accept` / `Refuse`, `Load`, `Fit` (one family and fold),
`Judge` (one candidate, with its gate or a cached one), `Save`, `Crash`. A gate
keeps the rows it was fitted and calibrated on.

### WalkForward, RunExecution

`WalkForward` has the splits and fits of one run over stored frames: where
features, labels and rows of a symbol are, the main split, the validation folds
on common dates, the classifier's calibration rows. `RunExecution` has the
stages of `execute_research_run`: `Start`, `Context`, `Profile`, `Adaptive`,
`Peers`, `Load`, `Backtest`, `Validate`, then the transactions it leaves
behind, `Materialize`, `Usability`, `PeerRun`, `Dispatch`, `Order`, `Exclude`,
and `Succeed` or `Settle`. `WriteCatalog`, `AddSnapshot`, `Switch` and `Crash`
happen under it. `ResearchRun` has the registry in full and an execution as one
step; here it is the other way round.

### TickArchive, TickGovernance

`TickArchive` has the steps of an archiving call, one per file, row or failure:
`Begin`, `Symbols`, `WriteRaw`, `Parse`, `WriteNormalized`, `Mirror`,
`InsertRow`, `Finish`, and the compensation of a dispatch that failed,
`DeleteRows`, `DeleteFile`, `Report`, `Flag`. A replay is `StartReplay`,
`ReadArchive`, `Replace` (the observations), `Record`, `Abort`. The benchmark
windows are operators over the tables. `TickGovernance` adds the phase gate,
whose three reads (`LookUp`, `CheckFile`, `ReadRestore`) may have the other
calls between them.

## 3. What the runs check

| Run | Instance | Shows |
|---|---|---|
| `run_shared` | 1 script, 1 thread, 1 slot, 1 uuid, 2 universes, 3 days, 1 fault, 1 kill | evidence is prospective; settled evidence is final; the registry agrees with the answers; started runs settle |
| `run_serial` | 1 script, 1 thread, 2 uuids, 1 fault; the calls for the slot do not overlap (`SerialSpec`), regular calls come whenever they like | such calls implement the evidence ledger; one valid run per slot |
| `run_duplicate` | 1 script, 1 thread | *violation*: overlapping calls leave two valid runs |
| `run_retry` | the same | *violation*: a retry loses the frozen timestamp |
| `data_plane` | 1 symbol, 2 attempts, 1 ingester, 1 drill dispatcher, 1 slot; either 2 faults or kills, or an operator who drills and replays, with one attempt | attempts match runs; a succeeded run is final and replayable; failed slots are drilled again; a succeeded slot stays; a succeeded drill restored its payload, also next to an operator |
| `aborted_drill` | 1 fault | *violation*: an aborted drill is filed as succeeded |
| `replayable_lookup` | no fault | *violation*: the lookup picks a payload that cannot be replayed |
| `market_batch` | 3 securities on 2 exchanges, 3 dates with a holiday, the script and an HTTP crawl, 1 fault | no silent hole; a clean range is ready; a refresh is reported only when confirmed, and for good (an action property); attested universe; bounded loss |
| `stale_status` | an HTTP crawl and an operator's crawl, no faults | *violation*: an upsert that read the profile as active leaves it inactive against its own evidence |
| `matrices` | 2 threads, 19 market dates, 3 histories each, 2 horizons each, 2 x 2 candidates, 2 outer folds with 1 inner fold; 2 families, 3 candidates with 2 gates, 2 folds; 1 fault | semaphores are exclusive and given back; choices and gates are blind to what they are judged on; the final holdout is run once; runs and matrix are stored together; a calibration accounts for every cell; every request ends |
| `tick_archive` | 2 runs of up to 2 parts, 2 replays, 1 gate, mirror required or absent, 1 fault | a reported archive stays whole; one fault hides nothing; a failed dispatch is taken back; a passed gate stands; a window is a full day |
| `run_execution` | 2 threads, 2 symbols, 11 dates, 4 frames, strict / peers / adaptive / unconfirmed live requests, 1 event (catalog, snapshot, switch, failure or restart) | labels are settled before what they are tested on; strict opinions are on unlabelled rows; a succeeded run is accounted for |

**Why these bounds.** Every hazard needs at most two actors on one key: one
slot, one symbol, one exchange's profile. Two kinds of worker, one key and one
fault therefore reach the interleavings; three days put every step of a run on
either side of both midnights; two attempts put an attempt after a failed one
and at the ceiling; two faults let a failure hit the failure path as well. Three
securities give an exchange with two and one with one, so that a feed can be
truncated, be partly saved, or grow. Three dates let a refresh fail twice and
be confirmed on the third, around a holiday. The coverage ratio, 0.95 in the
code, is 1/2 in the instance: with two securities 0.95 allows no loss at all and
the guard's interesting side would never be taken. The proofs do not depend on
its value.

For the matrices the horizon has to be shorter and longer than a fold's
holdout, and the histories need a gap that moves places against dates: 19 dates
with horizons 2 and 3 (2 and 5 in a calibration) leave every fold its rows, one
history skips a date, and one leaves too few rows for inner folds or for a
fold's training side. Two outer folds make an outer choice forget an earlier
one; a shortlist of two makes the final holdout wanted twice. In `run_execution`
the frames have a date one symbol misses, a latest date without features and a
symbol without rows, each tied to one state of the tables to keep the run small.
In `tick_archive` two parts let the second one fail after the first has its row,
and two runs of a date let replays of the earlier one count for the later one.
The two endpoints of `matrices` share no state, so that a behaviour has requests
to one of them; staffed and faulty behaviours of `data_plane` are apart because
their product passes what can be checked in minutes.

**Symmetry and views.** No symmetry sets are used. `market_batch` uses a VIEW
that drops what no step and no property reads: of an HTTP crawl the symbols it
saved, its errors and its outcome (it never reconciles, so they reach only the
response), and of a payload anything but whether it lists the profile.

**Fairness.** Only `StartedRunSettles` and `EveryRequestEnds` need it. `FairSpec` gives each worker
weak fairness of its own `Step`: a thread or process inside a call is scheduled
and a model fit terminates. It assumes nothing of callers, of the clock, of the
universe or of storage; the property excuses runs with a storage failure or a
killed process, because the code has no sweep that would settle their rows.
`EveryRequestEnds` (`MCSpec` of MCMatrices) likewise assumes weak fairness of
each thread's `Step` and nothing of callers, faults or restarts; it needs no
excuse, as a restart makes a new semaphore.

**Premises of the models.** ADR-0013: two exchanges do not both declare no data
for a date that traded (`Answers`); a report that lists only some of the
securities, or rows that fail validation, are outside `Traded` - the code counts
them in `missing_symbol_count` and does not fail the date. A killed process is
one that takes no further step. The bound on storage failures is a bound of the
instance; the proofs hold for any number.

### What the violations say

Five properties taken from docs, comments or tests do not hold of the code;
`PROJECT.json` quotes the lines.

1. `AtMostOneValidRun` (`run_duplicate`): the duplicate check and the write that
   makes a run valid are in different sessions with a model fit between them.
   The evaluation then counts neither run.
2. `RetryKeepsFrozenTimestamp` (`run_retry`): `record_started` replaces the row,
   so the timestamp is gone before `_success_request_payload` looks for it. The
   invariant `NotYetFrozen` says the same thing from the other side, and with
   one script process it is why evidence is prospective.
3. `AbortedDrillIsFailed` (`aborted_drill`): the drill's status is set before
   its last fallible steps and the failure path does not reset it.
4. `ResolvesReplayable` (`replayable_lookup`): the newest successful payload of a
   symbol is, after any complete ingestion, its minute payload.
5. `InactiveWasMissing` (`stale_status`): status and provenance of a profile can
   come from two crawls. `ActiveAttested`, its counterpart, does hold.

### Observations without a run

Met while modelling, and stated by no doc or test that a run could set against
the code:

- *Tick archive.* An import that fails after its last write leaves a run with
  the status succeeded, an abort reason, and an object row whose file is
  deleted; the KPI summary still counts it, as it looks at the status alone.
  Two failures can do the same without a reason, which is why
  `OneFaultHidesNothing` says one. A dispatch whose success was committed and
  reported as a failure is taken back, and a phase gate may pass meanwhile:
  `PassedGateStands` is for behaviours without failures of storage. A replay
  that stores observations while the object's row is deleted can leave
  observations without an object. Two replays of one part at once do not
  duplicate observations: the unique constraint fails one. No endpoint or
  scheduled script reaches the component today.
- *Method selection.* `final_inner_execution_count` is reported as 1 when the
  shortlist is empty and nothing was executed.
- *Research execution.* An opinion that is not strict may be formed on a row the
  models were fitted on, when the latest rows have undefined features; the
  strict path refuses it (`ForwardIsProspective`). A dispatch raises on a signal
  whose score is missing, after earlier orders were stored
  (`MayBeUnscored`). Between two symbols a catalog may be written anew, so that
  symbols of one run have different eligible factors. What a run stored before
  it failed stays; peer outputs may come from a newer snapshot than the features
  used. The routers of `execution/` and `signals/` are not mounted, but a
  research request may name a simulation or live route and dispatch orders.

### Assumptions worth knowing

- **One script per slot.** With two script processes on one slot at once,
  `EvidenceIsProspective` fails: they share a run id, and one may freeze between
  the other's write and its own and publish later signals under the other's
  timestamp. Nothing in the code keeps them apart; cron starts one. The runs
  have one script, and the theorem's premise is exactly that this does not
  happen (`OneScriptPerSlot`), with any number of scripts for other slots or one
  after the other.
- **One dispatcher at a time.** `AttemptsMatchRun` and `SucceededRunIsFinal` need
  that no entry is attempted by two dispatchers at once, `SucceededSlotStays`
  that no slot is drilled by two. Otherwise a dispatcher that read an existing
  row before the other wrote it overwrites it, and a success may become a
  failure. `SucceededRunIsReplayable` and `SucceededDrillRestored` hold
  regardless.
- **The coverage guard and its snapshot.** `LossIsBounded` bounds the loss among
  the profiles the crawl knew to be active. Profiles another crawl adds after
  the snapshot are within the UPDATE's reach and outside the guard; a bootstrap
  crawl, whose snapshot is empty, skips the guard. The batch stays correct all
  the same: `NoSilentHole` speaks of the symbols that stayed.

## 4. What is proved

TLAPS checks these for every value of the constants (any number of workers,
keys, faults, any clock or ratio).

| Theorem | Says | Argument |
|---|---|---|
| `TypeCorrect` (ResearchRun_proofs) | `Spec => []TypeOK` | one step per action |
| `ProspectiveInvariant`, `EvidenceTheorem` | `Spec /\ []OneScriptPerSlot` implies `[]ProspectiveInv`, `[]EvidenceIsProspective` | `EvidenceIsProspective` is not inductive. It needs that a row is worked on by one call (`RunIdsAreOwned`), that an executing row holds no timestamp (`NotYetFrozen`), and that computation, freeze and clock are ordered in workers (`DraftsInTime`) and in rows (`RowsInTime`). Then the freeze date equal to the basis date squeezes the computation date: it is not after the freeze, and complete signals are not before the basis date |
| `SettledIsFinal` | `Spec => SettledEvidenceIsFinal`, for any number of scripts and threads | `IdsAreKept`: the row of a slot is written for that slot alone, and only a uuid that was drawn has a row or a caller. A step then writes only the row of a call that is in flight |
| `AnswersAreTrue` | `Spec =>` `[]` (a client told of a success finds a succeeded run, and `faults <= 1 => AnswersMatchRows`) | `IdsAreUnshared`: a uuid belongs to one thread, also after its reply. `RowsAwaitAnswers`: until a thread records its outcome its row is no success, unless the one storage failure has already happened. Two failures, one after a commit and one in the failure path, leave a success that was reported as an error |
| `OneValidRun` | `Spec /\ []SlotCallsApart` implies `[]AtMostOneValidRun` | `NoRival`: the call that has passed the duplicate check is the only one that can still make a run of its slot valid, which is what an overlapping call would break (run `run_duplicate`) |
| `RegistryImplementsLedger` | `Spec /\ []SlotCallsApart` implies `ImplementsLedger` | initial states map to `Ledger!Init`; each step to a stutter, or to a `Ledger!Next` that publishes the slots whose calls end with valid evidence (`ShowsSettled`, `ShowsProspective`: what the mapping shows of a slot) |
| `EveryCallRunsDown`, `StartedRunIsWorkedOn` | `Spec =>` each step of a call leaves it fewer steps, nine at most; `Spec => []StartedIsWorkedOn` | what `StartedRunSettles` says without fairness: `StepsLeft` ranks the stages and no branch goes back; a row that says "running" has a worker in a call for it, unless storage failed or a process was killed |
| `DataPlaneTypes` (DataPlane_proofs) | `Spec => []TypeOK`; among its parts, the attempt count never passes the ceiling | one step per action, per component, composed |
| `SucceededDrillsRestored` | `Spec => []SucceededDrillRestored` | strengthened by `HeldRestored`: a worker sets the status only after the replay was logged and never changes its payload; the replay log only grows |
| `AttemptsInvariant`, `AttemptsMatch`, `SuccessIsFinal` | `Spec /\ []AttemptsApart` implies `[]AttemptsInv`, `[]AttemptsMatchRun`, `SucceededRunIsFinal`, any number of dispatchers | `TaskMatchesRun`: until it saves, the run a dispatcher looked up is the one on record; between its two saves the run is what it computed; a run that is absent has no attempts |
| `SuccessIsReplayable` | `Spec => []SucceededRunIsReplayable`, any number of dispatchers | `TaskIsAudited`: what a dispatcher holds as fetched is in the audit of its entry, and the audit only grows |
| `SucceededSlotsStay` | `Spec /\ []DrillsApart` implies `SucceededSlotStays`, any number of dispatchers and operators | `WorkKept`: the slot a dispatch works on is on record as succeeded only after it has filed that itself; operators work for no slot |
| `ReportsAreTrue`, `FailedSlotsAreRetried` | `Spec /\ []DispatchesApart` implies `ReportIsTrue`: when a dispatch returns, no slot it lists as failed is on record as succeeded; `OneDriller` implies `Spec => []FailedSlotIsRetried` | `SlotsKept`: a dispatch takes each slot once, and what it lists as failed is not on record as succeeded. The list of a dispatcher that has returned stays true only until another one drills the slots, hence one dispatcher for the invariant |
| `MarketTypes` (MarketBatch_proofs) | `Spec => []TypeOK`; among its parts, refresh attempts stay in 0..3 | one step per action, with `InRange`: the date only passes the range when the batch is between dates |
| `ActiveProfilesAttested` | `Spec => []ActiveAttested` | strengthened by: what a crawl has still to save is listed by its payload. An upsert writes the provenance together with, or without, the status, and both keep the claim |
| `PurgeCoversLabels` (MarketFolds_proofs) | a purged fold's training labels end before its holdout, for any dates with any gaps | `PlaceGap`: two dates are at least as far apart in the calendar as their places in the axis; `PlaceMonotone`. A purge counted in dates of the axis is then no shorter than the same number of market dates |
| `TypeCorrect`, `Exclusive`, `Transactional`, `RunOnce` (MethodSelection_proofs) | `Spec =>` `[]TypeOK`, `[]OneMatrixAtATime`, `[]NoOrphanRuns`, `[]FinalHoldoutRunOnce` | from one inductive invariant, `IInv`. Per thread, `Numbered`: a matrix in progress has an id no stored matrix has, without which a save could replace one; `Once`: nothing was tried before the last stages, one try makes one execution, and a promotion needs an evaluated try; a missing candidate has a reason |
| `ChoiceIsBlind`, `FinalIsBlind` | `Spec =>` `[]OuterHoldoutUnseen`, `[]FinalHoldoutUntouched` | the other half of `IInv`. `Loaded`: what is behind a choice ends with labels of rows on the outer training dates, whatever the inner folds are; the rest is `PurgeCoversLabels`. `Unread`: before the frozen candidate is tried only selection rows were read, whose targets end with the selection; its own training dates are purged in market dates, where a date is its place |
| `MatricesAreWhole` (Calibration_proofs) | `CalibrationParameters` implies `Spec => []MatrixIsWhole` | `Walked`: every fold the walk has left is whole and nothing is recorded ahead (`Recorded`), a family is given up exactly when one of its folds found it unavailable (`GivenUp`), the candidates before the next one have the verdict of their key's one gate (`Underway`, `OneGate`), also a candidate listed twice |
| `Exclusive`, `GatesBlind` (Calibration_proofs) | `CalibrationParameters` implies `Spec => []OneCalibrationAtATime`, `Spec => []GatesAreBlind` | the semaphore with the gates of the thread inside. `Blind`: what a gate of the cache was fitted on settles before the tail that judges it begins, and the tail before the holdout; it belongs to the fold and family being scored, since the next fold empties the cache |
| `EveryMatrixRunsDown` (MethodSelection_proofs, Calibration_proofs) | `Spec => MatrixRunsDown /\ []StepsAreBounded`, of either endpoint | what `EveryRequestEnds` says without fairness. `StepsLeft` counts outer folds, shortlist entries and stages; of a calibration, the cells of families and folds to come (`Later`) and the candidates left of the one in hand. Each step of the thread lowers it, no other step raises it |
| `DatesHaveNoSilentHole` | `Spec => []NoSilentHole` | strengthened by: while a date is ingested every steady symbol is in the universe it was resolved to; `IngestComplete` shows that a date filed without errors keeps all rows of that universe; `steady` only shrinks and `bars` only grows |
| `CleanRangesAreReady` | `Spec => []CleanRangeIsReady` | `NoSilentHole` with `DatesFiled` (every date behind the script is on one of its lists) and `BarsTraded` (no bar of a date its symbol did not trade); then the readiness rule finds no stale day |
| `RefreshIsConfirmed` | `Spec => RefreshConfirmed` | `Confirmable`: a confirmed refresh leaves no attempt to make, and from the end of the script's own crawl until its date is filed that crawl keeps its outcome, other crawls being of other processes |
| `UniverseLossIsBounded` | `Spec => LossIsBounded` | only `Reconcile` takes profiles away; the guard on cardinalities of its snapshot and feed bounds the difference of the sets |
| `ExecutionTypes`, `LabelsAreSettled`, `OpinionsLookForward` (RunExecution_proofs) | `Spec =>` `[]TypeOK`, `[]LabelsSettledFirst`, `[]ForwardIsProspective` | `WorkKept`: a thread's fits are honest ones and its opinion is on a date none of them has a label of. A purge counted in a symbol's own rows is at least as long in market dates (`PlaceMonotone`, `FirstAndLast`); a label of the last row would settle after the last date |
| `SuccessIsAccountedFor` | `Spec => []SucceededRunIsAccountedFor` | `Accounts`: two threads never share a run id (`RunsApart`), a run has one order for a symbol (`OrdersApart`), a thread's run is accounted for as far as the thread has come (`LedgersKept`), and a run stored as succeeded owes nothing, also when its thread was told that the save failed (`DebtsPaid`) |
| `ArchiveTypes`, `ReturnedIsKept` (TickArchive_proofs) | `GateSpec =>` `[]GateTypeOK`, `[]ReturnedArchiveIsKept` | `JobProgress`: every part behind the one in hand has its row and its files (`Through`), and what a call knows it stored is stored (`Held`); no step but those of its own call touches a run's rows and files |
| `OneFaultIsSafe` | `GateSpec => []OneFaultHidesNothing` | `RunAtHand`: a run is stored as succeeded before its call is over only after a failure, and a call that deletes files has stored a reason or will report one. A second failure would have to hit that report |
| `FailedDispatchIsGone` | `GateSpec => []FailedDispatchIsTakenBack` | `TakenBack`: without a failure, every row and file of the run in hand is one its call knows of (`Account`), so the compensation reaches all of them |
| `PassedGatesStand` | `GateSpec => []PassedGateStands` | `Told`: without failures every run stored as succeeded was reported so, hence is kept; `GateStands`: what the gate looked up stays, as observations only grow |
| `WindowsAreFullDays` | `GateSpec => []WindowIsFullDay` | `RestoresObserved`: a restore is stored as succeeded only after its observations; counting restores against objects of the latest run is then counting observed objects |

The inductive invariants were first checked with TLC on the instance of the run
whose property they carry. Several actors make most of them necessary: what one
call read or stored has to be tied to what the tables say while others write
them. The proof of `IInv` in MethodSelection_proofs has
one lemma per action (`ScreenMoves`, `TuneMoves`, ...), each saying that the
thread goes on with sound work or leaves with a reply, and two that lift it to
the state (`MovesInv`, `SaveInv`). `IInv` is stated with predicates of one
thread's record and of the request's rows and folds, which no step changes
(`InputsStay`).

Assumptions on constants are the named ASSUMEs of the modules (finite sets of
names, a monotone map from instants to dates, disjoint kinds of worker, at least
one profile, a part and a run), which TLC evaluates in every run. Those of
`Calibration` are a definition, `CalibrationParameters`, which the theorems
assume and `MCMatrices` checks for its instance. A few theorems name a premise of
their own, because the code keeps the promise only under it. All but one are
premises on behaviours (`Spec /\ []Premise => ...`), so that the number of
workers stays open; every one is met by the run that checks the property:

- `OneScriptPerSlot`: no two script processes work for one slot at once. Cron
  starts one, and nothing in the code keeps two apart.
- `SlotCallsApart`: no two calls of any kind work for one slot at once; calls for
  other slots and calls for none overlap freely. `SerialSpec` of `run_serial` is
  the specification under this premise; `run_duplicate` shows that without it
  `AtMostOneValidRun` fails.
- `AttemptsApart`, `DrillsApart`, `DispatchesApart`: no entry is attempted by two
  dispatchers at once, no slot drilled by two, no two dispatches of drills in
  progress; see "One dispatcher at a time" above.
- `OneDriller`, on the constants: one dispatcher of drills, for
  `FailedSlotsAreRetried` alone.

**Only model-checked.** Of the safety properties that passing runs check, all
are theorems; those of `Calibration` are proved in its own module and checked
through the instance `C` of `MCMatrices`, whose `MatricesTypeOK` is the
conjunction of two type invariants that are proved one by one (`TypeCorrect`,
`CalibrationInvariant`). They are not restated for the instance: the prover does
not open a theorem reached through INSTANCE, so that each would have to be proved
a second time under other names. Liveness (`StartedRunSettles`, `EveryRequestEnds`) stays
with TLC: fairness and ENABLED are beyond this prover, as are induction over data
and recursive operators, none of which these modules use. What is proved of it is
the part that says why it holds: calls and matrices run down, and a started run
has somebody who works on it. That a worker inside a call always has a step to
take is left to TLC. The five violations are
counterexamples and need no proof.

## 5. Plan

Done, in this order: research run lifecycle with the evidence ledger, because it
decides what the product may claim; the data plane, because everything else
reads it; the company universe and the market batch; folds, pooled dataset and
the two matrices; the execution of a run; the tick archive and its gate, last
because only `scripts/seed_tick_archive_fixture.py` reaches it today.

Next proofs: that each `Step` of a worker inside a call is possible (ENABLED),
once the prover has it, which would turn the theorems about running down into the
two liveness properties; the same for a dispatch of the data plane, a batch and a
tick import; what of `SucceededSlotStays` and `SucceededRunIsFinal` survives
overlapping dispatchers.

### Not modelled

- Capability gates, governance and KPIs, the run projection and the opinion
  artifact: read-only rules, each one expression over tables or a stored row. A
  model would repeat the rule, and nothing can come between its parts.
- Tradability: price arithmetic. What it stores is keyed by monitor profile and
  date and rewritten by every run; the hazard is listed.
- Lifecycle records and important events: parsing of provider text.
- Watchlist and benchmark profiles: upserts of one row in one transaction.
- Endpoints of `execution/` and `signals/`: their routers are not mounted.
- Floating-point metrics, TLS repair, ORM declarations, system endpoints, the
  frontend.

## 6. Running the checks

    tlc -workers 2 -config RunShared.cfg MCResearchRun
    tlapm ResearchRun_proofs.tla        (and the other seven *_proofs modules)

`PROJECT.json` names each run's module and configuration, a mutant for each
property (a plausible bug in one definition that TLC then catches), and the
source lines of every definition. Mutants' alternative definitions stand in the
modules next to the definition they replace, marked "Fault:" or "Mutant:".
