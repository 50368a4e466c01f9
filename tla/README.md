# Elevator predictive maintenance in TLA+

This directory holds TLA+ models of the elevator demo, the TLC configurations
that check them on small instances, and TLAPS proofs of what matters most.
`PROJECT.json` ties every modelled definition to the source lines it stands for,
and lists the runs, the hazards and the theorems.

## The system

| Part | State it keeps | Operations | Talks to |
|---|---|---|---|
| Inference run (`services/inference_service.py`, `routers/inference.py`) | `elevators`, `elevator_features`, `elevator_trend_points`; an advisory lock per transaction | `POST /api/inference/run` | PostgreSQL, the scorer |
| Telemetry ingest (`services/telemetry_service.py`, `repositories/telemetry_repository.py`, the n8n workflow `telemetry-ingest.json`) | `telemetry_readings` | `POST /api/telemetry/readings` | PostgreSQL; retried by n8n |
| Inference clients and scorer (`services/inference_client.py`, `backend/inference/`) | the loaded model, a cached feature list | `feature_names`, `score` | HTTP or Lambda, 30 s timeouts |
| Briefing (`services/briefing_service.py`) | `_CACHE`, process-wide, by lift and score | `GET /api/elevators/{id}/briefing` | the database, Bedrock on a worker thread |
| Elevator reads, visit reports (`services/elevator_service.py`) | `visit_reports` | list, detail, report | the database |
| Fleet metrics (`core/metrics.py`, `services/fleet_health_service.py`) | a snapshot that is replaced whole | the refresh loop, the gauges' callbacks | the database |
| Application and gate (`main.py`, `core/ingest_auth.py`, `core/config.py`) | settings read at start | which routers exist, the token check | every request |
| Seed and migrations (`seed.py`, `alembic/`) | the tables | seeding an empty database, de-duplicating migration | the database |
| Orchestrator (`orchestrator/runtime/`) | the secrets a warm sandbox cached, a child n8n | one Lambda invocation | Secrets Manager, n8n webhooks |
| Frontend (`frontend/src/`) | page state, the browser's speech queue | list, unit view, report form, voice briefing | the API |
| Deployment and TLS (`.github/workflows/`, `deploy/tls/`, `scripts/`) | the working copy, images, certificate, `/opt/deploy.lock` | deploy, renew, reload | the host |
| Training pipeline (`backend/ml/`) | files | one offline script | nothing at run time |

Hard behaviours, in the order of what depends on them:

1. **Overlapping inference runs.** The schedule and a manual trigger may overlap.
   The date rule of the trend ("the same day replaces the last point, another day
   drops the oldest") reads `last_scored_at` and writes it in one transaction under
   READ COMMITTED; only the advisory lock makes read and write one step. A run
   may die between any two statements.
2. **Window, prune and ingest against each other.** Three places share one clock
   tolerance, but a run's clock is read before it waits for its lock.
3. **Retried and overlapping batches.** n8n re-sends the same batch when an answer
   is late or lost; two copies, or two batches that overlap, are inserted at once;
   `INSERT ... ON CONFLICT DO NOTHING` waits on open transactions and may deadlock.
4. **Two calls to a scorer that may change in between.** The columns come with one
   call and the scores with another; the model may be replaced, the process may die,
   an answer may come late, and two transports tell the same failures differently.
5. **Stale caches, torn reads and a full pool** in the briefing and the elevator views:
   three statements without a snapshot, a language model that may never answer while
   its request holds a connection.
6. **A thread that reads while the event loop writes** in the fleet metrics, and a
   shutdown in the middle of a refresh.
7. **Databases of every age.** Nine migrations that rewrite the same rows with the
   predictions of whichever release runs them; deploys that fail anywhere or fall back;
   migrations by hand beside backends that serve.
8. **One invocation against its time budget** in the orchestrator.
9. **Answers out of order** in the frontend.

The full list, each at its line, is `hazards` in `PROJECT.json`.

What makes each part correct: a scored row is of one piece and its trend follows
the calendar (run); a reading is stored once, by its first report, and the answer
says what was added (ingest); a failed call changes nothing (both); a briefing
is about the lift and the score it is shown with (briefing); an answer shows one commit (reads); a
snapshot is never half of two (metrics); nothing is reachable without the gate
(application); one seed (seed); a graceful stop fits in the time kept for it
(orchestrator); a page shows and speaks only its own lift (frontend); a renewed
certificate gets served (deployment).

## Modules

```
ScoringRules ──┬─ AtomicScoring                 abstract: whole runs
               └─ FleetScoring ─┬─ ScoringCalendar     + history of the window's moves
                                ├─ MCFleetScoring      instances
ScoringRulesProofs ─────────────┴─ FleetScoringProofs
IngestRules ───┬─ ReadingStore                  abstract: whole requests
               └─ TelemetryIngest ─┬─ MCTelemetryIngest
                                   └─ TelemetryIngestProofs
OrchestratorInvocation ─┬─ MCOrchestratorInvocation
                        └─ OrchestratorProofs
RunEndpoint ────────────┬─ MCRunEndpoint
                        └─ RunEndpointProofs
ElevatorRequests ───────┬─ MCElevatorRequests
                        └─ ElevatorRequestsProofs
FleetMetrics ───────────┬─ MCFleetMetrics
                        └─ FleetMetricsProofs
SchemaHistory ──────────┬─ MCSchemaHistory
                        └─ SchemaHistoryProofs
```

The parts meet in what the run commits. FleetScoring has a run from its lock to its
commit; RunEndpoint has the calls such a run makes to the scorer and the answer it ends
in; ElevatorRequests, FleetMetrics and SchemaHistory see a run as what
AtomicScoring says it is: one step that changes the fleet (`Run`, `Rescore`).

**ScoringRules** holds the data and pure rules of a run. A model score is an integer
number of 1/100000 and a stored one of 1/10000, so rounding and the thresholds
0.50 and 0.80 are exact. `Rescored` is `_apply`: level and explanation come from
the *rounded* score, and the trend is shifted by `ShiftTrend` with the slices of
`_shift_trend`; `explained` stands for the feature rows and the explanation, which
are always written together from one score. `PointwiseTrend` is the reference
definition of the shift. `InWindow`, `Pruned`, `Reporting` are the three WHERE
clauses. `ScorableSets` is the out-of-band exclusion with the majority guard. The
check tests averages, which the model does not compute: a lift with plausible and
implausible readings may fall on either side.

**FleetScoring** is `InferenceService.run` inside the session of `get_db`.

| Action | Code |
|---|---|
| `Begin` | the request arrives, `now` is read (`_run`, before the lock) |
| `AcquireRunLock` | `pg_advisory_xact_lock` |
| `ReadFleet` | `list_all`, `aggregate_window`, the exclusion and its guard; with nothing to score the run goes on to the prune, with a broken conversion only `Abort` is left |
| `ScoreAndApply` | the scorer's answer and the loop of `_apply`; the rows are private to the transaction (`writes`) |
| `Commit` | the prune and the commit |
| `Abort` | any exception, a lost connection or a dead server, at any step |
| `Ingest`, `Tick` | an accepted reading; the clock |

`seen` is what the session's identity map holds from `list_all`. The trend points
are read back in `_shift_trend`, so `ScoreAndApply` reads them from the committed
rows, not from `seen`. That split is what makes the lock necessary in the model as
it is in the code. The rows of the table before the first action (`LegacyReadings`)
may break ingest's rules, since the validators are younger than the table.

**AtomicScoring** is the promise: one `Run` step scores every lift with a reading in
the window of some instant `t`, but for a minority out of band, and sweeps.
`RunsAreAtomic` says FleetScoring implements it, with `Atomic == INSTANCE AtomicScoring
WITH rows <- rows, ...` as the refinement mapping.

**ScoringCalendar** adds the days each lift's window has moved for, to ask for a
whole history what `TrendFollowsDays` asks of one step.

**IngestRules, TelemetryIngest, ReadingStore.** A producer fixes a batch once and
sends it up to `MaxTries` times; a request is a producer and a try, and stands for
the `batch_id` it draws. `Filter` is `filter_existing_ids` with the 422 for a batch
of strangers. `Insert` takes one row of the VALUES at a time in list order, which is
where PostgreSQL waits for a transaction that has the same key open (`WaitsFor`),
skips what is stored, or inserts. `BreakCircle` is the deadlock detector, `Fail` any
other failure, and `Commit` may succeed while its answer becomes a 500. `get_db`
commits before the answer is sent. `TimeOut` lets the producer give up on a request
that goes on. `ReadingStore` is the promise: a request takes effect whole or not at
all, adds the first report of each reading not stored yet, and reports how many.
PostgreSQL's side (waits, conflicts, detector) is not in the repository and is
marked external.

**OrchestratorInvocation** is one Lambda sandbox and the invocations it serves. The
program is sequential, so each of its steps carries the time it took (`Took`), and
n8n moves by itself in between (`N8nMoves`): it starts, serves a start-up page, is
ready, registers its webhooks, and may hang or die at any point.

| Action | Code |
|---|---|
| `Invoke` | the loop of `bootstrap.mjs`, `resolveWorkflow` |
| `ReadSecrets` | `readSecrets` with its cache, the guard in `buildCredentialOverwrite` |
| `StartN8n` | `prepareUserFolder`, `startN8n`, the budget for readiness |
| `Probe` | one turn of `waitForReadiness`, with its pause |
| `CallTooEarly`, `CallAnswered`, `CallAborted`, `CallRefused` | one turn of `callWebhook`: a 404, an answer, its timeout, a dead n8n |
| `Stop` | `child.stop()` in the `finally` of `runInvocation` |
| `TimeOut`, `Crash` | Lambda kills the sandbox at the deadline; the process dies or the sandbox is recycled |

A step that would pass the deadline does not happen: `TimeOut` is possible wherever the
wait the program is in may last until then (`LongestWait`). Reading parameters, copying the
seed and a readiness probe have no limit of their own in the code, a call has the
timeout it was given and, when it may be repeated, the pause after it, and a stop has the
stop deadline. `ReadSecrets` may also fail with a usable token: the role's credentials may be
missing from the environment.

**RunEndpoint** is `POST /api/inference/run` from the gate to the scorer and back, in
every configuration of environment, token, transport and target.

| Action | Code |
|---|---|
| `Request` | `build_app` (no routers in production without a long token), `require_ingest_token`, a run with nothing to score |
| `Call` | `feature_names()` and `score()` of the client `get_inference_client` chose, over HTTP (`inference/main.py`) or Lambda (`inference/lambda_handler.py`) |
| `CallOther` | something else answers under the configured name or address: with a success that lacks the keys, or with a failure of its own |
| `Serve` | the scorer's side of a call: the model a cold sandbox loads and keeps, `Scorer.score` with its comparison of the columns, the answer on its way (`Deliver`) |
| `GiveUp`, `Unreachable` | the 30 s timeouts, refused connections, throttling: the scorer goes on |
| `Build`, `Apply` | the matrix in the columns just read; the scores applied |
| `Deploy`, `Start`, `Die` | the artefact is replaced; an HTTP service starts; a process dies or is recycled, all threads of a service together |

`fault` is history: it says what really went wrong, whoever noticed, so that
`StatusTellsWhoFailed` can ask whether the status tells the truth. The run lock lets one
run at a time call the scorer, so there is one run; what is late is the scorer.

**ElevatorRequests** has the requests of the technician's pages. A request takes a
connection with its first statement (`Connect`), loads a lift in three statements
(`Read`), and ends by giving the connection back (`End`, which is `get_db`).

| Action | Code |
|---|---|
| `Connect`, `Fail` | the session's first statement, the pool's timeout, a database error |
| `Read`, `NotFound`, `Show` | `get_by_id` and `list_all` with `selectin` loading; `list_elevators`, `get_elevator` |
| `UseCache`, `AskModel` | `BriefingService.get_briefing` up to the worker thread |
| `ModelAnswers`, `ModelFails` | the text is cached under the key from before the call; an error, a blank text or the client's timeouts give the fallback, which is not cached |
| `AnswerWith` | the end of a briefing: `get_db` commits before the answer is sent, so that a failed commit makes it a 500 though the text is cached |
| `Flush`, `CommitReport` | `submit_report` and the commit of `get_db`, whose confirmation may be lost |
| `Run` | an inference run commits the whole fleet |

A version number stands for what every lift had after a run; `ScoreOf` says which score
that was, and may return. A text is represented by who wrote it, about which lift and from which
versions.

**FleetMetrics** is one backend process from `build_app` to its shutdown.

| Action | Code |
|---|---|
| `Build`, `Start` | `configure_telemetry` with its guards; `lifespan` up to its yield |
| `Stop`, `TaskCancelled`, `ShutDown` | `lifespan` after its yield, `shutdown_telemetry` |
| `Query`, `SetSnapshot`, `QueryFails`, `Wake` | `refresh_snapshot_once` and `refresh_snapshot_periodically`, split at the await |
| `Collect`, `Observe` | `_observe_fleet_count` on the reader's thread: it takes the dict once and yields one level after the other |
| `Crash` | the process dies and starts with fresh module globals |

**SchemaHistory** is one database through all releases. A release is named by the number
of its last migration, and `Predicted` says from which release the row, the features and the
explanation in its `predictions.json` come.

| Action | Code |
|---|---|
| `Count`, `Seed` | `seed_database` by two processes; a collision fails the start-up |
| `Begin`, `Commit`, `RollBack` | the one transaction of `alembic/env.py` |
| `CreateTables` ... `CreateConstraint` | the nine migrations in the order of `down_revision`; the last one in its two statements |
| `Deploy` | `deploy.yml`: `docker compose up -d` of any release, newer or older, whatever became of the deploy before; the containers it recreates are stopped first |
| `MigrateByHand` | the `migrate` service alone is recreated, as in development, and the backends go on serving |
| `Start` | `depends_on: service_completed_successfully`: the backends of the new release start when its migrations have succeeded |
| `Crash`, `SubmitReport`, `Rescore`, `StoreReading` | what serving backends do, also beside a migration by hand |

`deploy.yml` only serialises its runs: it starts each one unconditionally, and the smoke check
comes after `up -d`. So a deploy may fail at every step (no `Begin`, `RollBack` for
ever, no `Start`), and another release may be deployed from wherever it stopped. An image older
than the schema finds a revision it does not know; its migrations fail and its
backends never start. The workflow and the compose files are in the repository, and `Deploy`,
`Begin`, `RollBack` and `Start` are mapped to them; what is external is the content of
`predictions.json`, PostgreSQL's view of a transaction's own writes, and the death of a process.

Two variables are history. `ever` has every reading ever committed, which
`FirstStoredIsKept` compares the table with: a reading has the id of its INSERT, and ids are committed in any
order. `strayed` notes that a process seeded the fleet of another release than the
schema's, or beside a migration under way. Compose stops such a process, so a deploy cannot set `strayed`; a
migration by hand can, and that is the one exception of `FleetIsOfItsRelease`: a backend that counted
no lift, was passed by a migration, and then seeded what its own release predicts leaves a
fleet that no migration will touch again.

A migration takes an exclusive lock when it creates the constraint, so nothing is stored
between that and the commit; between the DELETE and the constraint, something may be.

## Runs

| Run | Instance | Question |
|---|---|---|
| `ScoringOneLift` | one lift, two runs, clock 0..3 with days of two ticks, two scores that change level when rounded, trends seeded empty, short, full and too long, two readings and a future row | do overlapping runs, failures and the sweep leave the row of one piece, and are they atomic? |
| `ScoringFleet` | three lifts in scope and one out, five legacy rows, plausible and not, one midnight | the majority guard, the decision a run takes, the lock, and that every run ends |
| `ScoringStaleClock` | one lift, two readings | finding: a waiting run deletes an accepted reading |
| `ScoringMidnight` | one lift, one midnight | finding: the window moves twice for one day |
| `IngestOverlap` | two producers of one source, batches that overlap in opposite orders, with a repeated reading and an unknown lift, two tries each | are readings stored once, answers true, deadlocks resolved, requests atomic? |
| `Orchestrator` | two invocations of one sandbox, time in units of five seconds, a reserve one unit longer than the stop deadline, two retries | does every invocation use and stop its own n8n, start its workflow once, report real successes, and leave time to stop? |
| `OrchestratorReserve` | the same | finding: retried calls eat the time kept for the stop |
| `RunEndpoint` | three requests in a row, three models (one with the columns of the first in another order, one that wants a column nobody supplies), two sandboxes or threads, every configuration | does every run use scores of the columns it built its rows in, and does the status name the side that failed? |
| `ElevatorRequests` | three requests, two connections, two runs, the second of which brings the first score back, a lift that is not in the fleet | do cached texts keep to their key, does the pool add up, is every request answered? |
| `ElevatorTorn` | the same | finding: a detail whose trend does not end at its score |
| `Metrics` | two lifts in scope and one out, two runs, every setting, any number of builds, refreshes, failures and crashes | is every export one snapshot, does the refresh end before the providers, does the snapshot catch up? |
| `Schema` | nine releases in any order, two lifts, two backends, three readings of two identities with ids in any order, one report | does every database arrive at the fleet of its release, and is nothing lost that was written? |

Why the bounds are enough. Two runs are what the lock relates; a third would wait
where the second does. A trend of two points tells "replace the last", "drop the
oldest", "pad" and "trim" apart. Four instants give two days with two instants each,
so runs of one day and of two days overlap. Two tries tell a retry beside its
original from a retry after it (the node makes three). Two lifts per batch are the
fewest that deadlock. Two invocations are what a sandbox left dirty takes to show;
durations of none, one and three units put every step before, at and past each limit.
Two models that differ in the order of their columns are the case a width check
misses; a third request meets the late answers to two that were given up. Three
requests on two connections make one wait while briefings hold both, and two of them may
write one key; the third version brings the first score back with other facts. Two
processes are what a seed needs to collide, two readings of one identity and one more are what
a duplicate that arrives during the migration takes.
`MaxTime`, `MaxReadings`, `MaxTries`, `MaxRequests`, `MaxVersion`, `MaxRuns`,
`Durations` and the seed sets are the only bounds. The theorems below hold for every value of those they speak of.

`IngestOverlap`, `ElevatorRequests` and the orchestrator's runs turn the deadlock check
off because the system really stops there: each producer sends one batch, each page asks
once, the sandbox serves its invocations, and all are done. The others keep it on.

**Fairness.** `ScoringFleet` assumes weak fairness of a run's progress inside its
transaction (the scorer calls have a 30 s timeout and end in an answer or in an
exception, and the rest are database statements), and strong fairness of the lock:
PostgreSQL queues the waiters in order, so none is overtaken for ever. Nothing is
assumed of arrivals, of the clock or of failures before the lock. `IngestOverlap`
assumes that the server works on each request it has received and that the deadlock
detector runs. It assumes nothing of the producer. `ElevatorRequests` assumes weak
fairness of each request's own steps: statements end, the pool gives up after its timeout,
the client of the language model gives up after its own. It does not assume that the
model ever answers. `Metrics` assumes that the event loop comes back to the refresh
task: a sleep ends (weak, `Wake`), a query ends in an answer or an error (weak, `Query` or
`QueryFails`), and, because any refresh may fail, that the database answers and is heard again and again
(strong, `Query` and `SetSnapshot`). `CountsCatchUp` further says only what happens when the
process goes on serving. The other runs use no fairness.

## Findings

*A waiting run can delete a reading ingest accepted* (`ScoringStaleClock`). `now` is
read at `inference_service.py:237`, before the wait for the lock at 241. A reading
accepted during the wait, dated ahead of the server clock, may lie beyond
`now + MAX_CLOCK_SKEW` of the waiting run, which leaves it out of its window and then
deletes it. The comments at 247-250 and 316-317 say it does not happen.
What does hold, and is proved, is `SettledReadingsSurvive`: only a run that began
before the reading was stored can do this.

*A day can move the window twice* (`ScoringMidnight`). The docstring at 322-334 says the
lock prevents it. The lock orders the runs, not their clocks: a run that read the
clock before midnight may take the lock after one that read it later, and puts
`last_scored_at` back to the day before. What does hold, and is proved, is
`TrendFollowsDays`: each step is right for the two instants it relates.

*Retried webhook calls eat the stop reserve* (`OrchestratorReserve`).
`docs/orchestration.md:80` says the readiness and webhook waits end 25 s before the
deadline, and so does `lib.mjs:132-134`. `callWebhook` gives each attempt the whole
timeout computed before the first, so the stop may begin late by the time the 404s
took. What does hold, and is proved: a call that needed no retry leaves the reserve
(`FirstCallLeavesReserve`), and a stop that begins in time is never cut
(`InTimeStopIsNotCut`). The readiness wait can overrun too, by the length of its last
probe, which has no timeout.

*The detail of a lift may be torn* (`ElevatorTorn`). `openspec/specs/elevator-persistence/spec.md:20`
and `:24` promise a trend "whose last element equals `risk_score`", `docs/data-model.md:195` says
that index 5 is equal to `risk_score`, and `tests/integration/test_elevators_router.py:64` asserts
it. `get_by_id` (`elevator_repository.py:17-21`) reads the row, the features and the trend in
three statements, each with a snapshot of its own under READ COMMITTED, and a run commits all lifts at
once. When it commits between two of them the detail answers 200 with the score of one run and
the trend of the next. A transaction with one snapshot (REPEATABLE READ) would keep the promise.

Met on the way, and not stated as properties:

- `spec.md:97` has the counts refreshed at once after a successful run; the code only has the
  loop, so that they are up to a minute behind (`CountsCatchUp` is what holds);
- the loop queries the database also when metrics are switched off and nothing can read
  what it finds;
- a host that runs the lifespan twice on one application does not reach the `RuntimeError`
  of `configure_telemetry`, which only `build_app` calls: the second life has no providers;
- `inference_client.py:121` promises the same failure contract for both transports. A
  stranger's 200 is a 502 over Lambda and a 500 over HTTP, whose client trusts the
  body; `StatusTellsWhoFailed` states the difference;
- `if targets ... else` at `inference_service.py:298` cannot take its second branch;
- the gauges are registered before the first refresh has succeeded (`main.py:80-85`) and the module's
  snapshot starts with zeros (`metrics.py:61`), so that the first exports may count an empty fleet, where
  `openspec/specs/observability/spec.md:99-102` says the total is that of the fleet.
  `ExportIsOneSnapshot` has exactly this exception: blank before the first success, and only then;
- the cache key is lift and score alone: when a score comes back, the old text is read out with the old
  drivers and trend. `docs/data-model.md:229` names the saved calls as the cache's purpose, and no
  line of the repository promises more than the key does, so this is a hazard without a
  property; `CachedTextIsOfItsKey` is about the lift and the score;
- a backend that counted no lift and is passed by a migration by hand before it seeds leaves
  the fleet of the old release (`strayed` above; the recipe for such a migration is in
  `openspec/changes/archive/2026-08-31-harden-telemetry-ingest/reports/2026-08-31-step-10-endpoint-testing.md:18-23`).
  A deploy cannot do that;
- release 5 (`56cd241fcfd6`) left the explanations behind, which `aa3f0fc81e9c` says and repairs;
  `FleetIsOfItsRelease` excludes that release.

## Proofs

Every invariant and action property of the passing runs, and both refinements, are also
theorems, for every value of the constants that meets the assumptions below. Only the
liveness properties are not.

`ScoringRulesProofs` and `FleetScoringProofs` prove, for any finite fleet, number of runs, trend length, window, skew and retention:

- `ShiftTrendIsPointwise`: the slicing and padding gives the points the rule asks for;
- `TypeCorrect`, `Invariance`: the types and the inductive invariant;
- `LockAlwaysHeld`: the lock is held by exactly the run inside its transaction;
- `SnapshotAlwaysCurrent`, `DecisionAlwaysCurrent`, `RowsAlwaysCoherent`,
  `TrendAlwaysFollowsDays`, `AlwaysScoredOnEvidence`,
  `SettledReadingsAlwaysSurvive`, `BadLiftsAlwaysStayAMinority`: the properties of the
  runs;
- `RunsAreAlwaysAtomic`: FleetScoring implements AtomicScoring.

`OrchestratorProofs` proves, for any timeout, reserve, limits and number of retries and
invocations, all the properties of the `Orchestrator` run. `RunEndpointProofs` proves those of
`RunEndpoint` for any models, sandboxes and environments, and `ElevatorRequestsProofs`
the invariants of `ElevatorRequests` for any requests, lifts, scores and connections.
`TelemetryIngestProofs` proves the safety of `IngestOverlap` for any producers, batches and
number of tries, and that TelemetryIngest implements ReadingStore (`RequestsAreAlwaysAtomic`);
`FleetMetricsProofs` that of `Metrics` for a fleet of any size and any number of runs, failures
and crashes; `SchemaHistoryProofs` that of `Schema` for any lifts, backends, reports and readings.
Three theorems say more than a run asks: `SameBatchAddsNothing` (sending a batch again adds
nothing), `AcceptedAlwaysFits` (the number in a 201 stays the number of rows that bear its
`batch_id`), and `OnlyDuplicatesAreDeleted` (a reading leaves the table only with the commit
that brings the constraint, and an older one of its identity stays).

The argument. `LockIsHeld` (the lock is held exactly by the run inside its
transaction) is inductive alone, and gives that at most one run is inside. A row
changes only at `Commit`, which needs the lock, so while a run is inside what it
loaded and wrote still fits the committed rows (`SnapshotIsCurrent`). Readings go only
at `Commit` too, so what the run decided from is still there, and what has come since
was stored no earlier than the run began (`DecisionIsCurrent`, which needs
`NowIsPast`). `DecisionFits` adds to this that every implausible reading in the table was
among those the run decided from: ingest lets only plausible ones in. So no lift turns bad
behind a run's back, some of those it excluded may turn good, and counting the three disjoint
sets gives `BadLiftsStayAMinority` at the commit. `IInv` is the conjunction of these with `TypeOK` and `RowsAreCoherent`.
From `SnapshotIsCurrent` at the commit, the new row is `Rescored` of the old one, hence
coherent, and by `ShiftTrendIsPointwise` its trend is what the calendar asks for; with
`DecisionIsCurrent` the commit is a `Run` step of AtomicScoring and every other step of
a run is a stutter. Without the lock's part neither of the two is inductive, and
TLC finds them violated when `AcquireRunLock` does not wait.

For the orchestrator the invariant adds three facts to the properties: before the
answer nothing has started and no result is set (`BeforeTheAnswer`), a stop begins with
the result settled (`Settled`), and the first call may take exactly what is left before
the reserve (`FirstCallHasBudget`). A workflow starts only in a step that leaves the
phase of the calls, hence once.

For the run endpoint, `AwaitedIsAsked` says that at most one call is waited for, that it is the
one of the phase the run is in, and that a call with rows carries the run's own
columns. Without it a late answer to a call that was given up could be heard by the next
one. `RepliesAreTold` is the case analysis over both transports: 200 exactly when nothing went
wrong and then by a model with the columns of the call. `RunFits` (scores only when they are
applied, no status while the run goes on) does the rest.

For the page requests, `OnItsWay` says that a request past its row has found its lift, so that
its key is one of the cache's (`KeyOfCache`), and `AnsweredAtTheEnd` that texts and statuses
are those of requests that have ended, whose reads no longer change. `PoolIsWhole` counts connections with the lemma `PoolMoves`, which every action
cites: a step of one request moves at most one.

For the ingest, `PassedInOrder` puts each request at a position of its batch, and its open rows
are just the new ones of the part it has passed. Rows go into the table only at a commit,
and an identity two requests have open would need one of them not to have waited; so
at a commit the open rows are exactly what `IngestRules` says the whole batch adds
(`PendingIsTheRest`), and the commit is a `Store` step of ReadingStore. Rows carry the request
that stored them, which is what `AcceptedFits` and `OneTryCounts` count by: the first try that
commits leaves the others nothing. For `RetriesNeverDeadlock`, take the try of the circle that has
come least far (`HasLeast`, from the library's well-founded induction). Another try of
the circle waits for it, which is to say at the identity of a row it has passed. Both go through
the same batch, so that other one has come less far still (`WaitsBehind`).

For the metrics, `Whole` says that a dict of counts adds up to the fleet, which it does when it
comes from one query, because each lift in scope is in one of the four buckets
(`FleetCountsAreWhole`, by `DisjointUnion`). `WholeOrEmpty` follows the dict from the task to the
snapshot and to the one the reader has in hand (`CountsFit`), and `ExportFits` has what the reader
has yielded so far agree with that one. `TaskFits` ties the task to the phase of
`lifespan`, and gives `RefreshStopsFirst`.

For the schema, `Accepted` says what a row may hold at each revision, and `OnTheWay` what it may
hold when the migrations to a release have come so far (`DraftFits`); what is committed is
Accepted (`FleetFits`), unless the database is `strayed`. The fleet is there as a whole or not at
all, and a release of 0 means that no process runs (`SeededOnce`); no backend is ahead of the schema
(`ReleasesInOrder`). So a process that seeds is of the schema's release, or a migration by hand
went past it. Nothing is assumed of which release follows which. Runs write from revision 8 on, and no
later migration touches the fleet. `ReadingsFit` says that ids are unique and that the row of least
id ever stored of an identity is there, and `DeletionFits` that what the draft deletes was never such a row,
whatever is stored, with whatever id, between the DELETE and the constraint: the row with a lesser
id that condemned it is in `ever`, which only grows. That every identity has a row of least id
(`FirstOfIdentity`) is the library's well-founded induction.

Assumptions. `EndpointAssumption` keeps "no model" and "no columns" apart from the real
ones; `IngestAssumption` has at least one try and batches that are lists of reports;
`MetricsAssumption` a finite fleet that contains its scope; `HistoryAssumption` only keeps
`None` apart from numbers and rows. `RequestsAssumption` asks for finitely many requests and a pool of at least one
connection. `OrchestratorAssumption` adds to the types only `StopDeadline < StopReserve`,
which is how `handler.mjs` computes the reserve. `RulesAssumption` and `FleetAssumption` give the constants their types, a
finite fleet and one relation, `Window <= Retention`: with a window longer than the retention a run
would sweep what it scored from. The defaults are 24 hours and 30 days; no code
compares them. `SettledReadingsSurvive` is proved for `Spec`, without fairness.

Only model-checked: `EveryRunEnds`, `CountsCatchUp` and both modules' `EveryRequestIsAnswered`,
which are liveness under fairness and so need ENABLED, which this prover does not
handle; and the four findings, which are counterexamples (`ScoringCalendar` exists for one
of them).

## Not modelled

- the feature arithmetic, contributions, explanation texts and the counts of a run's
  summary: no property reads them, and the decisions that depend on them are
  nondeterministic here;
- the field bounds of the ingest schema, and which timestamps are refused beyond the
  future one: a refused batch never reaches the service;
- the sweep inside TelemetryIngest: it is an action of FleetScoring; an identity that was
  swept may be stored again there;
- in the orchestrator: the contents of credentials, log lines and metrics, a rotation of
  the parameters while a sandbox is warm, and an invocation without a deadline header,
  which the Runtime API always sends;
- the numbers the scorer computes and its own spans; an SSM parameter that is not answered at the
  scorer's cold start, which only the function's timeout ends (in the model a `Die`);
- the wording of briefings and spans around them; that the cache is never emptied (one entry per
  lift and score, which a limit in the code would be needed to state anything about);
- the orchestration header's counters, the two gauges that are always absent, and the
  instrumentors: they keep no state a property here could relate;
- downgrades of migrations, which nothing in the repository runs;
- the frontend: its hazards (speech after navigation, answers out of order, a report form that
  reports success whatever the status) live in the order of the browser's own events and of the
  speech queue, so that nearly all of a model's behaviour would be of things outside the repository;
  the next module to write, as far as the components' own handlers go;
- of the deployment: the images, certificate renewals and reloads under the shared `flock`, which are steps of
  the host's tools, and `deploy/aws/70-host-env.sh:44`, which starts the backend of the working copy without its
  migrations (`up -d --no-deps backend`) and so may run one that is ahead of the schema;
- the training pipeline: a script that computes numbers once and keeps no state, whose results
  enter as the seeded rows;
- the infrastructure definitions and dashboards (no state of their own), and the end-to-end
  tests.

## Plan

Done: ScoringRules, AtomicScoring, FleetScoring; IngestRules, ReadingStore, TelemetryIngest;
OrchestratorInvocation, RunEndpoint, ElevatorRequests, FleetMetrics and SchemaHistory, all with
proofs; ScoringCalendar for its finding. Both refinements are stated with `INSTANCE ... WITH`
and proved.

Left:

1. The frontend: the voice briefing against the speech queue, the unit view against
   navigation, the report form.
2. Renewal and reload under the shared lock.
