---------------------------- MODULE FleetMetrics ----------------------------
(***************************************************************************)
(* The backend process and the fleet counts it exports: build_app and      *)
(* lifespan (app/main.py), the start and the end of telemetry              *)
(* (core/telemetry.py), the snapshot, its refresh task and the gauges      *)
(* (core/metrics.py) and the counting (services/fleet_health_service.py).  *)
(*                                                                         *)
(* The refresh task runs on the event loop; the gauges are read on a       *)
(* thread of the metric reader, one level at a time, while the task may    *)
(* replace the snapshot.  The host may build the application again in the  *)
(* same process.                                                           *)
(***************************************************************************)
EXTENDS Naturals, Sequences, FiniteSets

CONSTANTS
    Lifts,      \* the fleet
    InScope,    \* those the model scores
    MaxRuns     \* bound on the inference runs of the model

ASSUME MetricsAssumption ==
    /\ IsFiniteSet(Lifts)
    /\ InScope \subseteq Lifts
    /\ MaxRuns \in Nat

ScoredLevels == {"high", "medium", "low"}
RISK_LEVELS == <<"high", "medium", "low", "out_of_scope">>
Buckets == ScoredLevels \union {"out_of_scope"}

VARIABLES
    settings,   \* otel_enabled, otel_metrics_enabled, otel_logs_enabled
    phase,      \* where the process is in its life
    providers,  \* the signals with a provider
    configured, \* _has_been_configured
    registered, \* _instruments_registered
    level,      \* the committed risk level of every lift in scope
    runs,       \* inference runs so far
    snapshot,   \* counts_by_risk_level of _snapshot
    refreshed,  \* history: a refresh of this process has succeeded
    task,       \* the refresh task
    told,       \* what its query found
    collecting, \* the reader thread is inside the callback
    counts,     \* the dict it holds
    current,    \* history: a refresh had succeeded when it took the dict
    exported    \* what it has observed so far, in the order of RISK_LEVELS

vars == <<settings, phase, providers, configured, registered, level, runs, snapshot,
          refreshed, task, told, collecting, counts, current, exported>>
fleetVars == <<level, runs>>
taskVars == <<snapshot, refreshed, task, told>>
readerVars == <<collecting, counts, current, exported>>

Settings == [enabled : BOOLEAN, metrics : BOOLEAN, logs : BOOLEAN]
Counts == [Buckets -> 0 .. Cardinality(Lifts)]
_empty_counts == [b \in Buckets |-> 0]

TypeOK ==
    /\ settings \in Settings
    /\ phase \in {"down", "built", "serving", "cancelling", "flushing", "stopped"}
    /\ providers \subseteq {"traces", "metrics", "logs"}
    /\ {configured, registered, refreshed, collecting, current} \subseteq BOOLEAN
    /\ level \in [InScope -> ScoredLevels]
    /\ runs \in 0 .. MaxRuns
    /\ snapshot \in Counts /\ told \in Counts /\ counts \in Counts
    /\ task \in {"none", "asking", "told", "sleeping"}
    /\ exported \in Seq(0 .. Cardinality(Lifts))

\* The module globals of a fresh process.
Fresh ==
    /\ phase' = "down"
    /\ providers' = {}
    /\ configured' = FALSE
    /\ registered' = FALSE
    /\ snapshot' = _empty_counts
    /\ refreshed' = FALSE
    /\ task' = "none"
    /\ told' = _empty_counts
    /\ collecting' = FALSE
    /\ counts' = _empty_counts
    /\ current' = FALSE
    /\ exported' = << >>

Init ==
    /\ settings \in Settings
    /\ phase = "down"
    /\ providers = {}
    /\ configured = FALSE
    /\ registered = FALSE
    /\ level \in [InScope -> ScoredLevels]
    /\ runs = 0
    /\ snapshot = _empty_counts
    /\ refreshed = FALSE
    /\ task = "none"
    /\ told = _empty_counts
    /\ collecting = FALSE
    /\ counts = _empty_counts
    /\ current = FALSE
    /\ exported = << >>

-----------------------------------------------------------------------------
(* The life of the process                                                 *)

\* What configure_telemetry sets up: a signal switched off has no provider.
Configured ==
    {"traces"} \union (IF settings.metrics THEN {"metrics"} ELSE {})
               \union (IF settings.logs THEN {"logs"} ELSE {})

\* A second call skips; after a shutdown the global providers cannot be
\* replaced, and it raises: the process ends.
ConfigureTelemetry ==
    \/ /\ ~settings.enabled \/ providers # {}
       /\ phase' = "built"
       /\ UNCHANGED <<providers, configured, registered, taskVars, readerVars>>
    \/ /\ settings.enabled /\ providers = {} /\ ~configured
       /\ phase' = "built"
       /\ providers' = Configured
       /\ configured' = TRUE
       /\ UNCHANGED <<registered, taskVars, readerVars>>
    \/ /\ settings.enabled /\ providers = {} /\ configured
       /\ Fresh

\* build_app, at import and whenever the host builds again.
Build ==
    /\ phase \in {"down", "built", "stopped"}
    /\ ConfigureTelemetry
    /\ UNCHANGED <<settings, fleetVars>>

\* lifespan up to its yield; seeding may fail, and the start-up with it.
Start ==
    /\ phase = "built"
    /\ \/ Fresh
       \/ /\ phase' = "serving"
          /\ registered' = (registered \/ settings.enabled)
          /\ task' = IF settings.enabled THEN "asking" ELSE "none"
          /\ UNCHANGED <<providers, configured, snapshot, refreshed, told, readerVars>>
    /\ UNCHANGED <<settings, fleetVars>>

\* Mutated: the cancelled task is not waited for.
StopAtOnce ==
    /\ phase = "serving"
    /\ phase' = "flushing"
    /\ UNCHANGED <<settings, providers, configured, registered, fleetVars, taskVars, readerVars>>
\* lifespan after its yield: cancel the task, if there is one.
Stop ==
    /\ phase = "serving"
    /\ phase' = IF task = "none" THEN "flushing" ELSE "cancelling"
    /\ UNCHANGED <<settings, providers, configured, registered, fleetVars, taskVars, readerVars>>

\* The task ends at its await, in the query or in the sleep, and raises
\* CancelledError, which lifespan awaits and suppresses.
TaskCancelled ==
    /\ phase = "cancelling"
    /\ task' = "none"
    /\ phase' = "flushing"
    /\ UNCHANGED <<settings, providers, configured, registered, fleetVars, snapshot,
                   refreshed, told, readerVars>>

\* shutdown_telemetry: flush what is left, and forget the providers.
ShutDown ==
    /\ phase = "flushing"
    /\ ~collecting
    /\ phase' = "stopped"
    /\ providers' = {}
    /\ UNCHANGED <<settings, configured, registered, fleetVars, taskVars, readerVars>>

Crash ==
    /\ phase # "down"
    /\ Fresh
    /\ UNCHANGED <<settings, fleetVars>>

-----------------------------------------------------------------------------
(* The refresh task                                                        *)

LevelOf(e) == IF e \in InScope THEN level[e] ELSE "out_of_scope"
\* compute_snapshot: a lift out of scope counts in its own bucket.
FleetCounts == [b \in Buckets |-> Cardinality({e \in Lifts : LevelOf(e) = b})]

\* The query sees the fleet of one moment.
Query ==
    /\ phase = "serving"
    /\ task = "asking"
    /\ told' = FleetCounts
    /\ task' = "told"
    /\ UNCHANGED <<settings, phase, providers, configured, registered, fleetVars, snapshot,
                   refreshed, readerVars>>

\* The task goes on when the event loop comes to it.
SetSnapshot ==
    /\ phase = "serving"
    /\ task = "told"
    /\ snapshot' = told
    /\ refreshed' = TRUE
    /\ task' = "sleeping"
    /\ UNCHANGED <<settings, phase, providers, configured, registered, fleetVars, told, readerVars>>

\* Mutated: an error outside refresh_snapshot_once ends the loop.
QueryFailsForGood ==
    /\ phase = "serving"
    /\ task \in {"asking", "told"}
    /\ task' = "none"
    /\ UNCHANGED <<settings, phase, providers, configured, registered, fleetVars,
                   snapshot, refreshed, told, readerVars>>
\* No session, or no answer: the previous snapshot stays and the loop goes on.
QueryFails ==
    /\ phase = "serving"
    /\ task \in {"asking", "told"}
    /\ task' = "sleeping"
    /\ UNCHANGED <<settings, phase, providers, configured, registered, fleetVars,
                   snapshot, refreshed, told, readerVars>>

Wake ==
    /\ phase = "serving"
    /\ task = "sleeping"
    /\ task' = "asking"
    /\ UNCHANGED <<settings, phase, providers, configured, registered, fleetVars, snapshot,
                   refreshed, told, readerVars>>

-----------------------------------------------------------------------------
(* The rest of the system                                                  *)

\* An inference run commits new scores.
Run ==
    /\ runs < MaxRuns
    /\ runs' = runs + 1
    /\ level' \in [InScope -> ScoredLevels]
    /\ UNCHANGED <<settings, phase, providers, configured, registered, taskVars, readerVars>>

\* The reader collects: the callback takes the dict of the current snapshot.
Collect ==
    /\ "metrics" \in providers
    /\ registered
    /\ ~collecting
    /\ collecting' = TRUE
    /\ counts' = snapshot
    /\ current' = refreshed
    /\ exported' = << >>
    /\ UNCHANGED <<settings, phase, providers, configured, registered, fleetVars, taskVars>>

\* Mutated: every level is read from the snapshot there is by then.
ObserveCurrent ==
    /\ collecting
    /\ exported' = Append(exported, snapshot[RISK_LEVELS[Len(exported) + 1]])
    /\ collecting' = (Len(exported') < Len(RISK_LEVELS))
    /\ UNCHANGED <<settings, phase, providers, configured, registered, fleetVars, taskVars,
                   counts, current>>
\* It yields one observation after the other.
Observe ==
    /\ collecting
    /\ exported' = Append(exported, counts[RISK_LEVELS[Len(exported) + 1]])
    /\ collecting' = (Len(exported') < Len(RISK_LEVELS))
    /\ UNCHANGED <<settings, phase, providers, configured, registered, fleetVars, taskVars,
                   counts, current>>

-----------------------------------------------------------------------------

Next ==
    \/ Build \/ Start \/ Stop \/ TaskCancelled \/ ShutDown \/ Crash
    \/ Query \/ SetSnapshot \/ QueryFails \/ Wake \/ Run \/ Collect \/ Observe

Spec == Init /\ [][Next]_vars

\* The loop goes on, and the database answers again and again.
FairSpec ==
    /\ Spec
    /\ WF_vars(Wake) /\ WF_vars(QueryFails \/ Query)
    /\ SF_vars(Query) /\ SF_vars(SetSnapshot)

-----------------------------------------------------------------------------
(* Properties                                                              *)

Total(s) == s[1] + s[2] + s[3] + s[4]
Complete == Len(exported) = Len(RISK_LEVELS)

\* An export is one snapshot of the whole fleet, even if a refresh replaces the
\* snapshot while the reader is between two levels and a run moves lifts from
\* one level to another.  It is blank before the first refresh has succeeded,
\* and only then: no failure after it blanks what is exported (metrics.py: "a
\* stale dashboard, not a blank one").
ExportIsOneSnapshot ==
    Complete => /\ Total(exported) = IF current THEN Cardinality(Lifts) ELSE 0
                /\ current => exported[4] = Cardinality(Lifts \ InScope)

\* Nothing of the refresh task is left when the providers are shut down, so
\* that no query or span of it outlives them (lifespan: "so shutdown does not
\* race the task").
RefreshStopsFirst ==
    phase \in {"flushing", "stopped"} => task = "none"

\* While the process serves, the snapshot catches up with the fleet, through
\* any number of failed refreshes: the loop is the only scheduler and survives
\* them all.
CountsCatchUp ==
    <>[](phase = "serving" /\ settings.enabled) => <>[](snapshot = FleetCounts)
=============================================================================
