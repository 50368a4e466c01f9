---------------------------- MODULE FleetScoring ----------------------------
(***************************************************************************)
(* Concurrent inference runs over one database, with telemetry arriving    *)
(* while they work: InferenceService.run in                                *)
(* backend/app/services/inference_service.py inside the per-request        *)
(* transaction of backend/app/database.py.                                 *)
(*                                                                         *)
(* A run is one HTTP request.  It reads the clock, takes a transaction-    *)
(* scoped advisory lock, loads the fleet and aggregates its window, calls  *)
(* the model, writes the scored rows inside its transaction and sweeps old *)
(* telemetry; the transaction commits when the handler has returned.  Any  *)
(* exception on the way rolls it back.  The default isolation level is     *)
(* READ COMMITTED, so what a statement reads is what is committed when it  *)
(* runs.                                                                   *)
(***************************************************************************)
EXTENDS ScoringRules

CONSTANTS
    Runs,           \* concurrent requests to POST /api/inference/run
    NoRun,          \* the run lock is free
    MaxTime,        \* bound on the clock
    MaxReadings,    \* bound on the rows of telemetry_readings
    SeedTrends,     \* trends the seed may give an elevator
    LegacyReadings  \* rows older than ingest's validation

ASSUME FleetAssumption ==
    /\ NoRun \notin Runs
    /\ MaxTime \in Nat
    /\ MaxReadings \in Nat
    /\ SeedTrends \subseteq Seq(Nat)
    /\ LegacyReadings \subseteq Readings

VARIABLES
    clock,      \* datetime.now(UTC)
    readings,   \* committed rows of telemetry_readings
    elevators,  \* committed rows of elevators with their child rows
    lock,       \* holder of pg_advisory_xact_lock(RUN_LOCK_KEY)
    phase,      \* how far each run has come
    now,        \* the instant each run measures its window and prune from
    seen,       \* last_scored_at of every elevator, as the run loaded it
    targets,    \* elevators the run scores
    writes      \* rows the run has written and not committed

vars == <<clock, readings, elevators, lock, phase, now, seen, targets, writes>>
runVars == <<now, seen, targets, writes>>

Phases == {"idle", "waiting", "locked", "scoring", "applied"}
Inside == {"locked", "scoring", "applied"}

TypeOK ==
    /\ clock \in Nat
    /\ readings \in SUBSET Readings
    /\ elevators \in [Elevators -> Rows]
    /\ lock \in Runs \union {NoRun}
    /\ phase \in [Runs -> Phases]
    /\ now \in [Runs -> Nat]
    /\ seen \in [Runs -> [Elevators -> Int]]
    /\ targets \in [Runs -> SUBSET InScope]
    /\ writes \in [Runs -> [Elevators -> Rows]]

NothingSeen == [e \in Elevators |-> Never]
NothingWritten ==
    [e \in Elevators |-> [risk_score |-> 0, risk_level |-> "low", explained |-> 0,
                          last_scored_at |-> Never, trend |-> << >>]]

LastScoredAt == [e \in Elevators |-> elevators[e].last_scored_at]

\* Seeding is a scoring event: it stamps every row, and a seeded trend ends
\* with the score that goes with it.  Out-of-scope rows have no score and no
\* trend.
SeedRows(t, stamp) ==
    LET score == IF t = << >> THEN 0 ELSE t[Len(t)]
    IN  [risk_score |-> score, risk_level |-> RiskLevel(score), explained |-> score,
         last_scored_at |-> stamp, trend |-> t]

Init ==
    /\ clock = 0
    /\ readings \in SUBSET LegacyReadings
    /\ \E t \in [InScope -> SeedTrends], stamp \in {Never, 0} :
         elevators = [e \in Elevators |->
                        SeedRows(IF e \in InScope THEN t[e] ELSE << >>, stamp)]
    /\ lock = NoRun
    /\ phase = [r \in Runs |-> "idle"]
    /\ now = [r \in Runs |-> 0]
    /\ seen = [r \in Runs |-> NothingSeen]
    /\ targets = [r \in Runs |-> {}]
    /\ writes = [r \in Runs |-> NothingWritten]

-----------------------------------------------------------------------------
(* The rest of the backend                                                 *)

Tick ==
    /\ clock < MaxTime
    /\ clock' = clock + 1
    /\ UNCHANGED <<readings, elevators, lock, phase, runVars>>

\* POST /api/telemetry/readings commits a reading whose identity is new and
\* whose timestamp is no further ahead than the accepted skew.  It was checked
\* against a clock no later than this one.
Ingest ==
    /\ Cardinality(readings) < MaxReadings
    /\ \E e \in Elevators, at \in 0 .. clock + Skew :
        /\ \A y \in readings : y.elevator = e => y.recorded_at # at
        /\ readings' = readings \union
             {[elevator |-> e, recorded_at |-> at, stored_at |-> clock,
               plausible |-> TRUE]}
    /\ UNCHANGED <<clock, elevators, lock, phase, runVars>>

-----------------------------------------------------------------------------
(* One run                                                                 *)

\* The request arrives; `now` is fixed here, before the lock.
Begin(r) ==
    /\ phase[r] = "idle"
    /\ phase' = [phase EXCEPT ![r] = "waiting"]
    /\ now' = [now EXCEPT ![r] = clock]
    /\ UNCHANGED <<clock, readings, elevators, lock, seen, targets, writes>>

\* Goes ahead whoever holds the lock.
SkipRunLock(r) ==
    /\ phase[r] = "waiting"
    /\ lock' = r
    /\ phase' = [phase EXCEPT ![r] = "locked"]
    /\ UNCHANGED <<clock, readings, elevators, runVars>>

AcquireRunLock(r) ==
    /\ phase[r] = "waiting"
    /\ lock = NoRun
    /\ lock' = r
    /\ phase' = [phase EXCEPT ![r] = "locked"]
    /\ UNCHANGED <<clock, readings, elevators, runVars>>

\* list_all and aggregate_window, then the out-of-band exclusion.  With
\* nothing to score the run goes straight on to the prune.
ReadFleet(r) ==
    /\ phase[r] = "locked"
    /\ seen' = [seen EXCEPT ![r] = LastScoredAt]
    /\ \E scorable \in ScorableSets(readings, now[r]) :
         /\ targets' = [targets EXCEPT ![r] = scorable]
         /\ phase' = [phase EXCEPT ![r] =
                        IF scorable = {} THEN "applied" ELSE "scoring"]
    /\ UNCHANGED <<clock, readings, elevators, lock, now, writes>>

\* The model answers, and every target is rescored inside the transaction.
\* The trend points are read back here, in _shift_trend.
ScoreAndApply(r) ==
    /\ phase[r] = "scoring"
    /\ \E raw \in [targets[r] -> RawScores] :
         writes' = [writes EXCEPT ![r] =
            [e \in Elevators |->
                IF e \in targets[r]
                THEN Rescored(seen[r][e], elevators[e].trend, raw[e], now[r])
                ELSE NothingWritten[e]]]
    /\ phase' = [phase EXCEPT ![r] = "applied"]
    /\ UNCHANGED <<clock, readings, elevators, lock, now, seen, targets>>

\* The transaction's private state goes with the transaction.
Forget(r) ==
    /\ phase' = [phase EXCEPT ![r] = "idle"]
    /\ now' = [now EXCEPT ![r] = 0]
    /\ seen' = [seen EXCEPT ![r] = NothingSeen]
    /\ targets' = [targets EXCEPT ![r] = {}]
    /\ writes' = [writes EXCEPT ![r] = NothingWritten]

\* The prune and the commit of the request's session.  No statement of the
\* run lies between them, so a reading committed in between is only ordered
\* after the prune.
Commit(r) ==
    /\ phase[r] = "applied"
    /\ elevators' = [e \in Elevators |->
                       IF e \in targets[r] THEN writes[r][e] ELSE elevators[e]]
    /\ readings' = Pruned(readings, now[r])
    /\ lock' = NoRun
    /\ Forget(r)
    /\ UNCHANGED clock

\* Commits the rows written so far when the rest of the request fails.
AbortHalfway(r) ==
    /\ phase[r] # "idle"
    /\ elevators' = [e \in Elevators |->
                       IF phase[r] = "applied" /\ e \in targets[r]
                       THEN writes[r][e] ELSE elevators[e]]
    /\ lock' = IF lock = r THEN NoRun ELSE lock
    /\ Forget(r)
    /\ UNCHANGED <<clock, readings>>

\* Rolls back but keeps a session-level lock.
AbortKeepingLock(r) ==
    /\ phase[r] # "idle"
    /\ Forget(r)
    /\ UNCHANGED <<clock, readings, elevators, lock>>

\* Loses its connection, is refused by the model, raises FeatureBuildError
\* or dies with the server: the database rolls back and frees the lock.
Abort(r) ==
    /\ phase[r] # "idle"
    /\ lock' = IF lock = r THEN NoRun ELSE lock
    /\ Forget(r)
    /\ UNCHANGED <<clock, readings, elevators>>

-----------------------------------------------------------------------------
Next ==
    \/ Tick
    \/ Ingest
    \/ \E r \in Runs :
        \/ Begin(r)
        \/ AcquireRunLock(r)
        \/ ReadFleet(r)
        \/ ScoreAndApply(r)
        \/ Commit(r)
        \/ Abort(r)

\* A run inside its transaction always moves on: every call it makes has a
\* timeout, so it ends in an answer or in an exception.
Progress(r) ==
    \/ ReadFleet(r)
    \/ ScoreAndApply(r)
    \/ Commit(r)
    \/ phase[r] \in Inside /\ Abort(r)

\* PostgreSQL queues the waiters of a lock in order, so none is overtaken
\* for ever.
Fairness ==
    \A r \in Runs : WF_vars(Progress(r)) /\ SF_vars(AcquireRunLock(r))

Spec == Init /\ [][Next]_vars
FairSpec == Spec /\ Fairness
-----------------------------------------------------------------------------
(* What a run relies on                                                    *)

\* The lock is held exactly by the run inside its transaction.
LockIsHeld == \A r \in Runs : phase[r] \in Inside <=> lock = r

\* What a run inside its transaction loaded and wrote still fits the
\* committed rows: nothing it decided from has gone stale.  The lock is what
\* makes it so, since list_all and the trend select take no row lock.
SnapshotIsCurrent ==
    \A r \in Runs :
        /\ phase[r] \in {"scoring", "applied"} => seen[r] = LastScoredAt
        /\ phase[r] = "applied" => \A e \in targets[r] : \E raw \in RawScores :
             writes[r][e] = Rescored(elevators[e].last_scored_at,
                                     elevators[e].trend, raw, now[r])

\* The readings a run decided from stay in the table until it commits: no
\* other run sweeps them meanwhile.  What has come since is newer than the
\* instant the run began.
DecisionIsCurrent ==
    \A r \in Runs : phase[r] \in {"scoring", "applied"} =>
        \E rows \in SUBSET readings :
            /\ {x \in readings : x.stored_at < now[r]} \subseteq rows
            /\ targets[r] \in ScorableSets(rows, now[r])

\* A run never dates its work ahead of the clock.
NowIsPast == \A r \in Runs : now[r] <= clock

-----------------------------------------------------------------------------
(* Properties                                                              *)

\* A scored row is of one piece: its level, its feature rows and the last
\* point of its trend all belong to the stored (rounded) score, whatever
\* runs, aborts and re-runs came before (_apply, inference_service.py).
RowsAreCoherent ==
    \A e \in InScope : elevators[e].trend # << >> =>
        /\ elevators[e].risk_level = RiskLevel(elevators[e].risk_score)
        /\ elevators[e].explained = elevators[e].risk_score
        /\ elevators[e].trend[Len(elevators[e].trend)] = elevators[e].risk_score

\* Between two committed scores of a lift the trend moves exactly as the
\* calendar says: the same day replaces today's point, another day drops the
\* oldest one, and the result has the contract length.  This is what two
\* overlapping runs would break without the lock (_acquire_run_lock).
TrendFollowsDays ==
    [][\A e \in Elevators : elevators'[e] # elevators[e] =>
         elevators'[e].trend =
            PointwiseTrend(elevators[e].trend, elevators'[e].risk_score,
                           ScoredToday(elevators[e].last_scored_at,
                                       elevators'[e].last_scored_at))]_vars

\* A lift is rescored only on evidence, and the evidence survives the run:
\* a reading of the window is there before the commit and after its prune.
\* A silent lift, or one out of scope, keeps its row (aggregate_window).
ScoredOnlyOnEvidence ==
    [][\A e \in Elevators : elevators'[e] # elevators[e] =>
         /\ e \in InScope
         /\ \E x \in readings \intersect readings' :
              x.elevator = e /\ InWindow(x, elevators'[e].last_scored_at)]_vars

\* One bad sensor costs one lift its score, a broken conversion costs the
\* whole fleet: the lifts a run scores are never outnumbered by the lifts it
\* had to leave out (assert_conversion_is_not_broken).
BadLiftsStayAMinority ==
    [][\A e \in Elevators : elevators'[e] # elevators[e] =>
         LET at == elevators'[e].last_scored_at
             scored == {f \in InScope : elevators'[f].last_scored_at = at}
             bad == {f \in Reporting(readings, at) : \A x \in readings :
                       x.elevator = f /\ InWindow(x, at) => ~x.plausible}
         IN  Cardinality(bad) <= Cardinality(scored)]_vars

\* A reading ingest accepted leaves the table before its retention is over
\* only if the run that sweeps it began before the reading was stored
\* (_prune, and the skew ingest grants in schemas/telemetry.py).
SettledReadingsSurvive ==
    [][\A x \in readings \ readings' :
         \/ x.recorded_at < clock - Retention
         \/ x.recorded_at > x.stored_at + Skew
         \/ \E r \in Runs : phase[r] = "applied" /\ now[r] < x.stored_at]_vars

\* Every run that waits for the lock ends, whatever becomes of the runs
\* before it: a run that dies releases the lock with its transaction.
EveryRunEnds == \A r \in Runs : phase[r] = "waiting" ~> phase[r] = "idle"

\* Concurrent runs, however they interleave with each other, with ingest and
\* with failures, look like whole runs one at a time.
Atomic == INSTANCE AtomicScoring WITH
    clock <- clock, readings <- readings, elevators <- elevators
RunsAreAtomic == Atomic!Spec

-----------------------------------------------------------------------------
(* Claims of the repository that the code does not keep                    *)

\* inference_service.py:247-250 and 316-317: a reading ingest accepted is
\* not swept as future-dated.
AcceptedReadingsSurvive ==
    [][\A x \in readings \ readings' :
         x.recorded_at <= x.stored_at + Skew =>
            x.recorded_at < clock - Retention]_vars
=============================================================================
