--------------------------- MODULE SchemaHistory ---------------------------
(***************************************************************************)
(* The life of one database through the releases of the backend: the       *)
(* migrations of alembic/versions, the transaction they run in             *)
(* (alembic/env.py), and the seed every backend process runs when it       *)
(* starts (app/seed.py).                                                   *)
(*                                                                         *)
(* A deploy stops the backends of the release before, applies all pending  *)
(* migrations in one transaction, with the predictions.json of its own     *)
(* release, and starts its backends when the transaction has committed.    *)
(* Nothing says that it gets that far: it may fail anywhere, and another   *)
(* release, a newer or an older one, may be deployed next.  Migrating by   *)
(* hand, as in development, leaves the backends serving meanwhile.         *)
(* A release is named by the number of its last migration.                 *)
(***************************************************************************)
EXTENDS Naturals, FiniteSets

CONSTANTS
    Lifts,          \* ids of predictions.json
    Backends,       \* backend processes of a release
    Reports,        \* visit reports of the model
    Identities,     \* (elevator_id, recorded_at, source) of readings
    MaxReadings,    \* bound on the rows ever stored in telemetry_readings
    None            \* no row, no transaction

HeadRevision == 9
ASSUME HistoryAssumption ==
    /\ MaxReadings \in Nat
    /\ None \notin Nat
    /\ None \notin [row : Nat, features : Nat, explanation : Nat]

VARIABLES
    revision,   \* alembic_version
    fleet,      \* every lift's row, features and explanation, if it has a row
    reports,    \* visit_reports
    readings,   \* telemetry_readings: records of id and identity
    ever,       \* history: every reading ever committed
    unique,     \* uq_telemetry_readings_identity is there
    draft,      \* the transaction of the migrations
    target,     \* the release of the migrating container
    release,    \* the release of the backends, 0 when there are none
    backend,    \* the state of each backend
    strayed     \* history: the fleet of another release than the schema's was seeded

readingVars == <<readings, ever, unique>>
dataVars == <<revision, fleet, reports, readingVars, strayed>>
deployVars == <<target, release, backend>>
vars == <<dataVars, draft, deployVars>>

\* What predictions.json says of a lift in each release: 0aac and 2c43 came
\* with a new fleet, 97f0 with new features, 56cd with features and
\* explanations in Celsius.
Predicted(r) ==
    [row |-> IF r < 4 THEN r ELSE 3,
     features |-> IF r < 6 THEN r ELSE 5,
     explanation |-> IF r < 4 THEN r ELSE IF r = 4 THEN 3 ELSE 5]
\* What an inference run writes over it.
ByRun == [row |-> 10, features |-> 10, explanation |-> 10]

AllOff == [b \in Backends |-> "off"]

Init ==
    /\ revision = 0
    /\ fleet = [l \in Lifts |-> None]
    /\ reports = {}
    /\ readings = {}
    /\ ever = {}
    /\ unique = FALSE
    /\ draft = None
    /\ target = 0
    /\ release = 0
    /\ backend = AllOff
    /\ strayed = FALSE

-----------------------------------------------------------------------------
(* The backends                                                            *)

\* A process starts, and counts the lifts.
Count(b) ==
    /\ release > 0
    /\ backend[b] = "off"
    /\ backend' = [backend EXCEPT ![b] =
                     IF \E l \in Lifts : fleet[l] # None THEN "serving" ELSE "seeding"]
    /\ UNCHANGED <<dataVars, draft, target, release>>

\* The whole fleet is inserted in one transaction.  Another process may have
\* been faster: the ids collide, the start-up fails and is tried again.
Seed(b) ==
    /\ backend[b] = "seeding"
    /\ \/ /\ \A l \in Lifts : fleet[l] = None
          /\ fleet' = [l \in Lifts |-> Predicted(release)]
          /\ strayed' = (strayed \/ release # revision \/ draft # None)
          /\ backend' = [backend EXCEPT ![b] = "serving"]
       \/ /\ UNCHANGED <<fleet, strayed>>
          /\ backend' = [backend EXCEPT ![b] = "off"]
    /\ UNCHANGED <<revision, reports, readingVars, draft, target, release>>

Serving == \E b \in Backends : backend[b] = "serving"

Crash(b) ==
    /\ backend[b] # "off"
    /\ backend' = [backend EXCEPT ![b] = "off"]
    /\ UNCHANGED <<dataVars, draft, target, release>>

SubmitReport ==
    /\ Serving
    /\ \E p \in Reports \ reports : reports' = reports \union {p}
    /\ UNCHANGED <<revision, fleet, readingVars, strayed, draft, deployVars>>

\* An inference run, which needs last_scored_at.
Rescore ==
    /\ Serving
    /\ release >= 8
    /\ \E l \in Lifts : fleet' = [fleet EXCEPT ![l] = ByRun]
    /\ UNCHANGED <<revision, reports, readingVars, strayed, draft, deployVars>>

Stored(i) == {x \in readings : x.identity = i}

\* Ingest commits a reading.  Its id is of the INSERT, so ids may be
\* committed in any order.  With the constraint, a reading that is there
\* already is not stored again (or refused, by a backend that is older than
\* the constraint).  The constraint is created under a lock that keeps
\* writers out until the end.
StoreReading ==
    /\ Serving
    /\ release >= 7
    /\ ~(draft # None /\ draft.unique)
    /\ \E i \in Identities, id \in 1 .. MaxReadings :
        /\ \A x \in ever : x.id # id
        /\ unique => Stored(i) = {}
        /\ readings' = readings \union {[id |-> id, identity |-> i]}
        /\ ever' = ever \union {[id |-> id, identity |-> i]}
    /\ UNCHANGED <<revision, fleet, reports, unique, strayed, draft, deployVars>>

-----------------------------------------------------------------------------
(* The migrations                                                          *)

\* What the transaction sees of the fleet: its own writes over what is
\* committed.
Seen(l) == IF draft.writes[l] # None THEN draft.writes[l] ELSE fleet[l]
Present == {l \in Lifts : Seen(l) # None}

\* One migration, in the transaction: lifts that have a row get new content.
Migrate(number, content) ==
    /\ draft # None
    /\ draft.revision = number - 1
    /\ number <= target
    /\ draft' = [draft EXCEPT
                   !.revision = number,
                   !.writes = [l \in Lifts |->
                                 IF l \in Present THEN content[l] ELSE None]]
    /\ UNCHANGED <<dataVars, deployVars>>

Same == [l \in Present |-> Seen(l)]
ToPredicted == [l \in Present |-> Predicted(target)]
ToFeatures == [l \in Present |-> [Seen(l) EXCEPT !.features = Predicted(target).features]]
\* Mutated: the follow-up of 56cd is forgotten.
ToNoExplanation == Same
ToExplanation ==
    [l \in Present |-> [Seen(l) EXCEPT !.explanation = Predicted(target).explanation]]

\* Mutated: the fleet is deleted for the seed to bring back, and the reports
\* go with it (ON DELETE CASCADE).
ResyncByReseeding ==
    /\ draft # None
    /\ draft.revision = 1
    /\ 2 <= target
    /\ draft' = [draft EXCEPT !.revision = 2]
    /\ fleet' = [l \in Lifts |-> None]
    /\ reports' = {}
    /\ UNCHANGED <<revision, readingVars, strayed, deployVars>>

\* 638e: the tables.  0aac and 2c43: the fleet again, in place.  97f0 and
\* 56cd: the features again.  aa3f: the explanations.  4be5: the table of
\* readings.  3d92: last_scored_at.
CreateTables == Migrate(1, Same)
ResyncElevators == Migrate(2, ToPredicted)
ResyncMotorLife == Migrate(3, ToPredicted)
AddDirection == Migrate(4, ToFeatures)
ResyncFeatures == Migrate(5, ToFeatures)
ResyncExplanation == Migrate(6, ToExplanation)
CreateReadings == Migrate(7, Same)
AddLastScoredAt == Migrate(8, Same)

\* Mutated: the newest row of an identity is kept.
DeleteOlder ==
    /\ draft # None
    /\ draft.revision = 8 /\ target = 9 /\ draft.gone = None
    /\ draft' = [draft EXCEPT !.gone =
                   {x.id : x \in {y \in readings :
                                    \E z \in Stored(y.identity) : z.id > y.id}}]
    /\ UNCHANGED <<dataVars, deployVars>>
\* 7c1e, first statement: only the oldest row of an identity is kept.
DeleteDuplicates ==
    /\ draft # None
    /\ draft.revision = 8 /\ target = 9 /\ draft.gone = None
    /\ draft' = [draft EXCEPT !.gone =
                   {x.id : x \in {y \in readings :
                                    \E z \in Stored(y.identity) : z.id < y.id}}]
    /\ UNCHANGED <<dataVars, deployVars>>

Left ==
    IF draft.gone = None THEN readings ELSE {x \in readings : x.id \notin draft.gone}

\* Its second: what was stored in the meantime may be a duplicate again, and
\* the constraint cannot be created; the transaction can only be rolled back.
CreateConstraint ==
    /\ draft # None
    /\ draft.revision = 8 /\ target = 9 /\ draft.gone # None
    /\ \A x, y \in Left : x.identity = y.identity => x = y
    /\ draft' = [draft EXCEPT !.revision = 9, !.unique = TRUE]
    /\ UNCHANGED <<dataVars, deployVars>>

-----------------------------------------------------------------------------
(* The deploy                                                              *)

\* `up -d` of any image at any time, and whatever became of the deploy
\* before.  The containers of other images are stopped first, the migrating
\* one among them.
Deploy ==
    /\ target' \in 1 .. HeadRevision
    /\ draft' = None
    /\ IF target' = release
         THEN UNCHANGED <<release, backend>>
         ELSE release' = 0 /\ backend' = AllOff
    /\ UNCHANGED dataVars

\* The migrating container alone is put in the place of the old one.
MigrateByHand ==
    /\ target' \in 1 .. HeadRevision
    /\ draft' = None
    /\ UNCHANGED <<dataVars, release, backend>>

\* An image older than the schema does not know its revision, and fails.
Begin ==
    /\ draft = None
    /\ revision < target
    /\ draft' = [revision |-> revision, writes |-> [l \in Lifts |-> None],
                 gone |-> None, unique |-> unique]
    /\ UNCHANGED <<dataVars, deployVars>>

\* The migrating container fails, and is started again.
RollBack ==
    /\ draft # None
    /\ draft' = None
    /\ UNCHANGED <<dataVars, deployVars>>

Commit ==
    /\ draft # None
    /\ draft.revision = target
    /\ revision' = target
    /\ fleet' = [l \in Lifts |-> Seen(l)]
    /\ readings' = Left
    /\ unique' = draft.unique
    /\ draft' = None
    /\ UNCHANGED <<reports, ever, strayed, deployVars>>

\* The new backends start when the migrating container has succeeded.
Start ==
    /\ release = 0
    /\ target > 0
    /\ revision = target
    /\ release' = target
    /\ UNCHANGED <<dataVars, draft, target, backend>>

-----------------------------------------------------------------------------

Upgrade ==
    \/ CreateTables \/ ResyncElevators \/ ResyncMotorLife \/ AddDirection
    \/ ResyncFeatures \/ ResyncExplanation \/ CreateReadings \/ AddLastScoredAt
    \/ DeleteDuplicates \/ CreateConstraint

Next ==
    \/ \E b \in Backends : Count(b) \/ Seed(b) \/ Crash(b)
    \/ SubmitReport \/ Rescore \/ StoreReading
    \/ Deploy \/ MigrateByHand \/ Begin \/ Upgrade \/ RollBack \/ Commit \/ Start

Spec == Init /\ [][Next]_vars

-----------------------------------------------------------------------------
(* Properties                                                              *)

\* No deploy takes away what visitors and inference runs have written: a
\* report stays, and a lift that a run has scored keeps its score
\* (0aac4958720e: the fleet is resynced in place because of ON DELETE CASCADE).
WrittenDataSurvives ==
    [][ /\ reports \subseteq reports'
        /\ \A l \in Lifts : fleet[l] = ByRun => fleet'[l] = ByRun ]_vars

\* Whatever releases a database went through, skipped, failed to reach or
\* fell back to, and however many processes seeded it, a backend that serves
\* the schema of its release finds the whole fleet, every part of it as its
\* own predictions.json says or as a run wrote it.  56cd241fcfd6 alone left
\* the explanations behind (aa3f0fc81e9c).  Excepted is a database that was
\* migrated by hand past a process that had counted no lift yet, and seeded
\* the fleet of its own release afterwards: a deploy stops such a process.
FleetIsOfItsRelease ==
    Serving /\ release = revision /\ release # 5 /\ ~strayed =>
        \A l \in Lifts : fleet[l] \in {Predicted(release), ByRun}

IsFirst(x) == \A y \in ever : y.identity = x.identity => x.id <= y.id

\* The row of least id of those ever stored of an identity is never lost,
\* neither to the migration that deletes duplicates nor to a request that
\* stores another one beside it, whatever order they are committed in; and
\* with the constraint it is the only one (7c1e4b9a2d33: "keeping the lowest
\* id per identity").
FirstStoredIsKept ==
    \A x \in ever : IsFirst(x) =>
        /\ x \in readings
        /\ unique => Stored(x.identity) = {x}
=============================================================================
