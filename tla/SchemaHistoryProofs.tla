------------------------ MODULE SchemaHistoryProofs -------------------------
(***************************************************************************)
(* Proofs about SchemaHistory, for any fleet, backends, reports, readings  *)
(* and sequence of deploys.                                                *)
(*                                                                         *)
(* Of the fleet: what a lift's row can hold is known for every revision of *)
(* the schema, and for every point a migration can be at, until a process  *)
(* that a migration by hand went past seeds it.                            *)
(* Of the readings: what the migration deletes has a row of its identity   *)
(* and of lesser id beside it, and what has the least id is never such a   *)
(* row, whatever is stored in the meantime.                                *)
(***************************************************************************)
EXTENDS SchemaHistory, WellFoundedInduction, TLAPS

-----------------------------------------------------------------------------
(* The inductive invariant                                                 *)

Content == [row : Nat, features : Nat, explanation : Nat]
Made(r, f, e) == [row |-> r, features |-> f, explanation |-> e]

Drafts == [revision : 0 .. HeadRevision, writes : [Lifts -> Content \union {None}],
           gone : {None} \union SUBSET Nat, unique : BOOLEAN]

TypeFits ==
    /\ {revision, target, release} \subseteq 0 .. HeadRevision
    /\ fleet \in [Lifts -> Content \union {None}]
    /\ ever \subseteq [id : 1 .. MaxReadings, identity : Identities]
    /\ readings \subseteq ever
    /\ {unique, strayed} \subseteq BOOLEAN
    /\ backend \in [Backends -> {"off", "seeding", "serving"}]
    /\ draft # None => draft \in Drafts

(* No backend is ahead of the schema, and a migration that is under way is *)
(* between the schema and its release.                                     *)
ReleasesInOrder ==
    /\ release <= revision
    /\ draft # None => /\ revision < target
                       /\ revision <= draft.revision
                       /\ draft.revision <= target

Empty == \A l \in Lifts : fleet[l] = None
Full == \A l \in Lifts : fleet[l] # None

(* The fleet is there as a whole or not at all, and with it whoever serves. *)
SeededOnce ==
    /\ Empty \/ Full
    /\ revision = 0 => Empty
    /\ release = 0 => \A b \in Backends : backend[b] = "off"
    /\ Serving => Full

(* What a row can hold at a revision.  At 5 the explanation may still be   *)
(* that of an earlier release; from 8 on runs write rows.                  *)
Accepted(v) ==
    {Predicted(v)} \union (IF v = 5 THEN {Made(3, 5, 3)} ELSE {})
                  \union (IF v >= 8 THEN {ByRun} ELSE {})

(* What it can hold when the migrations to release t have come to v.       *)
OnTheWay(v, t) ==
    Accepted(v) \union {Predicted(t)}
                \union (IF v \in {4, 5} THEN {Made(3, Predicted(t).features, 3)} ELSE {})

FleetFits ==
    \A l \in Lifts :
        /\ fleet[l] # None /\ ~strayed => fleet[l] \in Accepted(revision)
        /\ fleet[l] = ByRun => revision >= 8

(* No migration writes a row that is not there, or one that a run wrote.   *)
DraftFits ==
    draft # None =>
        \A l \in Lifts :
            /\ revision >= 8 => draft.writes[l] = None
            /\ draft.writes[l] # None => fleet[l] # None
            /\ Seen(l) # None /\ ~strayed => Seen(l) \in OnTheWay(draft.revision, target)
            /\ Seen(l) = ByRun => draft.revision >= 8

(* The first row of an identity is there.                                  *)
ReadingsFit ==
    /\ \A x, y \in ever : x.id = y.id => x = y
    /\ \A x \in ever : IsFirst(x) => x \in readings

Ids == {x.id : x \in ever}
NoDuplicates(S) == \A x, y \in S : x.identity = y.identity => x = y

(* What a migration deletes is not a first row; where the constraint is,   *)
(* or is being created, there are no duplicates.                           *)
DeletionFits ==
    /\ unique => NoDuplicates(readings)
    /\ draft # None =>
        /\ draft.unique => NoDuplicates(Left)
        /\ draft.gone # None =>
              /\ draft.gone \subseteq Ids
              /\ \A x \in ever : x.id \in draft.gone => ~IsFirst(x)

IInv == /\ TypeFits
        /\ ReleasesInOrder
        /\ SeededOnce
        /\ FleetFits
        /\ DraftFits
        /\ ReadingsFit
        /\ DeletionFits
-----------------------------------------------------------------------------
(* Rules                                                                   *)

LEMMA ContentIsNotNone == None \notin Content
BY HistoryAssumption DEF Content

LEMMA MadeIsContent ==
  /\ \A r, f, e \in Nat : Made(r, f, e) \in Content
  /\ \A r, f, e, x : /\ [Made(r, f, e) EXCEPT !.features = x] = Made(r, x, e)
                     /\ [Made(r, f, e) EXCEPT !.explanation = x] = Made(r, f, x)
BY DEF Made, Content

(* What the predictions.json of each release says.                         *)
LEMMA PredictedIs ==
  ASSUME NEW v \in 0 .. HeadRevision
  PROVE  /\ v <= 3 => Predicted(v) = Made(v, v, v)
         /\ v = 4 => Predicted(v) = Made(3, 4, 3)
         /\ v >= 5 => Predicted(v) = Made(3, 5, 5)
         /\ Predicted(v) \in Content
         /\ Predicted(v).features \in Nat /\ Predicted(v).explanation \in Nat
BY DEF Predicted, Made, HeadRevision, Content

LEMMA AcceptedIsContent ==
  ASSUME NEW v \in 0 .. HeadRevision
  PROVE  Accepted(v) \subseteq Content
<1>1. Predicted(v) \in Content
  BY PredictedIs
<1>2. ByRun \in Content
  BY DEF ByRun, Content
<1>3. QED
  BY <1>1, <1>2, MadeIsContent DEF Accepted

(* No migration writes what only a run does.                               *)
LEMMA MigrationsAreNoRuns ==
  ASSUME NEW t \in 0 .. HeadRevision, NEW c \in Content
  PROVE  /\ Predicted(t) # ByRun
         /\ [c EXCEPT !.features = Predicted(t).features] # ByRun
         /\ [c EXCEPT !.explanation = Predicted(t).explanation] # ByRun
<1>1. Predicted(t).features # 10 /\ Predicted(t).explanation # 10
  BY DEF Predicted, HeadRevision
<1>2. PICK r \in Nat, f \in Nat, e \in Nat : c = Made(r, f, e)
  BY DEF Content, Made
<1>3. \A r1, f1, e1 : Made(r1, f1, e1) = ByRun => f1 = 10 /\ e1 = 10
  BY DEF Made, ByRun
<1>4. Predicted(t) = Made(Predicted(t).row, Predicted(t).features, Predicted(t).explanation)
  BY DEF Predicted, Made
<1>5. Predicted(t) # ByRun
  BY <1>1, <1>3, <1>4
<1>6. /\ [c EXCEPT !.features = Predicted(t).features] = Made(r, Predicted(t).features, e)
      /\ [c EXCEPT !.explanation = Predicted(t).explanation]
           = Made(r, f, Predicted(t).explanation)
  <2>1. \A x : /\ [Made(r, f, e) EXCEPT !.features = x] = Made(r, x, e)
               /\ [Made(r, f, e) EXCEPT !.explanation = x] = Made(r, f, x)
    BY MadeIsContent
  <2>2. QED
    BY <1>2, <2>1
<1>7. QED
  BY <1>1, <1>3, <1>5, <1>6

(* Each migration takes a row to what it can hold after it.                *)
LEMMA MigrationsFit ==
  ASSUME NEW t \in 0 .. HeadRevision
  PROVE  /\ \A v \in 0 .. HeadRevision : Predicted(t) \in OnTheWay(v, t)
         /\ t >= 4 => \A c \in OnTheWay(3, t) :
              [c EXCEPT !.features = Predicted(t).features] \in OnTheWay(4, t)
         /\ t >= 5 => \A c \in OnTheWay(4, t) :
              [c EXCEPT !.features = Predicted(t).features] \in OnTheWay(5, t)
         /\ t >= 6 => \A c \in OnTheWay(5, t) :
              [c EXCEPT !.explanation = Predicted(t).explanation] \in OnTheWay(6, t)
         /\ t >= 7 => OnTheWay(6, t) \subseteq OnTheWay(7, t)
         /\ t >= 8 => OnTheWay(7, t) \subseteq OnTheWay(8, t)
         /\ OnTheWay(8, t) \subseteq OnTheWay(9, t)
<1>1. \A v \in 0 .. HeadRevision : Predicted(t) \in OnTheWay(v, t)
  BY DEF OnTheWay
<1> DEFINE f == Predicted(t).features
<1> DEFINE e == Predicted(t).explanation
<1>2. /\ Predicted(3) = Made(3, 3, 3) /\ Predicted(4) = Made(3, 4, 3)
      /\ Predicted(5) = Made(3, 5, 5) /\ Predicted(6) = Made(3, 5, 5)
      /\ Predicted(7) = Made(3, 5, 5) /\ Predicted(8) = Made(3, 5, 5)
      /\ Predicted(9) = Made(3, 5, 5)
  BY PredictedIs DEF HeadRevision
<1>3. /\ \E r \in Nat : Predicted(t) = Made(r, f, e)
      /\ t >= 4 => Predicted(t) = Made(3, f, e)
      /\ t >= 5 => f = 5 /\ e = 5
  BY PredictedIs DEF Made, HeadRevision
<1>4. /\ OnTheWay(3, t) = {Made(3, 3, 3), Predicted(t)}
      /\ OnTheWay(4, t) = {Made(3, 4, 3), Predicted(t), Made(3, f, 3)}
      /\ OnTheWay(5, t) = {Made(3, 5, 5), Made(3, 5, 3), Predicted(t), Made(3, f, 3)}
      /\ OnTheWay(6, t) = {Made(3, 5, 5), Predicted(t)}
      /\ OnTheWay(7, t) = {Made(3, 5, 5), Predicted(t)}
      /\ OnTheWay(8, t) = {Made(3, 5, 5), Predicted(t), ByRun}
      /\ OnTheWay(9, t) = {Made(3, 5, 5), Predicted(t), ByRun}
  BY <1>2 DEF OnTheWay, Accepted
<1> HIDE DEF f, e
<1>5. t >= 4 => \A c \in OnTheWay(3, t) : [c EXCEPT !.features = f] \in OnTheWay(4, t)
  BY <1>3, <1>4, MadeIsContent
<1>6. t >= 5 => \A c \in OnTheWay(4, t) : [c EXCEPT !.features = f] \in OnTheWay(5, t)
  BY <1>3, <1>4, MadeIsContent
<1>7. t >= 6 => \A c \in OnTheWay(5, t) : [c EXCEPT !.explanation = e] \in OnTheWay(6, t)
  BY <1>3, <1>4, MadeIsContent
<1>8. QED
  BY <1>1, <1>4, <1>5, <1>6, <1>7 DEF f, e

(* Where a migration ends, its rows are those of the release.              *)
LEMMA ArrivedIsAccepted ==
  ASSUME NEW t \in 0 .. HeadRevision
  PROVE  OnTheWay(t, t) \subseteq Accepted(t)
<1>1. t = 4 => Made(3, Predicted(t).features, 3) = Predicted(t)
  BY PredictedIs DEF Made, HeadRevision
<1>2. t = 5 => Made(3, Predicted(t).features, 3) = Made(3, 5, 3)
  BY PredictedIs DEF Made, HeadRevision
<1>3. QED
  BY <1>1, <1>2 DEF OnTheWay, Accepted
-----------------------------------------------------------------------------
(* Steps                                                                   *)

LEMMA InitIInv == Init => IInv
<1> SUFFICES ASSUME Init PROVE IInv
  OBVIOUS
<1>1. TypeFits
  <2>1. ever = {} /\ readings = {} /\ {unique, strayed} \subseteq BOOLEAN
    BY DEF Init
  <2>2. {revision, target, release} \subseteq 0 .. HeadRevision
    BY DEF Init, HeadRevision
  <2>3. backend \in [Backends -> {"off", "seeding", "serving"}]
    BY DEF Init, AllOff
  <2>4. fleet \in [Lifts -> Content \union {None}]
    BY DEF Init
  <2>5. QED
    BY <2>1, <2>2, <2>3, <2>4 DEF Init, TypeFits
<1>2. ReleasesInOrder /\ SeededOnce /\ FleetFits /\ DraftFits
  <2>1. ByRun # None
    BY ContentIsNotNone DEF ByRun, Content
  <2>2. QED
    BY <2>1 DEF Init, AllOff, ReleasesInOrder, SeededOnce, Empty, Full, Serving, FleetFits,
       DraftFits
<1>3. ReadingsFit /\ DeletionFits
  BY DEF Init, ReadingsFit, DeletionFits, NoDuplicates
<1>4. QED
  BY <1>1, <1>2, <1>3 DEF IInv

(* The readings are right as long as nobody stores and no deletion comes   *)
(* up.                                                                     *)
LEMMA ReadingsUntouched ==
  ASSUME IInv, UNCHANGED <<readings, ever, unique>>,
         draft' # None =>
            /\ draft # None
            /\ draft'.gone = draft.gone
            /\ draft'.unique = draft.unique
  PROVE  ReadingsFit' /\ DeletionFits'
<1>1. ReadingsFit'
  BY DEF IInv, ReadingsFit, IsFirst
<1>2. draft' # None => Left' = Left
  BY DEF Left
<1>3. DeletionFits'
  BY <1>2 DEF IInv, DeletionFits, NoDuplicates, Ids, IsFirst
<1>4. QED
  BY <1>1, <1>3

(* The fleet is right as long as nobody writes to it.                      *)
LEMMA FleetUntouched ==
  ASSUME IInv, UNCHANGED <<revision, fleet, strayed, target, release>>,
         draft' # None =>
            /\ draft # None
            /\ draft'.writes = draft.writes
            /\ draft'.revision = draft.revision
  PROVE  /\ ReleasesInOrder' /\ FleetFits' /\ DraftFits'
         /\ (UNCHANGED backend => SeededOnce')
<1>1. ReleasesInOrder' /\ FleetFits'
  BY DEF IInv, ReleasesInOrder, FleetFits
<1>2. draft' # None => \A l \in Lifts : Seen(l)' = Seen(l)
  BY DEF Seen
<1>3. DraftFits'
  BY <1>2 DEF IInv, DraftFits
<1>4. UNCHANGED backend => SeededOnce'
  BY DEF IInv, SeededOnce, Empty, Full, Serving
<1>5. QED
  BY <1>1, <1>3, <1>4

LEMMA CountIInv ==
  ASSUME IInv, NEW b \in Backends, Count(b)
  PROVE  IInv'
<1>1. /\ release > 0
      /\ backend' = [backend EXCEPT ![b] =
                     IF \E l \in Lifts : fleet[l] # None THEN "serving" ELSE "seeding"]
      /\ UNCHANGED <<revision, fleet, reports, readings, ever, unique, strayed, draft, target, release>>
  BY DEF Count, dataVars, readingVars
<1>2. TypeFits'
  BY <1>1 DEF IInv, TypeFits
<1>3. SeededOnce'
  <2>1. Empty' = Empty /\ Full' = Full
    BY <1>1 DEF Empty, Full
  <2>2. Serving' => Full
    BY <1>1 DEF IInv, TypeFits, SeededOnce, Serving, Empty, Full
  <2>3. release' # 0
    BY <1>1 DEF IInv, TypeFits
  <2>4. QED
    BY <1>1, <2>1, <2>2, <2>3 DEF IInv, SeededOnce
<1>4. QED
  BY <1>1, <1>2, <1>3, FleetUntouched, ReadingsUntouched DEF IInv

LEMMA CrashIInv ==
  ASSUME IInv, NEW b \in Backends, Crash(b)
  PROVE  IInv'
<1>1. /\ backend' = [backend EXCEPT ![b] = "off"]
      /\ UNCHANGED <<revision, fleet, reports, readings, ever, unique, strayed, draft, target, release>>
  BY DEF Crash, dataVars, readingVars
<1>2. TypeFits'
  BY <1>1 DEF IInv, TypeFits
<1>3. SeededOnce'
  BY <1>1 DEF IInv, TypeFits, SeededOnce, Empty, Full, Serving
<1>4. QED
  BY <1>1, <1>2, <1>3, FleetUntouched, ReadingsUntouched DEF IInv

(* A seed that succeeds finds no row: unless it has strayed, it is of the  *)
(* release that the schema is at, and no migration is under way.           *)
LEMMA SeedIInv ==
  ASSUME IInv, NEW b \in Backends, Seed(b)
  PROVE  IInv'
<1>1. /\ backend[b] = "seeding"
      /\ UNCHANGED <<revision, reports, readings, ever, unique, draft, target, release>>
  BY DEF Seed, readingVars
<1>2. /\ {revision, target, release} \subseteq 0 .. HeadRevision
      /\ release > 0 /\ release <= revision /\ revision > 0
  BY <1>1 DEF IInv, SeededOnce, TypeFits, ReleasesInOrder, HeadRevision
<1>3. ReadingsFit' /\ DeletionFits'
  BY <1>1, ReadingsUntouched
<1>4. CASE UNCHANGED <<fleet, strayed>> /\ backend' = [backend EXCEPT ![b] = "off"]
  <2>1. TypeFits'
    BY <1>1, <1>4 DEF IInv, TypeFits
  <2>2. SeededOnce'
    BY <1>1, <1>4 DEF IInv, TypeFits, SeededOnce, Empty, Full, Serving
  <2>3. QED
    BY <1>1, <1>3, <1>4, <2>1, <2>2, FleetUntouched DEF IInv
<1>5. CASE /\ \A l \in Lifts : fleet[l] = None
           /\ fleet' = [l \in Lifts |-> Predicted(release)]
           /\ strayed' = (strayed \/ release # revision \/ draft # None)
           /\ backend' = [backend EXCEPT ![b] = "serving"]
  <2>1. /\ Predicted(release) \in Accepted(release) /\ Predicted(release) \in Content
        /\ Predicted(release) # ByRun
    BY <1>2, AcceptedIsContent, MigrationsAreNoRuns DEF Accepted
  <2>2. TypeFits'
    BY <1>1, <1>5, <2>1 DEF IInv, TypeFits
  <2>3. ReleasesInOrder'
    BY <1>1 DEF IInv, ReleasesInOrder
  <2>4. Full'
    BY <1>5, <2>1, ContentIsNotNone DEF Full
  <2>5. SeededOnce'
    BY <1>1, <1>2, <2>4 DEF SeededOnce
  <2>6. ~strayed' => release = revision /\ draft = None
    BY <1>5
  <2>7. FleetFits'
    BY <1>1, <1>5, <2>1, <2>6 DEF FleetFits
  <2>8. DraftFits'
    <3> SUFFICES ASSUME draft # None, NEW l \in Lifts
                 PROVE  /\ draft.writes[l] = None
                        /\ fleet'[l] # None
                        /\ strayed'
                        /\ Seen(l)' # ByRun
      BY <1>1, Zenon DEF DraftFits
    <3>1. draft.writes[l] = None
      BY <1>5 DEF IInv, DraftFits
    <3>2. Seen(l)' = fleet'[l]
      BY <1>1, <3>1 DEF Seen
    <3>3. QED
      BY <1>5, <2>1, <2>4, <3>1, <3>2 DEF Full
  <2>9. QED
    BY <1>3, <2>2, <2>3, <2>5, <2>7, <2>8 DEF IInv
<1>6. QED
  BY <1>4, <1>5 DEF Seed

LEMMA SubmitReportIInv == ASSUME IInv, SubmitReport PROVE IInv'
<1>1. UNCHANGED <<revision, fleet, readings, ever, unique, strayed, draft, target, release, backend>>
  BY DEF SubmitReport, deployVars, readingVars
<1>2. TypeFits'
  BY <1>1 DEF IInv, TypeFits
<1>3. QED
  BY <1>1, <1>2, FleetUntouched, ReadingsUntouched DEF IInv

(* A run writes at 8 or 9, where no migration writes to the fleet.         *)
LEMMA RescoreIInv == ASSUME IInv, Rescore PROVE IInv'
<1>1. /\ release >= 8 /\ Full
      /\ UNCHANGED <<revision, readings, ever, unique, strayed, draft, target, release, backend>>
  BY DEF IInv, SeededOnce, Rescore, deployVars, readingVars
<1>2. PICK l \in Lifts : fleet' = [fleet EXCEPT ![l] = ByRun]
  BY DEF Rescore
<1>3. {revision, target, release} \subseteq 0 .. HeadRevision /\ revision >= 8
  BY <1>1 DEF IInv, TypeFits, ReleasesInOrder, HeadRevision
<1>4. ByRun \in Accepted(revision) /\ ByRun \in Content
  BY <1>3, AcceptedIsContent DEF Accepted
<1>5. TypeFits'
  BY <1>1, <1>2, <1>4 DEF IInv, TypeFits
<1>6. ReleasesInOrder' /\ ReadingsFit' /\ DeletionFits'
  BY <1>1, ReadingsUntouched DEF IInv, ReleasesInOrder
<1>7. Full'
  BY <1>1, <1>2, <1>4, ContentIsNotNone DEF IInv, TypeFits, Full
<1>8. SeededOnce'
  BY <1>1, <1>3, <1>7 DEF SeededOnce, HeadRevision
<1>9. FleetFits'
  BY <1>1, <1>2, <1>3, <1>4 DEF IInv, TypeFits, FleetFits
<1>10. DraftFits'
  <2> SUFFICES ASSUME draft # None, NEW k \in Lifts
               PROVE  /\ draft.writes[k] = None
                      /\ ~strayed => Seen(k)' \in OnTheWay(draft.revision, target)
                      /\ draft.revision >= 8
    BY <1>1, Zenon DEF DraftFits
  <2>1. draft.writes[k] = None
    BY <1>3 DEF IInv, DraftFits
  <2>2. Seen(k)' = fleet'[k] /\ Seen(k) = fleet[k]
    BY <1>1, <2>1 DEF Seen
  <2>3. ~strayed => fleet[k] \in OnTheWay(draft.revision, target)
    BY <1>1, <2>2 DEF IInv, DraftFits, Full
  <2>4. draft.revision >= 8 /\ draft.revision \in 0 .. HeadRevision
    BY <1>3 DEF IInv, TypeFits, Drafts, ReleasesInOrder
  <2>5. ByRun \in OnTheWay(draft.revision, target)
    BY <2>4 DEF OnTheWay, Accepted
  <2>6. QED
    BY <1>1, <1>2, <2>1, <2>2, <2>3, <2>4, <2>5 DEF IInv, TypeFits
<1>11. QED
  BY <1>5, <1>6, <1>8, <1>9, <1>10 DEF IInv

(* A reading that is new has an id of its own, so no deletion under way    *)
(* means it, and what was not first before it is not first after it.       *)
LEMMA StoreReadingIInv == ASSUME IInv, StoreReading PROVE IInv'
<1>1. /\ UNCHANGED <<revision, fleet, reports, unique, strayed, draft, target, release, backend>>
      /\ ~(draft # None /\ draft.unique)
  BY DEF StoreReading, deployVars
<1>2. PICK i \in Identities, id \in 1 .. MaxReadings :
        /\ \A x \in ever : x.id # id
        /\ unique => Stored(i) = {}
        /\ readings' = readings \union {[id |-> id, identity |-> i]}
        /\ ever' = ever \union {[id |-> id, identity |-> i]}
  BY DEF StoreReading
<1> DEFINE new == [id |-> id, identity |-> i]
<1>3. /\ new.id = id /\ new.identity = i /\ new \in [id : 1 .. MaxReadings, identity : Identities]
      /\ readings' = readings \union {new} /\ ever' = ever \union {new}
      /\ \A x \in ever : x.id # new.id
  BY <1>2
<1> HIDE DEF new
<1>4. TypeFits'
  BY <1>1, <1>3 DEF IInv, TypeFits
<1>5. ReleasesInOrder' /\ FleetFits' /\ DraftFits' /\ SeededOnce'
  BY <1>1, FleetUntouched
<1>6. \A x : IsFirst(x)' => IsFirst(x)
  BY <1>3 DEF IsFirst
<1>7. ReadingsFit'
  BY <1>3, <1>6 DEF IInv, ReadingsFit
<1>8. unique => NoDuplicates(readings')
  BY <1>2, <1>3 DEF IInv, DeletionFits, NoDuplicates, Stored
<1>9. ASSUME draft # None, draft.gone # None
      PROVE  /\ draft.gone \subseteq Ids'
             /\ \A x \in ever' : x.id \in draft.gone => ~IsFirst(x)'
  <2>1. draft.gone \subseteq Ids /\ \A x \in ever : x.id \in draft.gone => ~IsFirst(x)
    BY <1>9 DEF IInv, DeletionFits
  <2>2. new.id \notin draft.gone
    BY <1>3, <2>1 DEF Ids
  <2>3. QED
    BY <1>3, <1>6, <2>1, <2>2 DEF Ids
<1>10. DeletionFits'
  BY <1>1, <1>8, <1>9 DEF DeletionFits
<1>11. QED
  BY <1>4, <1>5, <1>7, <1>10 DEF IInv
-----------------------------------------------------------------------------
(* Migrations                                                              *)

(* A migration that takes every row it finds to what the next revision     *)
(* allows.                                                                 *)
LEMMA MigrateIInv ==
  ASSUME IInv, NEW number \in 1 .. 8, NEW content, Migrate(number, content),
         \A l \in Present : /\ content[l] \in Content \ {ByRun}
                            /\ ~strayed => content[l] \in OnTheWay(number, target)
  PROVE  IInv'
<1> DEFINE written == [l \in Lifts |-> IF l \in Present THEN content[l] ELSE None]
<1>1. /\ draft # None /\ draft.revision = number - 1 /\ number <= target
      /\ draft' = [draft EXCEPT !.revision = number, !.writes = written]
      /\ UNCHANGED <<revision, fleet, reports, readings, ever, unique, strayed, target, release, backend>>
  BY DEF Migrate, dataVars, readingVars, deployVars
<1>2. draft \in Drafts /\ target \in 0 .. HeadRevision /\ number \in 0 .. HeadRevision
  BY <1>1 DEF IInv, TypeFits, HeadRevision
<1>3. \A l \in Present : content[l] \in Content /\ content[l] # None
  BY ContentIsNotNone
<1>4. written \in [Lifts -> Content \union {None}]
  BY <1>3
<1>5. \A l \in Lifts : written[l] = IF l \in Present THEN content[l] ELSE None
  OBVIOUS
<1> HIDE DEF written
<1>6. /\ draft' \in Drafts /\ draft'.revision = number /\ draft'.writes = written
      /\ draft'.gone = draft.gone /\ draft'.unique = draft.unique
  BY <1>1, <1>2, <1>4 DEF Drafts
<1>7. TypeFits'
  BY <1>1, <1>6 DEF IInv, TypeFits
<1>8. ReadingsFit' /\ DeletionFits'
  BY <1>1, <1>6, ReadingsUntouched
<1>9. ReleasesInOrder'
  BY <1>1, <1>2, <1>6 DEF IInv, TypeFits, ReleasesInOrder, HeadRevision
<1>10. SeededOnce' /\ FleetFits'
  BY <1>1 DEF IInv, SeededOnce, Empty, Full, Serving, FleetFits
<1>11. ~(revision >= 8)
  BY <1>1, <1>2 DEF IInv, TypeFits, ReleasesInOrder, HeadRevision
<1>12. ASSUME NEW l \in Lifts
       PROVE  /\ written[l] # None => fleet[l] # None
              /\ Seen(l)' # None /\ ~strayed => Seen(l)' \in OnTheWay(number, target)
              /\ Seen(l)' # ByRun
  <2>1. Seen(l)' = IF written[l] # None THEN written[l] ELSE fleet[l]
    BY <1>1, <1>6 DEF Seen
  <2>2. CASE l \in Present
    <3>1. written[l] = content[l] /\ content[l] # None
      BY <1>3, <1>5, <2>2
    <3>2. fleet[l] # None
      BY <1>1, <2>2 DEF IInv, DraftFits, Present, Seen
    <3>3. QED
      BY <2>1, <2>2, <3>1, <3>2
  <2>3. CASE l \notin Present
    <3>1. written[l] = None /\ fleet[l] = None
      BY <1>1, <1>5, <2>3 DEF IInv, DraftFits, Present, Seen
    <3>2. ByRun # None
      BY ContentIsNotNone DEF ByRun, Content
    <3>3. QED
      BY <2>1, <3>1, <3>2
  <2>4. QED
    BY <2>2, <2>3
<1>13. DraftFits'
  BY <1>1, <1>6, <1>11, <1>12 DEF DraftFits
<1>14. QED
  BY <1>7, <1>8, <1>9, <1>10, <1>13 DEF IInv

(* The migrations of the fleet, one by one.                                *)
LEMMA MigrationsIInv ==
  ASSUME IInv,
         \/ CreateTables \/ ResyncElevators \/ ResyncMotorLife \/ AddDirection
         \/ ResyncFeatures \/ ResyncExplanation \/ CreateReadings \/ AddLastScoredAt
  PROVE  IInv'
<1>1. target \in 0 .. HeadRevision
  BY DEF IInv, TypeFits
<1>2. ASSUME NEW n \in 1 .. 8, draft # None, draft.revision = n - 1
      PROVE  \A l \in Present : /\ Seen(l) \in Content \ {ByRun}
                                /\ ~strayed => Seen(l) \in OnTheWay(n - 1, target)
  <2>1. draft \in Drafts /\ ~(draft.revision >= 8)
    BY <1>2 DEF IInv, TypeFits
  <2>2. \A l \in Lifts : Seen(l) \in Content \union {None}
    BY <2>1 DEF IInv, TypeFits, Drafts, Seen
  <2>3. QED
    BY <1>2, <2>1, <2>2 DEF IInv, DraftFits, Present
<1>3. /\ Predicted(target) \in Content \ {ByRun}
      /\ \A c \in Content :
           /\ [c EXCEPT !.features = Predicted(target).features] \in Content \ {ByRun}
           /\ [c EXCEPT !.explanation = Predicted(target).explanation] \in Content \ {ByRun}
  <2>1. /\ Predicted(target) \in Content
        /\ Predicted(target).features \in Nat /\ Predicted(target).explanation \in Nat
    BY <1>1, PredictedIs
  <2>2. \A c \in Content, x \in Nat : /\ [c EXCEPT !.features = x] \in Content
                                     /\ [c EXCEPT !.explanation = x] \in Content
    BY DEF Content
  <2>3. Predicted(target) # ByRun
    BY <1>1, <2>1, MigrationsAreNoRuns
  <2>4. QED
    BY <1>1, <2>1, <2>2, <2>3, MigrationsAreNoRuns
<1>4. CASE CreateTables
  <2>1. draft # None /\ draft.revision = 0 /\ Migrate(1, Same)
    BY <1>4 DEF CreateTables, Migrate
  <2>2. Empty
    BY <2>1 DEF IInv, TypeFits, ReleasesInOrder, SeededOnce, HeadRevision
  <2>3. Present = {}
    BY <2>1, <2>2 DEF IInv, DraftFits, Present, Seen, Empty
  <2>4. QED
    BY <2>1, <2>3, MigrateIInv
<1>5. CASE ResyncElevators
  <2>1. \A l \in Present : /\ ToPredicted[l] \in Content \ {ByRun}
                           /\ ToPredicted[l] \in OnTheWay(2, target)
    BY <1>1, <1>3, MigrationsFit DEF ToPredicted, HeadRevision
  <2>2. QED
    BY <1>5, <2>1, MigrateIInv DEF ResyncElevators
<1>6. CASE ResyncMotorLife
  <2>1. \A l \in Present : /\ ToPredicted[l] \in Content \ {ByRun}
                           /\ ToPredicted[l] \in OnTheWay(3, target)
    BY <1>1, <1>3, MigrationsFit DEF ToPredicted, HeadRevision
  <2>2. QED
    BY <1>6, <2>1, MigrateIInv DEF ResyncMotorLife
<1>7. CASE AddDirection
  <2>1. draft # None /\ draft.revision = 4 - 1 /\ 4 <= target /\ Migrate(4, ToFeatures)
    BY <1>7 DEF AddDirection, Migrate
  <2>2. \A l \in Present : /\ Seen(l) \in Content \ {ByRun}
                           /\ ~strayed => Seen(l) \in OnTheWay(3, target)
    BY <1>2, <2>1
  <2>3. \A l \in Present : /\ ToFeatures[l] \in Content \ {ByRun}
                           /\ ~strayed => ToFeatures[l] \in OnTheWay(4, target)
    BY <1>1, <1>3, <2>1, <2>2, MigrationsFit DEF ToFeatures
  <2>4. QED
    BY <2>1, <2>3, MigrateIInv
<1>8. CASE ResyncFeatures
  <2>1. draft # None /\ draft.revision = 5 - 1 /\ 5 <= target /\ Migrate(5, ToFeatures)
    BY <1>8 DEF ResyncFeatures, Migrate
  <2>2. \A l \in Present : /\ Seen(l) \in Content \ {ByRun}
                           /\ ~strayed => Seen(l) \in OnTheWay(4, target)
    BY <1>2, <2>1
  <2>3. \A l \in Present : /\ ToFeatures[l] \in Content \ {ByRun}
                           /\ ~strayed => ToFeatures[l] \in OnTheWay(5, target)
    BY <1>1, <1>3, <2>1, <2>2, MigrationsFit DEF ToFeatures
  <2>4. QED
    BY <2>1, <2>3, MigrateIInv
<1>9. CASE ResyncExplanation
  <2>1. draft # None /\ draft.revision = 6 - 1 /\ 6 <= target /\ Migrate(6, ToExplanation)
    BY <1>9 DEF ResyncExplanation, Migrate
  <2>2. \A l \in Present : /\ Seen(l) \in Content \ {ByRun}
                           /\ ~strayed => Seen(l) \in OnTheWay(5, target)
    BY <1>2, <2>1
  <2>3. \A l \in Present : /\ ToExplanation[l] \in Content \ {ByRun}
                           /\ ~strayed => ToExplanation[l] \in OnTheWay(6, target)
    BY <1>1, <1>3, <2>1, <2>2, MigrationsFit DEF ToExplanation
  <2>4. QED
    BY <2>1, <2>3, MigrateIInv
<1>10. CASE CreateReadings
  <2>1. draft # None /\ draft.revision = 7 - 1 /\ 7 <= target /\ Migrate(7, Same)
    BY <1>10 DEF CreateReadings, Migrate
  <2>2. \A l \in Present : /\ Seen(l) \in Content \ {ByRun}
                           /\ ~strayed => Seen(l) \in OnTheWay(6, target)
    BY <1>2, <2>1
  <2>3. \A l \in Present : /\ Same[l] \in Content \ {ByRun}
                           /\ ~strayed => Same[l] \in OnTheWay(7, target)
    BY <1>1, <1>3, <2>1, <2>2, MigrationsFit DEF Same
  <2>4. QED
    BY <2>1, <2>3, MigrateIInv
<1>11. CASE AddLastScoredAt
  <2>1. draft # None /\ draft.revision = 8 - 1 /\ 8 <= target /\ Migrate(8, Same)
    BY <1>11 DEF AddLastScoredAt, Migrate
  <2>2. \A l \in Present : /\ Seen(l) \in Content \ {ByRun}
                           /\ ~strayed => Seen(l) \in OnTheWay(7, target)
    BY <1>2, <2>1
  <2>3. \A l \in Present : /\ Same[l] \in Content \ {ByRun}
                           /\ ~strayed => Same[l] \in OnTheWay(8, target)
    BY <1>1, <1>3, <2>1, <2>2, MigrationsFit DEF Same
  <2>4. QED
    BY <2>1, <2>3, MigrateIInv
<1>12. QED
  BY <1>4, <1>5, <1>6, <1>7, <1>8, <1>9, <1>10, <1>11

(* Every row it deletes has an older one of its identity beside it.        *)
LEMMA DeleteDuplicatesIInv == ASSUME IInv, DeleteDuplicates PROVE IInv'
<1> DEFINE doomed == {x.id : x \in {y \in readings : \E z \in Stored(y.identity) : z.id < y.id}}
<1>1. /\ draft # None /\ draft.gone = None
      /\ draft' = [draft EXCEPT !.gone = doomed]
      /\ UNCHANGED <<revision, fleet, reports, readings, ever, unique, strayed, target, release, backend>>
  BY DEF DeleteDuplicates, dataVars, readingVars, deployVars
<1>2. draft \in Drafts
  BY <1>1 DEF IInv, TypeFits
<1>3. doomed \subseteq Ids /\ doomed \subseteq Nat
  BY HistoryAssumption DEF IInv, TypeFits, Ids
<1>4. ASSUME NEW x \in ever, x.id \in doomed
      PROVE  ~IsFirst(x)
  <2>1. PICK y \in readings : x.id = y.id /\ \E z \in Stored(y.identity) : z.id < y.id
    BY <1>4
  <2>2. x = y
    BY <2>1 DEF IInv, ReadingsFit, TypeFits
  <2>3. PICK z \in ever : z.identity = x.identity /\ z.id < x.id
    BY <2>1, <2>2 DEF Stored, IInv, TypeFits
  <2>4. x.id \in Nat /\ z.id \in Nat
    BY HistoryAssumption DEF IInv, TypeFits
  <2>5. QED
    BY <2>3, <2>4 DEF IsFirst
<1> HIDE DEF doomed
<1>5. /\ draft' \in Drafts /\ draft'.revision = draft.revision /\ draft'.writes = draft.writes
      /\ draft'.gone = doomed /\ draft'.unique = draft.unique
  BY <1>1, <1>2, <1>3 DEF Drafts
<1>6. TypeFits'
  BY <1>1, <1>5 DEF IInv, TypeFits
<1>7. ReleasesInOrder' /\ FleetFits' /\ DraftFits' /\ SeededOnce'
  BY <1>1, <1>5, FleetUntouched
<1>8. ReadingsFit'
  BY <1>1 DEF IInv, ReadingsFit, IsFirst
<1>9. Left = readings /\ Left' \subseteq readings
  BY <1>1 DEF Left
<1>10. DeletionFits'
  <2>1. draft'.unique => NoDuplicates(Left')
    BY <1>1, <1>5, <1>9 DEF IInv, DeletionFits, NoDuplicates
  <2>2. QED
    BY <1>1, <1>3, <1>4, <1>5, <2>1 DEF IInv, DeletionFits, Ids, NoDuplicates, IsFirst
<1>11. QED
  BY <1>6, <1>7, <1>8, <1>10 DEF IInv

LEMMA CreateConstraintIInv == ASSUME IInv, CreateConstraint PROVE IInv'
<1>1. /\ draft # None /\ draft.revision = 8 /\ target = 9
      /\ NoDuplicates(Left)
      /\ draft' = [draft EXCEPT !.revision = 9, !.unique = TRUE]
      /\ UNCHANGED <<revision, fleet, reports, readings, ever, unique, strayed, target, release, backend>>
  BY DEF CreateConstraint, dataVars, readingVars, deployVars, NoDuplicates
<1>2. draft \in Drafts
  BY <1>1 DEF IInv, TypeFits
<1>3. /\ draft' \in Drafts /\ draft'.revision = 9 /\ draft'.writes = draft.writes
      /\ draft'.gone = draft.gone /\ draft'.unique = TRUE
  <2> DEFINE built == [revision |-> 9, writes |-> draft.writes, gone |-> draft.gone,
                       unique |-> TRUE]
  <2>1. draft' = built
    BY <1>1, <1>2 DEF Drafts
  <2>2. draft.writes \in [Lifts -> Content \union {None}] /\ draft.gone \in {None} \union SUBSET Nat
    BY <1>2 DEF Drafts
  <2>3. built \in Drafts
    BY <2>2 DEF Drafts, HeadRevision
  <2>4. QED
    BY <2>1, <2>3
<1>4. TypeFits'
  BY <1>1, <1>3 DEF IInv, TypeFits
<1>5. ReleasesInOrder'
  BY <1>1, <1>3 DEF IInv, TypeFits, ReleasesInOrder, HeadRevision
<1>6. SeededOnce' /\ FleetFits'
  BY <1>1 DEF IInv, SeededOnce, Empty, Full, Serving, FleetFits
<1>7. DraftFits'
  <2>1. \A l \in Lifts : Seen(l)' = Seen(l)
    BY <1>1, <1>3 DEF Seen
  <2>2. OnTheWay(8, target) \subseteq OnTheWay(9, target)
    BY <1>1, MigrationsFit DEF HeadRevision
  <2>3. QED
    BY <1>1, <1>3, <2>1, <2>2 DEF IInv, DraftFits
<1>8. ReadingsFit'
  BY <1>1 DEF IInv, ReadingsFit, IsFirst
<1>9. Left' = Left
  BY <1>1, <1>3 DEF Left
<1>10. DeletionFits'
  <2>1. unique' => NoDuplicates(readings')
    BY <1>1 DEF IInv, DeletionFits
  <2>2. NoDuplicates(Left')
    BY <1>1, <1>9
  <2>3. draft'.gone # None =>
          /\ draft'.gone \subseteq Ids'
          /\ \A x \in ever' : x.id \in draft'.gone => ~IsFirst(x)'
    BY <1>1, <1>3 DEF IInv, DeletionFits, Ids, IsFirst
  <2>4. QED
    BY <2>1, <2>2, <2>3 DEF DeletionFits, NoDuplicates
<1>11. QED
  BY <1>4, <1>5, <1>6, <1>7, <1>8, <1>10 DEF IInv
-----------------------------------------------------------------------------
(* The deploy                                                              *)

(* A deploy ends a migration that is under way, with or without the        *)
(* backends, and nothing it did is left.                                   *)
LEMMA DeployIInv == ASSUME IInv, Deploy \/ MigrateByHand PROVE IInv'
<1>1. /\ target' \in 1 .. HeadRevision /\ draft' = None
      /\ \/ UNCHANGED <<release, backend>>
         \/ release' = 0 /\ backend' = [b \in Backends |-> "off"]
      /\ UNCHANGED <<revision, fleet, reports, readings, ever, unique, strayed>>
  BY DEF Deploy, MigrateByHand, AllOff, dataVars, readingVars
<1>2. TypeFits'
  BY <1>1 DEF IInv, TypeFits, HeadRevision
<1>3. ReleasesInOrder'
  BY <1>1 DEF IInv, TypeFits, ReleasesInOrder, HeadRevision
<1>4. SeededOnce'
  BY <1>1 DEF IInv, SeededOnce, Empty, Full, Serving
<1>5. FleetFits' /\ DraftFits'
  BY <1>1 DEF IInv, FleetFits, DraftFits
<1>6. ReadingsFit' /\ DeletionFits'
  BY <1>1, ReadingsUntouched
<1>7. QED
  BY <1>2, <1>3, <1>4, <1>5, <1>6 DEF IInv

LEMMA BeginIInv == ASSUME IInv, Begin PROVE IInv'
<1>1. /\ draft = None /\ revision < target
      /\ draft' = [revision |-> revision, writes |-> [l \in Lifts |-> None],
                   gone |-> None, unique |-> unique]
      /\ UNCHANGED <<revision, fleet, reports, readings, ever, unique, strayed, target, release, backend>>
  BY DEF Begin, dataVars, readingVars, deployVars
<1>2. {revision, target, release} \subseteq 0 .. HeadRevision
  BY DEF IInv, TypeFits
<1>3. /\ draft'.revision = revision /\ draft'.gone = None /\ draft'.unique = unique
      /\ \A l \in Lifts : draft'.writes[l] = None
      /\ draft' \in Drafts
  BY <1>1, <1>2 DEF IInv, TypeFits, Drafts
<1>4. TypeFits'
  BY <1>1, <1>3 DEF IInv, TypeFits
<1>5. ReleasesInOrder'
  BY <1>1, <1>2, <1>3 DEF IInv, ReleasesInOrder, HeadRevision
<1>6. SeededOnce' /\ FleetFits'
  BY <1>1 DEF IInv, SeededOnce, Empty, Full, Serving, FleetFits
<1>7. DraftFits'
  <2>1. \A l \in Lifts : Seen(l)' = fleet[l]
    BY <1>1, <1>3 DEF Seen
  <2>2. \A l \in Lifts :
          /\ fleet[l] # None /\ ~strayed => fleet[l] \in OnTheWay(revision, target)
          /\ fleet[l] = ByRun => revision >= 8
    BY DEF IInv, FleetFits, OnTheWay
  <2>3. QED
    BY <1>1, <1>3, <2>1, <2>2 DEF DraftFits
<1>8. ReadingsFit'
  BY <1>1 DEF IInv, ReadingsFit, IsFirst
<1>9. DeletionFits'
  <2>1. Left' = readings
    BY <1>1, <1>3 DEF Left
  <2>2. unique => NoDuplicates(readings)
    BY DEF IInv, DeletionFits
  <2>3. QED
    BY <1>1, <1>3, <2>1, <2>2 DEF DeletionFits, NoDuplicates
<1>10. QED
  BY <1>4, <1>5, <1>6, <1>7, <1>8, <1>9 DEF IInv

LEMMA RollBackIInv == ASSUME IInv, RollBack PROVE IInv'
<1>1. /\ draft' = None
      /\ UNCHANGED <<revision, fleet, reports, readings, ever, unique, strayed, target, release, backend>>
  BY DEF RollBack, dataVars, readingVars, deployVars
<1>2. TypeFits'
  BY <1>1 DEF IInv, TypeFits
<1>3. QED
  BY <1>1, <1>2, FleetUntouched, ReadingsUntouched DEF IInv

(* No first row is among what the migration deletes.                       *)
LEMMA FirstsAreLeft ==
  ASSUME IInv, draft # None, NEW x \in ever, IsFirst(x)
  PROVE  x \in Left
<1>1. x \in readings
  BY DEF IInv, ReadingsFit
<1>2. draft.gone # None => x.id \notin draft.gone
  BY DEF IInv, DeletionFits
<1>3. QED
  BY <1>1, <1>2 DEF Left

LEMMA CommitIInv == ASSUME IInv, Commit PROVE IInv'
<1>1. /\ draft # None /\ draft.revision = target
      /\ revision' = target
      /\ fleet' = [l \in Lifts |-> Seen(l)]
      /\ readings' = Left /\ unique' = draft.unique /\ draft' = None
      /\ UNCHANGED <<reports, ever, strayed, target, release, backend>>
  BY DEF Commit, deployVars
<1>2. draft \in Drafts /\ {revision, target, release} \subseteq 0 .. HeadRevision
  BY <1>1 DEF IInv, TypeFits
<1>3. /\ draft.writes \in [Lifts -> Content \union {None}] /\ draft.unique \in BOOLEAN
      /\ fleet \in [Lifts -> Content \union {None}]
  BY <1>2 DEF IInv, TypeFits, Drafts
<1>4. \A l \in Lifts : Seen(l) \in Content \union {None} /\ (Seen(l) = None <=> fleet[l] = None)
  BY <1>1, <1>3 DEF IInv, DraftFits, Seen
<1>5. Left \subseteq readings
  BY DEF Left
<1>6. \A l \in Lifts : fleet'[l] = Seen(l)
  BY <1>1
<1>7. TypeFits'
  <2>1. fleet' \in [Lifts -> Content \union {None}]
    BY <1>1, <1>4
  <2>2. readings' \subseteq ever'
    BY <1>1, <1>5 DEF IInv, TypeFits
  <2>3. {unique', strayed'} \subseteq BOOLEAN
    BY <1>1, <1>3 DEF IInv, TypeFits
  <2>4. QED
    BY <1>1, <1>2, <2>1, <2>2, <2>3 DEF IInv, TypeFits
<1>8. ReleasesInOrder'
  BY <1>1, <1>2 DEF IInv, ReleasesInOrder, HeadRevision
<1>9. SeededOnce'
  <2>1. Empty' <=> Empty
    BY <1>4, <1>6 DEF Empty
  <2>2. Full' <=> Full
    BY <1>4, <1>6 DEF Full
  <2>3. QED
    BY <1>1, <1>2, <2>1, <2>2 DEF IInv, TypeFits, SeededOnce, ReleasesInOrder, Serving,
       HeadRevision
<1>10. FleetFits'
  <2>1. \A l \in Lifts :
          /\ Seen(l) # None /\ ~strayed => Seen(l) \in OnTheWay(target, target)
          /\ Seen(l) = ByRun => target >= 8
    BY <1>1 DEF IInv, DraftFits
  <2>2. OnTheWay(target, target) \subseteq Accepted(target)
    BY <1>2, ArrivedIsAccepted
  <2>3. QED
    BY <1>1, <1>6, <2>1, <2>2 DEF FleetFits
<1>11. DraftFits'
  BY <1>1 DEF DraftFits
<1>12. ReadingsFit'
  <2>1. \A x \in ever : IsFirst(x) => x \in Left
    BY <1>1, FirstsAreLeft
  <2>2. QED
    BY <1>1, <2>1 DEF IInv, ReadingsFit, IsFirst
<1>13. DeletionFits'
  <2>1. draft.unique => NoDuplicates(Left)
    BY <1>1 DEF IInv, DeletionFits
  <2>2. QED
    BY <1>1, <2>1 DEF DeletionFits, NoDuplicates
<1>14. QED
  BY <1>7, <1>8, <1>9, <1>10, <1>11, <1>12, <1>13 DEF IInv

LEMMA StartIInv == ASSUME IInv, Start PROVE IInv'
<1>1. /\ release = 0 /\ target > 0 /\ revision = target /\ release' = target
      /\ UNCHANGED <<revision, fleet, reports, readings, ever, unique, strayed, draft, target,
                     backend>>
  BY DEF Start, dataVars, readingVars
<1>2. {revision, target, release} \subseteq 0 .. HeadRevision /\ draft = None
  BY <1>1 DEF IInv, TypeFits, ReleasesInOrder, HeadRevision
<1>3. TypeFits'
  BY <1>1, <1>2 DEF IInv, TypeFits
<1>4. ReleasesInOrder'
  BY <1>1, <1>2 DEF ReleasesInOrder, HeadRevision
<1>5. SeededOnce'
  BY <1>1, <1>2 DEF IInv, SeededOnce, Empty, Full, Serving, HeadRevision
<1>6. FleetFits' /\ DraftFits'
  BY <1>1, <1>2 DEF IInv, FleetFits, DraftFits
<1>7. ReadingsFit' /\ DeletionFits'
  BY <1>1, ReadingsUntouched
<1>8. QED
  BY <1>3, <1>4, <1>5, <1>6, <1>7 DEF IInv

LEMMA IInvInductive == IInv /\ [Next]_vars => IInv'
<1> SUFFICES ASSUME IInv, [Next]_vars PROVE IInv'
  OBVIOUS
<1>1. ASSUME NEW b \in Backends, Count(b) \/ Seed(b) \/ Crash(b) PROVE IInv'
  BY <1>1, CountIInv, SeedIInv, CrashIInv
<1>2. CASE SubmitReport \/ Rescore \/ StoreReading
  BY <1>2, SubmitReportIInv, RescoreIInv, StoreReadingIInv
<1>3. CASE Upgrade
  BY <1>3, MigrationsIInv, DeleteDuplicatesIInv, CreateConstraintIInv DEF Upgrade
<1>4. CASE Deploy \/ MigrateByHand \/ Begin \/ RollBack \/ Commit \/ Start
  BY <1>4, DeployIInv, BeginIInv, RollBackIInv, CommitIInv, StartIInv
<1>5. CASE UNCHANGED vars
  <2>1. TypeFits'
    BY <1>5 DEF IInv, TypeFits, vars, dataVars, readingVars, deployVars
  <2>2. QED
    BY <1>5, <2>1, FleetUntouched, ReadingsUntouched DEF IInv, vars, dataVars, readingVars, deployVars
<1>6. QED
  BY <1>1, <1>2, <1>3, <1>4, <1>5 DEF Next
-----------------------------------------------------------------------------
(* Theorems                                                                *)

(* What a fleet holds at each release and half way through each migration, *)
(* and which readings the draft has deleted (alembic/versions).            *)
THEOREM Invariance == Spec => []IInv
BY InitIInv, IInvInductive, PTL DEF Spec

(* Whatever releases were skipped, failed, rolled back or fallen back to,  *)
(* a backend that serves the schema of its release finds every lift as its *)
(* own predictions.json or a run says (56cd241fcfd6 alone excepted, which  *)
(* left the explanations to the next), unless a migration by hand went     *)
(* past a process that seeded the fleet afterwards.                        *)
THEOREM FleetIsAlwaysOfItsRelease == Spec => []FleetIsOfItsRelease
<1>1. ASSUME IInv, Serving, release = revision, release # 5, ~strayed, NEW l \in Lifts
      PROVE  fleet[l] \in {Predicted(release), ByRun}
  <2>1. fleet[l] # None
    BY <1>1 DEF IInv, SeededOnce, Full
  <2>2. fleet[l] \in Accepted(revision)
    BY <1>1, <2>1 DEF IInv, FleetFits
  <2>3. QED
    BY <1>1, <2>2 DEF Accepted
<1>2. IInv => FleetIsOfItsRelease
  BY <1>1 DEF FleetIsOfItsRelease
<1>3. QED
  BY Invariance, <1>2, PTL

(* The row of least id of an identity is never deleted, and once the       *)
(* constraint is there it is the only one (7c1e4b9a2d33), whatever is      *)
(* stored between the deletion and the constraint and in whatever order.   *)
THEOREM FirstStoredIsAlwaysKept == Spec => []FirstStoredIsKept
<1>1. ASSUME IInv, NEW x \in ever, IsFirst(x)
      PROVE  x \in readings /\ (unique => Stored(x.identity) = {x})
  <2>1. x \in readings
    BY <1>1 DEF IInv, ReadingsFit
  <2>2. QED
    BY <1>1, <2>1 DEF IInv, DeletionFits, NoDuplicates, Stored
<1>2. IInv => FirstStoredIsKept
  BY <1>1 DEF FirstStoredIsKept
<1>3. QED
  BY Invariance, <1>2, PTL

(* No deploy, seed or request takes a report away, or a score a run wrote: *)
(* runs write from revision 8 on, where no migration writes to the fleet.  *)
THEOREM WrittenDataAlwaysSurvives == Spec => WrittenDataSurvives
<1> DEFINE Survives == /\ reports \subseteq reports'
                       /\ \A l \in Lifts : fleet[l] = ByRun => fleet'[l] = ByRun
<1>1. ByRun # None
  BY ContentIsNotNone DEF ByRun, Content
<1>2. ASSUME IInv, [Next]_vars
      PROVE  Survives
  <2>1. ASSUME NEW b \in Backends, Count(b) \/ Seed(b) \/ Crash(b) PROVE Survives
    BY <1>1, <2>1 DEF Count, Seed, Crash, dataVars, readingVars
  <2>2. CASE SubmitReport \/ StoreReading
    BY <2>2 DEF SubmitReport, StoreReading
  <2>3. CASE Rescore
    BY <1>2, <2>3 DEF IInv, TypeFits, Rescore
  <2>4. CASE Upgrade
    BY <2>4 DEF Upgrade, CreateTables, ResyncElevators, ResyncMotorLife, AddDirection,
            ResyncFeatures, ResyncExplanation, CreateReadings, AddLastScoredAt, Migrate,
            DeleteDuplicates, CreateConstraint, dataVars
  <2>5. CASE Deploy \/ MigrateByHand \/ Begin \/ RollBack \/ Start
    BY <2>5 DEF Deploy, MigrateByHand, Begin, RollBack, Start, dataVars
  <2>6. CASE Commit
    <3>1. draft # None /\ fleet' = [l \in Lifts |-> Seen(l)] /\ reports' = reports
      BY <2>6 DEF Commit
    <3>2. ASSUME NEW l \in Lifts, fleet[l] = ByRun
          PROVE  Seen(l) = ByRun
      <4>1. draft.writes[l] = None
        BY <1>2, <3>1, <3>2 DEF IInv, FleetFits, DraftFits
      <4>2. QED
        BY <3>2, <4>1 DEF Seen
    <3>3. QED
      BY <3>1, <3>2
  <2>7. CASE UNCHANGED vars
    BY <2>7 DEF vars, dataVars
  <2>8. QED
    BY <1>2, <2>1, <2>2, <2>3, <2>4, <2>5, <2>6, <2>7 DEF Next
<1>3. IInv /\ [Next]_vars => [Survives]_vars
  BY <1>2
<1>4. QED
  BY Invariance, <1>3, PTL DEF Spec, WrittenDataSurvives

(* A migration that deletes readings goes to release 9, and at 9 it has    *)
(* created the constraint.                                                 *)
DeletedIsUnique ==
    draft # None /\ draft.gone # None =>
        /\ target = 9
        /\ draft.revision = 9 => draft.unique

LEMMA OnlyCommitDeletes ==
  ASSUME [Next]_vars PROVE readings \subseteq readings' \/ Commit
BY DEF Next, Count, Seed, Crash, SubmitReport, Rescore, StoreReading, Deploy, MigrateByHand,
       Begin, Upgrade,
       CreateTables, ResyncElevators, ResyncMotorLife, AddDirection, ResyncFeatures,
       ResyncExplanation, CreateReadings, AddLastScoredAt, Migrate, DeleteDuplicates,
       CreateConstraint, RollBack, Start, dataVars, readingVars, deployVars, vars

LEMMA DeletedIsUniqueInductive == IInv /\ DeletedIsUnique /\ [Next]_vars => DeletedIsUnique'
<1> SUFFICES ASSUME IInv, DeletedIsUnique, [Next]_vars PROVE DeletedIsUnique'
  OBVIOUS
<1>1. draft # None => draft \in Drafts
  BY DEF IInv, TypeFits
<1>2. ASSUME NEW number \in 1 .. 8, NEW content, Migrate(number, content)
      PROVE  DeletedIsUnique'
  <2>1. draft # None /\ draft \in Drafts /\ target' = target /\ draft.revision = number - 1
    BY <1>1, <1>2 DEF Migrate, deployVars
  <2>2. draft'.revision = number /\ draft'.gone = draft.gone /\ draft'.unique = draft.unique
    BY <1>2, <2>1 DEF Migrate, Drafts
  <2>3. QED
    BY <2>1, <2>2 DEF DeletedIsUnique
<1>3. CASE \/ CreateTables \/ ResyncElevators \/ ResyncMotorLife \/ AddDirection
           \/ ResyncFeatures \/ ResyncExplanation \/ CreateReadings \/ AddLastScoredAt
  BY <1>2, <1>3 DEF CreateTables, ResyncElevators, ResyncMotorLife, AddDirection,
     ResyncFeatures, ResyncExplanation, CreateReadings, AddLastScoredAt
<1>4. CASE DeleteDuplicates
  <2>1. draft # None /\ draft \in Drafts /\ draft.revision = 8 /\ target = 9 /\ target' = target
    BY <1>1, <1>4 DEF DeleteDuplicates, deployVars
  <2>2. draft'.revision = 8
    BY <1>4, <2>1 DEF DeleteDuplicates, Drafts
  <2>3. QED
    BY <2>1, <2>2 DEF DeletedIsUnique
<1>5. CASE CreateConstraint
  <2>1. draft # None /\ draft \in Drafts /\ target = 9 /\ target' = target
    BY <1>1, <1>5 DEF CreateConstraint, deployVars
  <2>2. draft'.unique
    BY <1>5, <2>1 DEF CreateConstraint, Drafts
  <2>3. QED
    BY <2>1, <2>2 DEF DeletedIsUnique
<1>6. CASE Begin
  BY <1>6 DEF Begin, DeletedIsUnique
<1>7. CASE Deploy \/ MigrateByHand
  BY <1>7 DEF Deploy, MigrateByHand, DeletedIsUnique
<1>8. CASE RollBack \/ Commit
  BY <1>8 DEF RollBack, Commit, DeletedIsUnique
<1>9. CASE UNCHANGED <<draft, target>>
  BY <1>9 DEF DeletedIsUnique
<1>10. UNCHANGED <<draft, target>> \/ Upgrade \/ Deploy \/ MigrateByHand \/ Begin
         \/ RollBack \/ Commit
  BY DEF Next, Count, Seed, Crash, SubmitReport, Rescore, StoreReading, Start, dataVars, readingVars,
     deployVars, vars
<1>11. QED
  BY <1>3, <1>4, <1>5, <1>6, <1>7, <1>8, <1>9, <1>10 DEF Upgrade

(* Every identity has a first row.                                         *)
LEMMA FirstOfIdentity ==
  ASSUME TypeFits, NEW x \in ever
  PROVE  \E y \in ever : y.identity = x.identity /\ IsFirst(y)
<1> DEFINE lesser == {ss \in Nat \X Nat : ss[1] < ss[2]}
<1> DEFINE same == {y \in ever : y.identity = x.identity}
<1> DEFINE taken == {y.id : y \in same}
<1>1. IsWellFoundedOn(lesser, Nat)
  BY NatLessThanWellFounded DEF OpToRel
<1>2. \A y \in ever : y.id \in Nat
  BY HistoryAssumption DEF TypeFits
<1>3. taken \subseteq Nat /\ x.id \in taken
  BY <1>2
<1>4. PICK m \in taken : \A n \in taken : ~(<<n, m>> \in lesser)
  BY <1>1, <1>3, WFMin
<1>5. PICK y \in same : y.id = m
  OBVIOUS
<1>6. \A z \in same : y.id <= z.id
  <2>1. ASSUME NEW z \in same
        PROVE  y.id <= z.id
    <3>1. z.id \in taken /\ z.id \in Nat /\ y.id \in Nat
      BY <1>2
    <3>2. ~(z.id < y.id)
      BY <1>4, <1>5, <3>1
    <3>3. QED
      BY <3>1, <3>2
  <2>2. QED
    BY <2>1
<1>7. QED
  BY <1>5, <1>6 DEF IsFirst

(* A reading leaves the table only when the constraint comes with the      *)
(* commit, and only if an older one of its identity is there and stays.    *)
THEOREM OnlyDuplicatesAreDeleted ==
  Spec => [][\A x \in readings \ readings' :
               /\ unique'
               /\ \E y \in readings \intersect readings' :
                    y.identity = x.identity /\ y.id < x.id]_vars
<1> DEFINE Duplicates ==
      \A x \in readings \ readings' :
         /\ unique'
         /\ \E y \in readings \intersect readings' :
              y.identity = x.identity /\ y.id < x.id
<1>1. ASSUME IInv, DeletedIsUnique, [Next]_vars PROVE Duplicates
  <2>1. CASE readings \subseteq readings'
    BY <2>1
  <2>2. CASE Commit
    <3> SUFFICES ASSUME NEW x \in readings \ readings'
                 PROVE  /\ unique'
                        /\ \E y \in readings \intersect readings' :
                             y.identity = x.identity /\ y.id < x.id
      OBVIOUS
    <3>1. /\ draft # None /\ draft.revision = target
          /\ readings' = Left /\ unique' = draft.unique
      BY <2>2 DEF Commit
    <3>2. draft.gone # None /\ x.id \in draft.gone
      BY <3>1 DEF Left
    <3>3. PICK y \in ever : y.identity = x.identity /\ IsFirst(y)
      BY <1>1, FirstOfIdentity DEF IInv, TypeFits
    <3>4. y \in readings /\ y \in readings'
      BY <1>1, <3>1, <3>3, FirstsAreLeft DEF IInv, ReadingsFit
    <3>5. ~IsFirst(x) /\ x \in ever
      BY <1>1, <3>1, <3>2 DEF IInv, DeletionFits, TypeFits
    <3>6. y.id < x.id
      <4>1. \A z \in ever : z.id \in Nat
        BY <1>1, HistoryAssumption DEF IInv, TypeFits
      <4>2. PICK z \in ever : z.identity = x.identity /\ ~(x.id <= z.id)
        BY <3>5 DEF IsFirst
      <4>3. y.id <= z.id
        BY <3>3, <4>2 DEF IsFirst
      <4>4. QED
        BY <3>5, <4>1, <4>2, <4>3
    <3>7. draft.unique
      BY <1>1, <3>1, <3>2 DEF DeletedIsUnique
    <3>8. QED
      BY <3>1, <3>3, <3>4, <3>6, <3>7
  <2>3. QED
    BY <1>1, <2>1, <2>2, OnlyCommitDeletes
<1>2. IInv /\ DeletedIsUnique /\ [Next]_vars => [Duplicates]_vars
  BY <1>1
<1>3. Init => DeletedIsUnique
  BY DEF Init, DeletedIsUnique
<1>4. QED
  BY Invariance, <1>2, <1>3, DeletedIsUniqueInductive, PTL DEF Spec
=============================================================================
