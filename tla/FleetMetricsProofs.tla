------------------------- MODULE FleetMetricsProofs -------------------------
(***************************************************************************)
(* Proofs about FleetMetrics, for any fleet, scope and number of runs.     *)
(*                                                                         *)
(* A query counts every lift in one bucket.  From there the counts travel  *)
(* from variable to variable: the task, the snapshot, the dict the reader  *)
(* took, the export.  Each of these is whole or still empty, and a history *)
(* variable says which; a run that moves lifts between levels touches none *)
(* of them.                                                                *)
(***************************************************************************)
EXTENDS FleetMetrics, FiniteSetTheorems, TLAPS

-----------------------------------------------------------------------------
(* The inductive invariant                                                 *)

(* The counts of the whole fleet, as it was at some moment.                *)
Whole(c) ==
    /\ c["high"] + c["medium"] + c["low"] + c["out_of_scope"] = Cardinality(Lifts)
    /\ c["out_of_scope"] = Cardinality(Lifts \ InScope)

WholeOrEmpty(c, isWhole) ==
    /\ isWhole => Whole(c)
    /\ ~isWhole => c = _empty_counts

(* The task runs only while the process serves.                            *)
TaskFits == phase \notin {"serving", "cancelling"} => task = "none"

CountsFit ==
    /\ task = "told" => Whole(told)
    /\ WholeOrEmpty(snapshot, refreshed)
    /\ WholeOrEmpty(counts, current)

(* What is exported is what the dict says of the first levels.             *)
ExportFits ==
    /\ Len(exported) <= 4
    /\ collecting => Len(exported) < 4
    /\ \A i \in 1 .. Len(exported) : exported[i] = counts[RISK_LEVELS[i]]

IInv == TypeOK /\ TaskFits /\ CountsFit /\ ExportFits
-----------------------------------------------------------------------------
(* The counting                                                            *)

At(b) == {e \in Lifts : LevelOf(e) = b}

LEMMA DisjointUnion ==
  ASSUME NEW S, NEW T, IsFiniteSet(S), IsFiniteSet(T), S \intersect T = {}
  PROVE  /\ IsFiniteSet(S \union T)
         /\ Cardinality(S \union T) = Cardinality(S) + Cardinality(T)
<1>1. /\ IsFiniteSet(S \union T)
      /\ Cardinality(S \union T)
           = Cardinality(S) + Cardinality(T) - Cardinality(S \intersect T)
  BY FS_Union
<1>2. Cardinality(S \intersect T) = 0
  BY FS_EmptySet
<1>3. Cardinality(S) \in Nat /\ Cardinality(T) \in Nat
  BY FS_CardinalityType
<1>4. QED
  BY <1>1, <1>2, <1>3

(* Every lift is counted in one bucket, whatever its level is, and one the *)
(* model does not score in a bucket of its own.                            *)
LEMMA FleetCountsAreWhole ==
  ASSUME level \in [InScope -> ScoredLevels]
  PROVE  FleetCounts \in Counts /\ Whole(FleetCounts)
<1>1. \A e \in Lifts : LevelOf(e) \in Buckets /\ (LevelOf(e) = "out_of_scope" <=> e \notin InScope)
  BY DEF LevelOf, Buckets, ScoredLevels
<1>2. Lifts = ((At("high") \union At("medium")) \union At("low")) \union At("out_of_scope")
  BY <1>1 DEF At, Buckets, ScoredLevels
<1>3. At("out_of_scope") = Lifts \ InScope
  BY <1>1 DEF At
<1>4. /\ At("high") \intersect At("medium") = {}
      /\ (At("high") \union At("medium")) \intersect At("low") = {}
      /\ ((At("high") \union At("medium")) \union At("low")) \intersect At("out_of_scope") = {}
  BY DEF At
<1>5. /\ IsFiniteSet(Lifts) /\ Cardinality(Lifts) \in Nat
      /\ \A b : /\ IsFiniteSet(At(b))
               /\ Cardinality(At(b)) \in Nat
               /\ Cardinality(At(b)) <= Cardinality(Lifts)
  BY MetricsAssumption, FS_Subset, FS_CardinalityType DEF At
<1>6. /\ IsFiniteSet(At("high") \union At("medium"))
      /\ Cardinality(At("high") \union At("medium"))
           = Cardinality(At("high")) + Cardinality(At("medium"))
  BY <1>4, <1>5, DisjointUnion
<1>7. /\ IsFiniteSet((At("high") \union At("medium")) \union At("low"))
      /\ Cardinality((At("high") \union At("medium")) \union At("low"))
           = Cardinality(At("high") \union At("medium")) + Cardinality(At("low"))
  BY <1>4, <1>5, <1>6, DisjointUnion
<1>8. Cardinality(Lifts)
        = Cardinality((At("high") \union At("medium")) \union At("low"))
            + Cardinality(At("out_of_scope"))
  BY <1>2, <1>4, <1>5, <1>7, DisjointUnion
<1>9. \A b \in Buckets : FleetCounts[b] = Cardinality(At(b))
  BY DEF FleetCounts, At
<1>10. FleetCounts \in Counts
  <2>1. \A b \in Buckets : Cardinality({e \in Lifts : LevelOf(e) = b}) \in 0 .. Cardinality(Lifts)
    BY <1>5 DEF At
  <2>2. QED
    BY <2>1 DEF FleetCounts, Counts
<1>11. Whole(FleetCounts)
  BY <1>3, <1>5, <1>6, <1>7, <1>8, <1>9 DEF Whole, Buckets, ScoredLevels
<1>12. QED
  BY <1>10, <1>11

LEMMA FleetIsFinite == Cardinality(Lifts) \in Nat
BY MetricsAssumption, FS_CardinalityType

LEMMA EmptyIsCounts == _empty_counts \in Counts
BY FleetIsFinite DEF _empty_counts, Counts

LEMMA EmptyIsExport == << >> \in Seq(0 .. Cardinality(Lifts))
OBVIOUS

LEMMA LevelsAreBuckets ==
  /\ Len(RISK_LEVELS) = 4
  /\ \A i \in 1 .. 4 : RISK_LEVELS[i] \in Buckets
BY DEF RISK_LEVELS, Buckets, ScoredLevels
-----------------------------------------------------------------------------
(* Steps                                                                   *)

LEMMA InitIInv == Init => IInv
<1> SUFFICES ASSUME Init PROVE IInv
  OBVIOUS
<1>1. TypeOK
  <2>1. runs \in 0 .. MaxRuns
    BY MetricsAssumption DEF Init
  <2>2. exported \in Seq(0 .. Cardinality(Lifts))
    BY EmptyIsExport DEF Init
  <2>3. QED
    BY <2>1, <2>2, EmptyIsCounts DEF Init, TypeOK
<1>2. TaskFits /\ CountsFit /\ ExportFits
  BY DEF Init, TaskFits, CountsFit, WholeOrEmpty, ExportFits
<1>3. QED
  BY <1>1, <1>2 DEF IInv

(* A process that ends takes all of it along but the fleet.                *)
LEMMA FreshIInv ==
  ASSUME IInv, Fresh, UNCHANGED <<settings, fleetVars>>
  PROVE  IInv'
<1>1. TypeOK'
  BY EmptyIsCounts, EmptyIsExport DEF IInv, TypeOK, Fresh, fleetVars
<1>2. TaskFits' /\ CountsFit' /\ ExportFits'
  BY DEF Fresh, TaskFits, CountsFit, WholeOrEmpty, ExportFits
<1>3. QED
  BY <1>1, <1>2 DEF IInv

(* The counts are of one moment as long as they stay where they are.       *)
LEMMA CountsUntouched ==
  ASSUME IInv, UNCHANGED <<snapshot, refreshed, told, readerVars>>,
         task' = "told" => task = "told"
  PROVE  CountsFit' /\ ExportFits'
<1>1. CountsFit'
  BY DEF IInv, CountsFit, WholeOrEmpty, Whole, _empty_counts, readerVars
<1>2. ExportFits'
  BY DEF IInv, ExportFits, readerVars
<1>3. QED
  BY <1>1, <1>2

LEMMA LifeIInv ==
  ASSUME IInv, Build \/ Start \/ Stop \/ TaskCancelled \/ ShutDown \/ Crash
  PROVE  IInv'
<1>1. CASE Build
  <2>1. CASE Fresh
    BY <1>1, <2>1, FreshIInv DEF Build
  <2>2. CASE ~Fresh
    <3>1. /\ phase' = "built" /\ phase \in {"down", "built", "stopped"}
          /\ providers' \in {providers, Configured}
          /\ configured' \in {configured, TRUE}
          /\ UNCHANGED <<settings, fleetVars, registered, taskVars, readerVars>>
      BY <1>1, <2>2 DEF Build, ConfigureTelemetry
    <3>2. TypeOK'
      BY <3>1 DEF IInv, TypeOK, Configured, fleetVars, taskVars, readerVars
    <3>3. TaskFits' /\ CountsFit' /\ ExportFits'
      BY <3>1, CountsUntouched DEF IInv, TaskFits, taskVars
    <3>4. QED
      BY <3>2, <3>3 DEF IInv
  <2>3. QED
    BY <2>1, <2>2
<1>2. CASE Start
  <2>1. CASE Fresh
    BY <1>2, <2>1, FreshIInv DEF Start
  <2>2. CASE ~Fresh
    <3>1. /\ phase' = "serving"
          /\ registered' = (registered \/ settings.enabled)
          /\ task' \in {"asking", "none"}
          /\ UNCHANGED <<providers, configured, snapshot, refreshed, told, readerVars>>
          /\ UNCHANGED <<settings, fleetVars>>
      BY <1>2, <2>2 DEF Start
    <3>2. registered' \in BOOLEAN
      BY <3>1
    <3>3. TypeOK'
      BY <3>1, <3>2 DEF IInv, TypeOK, fleetVars, readerVars
    <3>4. TaskFits' /\ CountsFit' /\ ExportFits'
      BY <3>1, CountsUntouched DEF TaskFits
    <3>5. QED
      BY <3>3, <3>4 DEF IInv
  <2>3. QED
    BY <2>1, <2>2
<1>3. CASE Crash
  BY <1>3, FreshIInv DEF Crash
<1>4. ASSUME Stop \/ TaskCancelled \/ ShutDown PROVE IInv'
  <2>1. /\ phase' \in {"flushing", "cancelling", "stopped"}
        /\ task' \in {task, "none"}
        /\ providers' \in {providers, {}}
        /\ UNCHANGED <<settings, configured, registered, fleetVars, snapshot, refreshed, told,
                       readerVars>>
    BY <1>4 DEF Stop, TaskCancelled, ShutDown, taskVars
  <2>2. TypeOK'
    BY <2>1 DEF IInv, TypeOK, fleetVars, readerVars
  <2>3. TaskFits'
    BY <1>4 DEF IInv, TaskFits, Stop, TaskCancelled, ShutDown, taskVars
  <2>4. CountsFit' /\ ExportFits'
    BY <2>1, CountsUntouched
  <2>5. QED
    BY <2>2, <2>3, <2>4 DEF IInv
<1>5. QED
  BY <1>1, <1>2, <1>3, <1>4

LEMMA TaskIInv ==
  ASSUME IInv, Query \/ SetSnapshot \/ QueryFails \/ Wake
  PROVE  IInv'
<1>1. /\ phase = "serving"
      /\ UNCHANGED <<settings, phase, providers, configured, registered, fleetVars, readerVars>>
      /\ task' \in {"told", "sleeping", "asking"}
  BY DEF Query, SetSnapshot, QueryFails, Wake
<1>2. /\ told' \in {told, FleetCounts}
      /\ snapshot' \in {snapshot, told}
      /\ refreshed' \in {refreshed, TRUE}
  BY DEF Query, SetSnapshot, QueryFails, Wake
<1>3. FleetCounts \in Counts /\ Whole(FleetCounts)
  BY FleetCountsAreWhole DEF IInv, TypeOK
<1>4. TypeOK'
  BY <1>1, <1>2, <1>3 DEF IInv, TypeOK, fleetVars, readerVars
<1>5. TaskFits'
  BY <1>1 DEF TaskFits
<1>6. ExportFits'
  BY <1>1 DEF IInv, ExportFits, readerVars
<1>7. CASE Query
  <2>1. Whole(told)'
    BY <1>3, <1>7 DEF Query, Whole
  <2>2. CountsFit'
    BY <1>7, <2>1 DEF IInv, CountsFit, WholeOrEmpty, Whole, _empty_counts, Query, readerVars
  <2>3. QED
    BY <1>4, <1>5, <1>6, <2>2 DEF IInv
<1>8. CASE SetSnapshot
  <2>1. CountsFit'
    BY <1>8 DEF IInv, CountsFit, WholeOrEmpty, Whole, _empty_counts, SetSnapshot, readerVars
  <2>2. QED
    BY <1>4, <1>5, <1>6, <2>1 DEF IInv
<1>9. CASE QueryFails \/ Wake
  <2>1. CountsFit'
    BY <1>1, <1>9, CountsUntouched DEF QueryFails, Wake
  <2>2. QED
    BY <1>4, <1>5, <1>6, <2>1 DEF IInv
<1>10. QED
  BY <1>7, <1>8, <1>9

(* A run moves lifts from level to level, and changes no counts taken.     *)
LEMMA RunIInv == ASSUME IInv, Run PROVE IInv'
<1>1. /\ runs < MaxRuns /\ runs' = runs + 1
      /\ level' \in [InScope -> ScoredLevels]
      /\ UNCHANGED <<settings, phase, providers, configured, registered, taskVars, readerVars>>
  BY DEF Run
<1>2. runs' \in 0 .. MaxRuns
  BY <1>1, MetricsAssumption DEF IInv, TypeOK
<1>3. TypeOK'
  BY <1>1, <1>2 DEF IInv, TypeOK, taskVars, readerVars
<1>4. TaskFits' /\ CountsFit' /\ ExportFits'
  BY <1>1, CountsUntouched DEF IInv, TaskFits, taskVars
<1>5. QED
  BY <1>3, <1>4 DEF IInv

LEMMA CollectIInv == ASSUME IInv, Collect PROVE IInv'
<1>1. TypeOK'
  BY DEF IInv, TypeOK, Collect, fleetVars, taskVars
<1>2. TaskFits'
  BY DEF IInv, TaskFits, Collect, taskVars
<1>3. CountsFit'
  BY DEF IInv, CountsFit, WholeOrEmpty, Whole, _empty_counts, Collect, taskVars
<1>4. ExportFits'
  BY DEF ExportFits, Collect
<1>5. QED
  BY <1>1, <1>2, <1>3, <1>4 DEF IInv

LEMMA ObserveIInv == ASSUME IInv, Observe PROVE IInv'
<1> DEFINE n == Len(exported)
<1>1. /\ exported \in Seq(0 .. Cardinality(Lifts)) /\ n \in Nat /\ n < 4
      /\ counts \in Counts
  BY DEF IInv, TypeOK, ExportFits, Observe
<1>2. /\ exported' = Append(exported, counts[RISK_LEVELS[n + 1]])
      /\ collecting' = (Len(exported') < 4)
      /\ UNCHANGED <<settings, phase, providers, configured, registered, fleetVars, taskVars,
                     counts, current>>
  BY LevelsAreBuckets DEF Observe
<1>3. n + 1 \in 1 .. 4
  BY <1>1
<1>4. counts[RISK_LEVELS[n + 1]] \in 0 .. Cardinality(Lifts)
  BY <1>1, <1>3, LevelsAreBuckets DEF Counts
<1>5. /\ exported' \in Seq(0 .. Cardinality(Lifts))
      /\ Len(exported') = n + 1
      /\ \A i \in 1 .. n : exported'[i] = exported[i]
      /\ exported'[n + 1] = counts[RISK_LEVELS[n + 1]]
  BY <1>1, <1>2, <1>4
<1>6. TypeOK'
  BY <1>2, <1>5 DEF IInv, TypeOK, fleetVars, taskVars
<1>7. TaskFits'
  BY <1>2 DEF IInv, TaskFits, taskVars
<1>8. CountsFit'
  BY <1>2 DEF IInv, CountsFit, WholeOrEmpty, Whole, _empty_counts, taskVars
<1>9. \A i \in 1 .. n + 1 : exported'[i] = counts[RISK_LEVELS[i]]
  BY <1>1, <1>5 DEF IInv, ExportFits
<1>10. ExportFits'
  <2>1. collecting' => Len(exported') < 4
    BY <1>2, Zenon
  <2>2. Len(exported') <= 4
    BY <1>1, <1>5
  <2>3. \A i \in 1 .. Len(exported') : exported'[i] = counts'[RISK_LEVELS[i]]
    BY <1>2, <1>5, <1>9
  <2>4. QED
    BY <2>1, <2>2, <2>3 DEF ExportFits
<1>11. QED
  BY <1>6, <1>7, <1>8, <1>10 DEF IInv

LEMMA IInvInductive == IInv /\ [Next]_vars => IInv'
<1> SUFFICES ASSUME IInv, [Next]_vars PROVE IInv'
  OBVIOUS
<1>1. CASE Build \/ Start \/ Stop \/ TaskCancelled \/ ShutDown \/ Crash
  BY <1>1, LifeIInv
<1>2. CASE Query \/ SetSnapshot \/ QueryFails \/ Wake
  BY <1>2, TaskIInv
<1>3. CASE Run
  BY <1>3, RunIInv
<1>4. CASE Collect
  BY <1>4, CollectIInv
<1>5. CASE Observe
  BY <1>5, ObserveIInv
<1>6. CASE UNCHANGED vars
  <2>1. TypeOK' /\ TaskFits'
    BY <1>6 DEF IInv, TypeOK, TaskFits, vars, fleetVars, taskVars, readerVars
  <2>2. CountsFit' /\ ExportFits'
    BY <1>6, CountsUntouched DEF vars, readerVars
  <2>3. QED
    BY <2>1, <2>2 DEF IInv
<1>7. QED
  BY <1>1, <1>2, <1>3, <1>4, <1>5, <1>6 DEF Next
-----------------------------------------------------------------------------
(* Theorems                                                                *)

(* The counts go from the query to the export whole: those of one fleet,   *)
(* or zeros before the first refresh (refresh_snapshot_once).              *)
THEOREM Invariance == Spec => []IInv
BY InitIInv, IInvInductive, PTL DEF Spec

(* Every variable keeps its type; no count is ever above the fleet.        *)
THEOREM TypeCorrect == Spec => []TypeOK
<1>1. IInv => TypeOK
  BY DEF IInv
<1>2. QED
  BY Invariance, <1>1, PTL

(* The refresh task is gone before the providers are shut down (lifespan). *)
THEOREM RefreshAlwaysStopsFirst == Spec => []RefreshStopsFirst
<1>1. IInv => RefreshStopsFirst
  BY DEF IInv, TaskFits, RefreshStopsFirst
<1>2. QED
  BY Invariance, <1>1, PTL

(* What the reader exports adds up to the fleet, however the refresh, the  *)
(* runs and the reader interleave, for a fleet of any size.                *)
THEOREM ExportIsAlwaysOneSnapshot == Spec => []ExportIsOneSnapshot
<1>1. ASSUME IInv, Complete
      PROVE  /\ Total(exported) = IF current THEN Cardinality(Lifts) ELSE 0
             /\ current => exported[4] = Cardinality(Lifts \ InScope)
  <2>1. Len(exported) = 4
    BY <1>1, LevelsAreBuckets DEF Complete
  <2>2. /\ exported[1] = counts["high"] /\ exported[2] = counts["medium"]
        /\ exported[3] = counts["low"] /\ exported[4] = counts["out_of_scope"]
    BY <1>1, <2>1 DEF IInv, ExportFits, RISK_LEVELS
  <2>3. CASE current
    BY <1>1, <2>2, <2>3 DEF IInv, CountsFit, WholeOrEmpty, Whole, Total
  <2>4. CASE ~current
    <3>1. \A b \in Buckets : counts[b] = 0
      BY <1>1, <2>4 DEF IInv, CountsFit, WholeOrEmpty, _empty_counts
    <3>2. QED
      BY <2>2, <2>4, <3>1 DEF Total, Buckets, ScoredLevels
  <2>5. QED
    BY <2>3, <2>4
<1>2. IInv => ExportIsOneSnapshot
  BY <1>1 DEF ExportIsOneSnapshot
<1>3. QED
  BY Invariance, <1>2, PTL
=============================================================================
