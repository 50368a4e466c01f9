------------------------- MODULE FleetScoringProofs -------------------------
(***************************************************************************)
(* Theorems of FleetScoring, for every fleet, number of concurrent runs,   *)
(* trend length, window, skew and retention.                               *)
(*                                                                         *)
(* The inductive invariant is IInv: the lock is held by the one run inside *)
(* its transaction, and so whatever that run loaded, decided and wrote     *)
(* still fits the committed tables when it commits.                        *)
(***************************************************************************)
EXTENDS FleetScoring, ScoringRulesProofs, FiniteSetTheorems

(* DecisionIsCurrent, and that the run looked at every implausible row     *)
(* there is: ingest has let none in since the band was added.              *)
DecisionFits ==
    \A r \in Runs : phase[r] \in {"scoring", "applied"} =>
        \E rows \in SUBSET readings :
            /\ {x \in readings : x.stored_at < now[r]} \subseteq rows
            /\ {x \in readings : ~x.plausible} \subseteq rows
            /\ targets[r] \in ScorableSets(rows, now[r])

IInv ==
    /\ TypeOK
    /\ LockIsHeld
    /\ NowIsPast
    /\ SnapshotIsCurrent
    /\ DecisionFits
    /\ RowsAreCoherent

-----------------------------------------------------------------------------
(* Type correctness                                                        *)

(* The blank rows of a fresh transaction, and what the prune leaves, have  *)
(* the right type.                                                         *)
LEMMA BlankTypes ==
    /\ NothingSeen \in [Elevators -> Int]
    /\ NothingWritten \in [Elevators -> Rows]
    /\ \A rows, t : Pruned(rows, t) \subseteq rows
<1>1. << >> \in Seq(Nat)
  OBVIOUS
<1>2. QED
  BY <1>1 DEF NothingSeen, NothingWritten, Rows, Levels, Never, Pruned

(* A seeded row is a row, and a coherent one.                              *)
LEMMA SeededRow ==
    ASSUME NEW t \in Seq(Nat), NEW stamp \in Int
    PROVE  /\ SeedRows(t, stamp) \in Rows
           /\ SeedRows(t, stamp).risk_level = RiskLevel(SeedRows(t, stamp).risk_score)
           /\ SeedRows(t, stamp).explained = SeedRows(t, stamp).risk_score
           /\ SeedRows(t, stamp).trend = t
           /\ t # << >> => t[Len(t)] = SeedRows(t, stamp).risk_score
<1> DEFINE score == IF t = << >> THEN 0 ELSE t[Len(t)]
<1>1. score \in Nat
  <2>1. CASE t = << >>
    BY <2>1
  <2>2. CASE t # << >>
    <3>1. Len(t) \in 1 .. Len(t)
      BY <2>2, EmptySeq, LenProperties
    <3>2. QED
      BY <2>2, <3>1, ElementOfSeq
  <2>3. QED
    BY <2>1, <2>2
<1>2. RiskLevel(score) \in Levels
  BY <1>1, EveryScoreHasALevel
<1> HIDE DEF score
<1>3. SeedRows(t, stamp) = [risk_score |-> score, risk_level |-> RiskLevel(score),
                            explained |-> score, last_scored_at |-> stamp, trend |-> t]
  BY DEF SeedRows, score
<1>4. t # << >> => t[Len(t)] = score
  BY DEF score
<1>5. QED
  BY <1>1, <1>2, <1>3, <1>4 DEF Rows

LEMMA InitTypeOK == Init => TypeOK
<1> SUFFICES ASSUME Init PROVE TypeOK
  OBVIOUS
<1>1. PICK t \in [InScope -> SeedTrends], stamp \in {Never, 0} :
        elevators = [e \in Elevators |->
                       SeedRows(IF e \in InScope THEN t[e] ELSE << >>, stamp)]
  BY DEF Init
<1>2. stamp \in Int
  BY DEF Never
<1>3. ASSUME NEW e \in Elevators
      PROVE  (IF e \in InScope THEN t[e] ELSE << >>) \in Seq(Nat)
  BY FleetAssumption
<1>4. elevators \in [Elevators -> Rows]
  BY <1>1, <1>2, <1>3, SeededRow
<1>5. QED
  BY <1>4, BlankTypes, FleetAssumption DEF Init, TypeOK, Phases

(* Forgetting a transaction's state keeps it well typed.                   *)
LEMMA ForgetTypeOK ==
    ASSUME TypeOK, NEW r \in Runs, Forget(r)
    PROVE  /\ phase' \in [Runs -> Phases]
           /\ now' \in [Runs -> Nat]
           /\ seen' \in [Runs -> [Elevators -> Int]]
           /\ targets' \in [Runs -> SUBSET InScope]
           /\ writes' \in [Runs -> [Elevators -> Rows]]
BY BlankTypes DEF TypeOK, Forget, Phases

(* Every step keeps every variable in its range.                           *)
LEMMA TypeInductive == TypeOK /\ [Next]_vars => TypeOK'
<1> SUFFICES ASSUME TypeOK, [Next]_vars PROVE TypeOK'
  OBVIOUS
<1> USE DEF TypeOK
<1>1. CASE Tick
  BY <1>1 DEF Tick, runVars
<1>2. CASE Ingest
  <2>1. PICK e \in Elevators, at \in 0 .. clock + Skew :
          readings' = readings \union
             {[elevator |-> e, recorded_at |-> at, stored_at |-> clock,
               plausible |-> TRUE]}
    BY <1>2 DEF Ingest
  <2>2. at \in Int /\ clock \in Int
    BY RulesAssumption
  <2>3. [elevator |-> e, recorded_at |-> at, stored_at |-> clock,
         plausible |-> TRUE] \in Readings
    BY <2>2, Zenon DEF Readings
  <2>4. readings' \in SUBSET Readings
    BY <2>1, <2>3
  <2>5. QED
    BY <1>2, <2>4 DEF Ingest, runVars
<1>3. ASSUME NEW r \in Runs, Begin(r) PROVE TypeOK'
  BY <1>3 DEF Begin, Phases
<1>4. ASSUME NEW r \in Runs, AcquireRunLock(r) PROVE TypeOK'
  BY <1>4 DEF AcquireRunLock, runVars, Phases
<1>5. ASSUME NEW r \in Runs, ReadFleet(r) PROVE TypeOK'
  <2>1. LastScoredAt \in [Elevators -> Int]
    BY DEF LastScoredAt, Rows
  <2>2. PICK scorable \in ScorableSets(readings, now[r]) :
          /\ targets' = [targets EXCEPT ![r] = scorable]
          /\ phase' = [phase EXCEPT ![r] =
                         IF scorable = {} THEN "applied" ELSE "scoring"]
    BY <1>5 DEF ReadFleet
  <2>3. scorable \subseteq InScope
    BY <2>2 DEF ScorableSets, OutOfBand, Reporting
  <2>4. QED
    BY <1>5, <2>1, <2>2, <2>3 DEF ReadFleet, Phases
<1>6. ASSUME NEW r \in Runs, ScoreAndApply(r) PROVE TypeOK'
  <2>1. PICK raw \in [targets[r] -> RawScores] :
          writes' = [writes EXCEPT ![r] =
            [e \in Elevators |->
                IF e \in targets[r]
                THEN Rescored(seen[r][e], elevators[e].trend, raw[e], now[r])
                ELSE NothingWritten[e]]]
    BY <1>6 DEF ScoreAndApply
  <2>2. ASSUME NEW e \in Elevators
        PROVE  (IF e \in targets[r]
                THEN Rescored(seen[r][e], elevators[e].trend, raw[e], now[r])
                ELSE NothingWritten[e]) \in Rows
    <3>1. CASE e \in targets[r]
      <4>1. seen[r][e] \in Int /\ now[r] \in Int
        OBVIOUS
      <4>2. elevators[e].trend \in Seq(Nat)
        BY DEF Rows
      <4>3. raw[e] \in Nat
        BY <3>1, RulesAssumption
      <4>4. QED
        BY <3>1, <4>1, <4>2, <4>3, RescoredIsARow
    <3>2. CASE e \notin targets[r]
      BY <3>2, BlankTypes
    <3>3. QED
      BY <3>1, <3>2
  <2>3. writes' \in [Runs -> [Elevators -> Rows]]
    BY <2>1, <2>2
  <2>4. QED
    BY <1>6, <2>3 DEF ScoreAndApply, Phases
<1>7. ASSUME NEW r \in Runs, Commit(r) PROVE TypeOK'
  <2>1. elevators' \in [Elevators -> Rows]
    BY <1>7 DEF Commit
  <2>2. readings' \in SUBSET Readings
    BY <1>7, BlankTypes DEF Commit
  <2>3. QED
    BY <1>7, <2>1, <2>2, ForgetTypeOK DEF Commit
<1>8. ASSUME NEW r \in Runs, Abort(r) PROVE TypeOK'
  BY <1>8, ForgetTypeOK DEF Abort
<1>9. CASE UNCHANGED vars
  BY <1>9 DEF vars
<1>10. QED
  BY <1>1, <1>2, <1>3, <1>4, <1>5, <1>6, <1>7, <1>8, <1>9 DEF Next

(* The variables keep their types in every behaviour.                      *)
THEOREM TypeCorrect == Spec => []TypeOK
BY InitTypeOK, TypeInductive, PTL DEF Spec

-----------------------------------------------------------------------------
(* The inductive invariant                                                 *)

LEMMA InitIInv == Init => IInv
<1> SUFFICES ASSUME Init PROVE IInv
  OBVIOUS
<1>1. TypeOK
  BY InitTypeOK
<1>2. \A r \in Runs : phase[r] = "idle" /\ now[r] = 0 /\ lock = NoRun
  BY DEF Init
<1>3. LockIsHeld /\ NowIsPast /\ SnapshotIsCurrent /\ DecisionFits
  BY <1>1, <1>2, FleetAssumption
     DEF LockIsHeld, NowIsPast, SnapshotIsCurrent, DecisionFits, Inside, TypeOK
<1>4. RowsAreCoherent
  <2>1. PICK t \in [InScope -> SeedTrends], stamp \in {Never, 0} :
          elevators = [e \in Elevators |->
                         SeedRows(IF e \in InScope THEN t[e] ELSE << >>, stamp)]
    BY DEF Init
  <2>2. ASSUME NEW e \in InScope
        PROVE  /\ elevators[e] = SeedRows(t[e], stamp)
               /\ t[e] \in Seq(Nat)
    BY <2>1, RulesAssumption, FleetAssumption
  <2>3. stamp \in Int
    BY DEF Never
  <2>4. QED
    BY <2>2, <2>3, SeededRow DEF RowsAreCoherent
<1>5. QED
  BY <1>1, <1>3, <1>4 DEF IInv

(* The lock is taken only when it is free, and goes with the transaction.  *)
LEMMA LockInductive == TypeOK /\ LockIsHeld /\ [Next]_vars => LockIsHeld'
<1> SUFFICES ASSUME TypeOK, LockIsHeld, [Next]_vars PROVE LockIsHeld'
  OBVIOUS
<1> USE FleetAssumption DEF TypeOK, LockIsHeld, Inside
<1>1. CASE Tick \/ Ingest
  BY <1>1 DEF Tick, Ingest
<1>2. ASSUME NEW r \in Runs, Begin(r) PROVE LockIsHeld'
  BY <1>2 DEF Begin
<1>3. ASSUME NEW r \in Runs, AcquireRunLock(r) PROVE LockIsHeld'
  BY <1>3 DEF AcquireRunLock
<1>4. ASSUME NEW r \in Runs, ReadFleet(r) PROVE LockIsHeld'
  BY <1>4 DEF ReadFleet
<1>5. ASSUME NEW r \in Runs, ScoreAndApply(r) PROVE LockIsHeld'
  BY <1>5 DEF ScoreAndApply
<1>6. ASSUME NEW r \in Runs, Commit(r) PROVE LockIsHeld'
  BY <1>6 DEF Commit, Forget
<1>7. ASSUME NEW r \in Runs, Abort(r) PROVE LockIsHeld'
  BY <1>7 DEF Abort, Forget
<1>8. CASE UNCHANGED vars
  BY <1>8 DEF vars
<1>9. QED
  BY <1>1, <1>2, <1>3, <1>4, <1>5, <1>6, <1>7, <1>8 DEF Next

(* Two runs are never inside their transactions at once.                   *)
LEMMA OneRunInside ==
    ASSUME LockIsHeld, NEW r \in Runs, NEW q \in Runs,
           phase[r] \in Inside, phase[q] \in Inside
    PROVE  r = q
BY DEF LockIsHeld

(* The clock only moves forward.                                           *)
LEMMA NowInductive == TypeOK /\ NowIsPast /\ [Next]_vars => NowIsPast'
<1> SUFFICES ASSUME TypeOK, NowIsPast, [Next]_vars PROVE NowIsPast'
  OBVIOUS
<1> USE DEF TypeOK, NowIsPast
<1>1. CASE Tick \/ Ingest
  BY <1>1 DEF Tick, Ingest, runVars
<1>2. ASSUME NEW r \in Runs, Begin(r) PROVE NowIsPast'
  BY <1>2 DEF Begin
<1>3. ASSUME NEW r \in Runs, AcquireRunLock(r) \/ ReadFleet(r) \/ ScoreAndApply(r)
      PROVE  NowIsPast'
  BY <1>3 DEF AcquireRunLock, ReadFleet, ScoreAndApply, runVars
<1>4. ASSUME NEW r \in Runs, Commit(r) \/ Abort(r) PROVE NowIsPast'
  BY <1>4 DEF Commit, Abort, Forget
<1>5. CASE UNCHANGED vars
  BY <1>5 DEF vars
<1>6. QED
  BY <1>1, <1>2, <1>3, <1>4, <1>5 DEF Next

(* Only a commit changes the elevator rows or removes a reading.           *)
LEMMA OnlyCommitWrites ==
    ASSUME [Next]_vars
    PROVE  \/ UNCHANGED elevators /\ readings \subseteq readings'
           \/ \E r \in Runs : Commit(r)
BY DEF Next, Tick, Ingest, Begin, AcquireRunLock, ReadFleet, ScoreAndApply, Abort, vars

(* What the commit of a run writes to a target, given the invariant.       *)
LEMMA CommittedRow ==
    ASSUME TypeOK, SnapshotIsCurrent, NEW r \in Runs, Commit(r), NEW e \in Elevators
    PROVE  \/ e \notin targets[r] /\ elevators'[e] = elevators[e]
           \/ /\ e \in targets[r]
              /\ \E raw \in RawScores :
                   elevators'[e] = Rescored(elevators[e].last_scored_at,
                                            elevators[e].trend, raw, now[r])
<1>1. phase[r] = "applied"
  BY DEF Commit
<1>2. elevators'[e] = IF e \in targets[r] THEN writes[r][e] ELSE elevators[e]
  BY DEF Commit
<1>3. QED
  BY <1>1, <1>2 DEF SnapshotIsCurrent

(* The run inside its transaction keeps a current view of the fleet.       *)
LEMMA SnapshotInductive ==
    TypeOK /\ LockIsHeld /\ SnapshotIsCurrent /\ [Next]_vars => SnapshotIsCurrent'
<1> SUFFICES ASSUME TypeOK, LockIsHeld, SnapshotIsCurrent, [Next]_vars
             PROVE  SnapshotIsCurrent'
  OBVIOUS
<1> DEFINE Fits(q) ==
      /\ phase[q] \in {"scoring", "applied"} => seen[q] = LastScoredAt
      /\ phase[q] = "applied" => \A e \in targets[q] : \E raw \in RawScores :
           writes[q][e] = Rescored(elevators[e].last_scored_at,
                                   elevators[e].trend, raw, now[q])
<1>0. \A q \in Runs : Fits(q)
  BY DEF SnapshotIsCurrent
<1>a. ASSUME UNCHANGED elevators, NEW q \in Runs,
             \/ phase'[q] \notin {"scoring", "applied"}
             \/ /\ phase'[q] = phase[q] /\ seen'[q] = seen[q] /\ now'[q] = now[q]
                /\ targets'[q] = targets[q] /\ writes'[q] = writes[q]
      PROVE  Fits(q)'
  BY <1>0, <1>a DEF LastScoredAt
<1>1. CASE Tick \/ Ingest \/ UNCHANGED vars
  BY <1>1, <1>a DEF Tick, Ingest, vars, runVars, SnapshotIsCurrent
<1>2. ASSUME NEW r \in Runs, Begin(r) \/ AcquireRunLock(r) \/ Abort(r)
      PROVE  SnapshotIsCurrent'
  BY <1>2, <1>a DEF TypeOK, Begin, AcquireRunLock, Abort, Forget, runVars, SnapshotIsCurrent
<1>3. ASSUME NEW r \in Runs, ReadFleet(r) PROVE SnapshotIsCurrent'
  <2>1. Fits(r)'
    BY <1>3 DEF TypeOK, ReadFleet, LastScoredAt, ScorableSets
  <2>2. QED
    BY <1>3, <1>a, <2>1 DEF TypeOK, ReadFleet, SnapshotIsCurrent
<1>4. ASSUME NEW r \in Runs, ScoreAndApply(r) PROVE SnapshotIsCurrent'
  <2>1. PICK raw \in [targets[r] -> RawScores] :
          writes' = [writes EXCEPT ![r] =
            [e \in Elevators |->
                IF e \in targets[r]
                THEN Rescored(seen[r][e], elevators[e].trend, raw[e], now[r])
                ELSE NothingWritten[e]]]
    BY <1>4 DEF ScoreAndApply
  <2>2. ASSUME NEW e \in targets[r]
        PROVE  writes'[r][e] = Rescored(elevators[e].last_scored_at,
                                        elevators[e].trend, raw[e], now[r])
    <3>1. e \in Elevators
      BY RulesAssumption DEF TypeOK
    <3>2. seen[r][e] = elevators[e].last_scored_at
      BY <1>0, <1>4, <3>1 DEF ScoreAndApply, LastScoredAt
    <3>3. QED
      BY <2>1, <3>1, <3>2 DEF TypeOK
  <2>3. Fits(r)'
    <3>1. /\ UNCHANGED <<elevators, now, seen, targets>>
          /\ phase[r] = "scoring"
      BY <1>4 DEF ScoreAndApply
    <3>2. \A e \in targets[r] : raw[e] \in RawScores
      BY <2>1
    <3>3. QED
      BY <1>0, <2>2, <3>1, <3>2 DEF LastScoredAt
  <2>4. ASSUME NEW q \in Runs, q # r PROVE Fits(q)'
    <3>1. /\ phase'[q] = phase[q] /\ seen'[q] = seen[q] /\ now'[q] = now[q]
          /\ targets'[q] = targets[q] /\ writes'[q] = writes[q]
          /\ UNCHANGED elevators
      BY <1>4, <2>1, <2>4 DEF TypeOK, ScoreAndApply
    <3>2. QED
      BY <1>a, <3>1
  <2>5. QED
    BY <2>3, <2>4 DEF SnapshotIsCurrent
<1>5. ASSUME NEW r \in Runs, Commit(r) PROVE SnapshotIsCurrent'
  <2>1. ASSUME NEW q \in Runs PROVE phase'[q] \notin {"scoring", "applied"}
    BY <1>5, OneRunInside DEF TypeOK, Commit, Forget, Inside
  <2>2. QED
    BY <2>1 DEF SnapshotIsCurrent
<1>6. QED
  BY <1>1, <1>2, <1>3, <1>4, <1>5 DEF Next

(* The readings a run decided from are still there when it commits.        *)
LEMMA DecisionInductive ==
    TypeOK /\ LockIsHeld /\ NowIsPast /\ DecisionFits /\ [Next]_vars
        => DecisionFits'
<1> SUFFICES ASSUME TypeOK, LockIsHeld, NowIsPast, DecisionFits, [Next]_vars
             PROVE  DecisionFits'
  OBVIOUS
<1> DEFINE Decided(q) ==
      phase[q] \in {"scoring", "applied"} =>
        \E rows \in SUBSET readings :
            /\ {x \in readings : x.stored_at < now[q]} \subseteq rows
            /\ {x \in readings : ~x.plausible} \subseteq rows
            /\ targets[q] \in ScorableSets(rows, now[q])
<1>0. \A q \in Runs : Decided(q)
  BY DEF DecisionFits
<1>a. ASSUME UNCHANGED readings, NEW q \in Runs,
             \/ phase'[q] \notin {"scoring", "applied"}
             \/ /\ phase[q] \in {"scoring", "applied"}
                /\ now'[q] = now[q] /\ targets'[q] = targets[q]
      PROVE  Decided(q)'
  BY <1>0, <1>a
<1>1. CASE Tick \/ UNCHANGED vars
  BY <1>1, <1>a DEF Tick, vars, runVars, DecisionFits
<1>2. CASE Ingest
  <2>1. PICK e \in Elevators, at \in 0 .. clock + Skew :
          readings' = readings \union
             {[elevator |-> e, recorded_at |-> at, stored_at |-> clock,
               plausible |-> TRUE]}
    BY <1>2 DEF Ingest
  <2>2. ASSUME NEW q \in Runs, phase[q] \in {"scoring", "applied"}
        PROVE  Decided(q)'
    <3>1. PICK rows \in SUBSET readings :
            /\ {x \in readings : x.stored_at < now[q]} \subseteq rows
            /\ {x \in readings : ~x.plausible} \subseteq rows
            /\ targets[q] \in ScorableSets(rows, now[q])
      BY <1>0, <2>2
    <3>2. UNCHANGED <<phase, now, targets>>
      BY <1>2 DEF Ingest, runVars
    <3>3. ASSUME NEW x \in readings', x.stored_at < now[q]
          PROVE  x \in readings
      BY <2>1, <3>3 DEF NowIsPast, TypeOK
    <3>4. {x \in readings' : x.stored_at < now[q]} \subseteq rows
      BY <3>1, <3>3
    <3>5. {x \in readings' : ~x.plausible} \subseteq rows
      BY <2>1, <3>1
    <3>6. rows \in SUBSET readings'
      BY <2>1
    <3>7. QED
      BY <3>1, <3>2, <3>4, <3>5, <3>6
  <2>3. QED
    BY <1>2, <2>2 DEF Ingest, DecisionFits
<1>3. ASSUME NEW r \in Runs, Begin(r) \/ AcquireRunLock(r) \/ Abort(r)
      PROVE  DecisionFits'
  BY <1>3, <1>a DEF TypeOK, Begin, AcquireRunLock, Abort, Forget, runVars,
                    DecisionFits
<1>4. ASSUME NEW r \in Runs, ReadFleet(r) PROVE DecisionFits'
  <2>1. PICK scorable \in ScorableSets(readings, now[r]) :
          targets' = [targets EXCEPT ![r] = scorable]
    BY <1>4 DEF ReadFleet
  <2>2. UNCHANGED <<readings, now>>
    BY <1>4 DEF ReadFleet
  <2>3. targets'[r] \in ScorableSets(readings, now[r])
    BY <2>1 DEF TypeOK
  <2>4. readings \in SUBSET readings
    OBVIOUS
  <2>5. /\ {x \in readings : x.stored_at < now[r]} \subseteq readings
        /\ {x \in readings : ~x.plausible} \subseteq readings
    OBVIOUS
  <2>6. Decided(r)'
    BY <2>2, <2>3, <2>4, <2>5
  <2>7. ASSUME NEW q \in Runs, q # r PROVE Decided(q)'
    <3>1. phase'[q] = phase[q] /\ now'[q] = now[q] /\ targets'[q] = targets[q]
      BY <1>4, <2>1, <2>7 DEF TypeOK, ReadFleet
    <3>2. QED
      BY <1>a, <2>2, <3>1
  <2>8. QED
    BY <2>6, <2>7 DEF DecisionFits
<1>5. ASSUME NEW r \in Runs, ScoreAndApply(r) PROVE DecisionFits'
  <2>1. ASSUME NEW q \in Runs PROVE Decided(q)'
    <3>1. /\ UNCHANGED <<readings, now, targets>>
          /\ phase[r] = "scoring"
          /\ phase'[q] = IF q = r THEN "applied" ELSE phase[q]
      BY <1>5 DEF TypeOK, ScoreAndApply
    <3>2. QED
      BY <1>a, <3>1
  <2>2. QED
    BY <2>1 DEF DecisionFits
<1>6. ASSUME NEW r \in Runs, Commit(r) PROVE DecisionFits'
  <2>1. ASSUME NEW q \in Runs PROVE phase'[q] \notin {"scoring", "applied"}
    BY <1>6, OneRunInside DEF TypeOK, Commit, Forget, Inside
  <2>2. QED
    BY <2>1 DEF DecisionFits
<1>7. QED
  BY <1>1, <1>2, <1>3, <1>4, <1>5, <1>6 DEF Next

(* A commit leaves every row of one piece.                                 *)
LEMMA CoherentInductive ==
    TypeOK /\ SnapshotIsCurrent /\ RowsAreCoherent /\ [Next]_vars => RowsAreCoherent'
<1> SUFFICES ASSUME TypeOK, SnapshotIsCurrent, RowsAreCoherent, [Next]_vars
             PROVE  RowsAreCoherent'
  OBVIOUS
<1>1. CASE UNCHANGED elevators
  BY <1>1 DEF RowsAreCoherent
<1>2. ASSUME NEW r \in Runs, Commit(r), NEW e \in InScope, elevators'[e].trend # << >>
      PROVE  /\ elevators'[e].risk_level = RiskLevel(elevators'[e].risk_score)
             /\ elevators'[e].explained = elevators'[e].risk_score
             /\ elevators'[e].trend[Len(elevators'[e].trend)] = elevators'[e].risk_score
  <2>1. e \in Elevators
    BY RulesAssumption
  <2>2. CASE elevators'[e] = elevators[e]
    BY <1>2, <2>2 DEF RowsAreCoherent
  <2>3. CASE \E raw \in RawScores :
               elevators'[e] = Rescored(elevators[e].last_scored_at,
                                        elevators[e].trend, raw, now[r])
    <3>1. PICK raw \in RawScores :
               elevators'[e] = Rescored(elevators[e].last_scored_at,
                                        elevators[e].trend, raw, now[r])
      BY <2>3
    <3>2. /\ elevators[e].last_scored_at \in Int
          /\ elevators[e].trend \in Seq(Nat)
      BY <2>1 DEF TypeOK, Rows
    <3>3. raw \in Nat /\ now[r] \in Int
      BY RulesAssumption DEF TypeOK
    <3>4. QED
      BY <3>1, <3>2, <3>3, RescoredIsCoherent
  <2>4. QED
    BY <1>2, <2>1, <2>2, <2>3, CommittedRow
<1>3. QED
  BY <1>1, <1>2, OnlyCommitWrites DEF RowsAreCoherent

(* IInv holds in every reachable state.                                    *)
THEOREM Invariance == Spec => []IInv
<1>1. IInv /\ [Next]_vars => IInv'
  BY TypeInductive, LockInductive, NowInductive, SnapshotInductive,
     DecisionInductive, CoherentInductive DEF IInv
<1>2. QED
  BY InitIInv, <1>1, PTL DEF Spec

(* The lock is always held by exactly the run inside its transaction.      *)
THEOREM LockAlwaysHeld == Spec => []LockIsHeld
<1>1. IInv => LockIsHeld
  BY DEF IInv
<1>2. QED
  BY Invariance, <1>1, PTL

(* A run never works from a stale view of the fleet.                       *)
THEOREM SnapshotAlwaysCurrent == Spec => []SnapshotIsCurrent
<1>1. IInv => SnapshotIsCurrent
  BY DEF IInv
<1>2. QED
  BY Invariance, <1>1, PTL

(* The readings a run decided from outlive its decision.                   *)
THEOREM DecisionAlwaysCurrent == Spec => []DecisionIsCurrent
<1>1. IInv => DecisionIsCurrent
  BY DEF IInv, DecisionFits, DecisionIsCurrent
<1>2. QED
  BY Invariance, <1>1, PTL

(* Level, explanation and last trend point always belong to the score.     *)
THEOREM RowsAlwaysCoherent == Spec => []RowsAreCoherent
<1>1. IInv => RowsAreCoherent
  BY DEF IInv
<1>2. QED
  BY Invariance, <1>1, PTL

-----------------------------------------------------------------------------
(* Action properties                                                       *)

(* The trend moves as the calendar says: the order of commits is the order *)
(* in which last_scored_at and the trend are read and written.             *)
THEOREM TrendAlwaysFollowsDays == Spec => TrendFollowsDays
<1> DEFINE Shifted(e) ==
      elevators'[e] # elevators[e] =>
        elevators'[e].trend =
            PointwiseTrend(elevators[e].trend, elevators'[e].risk_score,
                           ScoredToday(elevators[e].last_scored_at,
                                       elevators'[e].last_scored_at))
<1>1. ASSUME IInv, [Next]_vars, NEW e \in Elevators PROVE Shifted(e)
  <2>1. CASE UNCHANGED elevators
    BY <2>1
  <2>2. ASSUME NEW r \in Runs, Commit(r), elevators'[e] # elevators[e]
        PROVE  Shifted(e)
    <3>1. PICK raw \in RawScores :
            elevators'[e] = Rescored(elevators[e].last_scored_at,
                                     elevators[e].trend, raw, now[r])
      BY <1>1, <2>2, CommittedRow DEF IInv
    <3>2. /\ elevators[e].last_scored_at \in Int
          /\ elevators[e].trend \in Seq(Nat)
          /\ now[r] \in Int
      BY <1>1 DEF IInv, TypeOK, Rows
    <3>3. raw \in Nat
      BY RulesAssumption
    <3>4. QED
      BY <3>1, <3>2, <3>3, RescoredTrend
  <2>3. QED
    BY <1>1, <2>1, <2>2, OnlyCommitWrites
<1>2. IInv /\ [Next]_vars => [\A e \in Elevators : Shifted(e)]_vars
  BY <1>1
<1>3. QED
  BY Invariance, <1>2, PTL DEF Spec, TrendFollowsDays

(* A score is committed only on a reading of its window that is still in   *)
(* the table, and that the prune of the same run leaves there.  This needs *)
(* the window not to reach back beyond the retention.                      *)
THEOREM AlwaysScoredOnEvidence == Spec => ScoredOnlyOnEvidence
<1> DEFINE Evident(e) ==
      elevators'[e] # elevators[e] =>
        /\ e \in InScope
        /\ \E x \in readings \intersect readings' :
             x.elevator = e /\ InWindow(x, elevators'[e].last_scored_at)
<1>1. ASSUME IInv, [Next]_vars, NEW e \in Elevators PROVE Evident(e)
  <2>1. CASE UNCHANGED elevators
    BY <2>1
  <2>2. ASSUME NEW r \in Runs, Commit(r), elevators'[e] # elevators[e]
        PROVE  Evident(e)
    <3>a. /\ e \in targets[r]
          /\ \E raw \in RawScores :
               elevators'[e] = Rescored(elevators[e].last_scored_at,
                                        elevators[e].trend, raw, now[r])
      BY <1>1, <2>2, CommittedRow DEF IInv
    <3>1. e \in targets[r] /\ elevators'[e].last_scored_at = now[r]
      BY <3>a DEF Rescored
    <3>2. PICK rows \in SUBSET readings : targets[r] \in ScorableSets(rows, now[r])
      BY <1>1, <2>2 DEF IInv, DecisionFits, Commit
    <3>3. e \in Reporting(rows, now[r])
      BY <3>1, <3>2 DEF ScorableSets
    <3>4. PICK x \in rows : x.elevator = e /\ InWindow(x, now[r])
      BY <3>3 DEF Reporting
    <3>5. x \in readings /\ x.recorded_at \in Int /\ now[r] \in Int
      BY <1>1, <3>2 DEF IInv, TypeOK, Readings
    <3>6. x \in Pruned(readings, now[r])
      BY <3>4, <3>5, RulesAssumption DEF Pruned, InWindow
    <3>7. readings' = Pruned(readings, now[r])
      BY <2>2 DEF Commit
    <3>8. e \in InScope
      BY <3>3 DEF Reporting
    <3>9. QED
      BY <3>1, <3>4, <3>5, <3>6, <3>7, <3>8
  <2>3. QED
    BY <1>1, <2>1, <2>2, OnlyCommitWrites
<1>2. IInv /\ [Next]_vars => [\A e \in Elevators : Evident(e)]_vars
  BY <1>1
<1>3. QED
  BY Invariance, <1>2, PTL DEF Spec, ScoredOnlyOnEvidence

(* A reading ingest accepted is deleted early only by a run that had begun *)
(* before it was stored.                                                   *)
THEOREM SettledReadingsAlwaysSurvive == Spec => SettledReadingsSurvive
<1> DEFINE Settled ==
      \A x \in readings \ readings' :
         \/ x.recorded_at < clock - Retention
         \/ x.recorded_at > x.stored_at + Skew
         \/ \E r \in Runs : phase[r] = "applied" /\ now[r] < x.stored_at
<1>1. ASSUME IInv, [Next]_vars PROVE Settled
  <2>1. CASE readings \subseteq readings'
    BY <2>1
  <2>2. ASSUME NEW r \in Runs, Commit(r), NEW x \in readings \ readings',
               ~(x.recorded_at < clock - Retention),
               ~(x.recorded_at > x.stored_at + Skew)
        PROVE  phase[r] = "applied" /\ now[r] < x.stored_at
    <3>1. /\ x.recorded_at \in Int /\ x.stored_at \in Int
          /\ now[r] \in Nat /\ clock \in Nat /\ now[r] <= clock
      BY <1>1 DEF IInv, TypeOK, Readings, NowIsPast
    <3>2. phase[r] = "applied" /\ x \notin Pruned(readings, now[r])
      BY <2>2 DEF Commit
    <3>3. QED
      BY <2>2, <3>1, <3>2, RulesAssumption DEF Pruned
  <2>3. QED
    BY <1>1, <2>1, <2>2, OnlyCommitWrites
<1>2. IInv /\ [Next]_vars => [Settled]_vars
  BY <1>1
<1>3. QED
  BY Invariance, <1>2, PTL DEF Spec, SettledReadingsSurvive

(* The sets of lifts that count are finite, as the fleet is.               *)
LEMMA FleetIsFinite ==
    ASSUME NEW S \in SUBSET InScope
    PROVE  IsFiniteSet(S) /\ Cardinality(S) \in Nat
BY RulesAssumption, FS_Subset, FS_CardinalityType

(* Where the out-of-band lifts are no majority of those that report, they  *)
(* are no more than the others.                                            *)
LEMMA MinorityIsFewer ==
    ASSUME NEW rows, NEW t, NEW S \in ScorableSets(rows, t)
    PROVE  \E b \in OutOfBand(rows, t) :
             /\ S = Reporting(rows, t) \ b
             /\ Cardinality(b) <= Cardinality(S)
<1>1. PICK b \in OutOfBand(rows, t) :
        /\ S = Reporting(rows, t) \ b
        /\ Cardinality(b) * 2 <= Cardinality(Reporting(rows, t))
  BY DEF ScorableSets
<1>2. b \subseteq Reporting(rows, t) /\ Reporting(rows, t) \subseteq InScope
  BY DEF OutOfBand, Reporting
<1>3. /\ IsFiniteSet(b) /\ Cardinality(b) \in Nat
      /\ IsFiniteSet(S) /\ Cardinality(S) \in Nat
  BY <1>1, <1>2, FleetIsFinite
<1>4. Reporting(rows, t) = b \union S /\ b \intersect S = {}
  BY <1>1, <1>2
<1>5. Cardinality(b \union S) = Cardinality(b) + Cardinality(S) - Cardinality(b \intersect S)
  BY <1>3, FS_Union
<1>6. Cardinality(b \intersect S) = 0
  BY <1>4, FS_EmptySet
<1>7. Cardinality(Reporting(rows, t)) = Cardinality(b) + Cardinality(S)
  BY <1>3, <1>4, <1>5, <1>6
<1>8. QED
  BY <1>1, <1>3, <1>7

(* The lifts a commit scores are never outnumbered by those whose readings *)
(* are all out of band, also by those in the table when it commits: what   *)
(* has come in since the run looked at it is in band.                      *)
THEOREM BadLiftsAlwaysStayAMinority == Spec => BadLiftsStayAMinority
<1> DEFINE Scored(at) == {f \in InScope : elevators'[f].last_scored_at = at}
<1> DEFINE Bad(at) == {f \in Reporting(readings, at) : \A x \in readings :
                         x.elevator = f /\ InWindow(x, at) => ~x.plausible}
<1>1. ASSUME IInv, [Next]_vars, NEW e \in Elevators, elevators'[e] # elevators[e]
      PROVE  Cardinality(Bad(elevators'[e].last_scored_at))
               <= Cardinality(Scored(elevators'[e].last_scored_at))
  <2>1. PICK r \in Runs : Commit(r)
    BY <1>1, OnlyCommitWrites
  <2>2. \A f \in targets[r] \intersect Elevators : elevators'[f].last_scored_at = now[r]
    <3>1. ASSUME NEW f \in Elevators, f \in targets[r]
          PROVE  \E raw \in RawScores :
                   elevators'[f] = Rescored(elevators[f].last_scored_at,
                                            elevators[f].trend, raw, now[r])
      BY <1>1, <2>1, <3>1, CommittedRow DEF IInv
    <3>2. \A scoredAt, trend, raw, t : Rescored(scoredAt, trend, raw, t).last_scored_at = t
      BY DEF Rescored
    <3>3. ASSUME NEW f \in targets[r] \intersect Elevators
          PROVE  elevators'[f].last_scored_at = now[r]
      <4>1. PICK raw \in RawScores :
              elevators'[f] = Rescored(elevators[f].last_scored_at,
                                       elevators[f].trend, raw, now[r])
        BY <3>1
      <4>2. QED
        BY <3>2, <4>1
    <3>4. QED
      BY <3>3
  <2>3. elevators'[e].last_scored_at = now[r]
    BY <1>1, <2>1, <2>2, CommittedRow DEF IInv
  <2>4. PICK rows \in SUBSET readings :
          /\ {x \in readings : ~x.plausible} \subseteq rows
          /\ targets[r] \in ScorableSets(rows, now[r])
    BY <1>1, <2>1 DEF IInv, DecisionFits, Commit
  <2>5. PICK b \in OutOfBand(rows, now[r]) :
          /\ targets[r] = Reporting(rows, now[r]) \ b
          /\ Cardinality(b) <= Cardinality(targets[r])
    BY <2>4, MinorityIsFewer
  <2>6. ASSUME NEW f \in Bad(now[r])
        PROVE  f \in b
    <3>1. PICK x \in readings : x.elevator = f /\ InWindow(x, now[r])
      BY DEF Reporting
    <3>2. f \in InScope /\ x \in rows
      BY <2>4, <3>1 DEF Reporting
    <3>3. f \in Reporting(rows, now[r])
      BY <3>1, <3>2 DEF Reporting
    <3>4. \A y \in rows : y.elevator = f /\ InWindow(y, now[r]) => ~y.plausible
      BY <2>4
    <3>5. QED
      BY <2>5, <3>3, <3>4 DEF OutOfBand
  <2>7. targets[r] \subseteq Scored(now[r])
    <3>1. targets[r] \subseteq InScope
      BY <2>5 DEF Reporting
    <3>2. QED
      BY <2>2, <3>1, RulesAssumption
  <2>8. b \subseteq InScope /\ Scored(now[r]) \subseteq InScope
    BY <2>5 DEF OutOfBand, Reporting
  <2> HIDE DEF Bad, Scored
  <2>9. /\ IsFiniteSet(b) /\ Cardinality(b) \in Nat
        /\ IsFiniteSet(Scored(now[r])) /\ Cardinality(Scored(now[r])) \in Nat
    BY <2>8, FleetIsFinite
  <2>10. Bad(now[r]) \subseteq b
    BY <2>6
  <2>11. Cardinality(Bad(now[r])) <= Cardinality(b) /\ Cardinality(Bad(now[r])) \in Nat
    BY <2>9, <2>10, FS_Subset, FS_CardinalityType
  <2>12. Cardinality(targets[r]) <= Cardinality(Scored(now[r])) /\ Cardinality(targets[r]) \in Nat
    BY <2>7, <2>9, FS_Subset, FS_CardinalityType
  <2>13. Cardinality(Bad(now[r])) <= Cardinality(Scored(now[r]))
    BY <2>5, <2>9, <2>11, <2>12
  <2>14. QED
    BY <2>3, <2>13
<1>2. IInv /\ [Next]_vars =>
        [\A e \in Elevators : elevators'[e] # elevators[e] =>
            Cardinality(Bad(elevators'[e].last_scored_at))
               <= Cardinality(Scored(elevators'[e].last_scored_at))]_vars
  BY <1>1
<1>3. QED
  BY Invariance, <1>2, PTL DEF Spec, BadLiftsStayAMinority

-----------------------------------------------------------------------------
(* The refinement: every step of FleetScoring is a step of AtomicScoring   *)
(* or leaves its variables alone.  The commit is where a run takes effect, *)
(* and the inductive invariant says that it still fits the tables there.   *)

(* AtomicScoring reads the rules with the same constants, so each rule is  *)
(* the same operator there.                                                *)
LEMMA SameTypes ==
    /\ Atomic!Readings = Readings
    /\ Atomic!Rows = Rows
BY DEF Atomic!Readings, Readings, Atomic!Rows, Rows, Atomic!Levels, Levels

LEMMA SameTrend ==
    ASSUME NEW trend, NEW score, NEW today
    PROVE  Atomic!ShiftTrend(trend, score, today) = ShiftTrend(trend, score, today)
BY Zenon DEF Atomic!ShiftTrend, ShiftTrend, Atomic!Normalised, Normalised

LEMMA SameRescored ==
    ASSUME NEW scoredAt, NEW trend, NEW raw, NEW t
    PROVE  Atomic!Rescored(scoredAt, trend, raw, t) = Rescored(scoredAt, trend, raw, t)
<1>1. Atomic!Rounded(raw) = Rounded(raw)
  BY Zenon DEF Atomic!Rounded, Rounded
<1>2. \A score : Atomic!RiskLevel(score) = RiskLevel(score)
  BY Zenon DEF Atomic!RiskLevel, RiskLevel
<1>3. Atomic!ScoredToday(scoredAt, t) = ScoredToday(scoredAt, t)
  BY Zenon DEF Atomic!ScoredToday, ScoredToday, Atomic!Day, Day, Atomic!Never, Never
<1>4. QED
  BY <1>1, <1>2, <1>3, SameTrend, Zenon DEF Atomic!Rescored, Rescored

LEMMA SameDecision ==
    ASSUME NEW rows, NEW t
    PROVE  /\ Atomic!ScorableSets(rows, t) = ScorableSets(rows, t)
           /\ Atomic!Pruned(rows, t) = Pruned(rows, t)
<1>1. \A x : Atomic!InWindow(x, t) = InWindow(x, t)
  BY Zenon DEF Atomic!InWindow, InWindow
<1>2. Atomic!Reporting(rows, t) = Reporting(rows, t)
  BY <1>1 DEF Atomic!Reporting, Reporting
<1>3. Atomic!OutOfBand(rows, t) = OutOfBand(rows, t)
  BY <1>1, <1>2 DEF Atomic!OutOfBand, OutOfBand
<1>4. Atomic!ScorableSets(rows, t) = ScorableSets(rows, t)
  <2>1. \A S : Atomic!Cardinality(S) = Cardinality(S)
    BY Zenon DEF Atomic!Cardinality, Cardinality
  <2>2. QED
    BY <1>2, <1>3, <2>1 DEF Atomic!ScorableSets, ScorableSets
<1>5. Atomic!Pruned(rows, t) = Pruned(rows, t)
  BY DEF Atomic!Pruned, Pruned
<1>6. QED
  BY <1>4, <1>5

-----------------------------------------------------------------------------
(* A reading ingest commits is one the abstract store accepts.             *)
LEMMA IngestIsStore == TypeOK /\ Ingest => Atomic!Store
<1> SUFFICES ASSUME TypeOK, Ingest PROVE Atomic!Store
  OBVIOUS
<1>1. PICK e \in Elevators, at \in 0 .. clock + Skew :
        /\ \A y \in readings : y.elevator = e => y.recorded_at # at
        /\ readings' = readings \union
             {[elevator |-> e, recorded_at |-> at, stored_at |-> clock,
               plausible |-> TRUE]}
  BY DEF Ingest
<1> DEFINE x == [elevator |-> e, recorded_at |-> at, stored_at |-> clock,
                 plausible |-> TRUE]
<1>2. clock \in Int /\ at \in Int /\ at <= clock + Skew
  BY <1>1, RulesAssumption DEF TypeOK
<1>3. x \in Readings
  BY <1>2, Zenon DEF Readings
<1>4. x.recorded_at = at /\ x.stored_at = clock /\ x.elevator = e
  OBVIOUS
<1>5. x \in readings' /\ readings' = readings \union {x}
  BY <1>1
<1>6. \A y \in readings : y.elevator = x.elevator => y.recorded_at # x.recorded_at
  BY <1>1, <1>4
<1> HIDE DEF x
<1>7. UNCHANGED <<clock, elevators>>
  BY DEF Ingest
<1>8. QED
  BY <1>2, <1>3, <1>4, <1>5, <1>6, <1>7, SameTypes DEF Atomic!Store

(* The commit of a run is the whole run, in one step.                      *)
LEMMA CommitIsRun ==
    ASSUME IInv, NEW r \in Runs, Commit(r)
    PROVE  Atomic!Run
<1>1. phase[r] = "applied"
  BY DEF Commit
<1>2. PICK rows \in SUBSET readings :
        /\ {x \in readings : x.stored_at < now[r]} \subseteq rows
        /\ targets[r] \in ScorableSets(rows, now[r])
  BY <1>1 DEF IInv, DecisionFits
<1> DEFINE Wrote(e, v) == writes[r][e] = Rescored(elevators[e].last_scored_at,
                                                  elevators[e].trend, v, now[r])
<1> DEFINE raw == [e \in targets[r] |-> CHOOSE v \in RawScores : Wrote(e, v)]
<1>3. \A e \in targets[r] : \E v \in RawScores : Wrote(e, v)
  BY <1>1 DEF IInv, SnapshotIsCurrent
<1>4. \A e \in targets[r] : raw[e] \in RawScores /\ Wrote(e, raw[e])
  BY <1>3
<1>5. raw \in [targets[r] -> RawScores]
  BY <1>4
<1> HIDE DEF raw
<1>6. elevators' =
        [e \in Elevators |->
            IF e \in targets[r]
            THEN Atomic!Rescored(elevators[e].last_scored_at, elevators[e].trend,
                                 raw[e], now[r])
            ELSE elevators[e]]
  <2>1. ASSUME NEW e \in Elevators
        PROVE  elevators'[e] =
                 IF e \in targets[r]
                 THEN Atomic!Rescored(elevators[e].last_scored_at,
                                      elevators[e].trend, raw[e], now[r])
                 ELSE elevators[e]
    <3>1. elevators'[e] = IF e \in targets[r] THEN writes[r][e] ELSE elevators[e]
      BY DEF Commit
    <3>2. e \in targets[r] =>
            writes[r][e] = Atomic!Rescored(elevators[e].last_scored_at,
                                           elevators[e].trend, raw[e], now[r])
      BY <1>4, SameRescored
    <3>3. QED
      BY <3>1, <3>2
  <2>2. elevators' = [e \in Elevators |-> elevators'[e]]
    BY DEF Commit
  <2>3. QED
    BY <2>1, <2>2, Zenon
<1>7. readings' = Atomic!Pruned(readings, now[r]) /\ UNCHANGED clock
  BY SameDecision DEF Commit
<1>8. Atomic!ScoreFleet(now[r], targets[r], raw)
  BY <1>6, <1>7 DEF Atomic!ScoreFleet
<1>9. now[r] \in 0 .. clock
  BY DEF IInv, TypeOK, NowIsPast
<1>10. targets[r] \in Atomic!ScorableSets(rows, now[r])
  BY <1>2, SameDecision
<1>11. QED
  BY <1>2, <1>5, <1>8, <1>9, <1>10, Zenon DEF Atomic!Run

(* Concurrent runs look like whole runs one at a time, whatever the number *)
(* of runs and lifts and however they interleave, fail and retry.          *)
THEOREM RunsAreAlwaysAtomic == Spec => RunsAreAtomic
<1>1. Init => Atomic!Init
  BY InitTypeOK, SameTypes DEF Init, TypeOK, Atomic!Init
<1>2. ASSUME IInv, [Next]_vars PROVE [Atomic!Next]_(Atomic!vars)
  <2>1. CASE Tick
    BY <2>1 DEF Tick, Atomic!Next, Atomic!Tick
  <2>2. CASE Ingest
    BY <1>2, <2>2, IngestIsStore DEF IInv, Atomic!Next
  <2>3. ASSUME NEW r \in Runs, Commit(r) PROVE Atomic!Next
    BY <1>2, <2>3, CommitIsRun DEF Atomic!Next
  <2>4. ASSUME NEW r \in Runs,
               \/ Begin(r) \/ AcquireRunLock(r) \/ ReadFleet(r)
               \/ ScoreAndApply(r) \/ Abort(r)
        PROVE  UNCHANGED Atomic!vars
    BY <2>4 DEF Begin, AcquireRunLock, ReadFleet, ScoreAndApply, Abort, Atomic!vars
  <2>5. CASE UNCHANGED vars
    BY <2>5 DEF vars, Atomic!vars
  <2>6. QED
    BY <1>2, <2>1, <2>2, <2>3, <2>4, <2>5 DEF Next
<1>3. QED
  BY Invariance, <1>1, <1>2, PTL DEF Spec, RunsAreAtomic, Atomic!Spec
=============================================================================
