---------------------------- MODULE ScoringRules ----------------------------
(***************************************************************************)
(* The data of an inference run and the rules it applies to one elevator   *)
(* row and one telemetry row: backend/app/services/inference_service.py,   *)
(* backend/app/ml/feature_mapping.py, backend/app/schemas/telemetry.py and *)
(* backend/app/repositories/telemetry_repository.py.                       *)
(*                                                                         *)
(* Time is an integer number of ticks.  A model score is an integer number *)
(* of 1/100000, a stored score one of 1/10000 (the code rounds to four     *)
(* decimals), so the thresholds 0.50 and 0.80 are exact.                   *)
(***************************************************************************)
EXTENDS Integers, Sequences, FiniteSets

CONSTANTS
    Elevators,      \* ids of the rows of the elevators table
    InScope,        \* those whose in_model_scope is true
    RawScores,      \* scores the model may return
    TrendLength,    \* TREND_LENGTH
    DayLength,      \* ticks in a calendar day
    Skew,           \* MAX_CLOCK_SKEW
    Window,         \* settings.inference_window_hours
    Retention       \* settings.telemetry_retention_days

(* Both settings come from the environment; their defaults are 24 hours    *)
(* and 30 days, and nothing in the code compares them.                     *)
ASSUME RulesAssumption ==
    /\ IsFiniteSet(Elevators)
    /\ InScope \subseteq Elevators
    /\ RawScores \subseteq Nat
    /\ TrendLength \in Nat \ {0}
    /\ DayLength \in Nat \ {0}
    /\ Skew \in Nat
    /\ Window \in Nat
    /\ Retention \in Nat
    /\ Window <= Retention

-----------------------------------------------------------------------------
(* Elevator rows                                                           *)

Levels == {"low", "medium", "high"}

\* A null last_scored_at: a row older than the column.
Never == -1

\* `explained` stands for the feature rows and the explanation: it is the
\* score they were computed for.
Rows == [risk_score     : Nat,
         risk_level     : Levels,
         explained      : Nat,
         last_scored_at : Int,
         trend          : Seq(Nat)]

\* round(score, 4), half to even.
Rounded(raw) ==
    LET q == raw \div 10
        d == raw % 10
    IN  IF d < 5 \/ (d = 5 /\ q % 2 = 0) THEN q ELSE q + 1

\* Strict at both ends: a score of exactly 0.80 has no level.
RiskLevelGap(score) ==
    IF score > 8000 THEN "high"
    ELSE IF score >= 5000 /\ score < 8000 THEN "medium"
    ELSE IF score < 5000 THEN "low" ELSE "none"

RiskLevel(score) ==
    IF score > 8000 THEN "high" ELSE IF score >= 5000 THEN "medium" ELSE "low"

Day(t) == t \div DayLength

ScoredToday(at, now) == at # Never /\ Day(at) = Day(now)

\* Pad at the front or trim at the front to the contract length.
Normalised(trend, score) ==
    IF Len(trend) < TrendLength
    THEN [i \in 1 .. TrendLength - Len(trend) |-> score] \o trend
    ELSE SubSeq(trend, Len(trend) - TrendLength + 1, Len(trend))

ShiftTrend(trend, score, today) ==
    LET existing == Normalised(trend, score)
    IN  IF today
        THEN Append(SubSeq(existing, 1, TrendLength - 1), score)
        ELSE Append(Tail(existing), score)

\* Grades the unrounded score, then stores the rounded one.
RescoredRawLevel(scoredAt, trend, raw, now) ==
    [risk_score     |-> Rounded(raw),
     risk_level     |-> IF raw > 80000 THEN "high"
                        ELSE IF raw >= 50000 THEN "medium" ELSE "low",
     explained      |-> Rounded(raw),
     last_scored_at |-> now,
     trend          |-> ShiftTrend(trend, Rounded(raw), ScoredToday(scoredAt, now))]

\* The row _apply leaves, from the last_scored_at the run loaded and the
\* trend points it reads back.
Rescored(scoredAt, trend, raw, now) ==
    [risk_score     |-> Rounded(raw),
     risk_level     |-> RiskLevel(Rounded(raw)),
     explained      |-> Rounded(raw),
     last_scored_at |-> now,
     trend          |-> ShiftTrend(trend, Rounded(raw), ScoredToday(scoredAt, now))]

-----------------------------------------------------------------------------
(* Telemetry rows.  One source reports, so (elevator, recorded_at) is the  *)
(* identity of a reading.  `stored_at` is the instant its transaction      *)
(* committed, or an earlier one for rows that were there before; ingest    *)
(* looked at the clock then or before.  `plausible` is whether its         *)
(* temperatures lie in the band 200..400 K after conversion.               *)

Readings == [elevator    : Elevators,
             recorded_at : Int,
             stored_at   : Int,
             plausible   : BOOLEAN]

\* The window of a run that began at now, bounded at both ends.
InWindow(x, now) == now - Window <= x.recorded_at /\ x.recorded_at <= now + Skew

\* Sweeps at the bare clock instead of the tolerance ingest accepts.
PrunedBare(rows, now) ==
    {x \in rows : now - Retention <= x.recorded_at /\ x.recorded_at <= now}

\* Sweeps whatever the window no longer needs.
PrunedToWindow(rows, now) == {x \in rows : InWindow(x, now)}

\* What the prune of a run that began at now leaves.
Pruned(rows, now) ==
    {x \in rows : now - Retention <= x.recorded_at /\ x.recorded_at <= now + Skew}

\* Elevators with a reading in the window.
Reporting(rows, now) ==
    {e \in InScope : \E x \in rows : x.elevator = e /\ InWindow(x, now)}

\* The sets of lifts the out-of-band check may find.  It tests averages: one
\* over plausible readings is in band, one over implausible readings is not,
\* and one over both may be either.
OutOfBand(rows, now) ==
    LET of(e) == {x \in rows : x.elevator = e /\ InWindow(x, now)}
    IN  {bad \in SUBSET Reporting(rows, now) :
            \A e \in Reporting(rows, now) :
                /\ (\A x \in of(e) : x.plausible) => e \notin bad
                /\ (\A x \in of(e) : ~x.plausible) => e \in bad}

\* Scores whatever is left, however little.
ScorableSetsAll(rows, now) ==
    {Reporting(rows, now) \ bad : bad \in OutOfBand(rows, now)}

\* What a run may go on to score: all that report but those out of band, who
\* must not be a majority.  Empty when no outcome of the check lets it go on.
ScorableSets(rows, now) ==
    {Reporting(rows, now) \ bad : bad \in
        {b \in OutOfBand(rows, now) :
            Cardinality(b) * 2 <= Cardinality(Reporting(rows, now))}}

-----------------------------------------------------------------------------
(* Reference definition of the shift: where each point of the new window   *)
(* comes from.  Position 0 of the old window is its last point, so a point *)
(* that was never recorded reads as the new score.                         *)

PointwiseTrend(trend, score, today) ==
    LET old(i) == LET j == i + Len(trend) - TrendLength
                  IN  IF j < 1 THEN score ELSE trend[j]
    IN  [i \in 1 .. TrendLength |->
            IF i = TrendLength THEN score
            ELSE IF today THEN old(i) ELSE old(i + 1)]
=============================================================================
