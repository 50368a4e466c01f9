------------------------- MODULE ScoringRulesProofs -------------------------
(***************************************************************************)
(* What the rules of an inference run compute, for every trend, score and  *)
(* value of the constants.                                                 *)
(***************************************************************************)
EXTENDS ScoringRules, SequenceTheorems, TLAPS

(* Rounding keeps a score a natural number (round, inference_service.py).  *)
LEMMA RoundedIsNat ==
    ASSUME NEW raw \in Nat
    PROVE  Rounded(raw) \in Nat
BY DEF Rounded

(* Every score has a level (risk_level, feature_mapping.py).               *)
LEMMA EveryScoreHasALevel ==
    ASSUME NEW score \in Nat
    PROVE  RiskLevel(score) \in Levels
BY DEF RiskLevel, Levels

(* Padding and trimming give the contract length, and say where each point *)
(* comes from (_shift_trend).                                              *)
LEMMA NormalisedPoints ==
    ASSUME NEW trend \in Seq(Nat), NEW score \in Nat
    PROVE  /\ Normalised(trend, score) \in Seq(Nat)
           /\ Len(Normalised(trend, score)) = TrendLength
           /\ \A i \in 1 .. TrendLength :
                Normalised(trend, score)[i] =
                    LET j == i + Len(trend) - TrendLength
                    IN  IF j < 1 THEN score ELSE trend[j]
<1> USE RulesAssumption
<1>1. Len(trend) \in Nat
  BY LenProperties
<1>2. CASE Len(trend) < TrendLength
  <2> DEFINE n   == TrendLength - Len(trend)
             pad == [i \in 1 .. n |-> score]
  <2>1. n \in Nat
    BY <1>1, <1>2
  <2>2. pad \in Seq(Nat) /\ Len(pad) = n
    BY <2>1
  <2>3. Normalised(trend, score) = pad \o trend
    BY <1>2 DEF Normalised
  <2>4. \A i \in 1 .. n : pad[i] = score
    OBVIOUS
  <2> HIDE DEF pad
  <2>5. /\ pad \o trend \in Seq(Nat)
        /\ Len(pad \o trend) = TrendLength
        /\ \A i \in 1 .. TrendLength :
             (pad \o trend)[i] = IF i <= n THEN pad[i] ELSE trend[i - n]
    BY <1>1, <2>1, <2>2, ConcatProperties
  <2>6. ASSUME NEW i \in 1 .. TrendLength
        PROVE  (pad \o trend)[i] =
                  LET j == i + Len(trend) - TrendLength
                  IN  IF j < 1 THEN score ELSE trend[j]
    <3>1. CASE i <= n
      BY <1>1, <2>1, <2>4, <2>5, <3>1
    <3>2. CASE ~(i <= n)
      <4>1. i - n = i + Len(trend) - TrendLength
        BY <1>1, <2>1
      <4>2. (pad \o trend)[i] = trend[i + Len(trend) - TrendLength]
        BY <2>5, <3>2, <4>1
      <4>3. QED
        BY <1>1, <2>1, <3>2, <4>2
    <3>3. QED
      BY <3>1, <3>2
  <2>7. QED
    BY <2>3, <2>5, <2>6
<1>3. CASE Len(trend) >= TrendLength
  <2> DEFINE m == Len(trend) - TrendLength + 1
  <2>1. Normalised(trend, score) = SubSeq(trend, m, Len(trend))
    BY <1>1, <1>3 DEF Normalised
  <2>2. m \in Int /\ \A i \in m .. Len(trend) : trend[i] \in Nat
    BY <1>1, <1>3, ElementOfSeq
  <2>3. /\ SubSeq(trend, m, Len(trend)) \in Seq(Nat)
        /\ Len(SubSeq(trend, m, Len(trend))) = TrendLength
        /\ \A i \in 1 .. TrendLength :
             SubSeq(trend, m, Len(trend))[i] = trend[m + i - 1]
    BY <1>1, <1>3, <2>2, SubSeqProperties
  <2>4. QED
    BY <1>1, <1>3, <2>1, <2>3
<1>4. QED
  BY <1>1, <1>2, <1>3

(* The shift keeps the contract length and ends with the new score.        *)
LEMMA ShiftedPoints ==
    ASSUME NEW trend \in Seq(Nat), NEW score \in Nat, NEW today \in BOOLEAN
    PROVE  /\ ShiftTrend(trend, score, today) \in Seq(Nat)
           /\ Len(ShiftTrend(trend, score, today)) = TrendLength
           /\ ShiftTrend(trend, score, today)[TrendLength] = score
           /\ \A i \in 1 .. TrendLength - 1 :
                ShiftTrend(trend, score, today)[i] =
                    IF today THEN Normalised(trend, score)[i]
                             ELSE Normalised(trend, score)[i + 1]
<1> DEFINE w == Normalised(trend, score)
<1> USE RulesAssumption
<1>1. w \in Seq(Nat) /\ Len(w) = TrendLength
  BY NormalisedPoints
<1> HIDE DEF w
<1>2. ASSUME NEW front \in Seq(Nat), Len(front) = TrendLength - 1
      PROVE  /\ Append(front, score) \in Seq(Nat)
             /\ Len(Append(front, score)) = TrendLength
             /\ Append(front, score)[TrendLength] = score
             /\ \A i \in 1 .. TrendLength - 1 : Append(front, score)[i] = front[i]
  BY <1>2, AppendProperties
<1>3. CASE today
  <2> DEFINE front == SubSeq(w, 1, TrendLength - 1)
  <2>1. \A i \in 1 .. TrendLength - 1 : w[i] \in Nat
    BY <1>1, ElementOfSeq
  <2>2. /\ front \in Seq(Nat)
        /\ Len(front) = TrendLength - 1
        /\ \A i \in 1 .. TrendLength - 1 : front[i] = w[i]
    BY <2>1, SubSeqProperties
  <2>3. ShiftTrend(trend, score, today) = Append(front, score)
    BY <1>3 DEF ShiftTrend, w
  <2> HIDE DEF front
  <2>4. QED
    BY <1>2, <1>3, <2>2, <2>3 DEF w
<1>4. CASE ~today
  <2> DEFINE front == Tail(w)
  <2>1. w # << >>
    BY <1>1
  <2>2. /\ front \in Seq(Nat)
        /\ Len(front) = TrendLength - 1
        /\ \A i \in 1 .. TrendLength - 1 : front[i] = w[i + 1]
    BY <1>1, <2>1, HeadTailProperties
  <2>3. ShiftTrend(trend, score, today) = Append(front, score)
    BY <1>4 DEF ShiftTrend, w
  <2> HIDE DEF front
  <2>4. QED
    BY <1>2, <1>4, <2>2, <2>3 DEF w
<1>5. QED
  BY <1>3, <1>4

(* The list surgery of _shift_trend, pad or trim and then slice and append, *)
(* puts every point where the reference definition says, for every length  *)
(* the stored trend may have.                                              *)
THEOREM ShiftTrendIsPointwise ==
    ASSUME NEW trend \in Seq(Nat), NEW score \in Nat, NEW today \in BOOLEAN
    PROVE  ShiftTrend(trend, score, today) = PointwiseTrend(trend, score, today)
<1> DEFINE s == ShiftTrend(trend, score, today)
           p == PointwiseTrend(trend, score, today)
<1> USE RulesAssumption
<1>1. /\ s \in Seq(Nat)
      /\ Len(s) = TrendLength
      /\ s[TrendLength] = score
      /\ \A i \in 1 .. TrendLength - 1 :
           s[i] = IF today THEN Normalised(trend, score)[i]
                           ELSE Normalised(trend, score)[i + 1]
  BY ShiftedPoints
<1>2. \A i \in 1 .. TrendLength :
        Normalised(trend, score)[i] =
            IF i + Len(trend) - TrendLength < 1 THEN score
            ELSE trend[i + Len(trend) - TrendLength]
  BY NormalisedPoints
<1>3. s \in [1 .. TrendLength -> Nat]
  BY <1>1, LenProperties
<1> HIDE DEF s
<1>4. ASSUME NEW i \in 1 .. TrendLength
      PROVE  s[i] = p[i]
  <2>1. CASE i = TrendLength
    BY <1>1, <2>1 DEF PointwiseTrend
  <2>2. CASE i # TrendLength /\ today
    <3>1. s[i] = Normalised(trend, score)[i]
      BY <1>1, <2>2
    <3>2. QED
      BY <1>2, <2>2, <3>1 DEF PointwiseTrend
  <2>3. CASE i # TrendLength /\ ~today
    <3>1. s[i] = Normalised(trend, score)[i + 1] /\ i + 1 \in 1 .. TrendLength
      BY <1>1, <2>3
    <3>2. QED
      BY <1>2, <2>3, <3>1 DEF PointwiseTrend
  <2>4. QED
    BY <2>1, <2>2, <2>3
<1>5. p = [i \in 1 .. TrendLength |-> p[i]]
  BY DEF PointwiseTrend
<1>6. QED
  BY <1>3, <1>4, <1>5 DEF s

(* Whatever row a run rewrites, _apply leaves a row of the right shape.    *)
LEMMA RescoredIsARow ==
    ASSUME NEW at \in Int, NEW trend \in Seq(Nat), NEW raw \in Nat, NEW t \in Int
    PROVE  Rescored(at, trend, raw, t) \in Rows
<1>1. Rounded(raw) \in Nat
  BY RoundedIsNat
<1>2. RiskLevel(Rounded(raw)) \in Levels
  BY <1>1, EveryScoreHasALevel
<1>3. ScoredToday(at, t) \in BOOLEAN
  BY DEF ScoredToday
<1>4. ShiftTrend(trend, Rounded(raw), ScoredToday(at, t)) \in Seq(Nat)
  BY <1>1, <1>3, ShiftedPoints
<1>5. QED
  BY <1>1, <1>2, <1>4 DEF Rescored, Rows

(* The row _apply leaves is of one piece: level, explanation and the last  *)
(* trend point belong to the stored score.                                 *)
LEMMA RescoredIsCoherent ==
    ASSUME NEW at \in Int, NEW trend \in Seq(Nat), NEW raw \in Nat, NEW t \in Int,
           NEW row, row = Rescored(at, trend, raw, t)
    PROVE  /\ row.risk_level = RiskLevel(row.risk_score)
           /\ row.explained = row.risk_score
           /\ Len(row.trend) = TrendLength
           /\ row.trend[Len(row.trend)] = row.risk_score
<1>1. Rounded(raw) \in Nat /\ ScoredToday(at, t) \in BOOLEAN
  BY RoundedIsNat DEF ScoredToday
<1>2. /\ Len(ShiftTrend(trend, Rounded(raw), ScoredToday(at, t))) = TrendLength
      /\ ShiftTrend(trend, Rounded(raw), ScoredToday(at, t))[TrendLength] = Rounded(raw)
  BY <1>1, ShiftedPoints
<1>3. QED
  BY <1>2 DEF Rescored

(* And its trend is the reference shift of the trend it had.               *)
LEMMA RescoredTrend ==
    ASSUME NEW at \in Int, NEW trend \in Seq(Nat), NEW raw \in Nat, NEW t \in Int,
           NEW row, row = Rescored(at, trend, raw, t)
    PROVE  /\ row.last_scored_at = t
           /\ row.trend = PointwiseTrend(trend, row.risk_score,
                                         ScoredToday(at, row.last_scored_at))
<1>1. Rounded(raw) \in Nat /\ ScoredToday(at, t) \in BOOLEAN
  BY RoundedIsNat DEF ScoredToday
<1>2. ShiftTrend(trend, Rounded(raw), ScoredToday(at, t)) =
        PointwiseTrend(trend, Rounded(raw), ScoredToday(at, t))
  BY <1>1, ShiftTrendIsPointwise
<1>3. QED
  BY <1>2 DEF Rescored
=============================================================================
