--------------------------- MODULE MCFleetScoring ---------------------------
(***************************************************************************)
(* Small instances of FleetScoring.                                        *)
(***************************************************************************)
EXTENDS FleetScoring, TLC

CONSTANTS e1, e2, e3, e4

(* One lift over several days: days of two ticks, so that runs of one day  *)
(* and of two days overlap, and a trend of two points, seeded short, full  *)
(* and one too long.  Both scores change level when they are rounded.      *)

OneTrend == {<< >>, <<5000>>, <<3000, 5000>>, <<3000, 8000, 5000>>}

Row(e, at, stored, ok) ==
    [elevator |-> e, recorded_at |-> at, stored_at |-> stored, plausible |-> ok]

\* A row from before ingest refused the future.
FutureRow == {Row(e1, 4, 0, TRUE)}

(* A fleet at one instant: three lifts in scope, one out of scope, and rows  *)
(* from before ingest refused implausible temperatures.                    *)

FullTrend == {<<3000, 5000>>}

MixedRows == {Row(e1, 0, 0, TRUE), Row(e1, 1, 0, FALSE), Row(e2, 0, 0, FALSE),
              Row(e3, 0, 0, FALSE), Row(e4, 0, 0, TRUE)}
=============================================================================
