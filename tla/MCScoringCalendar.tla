------------------------- MODULE MCScoringCalendar --------------------------
(***************************************************************************)
(* One lift, runs on both sides of a midnight.                             *)
(***************************************************************************)
EXTENDS ScoringCalendar

CONSTANT e1

FullTrend == {<<3000, 5000>>}

FreshReading ==
    {[elevator |-> e1, recorded_at |-> 1, stored_at |-> 0, plausible |-> TRUE]}
=============================================================================
