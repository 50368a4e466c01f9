------------------------- MODULE MCTelemetryIngest --------------------------
(***************************************************************************)
(* Small instances of TelemetryIngest.                                     *)
(***************************************************************************)
EXTENDS TelemetryIngest, TLC

CONSTANTS p1, p2

Report(e, v) == [elevator |-> e, recorded_at |-> 0, value |-> v]

\* Two batches of one source that overlap in opposite orders, one with a
\* repeated reading and an unknown elevator.
Overlapping ==
    (p1 :> <<Report("e1", 1), Report("e9", 1), Report("e2", 1), Report("e1", 2)>>) @@
    (p2 :> <<Report("e2", 3), Report("e1", 4)>>)

OneSource == p1 :> "n8n" @@ p2 :> "n8n"
=============================================================================
