--------------------------- MODULE MCFleetMetrics ---------------------------
(***************************************************************************)
(* A small instance of FleetMetrics: two lifts in scope and one out of it. *)
(***************************************************************************)
EXTENDS FleetMetrics

FleetOfThree == {"e1", "e2", "e3"}
ScoredLifts == {"e1", "e2"}
=============================================================================
