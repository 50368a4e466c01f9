------------------------- MODULE MCElevatorRequests -------------------------
(***************************************************************************)
(* A small instance of ElevatorRequests: one lift whose score comes back   *)
(* after two runs, and an id that is not in the fleet.                     *)
(***************************************************************************)
EXTENDS ElevatorRequests

OneLift == {"lift"}
ScoreThatReturns == [l \in OneLift |-> [v \in 0 .. 2 |-> IF v = 1 THEN 9 ELSE 3]]
Pages == {"q1", "q2", "q3"}
Briefing == [kind |-> "briefing", lift |-> "lift"]
PageAsks ==
    [q1 |-> {Briefing},
     q2 |-> {Briefing},
     q3 |-> {Briefing, [kind |-> "detail", lift |-> "lift"],
             [kind |-> "report", lift |-> "lift"], [kind |-> "briefing", lift |-> "other"]}]
=============================================================================
