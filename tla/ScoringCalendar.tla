-------------------------- MODULE ScoringCalendar ---------------------------
(***************************************************************************)
(* FleetScoring with a record of the days each lift's trend has moved for, *)
(* to ask what the trend promises over a whole history of runs.            *)
(***************************************************************************)
EXTENDS FleetScoring

VARIABLE advancedFor    \* per lift, the days the window has moved for

\* A commit that drops the oldest point of the lift's window.
Advances(e) ==
    /\ elevators'[e] # elevators[e]
    /\ ~ScoredToday(elevators[e].last_scored_at, elevators'[e].last_scored_at)

CalendarInit == Init /\ advancedFor = [e \in Elevators |-> {}]

CalendarNext ==
    /\ Next
    /\ advancedFor' =
         [e \in Elevators |->
            IF Advances(e)
            THEN advancedFor[e] \union {Day(elevators'[e].last_scored_at)}
            ELSE advancedFor[e]]

CalendarSpec == CalendarInit /\ [][CalendarNext]_<<vars, advancedFor>>

\* inference_service.py:322-334: with the lock held for the whole
\* transaction, a single day does not advance the window twice.
OneAdvancePerDay ==
    [][\A e \in Elevators : Advances(e) =>
         Day(elevators'[e].last_scored_at) \notin advancedFor[e]]_<<vars, advancedFor>>
=============================================================================
