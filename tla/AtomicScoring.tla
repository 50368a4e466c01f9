--------------------------- MODULE AtomicScoring ----------------------------
(***************************************************************************)
(* What the scoring of the fleet promises: runs take effect one at a time, *)
(* each as a single step that scores the lifts which reported in its       *)
(* window and sweeps the telemetry outside its band.  No locks, no         *)
(* transactions, no half-done runs.                                        *)
(***************************************************************************)
EXTENDS ScoringRules

VARIABLES clock, readings, elevators

vars == <<clock, readings, elevators>>

Init ==
    /\ clock \in Nat
    /\ readings \in SUBSET Readings
    /\ elevators \in [Elevators -> Rows]

Tick ==
    /\ clock' = clock + 1
    /\ UNCHANGED <<readings, elevators>>

\* A reading not from the future, of an identity not stored yet.
Store ==
    /\ \E x \in readings' :
        /\ x \in Readings
        /\ x.recorded_at <= clock + Skew
        /\ x.stored_at = clock
        /\ \A y \in readings :
             y.elevator = x.elevator => y.recorded_at # x.recorded_at
        /\ readings' = readings \union {x}
    /\ UNCHANGED <<clock, elevators>>

\* One whole run, measured from the instant t.  The rows it decides from are
\* at least those stored before t; every lift they report on is scored but
\* for a minority whose readings are out of band.
ScoreFleet(t, targets, raw) ==
    /\ elevators' =
         [e \in Elevators |->
            IF e \in targets
            THEN Rescored(elevators[e].last_scored_at, elevators[e].trend, raw[e], t)
            ELSE elevators[e]]
    /\ readings' = Pruned(readings, t)
    /\ UNCHANGED clock

Run ==
    \E t \in 0 .. clock, rows \in SUBSET readings :
        /\ {x \in readings : x.stored_at < t} \subseteq rows
        /\ \E targets \in ScorableSets(rows, t) :
             \E raw \in [targets -> RawScores] : ScoreFleet(t, targets, raw)

Next == Tick \/ Store \/ Run

Spec == Init /\ [][Next]_vars
=============================================================================
