---------------------------- MODULE ReadingStore ----------------------------
(***************************************************************************)
(* What ingest promises: a request takes effect whole and at once or not   *)
(* at all; it adds the readings not stored yet and changes none that are;  *)
(* and the number it reports is the number it added.                       *)
(***************************************************************************)
EXTENDS IngestRules

VARIABLES rows, accepted

vars == <<rows, accepted>>

Unanswered == -1

Init ==
    /\ rows = {}
    /\ accepted = [q \in Requests |-> Unanswered]

\* The request takes effect; its answer may be lost on the way.
Store(q) ==
    /\ accepted[q] = Unanswered
    /\ Valid(q) # {}
    /\ rows' = rows \union NewRows(q, rows)
    /\ accepted' \in {accepted,
                      [accepted EXCEPT ![q] = Cardinality(NewRows(q, rows))]}

Next == \E q \in Requests : Store(q)

Spec == Init /\ [][Next]_vars
=============================================================================
