-------------------------- MODULE TelemetryIngest ---------------------------
(***************************************************************************)
(* Concurrent submissions to POST /api/telemetry/readings:                 *)
(* TelemetryService.ingest and TelemetryRepository.create_many inside the  *)
(* per-request transaction of get_db, and the n8n node that submits a      *)
(* batch and tries again.                                                  *)
(*                                                                         *)
(* The batch is one INSERT ... ON CONFLICT DO NOTHING.  PostgreSQL works   *)
(* through its VALUES in order.  A row whose identity is committed, or     *)
(* comes earlier in the statement, is skipped; one whose identity another  *)
(* open transaction has inserted waits for that transaction to end; and a  *)
(* circle of waiters loses one of them to the deadlock detector.           *)
(***************************************************************************)
EXTENDS IngestRules

VARIABLES
    rows,       \* committed rows of telemetry_readings
    phase,      \* how far each request has come
    todo,       \* positions of its batch the INSERT has not reached
    pending,    \* rows a request has inserted and not committed
    accepted,   \* what its 201 reports as accepted, once it is sent
    tries,      \* requests each producer has sent
    outcome     \* what each producer knows of its batch

vars == <<rows, phase, todo, pending, accepted, tries, outcome>>

Unanswered == -1
Phases == {"unsent", "received", "inserting", "stored", "refused", "failed"}
Ended == {"stored", "refused", "failed"}
Outcomes == {"unsubmitted", "waiting", "error", "created", "dropped"}

TypeOK ==
    /\ rows \subseteq UNION {ValidRows(q) : q \in Requests}
    /\ phase \in [Requests -> Phases]
    /\ todo \in [Requests -> SUBSET Nat]
    /\ \A q \in Requests : todo[q] \subseteq Valid(q)
    /\ DOMAIN pending = Requests
    /\ \A q \in Requests : pending[q] \subseteq ValidRows(q)
    /\ accepted \in [Requests -> Nat \union {Unanswered}]
    /\ tries \in [Producers -> 0 .. MaxTries]
    /\ outcome \in [Producers -> Outcomes]

Init ==
    /\ rows = {}
    /\ phase = [q \in Requests |-> "unsent"]
    /\ todo = [q \in Requests |-> {}]
    /\ pending = [q \in Requests |-> {}]
    /\ accepted = [q \in Requests |-> Unanswered]
    /\ tries = [p \in Producers |-> 0]
    /\ outcome = [p \in Producers |-> "unsubmitted"]

-----------------------------------------------------------------------------
(* The producer                                                            *)

\* The try whose answer the producer waits for.
Current(p) == <<p, tries[p]>>

Submit(p) ==
    /\ outcome[p] \in {"unsubmitted", "error"}
    /\ tries[p] < MaxTries
    /\ tries' = [tries EXCEPT ![p] = @ + 1]
    /\ outcome' = [outcome EXCEPT ![p] = "waiting"]
    /\ phase' = [phase EXCEPT ![<<p, tries[p] + 1>>] = "received"]
    /\ UNCHANGED <<rows, todo, pending, accepted>>

GiveUp(p) ==
    /\ outcome[p] = "error"
    /\ tries[p] = MaxTries
    /\ outcome' = [outcome EXCEPT ![p] = "dropped"]
    /\ UNCHANGED <<rows, phase, todo, pending, accepted, tries>>

\* The answer arrives.  A 422 is an error to the node like any other.
Hear(p) ==
    /\ outcome[p] = "waiting"
    /\ phase[Current(p)] \in Ended
    /\ outcome' = [outcome EXCEPT ![p] =
                     IF phase[Current(p)] = "stored" THEN "created" ELSE "error"]
    /\ UNCHANGED <<rows, phase, todo, pending, accepted, tries>>

\* The answer is lost, or is too late; the server works on.
TimeOut(p) ==
    /\ outcome[p] = "waiting"
    /\ outcome' = [outcome EXCEPT ![p] = "error"]
    /\ UNCHANGED <<rows, phase, todo, pending, accepted, tries>>

-----------------------------------------------------------------------------
(* The request                                                             *)

\* Hands every reading to the INSERT, known elevator or not.
FilterNothing(q) ==
    /\ phase[q] = "received"
    /\ phase' = [phase EXCEPT ![q] = "inserting"]
    /\ todo' = [todo EXCEPT ![q] = DOMAIN Batch[q[1]]]
    /\ UNCHANGED <<rows, pending, accepted, tries, outcome>>

\* filter_existing_ids; a batch with no known elevator is a 422.
Filter(q) ==
    /\ phase[q] = "received"
    /\ IF Valid(q) = {}
       THEN /\ phase' = [phase EXCEPT ![q] = "refused"]
            /\ UNCHANGED todo
       ELSE /\ phase' = [phase EXCEPT ![q] = "inserting"]
            /\ todo' = [todo EXCEPT ![q] = Valid(q)]
    /\ UNCHANGED <<rows, pending, accepted, tries, outcome>>

\* The position the INSERT of q is at.
Reached(q, k) ==
    /\ phase[q] = "inserting"
    /\ k \in todo[q]
    /\ \A j \in todo[q] : k <= j

\* Rows the statement of q cannot insert again.
Stored(q) == rows \union pending[q]

\* r has inserted the identity q is at, and has not ended.
WaitsFor(q, r) ==
    /\ r # q
    /\ pending[r] # {}
    /\ \E k \in todo[q] :
        /\ Reached(q, k)
        /\ Identity(Row(q, k)) \in IdentitiesOf(pending[r])
        /\ Identity(Row(q, k)) \notin IdentitiesOf(Stored(q))

Blocked == {q \in Requests : \E r \in Requests : WaitsFor(q, r)}

\* One row of VALUES: skipped or inserted.
Place(q, k) ==
    /\ todo' = [todo EXCEPT ![q] = @ \ {k}]
    /\ pending' = [pending EXCEPT ![q] =
                     IF Identity(Row(q, k)) \in IdentitiesOf(Stored(q))
                     THEN @ ELSE @ \union {Row(q, k)}]
    /\ UNCHANGED <<rows, phase, accepted, tries, outcome>>

\* Reads what is committed, then inserts, without looking at open
\* transactions.
InsertUnseen(q) ==
    \E k \in todo[q] : Reached(q, k) /\ Place(q, k)

\* Takes a row another transaction has open for stored.
InsertSkippingOpen(q) ==
    \E k \in todo[q] :
        /\ Reached(q, k)
        /\ todo' = [todo EXCEPT ![q] = @ \ {k}]
        /\ pending' = [pending EXCEPT ![q] =
             IF \/ Identity(Row(q, k)) \in IdentitiesOf(Stored(q))
                \/ q \in Blocked
             THEN @ ELSE @ \union {Row(q, k)}]
        /\ UNCHANGED <<rows, phase, accepted, tries, outcome>>

\* Takes the rows of the batch in no particular order.
InsertUnordered(q) ==
    \E k \in todo[q] :
        /\ phase[q] = "inserting"
        /\ \A r \in Requests \ {q} :
             Identity(Row(q, k)) \notin IdentitiesOf(pending[r])
        /\ Place(q, k)

Insert(q) ==
    /\ q \notin Blocked
    /\ \E k \in todo[q] : Reached(q, k) /\ Place(q, k)

\* The sets of requests that wait for one another in a circle.
Circles ==
    {members \in SUBSET Blocked :
        /\ members # {}
        /\ \A r \in members :
            /\ \E s \in members : WaitsFor(r, s)
            /\ \E s \in members : WaitsFor(s, r)}

RollBack(q) ==
    /\ phase' = [phase EXCEPT ![q] = "failed"]
    /\ todo' = [todo EXCEPT ![q] = {}]
    /\ pending' = [pending EXCEPT ![q] = {}]
    /\ UNCHANGED <<rows, accepted, tries, outcome>>

\* Leaves a circle of waiters alone.
NeverBreakCircle(q) == FALSE /\ RollBack(q)

\* The deadlock detector fails one member of the circle: a 500.
BreakCircle(q) ==
    /\ q \in UNION Circles
    /\ RollBack(q)

\* Keeps the rows inserted before the failure.
FailHalfway(q) ==
    /\ phase[q] \in {"received", "inserting"}
    /\ phase' = [phase EXCEPT ![q] = "failed"]
    /\ rows' = rows \union pending[q]
    /\ todo' = [todo EXCEPT ![q] = {}]
    /\ pending' = [pending EXCEPT ![q] = {}]
    /\ UNCHANGED <<accepted, tries, outcome>>

\* The connection, the statement or the server fails.
Fail(q) ==
    /\ phase[q] \in {"received", "inserting"}
    /\ RollBack(q)

\* Writes a repeated reading over the stored one.
CommitOverwriting(q) ==
    /\ phase[q] = "inserting"
    /\ todo[q] = {}
    /\ rows' = {x \in rows : Identity(x) \notin IdentitiesOf(ValidRows(q))}
                 \union {y \in ValidRows(q) : \A z \in ValidRows(q) :
                           Identity(z) = Identity(y) => y.value <= z.value}
    /\ pending' = [pending EXCEPT ![q] = {}]
    /\ \/ /\ phase' = [phase EXCEPT ![q] = "stored"]
          /\ accepted' = [accepted EXCEPT ![q] = Cardinality(pending[q])]
       \/ /\ phase' = [phase EXCEPT ![q] = "failed"]
          /\ UNCHANGED accepted
    /\ UNCHANGED <<todo, tries, outcome>>

\* get_db commits when the handler has returned, before the answer is sent.
\* If the connection goes while it commits, the rows are there and the answer
\* is a 500.
Commit(q) ==
    /\ phase[q] = "inserting"
    /\ todo[q] = {}
    /\ rows' = rows \union pending[q]
    /\ pending' = [pending EXCEPT ![q] = {}]
    /\ \/ /\ phase' = [phase EXCEPT ![q] = "stored"]
          /\ accepted' = [accepted EXCEPT ![q] = Cardinality(pending[q])]
       \/ /\ phase' = [phase EXCEPT ![q] = "failed"]
          /\ UNCHANGED accepted
    /\ UNCHANGED <<todo, tries, outcome>>

-----------------------------------------------------------------------------
Next ==
    \/ \E p \in Producers : Submit(p) \/ GiveUp(p) \/ Hear(p) \/ TimeOut(p)
    \/ \E q \in Requests :
        Filter(q) \/ Insert(q) \/ BreakCircle(q) \/ Fail(q) \/ Commit(q)

\* The server works through what it has received, and PostgreSQL looks for
\* deadlocks after a second.
Fairness ==
    /\ \A q \in Requests : WF_vars(Filter(q) \/ Insert(q) \/ Commit(q))
    /\ WF_vars(\E q \in Requests : BreakCircle(q))

Spec == Init /\ [][Next]_vars
FairSpec == Spec /\ Fairness
-----------------------------------------------------------------------------
(* Properties                                                              *)

\* A reading is stored at most once, and no two open transactions are about
\* to store it: the average over the window weighs it once (create_many).
StoredOnce ==
    LET all == rows \union UNION {pending[q] : q \in Requests}
    IN  \A x, y \in all : Identity(x) = Identity(y) => x = y

\* A producer that got its 201 finds every reading it sent for a known
\* elevator in the table, also those skipped because somebody else was
\* storing them (duplicates_ignored, ingest).
ConfirmedIsStored ==
    \A p \in Producers : outcome[p] = "created" =>
        IdentitiesOf(ValidRows(Current(p))) \subseteq IdentitiesOf(rows)

\* Of all the tries of one batch, however they overlap, one at most labels
\* rows; every other try that is answered reports accepted 0.
OneTryCounts ==
    \A q, r \in Requests : q # r /\ q[1] = r[1] =>
        \/ {x \in rows : x.batch = q} = {}
        \/ {x \in rows : x.batch = r} = {} /\ accepted[r] \in {0, Unanswered}

\* The tries of one batch never block each other in a circle: only batches
\* that list the same readings in different orders can.
RetriesNeverDeadlock ==
    \A circle \in Circles : \E q, r \in circle : q[1] # r[1]

\* The first report of a reading stays: no retry and no other batch changes
\* or relabels a stored row (ON CONFLICT DO NOTHING, not DO UPDATE).
FirstReportStays == [][rows \subseteq rows']_rows

\* Every request that reached the server is answered, even when batches
\* block each other.
EveryRequestIsAnswered ==
    \A q \in Requests : phase[q] = "received" ~> phase[q] \in Ended

\* Concurrent, failing and repeated requests look like whole requests one at
\* a time, and what each reports as accepted is what it added.
Store == INSTANCE ReadingStore WITH rows <- rows, accepted <- accepted
RequestsAreAtomic == Store!Spec
=============================================================================
