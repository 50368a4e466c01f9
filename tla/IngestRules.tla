---------------------------- MODULE IngestRules -----------------------------
(***************************************************************************)
(* Telemetry batches and the rows they become:                             *)
(* backend/app/schemas/telemetry.py, backend/app/models/telemetry.py and   *)
(* backend/app/services/telemetry_service.py.  A producer fixes its batch  *)
(* once and sends the same batch again when a try fails.                   *)
(***************************************************************************)
EXTENDS Integers, Sequences, FiniteSets

CONSTANTS
    Elevators,      \* ids of the rows of the elevators table
    Producers,      \* executions of the ingest workflow
    MaxTries,       \* maxTries of the node that submits the batch
    Source,         \* per producer, the source its batch names
    Batch           \* per producer, its readings in order

Reports == [elevator : STRING, recorded_at : Nat, value : Nat]

ASSUME IngestAssumption ==
    /\ MaxTries \in Nat \ {0}
    /\ \A p \in Producers : Batch[p] \in Seq(Reports)

\* One HTTP request: a producer and which of its tries it is.
Requests == Producers \X (1 .. MaxTries)

\* The values of the measurements stand together as one `value`; the request
\* stands for the batch_id it draws.
Row(q, k) ==
    LET r == Batch[q[1]][k]
    IN  [elevator |-> r.elevator, recorded_at |-> r.recorded_at,
         source |-> Source[q[1]], value |-> r.value, batch |-> q]

\* The unique constraint uq_telemetry_readings_identity.
Identity(row) == <<row.elevator, row.recorded_at, row.source>>
IdentitiesOf(rows) == {Identity(x) : x \in rows}

\* Positions of the batch whose elevator is known.
Valid(q) == {k \in DOMAIN Batch[q[1]] : Batch[q[1]][k].elevator \in Elevators}

ValidRows(q) == {Row(q, k) : k \in Valid(q)}

\* The rows a batch adds to a table: of each identity not stored yet, the
\* first report.
NewRows(q, rows) ==
    {Row(q, k) : k \in
        {j \in Valid(q) :
            /\ Identity(Row(q, j)) \notin IdentitiesOf(rows)
            /\ \A i \in Valid(q) :
                 i < j => Identity(Row(q, i)) # Identity(Row(q, j))}}
=============================================================================
