---------------------------- MODULE RunEndpoint ----------------------------
(***************************************************************************)
(* POST /api/inference/run from the gate to the scorer and back: the       *)
(* registration of the routers (app/main.py), the token guard              *)
(* (core/ingest_auth.py), the two scorer clients                           *)
(* (services/inference_client.py) and the two doors of the scorer: the     *)
(* HTTP service (inference/main.py) and the Lambda function                *)
(* (inference/lambda_handler.py).                                          *)
(*                                                                         *)
(* A run calls the scorer twice: for the columns of its model, and with    *)
(* the rows built in those columns.  Between the two the model may be      *)
(* replaced, and the second call may meet another process than the first.  *)
(* The run lock (FleetScoring) lets one run at a time call the scorer.     *)
(***************************************************************************)
EXTENDS Naturals

CONSTANTS
    Models,         \* model artefacts the scorer may be deployed with
    Columns,        \* the column order of each
    Supplied,       \* the orders build_feature_row has a value for
    None,           \* no model, no columns
    Sandboxes,      \* sandboxes of the function, or threads of the service
    Environments,   \* values of DEPLOYMENT_ENVIRONMENT
    MaxRequests     \* bound on the requests of the model

Orders == {Columns[m] : m \in Models}

ASSUME EndpointAssumption ==
    /\ Columns = [m \in Models |-> Columns[m]]
    /\ None \notin Models
    /\ None \notin Orders
    /\ MaxRequests \in Nat

VARIABLES
    settings,   \* of the process, read once at start-up
    deployed,   \* the artefact a scorer that starts now would load
    loaded,     \* the model each sandbox has loaded
    work,       \* the call each sandbox works on
    phase,      \* how far the run has come
    columns,    \* feature_names of this run
    scored_by,  \* the model whose scores the run received
    version,    \* model_version the run received
    fault,      \* history: what went wrong, whoever noticed
    status,     \* of the answer; 0 before there is one
    requests    \* requests so far

vars == <<settings, deployed, loaded, work, phase, columns, scored_by, version,
          fault, status, requests>>
runVars == <<phase, columns, scored_by, version, fault, status>>

Idle == [operation |-> "none", names |-> None, awaited |-> FALSE]
Calls == {Idle} \union
         [operation : {"model", "score"}, names : Orders \union {None}, awaited : BOOLEAN]
\* The operation a phase waits for the answer to.
Awaits == [waiting_columns |-> "model", waiting_scores |-> "score"]

Settings == [environment : Environments, token : {"none", "short", "long"},
             transport : {"http", "lambda"}, target : {"scorer", "other"}]

TypeOK ==
    /\ settings \in Settings
    /\ deployed \in Models
    /\ loaded \in [Sandboxes -> Models \union {None}]
    /\ work \in [Sandboxes -> Calls]
    /\ phase \in {"idle", "asking", "waiting_columns", "building", "built",
                  "waiting_scores", "applying"}
    /\ columns \in Orders \union {None}
    /\ scored_by \in Models \union {None}
    /\ version \in Models \union {None}
    /\ fault \in {"none", "silent", "rejected", "crashed", "foreign", "matrix"}
    /\ status \in {0, 200, 401, 404, 500, 502, 503}
    /\ requests \in 0 .. MaxRequests

\* The client is chosen by INFERENCE_LAMBDA_FUNCTION; the target is what
\* answers under the configured name or address.
Init ==
    /\ settings \in Settings
    /\ deployed \in Models
    /\ loaded = [s \in Sandboxes |-> None]
    /\ work = [s \in Sandboxes |-> Idle]
    /\ phase = "idle"
    /\ columns = None
    /\ scored_by = None
    /\ version = None
    /\ fault = "none"
    /\ status = 0
    /\ requests = 0

OverHttp == settings.transport = "http"

-----------------------------------------------------------------------------
(* The gate and the guard                                                  *)

IsProduction(environment) == environment \notin {"local", "test", "ci"}

RoutersAllowed ==
    IsProduction(settings.environment) => settings.token = "long"

\* What a request carries in X-Ingest-Token.
Admitted(header) ==
    IF settings.token = "none"
    THEN ~IsProduction(settings.environment)
    ELSE header = "right"

\* The answer, and what the run keeps of it.
Answer(code, why) ==
    /\ phase' = "idle"
    /\ status' = code
    /\ fault' = why

\* A request that is let in may find nothing to score, and calls nobody.
Request ==
    /\ phase = "idle"
    /\ requests < MaxRequests
    /\ requests' = requests + 1
    /\ columns' = None
    /\ scored_by' = None
    /\ version' = None
    /\ \E header \in {"none", "wrong", "right"} :
        \/ ~RoutersAllowed /\ Answer(404, "none")
        \/ RoutersAllowed /\ ~Admitted(header) /\ Answer(401, "none")
        \/ /\ RoutersAllowed /\ Admitted(header)
           /\ \/ Answer(200, "none")
              \/ phase' = "asking" /\ status' = 0 /\ fault' = "none"
    /\ UNCHANGED <<settings, deployed, loaded, work>>

-----------------------------------------------------------------------------
(* The client                                                              *)

\* Mutated: the HTTP client passes the scorer's own status on.
HttpStatusPassedOn(reply) ==
    IF reply.failed
    THEN IF reply.fault = "rejected" THEN 422 ELSE 502
    ELSE IF reply.body = "foreign" THEN 500 ELSE 200
\* A status other than 200 and a FunctionError look alike here.  The HTTP
\* client then trusts the body, the Lambda client looks into it.
HttpStatus(reply) ==
    IF reply.failed THEN 502 ELSE IF reply.body = "foreign" THEN 500 ELSE 200
\* Mutated: an error the handler returned is taken for an answer.
LambdaStatusUnread(reply) ==
    IF reply.failed THEN 502 ELSE IF reply.body \in {"error", "foreign"} THEN 500 ELSE 200
LambdaStatus(reply) ==
    IF reply.failed \/ reply.body \in {"error", "foreign"} THEN 502 ELSE 200

Status(reply) == IF OverHttp THEN HttpStatus(reply) ELSE LambdaStatus(reply)

\* The client hears the answer to the call it waits for.
Hear(reply) ==
    IF Status(reply) # 200
    THEN Answer(Status(reply), reply.fault) /\ UNCHANGED <<columns, scored_by, version>>
    ELSE \/ /\ phase = "waiting_columns"
            /\ phase' = "building"
            /\ columns' = Columns[reply.model]
            /\ UNCHANGED <<scored_by, version, fault, status>>
         \/ /\ phase = "waiting_scores"
            /\ phase' = "applying"
            /\ scored_by' = reply.model
            /\ version' = reply.version
            /\ UNCHANGED <<columns, fault, status>>

\* Every failure to get an answer is a 503, after one attempt: connection
\* refused, throttled, denied, cut while reading, or the timeout.
Unreachable ==
    /\ phase \in {"asking", "built"}
    /\ Answer(503, "silent")
    /\ UNCHANGED <<settings, deployed, loaded, work, columns, scored_by, version, requests>>

\* The scorer goes on working on the call.
GiveUp ==
    /\ \E s \in Sandboxes :
        /\ work[s].awaited
        /\ work' = [work EXCEPT ![s].awaited = FALSE]
    /\ Answer(503, "silent")
    /\ UNCHANGED <<settings, deployed, loaded, columns, scored_by, version, requests>>

\* feature_names() and score() reach a process; an HTTP service must be up.
Call ==
    /\ settings.target = "scorer"
    /\ \E s \in Sandboxes :
        /\ work[s] = Idle
        /\ OverHttp => loaded[s] # None
        /\ \/ phase = "asking" /\ phase' = "waiting_columns"
           \/ phase = "built" /\ phase' = "waiting_scores"
        /\ work' = [work EXCEPT ![s] =
                      [operation |-> Awaits[phase'], names |-> columns, awaited |-> TRUE]]
    /\ UNCHANGED <<settings, deployed, loaded, columns, scored_by, version, fault,
                   status, requests>>

\* Something else answers under the scorer's name: it lacks the keys, or it
\* fails or refuses (a status other than 200, a FunctionError).
CallOther ==
    /\ settings.target = "other"
    /\ phase = "asking"
    /\ \E refused \in BOOLEAN :
        Hear([failed |-> refused, body |-> "foreign", model |-> None, version |-> None,
              fault |-> IF refused THEN "rejected" ELSE "foreign"])
    /\ UNCHANGED <<settings, deployed, loaded, work, requests>>

-----------------------------------------------------------------------------
(* The run between the calls                                               *)

\* The rows follow the columns just read; a column without a value, or most
\* rows out of the plausible band, ends the run (FleetScoring has the band).
Build ==
    /\ phase = "building"
    /\ \/ /\ columns \in Supplied
          /\ phase' = "built"
          /\ UNCHANGED <<status, fault>>
       \/ Answer(500, "matrix")
    /\ UNCHANGED <<settings, deployed, loaded, work, columns, scored_by, version, requests>>

\* Only a contribution vector of zeros is left to fail.
Apply ==
    /\ phase = "applying"
    /\ Answer(200, "none") \/ Answer(500, "matrix")
    /\ UNCHANGED <<settings, deployed, loaded, work, columns, scored_by, version, requests>>

-----------------------------------------------------------------------------
(* The scorer                                                              *)

Deploy ==
    /\ \E m \in Models \ {deployed} : deployed' = m
    /\ UNCHANGED <<settings, loaded, work, runVars, requests>>

\* The threads of the HTTP service are one process.
Together(s) == IF OverHttp THEN Sandboxes ELSE {s}

\* The HTTP service loads its model once, before it serves.
Start ==
    /\ OverHttp
    /\ \E s \in Sandboxes : loaded[s] = None
    /\ loaded' = [s \in Sandboxes |-> deployed]
    /\ UNCHANGED <<settings, deployed, work, runVars, requests>>

\* Mutated: only the width of the rows is compared, which all models share.
ScorePositionally(model, call) ==
    [failed |-> FALSE, body |-> "scores", model |-> model, version |-> model, fault |-> "none"]
\* Scorer.score: the caller's columns are compared with the model's.  The
\* HTTP service answers a mismatch with 422, the handler returns it.
Score(model, call) ==
    IF call.names = Columns[model]
    THEN [failed |-> FALSE, body |-> "scores", model |-> model, version |-> model,
          fault |-> "none"]
    ELSE [failed |-> OverHttp, body |-> "error", model |-> None, version |-> None,
          fault |-> "rejected"]

Handle(model, call) ==
    IF call.operation = "score"
    THEN Score(model, call)
    ELSE [failed |-> FALSE, body |-> "names", model |-> model, version |-> model,
          fault |-> "none"]

Crashed == [failed |-> TRUE, body |-> "none", model |-> None, version |-> None,
            fault |-> "crashed"]

\* The answer arrives, is lost on the way, or nobody waits for it any more.
Deliver(call, reply) ==
    IF call.awaited
    THEN \/ Hear(reply)
         \/ Answer(503, "silent") /\ UNCHANGED <<columns, scored_by, version>>
    ELSE UNCHANGED runVars

\* A cold sandbox loads the model and keeps it.  The scorer may also raise.
Serve ==
    /\ \E s \in Sandboxes : LET model == IF loaded[s] = None THEN deployed ELSE loaded[s] IN
        /\ work[s] # Idle
        /\ loaded' = [loaded EXCEPT ![s] = model]
        /\ work' = [work EXCEPT ![s] = Idle]
        /\ \E reply \in {Handle(model, work[s]), Crashed} : Deliver(work[s], reply)
    /\ UNCHANGED <<settings, deployed, requests>>

\* A process dies or is recycled, or a call that hangs in it runs into the
\* function's timeout.  Lambda answers for a sandbox that died at work.
Die ==
    /\ \E s \in Sandboxes : LET gone == Together(s) IN
        /\ loaded[s] # None \/ work[s] # Idle
        /\ loaded' = [t \in Sandboxes |-> IF t \in gone THEN None ELSE loaded[t]]
        /\ work' = [t \in Sandboxes |-> IF t \in gone THEN Idle ELSE work[t]]
        /\ IF \E t \in gone : work[t].awaited
           THEN IF OverHttp
                THEN Answer(503, "silent") /\ UNCHANGED <<columns, scored_by, version>>
                ELSE Hear(Crashed)
           ELSE UNCHANGED runVars
    /\ UNCHANGED <<settings, deployed, requests>>

-----------------------------------------------------------------------------

Next ==
    \/ Request \/ Unreachable \/ GiveUp \/ Call \/ CallOther \/ Build \/ Apply
    \/ Deploy \/ Start \/ Serve \/ Die

Spec == Init /\ [][Next]_vars

-----------------------------------------------------------------------------
(* Properties                                                              *)

\* Every score a run takes was computed by a model whose columns are the ones
\* its rows were built in, and carries the version of that model, whatever was
\* deployed, restarted or answered late between the two calls (scorer.py:
\* "a silently transposed matrix ... is the failure mode this service exists
\* to make impossible").
ScoredInBuiltColumns ==
    scored_by # None => Columns[scored_by] = columns /\ version = scored_by

\* The status names the side that failed, over both transports: 503 when no
\* answer arrived, 502 when what answers under the scorer's name, or its
\* platform, said that it failed, 500 when the run itself could not go on.  A
\* stranger's success is told apart from a scorer's only by the Lambda client.
StatusTellsWhoFailed ==
    /\ status = 503 <=> fault = "silent"
    /\ status = 502 <=> \/ fault \in {"rejected", "crashed"}
                        \/ fault = "foreign" /\ ~OverHttp
    /\ status = 500 <=> fault = "matrix" \/ (fault = "foreign" /\ OverHttp)
    /\ status = 200 => fault = "none"
=============================================================================
