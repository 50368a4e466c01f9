----------------------- MODULE OrchestratorInvocation -----------------------
(***************************************************************************)
(* One Lambda sandbox of the orchestrator and the invocations it serves:   *)
(* orchestrator/runtime/lib.mjs, handler.mjs and bootstrap.mjs.            *)
(*                                                                         *)
(* An invocation reads its secrets, starts an n8n of its own, waits until  *)
(* it is ready, calls the webhook of one workflow, and stops n8n.  Lambda  *)
(* kills the sandbox at the deadline, wherever the program is.             *)
(*                                                                         *)
(* The program is sequential, so a step carries the time it took; n8n      *)
(* moves by itself in between.                                             *)
(***************************************************************************)
EXTENDS Integers

CONSTANTS
    MaxRequests,        \* bound on the invocations of the model
    Durations,          \* how long a call, a probe or a copy may take
    Timeout,            \* the function's timeout: Lambda's deadline
    StopReserve,        \* stopReserveMs
    StopDeadline,       \* STOP_DEADLINE_MS
    ReadinessDeadline,  \* readinessDeadlineMs
    Pause,              \* the sleep between two probes or two calls
    MaxNotRegistered    \* maxNotRegistered

\* The reserve is the stop deadline and five seconds more (handler.mjs).
ASSUME OrchestratorAssumption ==
    /\ MaxRequests \in Nat
    /\ Durations \subseteq Nat
    /\ Timeout \in Nat
    /\ StopReserve \in Nat
    /\ StopDeadline \in Nat
    /\ ReadinessDeadline \in Nat
    /\ Pause \in Nat \ {0}
    /\ MaxNotRegistered \in Nat
    /\ StopDeadline < StopReserve

VARIABLES
    phase,      \* where the program is; "cold" without a sandbox
    request,    \* number of the invocation
    clock,      \* time since it began
    limit,      \* when waitForReadiness gives up
    patience,   \* timeoutMs of a call to the webhook
    attempts,   \* calls answered with a 404
    secrets,    \* cachedSecrets of the sandbox: none, or what its token is
    n8n,        \* the n8n process on the port
    owner,      \* the invocation that started it
    run,        \* the workflow's execution
    starts,     \* executions started by this invocation
    result      \* how the invocation ends or ended

vars == <<phase, request, clock, limit, patience, attempts, secrets,
          n8n, owner, run, starts, result>>
childVars == <<n8n, owner, run, starts>>

Phases == {"cold", "idle", "secrets", "starting", "probing", "calling", "stopping"}
Working == Phases \ {"cold", "idle"}
\* A listening n8n serves its start-up page; a ready one may not have
\* registered its webhooks; a frozen one answers nothing.
Gone == {"none", "exited"}
Stages == Gone \union {"booting", "listening", "ready", "registered", "frozen"}

TypeOK ==
    /\ phase \in Phases
    /\ request \in 0 .. MaxRequests
    /\ clock \in Nat
    /\ limit \in Int
    /\ patience \in Int
    /\ attempts \in 0 .. MaxNotRegistered
    /\ secrets \in {"none", "blank", "usable"}
    /\ n8n \in Stages
    /\ owner \in 0 .. MaxRequests
    /\ run \in {"none", "running", "done", "failed"}
    /\ starts \in Nat
    /\ result \in {"none", "success", "failure", "cut", "lost"}

Init ==
    /\ phase = "cold"
    /\ request = 0
    /\ clock = 0
    /\ limit = 0
    /\ patience = 0
    /\ attempts = 0
    /\ secrets = "none"
    /\ n8n = "none"
    /\ owner = 0
    /\ run = "none"
    /\ starts = 0
    /\ result = "none"

-----------------------------------------------------------------------------
(* n8n, the workflow, and the platform                                     *)

\* n8n gets on with its start-up, hangs, or dies.
N8nMoves ==
    /\ n8n \notin Gone
    /\ \/ n8n = "booting" /\ n8n' = "listening"
       \/ n8n = "listening" /\ n8n' = "ready"
       \/ n8n = "ready" /\ n8n' = "registered"
       \/ n8n # "frozen" /\ n8n' = "frozen"
       \/ n8n' = "exited"
    /\ UNCHANGED <<phase, request, clock, limit, patience, attempts, secrets,
                   owner, run, starts, result>>

\* The next invocation; an unknown workflow starts nothing.
Invoke ==
    /\ phase \in {"cold", "idle"}
    /\ request < MaxRequests
    /\ request' = request + 1
    /\ clock' = 0
    /\ attempts' = 0
    /\ run' = "none"
    /\ starts' = 0
    /\ \/ phase' = "secrets" /\ result' = "none"
       \/ phase' = "idle" /\ result' = "failure"
    /\ UNCHANGED <<limit, patience, secrets, n8n, owner>>

\* What the sandbox kept is gone with it, n8n too.
LoseSandbox(how) ==
    /\ phase' = "cold"
    /\ secrets' = "none"
    /\ n8n' = "none"
    /\ run' = IF run = "running" THEN "failed" ELSE run
    /\ result' = how
    /\ UNCHANGED <<request, clock, limit, patience, attempts, owner, starts>>

\* The process dies (spawn fails, out of memory), or Lambda recycles an idle
\* sandbox.
Crash == phase # "cold" /\ LoseSandbox(IF phase = "idle" THEN result ELSE "lost")

\* AbortSignal.timeout(Math.max(1, timeoutMs))
Patience == IF patience < 1 THEN 1 ELSE patience

\* Waits for n8n to exit however long it takes.
LongestWaitForExit == IF phase = "calling" THEN Patience ELSE Timeout

\* The longest the program may stay where it is: a call that may be repeated
\* is followed by the pause.  Reading parameters, copying the seed and a
\* readiness probe have no limit of their own.
LongestWait ==
    CASE phase = "calling" ->
           IF attempts < MaxNotRegistered THEN Patience + Pause ELSE Patience
      [] phase = "stopping" -> StopDeadline
      [] OTHER -> Timeout

\* Lambda's deadline.
TimeOut ==
    /\ phase \in Working
    /\ clock + LongestWait >= Timeout
    /\ LoseSandbox("cut")

-----------------------------------------------------------------------------
(* The program                                                             *)

\* A step that took d, within the deadline.
Took(d) ==
    /\ clock + d < Timeout
    /\ clock' = clock + d

Fail ==
    /\ phase' = "idle"
    /\ result' = "failure"

\* readSecrets, then buildCredentialOverwrite, which refuses a token that is
\* missing or blank, and an environment without the role's credentials.  Only
\* a missing token is not kept.
ReadSecrets ==
    /\ phase = "secrets"
    /\ \E d \in Durations : Took(d)
    /\ \E read \in IF secrets = "none" THEN {"none", "blank", "usable"} ELSE {secrets} :
         /\ secrets' = read
         /\ \/ read = "usable" /\ phase' = "starting" /\ UNCHANGED result
            \/ Fail
    /\ UNCHANGED <<request, limit, patience, attempts, childVars>>

\* Spends the reserve.
BudgetToTheEnd == Timeout - clock'

\* What is left for the waits.
Budget == Timeout - clock' - StopReserve

\* prepareUserFolder and startN8n.  The port may be taken by an n8n of an
\* earlier invocation, which then answers in place of the new one.
StartN8n ==
    /\ phase = "starting"
    /\ \E d \in Durations : Took(d)
    /\ \/ /\ phase' = "probing"
          /\ limit' = clock' + IF ReadinessDeadline < Budget
                               THEN ReadinessDeadline ELSE Budget
          /\ IF n8n \in Gone
             THEN n8n' = "booting" /\ owner' = request
             ELSE UNCHANGED <<n8n, owner>>
          /\ UNCHANGED result
       \/ /\ Fail        \* the copy of the seed fails
          /\ UNCHANGED <<limit, n8n, owner>>
    /\ UNCHANGED <<request, patience, attempts, secrets, run, starts>>

\* Any HTTP server on the port will do.
IsReadyByStatus == n8n \in {"listening", "ready", "registered"}

\* 200 with a JSON body from /healthz/readiness.
IsReady == n8n \in {"ready", "registered"}

\* Leaves n8n running when the invocation fails.
GiveUpAtOnce ==
    /\ phase' = "idle"
    /\ result' = "failure"
    /\ UNCHANGED <<limit, patience, attempts>>

\* A wait fails; finally stops n8n before the error goes on.
GiveUp ==
    /\ phase' = "stopping"
    /\ result' = "failure"
    /\ UNCHANGED <<limit, patience, attempts>>

\* One turn of waitForReadiness.  A frozen n8n does not answer, and the probe
\* carries no signal, so the turn never ends.
Probe ==
    /\ phase = "probing"
    /\ IF n8n \in Gone
       THEN GiveUp /\ UNCHANGED clock
       ELSE /\ n8n # "frozen"
            /\ \E d \in Durations :
                 IF IsReady
                 THEN /\ Took(d)
                      /\ phase' = "calling"
                      /\ patience' = Budget
                      /\ UNCHANGED <<limit, attempts, result>>
                 ELSE IF clock + d >= limit
                 THEN Took(d) /\ GiveUp
                 ELSE /\ Took(d + Pause)
                      /\ UNCHANGED <<phase, limit, patience, attempts, result>>
    /\ UNCHANGED <<request, secrets, childVars>>

\* Tries once more than it may.
CallTooEarlyAgain ==
    /\ phase = "calling"
    /\ n8n = "ready"
    /\ \E d \in Durations :
         /\ d <= Patience
         /\ IF attempts <= MaxNotRegistered
            THEN /\ Took(d + Pause)
                 /\ attempts' = attempts + 1
                 /\ UNCHANGED <<phase, limit, patience, result>>
            ELSE Took(d) /\ GiveUp
    /\ UNCHANGED <<request, secrets, childVars>>

\* The webhook answered 404: not registered yet.
CallTooEarly ==
    /\ phase = "calling"
    /\ n8n = "ready"
    /\ \E d \in Durations :
         /\ d <= Patience
         /\ IF attempts < MaxNotRegistered
            THEN /\ Took(d + Pause)
                 /\ attempts' = attempts + 1
                 /\ UNCHANGED <<phase, limit, patience, result>>
            ELSE Took(d) /\ GiveUp
    /\ UNCHANGED <<request, secrets, childVars>>

\* The workflow runs and n8n answers.
WorkflowEnds ==
    /\ phase = "calling"
    /\ n8n = "registered"
    /\ starts' = starts + 1
    /\ \E d \in Durations : d <= Patience /\ Took(d)
    /\ UNCHANGED <<request, limit, patience, secrets, n8n, owner>>

\* Takes any answer for the workflow's.
CallAnsweredAnyhow ==
    /\ WorkflowEnds
    /\ run' \in {"done", "failed"}
    /\ phase' = "stopping"
    /\ result' = "success"
    /\ UNCHANGED attempts

\* Calls again when the workflow has failed.
CallRetryingErrors ==
    /\ WorkflowEnds
    /\ \/ run' = "done" /\ phase' = "stopping" /\ result' = "success" /\ UNCHANGED attempts
       \/ /\ run' = "failed"
          /\ attempts < MaxNotRegistered
          /\ attempts' = attempts + 1
          /\ UNCHANGED <<phase, result>>

\* 200 with a JSON body is the workflow's answer, anything else an error.
CallAnswered ==
    /\ WorkflowEnds
    /\ \/ run' = "done" /\ result' = "success"
       \/ run' = "failed" /\ result' = "failure"
    /\ phase' = "stopping"
    /\ UNCHANGED attempts

\* Nobody answers: the signal ends the call, and the workflow may have begun.
CallAborted ==
    /\ phase = "calling"
    /\ n8n \in {"registered", "frozen"}
    /\ Took(Patience)
    /\ GiveUp
    /\ IF n8n = "registered"
       THEN run' = "running" /\ starts' = starts + 1
       ELSE UNCHANGED <<run, starts>>
    /\ UNCHANGED <<request, secrets, n8n, owner>>

\* n8n has died: the connection is refused.
CallRefused ==
    /\ phase = "calling"
    /\ n8n \in Gone
    /\ GiveUp
    /\ UNCHANGED <<request, clock, secrets, childVars>>

\* child.stop: SIGTERM, and SIGKILL when the deadline is over.
Stop ==
    /\ phase = "stopping"
    /\ \/ n8n \in Gone /\ UNCHANGED clock
       \/ /\ n8n \notin Gone \union {"frozen"}
          /\ \E d \in Durations : d < StopDeadline /\ Took(d)
       \/ n8n \notin Gone /\ Took(StopDeadline)
    /\ phase' = "idle"
    /\ n8n' = IF n8n \in Gone THEN n8n ELSE "exited"
    /\ run' = IF run = "running" THEN "failed" ELSE run
    /\ UNCHANGED <<request, limit, patience, attempts, secrets, owner, starts, result>>

-----------------------------------------------------------------------------
Next ==
    \/ N8nMoves \/ Invoke \/ Crash \/ TimeOut
    \/ ReadSecrets \/ StartN8n \/ Probe
    \/ CallTooEarly \/ CallAnswered \/ CallAborted \/ CallRefused
    \/ Stop

Spec == Init /\ [][Next]_vars
-----------------------------------------------------------------------------
(* Properties                                                              *)

\* The n8n an invocation probes, calls and stops is its own, and an
\* invocation leaves none behind for the next one in the sandbox, however it
\* ends (runInvocation's finally).
N8nIsOwn ==
    /\ phase \in {"probing", "calling", "stopping"} => owner = request
    /\ phase \in {"cold", "idle", "secrets", "starting"} => n8n \in Gone

\* The webhook is called only once n8n has been ready: never the page it
\* serves while it starts (waitForReadiness).
CalledOnlyWhenReady == phase = "calling" => n8n \notin {"booting", "listening"}

\* However often it is called, the webhook starts the workflow at most once
\* per invocation: a retried ingest stores new readings (callWebhook).
WorkflowStartsOnce == starts <= 1

\* A success is the answer of a workflow that this invocation started and
\* that ran to its end; a failure of n8n, of the call or of the workflow is
\* never counted as WorkflowSucceeded (handler).
SuccessIsReal == result = "success" => run = "done" /\ starts = 1

\* Lambda never interrupts a stop that began with the reserve left.
InTimeStopIsNotCut ==
    [][phase = "stopping" /\ result' = "cut" =>
         clock > Timeout - StopReserve]_vars

\* A call to the webhook that needed no retry, made within the budget, leaves
\* the reserve whatever becomes of it.
FirstCallLeavesReserve ==
    [][phase = "calling" /\ phase' = "stopping" /\ attempts = 0 /\ patience > 0 =>
         clock' <= Timeout - StopReserve]_vars

-----------------------------------------------------------------------------
(* A claim of the repository that the code does not keep                   *)

\* docs/orchestration.md:80: the readiness and webhook waits end 25 s before
\* the deadline.
WaitsLeaveReserve ==
    [][phase = "calling" /\ phase' = "stopping" /\ patience > 0 =>
         clock' <= Timeout - StopReserve]_vars
=============================================================================
