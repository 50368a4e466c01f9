------------------------- MODULE RunEndpointProofs -------------------------
(***************************************************************************)
(* Proofs about RunEndpoint, for any models, any number of sandboxes and   *)
(* requests.                                                               *)
(*                                                                         *)
(* A call in a sandbox belongs to the run while the run awaits it; once    *)
(* the run has given up, no answer to it is heard.  So every answer that   *)
(* is heard answers the call of the phase the run is in (AwaitedIsAsked),  *)
(* and carries the columns of this run.                                    *)
(***************************************************************************)
EXTENDS RunEndpoint, TLAPS

(* At most one call is waited for: the one of the phase, with the run's    *)
(* columns.                                                                *)
AwaitedIsAsked ==
    /\ \A s \in Sandboxes : work[s].awaited =>
        /\ phase \in {"waiting_columns", "waiting_scores"}
        /\ work[s].operation = Awaits[phase]
        /\ phase = "waiting_scores" => work[s].names = columns
    /\ \A s, t \in Sandboxes : work[s].awaited /\ work[t].awaited => s = t

NothingAwaited == \A s \in Sandboxes : ~work[s].awaited

(* Scores are there only when the run applies them or has ended.           *)
NoScoresYet ==
    phase \notin {"applying", "idle"} => scored_by = None

(* A run under way has no status yet, and nothing has gone wrong.          *)
NothingWrongYet ==
    phase # "idle" => status = 0 /\ fault = "none"

RunFits == /\ NoScoresYet
           /\ NothingWrongYet
           /\ ScoredInBuiltColumns
           /\ StatusTellsWhoFailed

IInv == /\ TypeOK
        /\ AwaitedIsAsked
        /\ RunFits

-----------------------------------------------------------------------------

(* The answers of the scorer and of its platform, over either transport:   *)
(* 200 exactly when nothing went wrong, and then by a model whose columns  *)
(* are those of the call.                                                  *)
LEMMA RepliesAreTold ==
  ASSUME TypeOK, NEW model \in Models, NEW call \in Calls,
         NEW reply \in {Handle(model, call), Crashed}
  PROVE  /\ reply.fault \in {"none", "rejected", "crashed"}
         /\ Status(reply) = IF reply.fault = "none" THEN 200 ELSE 502
         /\ reply.fault = "none" => /\ reply.model = model
                                    /\ reply.version = model
                                    /\ call.operation = "score" => call.names = Columns[model]
<1> USE DEF Status, HttpStatus, LambdaStatus, OverHttp
<1>1. CASE reply = Crashed
  BY <1>1 DEF Crashed
<1>2. CASE reply = Handle(model, call) /\ call.operation # "score"
  BY <1>2 DEF Handle
<1>3. CASE reply = Handle(model, call) /\ call.operation = "score" /\ call.names = Columns[model]
  BY <1>3 DEF Handle, Score
<1>4. CASE reply = Handle(model, call) /\ call.operation = "score" /\ call.names # Columns[model]
  BY <1>4 DEF Handle, Score, TypeOK, Settings
<1>5. QED
  BY <1>1, <1>2, <1>3, <1>4

(* What the run says when it ends is the truth, whatever ended it.         *)
Truth(code, why) ==
    /\ code = 503 <=> why = "silent"
    /\ code = 502 <=> \/ why \in {"rejected", "crashed"}
                      \/ why = "foreign" /\ ~OverHttp
    /\ code = 500 <=> why = "matrix" \/ (why = "foreign" /\ OverHttp)
    /\ code = 200 => why = "none"

LEMMA AnswerFits ==
  ASSUME IInv, NEW code, NEW why, Truth(code, why), Answer(code, why), NothingAwaited',
         UNCHANGED <<settings, columns, scored_by, version>>
  PROVE  AwaitedIsAsked' /\ RunFits'
<1>1. AwaitedIsAsked'
  BY DEF NothingAwaited, AwaitedIsAsked
<1>2. NoScoresYet' /\ NothingWrongYet' /\ ScoredInBuiltColumns'
  BY DEF IInv, RunFits, Answer, NoScoresYet, NothingWrongYet, ScoredInBuiltColumns
<1>3. StatusTellsWhoFailed'
  BY DEF Answer, Truth, StatusTellsWhoFailed, OverHttp
<1>4. QED
  BY <1>1, <1>2, <1>3 DEF RunFits

(* The run goes on and keeps its columns, with no scores yet.              *)
LEMMA OnwardFits ==
  ASSUME IInv, phase # "idle", phase # "applying", phase' # "idle", phase' # "applying",
         UNCHANGED <<settings, scored_by, version, fault, status>>
  PROVE  RunFits'
BY EndpointAssumption DEF IInv, RunFits, NoScoresYet, NothingWrongYet, ScoredInBuiltColumns,
       StatusTellsWhoFailed, OverHttp

(* The run hears what a sandbox answers to the call it waits for.          *)
LEMMA HearingFits ==
  ASSUME IInv, NEW s \in Sandboxes, work[s].awaited, NEW model \in Models,
         NEW reply \in {Handle(model, work[s]), Crashed}, Hear(reply),
         NothingAwaited', UNCHANGED settings
  PROVE  /\ AwaitedIsAsked' /\ RunFits'
         /\ phase' \in {"idle", "building", "applying"}
         /\ columns' \in Orders \union {None}
         /\ scored_by' \in Models \union {None} /\ version' \in Models \union {None}
         /\ fault' \in {"none", "rejected", "crashed"}
         /\ status' \in {0, 200, 502}
<1>0. work[s] \in Calls /\ TypeOK
  BY DEF IInv, TypeOK
<1>1. /\ reply.fault \in {"none", "rejected", "crashed"}
      /\ Status(reply) = IF reply.fault = "none" THEN 200 ELSE 502
      /\ reply.fault = "none" => /\ reply.model = model
                                 /\ reply.version = model
                                 /\ work[s].operation = "score" => work[s].names = Columns[model]
  BY <1>0, RepliesAreTold
<1>2. CASE reply.fault # "none"
  <2>1. Answer(502, reply.fault) /\ UNCHANGED <<columns, scored_by, version>>
    BY <1>1, <1>2 DEF Hear
  <2>2. Truth(502, reply.fault)
    BY <1>1, <1>2 DEF Truth
  <2>3. AwaitedIsAsked' /\ RunFits'
    BY <2>1, <2>2, AnswerFits
  <2>4. QED
    BY <1>0, <1>1, <1>2, <2>1, <2>3 DEF TypeOK, Answer
<1>3. CASE reply.fault = "none" /\ phase = "waiting_columns"
  <2>1. /\ phase' = "building" /\ columns' = Columns[model]
        /\ UNCHANGED <<scored_by, version, fault, status>>
    BY <1>1, <1>3 DEF Hear
  <2>2. AwaitedIsAsked'
    BY DEF NothingAwaited, AwaitedIsAsked
  <2>3. RunFits'
    BY <1>3, <2>1, OnwardFits
  <2>4. fault = "none" /\ status = 0
    BY <1>3 DEF IInv, RunFits, NothingWrongYet
  <2>5. QED
    BY <1>0, <2>1, <2>2, <2>3, <2>4 DEF TypeOK, Orders
<1>4. CASE reply.fault = "none" /\ phase # "waiting_columns"
  <2>1. /\ phase = "waiting_scores" /\ phase' = "applying"
        /\ scored_by' = model /\ version' = model
        /\ UNCHANGED <<columns, fault, status>>
    BY <1>1, <1>4 DEF Hear
  <2>2. Columns[model] = columns
    BY <1>1, <1>4, <2>1 DEF IInv, AwaitedIsAsked, Awaits
  <2>3. fault = "none" /\ status = 0
    BY <2>1 DEF IInv, RunFits, NothingWrongYet
  <2>4. AwaitedIsAsked'
    BY DEF NothingAwaited, AwaitedIsAsked
  <2>5. RunFits'
    BY <2>1, <2>2, <2>3 DEF RunFits, NoScoresYet, NothingWrongYet, ScoredInBuiltColumns,
       StatusTellsWhoFailed, OverHttp
  <2>6. QED
    BY <1>0, <2>1, <2>3, <2>4, <2>5 DEF TypeOK
<1>5. QED
  BY <1>2, <1>3, <1>4

-----------------------------------------------------------------------------

LEMMA InitIInv == Init => IInv
BY EndpointAssumption DEF Init, IInv, TypeOK, Calls, Idle, AwaitedIsAsked, RunFits, NoScoresYet,
   NothingWrongYet, ScoredInBuiltColumns, StatusTellsWhoFailed

LEMMA IInvInductive == IInv /\ [Next]_vars => IInv'
<1> SUFFICES ASSUME IInv, [Next]_vars PROVE IInv'
  OBVIOUS
<1> USE EndpointAssumption
<1>0. TypeOK /\ AwaitedIsAsked /\ RunFits /\ NothingWrongYet /\ NoScoresYet
  BY DEF IInv, RunFits
<1>1. CASE Request
  <2>1. NothingAwaited'
    BY <1>0, <1>1 DEF Request, AwaitedIsAsked, NothingAwaited
  <2>2. TypeOK'
    BY <1>0, <1>1 DEF Request, Answer, TypeOK
  <2>3. AwaitedIsAsked'
    BY <2>1 DEF NothingAwaited, AwaitedIsAsked
  <2>4. RunFits'
    BY <1>1 DEF Request, Answer, RunFits, NoScoresYet, NothingWrongYet, ScoredInBuiltColumns,
       StatusTellsWhoFailed
  <2>5. QED
    BY <2>2, <2>3, <2>4 DEF IInv
<1>2. CASE Unreachable
  <2>1. NothingAwaited'
    BY <1>0, <1>2 DEF Unreachable, AwaitedIsAsked, NothingAwaited
  <2>2. TypeOK'
    BY <1>0, <1>2 DEF Unreachable, Answer, TypeOK
  <2>3. AwaitedIsAsked' /\ RunFits'
    BY <1>2, <2>1, AnswerFits DEF Unreachable, Truth
  <2>4. QED
    BY <2>2, <2>3 DEF IInv
<1>3. CASE GiveUp
  <2>1. PICK s \in Sandboxes : work[s].awaited /\ work' = [work EXCEPT ![s].awaited = FALSE]
    BY <1>3 DEF GiveUp
  <2>2. [work[s] EXCEPT !.awaited = FALSE] \in Calls
    <3>1. work[s] \in [operation : {"model", "score"}, names : Orders \union {None},
                       awaited : BOOLEAN]
      BY <1>0, <2>1 DEF TypeOK, Calls, Idle
    <3>2. [work[s] EXCEPT !.awaited = FALSE] \in
            [operation : {"model", "score"}, names : Orders \union {None}, awaited : BOOLEAN]
      BY <3>1
    <3>3. QED
      BY <3>2 DEF Calls
  <2>3. TypeOK'
    <3>1. work' \in [Sandboxes -> Calls]
      BY <1>0, <2>1, <2>2 DEF TypeOK
    <3>2. QED
      BY <1>0, <1>3, <3>1 DEF GiveUp, Answer, TypeOK
  <2>4. NothingAwaited'
    BY <1>0, <2>1 DEF AwaitedIsAsked, NothingAwaited, TypeOK, Calls, Idle
  <2>5. AwaitedIsAsked' /\ RunFits'
    BY <1>3, <2>4, AnswerFits DEF GiveUp, Truth
  <2>6. QED
    BY <2>3, <2>5 DEF IInv
<1>4. CASE Call
  <2>1. PICK s \in Sandboxes :
          /\ work[s] = Idle
          /\ \/ phase = "asking" /\ phase' = "waiting_columns"
             \/ phase = "built" /\ phase' = "waiting_scores"
          /\ work' = [work EXCEPT ![s] =
                        [operation |-> Awaits[phase'], names |-> columns, awaited |-> TRUE]]
    BY <1>4 DEF Call
  <2>2. NothingAwaited
    BY <1>0, <2>1 DEF AwaitedIsAsked, NothingAwaited
  <2>3. [operation |-> Awaits[phase'], names |-> columns, awaited |-> TRUE] \in Calls
    BY <1>0, <2>1 DEF TypeOK, Calls, Awaits
  <2>4. TypeOK'
    BY <1>0, <1>4, <2>1, <2>3 DEF Call, TypeOK
  <2>5. AwaitedIsAsked'
    BY <1>0, <1>4, <2>1, <2>2 DEF Call, AwaitedIsAsked, NothingAwaited, TypeOK
  <2>6. RunFits'
    BY <1>4, <2>1, OnwardFits DEF Call
  <2>7. QED
    BY <2>4, <2>5, <2>6 DEF IInv
<1>5. CASE CallOther
  <2>1. NothingAwaited'
    BY <1>0, <1>5 DEF CallOther, AwaitedIsAsked, NothingAwaited
  <2>2. PICK code \in {500, 502}, why \in {"foreign", "rejected"} :
          /\ Answer(code, why) /\ Truth(code, why)
          /\ UNCHANGED <<columns, scored_by, version>>
    BY <1>5 DEF CallOther, Hear, Status, HttpStatus, LambdaStatus, Truth
  <2>3. AwaitedIsAsked' /\ RunFits'
    BY <1>5, <2>1, <2>2, AnswerFits DEF CallOther
  <2>4. TypeOK'
    BY <1>0, <1>5, <2>2 DEF CallOther, Answer, TypeOK
  <2>5. QED
    BY <2>3, <2>4 DEF IInv
<1>6. CASE Build
  <2>1. NothingAwaited'
    BY <1>0, <1>6 DEF Build, AwaitedIsAsked, NothingAwaited
  <2>2. TypeOK'
    BY <1>0, <1>6 DEF Build, Answer, TypeOK
  <2>3. CASE Answer(500, "matrix")
    BY <1>6, <2>1, <2>2, <2>3, AnswerFits DEF Build, Truth, IInv
  <2>4. CASE phase' = "built" /\ UNCHANGED <<status, fault>>
    <3>1. RunFits'
      BY <1>6, <2>4, OnwardFits DEF Build
    <3>2. AwaitedIsAsked'
      BY <2>1 DEF NothingAwaited, AwaitedIsAsked
    <3>3. QED
      BY <2>2, <3>1, <3>2 DEF IInv
  <2>5. QED
    BY <1>6, <2>3, <2>4 DEF Build
<1>7. CASE Apply
  <2>1. NothingAwaited'
    BY <1>0, <1>7 DEF Apply, AwaitedIsAsked, NothingAwaited
  <2>2. TypeOK'
    BY <1>0, <1>7 DEF Apply, Answer, TypeOK
  <2>3. PICK code \in {200, 500}, why \in {"none", "matrix"} :
          Answer(code, why) /\ Truth(code, why)
    BY <1>7 DEF Apply, Truth
  <2>4. AwaitedIsAsked' /\ RunFits'
    BY <1>7, <2>1, <2>3, AnswerFits DEF Apply
  <2>5. QED
    BY <2>2, <2>4 DEF IInv
<1>8. CASE Deploy
  BY <1>8 DEF Deploy, IInv, TypeOK, runVars, AwaitedIsAsked, RunFits, NoScoresYet,
     NothingWrongYet, ScoredInBuiltColumns, StatusTellsWhoFailed, OverHttp
<1>9. CASE Start
  BY <1>9 DEF Start, IInv, TypeOK, runVars, AwaitedIsAsked, RunFits, NoScoresYet,
     NothingWrongYet, ScoredInBuiltColumns, StatusTellsWhoFailed, OverHttp
<1>10. CASE Serve
  <2>1. PICK s \in Sandboxes :
          LET model == IF loaded[s] = None THEN deployed ELSE loaded[s] IN
          /\ loaded' = [loaded EXCEPT ![s] = model]
          /\ work' = [work EXCEPT ![s] = Idle]
          /\ \E reply \in {Handle(model, work[s]), Crashed} : Deliver(work[s], reply)
    BY <1>10 DEF Serve
  <2> DEFINE model == IF loaded[s] = None THEN deployed ELSE loaded[s]
  <2>2. model \in Models
    BY <1>0 DEF TypeOK
  <2>3. PICK reply \in {Handle(model, work[s]), Crashed} : Deliver(work[s], reply)
    BY <2>1
  <2>4. UNCHANGED <<settings, deployed, requests>>
    BY <1>10 DEF Serve
  <2>5. loaded' \in [Sandboxes -> Models \union {None}] /\ work' \in [Sandboxes -> Calls]
    BY <1>0, <2>1, <2>2 DEF TypeOK, Calls
  <2>6. CASE ~work[s].awaited
    <3>1. UNCHANGED runVars
      BY <2>3, <2>6 DEF Deliver
    <3>2. AwaitedIsAsked'
      BY <1>0, <2>1, <3>1 DEF AwaitedIsAsked, runVars, TypeOK, Idle
    <3>3. RunFits'
      BY <1>0, <2>4, <3>1 DEF runVars, RunFits, NoScoresYet, NothingWrongYet,
         ScoredInBuiltColumns, StatusTellsWhoFailed, OverHttp
    <3>4. TypeOK'
      BY <1>0, <2>4, <2>5, <3>1 DEF runVars, TypeOK
    <3>5. QED
      BY <3>2, <3>3, <3>4 DEF IInv
  <2>7. CASE work[s].awaited
    <3>1. NothingAwaited'
      BY <1>0, <2>1, <2>7 DEF AwaitedIsAsked, NothingAwaited, TypeOK, Idle
    <3>2. CASE Answer(503, "silent") /\ UNCHANGED <<columns, scored_by, version>>
      <4>1. AwaitedIsAsked' /\ RunFits'
        BY <2>4, <3>1, <3>2, AnswerFits DEF Truth
      <4>2. TypeOK'
        BY <1>0, <2>4, <2>5, <3>2 DEF Answer, TypeOK
      <4>3. QED
        BY <4>1, <4>2 DEF IInv
    <3>3. CASE Hear(reply)
      <4> HIDE DEF model
      <4>1. /\ AwaitedIsAsked' /\ RunFits'
            /\ phase' \in {"idle", "building", "applying"}
            /\ columns' \in Orders \union {None}
            /\ scored_by' \in Models \union {None} /\ version' \in Models \union {None}
            /\ fault' \in {"none", "rejected", "crashed"}
            /\ status' \in {0, 200, 502}
        BY <2>2, <2>3, <2>4, <2>7, <3>1, <3>3, HearingFits
      <4>2. TypeOK'
        BY <1>0, <2>4, <2>5, <4>1 DEF TypeOK
      <4>3. QED
        BY <4>1, <4>2 DEF IInv
    <3>4. QED
      BY <2>3, <2>7, <3>2, <3>3 DEF Deliver
  <2>8. QED
    BY <2>6, <2>7
<1>11. CASE Die
  <2>1. PICK s \in Sandboxes :
          LET gone == Together(s) IN
          /\ loaded' = [t \in Sandboxes |-> IF t \in gone THEN None ELSE loaded[t]]
          /\ work' = [t \in Sandboxes |-> IF t \in gone THEN Idle ELSE work[t]]
          /\ IF \E t \in gone : work[t].awaited
             THEN IF OverHttp
                  THEN Answer(503, "silent") /\ UNCHANGED <<columns, scored_by, version>>
                  ELSE Hear(Crashed)
             ELSE UNCHANGED runVars
    BY <1>11 DEF Die
  <2> DEFINE gone == Together(s)
  <2>2. UNCHANGED <<settings, deployed, requests>> /\ gone \subseteq Sandboxes
    BY <1>11 DEF Die, Together
  <2>3. loaded' \in [Sandboxes -> Models \union {None}] /\ work' \in [Sandboxes -> Calls]
    BY <1>0, <2>1 DEF TypeOK, Calls
  <2>4. CASE ~ \E t \in gone : work[t].awaited
    <3>1. UNCHANGED runVars
      BY <2>1, <2>4
    <3>2. AwaitedIsAsked'
      BY <1>0, <2>1, <3>1 DEF AwaitedIsAsked, runVars, TypeOK, Idle
    <3>3. RunFits'
      BY <1>0, <2>2, <3>1 DEF runVars, RunFits, NoScoresYet, NothingWrongYet,
         ScoredInBuiltColumns, StatusTellsWhoFailed, OverHttp
    <3>4. TypeOK'
      BY <1>0, <2>2, <2>3, <3>1 DEF runVars, TypeOK
    <3>5. QED
      BY <3>2, <3>3, <3>4 DEF IInv
  <2>5. CASE \E t \in gone : work[t].awaited
    <3>1. NothingAwaited'
      BY <1>0, <2>1, <2>2, <2>5 DEF AwaitedIsAsked, NothingAwaited, TypeOK, Idle
    <3>2. PICK code \in {502, 503}, why \in {"silent", "crashed"} :
            /\ Answer(code, why) /\ Truth(code, why)
            /\ UNCHANGED <<columns, scored_by, version>>
      BY <2>1, <2>5 DEF Hear, Crashed, Status, HttpStatus, LambdaStatus, Truth
    <3>3. AwaitedIsAsked' /\ RunFits'
      BY <2>2, <3>1, <3>2, AnswerFits
    <3>4. TypeOK'
      BY <1>0, <2>2, <2>3, <3>2 DEF Answer, TypeOK
    <3>5. QED
      BY <3>3, <3>4 DEF IInv
  <2>6. QED
    BY <2>4, <2>5
<1>12. CASE UNCHANGED vars
  BY <1>12 DEF vars, IInv, TypeOK, AwaitedIsAsked, RunFits, NoScoresYet, NothingWrongYet,
     ScoredInBuiltColumns, StatusTellsWhoFailed, OverHttp
<1>13. QED
  BY <1>1, <1>2, <1>3, <1>4, <1>5, <1>6, <1>7, <1>8, <1>9, <1>10, <1>11, <1>12 DEF Next

(* The invariant holds in every behaviour.                                 *)
THEOREM Invariance == Spec => []IInv
BY InitIInv, IInvInductive, PTL DEF Spec

(* Every variable keeps its type.                                          *)
THEOREM TypeCorrect == Spec => []TypeOK
<1>1. IInv => TypeOK
  BY DEF IInv
<1>2. QED
  BY Invariance, <1>1, PTL

(* No run takes a score from a model whose columns its rows were not built *)
(* in, whatever is deployed, restarted or late between its two calls.      *)
THEOREM AlwaysScoredInBuiltColumns == Spec => []ScoredInBuiltColumns
<1>1. IInv => ScoredInBuiltColumns
  BY DEF IInv, RunFits
<1>2. QED
  BY Invariance, <1>1, PTL

(* The status of a run always names the side that failed.                  *)
THEOREM StatusAlwaysTellsWhoFailed == Spec => []StatusTellsWhoFailed
<1>1. IInv => StatusTellsWhoFailed
  BY DEF IInv, RunFits
<1>2. QED
  BY Invariance, <1>1, PTL
=============================================================================
