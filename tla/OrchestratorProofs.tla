------------------------- MODULE OrchestratorProofs -------------------------
(***************************************************************************)
(* Theorems of OrchestratorInvocation, for every timeout, reserve and      *)
(* number of invocations and retries.                                      *)
(***************************************************************************)
EXTENDS OrchestratorInvocation, TLAPS

(* Until the call is over, nothing was started and nothing is decided.     *)
BeforeTheAnswer ==
    phase \in {"secrets", "starting", "probing", "calling"} =>
        starts = 0 /\ run = "none" /\ result = "none"

(* A stop begins with the invocation's result settled.                     *)
Settled == phase = "stopping" => result \in {"success", "failure"}

(* The first call may take what is left before the reserve.                *)
FirstCallHasBudget ==
    phase = "calling" /\ attempts = 0 => clock + patience = Timeout - StopReserve

IInv ==
    /\ TypeOK
    /\ N8nIsOwn
    /\ CalledOnlyWhenReady
    /\ BeforeTheAnswer
    /\ WorkflowStartsOnce
    /\ SuccessIsReal
    /\ Settled
    /\ FirstCallHasBudget

LEMMA InitIInv == Init => IInv
  BY OrchestratorAssumption
     DEF Init, IInv, TypeOK, N8nIsOwn, CalledOnlyWhenReady, BeforeTheAnswer,
         WorkflowStartsOnce, SuccessIsReal, Settled, FirstCallHasBudget,
         Phases, Stages, Gone

(* A call to the webhook is given a positive time.                         *)
LEMMA PatienceIsNat == TypeOK => Patience \in Nat
<1> SUFFICES ASSUME TypeOK PROVE Patience \in Nat
  OBVIOUS
<1>1. patience \in Int
  BY DEF TypeOK
<1>2. QED
  BY <1>1 DEF Patience

(* Every step that takes time leaves the clock a number.                   *)
LEMMA TookIsNat ==
    /\ \A d \in Durations : TypeOK /\ Took(d) => clock' \in Nat
    /\ \A d \in Durations : TypeOK /\ Took(d + Pause) => clock' \in Nat
    /\ TypeOK /\ Took(StopDeadline) => clock' \in Nat
    /\ TypeOK /\ Took(Patience) => clock' \in Nat
<1> SUFFICES ASSUME TypeOK
             PROVE  /\ \A d \in Durations : Took(d) => clock' \in Nat
                    /\ \A d \in Durations : Took(d + Pause) => clock' \in Nat
                    /\ Took(StopDeadline) => clock' \in Nat
                    /\ Took(Patience) => clock' \in Nat
  OBVIOUS
<1>1. ASSUME NEW d \in Nat, Took(d) PROVE clock' \in Nat
  BY <1>1 DEF TypeOK, Took
<1>2. QED
  BY <1>1, PatienceIsNat, OrchestratorAssumption

LEMMA TypeInductive == TypeOK /\ [Next]_vars => TypeOK'
<1> SUFFICES ASSUME TypeOK, [Next]_vars PROVE TypeOK'
  OBVIOUS
<1>a. /\ MaxRequests \in Nat
      /\ MaxNotRegistered \in Nat
      /\ ReadinessDeadline \in Int
      /\ Timeout \in Int
      /\ StopReserve \in Int
  BY OrchestratorAssumption
<1> USE DEF TypeOK, childVars, Phases, Stages, Gone
<1>1. CASE N8nMoves
  BY <1>1 DEF N8nMoves
<1>2. CASE Invoke
  BY <1>a, <1>2 DEF Invoke
<1>3. CASE Crash
  BY <1>3 DEF Crash, LoseSandbox
<1>4. CASE TimeOut
  BY <1>4 DEF TimeOut, LoseSandbox
<1>5. CASE ReadSecrets
  BY <1>5, TookIsNat DEF ReadSecrets, Fail
<1>6. CASE StartN8n
  <2>1. clock' \in Nat
    BY <1>6, TookIsNat DEF StartN8n
  <2>2. Budget \in Int
    BY <1>a, <2>1 DEF Budget
  <2>3. QED
    BY <1>a, <1>6, <2>1, <2>2 DEF StartN8n, Fail
<1>7. CASE Probe
  <2>1. clock' \in Nat
    BY <1>7, TookIsNat DEF Probe
  <2>2. Budget \in Int
    BY <1>a, <2>1 DEF Budget
  <2>3. QED
    BY <1>7, <2>1, <2>2 DEF Probe, GiveUp
<1>8. CASE CallTooEarly
  <2>1. clock' \in Nat
    BY <1>8, TookIsNat DEF CallTooEarly
  <2>2. attempts' \in 0 .. MaxNotRegistered
    BY <1>a, <1>8 DEF CallTooEarly, GiveUp
  <2>3. QED
    BY <1>8, <2>1, <2>2 DEF CallTooEarly, GiveUp
<1>9. CASE CallAnswered
  BY <1>9, TookIsNat DEF CallAnswered, WorkflowEnds
<1>10. CASE CallAborted
  BY <1>10, TookIsNat DEF CallAborted, GiveUp
<1>11. CASE CallRefused
  BY <1>11 DEF CallRefused, GiveUp
<1>12. CASE Stop
  <2>1. clock' \in Nat
    BY <1>12, TookIsNat DEF Stop
  <2>2. QED
    BY <1>12, <2>1 DEF Stop
<1>13. CASE UNCHANGED vars
  BY <1>13 DEF vars
<1>14. QED
  BY <1>1, <1>2, <1>3, <1>4, <1>5, <1>6, <1>7, <1>8, <1>9, <1>10, <1>11, <1>12,
     <1>13 DEF Next

(* The variables keep their types: the retries stay within their bound.    *)
THEOREM TypeCorrect == Spec => []TypeOK
<1>1. Init => TypeOK
  BY InitIInv DEF IInv
<1>2. QED
  BY <1>1, TypeInductive, PTL DEF Spec

(* Only the last turn of waitForReadiness begins to call, and gives the    *)
(* call what is left.                                                      *)
LEMMA BudgetInductive == TypeOK /\ FirstCallHasBudget /\ [Next]_vars => FirstCallHasBudget'
<1> SUFFICES ASSUME TypeOK, FirstCallHasBudget, [Next]_vars,
                    phase' = "calling", attempts' = 0
             PROVE  clock' + patience' = Timeout - StopReserve
  BY DEF FirstCallHasBudget
<1>1. CASE Probe
  <2>1. phase = "probing"
    BY <1>1 DEF Probe
  <2> DEFINE at == clock'
             given == patience'
  <2>2. given = Timeout - at - StopReserve
    BY <1>1, <2>1 DEF Probe, GiveUp, Budget
  <2>3. at \in Int /\ given \in Int
    BY TypeInductive DEF TypeOK
  <2>4. Timeout \in Int /\ StopReserve \in Int
    BY OrchestratorAssumption
  <2> HIDE DEF at, given
  <2>5. at + given = Timeout - StopReserve
    BY <2>2, <2>3, <2>4
  <2>6. QED
    BY <2>5 DEF at, given
<1>2. CASE CallTooEarly
  <2>1. attempts \in Int /\ 0 <= attempts
    BY OrchestratorAssumption DEF TypeOK
  <2>2. attempts' = attempts + 1 \/ phase' = "stopping"
    BY <1>2 DEF CallTooEarly, GiveUp
  <2>3. QED
    BY <2>1, <2>2
<1>3. CASE N8nMoves
  BY <1>3 DEF N8nMoves, FirstCallHasBudget
<1>4. CASE UNCHANGED vars
  BY <1>4 DEF vars, FirstCallHasBudget
<1>5. QED
  BY <1>1, <1>2, <1>3, <1>4
     DEF Next, Invoke, Crash, TimeOut, LoseSandbox, ReadSecrets, StartN8n, Fail,
         CallAnswered, CallAborted, CallRefused, GiveUp, Stop

LEMMA IInvInductive == IInv /\ [Next]_vars => IInv'
<1> SUFFICES ASSUME IInv, [Next]_vars PROVE IInv'
  OBVIOUS
<1>0. TypeOK /\ TypeOK' /\ FirstCallHasBudget'
  BY TypeInductive, BudgetInductive DEF IInv
<1> DEFINE Rest == /\ N8nIsOwn
                   /\ CalledOnlyWhenReady
                   /\ BeforeTheAnswer
                   /\ WorkflowStartsOnce
                   /\ SuccessIsReal
                   /\ Settled
<1>a. Rest
  BY DEF IInv
<1> SUFFICES Rest'
  BY <1>0 DEF IInv
<1>b. phase \in Phases /\ n8n \in Stages /\ starts \in Nat
  BY <1>0 DEF TypeOK
<1> USE <1>a, <1>b DEF N8nIsOwn, CalledOnlyWhenReady, BeforeTheAnswer,
      WorkflowStartsOnce, SuccessIsReal, Settled, childVars, Phases, Stages, Gone
<1>1. CASE N8nMoves
  BY <1>1 DEF N8nMoves
<1>2. CASE Invoke
  BY <1>2 DEF Invoke
<1>3. CASE Crash
  BY <1>3 DEF Crash, LoseSandbox
<1>4. CASE TimeOut
  BY <1>4 DEF TimeOut, LoseSandbox
<1>5. CASE ReadSecrets
  BY <1>5 DEF ReadSecrets, Fail
<1>6. CASE StartN8n
  BY <1>6 DEF StartN8n, Fail
<1>7. CASE Probe
  BY <1>7 DEF Probe, GiveUp, IsReady
<1>8. CASE CallTooEarly
  BY <1>8 DEF CallTooEarly, GiveUp
<1>9. CASE CallAnswered
  BY <1>9 DEF CallAnswered, WorkflowEnds
<1>10. CASE CallAborted
  BY <1>10 DEF CallAborted, GiveUp
<1>11. CASE CallRefused
  BY <1>11 DEF CallRefused, GiveUp
<1>12. CASE Stop
  BY <1>12 DEF Stop
<1>13. CASE UNCHANGED vars
  BY <1>13 DEF vars
<1>14. QED
  BY <1>1, <1>2, <1>3, <1>4, <1>5, <1>6, <1>7, <1>8, <1>9, <1>10, <1>11, <1>12,
     <1>13 DEF Next

THEOREM Invariance == Spec => []IInv
  BY InitIInv, IInvInductive, PTL DEF Spec

(* No invocation ever meets the n8n of another one.                        *)
THEOREM N8nIsAlwaysOwn == Spec => []N8nIsOwn
<1>1. IInv => N8nIsOwn
  BY DEF IInv
<1>2. QED
  BY <1>1, Invariance, PTL

(* The start-up page never answers a call to the webhook.                  *)
THEOREM AlwaysCalledWhenReady == Spec => []CalledOnlyWhenReady
<1>1. IInv => CalledOnlyWhenReady
  BY DEF IInv
<1>2. QED
  BY <1>1, Invariance, PTL

(* No invocation starts its workflow twice.                                *)
THEOREM AlwaysStartsOnce == Spec => []WorkflowStartsOnce
<1>1. IInv => WorkflowStartsOnce
  BY DEF IInv
<1>2. QED
  BY <1>1, Invariance, PTL

(* No failure is reported as a success.                                    *)
THEOREM SuccessIsAlwaysReal == Spec => []SuccessIsReal
<1>1. IInv => SuccessIsReal
  BY DEF IInv
<1>2. QED
  BY <1>1, Invariance, PTL

(* A stop that began with the reserve left is over before Lambda's         *)
(* deadline, because the stop deadline is shorter than the reserve.        *)
THEOREM InTimeStopIsNeverCut == Spec => InTimeStopIsNotCut
<1>1. ASSUME IInv, [Next]_vars, phase = "stopping", result' = "cut"
      PROVE  clock > Timeout - StopReserve
  <2>1. result # "cut"
    BY <1>1 DEF IInv, Settled
  <2>2. TimeOut
    BY <1>1, <2>1
       DEF Next, vars, N8nMoves, Invoke, Crash, LoseSandbox, ReadSecrets, StartN8n,
           Probe, CallTooEarly, CallAnswered, WorkflowEnds, CallAborted, CallRefused,
           Stop
  <2>3. clock + StopDeadline >= Timeout
    BY <1>1, <2>2 DEF TimeOut, LongestWait
  <2>4. clock \in Nat
    BY <1>1 DEF IInv, TypeOK
  <2>5. QED
    BY <2>3, <2>4, OrchestratorAssumption
<1>2. IInv /\ [Next]_vars =>
        [phase = "stopping" /\ result' = "cut" => clock > Timeout - StopReserve]_vars
  BY <1>1
<1>3. QED
  BY <1>2, Invariance, PTL DEF Spec, InTimeStopIsNotCut

(* A first call ends before the reserve, answered or not.                  *)
THEOREM FirstCallAlwaysLeavesReserve == Spec => FirstCallLeavesReserve
<1> DEFINE Leaves == phase = "calling" /\ phase' = "stopping" /\ attempts = 0 /\ patience > 0 =>
                       clock' <= Timeout - StopReserve
<1>1. ASSUME IInv, [Next]_vars,
             phase = "calling", phase' = "stopping", attempts = 0, patience > 0
      PROVE  clock' <= Timeout - StopReserve
  <2>1. clock \in Nat /\ patience \in Int /\ Timeout - StopReserve \in Int
    BY <1>1, OrchestratorAssumption DEF IInv, TypeOK
  <2>2. Patience = patience
    BY <1>1, <2>1 DEF Patience
  <2>3. clock + patience = Timeout - StopReserve
    BY <1>1 DEF IInv, FirstCallHasBudget
  <2>4. \/ clock' = clock
        \/ clock' = clock + Patience
        \/ \E d \in Durations : d <= Patience /\ clock' = clock + d
    BY <1>1
       DEF Next, vars, N8nMoves, Invoke, Crash, TimeOut, LoseSandbox, ReadSecrets,
           StartN8n, Probe, CallTooEarly, CallAnswered, WorkflowEnds, CallAborted,
           CallRefused, Stop, Took, Fail, GiveUp
  <2>5. \A d \in Durations : d \in Nat
    BY OrchestratorAssumption
  <2>6. QED
    BY <1>1, <2>1, <2>2, <2>3, <2>4, <2>5
<1>2. IInv /\ [Next]_vars => [Leaves]_vars
  BY <1>1
<1>3. QED
  BY <1>2, Invariance, PTL DEF Spec, FirstCallLeavesReserve
=============================================================================
