---------------------- MODULE MCOrchestratorInvocation ----------------------
(***************************************************************************)
(* Small instances of OrchestratorInvocation.  A unit of time stands for   *)
(* five seconds, so that the reserve is one unit more than the stop        *)
(* deadline, as it is in the code.                                         *)
(***************************************************************************)
EXTENDS OrchestratorInvocation

TimesTaken == {0, 1, 3}
=============================================================================
