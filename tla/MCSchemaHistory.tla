-------------------------- MODULE MCSchemaHistory --------------------------
(***************************************************************************)
(* A small instance of SchemaHistory.                                      *)
(***************************************************************************)
EXTENDS SchemaHistory
=============================================================================
