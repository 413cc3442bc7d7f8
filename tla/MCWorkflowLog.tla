---------------------------- MODULE MCWorkflowLog ----------------------------
(* Small instances of WorkflowLog for TLC. *)
EXTENDS WorkflowLog
=============================================================================
