-------------------------- MODULE MCPostFixSession --------------------------
(* Small instances of PostFixSession for TLC. *)
EXTENDS PostFixSession
=============================================================================
