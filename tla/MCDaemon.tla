------------------------------ MODULE MCDaemon ------------------------------
(* Small instances of DaemonLifecycle for TLC. *)
EXTENDS DaemonLifecycle

Serial == {}
Shared == {"overlap", "foreground", "slowboot", "reuse"}
=============================================================================
