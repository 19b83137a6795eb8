---------------------------- MODULE MCDaemonHost ----------------------------
(* A small instance of DaemonHost for TLC. *)
EXTENDS DaemonHost
=============================================================================
