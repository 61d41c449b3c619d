---------------------------- MODULE MCEdgeServer ----------------------------
(* An instance of EdgeServer for TLC. *)
EXTENDS EdgeServer
=============================================================================
