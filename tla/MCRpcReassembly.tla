-------------------------- MODULE MCRpcReassembly --------------------------
(* Instances of RpcReassembly for TLC.  No symmetry: the run checks a      *)
(* liveness property too.                                                  *)
EXTENDS RpcReassembly, TLC
=============================================================================
