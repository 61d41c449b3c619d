-------------------------- MODULE MCSecureSession --------------------------
(* Instances of SecureSession for TLC.                                     *)
EXTENDS SecureSession, TLC

\* Connections, peers and static keys are interchangeable
Symmetry == Permutations(Conn) \cup Permutations(Peer) \cup Permutations(StaticKey)
=============================================================================
