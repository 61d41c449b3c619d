--------------------------- MODULE MCReplayWindow ---------------------------
(* ReplayWindow with a bitmap of a few short bytes.                        *)
EXTENDS ReplayWindow
=============================================================================
