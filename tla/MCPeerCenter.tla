---------------------------- MODULE MCPeerCenter ----------------------------
\* PeerCenter for TLC.
EXTENDS PeerCenter
=============================================================================
