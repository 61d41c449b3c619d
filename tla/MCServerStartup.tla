-------------------------- MODULE MCServerStartup --------------------------
\* ServerStartup for TLC.
EXTENDS ServerStartup
=============================================================================
