----------------------------- MODULE MCWsServer -----------------------------
\* WsServer for TLC.  No symmetry: the run checks liveness.
EXTENDS WsServer
=============================================================================
