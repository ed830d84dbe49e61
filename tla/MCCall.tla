------------------------------- MODULE MCCall -------------------------------
EXTENDS Call, TLC

\* Either end may lose its websocket once; the caller sends.
MCSockets == [caller |-> 2, callee |-> 2]
MCSent == [caller |-> 2, callee |-> 0]
=============================================================================
