------------------------------ MODULE MCNotify ------------------------------
EXTENDS Notify, TLC

CONSTANTS c, p

MCHandlers == {c, p}
MCProfiles == {p}
=============================================================================
