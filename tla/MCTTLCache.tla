----------------------------- MODULE MCTTLCache ------------------------------
EXTENDS TTLCache

CONSTANTS k1, k2, k3, v1
=============================================================================
