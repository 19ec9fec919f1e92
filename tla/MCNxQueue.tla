----------------------------- MODULE MCNxQueue -----------------------------
EXTENDS NxQueue
=============================================================================
