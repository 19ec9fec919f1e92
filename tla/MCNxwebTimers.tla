---------------------------- MODULE MCNxwebTimers ----------------------------
EXTENDS NxwebTimers
=============================================================================
