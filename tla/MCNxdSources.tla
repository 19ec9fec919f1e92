---------------------------- MODULE MCNxdSources ----------------------------
EXTENDS NxdSources
=============================================================================
