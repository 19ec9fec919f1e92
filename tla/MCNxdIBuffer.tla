---------------------------- MODULE MCNxdIBuffer ----------------------------
EXTENDS NxdIBuffer
=============================================================================
