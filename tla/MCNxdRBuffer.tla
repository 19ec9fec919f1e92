---------------------------- MODULE MCNxdRBuffer ----------------------------
EXTENDS NxdRBuffer
=============================================================================
