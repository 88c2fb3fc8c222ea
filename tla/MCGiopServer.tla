---------------------------- MODULE MCGiopServer ----------------------------
EXTENDS GiopServer

CONSTANTS k1, w1, w2, w3
=============================================================================
