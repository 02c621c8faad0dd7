---------------------------- MODULE MCModelReply ----------------------------
EXTENDS ModelReply

CONSTANTS t1, t2, t3
=============================================================================
