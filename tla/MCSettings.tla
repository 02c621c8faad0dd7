----------------------------- MODULE MCSettings -----------------------------
EXTENDS Settings

CONSTANTS p1, p2, k1, t1

MCEnvs == {[keys |-> {}, model |-> FALSE], [keys |-> {p1}, model |-> TRUE]}
=============================================================================
