------------------------------- MODULE MCServing -------------------------------
EXTENDS Serving

CONSTANTS o1, o2, c1, c2
MCPortOf == [o \in {o1, o2} |-> IF o = o1 THEN FixedPort ELSE 0]
=============================================================================
