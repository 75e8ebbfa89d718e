------------------------------- MODULE MCWatch -------------------------------
(* Instances of Watch for TLC: who links to whom, and who watches.         *)
EXTENDS Watch

CONSTANTS hub, d1, d2

\* Every device serves under its own id.
OwnId == [d \in Device |-> d]

\* Two devices dial, and are dialled by, a hub.
StarLinks == {<<hub, d1>>, <<d1, hub>>, <<hub, d2>>, <<d2, hub>>}

\* The hub and one of the devices watch each other.
MutualWatch == {<<hub, d2>>, <<d2, hub>>}

\* Two devices, one of which watches.
PairLinks == {<<d1, hub>>}
=============================================================================
