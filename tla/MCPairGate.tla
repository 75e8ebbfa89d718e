------------------------------ MODULE MCPairGate ------------------------------
(* What TLC needs to run PairGate: devices are interchangeable.            *)
EXTENDS PairGate, TLC

Symmetry == Permutations(Device)
=============================================================================
