--------------------------- MODULE MCConflictFiles ---------------------------
EXTENDS ConflictFiles, TLC

CONSTANTS own, peer, a, b

MCPeers == [f \in Folder |-> IF f = 1 THEN {own, peer} ELSE {peer}]
Alike == Permutations(Content) \cup Permutations(Path)
MCStem == [p \in Path |-> p]
=============================================================================
