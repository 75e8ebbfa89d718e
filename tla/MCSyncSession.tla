---------------------------- MODULE MCSyncSession ----------------------------
(* What TLC needs to run SyncSession: symmetry of paths and contents.      *)
EXTENDS SyncSession, TLC

\* Paths are interchangeable, and so are the contents small enough to send.
Symmetry == Permutations(Path) \cup Permutations(Content \ TooBig)
=============================================================================
