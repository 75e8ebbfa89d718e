------------------------------ MODULE MCBulkSync ------------------------------
EXTENDS BulkSync

CONSTANTS me, m1, own, d1, d2, a1

\* d2 was typed in as the address a1.
MCOwner == [d \in Id |-> CASE d = own -> me [] d = d1 -> m1 [] OTHER -> None]
MCLiteral == [d \in Id |-> IF d = d2 THEN a1 ELSE None]
MCRows == <<own, d1>>
=============================================================================
