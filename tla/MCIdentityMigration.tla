-------------------------- MODULE MCIdentityMigration --------------------------
EXTENDS IdentityMigration

CONSTANTS own, p, q, old, u, a, b, g

\* old is an old id of this device, u one of p.
MCPerson == [i \in Id |-> IF i = old THEN own ELSE IF i = u THEN p ELSE i]
MCLabel  == [i \in Id |-> IF MCPerson[i] = own THEN "laptop"
                          ELSE IF MCPerson[i] = p THEN "phone" ELSE "tablet"]
=============================================================================
