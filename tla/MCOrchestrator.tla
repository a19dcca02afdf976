--------------------------- MODULE MCOrchestrator ---------------------------
EXTENDS Orchestrator

\* Three roles in order; the second host lacks the one in the middle.
MixedRoles == [h \in 1..N |-> IF h = 2 THEN {1, 3} ELSE IF h = 1 THEN {1, 2} ELSE {2}]
AllRoles == 1..RoleCount
=============================================================================
