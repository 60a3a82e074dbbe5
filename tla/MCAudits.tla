------------------------------- MODULE MCAudits -------------------------------
EXTENDS Audits

CONSTANTS olga, otto, g1, p1, p2

\* Two owners; only Olga is an auditor.
MCOwners == [g \in Groups |-> Users]
MCIds == [u \in Users |-> IF u = olga THEN 1 ELSE 2]

==============================================================================
