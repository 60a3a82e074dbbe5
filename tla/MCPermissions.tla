--------------------------- MODULE MCPermissions ---------------------------
(* Constants of the model-checked instances of Permissions.                *)
EXTENDS Permissions

CONSTANTS u1, u2, g1, g2, s1, p1, p2, a1

Everything == {<<p, a>> : p \in Permissions, a \in Arguments}

\* u1 administers permissions; u2 is an ordinary member of the group g1.
MCMayGrant == [x \in Users \union Services |-> IF x = u1 THEN Everything ELSE {}]
MCMember == [g \in Groups |-> IF g = g1 THEN {u2} ELSE {}]
MCOwnerOf == [s \in Services |-> g1]
=============================================================================
