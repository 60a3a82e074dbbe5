---------------------------- MODULE MCAuditPolicy ----------------------------
EXTENDS AuditPolicy

CONSTANTS alice, svc, team, infra, auditors, ssh, audit

\* Two groups that may contain each other, one of them with Alice in any role
\* (a manager is to the policy what an owner is); auditors below one of them.
MCEdges ==
    ({team} \X {alice} \X {"member", "owner", "np-owner"})
        \union ({auditors} \X {alice} \X {"member", "np-owner"})
        \union {<<infra, svc, "owner">>}
        \union {<<infra, team, "member">>, <<team, infra, "member">>,
                <<team, auditors, "member">>}
MCGrants == {<<auditors, audit>>, <<infra, ssh>>, <<svc, audit>>}
MCNames == [x \in Members |-> x]

==============================================================================
