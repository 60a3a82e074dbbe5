SPECIFICATION Spec
CONSTANTS
    alice = alice
    svc = svc
    team = team
    infra = infra
    auditors = auditors
    ssh = ssh
    audit = audit
    Users = {alice, svc}
    Groups = {team, infra, auditors}
    Permissions = {ssh, audit}
    RoleUsers = {}
    Services = {svc}
    Auditor = audit
    AuditorsGroup = auditors
    NameOf <- MCNames
    PossibleEdges <- MCEdges
    PossibleGrants <- MCGrants
    PossiblyDisabled = {alice, svc, team, auditors}
INVARIANTS
    GrantsMirrorUserDetails
    SqlMatchesGraph
    AuditedMatchesDetails
    AssertCoversSubgroups
PROPERTIES
    JoinsKeepPolicy
    PromotionRestoresPolicy
