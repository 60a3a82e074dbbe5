SPECIFICATION Spec
CONSTANTS
    alice = alice
    bob = bob
    robot = robot
    svc = svc
    robots = robots
    team = team
    k1 = k1
    n1 = n1
    Accounts = {robot, svc}
    Groups = {robots, team}
    Procs = {worker, shell}
    AccountProcs = {worker}
    Admins = {root}
    Delegates = {helpdesk}
    RoleUsers = {robot}
    RoleGroup <- MCRoleGroup
    NewServices = {svc}
    Joinable <- MCJoinable
    Requestable = {}
    Rows <- MCRows
    Tokens <- MCTokens
INVARIANTS
    RoleUserMatchesItsGroup
    AtMostOneOwner
PROPERTIES
    RoleUserStaysInItsGroup
    NewOwnersInheritNothing
    DisabledTokensStayDisabled
