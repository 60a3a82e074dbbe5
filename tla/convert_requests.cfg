SPECIFICATION Spec
CONSTANTS
    alice = alice
    bob = bob
    robot = robot
    svc = svc
    robots = robots
    team = team
    k1 = k1
    n1 = n1
    Accounts = {alice, bob}
    Groups = {team}
    Procs = {shell}
    AccountProcs = {shell}
    Admins = {root}
    Delegates = {}
    RoleUsers = {}
    RoleGroup <- MCRoleGroup
    NewServices = {}
    Joinable = {}
    Requestable <- MCRequests
    Rows = {}
    Tokens = {}
PROPERTIES
    ConversionCancelsItsOwnRequests
