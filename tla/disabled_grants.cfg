SPECIFICATION Spec
CONSTANTS
    u1 = u1
    u2 = u2
    g1 = g1
    g2 = g2
    s1 = s1
    p1 = p1
    p2 = p2
    a1 = a1
    Users = {u1, u2}
    Groups = {g1}
    Services = {s1}
    Permissions = {p1, p2}
    Arguments = {a1}
    Procs = {worker}
    SystemPermissions = {p2}
    PermissionAdmins = {u1}
    UserAdmins = {u1}
    AuditManagers = {}
    Creators = {u1}
    MayGrant <- MCMayGrant
    UsecaseActors = {}
    Member <- MCMember
    Owner <- MCMember
    OwnerOf <- MCOwnerOf
    Controlled = {}
    Closable = {g1, s1}
    MaxRequests = 0
INVARIANTS
    DisabledPermissionsNotGranted
