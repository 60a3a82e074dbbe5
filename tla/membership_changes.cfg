CONSTANTS
    u1 = u1  u2 = u2  g1 = g1  g2 = g2  p1 = p1  p2 = p2
    Users = {u1, u2}
    Groups = {g1}
    Procs = {p1}
    GroupAdmins = {}
    CanJoin <- Ask
    AutoExpire <- NoAutoExpire
    AuditRefusals = {}
    OwnershipPolicy = TRUE
    FormRoles = {"member", "owner"}
    FormDates = {2}
    MaxDay = 2
    MaxRequests = 1
SPECIFICATION Spec
PROPERTIES ApprovedWithItsExpiration RevocationNeverExtends PolicyKeepsAnOwner DecidedOnce
SYMMETRY UserSymmetry
CONSTRAINT LoadedAreExpired
