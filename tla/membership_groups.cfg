CONSTANTS
    u1 = u1  u2 = u2  g1 = g1  g2 = g2  g3 = g3  p1 = p1  p2 = p2
    Users = {u1}
    Groups = {g1, g2, g3}
    Procs = {p1}
    GroupAdmins = {}
    CanJoin <- OpenAndClosed
    AutoExpire <- OneDay
    AuditRefusals = {}
    OwnershipPolicy = FALSE
    FormRoles = {"member", "owner"}
    FormDates = {2}
    MaxDay = 2
    NoticeDays = 2
    MaxChanges = 5
    MoreChanges = 2
    MaxRequests = 2
SPECIFICATION MCSpec
CONSTRAINT TwoGroupsOrThree
INVARIANTS TypeOK GroupsAreOnlyMembers NoticesHaveTheDate ExpiringMembersAreTold FormerOwnersAreNotTold OnePendingRequest
