SPECIFICATION Spec
CONSTANTS
    olga = olga  otto = otto  g1 = g1  p1 = p1  p2 = p2
    Users = {olga, otto}
    Groups = {g1}
    Owners <- MCOwners
    Answers = {"taken"}
    MaxMails = 1
    Procs = {p1, p2}
    Creators = {p1}
    Reviewers = {p1}
    Disablers = {p2}
    Auditors = {olga}
    Audited = {g1}
    IdOf <- MCIds
    MaxAudits = 1
INVARIANTS
    TypeOK
    TriedOncePerLife
PROPERTIES
    CompletionIsEnacted
    CancelledMailIsNotSent
    ExpiryIsAnnounced
    BackgroundCatchesUp
