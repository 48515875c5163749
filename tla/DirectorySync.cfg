CONSTANTS
    Objects = {o1, o2}
    Groups = {g1}
    Emails = {e1, e2}
    UserIds = {u1, u2}
    GroupIds = {d1}
    Processes = {p1, p2}
    None = None
    MaxChanges = 2
    MaxFaults = 1
SPECIFICATION FairSpec
INVARIANTS
    TypeOK
    KeptRestriction
PROPERTIES
    RetainedPeople
    NoStaleOverwrite
    SyncConverges
