SPECIFICATION Spec
CONSTANTS
    Machines = {m1, m2}
    ServerIds = {s1, s2}
    Accounts = {a1}
    NameOf <- MCNameOf
    MisreadAs <- MCMisreadAs
    ListLag = TRUE
    MaxPolls = 2
    Limit <- MCLimit
    None = None
    Conflicts = 1
    Errors = 1
    Crashes = 1
    CloudChanges = 0
    UserChanges = 0
    Misread = "error"
    a1 = a1
    m1 = m1
    m2 = m2
    s1 = s1
    s2 = s2
SYMMETRY MCSymmetry
CHECK_DEADLOCK FALSE
INVARIANTS
    RecordsOwnServer
    ServersHoldFinalizer
PROPERTIES
    OnlyDeletesDeleted
