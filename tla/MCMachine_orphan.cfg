SPECIFICATION Spec
CONSTANTS
    Machines = {m1}
    ServerIds = {s1, s2}
    Accounts = {a1}
    NameOf <- MCNameOf
    MisreadAs <- MCMisreadAs
    ListLag = FALSE
    MaxPolls = 2
    Limit <- MCLimit
    None = None
    Conflicts = 0
    Errors = 0
    Crashes = 0
    CloudChanges = 0
    UserChanges = 0
    Misread = "error"
    a1 = a1
    m1 = m1
    s1 = s1
    s2 = s2
SYMMETRY MCSymmetry
CHECK_DEADLOCK FALSE
INVARIANTS
    NoOrphanedVMs
