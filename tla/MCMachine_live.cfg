SPECIFICATION FairSpec
CONSTANTS
    Machines = {m1}
    ServerIds = {s1, s2, s3}
    Accounts = {a1, a2}
    NameOf <- MCNameOf
    MisreadAs <- MCMisreadAs
    ListLag = FALSE
    MaxPolls = 2
    Limit <- MCLimit
    None = None
    Conflicts = 0
    Errors = 1
    Crashes = 0
    CloudChanges = 1
    UserChanges = 1
    Misread = "error"
    a1 = a1
    a2 = a2
    m1 = m1
    s1 = s1
    s2 = s2
    s3 = s3
CHECK_DEADLOCK FALSE
INVARIANTS
    TypeOK
    NoDuplicateServers
    RecordedServerDeleted
PROPERTIES
    ImplementsLifecycle
    EventuallyProvisioned
    DeletionCompletes
