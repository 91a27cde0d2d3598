SPECIFICATION FairSpec
CONSTANTS
    Nodes = {n1, n2}
    Threshold = 3
    Limit <- MCLimit
    None = None
    VMs = 1
    Writes = 1
    Errors = 1
    Removals = 3
    Crashes = 1
CHECK_DEADLOCK FALSE
INVARIANTS
    TypeOK
    AddressedIsInitialized
PROPERTIES
    EventuallyInitialized
    StaleEventuallyDeleted
