SPECIFICATION FairSpec
CONSTANTS
    Volumes = {v1, v2}
    Calls = {k1, k2}
    MaxRetries = 2
    Limit <- MCLimit
    None = None
    Errors = 1
    Timeouts = 1
    Restarts = 1
    Reboots = 1
INVARIANTS
    TypeOK
    OneMountPerDevice
    OwnUnlessCrowded
    PodSeesStaged
PROPERTIES
    StageReturns
