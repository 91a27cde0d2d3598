SPECIFICATION FairSpec
CONSTANTS
    Drives = {d1, d2, d3, d4}
    Servers = {n1, n2}
    Names = {va, vb}
    InitialName <- MCInitialName
    Calls = {k1, k2, k3, k4, k5, k6, k7}
    Request <- MCRequest
    After <- MCAfter
    NumChannels = 2
    MaxErrors = 2
    MaxPolls = 2
    Misread = {n2, d2}
    None = None
    Scenario = "calls"
    k1 = k1
    k2 = k2
    k3 = k3
    k4 = k4
    k5 = k5
    k6 = k6
    k7 = k7
    d1 = d1
    d2 = d2
    d3 = d3
    d4 = d4
    n1 = n1
    n2 = n2
    va = va
    vb = vb
CHECK_DEADLOCK FALSE
INVARIANTS
    TypeOK
    AttachedUnlessCrossed
    ChannelsExclusive
    OneDrivePerName
    UnpublishedIsDetached
PROPERTIES
    CallsReturn
