SPECIFICATION Spec
CONSTANTS
    Clusters = {c1, c2}
    Services = {s1, s2}
    Nodes = {n1, n2}
    IPs = {i1, i2, i3}
    ClusterOf <- MCClusterOf
    TagOf <- MCSharedTag
    Dynamic = {s2}
    Unsubscribed = {i2}
    Unnamed = {n1}
    Limit <- MCLimit
    None = None
    SecondCluster = {s2, n2}
    Kube = 0
    Tag = 1
    Cloud = 0
    Failed = 1
    Crashes = 1
    Stops = 1
    NodeFailures = 0
    Deletions = 1
    c1 = c1
    c2 = c2
    i1 = i1
    i2 = i2
    i3 = i3
    n1 = n1
    n2 = n2
    s1 = s1
    s2 = s2
INVARIANTS
    TypeOK
PROPERTIES
    IPNeverChanges
