SPECIFICATION FairSpec
CONSTANTS
    Clusters = {c1}
    Services = {s1, s2}
    Nodes = {n1, n2}
    IPs = {i1, i2}
    ClusterOf <- MCClusterOf
    TagOf <- MCTagOf
    Dynamic = {}
    Unsubscribed = {}
    Unnamed = {}
    Limit <- MCLimit
    None = None
    SecondCluster = {}
    Kube = 1
    Tag = 1
    Cloud = 1
    Failed = 1
    Crashes = 0
    Stops = 0
    NodeFailures = 1
    Deletions = 1
    c1 = c1
    c2 = c2
    i1 = i1
    i2 = i2
    n1 = n1
    n2 = n2
    s1 = s1
    s2 = s2
INVARIANTS
    PodsOnManualNodes
PROPERTIES
    EventuallyReleased
    EventuallyServed
