SPECIFICATION Spec
CONSTANTS
    Clusters = {c1}
    Services = {s1, s2}
    Nodes = {n1, n2}
    IPs = {i1, i2}
    ClusterOf <- MCClusterOf
    TagOf <- MCTagOf
    Dynamic = {}
    Unsubscribed = {}
    Unnamed = {}
    Limit <- MCLimit
    None = None
    SecondCluster = {}
    Kube = 0
    Tag = 0
    Cloud = 0
    Failed = 0
    Crashes = 0
    Stops = 1
    NodeFailures = 0
    Deletions = 0
    c1 = c1
    c2 = c2
    i1 = i1
    i2 = i2
    n1 = n1
    n2 = n2
    s1 = s1
    s2 = s2
SYMMETRY MCSymmetry
INVARIANTS
    UniqueIPs
