SPECIFICATION Spec
CONSTANTS
    Clusters = {c1}
    Services = {s1, s2, s3}
    Nodes = {n1}
    IPs = {i1, i2}
    ClusterOf <- MCClusterOf
    TagOf <- MCTagOf
    Dynamic = {}
    Unsubscribed = {}
    Unnamed = {}
    Limit <- MCLimit
    None = None
    SecondCluster = {}
    Kube = 1
    Tag = 0
    Cloud = 1
    Failed = 2
    Crashes = 2
    Stops = 0
    NodeFailures = 0
    Deletions = 2
    c1 = c1
    c2 = c2
    i1 = i1
    i2 = i2
    n1 = n1
    s1 = s1
    s2 = s2
    s3 = s3
SYMMETRY MCSymmetry
INVARIANTS
    UniqueIPs
    ShownIPsTagged
    ServiceIPsExclusive
