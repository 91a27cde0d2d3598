---------------------------- MODULE MCLoadBalancer ----------------------------
(* LoadBalancerController on small instances. *)
EXTENDS LoadBalancerController, TLC

CONSTANTS SecondCluster,   \* the services and nodes of the second cluster
          Kube, Tag, Cloud, Failed, Crashes, Stops, NodeFailures, Deletions,
          c1, c2

MCClusterOf == [x \in Services \cup Nodes |-> IF x \in SecondCluster THEN c2 ELSE c1]

(* Tags are named after namespace and name: here every service has its own. *)
MCTagOf == [s \in Services |-> s]

(* "a-b/c" and "a/b-c", or one name in two clusters: a tag in common. *)
MCSharedTag == [s \in Services |-> None]

MCLimit == "kube" :> Kube @@ "tag" :> Tag @@ "cloud" :> Cloud @@ "request" :> Failed
           @@ "crash" :> Crashes @@ "stop" :> Stops @@ "node" :> NodeFailures @@ "service" :> Deletions

(* Services of one cluster are interchangeable, and so are IPs of one pool. *)
MCSymmetry == Permutations(Services) \cup Permutations(IPs)
=============================================================================
