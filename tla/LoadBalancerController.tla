------------------------ MODULE LoadBalancerController ------------------------
(***************************************************************************)
(* The LoadBalancer IP pool of the cloud controller manager                *)
(* (ccm/controllers/loadbalancer_controller.go).                           *)
(*                                                                         *)
(* Every cluster runs one CCM; all of them share the IPs and the tags of   *)
(* one CloudSigma account.  A CCM keeps its knowledge in memory and loses  *)
(* it when it stops; what survives is the status of the services, the      *)
(* lb-ip pods, and the tags.  A sync works on the services and nodes it    *)
(* listed at its beginning, and is broken up at its calls to the outside,  *)
(* so that users, nodes and the CCMs of other clusters can act in between. *)
(*                                                                         *)
(* Data abstraction: a node stands for its server UUID as well; of the     *)
(* three kinds of tags only service:* is ever read back, so the others are *)
(* left out; a service has ports, as Kubernetes demands.  The order of a   *)
(* list is the API server's, so "the first" of it is any member.           *)
(***************************************************************************)
EXTENDS Integers, FiniteSets

CONSTANTS
    Clusters, Services, Nodes, IPs,
    ClusterOf,   \* the cluster of a service or node
    TagOf,       \* the name of a service's tag; two services may share it
    Dynamic,     \* the services with the annotation ip-pool: dynamic
    Unsubscribed,\* the IPs without a subscription: the dynamic pool
    Unnamed,     \* the nodes that start without a providerID
    Limit,       \* how often each kind of fault may happen, and how many
                 \* requests may fail altogether
    None

Requests == {"kube", "tag", "cloud"}
FaultKinds == {"kube", "tag", "cloud", "crash", "stop", "node", "service"}

ASSUME LBAssumption ==
    /\ None \notin IPs \cup Nodes \cup Services
    /\ \A x \in Services \cup Nodes : ClusterOf[x] \in Clusters
    /\ Unsubscribed \subseteq IPs
    /\ Unnamed \subseteq Nodes
    /\ Limit \in [FaultKinds \cup {"request"} -> Nat]

VARIABLES
    svc,      \* the LoadBalancer services, as stored
    up,       \* the nodes that are Ready
    named,    \* the nodes with a providerID
    pod,      \* the lb-ip pod of each cluster and IP
    nic,      \* CloudSigma: the nodes whose NIC is in manual mode
    tags,     \* CloudSigma: the IPs each service:* tag lists
    mem,      \* the memory of each CCM
    job,      \* the sync each CCM is in
    faults

vars == <<svc, up, named, pod, nic, tags, mem, job, faults>>

MaybeIP == IPs \cup {None}
MaybeNode == Nodes \cup {None}
TagNames == {TagOf[s] : s \in Services}

Service == [exists: BOOLEAN, ingress: MaybeIP]
Pod == [node: MaybeNode, terminating: BOOLEAN]
NoPod == [node |-> None, terminating |-> FALSE]

(* pool: staticIPs and dynamicIPs; assign: ipAssignments; svcIP: serviceIPs; *)
(* manual: manualModeNodes.                                                  *)
Memory == [pool: SUBSET IPs, assign: [IPs -> MaybeNode],
           svcIP: [Services -> MaybeIP], manual: SUBSET Nodes]
Blank == [pool |-> {}, assign |-> [i \in IPs |-> None],
          svcIP |-> [s \in Services |-> None], manual |-> {}]

PCs == {"down", "idle", "release", "services", "assign", "clean", "tag",
        "configure", "status", "failover"}

(* snap: the ingress of the listed services; stale: those changed since;     *)
(* first: the UUID of healthyNodes[0]; uuids: healthyUUIDs.                  *)
Job == [pc: PCs, todo: SUBSET Services, snap: [Services -> MaybeIP],
        stale: SUBSET Services, first: MaybeNode, uuids: SUBSET Nodes,
        cur: Services \cup {None}, ip: MaybeIP, new: BOOLEAN, ips: SUBSET IPs]
AtRest(l) == [pc |-> l, todo |-> {}, snap |-> [s \in Services |-> None], stale |-> {},
              first |-> None, uuids |-> {}, cur |-> None, ip |-> None,
              new |-> FALSE, ips |-> {}]

Init ==
    /\ svc = [s \in Services |-> [exists |-> FALSE, ingress |-> None]]
    /\ up = Nodes
    /\ named = Nodes \ Unnamed
    /\ pod = [c \in Clusters |-> [i \in IPs |-> NoPod]]
    /\ nic = {}
    /\ tags = [t \in TagNames |-> {}]
    /\ mem = [c \in Clusters |-> Blank]
    /\ job = [c \in Clusters |-> AtRest("down")]
    /\ faults = [k \in FaultKinds |-> 0]

-----------------------------------------------------------------------------
Spend(k) ==
    /\ faults[k] < Limit[k]
    /\ k \in Requests => faults["kube"] + faults["tag"] + faults["cloud"] < Limit["request"]
    /\ faults' = [faults EXCEPT ![k] = @ + 1]

At(c, l) == job[c].pc = l

ServicesOf(c) == {s \in Services : ClusterOf[s] = c /\ svc[s].exists}

NodesOf(c) == {n \in Nodes : ClusterOf[n] = c}

SetJob(c, j) == job' = [job EXCEPT ![c] = j]

(* On to the next service, or to the failover check when all are done.      *)
NextService(c) ==
    SetJob(c, [job[c] EXCEPT !.pc = "services", !.cur = None, !.ip = None, !.new = FALSE])

(* The IPs some service:* tag lists. *)
Tagged == UNION {tags[t] : t \in TagNames}

(* Remove an IP from every tag. *)
Untag(ips) == [t \in TagNames |-> tags[t] \ ips]

-----------------------------------------------------------------------------
(* Start: the maps are new, the pools come from the CloudSigma API and      *)
(* serviceIPs from the status of the services.  A failed discovery leaves   *)
(* the pools empty; a failed recovery leaves serviceIPs empty.              *)
RecoverServiceState(c, pool) ==
    [s \in Services |-> IF s \in ServicesOf(c) /\ svc[s].ingress \in pool
                        THEN svc[s].ingress ELSE None]

Start(c) ==
    /\ At(c, "down")
    /\ \/ /\ mem' = [mem EXCEPT ![c] = [Blank EXCEPT !.pool = IPs,
                                                     !.svcIP = RecoverServiceState(c, IPs)]]
          /\ UNCHANGED faults
       \/ Spend("cloud") /\ mem' = [mem EXCEPT ![c] = Blank]
       \/ Spend("kube") /\ mem' = [mem EXCEPT ![c] = [Blank EXCEPT !.pool = IPs]]
    /\ SetJob(c, AtRest("idle"))
    /\ UNCHANGED <<svc, up, named, pod, nic, tags>>

(* The periodic discoverOwnedIPs.  The status code of the answer is not     *)
(* looked at: an error with a JSON body empties the pools.                  *)
DiscoverOwnedIPs(c) ==
    /\ At(c, "idle")
    /\ \/ mem[c].pool # IPs /\ mem' = [mem EXCEPT ![c].pool = IPs] /\ UNCHANGED faults
       \/ Spend("cloud") /\ mem' = [mem EXCEPT ![c].pool = {}]
    /\ UNCHANGED <<svc, up, named, pod, nic, tags, job>>

(* syncLoadBalancers lists services and nodes.  Without a healthy node, or  *)
(* when a list fails, it returns before it has done anything.               *)
Sync(c) ==
    LET healthy == up \cap NodesOf(c)
    IN  /\ At(c, "idle")
        /\ \E n \in healthy :
             SetJob(c, [AtRest("release") EXCEPT
                          !.todo = ServicesOf(c),
                          !.snap = [s \in Services |->
                                      IF s \in ServicesOf(c) THEN svc[s].ingress ELSE None],
                          !.first = IF n \in named THEN n ELSE None,
                          !.uuids = healthy \cap named])
        /\ UNCHANGED <<svc, up, named, pod, nic, tags, mem, faults>>

(* A graceful delete: the pod stays until its kubelet has stopped it. *)
Terminated(p) == IF p = NoPod THEN NoPod ELSE [p EXCEPT !.terminating = TRUE]

(* Release the IP of a service that is no longer listed: untag it, delete   *)
(* its pod, forget it; both calls may fail and the IP is forgotten anyway.  *)
NothingGone(c) == {}
Gone(c) == {s \in Services : mem[c].svcIP[s] # None /\ s \notin job[c].todo}

ReleaseIP(c) ==
    /\ At(c, "release")
    /\ \E s \in Gone(c) :
         LET ip == mem[c].svcIP[s]
         IN  /\ \/ tags' = Untag({ip}) /\ pod' = [pod EXCEPT ![c][ip] = Terminated(@)]
                   /\ UNCHANGED faults
                \/ Spend("tag") /\ UNCHANGED tags /\ pod' = [pod EXCEPT ![c][ip] = Terminated(@)]
                \/ Spend("kube") /\ tags' = Untag({ip}) /\ UNCHANGED pod
             /\ mem' = [mem EXCEPT ![c].svcIP[s] = None, ![c].assign[ip] = None]
    /\ UNCHANGED <<svc, up, named, nic, job>>

Released(c) ==
    /\ At(c, "release")
    /\ Gone(c) = {}
    /\ SetJob(c, [job[c] EXCEPT !.pc = "services"])
    /\ UNCHANGED <<svc, up, named, pod, nic, tags, mem, faults>>

-----------------------------------------------------------------------------
(* configureIPOnNode: delete the pod of that name, wait two seconds, create *)
(* it on the node.  The creation is refused while the old one terminates.   *)
ConfigureIPOnNode(c, ip, n, p) ==
    \/ /\ p = NoPod \/ p.node \in up
       /\ pod' = [pod EXCEPT ![c][ip] = [node |-> n, terminating |-> FALSE]]
       /\ UNCHANGED faults
    \/ /\ p # NoPod
       /\ pod' = [pod EXCEPT ![c][ip] = Terminated(p)]
       /\ UNCHANGED faults
    \/ Spend("kube") /\ \E q \in {p, Terminated(p)} : pod' = [pod EXCEPT ![c][ip] = q]

(* ensureIPConfigured: a pod that is there is left alone, wherever it runs  *)
(* and even if it terminates; one that cannot be read is replaced.          *)
EnsureIPConfigured(c, ip, n) ==
    LET p == pod[c][ip]
    IN  \/ p = NoPod /\ ConfigureIPOnNode(c, ip, n, p)
        \/ p # NoPod /\ UNCHANGED <<pod, faults>>
        \/ /\ p # NoPod
           /\ Spend("kube")
           /\ \E q \in {Terminated(p), [node |-> n, terminating |-> FALSE]} :
                pod' = [pod EXCEPT ![c][ip] = q]

(* ensureNodeManualMode: one GET and PUT per node, remembered. *)
ManualModeOnce(c, n) ==
    IF mem[c].manual # {} THEN UNCHANGED nic ELSE nic' = nic \cup {n}

EnsureNodeManualMode(c, n) ==
    IF n \in mem[c].manual THEN UNCHANGED nic ELSE nic' = nic \cup {n}

(* The pool a service allocates from. *)
PoolFor(c, s) ==
    IF s \in Dynamic THEN mem[c].pool \cap Unsubscribed ELSE mem[c].pool \ Unsubscribed

(* reconcileService, for a service that already shows an IP of the pool:    *)
(* if nobody tracks the IP, give it to the first node; see that it has a    *)
(* pod (anywhere), then that it is tagged.                                  *)
NeverShowsPoolIP(c, s) == FALSE
ShowsPoolIP(c, s) == job[c].snap[s] \in mem[c].pool

ReconcileExisting(c) ==
    /\ At(c, "services")
    /\ \E s \in job[c].todo :
         LET ip      == job[c].snap[s]
             tracked == mem[c].assign[ip] # None
             node    == IF tracked THEN mem[c].assign[ip] ELSE job[c].first
         IN  /\ ShowsPoolIP(c, s)
             /\ mem' = IF tracked \/ node = None THEN mem
                       ELSE [mem EXCEPT ![c].assign[ip] = node, ![c].svcIP[s] = ip]
             /\ IF node # None
                THEN EnsureIPConfigured(c, ip, node)
                ELSE UNCHANGED <<pod, faults>>
             /\ SetJob(c, IF node = None THEN [job[c] EXCEPT !.todo = @ \ {s}]
                          ELSE [job[c] EXCEPT !.todo = @ \ {s}, !.pc = "clean",
                                              !.cur = s, !.ip = ip])
    /\ UNCHANGED <<svc, up, named, nic, tags>>

(* ... for a service that was given an IP its status does not show yet.     *)
HasIP(c, s) == mem[c].svcIP[s] # None

ReconcileAssigned(c) ==
    /\ At(c, "services")
    /\ \E s \in job[c].todo :
         /\ ~ShowsPoolIP(c, s)
         /\ HasIP(c, s)
         /\ SetJob(c, [job[c] EXCEPT !.todo = @ \ {s}, !.pc = "status", !.cur = s,
                                     !.ip = mem[c].svcIP[s]])
    /\ UNCHANGED <<svc, up, named, pod, nic, tags, mem, faults>>

(* ... for a service without one: allocateIP takes an IP of the pool that   *)
(* ipAssignments does not have and no service:* tag lists.  Tags that       *)
(* cannot be read make an IP unavailable or, as neither the status code nor *)
(* the syntax of the answer is looked at, available.                        *)
(* With no UUID for the first node the IP goes straight into the status.    *)
Unused(c, s) == {i \in PoolFor(c, s) : mem[c].assign[i] = None}

AvailableIgnoringTags(c, s) == Unused(c, s)
Available(c, s) == Unused(c, s) \ Tagged

AlwaysAssign(c) == "assign"
AfterAllocate(c) == IF job[c].first = None THEN "status" ELSE "assign"

Allocate(c) ==
    /\ At(c, "services")
    /\ \E s \in job[c].todo :
         /\ ~ShowsPoolIP(c, s)
         /\ ~HasIP(c, s)
         /\ LET free == Available(c, s)
                none == [job[c] EXCEPT !.todo = @ \ {s}]
                got(i) == [none EXCEPT !.cur = s, !.ip = i, !.new = TRUE,
                                       !.pc = AfterAllocate(c)]
            IN  \/ \E i \in free : SetJob(c, got(i)) /\ UNCHANGED faults
                \/ free = {} /\ SetJob(c, none) /\ UNCHANGED faults
                \/ Spend("tag") /\ \E i \in Unused(c, s) : SetJob(c, got(i))
                \/ Spend("tag") /\ SetJob(c, none)
    /\ UNCHANGED <<svc, up, named, pod, nic, tags, mem>>

(* The node's NIC goes into manual mode, and the IP into both maps. *)
Assign(c) ==
    LET s == job[c].cur
        i == job[c].ip
        n == job[c].first
    IN  /\ At(c, "assign")
        /\ \/ /\ EnsureNodeManualMode(c, n)
              /\ mem' = [mem EXCEPT ![c].assign[i] = n, ![c].svcIP[s] = i,
                                    ![c].manual = @ \cup {n}]
              /\ SetJob(c, [job[c] EXCEPT !.pc = "clean"])
              /\ UNCHANGED faults
           \/ /\ Spend("cloud")
              /\ nic' \in {nic, nic \cup {n}}
              /\ UNCHANGED mem
              /\ NextService(c)
        /\ UNCHANGED <<svc, up, named, pod, tags>>

(* tagIPInCloudSigma: cleanStaleTags takes the IP off every other service's *)
(* tag, ensureTagWithIP puts it on this one's.  Failures are only logged.   *)
CleanAllTags(c) ==
    /\ At(c, "clean")
    /\ tags' = Untag({job[c].ip})
    /\ SetJob(c, [job[c] EXCEPT !.pc = "tag"])
    /\ UNCHANGED <<svc, up, named, pod, nic, mem, faults>>

CleanStaleTags(c) ==
    LET s == job[c].cur
        i == job[c].ip
    IN  /\ At(c, "clean")
        /\ \/ /\ tags' = [t \in TagNames |-> IF t = TagOf[s] THEN tags[t] ELSE tags[t] \ {i}]
              /\ UNCHANGED faults
           \/ Spend("tag") /\ UNCHANGED tags
        /\ SetJob(c, [job[c] EXCEPT !.pc = "tag"])
        /\ UNCHANGED <<svc, up, named, pod, nic, mem>>

EnsureTagWithIP(c) ==
    /\ At(c, "tag")
    /\ \/ tags' = [tags EXCEPT ![TagOf[job[c].cur]] = @ \cup {job[c].ip}] /\ UNCHANGED faults
       \/ Spend("tag") /\ UNCHANGED tags
    /\ IF job[c].new THEN SetJob(c, [job[c] EXCEPT !.pc = "configure"]) ELSE NextService(c)
    /\ UNCHANGED <<svc, up, named, pod, nic, mem>>

Configure(c) ==
    /\ At(c, "configure")
    /\ ConfigureIPOnNode(c, job[c].ip, job[c].first, pod[c][job[c].ip])
    /\ SetJob(c, [job[c] EXCEPT !.pc = "status"])
    /\ UNCHANGED <<svc, up, named, nic, tags, mem>>

(* updateServiceStatus writes the listed version back: it is refused when   *)
(* the service was deleted, or deleted and created again, in between.       *)
UpdateServiceStatus(c) ==
    LET s == job[c].cur
        shown == [svc EXCEPT ![s].ingress = job[c].ip]
    IN  /\ At(c, "status")
        /\ \/ s \notin job[c].stale /\ svc' = shown /\ UNCHANGED faults
           \/ s \in job[c].stale /\ UNCHANGED <<svc, faults>>
           \/ Spend("kube") /\ s \notin job[c].stale /\ svc' \in {svc, shown}
        /\ NextService(c)
        /\ UNCHANGED <<up, named, pod, nic, tags, mem>>

-----------------------------------------------------------------------------
(* checkIPFailover *)

NothingMisplaced(c) == {}
Misplaced(c) == {i \in IPs : mem[c].assign[i] # None /\ mem[c].assign[i] \notin job[c].uuids}

CheckIPFailover(c) ==
    /\ At(c, "services")
    /\ job[c].todo = {}
    /\ SetJob(c, IF job[c].first = None \/ Misplaced(c) = {} THEN AtRest("idle")
                 ELSE [job[c] EXCEPT !.pc = "failover", !.ips = Misplaced(c)])
    /\ UNCHANGED <<svc, up, named, pod, nic, tags, mem, faults>>

(* Move one IP off a node that is not healthy: manual mode, force-delete    *)
(* the pod, record the new node, and set up the pod there if the service of *)
(* the IP is still found.                                                   *)
FailoverIP(c) ==
    /\ At(c, "failover")
    /\ \E i \in job[c].ips :
         LET n    == job[c].first
             held == \E s \in Services : mem[c].svcIP[s] = i /\ svc[s].exists
             rest == job[c].ips \ {i}
         IN  /\ SetJob(c, IF rest = {} THEN AtRest("idle") ELSE [job[c] EXCEPT !.ips = rest])
             /\ \/ /\ EnsureNodeManualMode(c, n)
                   /\ mem' = [mem EXCEPT ![c].assign[i] = n, ![c].manual = @ \cup {n}]
                   /\ IF held
                      THEN \/ ConfigureIPOnNode(c, i, n, NoPod)
                           \/ /\ Spend("kube")
                              /\ pod' = [pod EXCEPT ![c][i] = Terminated(@)]
                      ELSE \/ pod' = [pod EXCEPT ![c][i] = NoPod] /\ UNCHANGED faults
                           \/ Spend("kube") /\ UNCHANGED pod
                \/ Spend("cloud") /\ nic' \in {nic, nic \cup {n}} /\ UNCHANGED <<mem, pod>>
    /\ UNCHANGED <<svc, up, named, tags>>

-----------------------------------------------------------------------------
(* The end of the process: told to stop, it takes its IPs off all tags      *)
(* (cleanupAllIPTags), as far as it gets in 30 seconds; killed, it just     *)
(* goes.                                                                    *)
Held(c) == {mem[c].svcIP[s] : s \in Services} \ {None}

Shutdown(c) ==
    /\ ~At(c, "down")
    /\ Spend("stop")
    /\ \E ips \in SUBSET Held(c) : tags' = Untag(ips)
    /\ mem' = [mem EXCEPT ![c] = Blank]
    /\ SetJob(c, AtRest("down"))
    /\ UNCHANGED <<svc, up, named, pod, nic>>

Crash(c) ==
    /\ ~At(c, "down")
    /\ Spend("crash")
    /\ mem' = [mem EXCEPT ![c] = Blank]
    /\ SetJob(c, AtRest("down"))
    /\ UNCHANGED <<svc, up, named, pod, nic, tags>>

(* Users create and delete services. *)
CreateService(s) ==
    /\ ~svc[s].exists
    /\ svc' = [svc EXCEPT ![s] = [exists |-> TRUE, ingress |-> None]]
    /\ UNCHANGED <<up, named, pod, nic, tags, mem, job, faults>>

DeleteService(s) ==
    /\ svc[s].exists
    /\ Spend("service")
    /\ svc' = [svc EXCEPT ![s] = [exists |-> FALSE, ingress |-> None]]
    /\ job' = [job EXCEPT ![ClusterOf[s]].stale =
                 IF job[ClusterOf[s]].pc \in {"down", "idle"} THEN {} ELSE @ \cup {s}]
    /\ UNCHANGED <<up, named, pod, nic, tags, mem>>

(* Nodes fail, recover, and may be given a missing providerID later; the    *)
(* kubelet of a healthy node finishes a termination.                        *)
NodeFails(n) ==
    /\ n \in up
    /\ Spend("node")
    /\ up' = up \ {n}
    /\ UNCHANGED <<svc, named, pod, nic, tags, mem, job>>

NodeRecovers(n) ==
    /\ n \notin up
    /\ up' = up \cup {n}
    /\ UNCHANGED <<svc, named, pod, nic, tags, mem, job, faults>>

NodeNamed(n) ==
    /\ n \notin named
    /\ named' = named \cup {n}
    /\ UNCHANGED <<svc, up, pod, nic, tags, mem, job, faults>>

PodGone(c, i) ==
    /\ pod[c][i].terminating
    /\ pod[c][i].node \in up
    /\ pod' = [pod EXCEPT ![c][i] = NoPod]
    /\ UNCHANGED <<svc, up, named, nic, tags, mem, job, faults>>

SyncStep(c) ==
    \/ ReleaseIP(c) \/ Released(c)
    \/ ReconcileExisting(c) \/ ReconcileAssigned(c) \/ Allocate(c) \/ Assign(c)
    \/ CleanStaleTags(c) \/ EnsureTagWithIP(c) \/ Configure(c) \/ UpdateServiceStatus(c)
    \/ CheckIPFailover(c) \/ FailoverIP(c)

Next ==
    \/ \E c \in Clusters :
         \/ Start(c) \/ DiscoverOwnedIPs(c) \/ Sync(c) \/ SyncStep(c) \/ Shutdown(c) \/ Crash(c)
         \/ \E i \in IPs : PodGone(c, i)
    \/ \E s \in Services : CreateService(s) \/ DeleteService(s)
    \/ \E n \in Nodes : NodeFails(n) \/ NodeRecovers(n) \/ NodeNamed(n)

Spec == Init /\ [][Next]_vars

(* The process is restarted by its Deployment, both tickers fire, every     *)
(* call of a sync returns, and a kubelet that runs stops its pods.  Dead    *)
(* nodes need not come back.                                                *)
Fairness ==
    \A c \in Clusters :
         /\ WF_vars(Start(c)) /\ WF_vars(Sync(c)) /\ WF_vars(SyncStep(c))
         /\ SF_vars(DiscoverOwnedIPs(c) /\ mem'[c].pool = IPs)
         /\ \A i \in IPs : WF_vars(PodGone(c, i))

FairSpec == Spec /\ Fairness

-----------------------------------------------------------------------------
(* Properties *)

(* Every variable stays in its type; a stopped CCM knows nothing. *)
TypeOK ==
    /\ svc \in [Services -> Service]
    /\ up \subseteq Nodes /\ named \subseteq Nodes /\ nic \subseteq Nodes
    /\ pod \in [Clusters -> [IPs -> Pod]]
    /\ tags \in [TagNames -> SUBSET IPs]
    /\ mem \in [Clusters -> Memory]
    /\ job \in [Clusters -> Job]
    /\ faults \in [FaultKinds -> Nat]
    /\ \A c \in Clusters : At(c, "down") => mem[c] = Blank

(* No two services show the same IP: what ipAssignments forgets in a crash, *)
(* the tags still know.                                                     *)
UniqueIPs ==
    \A s, t \in Services :
        s # t /\ svc[s].exists /\ svc[t].exists /\ svc[s].ingress # None
            => svc[s].ingress # svc[t].ingress

(* An IP is on a tag before the status shows it and as long as it does:     *)
(* that is how isIPAvailable, here and in every other cluster, knows.       *)
ShownIPsTagged ==
    \A s \in Services : svc[s].exists /\ svc[s].ingress # None => svc[s].ingress \in Tagged

(* serviceIPs never has one IP for two services of a cluster, so releasing  *)
(* the IP of one never takes it from the other, whatever a restart forgets. *)
ServiceIPsExclusive ==
    \A c \in Clusters : \A s, t \in Services :
        mem[c].svcIP[s] # None /\ s # t => mem[c].svcIP[s] # mem[c].svcIP[t]

(* The IP a service shows never changes while the service lives, across     *)
(* lost status updates, restarts and failovers ("Service continues to work  *)
(* with the same external IP").                                             *)
IPNeverChanges ==
    [][\A s \in Services :
         svc[s].exists /\ svc'[s].exists /\ svc[s].ingress # None
            => svc'[s].ingress = svc[s].ingress]_vars

(* docs/loadbalancer-implementation.md:113, "Without manual mode,           *)
(* CloudSigma firewall blocks traffic for IPs not assigned to the NIC": an  *)
(* lb-ip pod runs on nodes in manual mode only.                             *)
PodsOnManualNodes ==
    \A c \in Clusters, i \in IPs : pod[c][i] # NoPod => pod[c][i].node \in nic

(* The service shows an IP, and its pod runs on a healthy node. *)
Served(s) ==
    LET p == pod[ClusterOf[s]][svc[s].ingress]
    IN  svc[s].ingress # None /\ p.node \in up /\ ~p.terminating

(* A pod of the IP is left on a dead node though the IP was assigned to     *)
(* another: a pod whose deletion failed, or never ended there, which        *)
(* ensureIPConfigured takes for a working one.                              *)
Stranded(s) ==
    LET c == ClusterOf[s]
        i == svc[s].ingress
    IN  i # None /\ pod[c][i].node \in Nodes \ (up \cup {mem[c].assign[i]})

(* IPs a tag lists though no service shows them. *)
Leaked == {i \in Tagged : \A s \in Services : svc[s].exists => svc[s].ingress # i}

(* Once nodes and users have calmed down, every service is served: the IP   *)
(* of a failed node has moved.  After a deletion of a service or a failed   *)
(* request to Kubernetes its pod may be stranded instead, and where an      *)
(* untag has failed there may be no untagged IP left for it.                *)
EventuallyServed ==
    \A s \in Services :
        <>[](svc[s].exists =>
               \/ Served(s)
               \/ Stranded(s) /\ faults["service"] + faults["kube"] > 0
               \/ svc[s].ingress = None /\ IPs \subseteq Tagged /\ Leaked # {})

(* Once users have calmed down, a tag lists only IPs that services show:    *)
(* "When a service is deleted, the IP is removed from these tags".  What a  *)
(* failed request leaves on a tag is there for good, for nobody remembers   *)
(* it: one IP for each tag request that failed, and no more.                *)
EventuallyReleased ==
    <>[](/\ Cardinality(Leaked) <= faults["tag"]
         /\ \A c \in Clusters, s \in Services : mem[c].svcIP[s] \notin Leaked)
=============================================================================
