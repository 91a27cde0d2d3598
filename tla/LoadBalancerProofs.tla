------------------------- MODULE LoadBalancerProofs -------------------------
(* Theorems about LoadBalancerController, for any number of services,       *)
(* nodes, IPs and faults.                                                   *)
EXTENDS LoadBalancerController, TLAPS

-----------------------------------------------------------------------------
(* Type correctness.  A sync holds a service and an IP where it works on    *)
(* one, and a node where it is about to use one.                            *)
JobGood(j) ==
    /\ j.pc \in {"assign", "clean", "tag", "configure", "status"}
          => j.cur \in Services /\ j.ip \in IPs
    /\ j.pc \in {"assign", "configure", "failover"} => j.first \in Nodes
    /\ j.pc \in {"clean", "tag"} /\ j.new => j.first \in Nodes
    /\ j.pc \in {"release", "services"} => ~j.new /\ j.cur = None

TypeInv == TypeOK /\ \A c \in Clusters : JobGood(job[c])

(* A sync stays well typed under the assignments the actions make. *)
LEMMA JobType ==
  ASSUME NEW j \in Job
  PROVE  /\ \A l \in PCs : [j EXCEPT !.pc = l] \in Job
         /\ \A S \in SUBSET Services : [j EXCEPT !.todo = S] \in Job
         /\ \A S \in SUBSET Services : [j EXCEPT !.stale = S] \in Job
         /\ \A I \in SUBSET IPs : [j EXCEPT !.ips = I] \in Job
         /\ \A I \in SUBSET IPs, l \in PCs : [j EXCEPT !.pc = l, !.ips = I] \in Job
         /\ [j EXCEPT !.pc = "services", !.cur = None, !.ip = None, !.new = FALSE] \in Job
  BY ZenonT(40) DEF Job, PCs, MaybeIP, MaybeNode

LEMMA JobTypeWork ==
  ASSUME NEW j \in Job, NEW S \in SUBSET Services, NEW l \in PCs, NEW s \in Services, NEW i \in IPs
  PROVE  /\ [j EXCEPT !.todo = S, !.pc = l, !.cur = s, !.ip = i] \in Job
         /\ [[j EXCEPT !.todo = S] EXCEPT !.cur = s, !.ip = i, !.new = TRUE, !.pc = l] \in Job
  BY DEF Job, MaybeIP

(* A CCM at rest is well typed and holds nothing. *)
LEMMA RestType ==
  ASSUME NEW l \in {"down", "idle", "release"}
  PROVE  AtRest(l) \in Job /\ JobGood(AtRest(l))
  BY DEF AtRest, Job, JobGood, PCs, MaybeIP, MaybeNode

LEMMA BlankType == Blank \in Memory
  BY DEF Blank, Memory, MaybeNode, MaybeIP

(* The initial states are well typed. *)
LEMMA InitType == Init => TypeInv
<1> SUFFICES ASSUME Init PROVE TypeInv
  OBVIOUS
<1>1. job \in [Clusters -> Job] /\ \A c \in Clusters : JobGood(job[c])
  BY RestType DEF Init
<1>2. mem \in [Clusters -> Memory] /\ \A c \in Clusters : mem[c] = Blank
  BY BlankType DEF Init
<1>3. /\ svc \in [Services -> Service]
      /\ up \subseteq Nodes /\ named \subseteq Nodes /\ nic \subseteq Nodes
      /\ pod \in [Clusters -> [IPs -> Pod]]
      /\ tags \in [TagNames -> SUBSET IPs]
      /\ faults \in [FaultKinds -> Nat]
  BY DEF Init, Service, Pod, NoPod, MaybeIP, MaybeNode
<1> QED
  BY <1>1, <1>2, <1>3 DEF TypeInv, TypeOK

(* What may be known of a well-typed state. *)
LEMMA Parts ==
  ASSUME TypeInv, NEW c \in Clusters
  PROVE  /\ job[c] \in Job /\ JobGood(job[c]) /\ mem[c] \in Memory
         /\ job[c].pc \in PCs /\ job[c].todo \subseteq Services /\ job[c].ips \subseteq IPs
         /\ job[c].first \in MaybeNode /\ job[c].new \in BOOLEAN /\ job[c].stale \subseteq Services
         /\ job[c].uuids \subseteq Nodes
         /\ \A s \in Services : job[c].snap[s] \in MaybeIP /\ mem[c].svcIP[s] \in MaybeIP
         /\ \A i \in IPs : mem[c].assign[i] \in MaybeNode /\ pod[c][i] \in Pod
         /\ mem[c].pool \subseteq IPs /\ mem[c].manual \subseteq Nodes
  BY DEF TypeInv, TypeOK, Job, Memory

(* The parts of the state an action of one CCM leaves well typed make the   *)
(* whole well typed.                                                        *)
LEMMA CCMType ==
  ASSUME TypeInv, NEW c \in Clusters, NEW j \in Job, JobGood(j), SetJob(c, j),
         mem' \in [Clusters -> Memory], \A d \in Clusters : d # c => mem'[d] = mem[d],
         j.pc = "down" => mem'[c] = Blank,
         svc' \in [Services -> Service], UNCHANGED <<up, named>>, nic' \subseteq Nodes,
         pod' \in [Clusters -> [IPs -> Pod]], tags' \in [TagNames -> SUBSET IPs],
         faults' \in [FaultKinds -> Nat]
  PROVE  TypeInv'
<1>1. /\ job' \in [Clusters -> Job] /\ job'[c] = j
      /\ \A d \in Clusters : d # c => job'[d] = job[d]
  BY DEF SetJob, TypeInv, TypeOK
<1>2. \A d \in Clusters : JobGood(job'[d])
  BY <1>1 DEF TypeInv
<1>3. \A d \in Clusters : At(d, "down")' => mem'[d] = Blank
  BY <1>1 DEF At, TypeInv, TypeOK
<1>4. up' \subseteq Nodes /\ named' \subseteq Nodes
  BY DEF TypeInv, TypeOK
<1> QED
  BY <1>1, <1>2, <1>3, <1>4 DEF TypeInv, TypeOK

(* Counting a fault keeps the counters well typed. *)
LEMMA SpendType ==
  ASSUME TypeInv, faults' = faults \/ \E k \in FaultKinds : Spend(k)
  PROVE  faults' \in [FaultKinds -> Nat]
  BY DEF Spend, TypeInv, TypeOK

(* Placing a pod keeps the pods well typed. *)
LEMMA PodType ==
  ASSUME TypeInv, NEW c \in Clusters, NEW i \in IPs, NEW p \in Pod,
         pod' = [pod EXCEPT ![c][i] = p]
  PROVE  pod' \in [Clusters -> [IPs -> Pod]]
  BY DEF TypeInv, TypeOK

LEMMA TerminatedType ==
  ASSUME NEW p \in Pod
  PROVE  Terminated(p) \in Pod
  BY DEF Terminated, NoPod, Pod, MaybeNode

LEMMA ConfigureType ==
  ASSUME TypeInv, NEW c \in Clusters, NEW i \in IPs, NEW n \in Nodes, NEW p \in Pod,
         ConfigureIPOnNode(c, i, n, p)
  PROVE  /\ pod' \in [Clusters -> [IPs -> Pod]]
         /\ faults' \in [FaultKinds -> Nat]
         /\ faults' = faults \/ Spend("kube")
<1>1. faults' = faults \/ Spend("kube")
  BY DEF ConfigureIPOnNode
<1>2. \E q \in Pod : pod' = [pod EXCEPT ![c][i] = q]
  BY TerminatedType DEF ConfigureIPOnNode, Pod, MaybeNode
<1> QED
  BY <1>1, <1>2, PodType, SpendType DEF FaultKinds

LEMMA EnsureType ==
  ASSUME TypeInv, NEW c \in Clusters, NEW i \in IPs, NEW n \in Nodes,
         EnsureIPConfigured(c, i, n)
  PROVE  /\ pod' \in [Clusters -> [IPs -> Pod]]
         /\ faults' \in [FaultKinds -> Nat]
         /\ faults' = faults \/ Spend("kube")
<1>1. pod[c][i] \in Pod
  BY Parts
<1>2. CASE ConfigureIPOnNode(c, i, n, pod[c][i])
  BY <1>1, <1>2, ConfigureType
<1>3. CASE UNCHANGED <<pod, faults>>
  BY <1>3 DEF TypeInv, TypeOK
<1>4. CASE /\ Spend("kube")
           /\ \E q \in {Terminated(pod[c][i]), [node |-> n, terminating |-> FALSE]} :
                pod' = [pod EXCEPT ![c][i] = q]
  <2>1. \E q \in Pod : pod' = [pod EXCEPT ![c][i] = q]
    BY <1>1, <1>4, TerminatedType DEF Pod, MaybeNode
  <2> QED
    BY <1>4, <2>1, PodType, SpendType DEF FaultKinds
<1> QED
  BY <1>2, <1>3, <1>4 DEF EnsureIPConfigured

(* Assignments to the memory of a CCM. *)
LEMMA MemoryFields ==
  ASSUME NEW m \in Memory, NEW a \in [IPs -> MaybeNode], NEW v \in [Services -> MaybeIP],
         NEW w \in SUBSET Nodes
  PROVE  /\ [m EXCEPT !.assign = a, !.svcIP = v] \in Memory
         /\ [m EXCEPT !.svcIP = v, !.assign = a] \in Memory
         /\ [m EXCEPT !.assign = a, !.svcIP = v, !.manual = w] \in Memory
  BY DEF Memory

LEMMA MemType ==
  ASSUME TypeInv, NEW c \in Clusters, NEW i \in IPs, NEW s \in Services, NEW n \in MaybeNode,
         NEW x \in MaybeIP,
         \/ mem' = mem
         \/ mem' = [mem EXCEPT ![c].svcIP[s] = x, ![c].assign[i] = n]
         \/ mem' = [mem EXCEPT ![c].assign[i] = n, ![c].svcIP[s] = x]
         \/ n \in Nodes /\ mem' = [mem EXCEPT ![c].assign[i] = n, ![c].svcIP[s] = x,
                                              ![c].manual = @ \cup {n}]
  PROVE  /\ mem' \in [Clusters -> Memory]
         /\ \A d \in Clusters : d # c => mem'[d] = mem[d]
<1> DEFINE a == [mem[c].assign EXCEPT ![i] = n]
           v == [mem[c].svcIP EXCEPT ![s] = x]
           w == mem[c].manual \cup {n}
<1>1. mem \in [Clusters -> Memory]
  BY DEF TypeInv, TypeOK
<1>5. a \in [IPs -> MaybeNode] /\ v \in [Services -> MaybeIP] /\ (n \in Nodes => w \in SUBSET Nodes)
  BY <1>1 DEF Memory
<1>6. mem[c] \in Memory
  BY <1>1
<1> HIDE DEF a, v, w
<1>2. \A d \in Clusters : d # c => mem'[d] = mem[d]
  BY <1>1
<1>3. mem'[c] \in Memory
  <2>1. CASE mem' = mem
    BY <1>1, <2>1
  <2>2. CASE mem' = [mem EXCEPT ![c].svcIP[s] = x, ![c].assign[i] = n]
    <3>1. mem'[c] = [mem[c] EXCEPT !.svcIP = v, !.assign = a]
      BY <1>1, <2>2 DEF Memory, a, v, w
    <3>2. [mem[c] EXCEPT !.svcIP = v, !.assign = a] \in Memory
      BY <1>5, <1>6, <2>2 DEF Memory
    <3> QED BY <3>1, <3>2
  <2>3. CASE mem' = [mem EXCEPT ![c].assign[i] = n, ![c].svcIP[s] = x]
    <3>1. mem'[c] = [mem[c] EXCEPT !.assign = a, !.svcIP = v]
      BY <1>1, <2>3 DEF Memory, a, v, w
    <3>2. [mem[c] EXCEPT !.assign = a, !.svcIP = v] \in Memory
      BY <1>5, <1>6, <2>3 DEF Memory
    <3> QED BY <3>1, <3>2
  <2>4. CASE n \in Nodes /\ mem' = [mem EXCEPT ![c].assign[i] = n, ![c].svcIP[s] = x,
                                               ![c].manual = @ \cup {n}]
    <3>1. mem'[c] = [mem[c] EXCEPT !.assign = a, !.svcIP = v, !.manual = w]
      BY <1>1, <2>4 DEF Memory, a, v, w
    <3>2. [mem[c] EXCEPT !.assign = a, !.svcIP = v, !.manual = w] \in Memory
      BY <1>5, <1>6, <2>4 DEF Memory
    <3> QED BY <3>1, <3>2
  <2> QED BY <2>1, <2>2, <2>3, <2>4
<1>4. DOMAIN mem' = Clusters /\ mem' = [d \in Clusters |-> mem'[d]]
  BY <1>1
<1> QED BY <1>1, <1>2, <1>3, <1>4

LEMMA FailoverMemType ==
  ASSUME TypeInv, NEW c \in Clusters, NEW i \in IPs, NEW n \in Nodes,
         mem' = [mem EXCEPT ![c].assign[i] = n, ![c].manual = @ \cup {n}]
  PROVE  /\ mem' \in [Clusters -> Memory]
         /\ \A d \in Clusters : d # c => mem'[d] = mem[d]
<1> DEFINE a == [mem[c].assign EXCEPT ![i] = n]
           w == mem[c].manual \cup {n}
<1>1. mem \in [Clusters -> Memory] /\ mem[c] \in Memory
  BY DEF TypeInv, TypeOK
<1>2. a \in [IPs -> MaybeNode] /\ w \in SUBSET Nodes
  BY <1>1 DEF Memory, MaybeNode
<1>3. mem' = [mem EXCEPT ![c] = [mem[c] EXCEPT !.assign = a, !.manual = w]]
  BY <1>1 DEF Memory
<1> HIDE DEF a, w
<1>4. [mem[c] EXCEPT !.assign = a, !.manual = w] \in Memory
  BY <1>1, <1>2 DEF Memory
<1> QED
  BY <1>1, <1>3, <1>4

-----------------------------------------------------------------------------
(* One lemma per action. *)
LEMMA StartType ==
  ASSUME TypeInv, NEW c \in Clusters, Start(c)
  PROVE  TypeInv'
<1>1. \A p \in SUBSET IPs : [Blank EXCEPT !.pool = p] \in Memory
  BY BlankType DEF Memory
<1>2. RecoverServiceState(c, IPs) \in [Services -> MaybeIP]
  BY DEF RecoverServiceState, MaybeIP
<1>3. [Blank EXCEPT !.pool = IPs, !.svcIP = RecoverServiceState(c, IPs)] \in Memory
  BY <1>2, BlankType DEF Memory
<1>4. \E m \in Memory : mem' = [mem EXCEPT ![c] = m]
  BY <1>1, <1>3, BlankType DEF Start
<1>5. mem' \in [Clusters -> Memory] /\ \A d \in Clusters : d # c => mem'[d] = mem[d]
  BY <1>4 DEF TypeInv, TypeOK
<1>6. faults' \in [FaultKinds -> Nat]
  BY SpendType DEF Start, FaultKinds
<1>7. AtRest("idle") \in Job /\ JobGood(AtRest("idle")) /\ AtRest("idle").pc = "idle"
  BY RestType DEF AtRest
<1>8. SetJob(c, AtRest("idle")) /\ UNCHANGED <<svc, up, named, pod, nic, tags>>
  BY DEF Start
<1>9. svc' \in [Services -> Service] /\ nic' \subseteq Nodes /\ pod' \in [Clusters -> [IPs -> Pod]]
      /\ tags' \in [TagNames -> SUBSET IPs]
  BY <1>8 DEF TypeInv, TypeOK
<1> QED
  BY <1>5, <1>6, <1>7, <1>8, <1>9, CCMType

LEMMA DiscoverType ==
  ASSUME TypeInv, NEW c \in Clusters, DiscoverOwnedIPs(c)
  PROVE  TypeInv'
<1>1. mem \in [Clusters -> Memory] /\ mem[c] \in Memory /\ ~At(c, "down")
  BY DEF TypeInv, TypeOK, DiscoverOwnedIPs, At
<1>2. \E p \in SUBSET IPs : mem' = [mem EXCEPT ![c].pool = p]
  BY DEF DiscoverOwnedIPs
<1>3. mem' \in [Clusters -> Memory] /\ \A d \in Clusters : d # c => mem'[d] = mem[d]
  BY <1>1, <1>2 DEF Memory
<1>4. faults' \in [FaultKinds -> Nat]
  BY SpendType DEF DiscoverOwnedIPs, FaultKinds
<1> QED
  BY <1>1, <1>3, <1>4 DEF DiscoverOwnedIPs, TypeInv, TypeOK, At

LEMMA SyncType ==
  ASSUME TypeInv, NEW c \in Clusters, Sync(c)
  PROVE  TypeInv'
<1>1. PICK n \in up \cap NodesOf(c) :
        SetJob(c, [AtRest("release") EXCEPT
                     !.todo = ServicesOf(c),
                     !.snap = [s \in Services |->
                                 IF s \in ServicesOf(c) THEN svc[s].ingress ELSE None],
                     !.first = IF n \in named THEN n ELSE None,
                     !.uuids = (up \cap NodesOf(c)) \cap named])
  BY DEF Sync
<1> DEFINE snap == [s \in Services |-> IF s \in ServicesOf(c) THEN svc[s].ingress ELSE None]
           first == IF n \in named THEN n ELSE None
           uuids == (up \cap NodesOf(c)) \cap named
           j == [AtRest("release") EXCEPT !.todo = ServicesOf(c), !.snap = snap,
                                          !.first = first, !.uuids = uuids]
<1>2. /\ snap \in [Services -> MaybeIP] /\ first \in MaybeNode /\ uuids \subseteq Nodes
      /\ ServicesOf(c) \subseteq Services
  BY DEF TypeInv, TypeOK, Service, MaybeIP, MaybeNode, NodesOf, ServicesOf
<1> HIDE DEF snap, first, uuids
<1>3. j \in Job /\ JobGood(j) /\ j.pc # "down"
  BY <1>2 DEF AtRest, Job, JobGood, PCs, MaybeIP
<1>4. SetJob(c, j)
  BY <1>1 DEF snap, first, uuids
<1> HIDE DEF j
<1> QED
  BY <1>3, <1>4, CCMType DEF Sync, TypeInv, TypeOK

LEMMA ReleaseType ==
  ASSUME TypeInv, NEW c \in Clusters, ReleaseIP(c)
  PROVE  TypeInv'
<1>1. PICK s \in Gone(c) :
        /\ \/ /\ tags' = Untag({mem[c].svcIP[s]})
              /\ pod' = [pod EXCEPT ![c][mem[c].svcIP[s]] = Terminated(@)]
              /\ UNCHANGED faults
           \/ /\ Spend("tag") /\ UNCHANGED tags
              /\ pod' = [pod EXCEPT ![c][mem[c].svcIP[s]] = Terminated(@)]
           \/ Spend("kube") /\ tags' = Untag({mem[c].svcIP[s]}) /\ UNCHANGED pod
        /\ mem' = [mem EXCEPT ![c].svcIP[s] = None, ![c].assign[mem[c].svcIP[s]] = None]
  BY DEF ReleaseIP
<1> DEFINE i == mem[c].svcIP[s]
<1>2. s \in Services /\ i \in IPs
  BY Parts DEF Gone, MaybeIP
<1> HIDE DEF i
<1>3. mem' \in [Clusters -> Memory] /\ \A d \in Clusters : d # c => mem'[d] = mem[d]
  <2>1. None \in MaybeIP /\ None \in MaybeNode
    BY DEF MaybeIP, MaybeNode
  <2>2. mem' = [mem EXCEPT ![c].svcIP[s] = None, ![c].assign[i] = None]
    BY <1>1 DEF i
  <2> QED
    BY <1>2, <2>1, <2>2, MemType
<1>4. faults' \in [FaultKinds -> Nat]
  BY <1>1, SpendType DEF FaultKinds
<1>5. pod' \in [Clusters -> [IPs -> Pod]]
  <2>1. pod[c][i] \in Pod
    BY <1>2, Parts
  <2>2. CASE pod' = pod
    BY <2>2 DEF TypeInv, TypeOK
  <2>3. CASE pod' = [pod EXCEPT ![c][i] = Terminated(@)]
    <3>1. pod' = [pod EXCEPT ![c][i] = Terminated(pod[c][i])]
      BY <1>2, <2>3
    <3> QED
      BY <1>2, <2>1, <3>1, TerminatedType, PodType
  <2> QED
    BY <1>1, <2>2, <2>3 DEF i
<1>6. tags' \in [TagNames -> SUBSET IPs]
  BY <1>1 DEF Untag, TypeInv, TypeOK
<1>7. ~At(c, "down")
  BY DEF ReleaseIP, At
<1> QED
  BY <1>3, <1>4, <1>5, <1>6, <1>7 DEF ReleaseIP, TypeInv, TypeOK, At

(* Steps that only move the sync on. *)
LEMMA QuietType ==
  ASSUME TypeInv, NEW c \in Clusters, NEW j \in Job, JobGood(j), SetJob(c, j), j.pc # "down",
         UNCHANGED <<svc, up, named, pod, nic, tags, mem>>, faults' \in [FaultKinds -> Nat]
  PROVE  TypeInv'
  BY CCMType DEF TypeInv, TypeOK

LEMMA ReleasedType ==
  ASSUME TypeInv, NEW c \in Clusters, Released(c)
  PROVE  TypeInv'
<1> DEFINE j == [job[c] EXCEPT !.pc = "services"]
<1>1. j \in Job
  BY Parts, JobType DEF PCs
<1>2. JobGood(j) /\ j.pc # "down"
  BY Parts DEF JobGood, Released, At, Job
<1> HIDE DEF j
<1>3. SetJob(c, j) /\ UNCHANGED <<svc, up, named, pod, nic, tags, mem, faults>>
  BY DEF Released, j
<1> QED
  BY <1>1, <1>2, <1>3, QuietType DEF TypeInv, TypeOK

LEMMA ExistingType ==
  ASSUME TypeInv, NEW c \in Clusters, ReconcileExisting(c)
  PROVE  TypeInv'
<1>1. PICK s \in job[c].todo :
        LET ip      == job[c].snap[s]
            tracked == mem[c].assign[ip] # None
            node    == IF tracked THEN mem[c].assign[ip] ELSE job[c].first
        IN  /\ ShowsPoolIP(c, s)
            /\ mem' = IF tracked \/ node = None THEN mem
                      ELSE [mem EXCEPT ![c].assign[ip] = node, ![c].svcIP[s] = ip]
            /\ IF node # None
               THEN EnsureIPConfigured(c, ip, node)
               ELSE UNCHANGED <<pod, faults>>
            /\ SetJob(c, IF node = None THEN [job[c] EXCEPT !.todo = @ \ {s}]
                         ELSE [job[c] EXCEPT !.todo = @ \ {s}, !.pc = "clean",
                                             !.cur = s, !.ip = ip])
  BY DEF ReconcileExisting
<1> DEFINE ip == job[c].snap[s]
           tracked == mem[c].assign[ip] # None
           node == IF tracked THEN mem[c].assign[ip] ELSE job[c].first
           todo == job[c].todo \ {s}
           j == IF node = None THEN [job[c] EXCEPT !.todo = todo]
                ELSE [job[c] EXCEPT !.todo = todo, !.pc = "clean", !.cur = s, !.ip = ip]
<1>2. s \in Services /\ ip \in IPs /\ node \in MaybeNode /\ todo \in SUBSET Services
  BY <1>1, Parts DEF ShowsPoolIP
<1>3. j \in Job
  BY <1>2, Parts, JobType, JobTypeWork DEF PCs
<1>4. JobGood(j) /\ j.pc # "down"
  <2>1. job[c] \in Job /\ JobGood(job[c]) /\ job[c].pc = "services"
    BY Parts DEF ReconcileExisting, At
  <2> HIDE DEF todo, ip, node
  <2> QED
    BY <1>2, <2>1 DEF JobGood, Job
<1>5. SetJob(c, j)
  BY <1>1
<1>6. mem' \in [Clusters -> Memory] /\ \A d \in Clusters : d # c => mem'[d] = mem[d]
  <2>1. mem' = mem \/ mem' = [mem EXCEPT ![c].assign[ip] = node, ![c].svcIP[s] = ip]
    BY <1>1
  <2>2. ip \in MaybeIP
    BY <1>2 DEF MaybeIP
  <2> HIDE DEF ip, node
  <2>3. CASE mem' = mem
    BY <2>3 DEF TypeInv, TypeOK
  <2>4. CASE mem' = [mem EXCEPT ![c].assign[ip] = node, ![c].svcIP[s] = ip]
    BY <1>2, <2>2, <2>4, MemType
  <2> QED
    BY <2>1, <2>3, <2>4
<1>7. pod' \in [Clusters -> [IPs -> Pod]] /\ faults' \in [FaultKinds -> Nat]
  <2>1. CASE node = None
    BY <1>1, <2>1 DEF TypeInv, TypeOK
  <2>2. CASE node # None
    <3>1. EnsureIPConfigured(c, ip, node) /\ node \in Nodes
      BY <1>1, <1>2, <2>2 DEF MaybeNode
    <3> HIDE DEF ip, node
    <3> QED
      BY <1>2, <3>1, EnsureType
  <2> QED
    BY <2>1, <2>2
<1>8. UNCHANGED <<svc, up, named, nic, tags>>
  BY DEF ReconcileExisting
<1> HIDE DEF j
<1> QED
  BY <1>3, <1>4, <1>5, <1>6, <1>7, <1>8, CCMType DEF TypeInv, TypeOK

LEMMA AssignedType ==
  ASSUME TypeInv, NEW c \in Clusters, ReconcileAssigned(c)
  PROVE  TypeInv'
<1>1. PICK s \in job[c].todo :
        /\ HasIP(c, s)
        /\ SetJob(c, [job[c] EXCEPT !.todo = @ \ {s}, !.pc = "status", !.cur = s,
                                    !.ip = mem[c].svcIP[s]])
  BY DEF ReconcileAssigned
<1> DEFINE ip == mem[c].svcIP[s]
           todo == job[c].todo \ {s}
           j == [job[c] EXCEPT !.todo = todo, !.pc = "status", !.cur = s, !.ip = ip]
<1>2. s \in Services /\ ip \in IPs /\ todo \in SUBSET Services
  BY <1>1, Parts DEF HasIP, MaybeIP
<1>3. SetJob(c, j)
  BY <1>1
<1> HIDE DEF ip, todo
<1>4. j \in Job
  BY <1>2, Parts, JobTypeWork DEF PCs
<1>5. JobGood(j) /\ j.pc # "down"
  BY <1>2, Parts DEF JobGood, Job
<1> HIDE DEF j
<1> QED
  BY <1>3, <1>4, <1>5, QuietType DEF ReconcileAssigned, TypeInv, TypeOK

LEMMA AllocateType ==
  ASSUME TypeInv, NEW c \in Clusters, Allocate(c)
  PROVE  TypeInv'
<1>1. PICK s \in job[c].todo :
        \/ SetJob(c, [job[c] EXCEPT !.todo = @ \ {s}])
        \/ \E i \in Unused(c, s) :
             SetJob(c, [[job[c] EXCEPT !.todo = @ \ {s}] EXCEPT
                          !.cur = s, !.ip = i, !.new = TRUE, !.pc = AfterAllocate(c)])
  BY DEF Allocate, Available
<1> DEFINE todo == job[c].todo \ {s}
<1>2. s \in Services /\ todo \in SUBSET Services /\ Unused(c, s) \subseteq IPs
  BY Parts DEF Unused, PoolFor
<1>3. /\ faults' \in [FaultKinds -> Nat] /\ UNCHANGED <<svc, up, named, pod, nic, tags, mem>>
      /\ job[c].pc = "services"
  BY SpendType DEF Allocate, FaultKinds, At
<1>4. CASE SetJob(c, [job[c] EXCEPT !.todo = @ \ {s}])
  <2> DEFINE j == [job[c] EXCEPT !.todo = todo]
  <2>1. j \in Job /\ SetJob(c, j)
    BY <1>2, <1>4, Parts, JobType
  <2>2. JobGood(j) /\ j.pc # "down"
    BY <1>3, Parts DEF JobGood, Job
  <2> HIDE DEF j
  <2> QED
    BY <1>3, <2>1, <2>2, QuietType
<1>5. ASSUME NEW i \in Unused(c, s),
             SetJob(c, [[job[c] EXCEPT !.todo = @ \ {s}] EXCEPT
                          !.cur = s, !.ip = i, !.new = TRUE, !.pc = AfterAllocate(c)])
      PROVE  TypeInv'
  <2> DEFINE j == [[job[c] EXCEPT !.todo = todo] EXCEPT
                     !.cur = s, !.ip = i, !.new = TRUE, !.pc = AfterAllocate(c)]
  <2>1. SetJob(c, j) /\ i \in IPs
    BY <1>2, <1>5
  <2>2. AfterAllocate(c) = "status" \/ (AfterAllocate(c) = "assign" /\ job[c].first \in Nodes)
    BY Parts DEF AfterAllocate, MaybeNode
  <2>3. j \in Job
    BY <1>2, <2>1, <2>2, Parts, JobTypeWork, ZenonT(40) DEF PCs
  <2> HIDE DEF todo
  <2>4. JobGood(j) /\ j.pc # "down"
    BY <1>2, <2>1, <2>2, Parts DEF JobGood, Job
  <2> HIDE DEF j
  <2> QED
    BY <1>3, <2>1, <2>3, <2>4, QuietType
<1> QED
  BY <1>1, <1>4, <1>5

(* NextService ends the work on a service. *)
LEMMA NextServiceType ==
  ASSUME TypeInv, NEW c \in Clusters, NextService(c)
  PROVE  \E j \in Job : JobGood(j) /\ j.pc # "down" /\ SetJob(c, j)
<1> DEFINE j == [job[c] EXCEPT !.pc = "services", !.cur = None, !.ip = None, !.new = FALSE]
<1>1. j \in Job /\ SetJob(c, j)
  BY Parts, JobType DEF NextService
<1>2. JobGood(j) /\ j.pc # "down"
  BY Parts DEF JobGood, Job
<1> QED
  BY <1>1, <1>2

LEMMA AssignType ==
  ASSUME TypeInv, NEW c \in Clusters, Assign(c)
  PROVE  TypeInv'
<1> DEFINE s == job[c].cur
           i == job[c].ip
           n == job[c].first
<1>1. s \in Services /\ i \in IPs /\ n \in Nodes /\ n \in MaybeNode /\ i \in MaybeIP
  BY Parts DEF Assign, At, JobGood, MaybeNode, MaybeIP
<1>2. UNCHANGED <<svc, up, named, pod, tags>> /\ nic' \subseteq Nodes
  BY <1>1 DEF Assign, EnsureNodeManualMode, TypeInv, TypeOK
<1>3. faults' \in [FaultKinds -> Nat]
  BY SpendType DEF Assign, FaultKinds
<1>4. CASE /\ mem' = [mem EXCEPT ![c].assign[i] = n, ![c].svcIP[s] = i, ![c].manual = @ \cup {n}]
           /\ SetJob(c, [job[c] EXCEPT !.pc = "clean"])
  <2> DEFINE j == [job[c] EXCEPT !.pc = "clean"]
  <2>1. j \in Job
    BY Parts, JobType DEF PCs
  <2>2. JobGood(j) /\ j.pc # "down"
    BY <1>1, Parts DEF JobGood, Job
  <2> HIDE DEF s, i, n
  <2>3. mem' \in [Clusters -> Memory] /\ \A d \in Clusters : d # c => mem'[d] = mem[d]
    BY <1>1, <1>4, MemType
  <2>4. SetJob(c, j)
    BY <1>4
  <2> HIDE DEF j
  <2> QED
    BY <1>2, <1>3, <2>1, <2>2, <2>3, <2>4, CCMType DEF TypeInv, TypeOK
<1>5. CASE UNCHANGED mem /\ NextService(c)
  BY <1>2, <1>3, <1>5, NextServiceType, CCMType DEF TypeInv, TypeOK
<1> QED
  BY <1>4, <1>5 DEF Assign

(* Only the program counter moves, between points that need the same. *)
LEMMA PCType ==
  ASSUME TypeInv, NEW c \in Clusters,
         NEW l \in {"tag", "configure", "status"},
         SetJob(c, [job[c] EXCEPT !.pc = l]),
         job[c].pc \in {"clean", "tag", "configure"},
         l = "tag" => job[c].pc = "clean",
         l = "configure" => job[c].pc = "tag" /\ job[c].new
  PROVE  \E j \in Job : JobGood(j) /\ j.pc # "down" /\ SetJob(c, j)
<1> DEFINE j == [job[c] EXCEPT !.pc = l]
<1>1. j \in Job
  BY Parts, JobType DEF PCs
<1>2. JobGood(j) /\ j.pc # "down"
  BY Parts DEF JobGood, Job
<1> QED
  BY <1>1, <1>2

LEMMA TagsType ==
  ASSUME TypeInv, NEW c \in Clusters, CleanStaleTags(c) \/ EnsureTagWithIP(c)
  PROVE  TypeInv'
<1>1. /\ job[c].cur \in Services /\ job[c].ip \in IPs
      /\ TagOf[job[c].cur] \in TagNames
  BY Parts DEF CleanStaleTags, EnsureTagWithIP, At, JobGood, TagNames
<1>2. tags' \in [TagNames -> SUBSET IPs]
  BY <1>1 DEF CleanStaleTags, EnsureTagWithIP, TypeInv, TypeOK
<1>3. faults' \in [FaultKinds -> Nat]
  BY SpendType DEF CleanStaleTags, EnsureTagWithIP, FaultKinds
<1>4. UNCHANGED <<svc, up, named, pod, nic, mem>>
  BY DEF CleanStaleTags, EnsureTagWithIP
<1>5. \E j \in Job : JobGood(j) /\ j.pc # "down" /\ SetJob(c, j)
  <2>1. CASE CleanStaleTags(c)
    BY <2>1, PCType DEF CleanStaleTags, At
  <2>2. CASE EnsureTagWithIP(c) /\ job[c].new
    BY <2>2, PCType DEF EnsureTagWithIP, At
  <2>3. CASE EnsureTagWithIP(c) /\ ~job[c].new
    BY <2>3, NextServiceType DEF EnsureTagWithIP
  <2> QED
    BY <2>1, <2>2, <2>3
<1> QED
  BY <1>2, <1>3, <1>4, <1>5, CCMType DEF TypeInv, TypeOK

LEMMA ConfigureStepType ==
  ASSUME TypeInv, NEW c \in Clusters, Configure(c)
  PROVE  TypeInv'
<1>1. job[c].ip \in IPs /\ job[c].first \in Nodes /\ pod[c][job[c].ip] \in Pod
  BY Parts DEF Configure, At, JobGood
<1>2. pod' \in [Clusters -> [IPs -> Pod]] /\ faults' \in [FaultKinds -> Nat]
  BY <1>1, ConfigureType DEF Configure
<1>3. \E j \in Job : JobGood(j) /\ j.pc # "down" /\ SetJob(c, j)
  BY PCType DEF Configure, At
<1>4. UNCHANGED <<svc, up, named, nic, tags, mem>>
  BY DEF Configure
<1> QED
  BY <1>2, <1>3, <1>4, CCMType DEF TypeInv, TypeOK

LEMMA StatusType ==
  ASSUME TypeInv, NEW c \in Clusters, UpdateServiceStatus(c)
  PROVE  TypeInv'
<1>1. job[c].cur \in Services /\ job[c].ip \in MaybeIP
  BY Parts DEF UpdateServiceStatus, At, JobGood, MaybeIP
<1>2. svc' \in [Services -> Service] /\ faults' \in [FaultKinds -> Nat]
  <2>1. svc' = svc \/ svc' = [svc EXCEPT ![job[c].cur].ingress = job[c].ip]
    BY DEF UpdateServiceStatus
  <2> QED
    BY <1>1, <2>1, SpendType DEF UpdateServiceStatus, FaultKinds, TypeInv, TypeOK, Service
<1>3. \E j \in Job : JobGood(j) /\ j.pc # "down" /\ SetJob(c, j)
  BY NextServiceType DEF UpdateServiceStatus
<1>4. UNCHANGED <<up, named, pod, nic, tags, mem>>
  BY DEF UpdateServiceStatus
<1> QED
  BY <1>2, <1>3, <1>4, CCMType DEF TypeInv, TypeOK

LEMMA CheckType ==
  ASSUME TypeInv, NEW c \in Clusters, CheckIPFailover(c)
  PROVE  TypeInv'
<1>1. Misplaced(c) \in SUBSET IPs
  BY DEF Misplaced
<1>2. \E j \in Job : JobGood(j) /\ j.pc # "down" /\ SetJob(c, j)
  <2>1. CASE SetJob(c, AtRest("idle"))
    <3>1. AtRest("idle").pc = "idle"
      BY DEF AtRest
    <3> QED
      BY <2>1, <3>1, RestType
  <2>2. CASE SetJob(c, [job[c] EXCEPT !.pc = "failover", !.ips = Misplaced(c)]) /\ job[c].first # None
    <3> DEFINE j == [job[c] EXCEPT !.pc = "failover", !.ips = Misplaced(c)]
    <3>1. j \in Job
      BY <1>1, Parts, JobType DEF PCs
    <3>2. JobGood(j) /\ j.pc # "down"
      BY <2>2, Parts DEF JobGood, Job, MaybeNode
    <3> QED
      BY <2>2, <3>1, <3>2
  <2> QED
    BY <2>1, <2>2 DEF CheckIPFailover
<1>3. UNCHANGED <<svc, up, named, pod, nic, tags, mem, faults>>
  BY DEF CheckIPFailover
<1> QED
  BY <1>2, <1>3, QuietType DEF TypeInv, TypeOK

LEMMA FailoverType ==
  ASSUME TypeInv, NEW c \in Clusters, FailoverIP(c)
  PROVE  TypeInv'
<1> DEFINE n == job[c].first
<1>1. PICK i \in job[c].ips :
        /\ SetJob(c, IF job[c].ips \ {i} = {} THEN AtRest("idle")
                     ELSE [job[c] EXCEPT !.ips = job[c].ips \ {i}])
        /\ \/ /\ EnsureNodeManualMode(c, n)
              /\ mem' = [mem EXCEPT ![c].assign[i] = n, ![c].manual = @ \cup {n}]
              /\ \/ ConfigureIPOnNode(c, i, n, NoPod)
                 \/ Spend("kube") /\ pod' = [pod EXCEPT ![c][i] = Terminated(@)]
                 \/ pod' = [pod EXCEPT ![c][i] = NoPod] /\ UNCHANGED faults
                 \/ Spend("kube") /\ UNCHANGED pod
           \/ Spend("cloud") /\ nic' \in {nic, nic \cup {n}} /\ UNCHANGED <<mem, pod>>
  BY DEF FailoverIP
<1>2. i \in IPs /\ n \in Nodes /\ n \in MaybeNode /\ pod[c][i] \in Pod /\ NoPod \in Pod
  BY Parts DEF FailoverIP, At, JobGood, MaybeNode, NoPod, Pod
<1>3. \E j \in Job : JobGood(j) /\ j.pc # "down" /\ SetJob(c, j)
  <2>1. CASE SetJob(c, AtRest("idle"))
    <3>1. AtRest("idle").pc = "idle"
      BY DEF AtRest
    <3> QED
      BY <2>1, <3>1, RestType
  <2>2. CASE SetJob(c, [job[c] EXCEPT !.ips = job[c].ips \ {i}])
    <3> DEFINE rest == job[c].ips \ {i}
               j == [job[c] EXCEPT !.ips = rest]
    <3>1. rest \in SUBSET IPs
      BY Parts
    <3>2. j \in Job
      BY <3>1, Parts, JobType
    <3>3. JobGood(j) /\ j.pc # "down"
      BY Parts DEF JobGood, Job, FailoverIP, At
    <3> QED
      BY <2>2, <3>2, <3>3
  <2> QED
    BY <1>1, <2>1, <2>2
<1>4. nic' \subseteq Nodes
  BY <1>1, <1>2 DEF EnsureNodeManualMode, TypeInv, TypeOK
<1>5. mem' \in [Clusters -> Memory] /\ \A d \in Clusters : d # c => mem'[d] = mem[d]
  <2>1. CASE mem' = mem
    BY <2>1 DEF TypeInv, TypeOK
  <2>2. CASE mem' = [mem EXCEPT ![c].assign[i] = n, ![c].manual = @ \cup {n}]
    BY <1>2, <2>2, FailoverMemType
  <2> QED
    BY <1>1, <2>1, <2>2
<1>6. pod' \in [Clusters -> [IPs -> Pod]] /\ faults' \in [FaultKinds -> Nat]
  <2>1. CASE ConfigureIPOnNode(c, i, n, NoPod)
    BY <1>2, <2>1, ConfigureType
  <2>2. CASE Spend("kube") /\ pod' = [pod EXCEPT ![c][i] = Terminated(@)]
    <3>1. pod' = [pod EXCEPT ![c][i] = Terminated(pod[c][i])]
      BY <1>2, <2>2
    <3> QED
      BY <1>2, <2>2, <3>1, TerminatedType, PodType, SpendType DEF FaultKinds
  <2>3. CASE pod' = [pod EXCEPT ![c][i] = NoPod] /\ UNCHANGED faults
    BY <1>2, <2>3, PodType DEF TypeInv, TypeOK
  <2>4. CASE (Spend("kube") \/ Spend("cloud")) /\ UNCHANGED pod
    BY <2>4, SpendType DEF FaultKinds, TypeInv, TypeOK
  <2> QED
    BY <1>1, <2>1, <2>2, <2>3, <2>4
<1>7. UNCHANGED <<svc, up, named, tags>>
  BY DEF FailoverIP
<1> QED
  BY <1>3, <1>4, <1>5, <1>6, <1>7, CCMType DEF TypeInv, TypeOK

LEMMA EndType ==
  ASSUME TypeInv, NEW c \in Clusters, Shutdown(c) \/ Crash(c)
  PROVE  TypeInv'
<1>1. AtRest("down") \in Job /\ JobGood(AtRest("down"))
  BY RestType
<1>2. mem' = [mem EXCEPT ![c] = Blank] /\ SetJob(c, AtRest("down"))
  BY DEF Shutdown, Crash
<1>3. mem' \in [Clusters -> Memory] /\ mem'[c] = Blank /\ \A d \in Clusters : d # c => mem'[d] = mem[d]
  BY <1>2, BlankType DEF TypeInv, TypeOK
<1>4. tags' \in [TagNames -> SUBSET IPs]
  BY DEF Shutdown, Crash, Untag, TypeInv, TypeOK
<1>5. faults' \in [FaultKinds -> Nat]
  BY SpendType DEF Shutdown, Crash, FaultKinds
<1>6. UNCHANGED <<svc, up, named, pod, nic>>
  BY DEF Shutdown, Crash
<1> QED
  BY <1>1, <1>2, <1>3, <1>4, <1>5, <1>6, CCMType DEF TypeInv, TypeOK

LEMMA ServiceType ==
  ASSUME TypeInv, NEW s \in Services, CreateService(s) \/ DeleteService(s)
  PROVE  TypeInv'
<1>1. svc' \in [Services -> Service]
  <2>1. \A b \in BOOLEAN : [exists |-> b, ingress |-> None] \in Service
    BY DEF Service, MaybeIP
  <2> QED
    BY <2>1 DEF CreateService, DeleteService, TypeInv, TypeOK
<1>2. faults' \in [FaultKinds -> Nat]
  BY SpendType DEF CreateService, DeleteService, FaultKinds, Spend
<1>3. UNCHANGED <<up, named, pod, nic, tags, mem>>
  BY DEF CreateService, DeleteService
<1>4. /\ job' \in [Clusters -> Job]
      /\ \A c \in Clusters : JobGood(job'[c]) /\ job'[c].pc = job[c].pc
  <2>1. CASE UNCHANGED job
    BY <2>1 DEF TypeInv, TypeOK
  <2>2. CASE DeleteService(s)
    <3> DEFINE c == ClusterOf[s]
               S == IF job[c].pc \in {"down", "idle"} THEN {} ELSE job[c].stale \cup {s}
               j == [job[c] EXCEPT !.stale = S]
    <3>1. c \in Clusters
      BY LBAssumption
    <3>2. S \in SUBSET Services
      BY <3>1, Parts
    <3>3. job' = [job EXCEPT ![c] = j]
      BY <2>2 DEF DeleteService
    <3> HIDE DEF c, S
    <3>4. j \in Job
      BY <3>1, <3>2, Parts, JobType
    <3>5. JobGood(j) /\ j.pc = job[c].pc
      BY <3>1, Parts DEF JobGood, Job
    <3> HIDE DEF j
    <3> QED
      BY <3>1, <3>3, <3>4, <3>5 DEF TypeInv, TypeOK
  <2> QED
    BY <2>1, <2>2 DEF CreateService
<1> QED
  BY <1>1, <1>2, <1>3, <1>4 DEF TypeInv, TypeOK, At

LEMMA NodeType ==
  ASSUME TypeInv, NEW n \in Nodes, NodeFails(n) \/ NodeRecovers(n) \/ NodeNamed(n)
  PROVE  TypeInv'
<1>1. faults' \in [FaultKinds -> Nat]
  BY SpendType DEF NodeFails, NodeRecovers, NodeNamed, FaultKinds
<1>2. up' \subseteq Nodes /\ named' \subseteq Nodes
  BY DEF NodeFails, NodeRecovers, NodeNamed, TypeInv, TypeOK
<1>3. UNCHANGED <<svc, pod, nic, tags, mem, job>>
  BY DEF NodeFails, NodeRecovers, NodeNamed
<1> QED
  BY <1>1, <1>2, <1>3 DEF TypeInv, TypeOK, At

LEMMA PodGoneType ==
  ASSUME TypeInv, NEW c \in Clusters, NEW i \in IPs, PodGone(c, i)
  PROVE  TypeInv'
<1>1. NoPod \in Pod
  BY DEF NoPod, Pod, MaybeNode
<1>2. pod' \in [Clusters -> [IPs -> Pod]]
  BY <1>1, PodType DEF PodGone
<1> QED
  BY <1>2 DEF PodGone, TypeInv, TypeOK, At

LEMMA NextType == TypeInv /\ [Next]_vars => TypeInv'
<1> SUFFICES ASSUME TypeInv, [Next]_vars PROVE TypeInv'
  OBVIOUS
<1>1. ASSUME NEW c \in Clusters, SyncStep(c) PROVE TypeInv'
  BY <1>1, ReleaseType, ReleasedType, ExistingType, AssignedType, AllocateType, AssignType, TagsType,
     ConfigureStepType, StatusType, CheckType, FailoverType DEF SyncStep
<1>2. CASE UNCHANGED vars
  BY <1>2 DEF vars, TypeInv, TypeOK, At
<1> QED
  BY <1>1, <1>2, StartType, DiscoverType, SyncType, EndType, PodGoneType, ServiceType, NodeType DEF Next

(* TypeOK holds in every reachable state, for any clusters, services,       *)
(* nodes, IPs and faults of the LoadBalancer controllers.                   *)
THEOREM TypeCorrect == Spec => []TypeOK
<1>1. Spec => []TypeInv
  BY InitType, NextType, PTL DEF Spec
<1>2. TypeInv => TypeOK
  BY DEF TypeInv
<1> QED
  BY <1>1, <1>2, PTL
=============================================================================
