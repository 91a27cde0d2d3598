---------------------- MODULE LoadBalancerSafetyProofs ----------------------
(* The IP pool of one cluster whose CCM may crash at any time: the tags     *)
(* protect what its memory forgets.  And, for any clusters, that a service  *)
(* keeps its IP.                                                            *)
EXTENDS LoadBalancerProofs

(* One cluster uses the account, its nodes have their UUIDs, requests for   *)
(* tags succeed, and no graceful stop removes tags of IPs in use.  The      *)
(* theorems fail without any of these.                                      *)
CrashOnly ==
    /\ \A c, d \in Clusters : c = d
    /\ Unnamed = {}
    /\ Limit["tag"] = 0 /\ Limit["stop"] = 0

-----------------------------------------------------------------------------
(* The inductive invariant.  A service has a claim on an IP if its status   *)
(* shows it, serviceIPs has it, or the sync in progress has read or         *)
(* allocated it.                                                            *)
Claims(c, s, i) ==
    \/ svc[s].ingress = i
    \/ mem[c].svcIP[s] = i
    \/ s \in job[c].todo /\ job[c].snap[s] = i
    \/ job[c].cur = s /\ job[c].ip = i

ClaimsExclusive ==
    \A c \in Clusters : \A s, t \in Services : \A i \in IPs :
        Claims(c, s, i) /\ Claims(c, t, i) => s = t

(* What a status shows is tagged, and so is what the CCM knows, unless it   *)
(* is about to tag it.                                                      *)
ShownTagged ==
    \A s \in Services : \A i \in IPs : svc[s].ingress = i => i \in tags[TagOf[s]]

KnownTagged ==
    \A c \in Clusters : \A s \in Services : \A i \in IPs :
        /\ s \in job[c].todo /\ job[c].snap[s] = i => i \in tags[TagOf[s]]
        /\ mem[c].svcIP[s] = i =>
             \/ i \in tags[TagOf[s]]
             \/ job[c].pc \in {"clean", "tag"} /\ job[c].cur = s /\ job[c].ip = i
        /\ job[c].cur = s /\ job[c].ip = i =>
             i \in tags[TagOf[s]] \/ job[c].pc \in {"assign", "clean", "tag"}

(* A sync works on services that exist, or were deleted since it listed     *)
(* them; a service it did not list shows nothing before it is done with     *)
(* releasing; and it has a node.                                            *)
Busy(c) == job[c].pc \notin {"down", "idle"}

Existing ==
    /\ \A s \in Services : ~svc[s].exists => svc[s].ingress = None
    /\ \A c \in Clusters : Busy(c) =>
         \A s \in Services :
             (s \in job[c].todo \/ job[c].cur = s) /\ s \notin job[c].stale => svc[s].exists

Unlisted ==
    \A c \in Clusters : job[c].pc = "release" =>
        \A s \in Services : s \notin job[c].todo => svc[s].ingress = None

NodesNamed ==
    named = Nodes /\ \A c \in Clusters : Busy(c) => job[c].first # None

PoolInv == ClaimsExclusive /\ ShownTagged /\ KnownTagged /\ Existing /\ Unlisted /\ NodesNamed

-----------------------------------------------------------------------------
LEMMA InitPool == ASSUME CrashOnly PROVE Init => PoolInv
<1> SUFFICES ASSUME Init PROVE PoolInv
  OBVIOUS
<1>0. None \notin IPs /\ None \notin Services
  BY LBAssumption
<1>1. \A c \in Clusters : /\ job[c].pc = "down" /\ job[c].todo = {} /\ job[c].cur = None
                          /\ \A s \in Services : mem[c].svcIP[s] = None
  BY DEF Init, AtRest, Blank
<1>2. \A s \in Services : svc[s].ingress = None
  BY DEF Init
<1>3. named = Nodes
  BY DEF Init, CrashOnly
<1>4. ClaimsExclusive /\ ShownTagged /\ KnownTagged
  BY <1>0, <1>1, <1>2 DEF ClaimsExclusive, Claims, ShownTagged, KnownTagged
<1>5. Existing /\ Unlisted /\ NodesNamed
  BY <1>1, <1>2, <1>3 DEF Existing, Unlisted, NodesNamed, Busy
<1> QED
  BY <1>4, <1>5 DEF PoolInv

(* Steps after which nobody has a new claim, no tag has lost an IP, and the *)
(* sync has not left the points where an IP may be untagged.                *)
LEMMA QuietPool ==
  ASSUME CrashOnly, TypeInv, PoolInv, NEW c \in Clusters,
         \A t \in TagNames : tags[t] \subseteq tags'[t],
         named' = named,
         \A s \in Services : /\ svc'[s].ingress = svc[s].ingress \/ svc'[s].ingress = None
                             /\ ~svc'[s].exists => svc'[s].ingress = None
                             /\ mem'[c].svcIP[s] = mem[c].svcIP[s] \/ mem'[c].svcIP[s] = None,
         \/ job'[c].todo = {}
         \/ job'[c].todo \subseteq job[c].todo /\ job'[c].snap = job[c].snap,
         \/ job'[c].cur = None
         \/ /\ job'[c].cur = job[c].cur /\ job'[c].ip = job[c].ip
            /\ job'[c].pc = job[c].pc \/ job[c].pc \notin {"assign", "clean", "tag"},
         \/ \A s \in Services : mem'[c].svcIP[s] = None
         \/ job[c].pc \notin {"clean", "tag"}
         \/ job'[c].pc = job[c].pc /\ job'[c].cur = job[c].cur /\ job'[c].ip = job[c].ip,
         Busy(c)' => /\ Busy(c) /\ job'[c].first = job[c].first /\ job[c].stale \subseteq job'[c].stale
                     /\ \A s \in Services : svc[s].exists /\ s \notin job'[c].stale => svc'[s].exists,
         job'[c].pc = "release" => job[c].pc = "release" /\ job'[c].todo = job[c].todo
  PROVE  PoolInv'
<1>0. /\ None \notin IPs /\ None \notin Services
      /\ \A d \in Clusters : d = c
      /\ \A s \in Services : TagOf[s] \in TagNames
  BY LBAssumption DEF CrashOnly, TagNames
<1>1. \A s \in Services : \A i \in IPs : Claims(c, s, i)' => Claims(c, s, i)
  BY <1>0 DEF Claims
<1>2. ClaimsExclusive'
  BY <1>0, <1>1 DEF ClaimsExclusive, PoolInv
<1>3. ShownTagged'
  BY <1>0 DEF ShownTagged, PoolInv
<1>4. KnownTagged'
  <2> SUFFICES ASSUME NEW s \in Services, NEW i \in IPs
               PROVE  /\ s \in job'[c].todo /\ job'[c].snap[s] = i => i \in tags'[TagOf[s]]
                      /\ mem'[c].svcIP[s] = i =>
                           \/ i \in tags'[TagOf[s]]
                           \/ job'[c].pc \in {"clean", "tag"} /\ job'[c].cur = s /\ job'[c].ip = i
                      /\ job'[c].cur = s /\ job'[c].ip = i =>
                           i \in tags'[TagOf[s]] \/ job'[c].pc \in {"assign", "clean", "tag"}
    BY <1>0 DEF KnownTagged
  <2>1. i \in tags[TagOf[s]] => i \in tags'[TagOf[s]]
    BY <1>0
  <2>2. KnownTagged
    BY DEF PoolInv
  <2>3. s \in job'[c].todo /\ job'[c].snap[s] = i => i \in tags'[TagOf[s]]
    BY <2>1, <2>2 DEF KnownTagged
  <2>4. mem'[c].svcIP[s] = i =>
          \/ i \in tags'[TagOf[s]]
          \/ job'[c].pc \in {"clean", "tag"} /\ job'[c].cur = s /\ job'[c].ip = i
    BY <1>0, <2>1, <2>2 DEF KnownTagged
  <2>5. job'[c].cur = s /\ job'[c].ip = i =>
          i \in tags'[TagOf[s]] \/ job'[c].pc \in {"assign", "clean", "tag"}
    BY <1>0, <2>1, <2>2 DEF KnownTagged
  <2> QED
    BY <2>3, <2>4, <2>5
<1>5. Existing'
  BY <1>0 DEF Existing, PoolInv
<1>6. Unlisted' /\ NodesNamed'
  BY <1>0 DEF Unlisted, NodesNamed, PoolInv
<1> QED
  BY <1>2, <1>3, <1>4, <1>5, <1>6 DEF PoolInv

(* Requests for tags do not fail, and the process is not told to stop. *)
LEMMA NoTagFaults ==
  ASSUME CrashOnly, TypeInv
  PROVE  ~Spend("tag") /\ ~Spend("stop")
<1>1. faults["tag"] \in Nat /\ faults["stop"] \in Nat
  BY DEF TypeInv, TypeOK, FaultKinds
<1> QED
  BY <1>1 DEF CrashOnly, Spend

(* Actions of the environment. *)
LEMMA EnvPool ==
  ASSUME CrashOnly, TypeInv, PoolInv,
         \/ \E c \in Clusters, i \in IPs : PodGone(c, i)
         \/ \E n \in Nodes : NodeFails(n) \/ NodeRecovers(n) \/ NodeNamed(n)
  PROVE  PoolInv'
<1>1. UNCHANGED <<svc, tags, mem, job>>
  BY DEF PodGone, NodeFails, NodeRecovers, NodeNamed
<1>2. named' = named
  BY DEF PodGone, NodeFails, NodeRecovers, NodeNamed, PoolInv, NodesNamed
<1> QED
  BY <1>1, <1>2 DEF PoolInv, ClaimsExclusive, Claims, ShownTagged, KnownTagged, Existing, Busy,
                    Unlisted, NodesNamed

LEMMA ServicePool ==
  ASSUME CrashOnly, TypeInv, PoolInv, NEW s \in Services, CreateService(s) \/ DeleteService(s)
  PROVE  PoolInv'
<1> DEFINE c == ClusterOf[s]
<1>0. c \in Clusters /\ \A d \in Clusters : d = c
  BY LBAssumption DEF CrashOnly
<1>1. /\ UNCHANGED <<tags, mem, named>>
      /\ \A t \in TagNames : tags[t] \subseteq tags'[t]
  BY DEF CreateService, DeleteService
<1>2. /\ svc'[s].ingress = None
      /\ \A t \in Services : t # s => svc'[t] = svc[t]
  BY DEF CreateService, DeleteService, TypeInv, TypeOK
<1>3. \A t \in Services : ~svc[t].exists => svc[t].ingress = None
  BY DEF PoolInv, Existing
<1>4. /\ job'[c].todo = job[c].todo /\ job'[c].snap = job[c].snap /\ job'[c].cur = job[c].cur
      /\ job'[c].ip = job[c].ip /\ job'[c].pc = job[c].pc /\ job'[c].first = job[c].first
      /\ Busy(c) => job[c].stale \subseteq job'[c].stale
      /\ Busy(c) => \A t \in Services : svc[t].exists /\ t \notin job'[c].stale => svc'[t].exists
  <2>1. CASE CreateService(s)
    BY <1>2, <2>1 DEF CreateService, TypeInv, TypeOK, Busy
  <2>2. CASE DeleteService(s)
    <3>1. job[c] \in Job /\ job \in [Clusters -> Job]
      BY <1>0 DEF TypeInv, TypeOK
    <3>2. job'[c] = [job[c] EXCEPT !.stale = IF job[c].pc \in {"down", "idle"} THEN {} ELSE @ \cup {s}]
      BY <1>0, <2>2, <3>1 DEF DeleteService
    <3> HIDE DEF c
    <3> QED
      BY <1>2, <3>1, <3>2 DEF Job, Busy
  <2> QED
    BY <2>1, <2>2
<1> HIDE DEF c
<1>5. Busy(c)' => Busy(c)
  BY <1>4 DEF Busy
<1> QED
  BY <1>0, <1>1, <1>2, <1>3, <1>4, <1>5, QuietPool

LEMMA DiscoverPool ==
  ASSUME CrashOnly, TypeInv, PoolInv, NEW c \in Clusters, DiscoverOwnedIPs(c)
  PROVE  PoolInv'
<1>1. UNCHANGED <<svc, named, tags, job>>
  BY DEF DiscoverOwnedIPs
<1>2. mem'[c].svcIP = mem[c].svcIP
  BY DEF DiscoverOwnedIPs, TypeInv, TypeOK, Memory
<1>3. \A d \in Clusters : d = c
  BY DEF CrashOnly
<1> QED
  BY <1>1, <1>2, <1>3 DEF PoolInv, ClaimsExclusive, Claims, ShownTagged, KnownTagged, Existing, Busy,
                    Unlisted, NodesNamed

(* A CCM that has ended, or ended its sync, claims nothing but what its     *)
(* memory holds.                                                            *)
LEMMA RestPool ==
  ASSUME CrashOnly, TypeInv, PoolInv, NEW c \in Clusters, NEW l \in {"down", "idle"},
         SetJob(c, AtRest(l)), UNCHANGED <<svc, named, tags>>,
         \/ \A s \in Services : mem'[c].svcIP[s] = None
         \/ mem'[c].svcIP = mem[c].svcIP /\ job[c].pc \notin {"clean", "tag"}
  PROVE  PoolInv'
<1>1. /\ job'[c].todo = {} /\ job'[c].cur = None /\ job'[c].pc = l
  BY DEF SetJob, AtRest, TypeInv, TypeOK
<1>2. ~Busy(c)'
  BY <1>1 DEF Busy
<1>3. /\ \A t \in TagNames : tags[t] \subseteq tags'[t]
      /\ \A s \in Services : ~svc'[s].exists => svc'[s].ingress = None
  BY DEF PoolInv, Existing
<1>4. job'[c].pc # "release"
  BY <1>1
<1> QED
  BY <1>1, <1>2, <1>3, <1>4, QuietPool

LEMMA EndPool ==
  ASSUME CrashOnly, TypeInv, PoolInv, NEW c \in Clusters, Shutdown(c) \/ Crash(c)
  PROVE  PoolInv'
<1>1. Crash(c)
  BY NoTagFaults DEF Shutdown
<1>2. \A s \in Services : mem'[c].svcIP[s] = None
  BY <1>1 DEF Crash, Blank, TypeInv, TypeOK
<1>3. SetJob(c, AtRest("down")) /\ UNCHANGED <<svc, named, tags>>
  BY <1>1 DEF Crash
<1> QED
  BY <1>2, <1>3, RestPool

(* The sync moves on, holding what it held or nothing. *)
LEMMA MovePool ==
  ASSUME CrashOnly, TypeInv, PoolInv, NEW c \in Clusters, Busy(c),
         UNCHANGED <<svc, named, tags>>, mem'[c].svcIP = mem[c].svcIP,
         job'[c].todo \subseteq job[c].todo, job'[c].snap = job[c].snap,
         job'[c].stale = job[c].stale, job'[c].first = job[c].first,
         job'[c].cur = None \/ (job'[c].cur = job[c].cur /\ job'[c].ip = job[c].ip),
         job[c].pc \notin {"clean", "tag"},
         job[c].pc = "assign" => job'[c].cur = None,
         job'[c].pc # "release"
  PROVE  PoolInv'
<1>1. /\ \A t \in TagNames : tags[t] \subseteq tags'[t]
      /\ \A s \in Services : ~svc'[s].exists => svc'[s].ingress = None
  BY DEF PoolInv, Existing
<1> QED
  BY <1>1, QuietPool

LEMMA ReleasedPool ==
  ASSUME CrashOnly, TypeInv, PoolInv, NEW c \in Clusters, Released(c)
  PROVE  PoolInv'
<1>1. job[c] \in Job /\ job[c].pc = "release" /\ job'[c] = [job[c] EXCEPT !.pc = "services"]
  BY DEF Released, SetJob, At, TypeInv, TypeOK
<1>2. UNCHANGED <<svc, named, tags, mem>> /\ Busy(c)
  BY <1>1 DEF Released, Busy
<1> QED
  BY <1>1, <1>2, MovePool DEF Job

LEMMA ConfigurePool ==
  ASSUME CrashOnly, TypeInv, PoolInv, NEW c \in Clusters, Configure(c)
  PROVE  PoolInv'
<1>1. job[c] \in Job /\ job[c].pc = "configure" /\ job'[c] = [job[c] EXCEPT !.pc = "status"]
  BY DEF Configure, SetJob, At, TypeInv, TypeOK
<1>2. UNCHANGED <<svc, named, tags, mem>> /\ Busy(c)
  BY <1>1 DEF Configure, Busy
<1> QED
  BY <1>1, <1>2, MovePool DEF Job

LEMMA CheckPool ==
  ASSUME CrashOnly, TypeInv, PoolInv, NEW c \in Clusters, CheckIPFailover(c)
  PROVE  PoolInv'
<1>1. /\ job[c] \in Job /\ job[c].pc = "services" /\ Busy(c)
      /\ UNCHANGED <<svc, named, tags, mem>>
  BY DEF CheckIPFailover, At, TypeInv, TypeOK, Busy
<1>2. CASE SetJob(c, AtRest("idle"))
  BY <1>1, <1>2, RestPool
<1>3. CASE SetJob(c, [job[c] EXCEPT !.pc = "failover", !.ips = Misplaced(c)])
  <2>1. job'[c] = [job[c] EXCEPT !.pc = "failover", !.ips = Misplaced(c)]
    BY <1>3 DEF SetJob, TypeInv, TypeOK
  <2> QED
    BY <1>1, <2>1, MovePool DEF Job
<1> QED
  BY <1>2, <1>3 DEF CheckIPFailover

LEMMA FailoverPool ==
  ASSUME CrashOnly, TypeInv, PoolInv, NEW c \in Clusters, FailoverIP(c)
  PROVE  PoolInv'
<1>1. /\ job[c] \in Job /\ job[c].pc = "failover" /\ Busy(c)
      /\ UNCHANGED <<svc, named, tags>>
  BY DEF FailoverIP, At, TypeInv, TypeOK, Busy
<1>2. \E ips : SetJob(c, AtRest("idle")) \/ SetJob(c, [job[c] EXCEPT !.ips = ips])
  BY DEF FailoverIP
<1>3. mem'[c].svcIP = mem[c].svcIP
  <2>1. \/ mem' = mem
        \/ \E i \in IPs, n \in Nodes : mem' = [mem EXCEPT ![c].assign[i] = n, ![c].manual = @ \cup {n}]
    BY Parts DEF FailoverIP, At, JobGood
  <2> QED
    BY <2>1 DEF TypeInv, TypeOK, Memory
<1>4. CASE SetJob(c, AtRest("idle"))
  BY <1>1, <1>3, <1>4, RestPool
<1>5. ASSUME NEW ips, SetJob(c, [job[c] EXCEPT !.ips = ips]) PROVE PoolInv'
  <2>1. job'[c] = [job[c] EXCEPT !.ips = ips]
    BY <1>5 DEF SetJob, TypeInv, TypeOK
  <2> QED
    BY <1>1, <1>3, <2>1, MovePool DEF Job
<1> QED
  BY <1>2, <1>4, <1>5

-----------------------------------------------------------------------------
(* Actions that make new claims or touch tags. *)

(* Start recovers what the services show. *)
LEMMA StartPool ==
  ASSUME CrashOnly, TypeInv, PoolInv, NEW c \in Clusters, Start(c)
  PROVE  PoolInv'
<1>0. None \notin IPs /\ None \notin Services /\ \A d \in Clusters : d = c
  BY LBAssumption DEF CrashOnly
<1>1. UNCHANGED <<svc, named, tags>> /\ SetJob(c, AtRest("idle"))
  BY DEF Start
<1>2. job'[c].todo = {} /\ job'[c].cur = None /\ job'[c].pc = "idle"
  BY <1>1 DEF SetJob, AtRest, TypeInv, TypeOK
<1>3. \A s \in Services : mem'[c].svcIP[s] = None \/ mem'[c].svcIP[s] = svc[s].ingress
  <2>1. \/ mem'[c] = Blank
        \/ mem'[c] = [Blank EXCEPT !.pool = IPs]
        \/ mem'[c] = [Blank EXCEPT !.pool = IPs, !.svcIP = RecoverServiceState(c, IPs)]
    BY DEF Start, TypeInv, TypeOK
  <2>2. \/ mem'[c].svcIP = [s \in Services |-> None]
        \/ mem'[c].svcIP = RecoverServiceState(c, IPs)
    <3>1. /\ Blank.svcIP = [s \in Services |-> None]
          /\ [Blank EXCEPT !.pool = IPs].svcIP = Blank.svcIP
          /\ \A r : [Blank EXCEPT !.pool = IPs, !.svcIP = r].svcIP = r
      BY DEF Blank
    <3> QED
      BY <2>1, <3>1
  <2>3. \A s \in Services : \/ RecoverServiceState(c, IPs)[s] = None
                           \/ RecoverServiceState(c, IPs)[s] = svc[s].ingress
    BY DEF RecoverServiceState
  <2> QED
    BY <2>2, <2>3
<1>4. \A s \in Services : \A i \in IPs : Claims(c, s, i)' => Claims(c, s, i)
  BY <1>0, <1>1, <1>2, <1>3 DEF Claims
<1>5. ClaimsExclusive'
  BY <1>0, <1>4 DEF ClaimsExclusive, PoolInv
<1>6. ShownTagged' /\ KnownTagged'
  BY <1>0, <1>1, <1>2, <1>3 DEF ShownTagged, KnownTagged, PoolInv
<1>7. Existing' /\ Unlisted' /\ NodesNamed'
  BY <1>0, <1>1, <1>2 DEF Existing, Unlisted, NodesNamed, Busy, PoolInv
<1> QED
  BY <1>5, <1>6, <1>7 DEF PoolInv

(* A sync begins with what the services show. *)
LEMMA SyncPool ==
  ASSUME CrashOnly, TypeInv, PoolInv, NEW c \in Clusters, Sync(c)
  PROVE  PoolInv'
<1>0. None \notin IPs /\ None \notin Services /\ None \notin Nodes /\ \A d \in Clusters : d = c
  BY LBAssumption DEF CrashOnly
<1>1. UNCHANGED <<svc, named, tags, mem>> /\ job[c].pc = "idle"
  BY DEF Sync, At
<1>2. /\ job'[c].todo = ServicesOf(c) /\ job'[c].pc = "release" /\ job'[c].cur = None
      /\ job'[c].first # None
      /\ \A s \in ServicesOf(c) : job'[c].snap[s] = svc[s].ingress
  <2>1. PICK n \in up \cap NodesOf(c) :
          SetJob(c, [AtRest("release") EXCEPT
                       !.todo = ServicesOf(c),
                       !.snap = [s \in Services |->
                                   IF s \in ServicesOf(c) THEN svc[s].ingress ELSE None],
                       !.first = IF n \in named THEN n ELSE None,
                       !.uuids = (up \cap NodesOf(c)) \cap named])
    BY DEF Sync
  <2>2. n \in named /\ n # None
    BY <1>0 DEF TypeInv, TypeOK, PoolInv, NodesNamed
  <2> QED
    BY <2>1, <2>2 DEF SetJob, AtRest, ServicesOf, TypeInv, TypeOK
<1>3. \A s \in Services : s \in ServicesOf(c) <=> svc[s].exists
  BY <1>0, LBAssumption DEF ServicesOf
<1>4. \A s \in Services : \A i \in IPs : Claims(c, s, i)' => Claims(c, s, i)
  BY <1>0, <1>1, <1>2 DEF Claims
<1>5. ClaimsExclusive'
  BY <1>0, <1>4 DEF ClaimsExclusive, PoolInv
<1>6. ShownTagged' /\ KnownTagged'
  BY <1>0, <1>1, <1>2, <1>3 DEF ShownTagged, KnownTagged, PoolInv
<1>7. Existing' /\ Unlisted' /\ NodesNamed'
  BY <1>0, <1>1, <1>2, <1>3 DEF Existing, Unlisted, NodesNamed, Busy, PoolInv
<1> QED
  BY <1>5, <1>6, <1>7 DEF PoolInv

(* A released IP loses all its tags: nobody but the service that is gone    *)
(* had a claim on it.                                                       *)
LEMMA ReleasePool ==
  ASSUME CrashOnly, TypeInv, PoolInv, NEW c \in Clusters, ReleaseIP(c)
  PROVE  PoolInv'
<1>0. /\ None \notin IPs /\ None \notin Services /\ \A d \in Clusters : d = c
      /\ \A s \in Services : TagOf[s] \in TagNames
  BY LBAssumption DEF CrashOnly, TagNames
<1>1. PICK s \in Gone(c) :
        /\ tags' = Untag({mem[c].svcIP[s]})
        /\ mem' = [mem EXCEPT ![c].svcIP[s] = None, ![c].assign[mem[c].svcIP[s]] = None]
  BY NoTagFaults DEF ReleaseIP
<1> DEFINE ip == mem[c].svcIP[s]
<1>2. s \in Services /\ ip \in IPs /\ s \notin job[c].todo
  BY Parts DEF Gone, MaybeIP
<1>3. UNCHANGED <<svc, named, job>> /\ job[c].pc = "release" /\ job[c].cur = None
  BY Parts DEF ReleaseIP, At, JobGood
<1>4. mem'[c].svcIP[s] = None /\ \A t \in Services : t # s => mem'[c].svcIP[t] = mem[c].svcIP[t]
  BY <1>1, <1>2 DEF TypeInv, TypeOK, Memory
<1>5. \A t \in Services : tags'[TagOf[t]] = tags[TagOf[t]] \ {ip}
  BY <1>0, <1>1 DEF Untag
<1>6. svc[s].ingress = None
  BY <1>2, <1>3 DEF PoolInv, Unlisted
<1>7. \A t \in Services : \A i \in IPs : Claims(c, t, i)' => Claims(c, t, i) /\ i # ip
  <2> SUFFICES ASSUME NEW t \in Services, NEW i \in IPs, Claims(c, t, i)'
               PROVE  Claims(c, t, i) /\ i # ip
    OBVIOUS
  <2>1. Claims(c, t, i)
    BY <1>0, <1>3, <1>4 DEF Claims
  <2>2. t # s
    BY <1>0, <1>2, <1>3, <1>4, <1>6 DEF Claims
  <2>3. Claims(c, s, ip)
    BY DEF Claims
  <2> QED
    BY <1>2, <2>1, <2>2, <2>3 DEF PoolInv, ClaimsExclusive
<1>8. ClaimsExclusive'
  BY <1>0, <1>7 DEF ClaimsExclusive, PoolInv
<1> HIDE DEF ip
<1>9. ShownTagged' /\ KnownTagged'
  <2>1. \A t \in Services : \A i \in IPs : Claims(c, t, i)' => i \in tags'[TagOf[t]]
    <3> SUFFICES ASSUME NEW t \in Services, NEW i \in IPs, Claims(c, t, i)'
                 PROVE  i \in tags[TagOf[t]]
      BY <1>5, <1>7
    <3>1. Claims(c, t, i)
      BY <1>7
    <3> QED
      BY <1>0, <1>3, <3>1 DEF Claims, PoolInv, ShownTagged, KnownTagged
  <2> QED
    BY <1>0, <2>1 DEF ShownTagged, KnownTagged, Claims
<1>10. Existing' /\ Unlisted' /\ NodesNamed'
  BY <1>0, <1>3 DEF Existing, Unlisted, NodesNamed, Busy, PoolInv
<1> QED
  BY <1>8, <1>9, <1>10 DEF PoolInv

(* What every step of the sync that takes up a service s and an IP i it     *)
(* already claims leaves as it should be.                                   *)
LEMMA TakePool ==
  ASSUME CrashOnly, TypeInv, PoolInv, NEW c \in Clusters, NEW s \in job[c].todo, NEW i \in IPs,
         job[c].pc = "services", i \in tags[TagOf[s]], Claims(c, s, i),
         NEW l \in {"clean", "status"},
         SetJob(c, [job[c] EXCEPT !.todo = @ \ {s}, !.pc = l, !.cur = s, !.ip = i]),
         \A t \in Services : mem'[c].svcIP[t] = mem[c].svcIP[t] \/ (t = s /\ mem'[c].svcIP[t] = i),
         UNCHANGED <<svc, named, tags>>
  PROVE  PoolInv'
<1>0. None \notin IPs /\ None \notin Services /\ s \in Services /\ \A d \in Clusters : d = c
  BY LBAssumption, Parts DEF CrashOnly
<1>1. /\ job'[c].todo = job[c].todo \ {s} /\ job'[c].pc = l /\ job'[c].cur = s /\ job'[c].ip = i
      /\ job'[c].snap = job[c].snap /\ job'[c].stale = job[c].stale /\ job'[c].first = job[c].first
  BY DEF SetJob, Job, TypeInv, TypeOK
<1>2. \A t \in Services : \A k \in IPs : Claims(c, t, k)' => Claims(c, t, k)
  BY <1>0, <1>1 DEF Claims
<1>3. ClaimsExclusive'
  BY <1>0, <1>2 DEF ClaimsExclusive, PoolInv
<1>4. ShownTagged' /\ KnownTagged'
  BY <1>0, <1>1 DEF ShownTagged, KnownTagged, PoolInv
<1>5. Existing' /\ Unlisted' /\ NodesNamed'
  BY <1>0, <1>1 DEF Existing, Unlisted, NodesNamed, Busy, PoolInv
<1> QED
  BY <1>3, <1>4, <1>5 DEF PoolInv

LEMMA ExistingPool ==
  ASSUME CrashOnly, TypeInv, PoolInv, NEW c \in Clusters, ReconcileExisting(c)
  PROVE  PoolInv'
<1>1. PICK s \in job[c].todo :
        LET ip      == job[c].snap[s]
            tracked == mem[c].assign[ip] # None
            node    == IF tracked THEN mem[c].assign[ip] ELSE job[c].first
        IN  /\ ShowsPoolIP(c, s)
            /\ mem' = IF tracked \/ node = None THEN mem
                      ELSE [mem EXCEPT ![c].assign[ip] = node, ![c].svcIP[s] = ip]
            /\ SetJob(c, IF node = None THEN [job[c] EXCEPT !.todo = @ \ {s}]
                         ELSE [job[c] EXCEPT !.todo = @ \ {s}, !.pc = "clean",
                                             !.cur = s, !.ip = ip])
  BY DEF ReconcileExisting
<1> DEFINE ip == job[c].snap[s]
           node == IF mem[c].assign[ip] # None THEN mem[c].assign[ip] ELSE job[c].first
<1>2. s \in Services /\ ip \in IPs /\ job[c].pc = "services" /\ UNCHANGED <<svc, named, tags>>
  BY <1>1, Parts DEF ShowsPoolIP, ReconcileExisting, At
<1>3. node # None
  BY <1>2 DEF PoolInv, NodesNamed, Busy
<1>4. SetJob(c, [job[c] EXCEPT !.todo = @ \ {s}, !.pc = "clean", !.cur = s, !.ip = ip])
  BY <1>1, <1>3
<1>5. mem' = mem \/ mem' = [mem EXCEPT ![c].assign[ip] = node, ![c].svcIP[s] = ip]
  BY <1>1
<1>6. Claims(c, s, ip) /\ ip \in tags[TagOf[s]]
  BY <1>2 DEF Claims, PoolInv, KnownTagged
<1> HIDE DEF ip, node
<1>7. \A t \in Services : mem'[c].svcIP[t] = mem[c].svcIP[t] \/ (t = s /\ mem'[c].svcIP[t] = ip)
  BY <1>2, <1>5 DEF TypeInv, TypeOK, Memory
<1> QED
  BY <1>2, <1>4, <1>6, <1>7, TakePool, ZenonT(40)

LEMMA AssignedPool ==
  ASSUME CrashOnly, TypeInv, PoolInv, NEW c \in Clusters, ReconcileAssigned(c)
  PROVE  PoolInv'
<1>1. PICK s \in job[c].todo :
        /\ HasIP(c, s)
        /\ SetJob(c, [job[c] EXCEPT !.todo = @ \ {s}, !.pc = "status", !.cur = s,
                                    !.ip = mem[c].svcIP[s]])
  BY DEF ReconcileAssigned
<1> DEFINE ip == mem[c].svcIP[s]
<1>2. /\ s \in Services /\ ip \in IPs /\ job[c].pc = "services"
      /\ UNCHANGED <<svc, named, tags, mem>>
  BY <1>1, Parts DEF HasIP, MaybeIP, ReconcileAssigned, At
<1>3. Claims(c, s, ip) /\ ip \in tags[TagOf[s]]
  BY <1>2 DEF Claims, PoolInv, KnownTagged
<1>4. SetJob(c, [job[c] EXCEPT !.todo = @ \ {s}, !.pc = "status", !.cur = s, !.ip = ip])
  BY <1>1
<1> HIDE DEF ip
<1> QED
  BY <1>2, <1>3, <1>4, TakePool

(* A new IP is on no tag, hence claimed by nobody. *)
LEMMA AllocatePool ==
  ASSUME CrashOnly, TypeInv, PoolInv, NEW c \in Clusters, Allocate(c)
  PROVE  PoolInv'
<1>0. /\ None \notin IPs /\ None \notin Services /\ \A d \in Clusters : d = c
      /\ \A t \in Services : TagOf[t] \in TagNames
  BY LBAssumption DEF CrashOnly, TagNames
<1>1. PICK s \in job[c].todo :
        \/ SetJob(c, [job[c] EXCEPT !.todo = @ \ {s}])
        \/ \E i \in Available(c, s) :
             SetJob(c, [[job[c] EXCEPT !.todo = @ \ {s}] EXCEPT
                          !.cur = s, !.ip = i, !.new = TRUE, !.pc = AfterAllocate(c)])
  BY NoTagFaults DEF Allocate
<1>2. /\ UNCHANGED <<svc, named, tags, mem>> /\ job[c].pc = "services" /\ Busy(c)
      /\ job[c] \in Job /\ job[c].cur = None
  BY Parts DEF Allocate, At, Busy, JobGood
<1>3. CASE SetJob(c, [job[c] EXCEPT !.todo = @ \ {s}])
  <2>1. job'[c] = [job[c] EXCEPT !.todo = @ \ {s}]
    BY <1>3 DEF SetJob, TypeInv, TypeOK
  <2> QED
    BY <1>2, <2>1, MovePool DEF Job
<1>4. ASSUME NEW i \in Available(c, s),
             SetJob(c, [[job[c] EXCEPT !.todo = @ \ {s}] EXCEPT
                          !.cur = s, !.ip = i, !.new = TRUE, !.pc = AfterAllocate(c)])
      PROVE  PoolInv'
  <2>1. s \in Services /\ i \in IPs /\ i \notin Tagged
    BY Parts DEF Available, Unused, PoolFor
  <2>2. AfterAllocate(c) = "assign"
    BY <1>2 DEF AfterAllocate, PoolInv, NodesNamed
  <2>3. /\ job'[c].todo = job[c].todo \ {s} /\ job'[c].pc = "assign"
        /\ job'[c].cur = s /\ job'[c].ip = i
        /\ job'[c].snap = job[c].snap /\ job'[c].stale = job[c].stale /\ job'[c].first = job[c].first
    BY <1>2, <1>4, <2>2 DEF SetJob, Job, TypeInv, TypeOK
  <2>4. \A t \in Services : ~Claims(c, t, i)
    <3> SUFFICES ASSUME NEW t \in Services, Claims(c, t, i) PROVE FALSE
      OBVIOUS
    <3>1. i \in tags[TagOf[t]]
      BY <1>2, <2>1 DEF Claims, PoolInv, ShownTagged, KnownTagged
    <3> QED
      BY <1>0, <2>1, <3>1 DEF Tagged
  <2>5. \A t \in Services : \A k \in IPs : Claims(c, t, k)' => Claims(c, t, k) \/ (t = s /\ k = i)
    BY <1>0, <1>2, <2>3 DEF Claims
  <2>6. ClaimsExclusive'
    BY <1>0, <2>4, <2>5 DEF ClaimsExclusive, PoolInv
  <2>7. ShownTagged' /\ KnownTagged'
    BY <1>0, <1>2, <2>3 DEF ShownTagged, KnownTagged, PoolInv
  <2>8. Existing' /\ Unlisted' /\ NodesNamed'
    BY <1>0, <1>2, <2>3 DEF Existing, Unlisted, NodesNamed, Busy, PoolInv
  <2> QED
    BY <2>6, <2>7, <2>8 DEF PoolInv
<1> QED
  BY <1>1, <1>3, <1>4

LEMMA AssignPool ==
  ASSUME CrashOnly, TypeInv, PoolInv, NEW c \in Clusters, Assign(c)
  PROVE  PoolInv'
<1>0. None \notin IPs /\ None \notin Services /\ \A d \in Clusters : d = c
  BY LBAssumption DEF CrashOnly
<1> DEFINE s == job[c].cur
           i == job[c].ip
           n == job[c].first
<1>1. /\ s \in Services /\ i \in IPs /\ job[c] \in Job /\ job[c].pc = "assign"
      /\ UNCHANGED <<svc, named, tags>>
  BY Parts DEF Assign, At, JobGood
<1>2. CASE /\ mem' = [mem EXCEPT ![c].assign[i] = n, ![c].svcIP[s] = i, ![c].manual = @ \cup {n}]
           /\ SetJob(c, [job[c] EXCEPT !.pc = "clean"])
  <2>1. /\ job'[c].todo = job[c].todo /\ job'[c].pc = "clean"
        /\ job'[c].cur = s /\ job'[c].ip = i
        /\ job'[c].snap = job[c].snap /\ job'[c].stale = job[c].stale /\ job'[c].first = n
    BY <1>1, <1>2 DEF SetJob, Job, TypeInv, TypeOK
  <2>2. Claims(c, s, i)
    BY DEF Claims
  <2> HIDE DEF s, i, n
  <2>3. mem'[c].svcIP[s] = i /\ \A t \in Services : t # s => mem'[c].svcIP[t] = mem[c].svcIP[t]
    BY <1>1, <1>2 DEF TypeInv, TypeOK, Memory
  <2>4. \A t \in Services : \A k \in IPs : Claims(c, t, k)' => Claims(c, t, k)
    BY <1>0, <1>1, <2>1, <2>2, <2>3 DEF Claims, s, i
  <2>5. ClaimsExclusive'
    BY <1>0, <2>4 DEF ClaimsExclusive, PoolInv
  <2>6. ShownTagged' /\ KnownTagged'
    BY <1>0, <1>1, <2>1, <2>3 DEF ShownTagged, KnownTagged, PoolInv
  <2>7. Existing' /\ Unlisted' /\ NodesNamed'
    BY <1>0, <1>1, <2>1 DEF Existing, Unlisted, NodesNamed, Busy, PoolInv, s, n
  <2> QED
    BY <2>5, <2>6, <2>7 DEF PoolInv
<1>3. CASE UNCHANGED mem /\ NextService(c)
  <2>1. job'[c] = [job[c] EXCEPT !.pc = "services", !.cur = None, !.ip = None, !.new = FALSE]
    BY <1>3 DEF NextService, SetJob, TypeInv, TypeOK
  <2>2. Busy(c)
    BY <1>1 DEF Busy
  <2> QED
    BY <1>1, <1>3, <2>1, <2>2, MovePool DEF Job
<1> QED
  BY <1>2, <1>3 DEF Assign

(* Cleaning takes the IP off the tags of others, who have no claim on it. *)
LEMMA CleanPool ==
  ASSUME CrashOnly, TypeInv, PoolInv, NEW c \in Clusters, CleanStaleTags(c)
  PROVE  PoolInv'
<1>0. /\ None \notin IPs /\ None \notin Services /\ \A d \in Clusters : d = c
      /\ \A t \in Services : TagOf[t] \in TagNames
  BY LBAssumption DEF CrashOnly, TagNames
<1> DEFINE s == job[c].cur
           i == job[c].ip
<1>1. /\ s \in Services /\ i \in IPs /\ job[c] \in Job /\ job[c].pc = "clean"
      /\ UNCHANGED <<svc, named, mem>>
  BY Parts DEF CleanStaleTags, At, JobGood
<1>2. tags' = [t \in TagNames |-> IF t = TagOf[s] THEN tags[t] ELSE tags[t] \ {i}]
  BY NoTagFaults DEF CleanStaleTags
<1>3. /\ job'[c].todo = job[c].todo /\ job'[c].pc = "tag"
      /\ job'[c].cur = s /\ job'[c].ip = i
      /\ job'[c].snap = job[c].snap /\ job'[c].stale = job[c].stale /\ job'[c].first = job[c].first
  BY <1>1 DEF CleanStaleTags, SetJob, Job, TypeInv, TypeOK
<1>4. \A t \in Services : \A k \in IPs : Claims(c, t, k)' => Claims(c, t, k)
  BY <1>0, <1>1, <1>3 DEF Claims
<1>5. ClaimsExclusive'
  BY <1>0, <1>4 DEF ClaimsExclusive, PoolInv
<1>6. \A t \in Services : \A k \in IPs :
        Claims(c, t, k) /\ k \in tags[TagOf[t]] => k \in tags'[TagOf[t]]
  <2> SUFFICES ASSUME NEW t \in Services, NEW k \in IPs, Claims(c, t, k), k \in tags[TagOf[t]]
               PROVE  k \in tags'[TagOf[t]]
    OBVIOUS
  <2>1. Claims(c, s, i)
    BY DEF Claims
  <2>2. k = i => t = s
    BY <1>1, <2>1 DEF PoolInv, ClaimsExclusive
  <2> HIDE DEF s, i
  <2> QED
    BY <1>0, <1>2, <2>2
<1>7. ShownTagged' /\ KnownTagged'
  <2>1. ShownTagged'
    BY <1>1, <1>6 DEF ShownTagged, PoolInv, Claims
  <2>2. ASSUME NEW t \in Services, NEW k \in IPs
        PROVE  /\ t \in job'[c].todo /\ job'[c].snap[t] = k => k \in tags'[TagOf[t]]
               /\ mem'[c].svcIP[t] = k =>
                    \/ k \in tags'[TagOf[t]]
                    \/ job'[c].pc \in {"clean", "tag"} /\ job'[c].cur = t /\ job'[c].ip = k
    <3>1. KnownTagged
      BY DEF PoolInv
    <3>2. t \in job[c].todo /\ job[c].snap[t] = k => k \in tags'[TagOf[t]]
      BY <1>6, <3>1 DEF KnownTagged, Claims
    <3>3. mem[c].svcIP[t] = k => k \in tags'[TagOf[t]] \/ (job[c].cur = t /\ job[c].ip = k)
      BY <1>6, <3>1 DEF KnownTagged, Claims
    <3> QED
      BY <1>1, <1>3, <3>2, <3>3
  <2> QED
    BY <1>0, <1>3, <2>1, <2>2 DEF KnownTagged
<1>8. Existing' /\ Unlisted' /\ NodesNamed'
  BY <1>0, <1>1, <1>3 DEF Existing, Unlisted, NodesNamed, Busy, PoolInv
<1> QED
  BY <1>5, <1>7, <1>8 DEF PoolInv

LEMMA TagPool ==
  ASSUME CrashOnly, TypeInv, PoolInv, NEW c \in Clusters, EnsureTagWithIP(c)
  PROVE  PoolInv'
<1>0. /\ None \notin IPs /\ None \notin Services /\ \A d \in Clusters : d = c
      /\ \A t \in Services : TagOf[t] \in TagNames
  BY LBAssumption DEF CrashOnly, TagNames
<1> DEFINE s == job[c].cur
           i == job[c].ip
<1>1. /\ s \in Services /\ i \in IPs /\ job[c] \in Job /\ job[c].pc = "tag"
      /\ UNCHANGED <<svc, named, mem>>
  BY Parts DEF EnsureTagWithIP, At, JobGood
<1>2. tags' = [tags EXCEPT ![TagOf[s]] = @ \cup {i}]
  BY NoTagFaults DEF EnsureTagWithIP
<1>3. /\ job'[c].todo = job[c].todo /\ job'[c].pc \in {"configure", "services"}
      /\ job'[c].cur = None \/ (job'[c].cur = s /\ job'[c].ip = i)
      /\ job'[c].snap = job[c].snap /\ job'[c].stale = job[c].stale /\ job'[c].first = job[c].first
  <2>1. \/ job'[c] = [job[c] EXCEPT !.pc = "configure"]
        \/ job'[c] = [job[c] EXCEPT !.pc = "services", !.cur = None, !.ip = None, !.new = FALSE]
    BY DEF EnsureTagWithIP, NextService, SetJob, TypeInv, TypeOK
  <2> QED
    BY <1>1, <2>1 DEF Job
<1>4. \A t \in Services : \A k \in IPs : Claims(c, t, k)' => Claims(c, t, k)
  BY <1>0, <1>1, <1>3 DEF Claims
<1>5. ClaimsExclusive'
  BY <1>0, <1>4 DEF ClaimsExclusive, PoolInv
<1>6. /\ i \in tags'[TagOf[s]]
      /\ \A t \in Services : \A k \in IPs : k \in tags[TagOf[t]] => k \in tags'[TagOf[t]]
  BY <1>0, <1>1, <1>2 DEF TypeInv, TypeOK
<1>7. ShownTagged' /\ KnownTagged'
  BY <1>0, <1>1, <1>3, <1>6 DEF ShownTagged, KnownTagged, PoolInv
<1>8. Existing' /\ Unlisted' /\ NodesNamed'
  BY <1>0, <1>1, <1>3 DEF Existing, Unlisted, NodesNamed, Busy, PoolInv
<1> QED
  BY <1>5, <1>7, <1>8 DEF PoolInv

LEMMA StatusPool ==
  ASSUME CrashOnly, TypeInv, PoolInv, NEW c \in Clusters, UpdateServiceStatus(c)
  PROVE  PoolInv'
<1>0. None \notin IPs /\ None \notin Services /\ \A d \in Clusters : d = c
  BY LBAssumption DEF CrashOnly
<1> DEFINE s == job[c].cur
           i == job[c].ip
<1>1. /\ s \in Services /\ i \in IPs /\ job[c] \in Job /\ job[c].pc = "status"
      /\ UNCHANGED <<named, mem, tags>>
  BY Parts DEF UpdateServiceStatus, At, JobGood
<1>2. \/ svc' = svc
      \/ s \notin job[c].stale /\ svc' = [svc EXCEPT ![s].ingress = i]
  BY DEF UpdateServiceStatus
<1>3. /\ job'[c].todo = job[c].todo /\ job'[c].pc = "services" /\ job'[c].cur = None
      /\ job'[c].snap = job[c].snap /\ job'[c].stale = job[c].stale /\ job'[c].first = job[c].first
  <2>1. job'[c] = [job[c] EXCEPT !.pc = "services", !.cur = None, !.ip = None, !.new = FALSE]
    BY DEF UpdateServiceStatus, NextService, SetJob, TypeInv, TypeOK
  <2> QED
    BY <1>1, <2>1 DEF Job
<1>4. /\ \A t \in Services : /\ svc'[t].exists = svc[t].exists
                             /\ svc'[t].ingress = svc[t].ingress \/ (t = s /\ svc'[t].ingress = i)
      /\ svc' # svc => svc[s].exists
  <2>1. s \notin job[c].stale => svc[s].exists
    BY <1>1 DEF PoolInv, Existing, Busy
  <2> QED
    BY <1>1, <1>2, <2>1 DEF TypeInv, TypeOK, Service
<1>5. Claims(c, s, i) /\ i \in tags[TagOf[s]]
  BY <1>1 DEF Claims, PoolInv, KnownTagged
<1> HIDE DEF s, i
<1>6. \A t \in Services : \A k \in IPs : Claims(c, t, k)' => Claims(c, t, k)
  BY <1>0, <1>1, <1>3, <1>4, <1>5 DEF Claims
<1>7. ClaimsExclusive'
  BY <1>0, <1>6 DEF ClaimsExclusive, PoolInv
<1>8. ShownTagged' /\ KnownTagged'
  BY <1>0, <1>1, <1>3, <1>4, <1>5 DEF ShownTagged, KnownTagged, PoolInv
<1>9. Existing' /\ Unlisted' /\ NodesNamed'
  <2>1. \A t \in Services : ~svc'[t].exists => svc'[t].ingress = None
    BY <1>4 DEF PoolInv, Existing
  <2> QED
    BY <1>0, <1>1, <1>3, <1>4, <2>1 DEF Existing, Unlisted, NodesNamed, Busy, PoolInv
<1> QED
  BY <1>7, <1>8, <1>9 DEF PoolInv

-----------------------------------------------------------------------------
LEMMA NextPool ==
  ASSUME CrashOnly
  PROVE  TypeInv /\ PoolInv /\ [Next]_vars => PoolInv'
<1> SUFFICES ASSUME TypeInv, PoolInv, [Next]_vars PROVE PoolInv'
  OBVIOUS
<1>1. ASSUME NEW c \in Clusters, SyncStep(c) PROVE PoolInv'
  BY <1>1, ReleasePool, ReleasedPool, ExistingPool, AssignedPool, AllocatePool, AssignPool, CleanPool,
     TagPool, ConfigurePool, StatusPool, CheckPool, FailoverPool DEF SyncStep
<1>2. CASE UNCHANGED vars
  BY <1>2 DEF vars, PoolInv, ClaimsExclusive, Claims, ShownTagged, KnownTagged, Existing, Busy,
              Unlisted, NodesNamed
<1> QED
  BY <1>1, <1>2, StartPool, DiscoverPool, SyncPool, EndPool, EnvPool, ServicePool DEF Next

LEMMA PoolInvariant == ASSUME CrashOnly PROVE Spec => [](TypeInv /\ PoolInv)
<1>1. Init => TypeInv /\ PoolInv
  BY InitType, InitPool
<1>2. TypeInv /\ PoolInv /\ [Next]_vars => (TypeInv /\ PoolInv)'
  BY NextType, NextPool
<1> QED
  BY <1>1, <1>2, PTL DEF Spec

(* In a cluster whose CCM may crash at any time, no two services show the   *)
(* same IP, for any numbers of services, nodes, IPs and failed requests.    *)
THEOREM IPsUnique == ASSUME CrashOnly PROVE Spec => []UniqueIPs
<1>1. TypeInv /\ PoolInv => UniqueIPs
  <2> SUFFICES ASSUME TypeInv, PoolInv, NEW s \in Services, NEW t \in Services, s # t,
                      svc[s].ingress # None, svc[s].ingress = svc[t].ingress
               PROVE  FALSE
    BY DEF UniqueIPs
  <2>1. ClusterOf[s] \in Clusters /\ svc[s].ingress \in IPs
    BY LBAssumption DEF TypeInv, TypeOK, Service, MaybeIP
  <2> QED
    BY <2>1 DEF PoolInv, ClaimsExclusive, Claims
<1> QED
  BY <1>1, PoolInvariant, PTL

(* ... every IP a service shows is on a tag, where allocateIP sees it after *)
(* a restart.                                                               *)
THEOREM TagsCoverShown == ASSUME CrashOnly PROVE Spec => []ShownIPsTagged
<1>1. TypeInv /\ PoolInv => ShownIPsTagged
  <2> SUFFICES ASSUME TypeInv, PoolInv, NEW s \in Services, svc[s].ingress # None
               PROVE  svc[s].ingress \in Tagged
    BY DEF ShownIPsTagged
  <2>1. svc[s].ingress \in IPs /\ TagOf[s] \in TagNames
    BY DEF TypeInv, TypeOK, Service, MaybeIP, TagNames
  <2> QED
    BY <2>1 DEF PoolInv, ShownTagged, Tagged
<1> QED
  BY <1>1, PoolInvariant, PTL

(* ... and serviceIPs never has one IP for two services, so that releasing  *)
(* the IP of a deleted service takes it from nobody else.                   *)
THEOREM AssignmentsExclusive == ASSUME CrashOnly PROVE Spec => []ServiceIPsExclusive
<1>1. TypeInv /\ PoolInv => ServiceIPsExclusive
  <2> SUFFICES ASSUME TypeInv, PoolInv, NEW c \in Clusters, NEW s \in Services, NEW t \in Services,
                      s # t, mem[c].svcIP[s] # None, mem[c].svcIP[s] = mem[c].svcIP[t]
               PROVE  FALSE
    BY DEF ServiceIPsExclusive
  <2>1. mem[c].svcIP[s] \in IPs
    BY Parts DEF MaybeIP
  <2> QED
    BY <2>1 DEF PoolInv, ClaimsExclusive, Claims
<1> QED
  BY <1>1, PoolInvariant, PTL

-----------------------------------------------------------------------------
(* A service keeps its IP, for any clusters and all faults.  The status is  *)
(* written for services only that show no IP, as far as their version goes, *)
(* or whose IP serviceIPs knows: the pool is whole or empty, so that a      *)
(* service whose IP is not in the pool is not given another one.            *)
Agrees(c, s) ==
    /\ ~svc[s].exists => svc[s].ingress = None
    /\ svc[s].ingress # None => mem[c].svcIP[s] \in {None, svc[s].ingress}
    /\ Busy(c) =>
         /\ s \in job[c].stale => svc[s].ingress = None
         /\ (s \in job[c].todo \/ job[c].cur = s) /\ s \notin job[c].stale => svc[s].exists
         /\ s \in job[c].todo \ job[c].stale => svc[s].ingress = job[c].snap[s]
         /\ job[c].cur = s => s \notin job[c].todo
         /\ job[c].cur = s /\ s \notin job[c].stale =>
              svc[s].ingress \in {None, job[c].ip} /\ mem[c].svcIP[s] \in {None, job[c].ip}

OwnServices(c) ==
    Busy(c) => \A s \in Services : s \in job[c].todo \/ job[c].cur = s => ClusterOf[s] = c

KeepsIPs(c) ==
    /\ mem[c].pool \in {{}, IPs}
    /\ OwnServices(c)
    /\ \A s \in Services : ClusterOf[s] = c => Agrees(c, s)

KeepInv == \A c \in Clusters : KeepsIPs(c)

LEMMA InitKeep == Init => KeepInv
  BY DEF Init, Blank, AtRest, KeepInv, KeepsIPs, OwnServices, Agrees, Busy

(* What one CCM does concerns the services of its cluster only. *)
LEMMA OneKeeps ==
  ASSUME KeepInv, NEW c \in Clusters, KeepsIPs(c)',
         \A d \in Clusters : d # c => mem'[d] = mem[d] /\ job'[d] = job[d],
         \A s \in Services : ClusterOf[s] # c => svc'[s] = svc[s]
  PROVE  KeepInv'
<1> SUFFICES ASSUME NEW d \in Clusters, d # c PROVE KeepsIPs(d)'
  BY DEF KeepInv
<1> QED
  BY DEF KeepInv, KeepsIPs, OwnServices, Agrees, Busy

(* A step that begins no work on a service and gives it nothing. *)
LEMMA MoveKeep ==
  ASSUME KeepInv, NEW c \in Clusters, UNCHANGED svc,
         \A d \in Clusters : d # c => mem'[d] = mem[d] /\ job'[d] = job[d],
         mem'[c].pool \in {{}, IPs, mem[c].pool},
         \A s \in Services : mem'[c].svcIP[s] \in {None, mem[c].svcIP[s]},
         Busy(c)' => /\ Busy(c) /\ job'[c].todo \subseteq job[c].todo
                     /\ job'[c].snap = job[c].snap /\ job'[c].stale = job[c].stale
                     /\ \/ job'[c].cur = None
                        \/ job'[c].cur = job[c].cur /\ job'[c].ip = job[c].ip
  PROVE  KeepInv'
<1>0. None \notin Services
  BY LBAssumption
<1>1. KeepsIPs(c)
  BY DEF KeepInv
<1>2. OwnServices(c)' /\ mem'[c].pool \in {{}, IPs}
  BY <1>0, <1>1 DEF KeepsIPs, OwnServices
<1>3. ASSUME NEW s \in Services, ClusterOf[s] = c PROVE Agrees(c, s)'
  BY <1>0, <1>1, <1>3 DEF KeepsIPs, Agrees
<1> QED
  BY <1>2, <1>3, OneKeeps DEF KeepsIPs

(* The process starts, stops or crashes. *)
LEMMA RestKeep ==
  ASSUME TypeInv, KeepInv, NEW c \in Clusters, Start(c) \/ Shutdown(c) \/ Crash(c)
  PROVE  KeepInv'
<1>1. /\ UNCHANGED svc /\ job'[c].pc \in {"idle", "down"}
      /\ \A d \in Clusters : d # c => mem'[d] = mem[d] /\ job'[d] = job[d]
  BY DEF Start, Shutdown, Crash, SetJob, AtRest, TypeInv, TypeOK
<1>2. \/ mem'[c] = Blank
      \/ mem'[c] = [Blank EXCEPT !.pool = IPs]
      \/ mem'[c] = [Blank EXCEPT !.pool = IPs, !.svcIP = RecoverServiceState(c, IPs)]
  <2>1. \/ mem' = [mem EXCEPT ![c] = Blank]
        \/ mem' = [mem EXCEPT ![c] = [Blank EXCEPT !.pool = IPs]]
        \/ mem' = [mem EXCEPT ![c] = [Blank EXCEPT !.pool = IPs, !.svcIP = RecoverServiceState(c, IPs)]]
    BY DEF Start, Shutdown, Crash
  <2> QED
    BY <2>1 DEF TypeInv, TypeOK
<1>3. /\ mem'[c].pool \in {{}, IPs}
      /\ \A s \in Services : mem'[c].svcIP[s] \in {None, svc[s].ingress}
  <2>1. Blank.pool = {} /\ \A s \in Services : Blank.svcIP[s] = None
    BY DEF Blank
  <2>2. CASE mem'[c] = Blank
    BY <2>1, <2>2
  <2>3. CASE mem'[c] = [Blank EXCEPT !.pool = IPs]
    BY <2>3 DEF Blank
  <2>4. CASE mem'[c] = [Blank EXCEPT !.pool = IPs, !.svcIP = RecoverServiceState(c, IPs)]
    <3>1. mem'[c].pool = IPs /\ mem'[c].svcIP = RecoverServiceState(c, IPs)
      BY <2>4 DEF Blank
    <3>2. \A s \in Services : RecoverServiceState(c, IPs)[s] \in {None, svc[s].ingress}
      BY DEF RecoverServiceState
    <3> QED
      BY <3>1, <3>2
  <2> QED
    BY <1>2, <2>2, <2>3, <2>4
<1>4. ASSUME NEW s \in Services, ClusterOf[s] = c PROVE Agrees(c, s)'
  BY <1>1, <1>3, <1>4 DEF KeepInv, KeepsIPs, Agrees, Busy
<1>5. OwnServices(c)'
  BY <1>1 DEF OwnServices, Busy
<1> QED
  BY <1>1, <1>3, <1>4, <1>5, OneKeeps DEF KeepsIPs

LEMMA DiscoverKeep ==
  ASSUME TypeInv, KeepInv, NEW c \in Clusters, DiscoverOwnedIPs(c)
  PROVE  KeepInv'
<1>1. UNCHANGED <<svc, job>> /\ \E P \in {{}, IPs} : mem' = [mem EXCEPT ![c].pool = P]
  BY DEF DiscoverOwnedIPs
<1>2. /\ \A d \in Clusters : d # c => mem'[d] = mem[d]
      /\ mem'[c].pool \in {{}, IPs} /\ mem'[c].svcIP = mem[c].svcIP
  BY <1>1 DEF TypeInv, TypeOK, Memory
<1> QED
  BY <1>1, <1>2, MoveKeep DEF Busy

(* A sync begins with what the services show. *)
LEMMA SyncKeep ==
  ASSUME TypeInv, KeepInv, NEW c \in Clusters, Sync(c)
  PROVE  KeepInv'
<1>0. None \notin Services
  BY LBAssumption
<1>1. /\ UNCHANGED <<svc, mem>>
      /\ \A d \in Clusters : d # c => job'[d] = job[d]
      /\ job'[c].todo = ServicesOf(c) /\ job'[c].cur = None /\ job'[c].stale = {}
      /\ \A s \in ServicesOf(c) : job'[c].snap[s] = svc[s].ingress /\ svc[s].exists
  BY DEF Sync, SetJob, AtRest, ServicesOf, TypeInv, TypeOK
<1>2. ASSUME NEW s \in Services, ClusterOf[s] = c PROVE Agrees(c, s)'
  BY <1>0, <1>1, <1>2 DEF KeepInv, KeepsIPs, Agrees
<1>3. OwnServices(c)' /\ mem'[c].pool \in {{}, IPs}
  BY <1>0, <1>1 DEF OwnServices, ServicesOf, KeepInv, KeepsIPs
<1> QED
  BY <1>1, <1>2, <1>3, OneKeeps DEF KeepsIPs

LEMMA ReleaseKeep ==
  ASSUME TypeInv, KeepInv, NEW c \in Clusters, ReleaseIP(c)
  PROVE  KeepInv'
<1>1. UNCHANGED <<svc, job>>
  BY DEF ReleaseIP
<1>2. PICK s \in Services :
        mem' = [mem EXCEPT ![c].svcIP[s] = None, ![c].assign[mem[c].svcIP[s]] = None]
  BY DEF ReleaseIP, Gone
<1> DEFINE ip == mem[c].svcIP[s]
<1>3. /\ \A d \in Clusters : d # c => mem'[d] = mem[d]
      /\ mem'[c].pool = mem[c].pool
      /\ \A t \in Services : mem'[c].svcIP[t] \in {None, mem[c].svcIP[t]}
  <2>1. mem' = [mem EXCEPT ![c].svcIP[s] = None, ![c].assign[ip] = None]
    BY <1>2
  <2> HIDE DEF ip
  <2> QED
    BY <2>1 DEF TypeInv, TypeOK, Memory
<1> QED
  BY <1>1, <1>3, MoveKeep DEF Busy

(* The steps of a sync that write neither the status nor serviceIPs. *)
LEMMA QuietKeep ==
  ASSUME TypeInv, KeepInv, NEW c \in Clusters,
         \/ Released(c) \/ CleanStaleTags(c) \/ EnsureTagWithIP(c) \/ Configure(c)
         \/ CheckIPFailover(c) \/ FailoverIP(c)
  PROVE  KeepInv'
<1>1. UNCHANGED svc /\ Busy(c) /\ job[c] \in Job
  BY DEF Released, CleanStaleTags, EnsureTagWithIP, Configure, CheckIPFailover, FailoverIP, At, Busy,
         TypeInv, TypeOK
<1>2. /\ \A d \in Clusters : d # c => mem'[d] = mem[d]
      /\ mem'[c].pool = mem[c].pool /\ mem'[c].svcIP = mem[c].svcIP
  <2>1. \/ mem' = mem
        \/ \E i \in IPs, n \in Nodes : mem' = [mem EXCEPT ![c].assign[i] = n, ![c].manual = @ \cup {n}]
    BY Parts DEF Released, CleanStaleTags, EnsureTagWithIP, Configure, CheckIPFailover, FailoverIP,
                 At, JobGood
  <2> QED
    BY <2>1, ZenonT(40) DEF TypeInv, TypeOK, Memory
<1>3. \E l, ips :
        \/ SetJob(c, AtRest("idle"))
        \/ SetJob(c, [job[c] EXCEPT !.pc = l])
        \/ SetJob(c, [job[c] EXCEPT !.ips = ips])
        \/ SetJob(c, [job[c] EXCEPT !.pc = l, !.ips = ips])
        \/ NextService(c)
  BY DEF Released, CleanStaleTags, EnsureTagWithIP, Configure, CheckIPFailover, FailoverIP
<1>4. /\ \A d \in Clusters : d # c => job'[d] = job[d]
      /\ \/ job'[c].pc = "idle"
         \/ /\ job'[c].todo = job[c].todo /\ job'[c].snap = job[c].snap /\ job'[c].stale = job[c].stale
            /\ \/ job'[c].cur = None
               \/ job'[c].cur = job[c].cur /\ job'[c].ip = job[c].ip
  <2>1. PICK l, ips : SetJob(c, AtRest("idle"))
                      \/ SetJob(c, [job[c] EXCEPT !.pc = l])
                      \/ SetJob(c, [job[c] EXCEPT !.ips = ips])
                      \/ SetJob(c, [job[c] EXCEPT !.pc = l, !.ips = ips])
                      \/ NextService(c)
    BY <1>3
  <2>2. \A d \in Clusters : d # c => job'[d] = job[d]
    BY <2>1 DEF SetJob, NextService, TypeInv, TypeOK
  <2>3. \/ job'[c] = AtRest("idle")
        \/ job'[c] = [job[c] EXCEPT !.pc = l]
        \/ job'[c] = [job[c] EXCEPT !.ips = ips]
        \/ job'[c] = [job[c] EXCEPT !.pc = l, !.ips = ips]
        \/ job'[c] = [job[c] EXCEPT !.pc = "services", !.cur = None, !.ip = None, !.new = FALSE]
    BY <2>1 DEF SetJob, NextService, TypeInv, TypeOK
  <2>4. CASE job'[c] = AtRest("idle")
    BY <2>2, <2>4 DEF AtRest
  <2>5. CASE job'[c] = [job[c] EXCEPT !.pc = l] \/ job'[c] = [job[c] EXCEPT !.ips = ips]
    BY <1>1, <2>2, <2>5 DEF Job
  <2>6. CASE job'[c] = [job[c] EXCEPT !.pc = l, !.ips = ips]
    BY <1>1, <2>2, <2>6 DEF Job
  <2>7. CASE job'[c] = [job[c] EXCEPT !.pc = "services", !.cur = None, !.ip = None, !.new = FALSE]
    BY <1>1, <2>2, <2>7 DEF Job
  <2> QED
    BY <2>3, <2>4, <2>5, <2>6, <2>7
<1> QED
  BY <1>1, <1>2, <1>4, MoveKeep DEF Busy

(* A sync turns to a service, whose version or serviceIPs agree with the IP *)
(* it is about to use.                                                      *)
LEMMA TakeKeep ==
  ASSUME TypeInv, KeepInv, NEW c \in Clusters, UNCHANGED svc, job[c].pc = "services",
         NEW s \in job[c].todo, NEW i \in IPs,
         \A d \in Clusters : d # c => mem'[d] = mem[d] /\ job'[d] = job[d],
         mem'[c].pool = mem[c].pool,
         \A t \in Services : t # s => mem'[c].svcIP[t] = mem[c].svcIP[t],
         mem'[c].svcIP[s] \in {mem[c].svcIP[s], i},
         s \notin job[c].stale => svc[s].ingress \in {None, i} /\ mem'[c].svcIP[s] \in {None, i},
         job'[c].todo = job[c].todo \ {s}, job'[c].snap = job[c].snap, job'[c].stale = job[c].stale,
         job'[c].cur = s, job'[c].ip = i
  PROVE  KeepInv'
<1>1. KeepsIPs(c) /\ Busy(c) /\ s \in Services
  BY Parts DEF KeepInv, Busy
<1>2. OwnServices(c)' /\ mem'[c].pool \in {{}, IPs}
  BY <1>1 DEF KeepsIPs, OwnServices
<1>3. ASSUME NEW t \in Services, ClusterOf[t] = c PROVE Agrees(c, t)'
  <2>1. Agrees(c, t)
    BY <1>1, <1>3 DEF KeepsIPs
  <2>2. CASE t = s
    BY <1>1, <2>1, <2>2 DEF Agrees
  <2>3. CASE t # s
    BY <1>1, <2>1, <2>3 DEF Agrees
  <2> QED
    BY <2>2, <2>3
<1> QED
  BY <1>2, <1>3, OneKeeps DEF KeepsIPs

LEMMA ExistingKeep ==
  ASSUME TypeInv, KeepInv, NEW c \in Clusters, ReconcileExisting(c)
  PROVE  KeepInv'
<1>1. PICK s \in job[c].todo :
        LET ip      == job[c].snap[s]
            tracked == mem[c].assign[ip] # None
            node    == IF tracked THEN mem[c].assign[ip] ELSE job[c].first
        IN  /\ ShowsPoolIP(c, s)
            /\ mem' = IF tracked \/ node = None THEN mem
                      ELSE [mem EXCEPT ![c].assign[ip] = node, ![c].svcIP[s] = ip]
            /\ SetJob(c, IF node = None THEN [job[c] EXCEPT !.todo = @ \ {s}]
                         ELSE [job[c] EXCEPT !.todo = @ \ {s}, !.pc = "clean",
                                             !.cur = s, !.ip = ip])
  BY DEF ReconcileExisting
<1> DEFINE ip == job[c].snap[s]
           node == IF mem[c].assign[ip] # None THEN mem[c].assign[ip] ELSE job[c].first
<1>2. /\ s \in Services /\ ip \in IPs /\ UNCHANGED svc /\ job[c] \in Job
      /\ job[c].pc = "services" /\ Busy(c)
  BY <1>1, Parts DEF ShowsPoolIP, ReconcileExisting, At, Busy
<1>3. Agrees(c, s)
  BY <1>2 DEF KeepInv, KeepsIPs, OwnServices
<1>4. /\ mem' = mem \/ (node # None /\ mem' = [mem EXCEPT ![c].assign[ip] = node, ![c].svcIP[s] = ip])
      /\ \/ node = None /\ SetJob(c, [job[c] EXCEPT !.todo = @ \ {s}])
         \/ node # None /\ SetJob(c, [job[c] EXCEPT !.todo = @ \ {s}, !.pc = "clean", !.cur = s, !.ip = ip])
  BY <1>1
<1> HIDE DEF node
<1>5. /\ \A d \in Clusters : d # c => mem'[d] = mem[d] /\ job'[d] = job[d]
      /\ mem'[c].pool = mem[c].pool
      /\ \A t \in Services : t # s => mem'[c].svcIP[t] = mem[c].svcIP[t]
      /\ mem'[c].svcIP[s] \in {mem[c].svcIP[s], ip}
  <2> HIDE DEF ip
  <2>1. \A d \in Clusters : d # c => job'[d] = job[d]
    BY <1>4 DEF SetJob, TypeInv, TypeOK
  <2>2. CASE mem' = mem
    BY <2>1, <2>2
  <2>3. CASE mem' = [mem EXCEPT ![c].assign[ip] = node, ![c].svcIP[s] = ip]
    BY <1>2, <2>1, <2>3 DEF TypeInv, TypeOK, Memory
  <2> QED
    BY <1>4, <2>2, <2>3
<1>6. CASE node = None
  <2>1. job'[c] = [job[c] EXCEPT !.todo = @ \ {s}] /\ mem' = mem
    BY <1>4, <1>6 DEF SetJob, TypeInv, TypeOK
  <2> QED
    BY <1>2, <1>5, <2>1, MoveKeep DEF Job
<1>7. CASE node # None
  <2> HIDE DEF ip
  <2>1. job'[c] = [job[c] EXCEPT !.todo = @ \ {s}, !.pc = "clean", !.cur = s, !.ip = ip]
    BY <1>4, <1>7 DEF SetJob, TypeInv, TypeOK
  <2>2. /\ job'[c].todo = job[c].todo \ {s} /\ job'[c].snap = job[c].snap /\ job'[c].stale = job[c].stale
        /\ job'[c].cur = s /\ job'[c].ip = ip
    BY <1>2, <2>1 DEF Job
  <2>3. s \notin job[c].stale => svc[s].ingress = ip /\ mem'[c].svcIP[s] \in {None, ip}
    BY <1>2, <1>3, <1>5, LBAssumption DEF Agrees, ip
  <2> QED
    BY <1>2, <1>5, <2>2, <2>3, TakeKeep
<1> QED
  BY <1>6, <1>7

LEMMA AssignedKeep ==
  ASSUME TypeInv, KeepInv, NEW c \in Clusters, ReconcileAssigned(c)
  PROVE  KeepInv'
<1>1. PICK s \in job[c].todo :
        /\ HasIP(c, s)
        /\ SetJob(c, [job[c] EXCEPT !.todo = @ \ {s}, !.pc = "status", !.cur = s,
                                    !.ip = mem[c].svcIP[s]])
  BY DEF ReconcileAssigned
<1> DEFINE ip == mem[c].svcIP[s]
<1>2. /\ s \in Services /\ ip \in IPs /\ UNCHANGED <<svc, mem>> /\ job[c] \in Job
      /\ job[c].pc = "services" /\ Busy(c)
  BY <1>1, Parts DEF HasIP, MaybeIP, ReconcileAssigned, At, Busy
<1>3. Agrees(c, s)
  BY <1>2 DEF KeepInv, KeepsIPs, OwnServices
<1>4. svc[s].ingress \in {None, ip}
  BY <1>1, <1>3 DEF Agrees, HasIP
<1>5. /\ job'[c] = [job[c] EXCEPT !.todo = @ \ {s}, !.pc = "status", !.cur = s, !.ip = ip]
      /\ \A d \in Clusters : d # c => job'[d] = job[d]
  BY <1>1 DEF SetJob, TypeInv, TypeOK
<1>6. mem'[c].svcIP[s] = ip
  BY <1>2
<1> HIDE DEF ip
<1>7. /\ job'[c].todo = job[c].todo \ {s} /\ job'[c].snap = job[c].snap /\ job'[c].stale = job[c].stale
      /\ job'[c].cur = s /\ job'[c].ip = ip
  BY <1>2, <1>5 DEF Job
<1>8. /\ mem'[c].pool = mem[c].pool /\ \A t \in Services : mem'[c].svcIP[t] = mem[c].svcIP[t]
      /\ \A d \in Clusters : d # c => mem'[d] = mem[d]
  BY <1>2
<1>9. /\ UNCHANGED svc /\ s \in job[c].todo
      /\ \A d \in Clusters : d # c => mem'[d] = mem[d] /\ job'[d] = job[d]
      /\ mem'[c].pool = mem[c].pool
      /\ \A t \in Services : t # s => mem'[c].svcIP[t] = mem[c].svcIP[t]
      /\ mem'[c].svcIP[s] \in {mem[c].svcIP[s], ip}
      /\ s \notin job[c].stale => svc[s].ingress \in {None, ip} /\ mem'[c].svcIP[s] \in {None, ip}
  BY <1>2, <1>4, <1>5, <1>6, <1>8
<1> QED
  BY <1>2, <1>7, <1>9, TakeKeep

(* An IP is allocated from a pool that is not empty, hence whole; the       *)
(* service shows none of it.                                                *)
LEMMA AllocateKeep ==
  ASSUME TypeInv, KeepInv, NEW c \in Clusters, Allocate(c)
  PROVE  KeepInv'
<1>1. PICK s \in job[c].todo :
        /\ ~ShowsPoolIP(c, s) /\ ~HasIP(c, s)
        /\ \/ SetJob(c, [job[c] EXCEPT !.todo = @ \ {s}])
           \/ \E i \in Unused(c, s) :
                SetJob(c, [[job[c] EXCEPT !.todo = @ \ {s}] EXCEPT
                             !.cur = s, !.ip = i, !.new = TRUE, !.pc = AfterAllocate(c)])
  BY DEF Allocate, Available
<1>2. /\ s \in Services /\ UNCHANGED <<svc, mem>> /\ job[c] \in Job
      /\ job[c].pc = "services" /\ Busy(c)
  BY Parts DEF Allocate, At, Busy
<1>3. Agrees(c, s) /\ mem[c].pool \in {{}, IPs}
  BY <1>2 DEF KeepInv, KeepsIPs, OwnServices
<1>4. CASE SetJob(c, [job[c] EXCEPT !.todo = @ \ {s}])
  <2>1. /\ job'[c] = [job[c] EXCEPT !.todo = @ \ {s}]
        /\ \A d \in Clusters : d # c => job'[d] = job[d]
    BY <1>4 DEF SetJob, TypeInv, TypeOK
  <2> QED
    BY <1>2, <2>1, MoveKeep DEF Job
<1>5. ASSUME NEW i \in Unused(c, s),
             SetJob(c, [[job[c] EXCEPT !.todo = @ \ {s}] EXCEPT
                          !.cur = s, !.ip = i, !.new = TRUE, !.pc = AfterAllocate(c)])
      PROVE  KeepInv'
  <2>1. i \in IPs /\ mem[c].pool = IPs
    BY <1>3, Parts DEF Unused, PoolFor
  <2>2. /\ job'[c] = [[job[c] EXCEPT !.todo = @ \ {s}] EXCEPT
                        !.cur = s, !.ip = i, !.new = TRUE, !.pc = AfterAllocate(c)]
        /\ \A d \in Clusters : d # c => job'[d] = job[d]
    BY <1>5 DEF SetJob, TypeInv, TypeOK
  <2>3. /\ job'[c].todo = job[c].todo \ {s} /\ job'[c].snap = job[c].snap /\ job'[c].stale = job[c].stale
        /\ job'[c].cur = s /\ job'[c].ip = i
    BY <1>2, <2>2 DEF Job
  <2>4. s \notin job[c].stale => svc[s].ingress = None
    BY <1>1, <1>2, <1>3, <2>1, Parts DEF Agrees, ShowsPoolIP, MaybeIP
  <2>5. mem'[c].svcIP[s] = None /\ mem[c].svcIP[s] = None
    BY <1>1, <1>2 DEF HasIP
  <2>6. /\ mem'[c].pool = mem[c].pool /\ \A t \in Services : mem'[c].svcIP[t] = mem[c].svcIP[t]
        /\ \A d \in Clusters : d # c => mem'[d] = mem[d]
    BY <1>2
  <2>7. /\ UNCHANGED svc /\ s \in job[c].todo
        /\ \A d \in Clusters : d # c => mem'[d] = mem[d] /\ job'[d] = job[d]
        /\ mem'[c].pool = mem[c].pool
        /\ \A t \in Services : t # s => mem'[c].svcIP[t] = mem[c].svcIP[t]
        /\ mem'[c].svcIP[s] \in {mem[c].svcIP[s], i}
        /\ s \notin job[c].stale => svc[s].ingress \in {None, i} /\ mem'[c].svcIP[s] \in {None, i}
    BY <1>2, <2>2, <2>4, <2>5, <2>6
  <2> QED
    BY <1>2, <2>1, <2>3, <2>7, TakeKeep
<1> QED
  BY <1>1, <1>4, <1>5

LEMMA AssignKeep ==
  ASSUME TypeInv, KeepInv, NEW c \in Clusters, Assign(c)
  PROVE  KeepInv'
<1> DEFINE s == job[c].cur
           i == job[c].ip
           n == job[c].first
<1>1. /\ s \in Services /\ i \in IPs /\ job[c] \in Job /\ UNCHANGED svc /\ Busy(c)
  BY Parts DEF Assign, At, JobGood, Busy
<1>2. CASE /\ mem' = [mem EXCEPT ![c].assign[i] = n, ![c].svcIP[s] = i, ![c].manual = @ \cup {n}]
           /\ SetJob(c, [job[c] EXCEPT !.pc = "clean"])
  <2>1. /\ job'[c].todo = job[c].todo /\ job'[c].snap = job[c].snap /\ job'[c].stale = job[c].stale
        /\ job'[c].cur = s /\ job'[c].ip = i
        /\ \A d \in Clusters : d # c => job'[d] = job[d]
    BY <1>1, <1>2 DEF SetJob, Job, TypeInv, TypeOK
  <2> HIDE DEF s, i, n
  <2>2. /\ \A d \in Clusters : d # c => mem'[d] = mem[d]
        /\ mem'[c].pool = mem[c].pool /\ mem'[c].svcIP[s] = i
        /\ \A t \in Services : t # s => mem'[c].svcIP[t] = mem[c].svcIP[t]
    BY <1>1, <1>2 DEF TypeInv, TypeOK, Memory
  <2>3. KeepsIPs(c)
    BY DEF KeepInv
  <2>4. OwnServices(c)' /\ mem'[c].pool \in {{}, IPs}
    BY <1>1, <2>1, <2>2, <2>3 DEF KeepsIPs, OwnServices, s
  <2>5. ASSUME NEW t \in Services, ClusterOf[t] = c PROVE Agrees(c, t)'
    <3>1. Agrees(c, t)
      BY <2>3, <2>5 DEF KeepsIPs
    <3>2. CASE t = s
      BY <1>1, <2>1, <2>2, <3>1, <3>2 DEF Agrees, s, i
    <3>3. CASE t # s
      BY <1>1, <2>1, <2>2, <3>1, <3>3 DEF Agrees
    <3> QED
      BY <3>2, <3>3
  <2> QED
    BY <1>1, <2>1, <2>2, <2>4, <2>5, OneKeeps DEF KeepsIPs
<1>3. CASE UNCHANGED mem /\ NextService(c)
  <2>1. /\ job'[c] = [job[c] EXCEPT !.pc = "services", !.cur = None, !.ip = None, !.new = FALSE]
        /\ \A d \in Clusters : d # c => job'[d] = job[d]
    BY <1>3 DEF NextService, SetJob, TypeInv, TypeOK
  <2>2. /\ job'[c].todo = job[c].todo /\ job'[c].snap = job[c].snap /\ job'[c].stale = job[c].stale
        /\ job'[c].cur = None
    BY <1>1, <2>1 DEF Job
  <2>3. /\ mem'[c].pool = mem[c].pool /\ mem'[c].svcIP = mem[c].svcIP
        /\ \A d \in Clusters : d # c => mem'[d] = mem[d]
    BY <1>3
  <2> HIDE DEF s, i, n
  <2> QED
    BY <1>1, <2>1, <2>2, <2>3, MoveKeep
<1> QED
  BY <1>2, <1>3 DEF Assign

(* The status is written with the IP the service shows, if it shows one. *)
LEMMA StatusKeep ==
  ASSUME TypeInv, KeepInv, NEW c \in Clusters, UpdateServiceStatus(c)
  PROVE  /\ KeepInv'
         /\ \A s \in Services : svc[s].ingress # None => svc'[s].ingress = svc[s].ingress
<1> DEFINE s == job[c].cur
           i == job[c].ip
<1>1. /\ s \in Services /\ i \in IPs /\ job[c] \in Job /\ UNCHANGED mem /\ Busy(c)
  BY Parts DEF UpdateServiceStatus, At, JobGood, Busy
<1>2. svc' = svc \/ (s \notin job[c].stale /\ svc' = [svc EXCEPT ![s].ingress = i])
  BY DEF UpdateServiceStatus
<1>3. /\ job'[c].todo = job[c].todo /\ job'[c].pc = "services" /\ job'[c].cur = None
      /\ job'[c].snap = job[c].snap /\ job'[c].stale = job[c].stale
      /\ \A d \in Clusters : d # c => job'[d] = job[d]
  <2>1. /\ job'[c] = [job[c] EXCEPT !.pc = "services", !.cur = None, !.ip = None, !.new = FALSE]
        /\ \A d \in Clusters : d # c => job'[d] = job[d]
    BY DEF UpdateServiceStatus, NextService, SetJob, TypeInv, TypeOK
  <2> QED
    BY <1>1, <2>1 DEF Job
<1>4. KeepsIPs(c) /\ ClusterOf[s] = c /\ Agrees(c, s)
  BY <1>1 DEF KeepInv, KeepsIPs, OwnServices
<1>5. \A t \in Services : /\ svc'[t].exists = svc[t].exists
                          /\ \/ svc'[t].ingress = svc[t].ingress
                             \/ t = s /\ s \notin job[c].stale /\ svc'[t].ingress = i
  BY <1>1, <1>2 DEF TypeInv, TypeOK, Service
<1>6. \A t \in Services : ClusterOf[t] # c => svc'[t] = svc[t]
  BY <1>1, <1>2, <1>4 DEF TypeInv, TypeOK
<1>7. s \notin job[c].stale =>
        svc[s].exists /\ svc[s].ingress \in {None, i} /\ mem[c].svcIP[s] \in {None, i}
  BY <1>1, <1>4 DEF Agrees
<1>8. \A t \in Services : svc[t].ingress # None => svc'[t].ingress = svc[t].ingress
  BY <1>5, <1>7
<1> HIDE DEF s, i
<1>9. ASSUME NEW t \in Services, ClusterOf[t] = c PROVE Agrees(c, t)'
  <2>0. None # t
    BY LBAssumption
  <2>1. Agrees(c, t)
    BY <1>4, <1>9 DEF KeepsIPs
  <2>2. svc'[t].ingress # svc[t].ingress => t \notin job[c].todo
    BY <1>1, <1>5, <2>1 DEF Agrees, s
  <2> QED
    BY <1>1, <1>3, <1>5, <1>7, <2>0, <2>1, <2>2 DEF Agrees
<1>10. OwnServices(c)' /\ mem'[c].pool \in {{}, IPs}
  BY <1>1, <1>3, <1>4, LBAssumption DEF KeepsIPs, OwnServices
<1> QED
  BY <1>1, <1>3, <1>6, <1>8, <1>9, <1>10, OneKeeps DEF KeepsIPs

LEMMA ServiceKeep ==
  ASSUME TypeInv, KeepInv, NEW s \in Services, CreateService(s) \/ DeleteService(s)
  PROVE  KeepInv'
<1> DEFINE c == ClusterOf[s]
<1>0. c \in Clusters
  BY LBAssumption
<1>1. /\ UNCHANGED mem /\ svc'[s].ingress = None
      /\ \A t \in Services : t # s => svc'[t] = svc[t]
      /\ \A d \in Clusters : d # c => job'[d] = job[d]
  BY DEF CreateService, DeleteService, TypeInv, TypeOK
<1>2. /\ job'[c].todo = job[c].todo /\ job'[c].snap = job[c].snap /\ job'[c].cur = job[c].cur
      /\ job'[c].ip = job[c].ip /\ job'[c].pc = job[c].pc
      /\ Busy(c) => /\ job[c].stale \subseteq job'[c].stale /\ job'[c].stale \subseteq job[c].stale \cup {s}
                    /\ svc'[s].exists \/ s \in job'[c].stale
      /\ ~svc[s].exists => svc'[s].exists
      /\ svc[s].exists /\ Busy(c) => s \in job'[c].stale
  <2>1. CASE CreateService(s)
    BY <2>1 DEF CreateService, TypeInv, TypeOK, Busy
  <2>2. CASE DeleteService(s)
    <3>1. job[c] \in Job /\ job \in [Clusters -> Job] /\ svc[s].exists
      BY <1>0, <2>2 DEF DeleteService, TypeInv, TypeOK
    <3>2. job'[c] = [job[c] EXCEPT !.stale = IF job[c].pc \in {"down", "idle"} THEN {} ELSE @ \cup {s}]
      BY <1>0, <2>2, <3>1 DEF DeleteService
    <3> HIDE DEF c
    <3> QED
      BY <1>1, <3>1, <3>2 DEF Job, Busy
  <2> QED
    BY <2>1, <2>2
<1>3. KeepsIPs(c) /\ \A t \in Services : ClusterOf[t] # c => svc'[t] = svc[t]
  BY <1>0, <1>1 DEF KeepInv
<1> HIDE DEF c
<1>4. ASSUME NEW t \in Services, ClusterOf[t] = c PROVE Agrees(c, t)'
  <2>1. Agrees(c, t) /\ (Busy(c)' <=> Busy(c))
    BY <1>2, <1>3, <1>4 DEF KeepsIPs, Busy
  <2>2. CASE t = s
    BY <1>1, <1>2, <2>1, <2>2 DEF Agrees
  <2>3. CASE t # s
    BY <1>1, <1>2, <2>1, <2>3 DEF Agrees
  <2> QED
    BY <2>2, <2>3
<1>5. OwnServices(c)' /\ mem'[c].pool \in {{}, IPs}
  BY <1>1, <1>2, <1>3 DEF KeepsIPs, OwnServices, Busy
<1> QED
  BY <1>0, <1>1, <1>3, <1>4, <1>5, OneKeeps DEF KeepsIPs

(* Pods and nodes have no part in it. *)
LEMMA FrameKeep ==
  ASSUME KeepInv, UNCHANGED <<svc, mem, job>>
  PROVE  KeepInv'
  BY DEF KeepInv, KeepsIPs, OwnServices, Agrees, Busy

LEMMA NextKeep == TypeInv /\ KeepInv /\ [Next]_vars => KeepInv'
<1> SUFFICES ASSUME TypeInv, KeepInv, [Next]_vars PROVE KeepInv'
  OBVIOUS
<1>1. ASSUME NEW c \in Clusters, SyncStep(c) PROVE KeepInv'
  BY <1>1, ReleaseKeep, QuietKeep, ExistingKeep, AssignedKeep, AllocateKeep, AssignKeep, StatusKeep
     DEF SyncStep
<1>2. (\E n \in Nodes : NodeFails(n) \/ NodeRecovers(n) \/ NodeNamed(n)) \/ UNCHANGED vars
        \/ (\E c \in Clusters, i \in IPs : PodGone(c, i)) => UNCHANGED <<svc, mem, job>>
  BY DEF NodeFails, NodeRecovers, NodeNamed, PodGone, vars
<1> QED
  BY <1>1, <1>2, FrameKeep, RestKeep, DiscoverKeep, SyncKeep, ServiceKeep DEF Next

(* The IP a service shows never changes while the service lives: for any    *)
(* clusters that share an account, any nodes with or without a providerID,  *)
(* and any number of faults of every kind.                                  *)
THEOREM IPsStable == Spec => IPNeverChanges
<1> DEFINE Stable == \A s \in Services :
              svc[s].exists /\ svc'[s].exists /\ svc[s].ingress # None
                 => svc'[s].ingress = svc[s].ingress
<1>1. TypeInv /\ KeepInv /\ [Next]_vars => [Stable]_vars
  <2> SUFFICES ASSUME TypeInv, KeepInv, [Next]_vars PROVE Stable
    OBVIOUS
  <2>1. ASSUME UNCHANGED svc PROVE Stable
    BY <2>1
  <2>2. ASSUME NEW c \in Clusters, UpdateServiceStatus(c) PROVE Stable
    BY <2>2, StatusKeep
  <2>3. ASSUME NEW s \in Services, CreateService(s) \/ DeleteService(s) PROVE Stable
    BY <2>3 DEF CreateService, DeleteService, TypeInv, TypeOK
  <2>4. ASSUME NEW c \in Clusters, SyncStep(c) PROVE UpdateServiceStatus(c) \/ UNCHANGED svc
    BY <2>4 DEF SyncStep, ReleaseIP, Released, ReconcileExisting, ReconcileAssigned, Allocate, Assign,
                CleanStaleTags, EnsureTagWithIP, Configure, CheckIPFailover, FailoverIP
  <2>5. ASSUME NEW c \in Clusters,
               Start(c) \/ DiscoverOwnedIPs(c) \/ Sync(c) \/ Shutdown(c) \/ Crash(c)
                 \/ \E i \in IPs : PodGone(c, i)
        PROVE  UNCHANGED svc
    BY <2>5 DEF Start, DiscoverOwnedIPs, Sync, Shutdown, Crash, PodGone
  <2>6. ASSUME NEW n \in Nodes, NodeFails(n) \/ NodeRecovers(n) \/ NodeNamed(n) PROVE UNCHANGED svc
    BY <2>6 DEF NodeFails, NodeRecovers, NodeNamed
  <2>7. UNCHANGED vars => UNCHANGED svc
    BY DEF vars
  <2> HIDE DEF Stable
  <2> QED
    BY <2>1, <2>2, <2>3, <2>4, <2>5, <2>6, <2>7 DEF Next
<1>2. IPNeverChanges <=> [][Stable]_vars
  BY DEF IPNeverChanges
<1> QED
  BY <1>1, <1>2, InitType, NextType, InitKeep, NextKeep, PTL DEF Spec

-----------------------------------------------------------------------------
(* Manual mode, for any clusters and any faults short of the end of a CCM.  *)
(* A CCM that runs on remembers the node of every IP that a service shows,  *)
(* so that reconcileService never gives an IP to the first healthy node     *)
(* without putting its NIC into manual mode first.  A restart, and a first  *)
(* node without a UUID, are where it does.                                  *)
NoRestart == Unnamed = {} /\ Limit["crash"] = 0 /\ Limit["stop"] = 0

(* ipAssignments has manual nodes only, and every IP that serviceIPs has.   *)
MapsTrack(c) ==
    /\ mem[c].manual \subseteq nic
    /\ \A i \in IPs : mem[c].assign[i] # None => mem[c].assign[i] \in nic
    /\ \A s \in Services : mem[c].svcIP[s] # None =>
         /\ mem[c].assign[mem[c].svcIP[s]] # None
         /\ \A t \in Services : mem[c].svcIP[t] = mem[c].svcIP[s] => t = s

(* serviceIPs has every IP that a service shows, or showed when the sync    *)
(* listed it, and none is released before all shown ones are listed.        *)
ShownTrack(c) ==
    /\ \A s \in Services : ClusterOf[s] = c /\ svc[s].ingress # None =>
         mem[c].svcIP[s] = svc[s].ingress
    /\ \A s \in job[c].todo : job[c].snap[s] # None => mem[c].svcIP[s] = job[c].snap[s]
    /\ job[c].pc = "release" =>
         \A s \in Services : ClusterOf[s] = c /\ svc[s].ingress # None => s \in job[c].todo

(* The IP the sync works with is unassigned until it is in both maps; a pod *)
(* is placed after the node went into manual mode.                          *)
WorkTracks(c) ==
    /\ Busy(c) => job[c].first # None
    /\ job[c].pc = "assign" =>
         mem[c].assign[job[c].ip] = None /\ mem[c].svcIP[job[c].cur] = None
    /\ job[c].pc \in {"clean", "tag", "configure", "status"} =>
         mem[c].svcIP[job[c].cur] = job[c].ip
    /\ job[c].pc = "configure" \/ (job[c].pc \in {"clean", "tag"} /\ job[c].new) =>
         job[c].first \in nic

Tracks(c) == MapsTrack(c) /\ ShownTrack(c) /\ WorkTracks(c)

TrackInv == named = Nodes /\ PodsOnManualNodes /\ \A c \in Clusters : Tracks(c)

LEMMA InitTrack == ASSUME NoRestart PROVE Init => TrackInv
<1> SUFFICES ASSUME Init PROVE TrackInv
  OBVIOUS
<1>1. named = Nodes /\ PodsOnManualNodes
  BY DEF Init, NoRestart, PodsOnManualNodes
<1>2. \A c \in Clusters : /\ mem[c].manual = {} /\ job[c].pc = "down" /\ job[c].todo = {}
                          /\ \A i \in IPs : mem[c].assign[i] = None
                          /\ \A s \in Services : mem[c].svcIP[s] = None
  BY DEF Init, Blank, AtRest
<1>3. \A s \in Services : svc[s].ingress = None
  BY DEF Init
<1> QED
  BY <1>1, <1>2, <1>3 DEF TrackInv, Tracks, MapsTrack, ShownTrack, WorkTracks, Busy

(* What one CCM does concerns its memory, its sync and its services, and    *)
(* manual mode is never taken back.                                         *)
LEMMA OneTracks ==
  ASSUME TrackInv, NEW c \in Clusters, Tracks(c)', PodsOnManualNodes', named' = named,
         nic \subseteq nic',
         \A d \in Clusters : d # c => mem'[d] = mem[d] /\ job'[d] = job[d],
         \A s \in Services : ClusterOf[s] # c => svc'[s] = svc[s]
  PROVE  TrackInv'
<1> SUFFICES ASSUME NEW d \in Clusters, d # c PROVE Tracks(d)'
  BY DEF TrackInv
<1>1. Tracks(d) /\ mem'[d] = mem[d] /\ job'[d] = job[d]
  BY DEF TrackInv
<1>2. MapsTrack(d)'
  BY <1>1 DEF Tracks, MapsTrack
<1>3. ShownTrack(d)'
  BY <1>1 DEF Tracks, ShownTrack
<1>4. WorkTracks(d)'
  BY <1>1 DEF Tracks, WorkTracks, Busy
<1> QED
  BY <1>2, <1>3, <1>4 DEF Tracks

(* Pods stay where they are, go, or are placed on a node in manual mode.    *)
LEMMA PodTrack ==
  ASSUME TypeInv, PodsOnManualNodes, nic \subseteq nic', NEW c \in Clusters, NEW i \in IPs, NEW q,
         q = NoPod \/ q.node \in nic', pod' = [pod EXCEPT ![c][i] = q]
  PROVE  PodsOnManualNodes'
  BY DEF PodsOnManualNodes, TypeInv, TypeOK

LEMMA TerminatedTrack ==
  ASSUME TypeInv, PodsOnManualNodes, nic \subseteq nic', NEW c \in Clusters, NEW i \in IPs,
         NEW p \in {NoPod, pod[c][i]}
  PROVE  /\ p = NoPod \/ p.node \in nic'
         /\ Terminated(p) = NoPod \/ Terminated(p).node \in nic'
<1>1. p \in Pod
  <2>1. NoPod \in Pod
    BY DEF NoPod, Pod, MaybeNode
  <2>2. pod[c][i] \in Pod
    BY Parts
  <2> QED
    BY <2>1, <2>2
<1>2. p = NoPod \/ p.node \in nic'
  BY DEF PodsOnManualNodes
<1> QED
  BY <1>1, <1>2 DEF Terminated, Pod

LEMMA PlaceTrack ==
  ASSUME TypeInv, PodsOnManualNodes, nic \subseteq nic', NEW c \in Clusters, NEW i \in IPs,
         NEW n \in nic',
         \/ \E p \in {NoPod, pod[c][i]} : ConfigureIPOnNode(c, i, n, p)
         \/ EnsureIPConfigured(c, i, n)
  PROVE  PodsOnManualNodes'
<1>1. \A p \in {NoPod, pod[c][i]} : /\ p = NoPod \/ p.node \in nic'
                                    /\ Terminated(p) = NoPod \/ Terminated(p).node \in nic'
  BY TerminatedTrack
<1>2. [node |-> n, terminating |-> FALSE].node \in nic'
  OBVIOUS
<1>3. ASSUME NEW p \in {NoPod, pod[c][i]}, ConfigureIPOnNode(c, i, n, p)
      PROVE  \E q : (q = NoPod \/ q.node \in nic') /\ pod' = [pod EXCEPT ![c][i] = q]
  BY <1>1, <1>2, <1>3 DEF ConfigureIPOnNode
<1>4. EnsureIPConfigured(c, i, n) =>
        \/ UNCHANGED pod
        \/ \E q : (q = NoPod \/ q.node \in nic') /\ pod' = [pod EXCEPT ![c][i] = q]
  BY <1>1, <1>2, <1>3 DEF EnsureIPConfigured
<1>5. UNCHANGED pod => PodsOnManualNodes'
  BY DEF PodsOnManualNodes
<1> QED
  BY <1>3, <1>4, <1>5, PodTrack

(* The sync moves on with what it has, or ends. *)
LEMMA MoveTrack ==
  ASSUME TypeInv, TrackInv, NEW c \in Clusters, UNCHANGED <<svc, named, nic, mem>>, PodsOnManualNodes',
         \A d \in Clusters : d # c => job'[d] = job[d],
         job'[c].todo = {} \/ (job'[c].todo \subseteq job[c].todo /\ job'[c].snap = job[c].snap),
         Busy(c)' => Busy(c) /\ job'[c].first = job[c].first,
         job'[c].pc \notin {"release", "assign"},
         job'[c].pc \in {"clean", "tag", "configure", "status"} =>
           /\ job[c].pc \in {"clean", "tag", "configure", "status"}
           /\ job'[c].cur = job[c].cur /\ job'[c].ip = job[c].ip,
         job'[c].pc = "configure" \/ (job'[c].pc \in {"clean", "tag"} /\ job'[c].new) =>
           job[c].pc = "configure" \/ (job[c].pc \in {"clean", "tag"} /\ job[c].new)
  PROVE  TrackInv'
<1>1. Tracks(c)
  BY DEF TrackInv
<1>2. MapsTrack(c)'
  BY <1>1 DEF Tracks, MapsTrack
<1>3. ShownTrack(c)'
  BY <1>1 DEF Tracks, ShownTrack
<1>4. WorkTracks(c)'
  <2>1. Busy(c)' => job'[c].first # None
    BY <1>1 DEF Tracks, WorkTracks
  <2>2. job'[c].pc = "configure" \/ (job'[c].pc \in {"clean", "tag"} /\ job'[c].new) =>
          job'[c].first \in nic
    BY <1>1 DEF Tracks, WorkTracks, Busy
  <2>3. job'[c].pc \in {"clean", "tag", "configure", "status"} =>
          mem[c].svcIP[job'[c].cur] = job'[c].ip
    BY <1>1 DEF Tracks, WorkTracks
  <2> QED
    BY <2>1, <2>2, <2>3 DEF WorkTracks
<1> QED
  BY <1>2, <1>3, <1>4, OneTracks DEF Tracks

-----------------------------------------------------------------------------
(* One lemma per action. *)

(* A CCM that starts for the first time finds no service with an IP. *)
LEMMA StartTrack ==
  ASSUME TypeInv, TrackInv, NEW c \in Clusters, Start(c)
  PROVE  TrackInv'
<1>0. /\ UNCHANGED <<svc, named, nic, pod>> /\ mem[c] = Blank /\ Tracks(c)
  BY DEF Start, TypeInv, TypeOK, TrackInv
<1>1. /\ job'[c].pc = "idle" /\ job'[c].todo = {}
      /\ \A d \in Clusters : d # c => mem'[d] = mem[d] /\ job'[d] = job[d]
  BY DEF Start, SetJob, AtRest, TypeInv, TypeOK
<1>2. \A s \in Services : ClusterOf[s] = c => svc[s].ingress = None
  BY <1>0 DEF Tracks, ShownTrack, Blank
<1>3. RecoverServiceState(c, IPs) = [s \in Services |-> None]
  BY <1>2 DEF RecoverServiceState, ServicesOf
<1>4. /\ mem'[c].assign = [i \in IPs |-> None] /\ mem'[c].manual = {}
      /\ mem'[c].svcIP = [s \in Services |-> None]
  <2>1. \/ mem' = [mem EXCEPT ![c] = Blank]
        \/ mem' = [mem EXCEPT ![c] = [Blank EXCEPT !.pool = IPs]]
        \/ mem' = [mem EXCEPT ![c] = [Blank EXCEPT !.pool = IPs, !.svcIP = RecoverServiceState(c, IPs)]]
    BY DEF Start
  <2>2. \/ mem'[c] = Blank
        \/ mem'[c] = [Blank EXCEPT !.pool = IPs]
        \/ mem'[c] = [Blank EXCEPT !.pool = IPs, !.svcIP = [s \in Services |-> None]]
    BY <1>3, <2>1 DEF TypeInv, TypeOK
  <2>3. CASE mem'[c] = Blank
    BY <2>3 DEF Blank
  <2>4. CASE mem'[c] = [Blank EXCEPT !.pool = IPs]
    BY <2>4 DEF Blank
  <2>5. CASE mem'[c] = [Blank EXCEPT !.pool = IPs, !.svcIP = [s \in Services |-> None]]
    BY <2>5 DEF Blank
  <2> QED
    BY <2>2, <2>3, <2>4, <2>5
<1>5. Tracks(c)'
  BY <1>0, <1>1, <1>2, <1>4 DEF Tracks, MapsTrack, ShownTrack, WorkTracks, Busy
<1>6. PodsOnManualNodes'
  BY <1>0 DEF TrackInv, PodsOnManualNodes
<1> QED
  BY <1>0, <1>1, <1>5, <1>6, OneTracks

LEMMA DiscoverTrack ==
  ASSUME TypeInv, TrackInv, NEW c \in Clusters, DiscoverOwnedIPs(c)
  PROVE  TrackInv'
<1>1. UNCHANGED <<svc, named, nic, pod, job>> /\ \E P : mem' = [mem EXCEPT ![c].pool = P]
  BY DEF DiscoverOwnedIPs
<1>2. /\ \A d \in Clusters : d # c => mem'[d] = mem[d]
      /\ mem'[c].assign = mem[c].assign /\ mem'[c].svcIP = mem[c].svcIP
      /\ mem'[c].manual = mem[c].manual
  BY <1>1 DEF TypeInv, TypeOK, Memory
<1>3. Tracks(c)'
  BY <1>1, <1>2 DEF TrackInv, Tracks, MapsTrack, ShownTrack, WorkTracks, Busy
<1>4. PodsOnManualNodes'
  BY <1>1 DEF TrackInv, PodsOnManualNodes
<1> QED
  BY <1>1, <1>2, <1>3, <1>4, OneTracks

(* A sync lists what serviceIPs knows. *)
LEMMA SyncTrack ==
  ASSUME TypeInv, KeepInv, TrackInv, NEW c \in Clusters, Sync(c)
  PROVE  TrackInv'
<1>0. None \notin Nodes
  BY LBAssumption
<1>1. /\ UNCHANGED <<svc, named, nic, pod, mem>> /\ Tracks(c)
      /\ \A d \in Clusters : d # c => job'[d] = job[d]
      /\ job'[c].todo = ServicesOf(c) /\ job'[c].pc = "release"
      /\ \A s \in ServicesOf(c) : job'[c].snap[s] = svc[s].ingress
  BY DEF Sync, SetJob, AtRest, ServicesOf, TypeInv, TypeOK, TrackInv
<1>2. job'[c].first # None
  <2>1. PICK n \in up \cap NodesOf(c) : job'[c].first = IF n \in named THEN n ELSE None
    BY DEF Sync, SetJob, AtRest, TypeInv, TypeOK
  <2> QED
    BY <1>0, <2>1 DEF TrackInv, TypeInv, TypeOK
<1>3. \A s \in Services : ClusterOf[s] = c /\ svc[s].ingress # None => s \in ServicesOf(c)
  BY DEF KeepInv, KeepsIPs, Agrees, ServicesOf
<1>4. MapsTrack(c)' /\ WorkTracks(c)'
  BY <1>1, <1>2 DEF Tracks, MapsTrack, WorkTracks
<1>5. ShownTrack(c)'
  BY <1>1, <1>3 DEF Tracks, ShownTrack, ServicesOf
<1>6. PodsOnManualNodes'
  BY <1>1 DEF TrackInv, PodsOnManualNodes
<1> QED
  BY <1>1, <1>4, <1>5, <1>6, OneTracks DEF Tracks

(* What is released is shown by no service, and assigned to no other. *)
LEMMA ReleaseTrack ==
  ASSUME TypeInv, TrackInv, NEW c \in Clusters, ReleaseIP(c)
  PROVE  TrackInv'
<1>0. None \notin IPs /\ UNCHANGED <<svc, named, nic, job>> /\ job[c].pc = "release" /\ Tracks(c)
  BY LBAssumption DEF ReleaseIP, At, TrackInv
<1>1. PICK s \in Gone(c) :
        /\ pod' = pod \/ pod' = [pod EXCEPT ![c][mem[c].svcIP[s]] = Terminated(@)]
        /\ mem' = [mem EXCEPT ![c].svcIP[s] = None, ![c].assign[mem[c].svcIP[s]] = None]
  BY DEF ReleaseIP
<1> DEFINE ip == mem[c].svcIP[s]
<1>2. s \in Services /\ ip \in IPs /\ s \notin job[c].todo
  BY Parts DEF Gone, MaybeIP
<1>3. mem' = [mem EXCEPT ![c].svcIP[s] = None, ![c].assign[ip] = None]
  BY <1>1
<1>4. \A t \in Services : mem[c].svcIP[t] = ip => t = s
  BY <1>0, <1>2 DEF Tracks, MapsTrack
<1>5. ClusterOf[s] = c => svc[s].ingress = None
  BY <1>0, <1>2 DEF Tracks, ShownTrack
<1>6. PodsOnManualNodes'
  <2>1. CASE pod' = pod
    BY <1>0, <2>1 DEF TrackInv, PodsOnManualNodes
  <2>2. CASE pod' = [pod EXCEPT ![c][ip] = Terminated(@)]
    <3>1. pod' = [pod EXCEPT ![c][ip] = Terminated(pod[c][ip])]
      BY <1>2, <2>2
    <3>2. Terminated(pod[c][ip]) = NoPod \/ Terminated(pod[c][ip]).node \in nic'
      BY <1>0, <1>2, TerminatedTrack DEF TrackInv
    <3> QED
      BY <1>0, <1>2, <3>1, <3>2, PodTrack DEF TrackInv
  <2> QED
    BY <1>1, <2>1, <2>2
<1> HIDE DEF ip
<1>7. /\ \A d \in Clusters : d # c => mem'[d] = mem[d]
      /\ mem'[c].manual = mem[c].manual
      /\ mem'[c].svcIP[s] = None /\ \A t \in Services : t # s => mem'[c].svcIP[t] = mem[c].svcIP[t]
      /\ mem'[c].assign[ip] = None /\ \A i \in IPs : i # ip => mem'[c].assign[i] = mem[c].assign[i]
  BY <1>2, <1>3 DEF TypeInv, TypeOK, Memory
<1>8. MapsTrack(c)'
  <2>1. MapsTrack(c) /\ \A t \in Services : mem[c].svcIP[t] \in MaybeIP
    BY <1>0, Parts DEF Tracks
  <2>2. \A i \in IPs : mem'[c].assign[i] # None => mem'[c].assign[i] \in nic
    BY <1>7, <2>1 DEF MapsTrack
  <2>3. ASSUME NEW t \in Services, mem'[c].svcIP[t] # None
        PROVE  /\ mem'[c].assign[mem'[c].svcIP[t]] # None
               /\ \A u \in Services : mem'[c].svcIP[u] = mem'[c].svcIP[t] => u = t
    <3>1. t # s /\ mem'[c].svcIP[t] = mem[c].svcIP[t] /\ mem[c].svcIP[t] \in IPs
      BY <1>7, <2>1, <2>3 DEF MaybeIP
    <3>2. mem[c].svcIP[t] # ip
      BY <1>4, <3>1
    <3>3. mem'[c].assign[mem[c].svcIP[t]] = mem[c].assign[mem[c].svcIP[t]]
      BY <1>7, <3>1, <3>2
    <3>4. \A u \in Services : mem'[c].svcIP[u] = mem'[c].svcIP[t] => mem'[c].svcIP[u] = mem[c].svcIP[u]
      BY <1>7, <2>3
    <3> QED
      BY <2>1, <2>3, <3>1, <3>3, <3>4 DEF MapsTrack
  <2> QED
    BY <1>0, <1>7, <2>1, <2>2, <2>3 DEF MapsTrack
<1>9. ShownTrack(c)'
  <2>1. \A t \in job[c].todo : t \in Services
    BY Parts
  <2> QED
    BY <1>0, <1>2, <1>5, <1>7, <2>1 DEF Tracks, ShownTrack
<1>10. WorkTracks(c)'
  BY <1>0 DEF Tracks, WorkTracks, Busy
<1> QED
  BY <1>0, <1>6, <1>7, <1>8, <1>9, <1>10, OneTracks DEF Tracks

LEMMA QuietTrack ==
  ASSUME TypeInv, TrackInv, NEW c \in Clusters,
         Released(c) \/ CleanStaleTags(c) \/ EnsureTagWithIP(c) \/ CheckIPFailover(c)
  PROVE  TrackInv'
<1>0. /\ UNCHANGED <<svc, named, nic, pod, mem>> /\ job[c] \in Job /\ Busy(c)
      /\ job \in [Clusters -> Job]
  BY DEF Released, CleanStaleTags, EnsureTagWithIP, CheckIPFailover, At, Busy, TypeInv, TypeOK
<1>1. PodsOnManualNodes'
  BY <1>0 DEF TrackInv, PodsOnManualNodes
<1>2. CASE Released(c)
  <2>1. job'[c] = [job[c] EXCEPT !.pc = "services"] /\ \A d \in Clusters : d # c => job'[d] = job[d]
    BY <1>0, <1>2 DEF Released, SetJob
  <2> QED
    BY <1>0, <1>1, <2>1, MoveTrack DEF Job
<1>3. CASE CleanStaleTags(c)
  <2>1. /\ job'[c] = [job[c] EXCEPT !.pc = "tag"] /\ \A d \in Clusters : d # c => job'[d] = job[d]
        /\ job[c].pc = "clean"
    BY <1>0, <1>3 DEF CleanStaleTags, SetJob, At
  <2> QED
    BY <1>0, <1>1, <2>1, MoveTrack DEF Job
<1>4. CASE EnsureTagWithIP(c)
  <2>1. /\ \A d \in Clusters : d # c => job'[d] = job[d]
        /\ \/ job[c].new /\ job[c].pc = "tag" /\ job'[c] = [job[c] EXCEPT !.pc = "configure"]
           \/ job'[c] = [job[c] EXCEPT !.pc = "services", !.cur = None, !.ip = None, !.new = FALSE]
    BY <1>0, <1>4 DEF EnsureTagWithIP, NextService, SetJob, At
  <2> QED
    BY <1>0, <1>1, <2>1, MoveTrack DEF Job
<1>5. CASE CheckIPFailover(c)
  <2>1. /\ \A d \in Clusters : d # c => job'[d] = job[d]
        /\ \/ job'[c] = AtRest("idle")
           \/ job'[c] = [job[c] EXCEPT !.pc = "failover", !.ips = Misplaced(c)]
    BY <1>0, <1>5 DEF CheckIPFailover, SetJob
  <2>2. CASE job'[c] = AtRest("idle")
    <3>1. job'[c].pc = "idle" /\ job'[c].todo = {}
      BY <2>2 DEF AtRest
    <3> QED
      BY <1>0, <1>1, <2>1, <3>1, MoveTrack DEF Busy
  <2>3. CASE job'[c] = [job[c] EXCEPT !.pc = "failover", !.ips = Misplaced(c)]
    BY <1>0, <1>1, <2>1, <2>3, MoveTrack DEF Job
  <2> QED
    BY <2>1, <2>2, <2>3
<1> QED
  BY <1>2, <1>3, <1>4, <1>5

LEMMA ConfigureTrack ==
  ASSUME TypeInv, TrackInv, NEW c \in Clusters, Configure(c)
  PROVE  TrackInv'
<1>0. /\ UNCHANGED <<svc, named, nic, mem>> /\ job[c] \in Job /\ Busy(c) /\ job[c].pc = "configure"
      /\ job[c].ip \in IPs /\ Tracks(c)
  BY Parts DEF Configure, At, Busy, JobGood, TrackInv
<1>1. /\ job'[c] = [job[c] EXCEPT !.pc = "status"] /\ \A d \in Clusters : d # c => job'[d] = job[d]
  BY DEF Configure, SetJob, TypeInv, TypeOK
<1>2. job[c].first \in nic'
  BY <1>0 DEF Tracks, WorkTracks
<1>3. PodsOnManualNodes'
  BY <1>0, <1>2, PlaceTrack DEF Configure, TrackInv
<1> QED
  BY <1>0, <1>1, <1>3, MoveTrack DEF Job

(* Taking up a service that has its IP in serviceIPs. *)
LEMMA TakeTrack ==
  ASSUME TypeInv, TrackInv, NEW c \in Clusters, NEW s \in job[c].todo, NEW i \in IPs,
         job[c].pc = "services", mem[c].svcIP[s] = i, NEW l \in {"clean", "status"},
         SetJob(c, [job[c] EXCEPT !.todo = @ \ {s}, !.pc = l, !.cur = s, !.ip = i]),
         UNCHANGED <<svc, named, nic, mem>>, PodsOnManualNodes'
  PROVE  TrackInv'
<1>0. job[c] \in Job /\ Tracks(c) /\ ~job[c].new /\ job[c].todo \subseteq Services
  BY Parts DEF TrackInv, JobGood
<1>1. /\ job'[c].todo = job[c].todo \ {s} /\ job'[c].pc = l /\ job'[c].cur = s /\ job'[c].ip = i
      /\ job'[c].snap = job[c].snap /\ job'[c].first = job[c].first /\ job'[c].new = job[c].new
      /\ \A d \in Clusters : d # c => job'[d] = job[d]
  BY <1>0 DEF SetJob, Job, TypeInv, TypeOK
<1>2. MapsTrack(c)' /\ ShownTrack(c)'
  BY <1>0, <1>1 DEF Tracks, MapsTrack, ShownTrack
<1>3. WorkTracks(c)'
  BY <1>0, <1>1 DEF Tracks, WorkTracks, Busy
<1> QED
  BY <1>1, <1>2, <1>3, OneTracks DEF Tracks

(* A service that shows an IP of the pool has a node for it, in manual mode.*)
LEMMA ExistingTrack ==
  ASSUME TypeInv, TrackInv, NEW c \in Clusters, ReconcileExisting(c)
  PROVE  TrackInv'
<1>1. PICK s \in job[c].todo :
        LET ip      == job[c].snap[s]
            tracked == mem[c].assign[ip] # None
            node    == IF tracked THEN mem[c].assign[ip] ELSE job[c].first
        IN  /\ ShowsPoolIP(c, s)
            /\ mem' = IF tracked \/ node = None THEN mem
                      ELSE [mem EXCEPT ![c].assign[ip] = node, ![c].svcIP[s] = ip]
            /\ IF node # None
               THEN EnsureIPConfigured(c, ip, node)
               ELSE UNCHANGED <<pod, faults>>
            /\ SetJob(c, IF node = None THEN [job[c] EXCEPT !.todo = @ \ {s}]
                         ELSE [job[c] EXCEPT !.todo = @ \ {s}, !.pc = "clean",
                                             !.cur = s, !.ip = ip])
  BY DEF ReconcileExisting
<1> DEFINE ip == job[c].snap[s]
<1>2. /\ s \in Services /\ ip \in IPs /\ job[c].pc = "services" /\ UNCHANGED <<svc, named, nic>>
      /\ Tracks(c) /\ ip # None
  BY <1>1, Parts, LBAssumption DEF ShowsPoolIP, ReconcileExisting, At, TrackInv
<1>3. mem[c].svcIP[s] = ip
  BY <1>2 DEF Tracks, ShownTrack
<1>4. mem[c].assign[ip] # None /\ mem[c].assign[ip] \in nic
  BY <1>2, <1>3 DEF Tracks, MapsTrack
<1>5. /\ mem' = mem /\ EnsureIPConfigured(c, ip, mem[c].assign[ip])
      /\ SetJob(c, [job[c] EXCEPT !.todo = @ \ {s}, !.pc = "clean", !.cur = s, !.ip = ip])
  BY <1>1, <1>4
<1> HIDE DEF ip
<1>6. PodsOnManualNodes'
  BY <1>2, <1>4, <1>5, PlaceTrack DEF TrackInv
<1> QED
  BY <1>2, <1>3, <1>5, <1>6, TakeTrack

LEMMA AssignedTrack ==
  ASSUME TypeInv, TrackInv, NEW c \in Clusters, ReconcileAssigned(c)
  PROVE  TrackInv'
<1>1. PICK s \in job[c].todo :
        /\ HasIP(c, s)
        /\ SetJob(c, [job[c] EXCEPT !.todo = @ \ {s}, !.pc = "status", !.cur = s,
                                    !.ip = mem[c].svcIP[s]])
  BY DEF ReconcileAssigned
<1>2. /\ s \in Services /\ mem[c].svcIP[s] \in IPs /\ job[c].pc = "services"
      /\ UNCHANGED <<svc, named, nic, mem, pod>>
  BY <1>1, Parts DEF HasIP, MaybeIP, ReconcileAssigned, At
<1>3. PodsOnManualNodes'
  BY <1>2 DEF TrackInv, PodsOnManualNodes
<1> QED
  BY <1>1, <1>2, <1>3, TakeTrack

LEMMA AllocateTrack ==
  ASSUME TypeInv, TrackInv, NEW c \in Clusters, Allocate(c)
  PROVE  TrackInv'
<1>1. PICK s \in job[c].todo :
        /\ ~HasIP(c, s)
        /\ \/ SetJob(c, [job[c] EXCEPT !.todo = @ \ {s}])
           \/ \E i \in Unused(c, s) :
                SetJob(c, [[job[c] EXCEPT !.todo = @ \ {s}] EXCEPT
                             !.cur = s, !.ip = i, !.new = TRUE, !.pc = AfterAllocate(c)])
  BY DEF Allocate, Available
<1>2. /\ s \in Services /\ UNCHANGED <<svc, named, nic, mem, pod>> /\ job[c] \in Job
      /\ job[c].pc = "services" /\ Busy(c) /\ Tracks(c) /\ job[c].todo \subseteq Services
  BY Parts DEF Allocate, At, Busy, TrackInv
<1>3. PodsOnManualNodes'
  BY <1>2 DEF TrackInv, PodsOnManualNodes
<1>4. CASE SetJob(c, [job[c] EXCEPT !.todo = @ \ {s}])
  <2>1. /\ job'[c] = [job[c] EXCEPT !.todo = @ \ {s}]
        /\ \A d \in Clusters : d # c => job'[d] = job[d]
    BY <1>4 DEF SetJob, TypeInv, TypeOK
  <2> QED
    BY <1>2, <1>3, <2>1, MoveTrack DEF Job
<1>5. ASSUME NEW i \in Unused(c, s),
             SetJob(c, [[job[c] EXCEPT !.todo = @ \ {s}] EXCEPT
                          !.cur = s, !.ip = i, !.new = TRUE, !.pc = AfterAllocate(c)])
      PROVE  TrackInv'
  <2>1. AfterAllocate(c) = "assign" /\ mem[c].assign[i] = None /\ mem[c].svcIP[s] = None
    BY <1>1, <1>2 DEF AfterAllocate, Tracks, WorkTracks, Unused, HasIP
  <2>2. /\ job'[c] = [[job[c] EXCEPT !.todo = @ \ {s}] EXCEPT
                        !.cur = s, !.ip = i, !.new = TRUE, !.pc = "assign"]
        /\ \A d \in Clusters : d # c => job'[d] = job[d]
    BY <1>5, <2>1 DEF SetJob, TypeInv, TypeOK
  <2>3. /\ job'[c].todo = job[c].todo \ {s} /\ job'[c].snap = job[c].snap /\ job'[c].pc = "assign"
        /\ job'[c].cur = s /\ job'[c].ip = i /\ job'[c].first = job[c].first
    BY <1>2, <2>2 DEF Job
  <2>4. MapsTrack(c)' /\ ShownTrack(c)'
    BY <1>2, <2>3 DEF Tracks, MapsTrack, ShownTrack
  <2>5. WorkTracks(c)'
    BY <1>2, <2>1, <2>3 DEF Tracks, WorkTracks
  <2> QED
    BY <1>2, <1>3, <2>2, <2>4, <2>5, OneTracks DEF Tracks
<1> QED
  BY <1>1, <1>4, <1>5

(* The node is in manual mode when the IP enters the maps. *)
LEMMA AssignTrack ==
  ASSUME TypeInv, KeepInv, TrackInv, NEW c \in Clusters, Assign(c)
  PROVE  TrackInv'
<1> DEFINE s == job[c].cur
           i == job[c].ip
           n == job[c].first
<1>0. None \notin IPs /\ None \notin Nodes
  BY LBAssumption
<1>1. /\ s \in Services /\ i \in IPs /\ n \in Nodes /\ job[c] \in Job /\ job[c].pc = "assign"
      /\ UNCHANGED <<svc, named, pod>> /\ Tracks(c) /\ Busy(c) /\ job[c].todo \subseteq Services
  BY Parts DEF Assign, At, JobGood, TrackInv, Busy
<1>2. nic \subseteq nic'
  BY DEF Assign, EnsureNodeManualMode
<1>3. PodsOnManualNodes'
  BY <1>1, <1>2 DEF TrackInv, PodsOnManualNodes
<1>4. CASE /\ EnsureNodeManualMode(c, n)
           /\ mem' = [mem EXCEPT ![c].assign[i] = n, ![c].svcIP[s] = i, ![c].manual = @ \cup {n}]
           /\ SetJob(c, [job[c] EXCEPT !.pc = "clean"])
  <2>1. /\ job'[c].todo = job[c].todo /\ job'[c].snap = job[c].snap /\ job'[c].pc = "clean"
        /\ job'[c].cur = s /\ job'[c].ip = i /\ job'[c].first = n
        /\ \A d \in Clusters : d # c => job'[d] = job[d]
    BY <1>1, <1>4 DEF SetJob, Job, TypeInv, TypeOK
  <2>2. n \in nic'
    BY <1>1, <1>4 DEF EnsureNodeManualMode, Tracks, MapsTrack
  <2>3. mem[c].assign[i] = None /\ mem[c].svcIP[s] = None
    BY <1>1 DEF Tracks, WorkTracks
  <2>4. s \notin job[c].todo
    BY <1>1 DEF KeepInv, KeepsIPs, OwnServices, Agrees
  <2> HIDE DEF s, i, n
  <2>5. /\ \A d \in Clusters : d # c => mem'[d] = mem[d]
        /\ mem'[c].manual = mem[c].manual \cup {n}
        /\ mem'[c].svcIP[s] = i /\ \A t \in Services : t # s => mem'[c].svcIP[t] = mem[c].svcIP[t]
        /\ mem'[c].assign[i] = n /\ \A k \in IPs : k # i => mem'[c].assign[k] = mem[c].assign[k]
    BY <1>1, <1>4 DEF TypeInv, TypeOK, Memory
  <2>6. MapsTrack(c)'
    <3>1. MapsTrack(c) /\ \A t \in Services : mem[c].svcIP[t] \in MaybeIP
      BY <1>1, Parts DEF Tracks
    <3>2. \A t \in Services : mem[c].svcIP[t] # i
      BY <1>0, <1>1, <2>3, <3>1 DEF MapsTrack
    <3>3. /\ mem'[c].manual \subseteq nic'
          /\ \A k \in IPs : mem'[c].assign[k] # None => mem'[c].assign[k] \in nic'
      BY <1>2, <2>2, <2>5, <3>1 DEF MapsTrack
    <3>4. ASSUME NEW t \in Services, mem'[c].svcIP[t] # None
          PROVE  /\ mem'[c].assign[mem'[c].svcIP[t]] # None
                 /\ \A u \in Services : mem'[c].svcIP[u] = mem'[c].svcIP[t] => u = t
      <4>1. CASE t = s
        BY <1>0, <1>1, <2>5, <3>2, <4>1
      <4>2. CASE t # s
        <5>1. mem'[c].svcIP[t] = mem[c].svcIP[t] /\ mem[c].svcIP[t] \in IPs /\ mem[c].svcIP[t] # i
          BY <2>5, <3>1, <3>2, <3>4, <4>2 DEF MaybeIP
        <5>2. mem'[c].assign[mem[c].svcIP[t]] = mem[c].assign[mem[c].svcIP[t]]
          BY <2>5, <5>1
        <5>3. \A u \in Services : mem'[c].svcIP[u] = mem'[c].svcIP[t] => mem[c].svcIP[u] = mem[c].svcIP[t]
          BY <2>5, <5>1
        <5> QED
          BY <3>1, <3>4, <5>1, <5>2, <5>3 DEF MapsTrack
      <4> QED
        BY <4>1, <4>2
    <3> QED
      BY <3>3, <3>4 DEF MapsTrack
  <2>7. ShownTrack(c)'
    <3>1. \A t \in Services : ClusterOf[t] = c /\ svc[t].ingress # None =>
            t # s /\ mem[c].svcIP[t] = svc[t].ingress
      BY <1>1, <2>3 DEF Tracks, ShownTrack
    <3>2. \A t \in job[c].todo : t \in Services /\ t # s
      BY <1>1, <2>4
    <3> QED
      BY <1>1, <2>1, <2>5, <3>1, <3>2 DEF Tracks, ShownTrack
  <2>8. WorkTracks(c)'
    BY <1>0, <1>1, <2>1, <2>2, <2>5 DEF WorkTracks
  <2> QED
    BY <1>1, <1>2, <1>3, <2>1, <2>5, <2>6, <2>7, <2>8, OneTracks DEF Tracks
<1>5. CASE UNCHANGED mem /\ NextService(c)
  <2>1. /\ job'[c] = [job[c] EXCEPT !.pc = "services", !.cur = None, !.ip = None, !.new = FALSE]
        /\ \A d \in Clusters : d # c => job'[d] = job[d]
    BY <1>5 DEF NextService, SetJob, TypeInv, TypeOK
  <2>2. /\ job'[c].todo = job[c].todo /\ job'[c].snap = job[c].snap /\ job'[c].pc = "services"
        /\ job'[c].first = n
    BY <1>1, <2>1 DEF Job
  <2>3. MapsTrack(c)' /\ ShownTrack(c)'
    BY <1>1, <1>2, <1>5, <2>2 DEF Tracks, MapsTrack, ShownTrack
  <2>4. WorkTracks(c)'
    BY <1>0, <1>1, <2>2 DEF WorkTracks
  <2> HIDE DEF s, i, n
  <2> QED
    BY <1>1, <1>2, <1>3, <1>5, <2>1, <2>3, <2>4, OneTracks DEF Tracks
<1> QED
  BY <1>4, <1>5 DEF Assign

(* The status shows what serviceIPs has. *)
LEMMA StatusTrack ==
  ASSUME TypeInv, KeepInv, TrackInv, NEW c \in Clusters, UpdateServiceStatus(c)
  PROVE  TrackInv'
<1> DEFINE s == job[c].cur
           i == job[c].ip
<1>1. /\ s \in Services /\ i \in IPs /\ job[c] \in Job /\ job[c].pc = "status" /\ Busy(c)
      /\ UNCHANGED <<named, nic, pod, mem>> /\ Tracks(c)
  BY Parts DEF UpdateServiceStatus, At, JobGood, TrackInv, Busy
<1>2. svc' = svc \/ svc' = [svc EXCEPT ![s].ingress = i]
  BY DEF UpdateServiceStatus
<1>3. mem[c].svcIP[s] = i /\ ClusterOf[s] = c
  BY <1>1 DEF Tracks, WorkTracks, KeepInv, KeepsIPs, OwnServices
<1>4. /\ job'[c] = [job[c] EXCEPT !.pc = "services", !.cur = None, !.ip = None, !.new = FALSE]
      /\ \A d \in Clusters : d # c => job'[d] = job[d]
  BY DEF UpdateServiceStatus, NextService, SetJob, TypeInv, TypeOK
<1>5. /\ job'[c].todo = job[c].todo /\ job'[c].snap = job[c].snap /\ job'[c].pc = "services"
      /\ job'[c].first = job[c].first
  BY <1>1, <1>4 DEF Job
<1> HIDE DEF s, i
<1>6. /\ \A t \in Services : svc'[t].ingress = svc[t].ingress \/ (t = s /\ svc'[t].ingress = i)
      /\ \A t \in Services : ClusterOf[t] # c => svc'[t] = svc[t]
  BY <1>1, <1>2, <1>3 DEF TypeInv, TypeOK, Service
<1>7. MapsTrack(c)' /\ ShownTrack(c)'
  BY <1>1, <1>3, <1>5, <1>6 DEF Tracks, MapsTrack, ShownTrack
<1>8. WorkTracks(c)'
  BY <1>1, <1>5 DEF Tracks, WorkTracks
<1>9. PodsOnManualNodes'
  BY <1>1 DEF TrackInv, PodsOnManualNodes
<1> QED
  BY <1>1, <1>4, <1>6, <1>7, <1>8, <1>9, OneTracks DEF Tracks

(* Failover puts the new node into manual mode before anything else. *)
LEMMA FailoverTrack ==
  ASSUME TypeInv, TrackInv, NEW c \in Clusters, FailoverIP(c)
  PROVE  TrackInv'
<1> DEFINE n == job[c].first
<1>0. None \notin Nodes
  BY LBAssumption
<1>1. PICK i \in job[c].ips :
        /\ SetJob(c, IF job[c].ips \ {i} = {} THEN AtRest("idle")
                     ELSE [job[c] EXCEPT !.ips = job[c].ips \ {i}])
        /\ \/ /\ EnsureNodeManualMode(c, n)
              /\ mem' = [mem EXCEPT ![c].assign[i] = n, ![c].manual = @ \cup {n}]
              /\ \/ ConfigureIPOnNode(c, i, n, NoPod)
                 \/ Spend("kube") /\ pod' = [pod EXCEPT ![c][i] = Terminated(@)]
                 \/ pod' = [pod EXCEPT ![c][i] = NoPod] /\ UNCHANGED faults
                 \/ Spend("kube") /\ UNCHANGED pod
           \/ Spend("cloud") /\ nic' \in {nic, nic \cup {n}} /\ UNCHANGED <<mem, pod>>
  BY DEF FailoverIP
<1>2. /\ i \in IPs /\ n \in Nodes /\ job[c] \in Job /\ job[c].pc = "failover" /\ Busy(c)
      /\ UNCHANGED <<svc, named>> /\ Tracks(c) /\ job[c].todo \subseteq Services
      /\ \A s \in Services : mem[c].svcIP[s] \in MaybeIP
  BY Parts DEF FailoverIP, At, JobGood, TrackInv, Busy
<1>3. nic \subseteq nic' /\ (mem' # mem => n \in nic')
  BY <1>1, <1>2 DEF EnsureNodeManualMode, Tracks, MapsTrack
<1>4. /\ \A d \in Clusters : d # c => job'[d] = job[d]
      /\ job'[c] = AtRest("idle") \/ job'[c] = [job[c] EXCEPT !.ips = job[c].ips \ {i}]
  BY <1>1 DEF SetJob, TypeInv, TypeOK
<1>5. \/ job'[c].pc = "idle" /\ job'[c].todo = {}
      \/ /\ job'[c].pc = "failover" /\ job'[c].todo = job[c].todo /\ job'[c].snap = job[c].snap
         /\ job'[c].first = n
  BY <1>2, <1>4 DEF AtRest, Job
<1>6. PodsOnManualNodes'
  <2>1. PodsOnManualNodes
    BY DEF TrackInv
  <2>2. CASE UNCHANGED pod
    BY <1>3, <2>1, <2>2 DEF PodsOnManualNodes
  <2>3. CASE pod' = [pod EXCEPT ![c][i] = NoPod]
    BY <1>2, <1>3, <2>1, <2>3, PodTrack
  <2>4. CASE pod' = [pod EXCEPT ![c][i] = Terminated(@)]
    <3>1. pod' = [pod EXCEPT ![c][i] = Terminated(pod[c][i])]
      BY <1>2, <2>4
    <3>2. Terminated(pod[c][i]) = NoPod \/ Terminated(pod[c][i]).node \in nic'
      BY <1>2, <1>3, <2>1, TerminatedTrack
    <3> QED
      BY <1>2, <1>3, <2>1, <3>1, <3>2, PodTrack
  <2>5. CASE EnsureNodeManualMode(c, n) /\ ConfigureIPOnNode(c, i, n, NoPod)
    <3>1. n \in nic'
      BY <1>2, <2>5 DEF EnsureNodeManualMode, Tracks, MapsTrack
    <3> QED
      BY <1>2, <1>3, <2>1, <2>5, <3>1, PlaceTrack
  <2> QED
    BY <1>1, <2>2, <2>3, <2>4, <2>5
<1> HIDE DEF n
<1>7. /\ \A d \in Clusters : d # c => mem'[d] = mem[d]
      /\ mem'[c].svcIP = mem[c].svcIP
      /\ \/ mem'[c] = mem[c]
         \/ /\ n \in nic' /\ mem'[c].manual = mem[c].manual \cup {n}
            /\ mem'[c].assign[i] = n /\ \A k \in IPs : k # i => mem'[c].assign[k] = mem[c].assign[k]
  <2>1. CASE mem' = mem
    BY <2>1
  <2>2. CASE mem' # mem /\ mem' = [mem EXCEPT ![c].assign[i] = n, ![c].manual = @ \cup {n}]
    BY <1>2, <1>3, <2>2 DEF TypeInv, TypeOK, Memory
  <2> QED
    BY <1>1, <2>1, <2>2
<1>8. MapsTrack(c)'
  <2>1. MapsTrack(c)
    BY <1>2 DEF Tracks
  <2>2. \A k \in IPs : mem[c].assign[k] # None => mem'[c].assign[k] # None
    BY <1>0, <1>2, <1>7
  <2>3. /\ mem'[c].manual \subseteq nic'
        /\ \A k \in IPs : mem'[c].assign[k] # None => mem'[c].assign[k] \in nic'
    BY <1>3, <1>7, <2>1 DEF MapsTrack
  <2> QED
    BY <1>2, <1>7, <2>1, <2>2, <2>3 DEF MapsTrack, MaybeIP
<1>9. ShownTrack(c)'
  BY <1>2, <1>5, <1>7 DEF Tracks, ShownTrack
<1>10. WorkTracks(c)'
  BY <1>0, <1>2, <1>5 DEF WorkTracks, Busy
<1> QED
  BY <1>2, <1>3, <1>4, <1>6, <1>7, <1>8, <1>9, <1>10, OneTracks DEF Tracks

LEMMA ServiceTrack ==
  ASSUME TypeInv, TrackInv, NEW s \in Services, CreateService(s) \/ DeleteService(s)
  PROVE  TrackInv'
<1> DEFINE c == ClusterOf[s]
<1>0. c \in Clusters
  BY LBAssumption
<1>1. /\ UNCHANGED <<named, nic, pod, mem>> /\ svc'[s].ingress = None
      /\ \A t \in Services : t # s => svc'[t] = svc[t]
      /\ \A d \in Clusters : d # c => job'[d] = job[d]
  BY DEF CreateService, DeleteService, TypeInv, TypeOK
<1>2. /\ job'[c].todo = job[c].todo /\ job'[c].snap = job[c].snap /\ job'[c].cur = job[c].cur
      /\ job'[c].ip = job[c].ip /\ job'[c].pc = job[c].pc /\ job'[c].first = job[c].first
      /\ job'[c].new = job[c].new
  <2>1. CASE CreateService(s)
    BY <2>1 DEF CreateService
  <2>2. CASE DeleteService(s)
    <3>1. job[c] \in Job /\ job \in [Clusters -> Job]
      BY <1>0 DEF TypeInv, TypeOK
    <3>2. \E S : job'[c] = [job[c] EXCEPT !.stale = S]
      BY <1>0, <2>2, <3>1 DEF DeleteService
    <3> HIDE DEF c
    <3> QED
      BY <3>1, <3>2 DEF Job
  <2> QED
    BY <2>1, <2>2
<1>3. Tracks(c) /\ \A t \in Services : ClusterOf[t] # c => svc'[t] = svc[t]
  BY <1>0, <1>1 DEF TrackInv
<1> HIDE DEF c
<1>4. MapsTrack(c)' /\ ShownTrack(c)'
  BY <1>1, <1>2, <1>3 DEF Tracks, MapsTrack, ShownTrack
<1>5. WorkTracks(c)'
  BY <1>1, <1>2, <1>3 DEF Tracks, WorkTracks, Busy
<1>6. PodsOnManualNodes'
  BY <1>1 DEF TrackInv, PodsOnManualNodes
<1> QED
  BY <1>0, <1>1, <1>3, <1>4, <1>5, <1>6, OneTracks DEF Tracks

(* Nodes come and go, and pods end. *)
LEMMA EnvTrack ==
  ASSUME TypeInv, TrackInv,
         \/ \E c \in Clusters, i \in IPs : PodGone(c, i)
         \/ \E n \in Nodes : NodeFails(n) \/ NodeRecovers(n) \/ NodeNamed(n)
         \/ UNCHANGED vars
  PROVE  TrackInv'
<1>1. UNCHANGED <<svc, nic, mem, job>> /\ named' = Nodes
  BY DEF PodGone, NodeFails, NodeRecovers, NodeNamed, vars, TrackInv
<1>2. UNCHANGED pod \/ \E c \in Clusters, i \in IPs : pod' = [pod EXCEPT ![c][i] = NoPod]
  BY DEF PodGone, NodeFails, NodeRecovers, NodeNamed, vars
<1>3. PodsOnManualNodes'
  <2>1. CASE UNCHANGED pod
    BY <1>1, <2>1 DEF TrackInv, PodsOnManualNodes
  <2>2. CASE \E c \in Clusters, i \in IPs : pod' = [pod EXCEPT ![c][i] = NoPod]
    BY <1>1, <2>2, PodTrack DEF TrackInv
  <2> QED
    BY <1>2, <2>1, <2>2
<1>4. \A c \in Clusters : Tracks(c)'
  BY <1>1 DEF TrackInv, Tracks, MapsTrack, ShownTrack, WorkTracks, Busy
<1> QED
  BY <1>1, <1>3, <1>4 DEF TrackInv

LEMMA NextTrack ==
  ASSUME NoRestart
  PROVE  TypeInv /\ KeepInv /\ TrackInv /\ [Next]_vars => TrackInv'
<1> SUFFICES ASSUME TypeInv, KeepInv, TrackInv, [Next]_vars PROVE TrackInv'
  OBVIOUS
<1>1. ASSUME NEW c \in Clusters, SyncStep(c) PROVE TrackInv'
  BY <1>1, ReleaseTrack, QuietTrack, ExistingTrack, AssignedTrack, AllocateTrack, AssignTrack,
     ConfigureTrack, StatusTrack, FailoverTrack DEF SyncStep
<1>2. \A c \in Clusters : ~Shutdown(c) /\ ~Crash(c)
  <2>1. faults["crash"] \in Nat /\ faults["stop"] \in Nat
    BY DEF TypeInv, TypeOK, FaultKinds
  <2> QED
    BY <2>1 DEF NoRestart, Spend, Shutdown, Crash
<1> QED
  BY <1>1, <1>2, StartTrack, DiscoverTrack, SyncTrack, ServiceTrack, EnvTrack DEF Next

(* As long as the CCMs run, and their nodes have UUIDs, an lb-ip pod is     *)
(* only ever on a node whose NIC is in manual mode: for any clusters that   *)
(* share an account, across deletions of services, failovers, failed        *)
(* requests and lost answers of every kind.                                 *)
THEOREM PodsManual == ASSUME NoRestart PROVE Spec => []PodsOnManualNodes
<1>1. Init => TypeInv /\ KeepInv /\ TrackInv
  BY InitType, InitKeep, InitTrack
<1>2. TypeInv /\ KeepInv /\ TrackInv /\ [Next]_vars => (TypeInv /\ KeepInv /\ TrackInv)'
  BY NextType, NextKeep, NextTrack
<1>3. Spec => [](TypeInv /\ KeepInv /\ TrackInv)
  BY <1>1, <1>2, PTL DEF Spec
<1>4. TypeInv /\ KeepInv /\ TrackInv => PodsOnManualNodes
  BY DEF TrackInv
<1> QED
  BY <1>3, <1>4, PTL
=============================================================================
