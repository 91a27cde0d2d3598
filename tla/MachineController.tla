-------------------------- MODULE MachineController --------------------------
(***************************************************************************)
(* The CloudSigmaMachine reconciler (controllers/cloudsigmamachine_        *)
(* controller.go) over the server operations of pkg/cloud/servers.go.      *)
(*                                                                         *)
(* One worker (MaxConcurrentReconciles: 1) reconciles one machine at a     *)
(* time.  It works on a copy read from the informer cache, which may lag   *)
(* behind the API server, and every call it makes to the API server or to  *)
(* CloudSigma is a step of its own, so that anything can happen between    *)
(* two calls: the user deletes the machine, another controller writes the  *)
(* object, the server is stopped or deleted behind the controller's back,  *)
(* the impersonated account changes, the manager crashes.                  *)
(*                                                                         *)
(* Data abstraction: a machine is identified by its UID, a server by its   *)
(* UUID.  Resource versions are reduced to the one question they answer:   *)
(* job.fresh says that nobody else wrote the object since the version the  *)
(* worker holds (an Update with an older version is refused), and          *)
(* cacheFresh[m] that the cached version is the stored one.                *)
(***************************************************************************)
EXTENDS Integers, FiniteSets

CONSTANTS
    Machines,    \* UIDs of the CloudSigmaMachine objects
    ServerIds,   \* UUIDs CloudSigma may hand out; each is used once
    Accounts,    \* CloudSigma accounts the controller may impersonate
    NameOf,      \* the name of each machine, also the name of its servers
    MisreadAs,   \* what a failed GET of a server is read as (servers.go:206)
    ListLag,     \* TRUE: a new server may be missing from List for a while
    MaxPolls,    \* 12 in the code: polls for "stopped" before the delete
    Limit,       \* how often each kind of fault may happen
    None

FaultKinds == {"write", "err", "crash", "cloud", "user"}

ASSUME ConstantsAssumption ==
    /\ None \notin Machines \cup ServerIds \cup Accounts
    /\ MisreadAs \in [ServerIds -> {"error", "missing", "denied"}]
    /\ ListLag \in BOOLEAN
    /\ MaxPolls \in Nat \ {0}
    /\ Limit \in [FaultKinds -> Nat]

VARIABLES
    obj,         \* the stored objects
    cache,       \* the informer cache of the controller
    cacheFresh,  \* is the cached version the stored one?
    job,         \* the worker: where it is and what it holds
    srv,         \* the servers of CloudSigma
    listed,      \* the servers that List returns
    user,        \* the account getCloudClient impersonates now
    abandoned,   \* history: servers the controller decided to leave behind
    faults       \* how many faults of each kind have happened

vars == <<obj, cache, cacheFresh, job, srv, listed, user, abandoned, faults>>

MaybeServer == ServerIds \cup {None}

(* The part of a CloudSigmaMachine the controller decides on.  exists goes  *)
(* FALSE when the object is removed; the last record is kept to talk about. *)
MachineObject ==
    [exists: BOOLEAN, deleting: BOOLEAN, finalizer: BOOLEAN,
     instanceID: MaybeServer, providerID: MaybeServer, ready: BOOLEAN]

Alive == {"stopped", "starting", "running", "stopping"}
ServerStates == Alive \cup {"unused", "gone"}

Server == [state: ServerStates, uid: Machines \cup {None}, acct: Accounts \cup {None}]

PCs == {"idle", "addFinalizer", "getServer", "findDenied", "clearDenied",
        "clearMissing", "find", "adoptStatus", "adoptProvider", "create",
        "recordStatus", "recordProvider", "start", "existing", "ready",
        "delGet", "delStop", "delPoll", "delServer", "delCall", "rmFinalizer"}

Job == [pc: PCs, cur: Machines \cup {None}, copy: MachineObject, fresh: BOOLEAN,
        server: MaybeServer, seen: ServerStates, poll: 0..(MaxPolls - 1),
        acct: Accounts \cup {None}]

NewMachine ==
    [exists |-> TRUE, deleting |-> FALSE, finalizer |-> FALSE,
     instanceID |-> None, providerID |-> None, ready |-> FALSE]

Idle == [pc |-> "idle", cur |-> None, copy |-> NewMachine, fresh |-> FALSE,
         server |-> None, seen |-> "unused", poll |-> 0, acct |-> None]

Init ==
    /\ obj = [m \in Machines |-> NewMachine]
    /\ cache = obj
    /\ cacheFresh = [m \in Machines |-> TRUE]
    /\ job = Idle
    /\ srv = [s \in ServerIds |-> [state |-> "unused", uid |-> None, acct |-> None]]
    /\ listed = {}
    /\ user \in Accounts
    /\ abandoned = {}
    /\ faults = [k \in FaultKinds |-> 0]

-----------------------------------------------------------------------------
(* Shared vocabulary. *)

AliveServers == {s \in ServerIds : srv[s].state \in Alive}

(* The alive servers of machine m in account a. *)
ServersOf(m, a) == {s \in AliveServers : srv[s].uid = m /\ srv[s].acct = a}

Spend(k) == faults[k] < Limit[k] /\ faults' = [faults EXCEPT ![k] = @ + 1]

At(l) == job.pc = l

Goto(l) == [job EXCEPT !.pc = l]

(* Every return of Reconcile asks for a requeue, so the worker just goes    *)
(* back to the queue; the copy it worked on is dropped.                     *)
Return == job' = Idle

(* One Update or Status().Update of the object being reconciled: it is      *)
(* refused when the copy is not the stored version, it may fail on the way  *)
(* there, and its answer may be lost on the way back.  A write that changes *)
(* nothing does not create a new version.                                   *)
Stored(new) ==
    /\ obj' = [obj EXCEPT ![job.cur] = new]
    /\ cacheFresh' = [cacheFresh EXCEPT ![job.cur] = @ /\ new = obj[job.cur]]

Write(new, ok, fail) ==
    /\ \/ job.fresh /\ Stored(new) /\ job' = [ok EXCEPT !.copy = new] /\ UNCHANGED faults
       \/ ~job.fresh /\ job' = fail /\ UNCHANGED <<obj, cacheFresh, faults>>
       \/ Spend("err") /\ job' = fail /\ UNCHANGED <<obj, cacheFresh>>
       \/ Spend("err") /\ job.fresh /\ Stored(new) /\ job' = [fail EXCEPT !.fresh = FALSE]
    /\ UNCHANGED <<cache, srv, listed, user, abandoned>>

(* Status().Update writes the status only, Update the rest only. *)
WriteStatus(id, rdy, ok, fail) ==
    Write([obj[job.cur] EXCEPT !.instanceID = id, !.ready = rdy], ok, fail)

WriteProviderID(id, ok) ==
    Write([obj[job.cur] EXCEPT !.providerID = id], ok, Idle)

(* GetServer(uuid) as the account of this reconcile: the server, nothing    *)
(* (404), PermissionDeniedError (403), or any other error.  A transient     *)
(* failure is classified by the text of the error, which contains the       *)
(* request URL and so the UUID.                                             *)
GetServerWithout404(s) ==
    IF srv[s].state \notin Alive THEN "error"
    ELSE IF srv[s].acct # job.acct THEN "denied"
    ELSE "found"

GetServerResult(s) ==
    IF srv[s].state \notin Alive THEN "missing"
    ELSE IF srv[s].acct # job.acct THEN "denied"
    ELSE "found"

GetServer(s, r) ==
    \/ r = GetServerResult(s) /\ UNCHANGED faults
    \/ r = MisreadAs[s] /\ Spend("err")

(* FindServerByNameOrMeta: the listed servers of the account that carry the *)
(* machine's UID; only when there is none, those that carry its name.       *)
FoundAny(m) == {s \in listed \cap AliveServers : srv[s].acct = job.acct}
FoundNone(m) == {}

FindServerByNameOrMeta(m) ==
    LET servers == {s \in listed \cap AliveServers : srv[s].acct = job.acct}
        byMeta  == {s \in servers : srv[s].uid = m}
        byName  == {s \in servers : NameOf[srv[s].uid] = NameOf[m]}
    IN  IF byMeta # {} THEN byMeta ELSE byName

-----------------------------------------------------------------------------
(* Reconcile: fetch the machine from the cache, get a client for the        *)
(* account of the moment, branch on the deletion timestamp.  (A missing     *)
(* owner or cluster, a pause and a client that cannot be had return without *)
(* any effect, and are not steps.)                                          *)

AfterFinalizer(c) == IF c.instanceID # None THEN "getServer" ELSE "find"

FirstStep(c) ==
    IF c.deleting THEN (IF c.instanceID # None THEN "delGet" ELSE "rmFinalizer")
    ELSE IF ~c.finalizer THEN "addFinalizer"
    ELSE AfterFinalizer(c)

Reconcile(m) ==
    /\ At("idle")
    /\ cache[m].exists
    /\ job' = [Idle EXCEPT !.pc = FirstStep(cache[m]), !.cur = m, !.copy = cache[m],
                           !.fresh = cacheFresh[m], !.acct = user]
    /\ UNCHANGED <<obj, cache, cacheFresh, srv, listed, user, abandoned, faults>>

-----------------------------------------------------------------------------
(* reconcileNormal *)

AddFinalizerIgnoringErrors ==
    /\ At("addFinalizer")
    /\ Write([obj[job.cur] EXCEPT !.finalizer = TRUE],
             Goto(AfterFinalizer(job.copy)), Goto(AfterFinalizer(job.copy)))

AddFinalizer ==
    /\ At("addFinalizer")
    /\ Write([obj[job.cur] EXCEPT !.finalizer = TRUE], Goto(AfterFinalizer(job.copy)), Idle)

CheckServer ==
    /\ At("getServer")
    /\ \E r \in {"found", "missing", "denied", "error"} :
         /\ GetServer(job.copy.instanceID, r)
         /\ \/ /\ r = "found"
               /\ job' = [job EXCEPT !.pc = "existing", !.server = job.copy.instanceID,
                                     !.seen = srv[job.copy.instanceID].state]
            \/ r = "missing" /\ job' = Goto("clearMissing")
            \/ r = "denied" /\ job' = Goto("findDenied")
            \/ r = "error" /\ Return
    /\ UNCHANGED <<obj, cache, cacheFresh, srv, listed, user, abandoned>>

(* A look through the server list; the first hit is adopted. *)
Adopt(s) == [job EXCEPT !.pc = "adoptStatus", !.server = s, !.seen = srv[s].state]

FindAfterDenied ==
    /\ At("findDenied")
    /\ LET found == FindServerByNameOrMeta(job.cur)
       IN  \/ \E s \in found : job' = Adopt(s) /\ UNCHANGED faults
           \/ found = {} /\ job' = Goto("clearDenied") /\ UNCHANGED faults
           \/ Spend("err") /\ job' = Goto("clearDenied")
    /\ UNCHANGED <<obj, cache, cacheFresh, srv, listed, user, abandoned>>

(* The server belongs to another account and this one has none: forget it   *)
(* and requeue, whether or not the write went through.                      *)
ClearDenied ==
    /\ At("clearDenied")
    /\ WriteStatus(None, job.copy.ready, Idle, Idle)

(* The server is gone: forget it and go on to create another one, whether   *)
(* or not the write went through.                                           *)
ClearMissingKeepsID ==
    /\ At("clearMissing")
    /\ Return
    /\ UNCHANGED <<obj, cache, cacheFresh, srv, listed, user, abandoned, faults>>

ClearMissing ==
    /\ At("clearMissing")
    /\ WriteStatus(None, job.copy.ready, Goto("find"),
                   [Goto("find") EXCEPT !.copy.instanceID = None])

FindServer ==
    /\ At("find")
    /\ LET found == FindServerByNameOrMeta(job.cur)
       IN  \/ \E s \in found : job' = Adopt(s) /\ UNCHANGED faults
           \/ found = {} /\ job' = Goto("create") /\ UNCHANGED faults
           \/ Spend("err") /\ Return
    /\ UNCHANGED <<obj, cache, cacheFresh, srv, listed, user, abandoned>>

AdoptStatus ==
    /\ At("adoptStatus")
    /\ WriteStatus(job.server, job.copy.ready, Goto("adoptProvider"), Idle)

AdoptProvider ==
    /\ At("adoptProvider")
    /\ WriteProviderID(job.server, Goto("existing"))

(* CreateServer.  A failure leaves no server, or one whose creation the     *)
(* controller never heard of; the bootstrap data may also not be there yet. *)
Created(s) ==
    /\ srv' = [srv EXCEPT ![s] = [state |-> "stopped", uid |-> job.cur, acct |-> job.acct]]
    /\ \/ listed' = listed \cup {s}
       \/ ListLag /\ UNCHANGED listed

CreateServer ==
    /\ At("create")
    /\ \/ \E s \in ServerIds :
            /\ srv[s].state = "unused"
            /\ Created(s)
            /\ \/ /\ job' = [job EXCEPT !.pc = "recordStatus", !.server = s, !.seen = "stopped"]
                  /\ UNCHANGED faults
               \/ Spend("err") /\ Return
       \/ Spend("err") /\ Return /\ UNCHANGED <<srv, listed>>
    /\ UNCHANGED <<obj, cache, cacheFresh, user, abandoned>>

(* The critical write: the UUID of the server just created. *)
RecordStatus ==
    /\ At("recordStatus")
    /\ WriteStatus(job.server, job.copy.ready, Goto("recordProvider"), Idle)

RecordProvider ==
    /\ At("recordProvider")
    /\ WriteProviderID(job.server, Goto("start"))

(* StartServer: refused unless the server is stopped. *)
StartServer ==
    /\ At("start")
    /\ \/ /\ srv[job.server].state = "stopped"
          /\ srv' = [srv EXCEPT ![job.server].state = "starting"]
          /\ UNCHANGED faults
       \/ srv[job.server].state # "stopped" /\ UNCHANGED <<srv, faults>>
       \/ Spend("err") /\ UNCHANGED srv
    /\ Return
    /\ UNCHANGED <<obj, cache, cacheFresh, listed, user, abandoned>>

(* The server exists: correct the provider ID if it names another one. *)
ExistingServer ==
    /\ At("existing")
    /\ LET next == Goto(IF job.seen = "stopped" THEN "start" ELSE "ready")
       IN  IF job.copy.providerID # job.server
           THEN WriteProviderID(job.server, next)
           ELSE /\ job' = next
                /\ UNCHANGED <<obj, cache, cacheFresh, srv, listed, user, abandoned, faults>>

(* Ready follows the state of the server that was read above. *)
UpdateReady ==
    /\ At("ready")
    /\ WriteStatus(job.copy.instanceID, job.seen = "running", Idle, Idle)

-----------------------------------------------------------------------------
(* reconcileDelete *)

(* A server that was denied is left behind, and the finalizer goes.         *)
DeleteGet ==
    /\ At("delGet")
    /\ \E r \in {"found", "missing", "denied", "error"} :
         LET s == job.copy.instanceID
         IN  /\ GetServer(s, r)
             /\ \/ /\ r = "found"
                   /\ \E l \in {"delStop", "delPoll"} :
                        /\ l = "delStop" <=> srv[s].state \in {"running", "starting"}
                        /\ job' = [job EXCEPT !.pc = l, !.server = s]
                \/ r \in {"missing", "denied"} /\ job' = Goto("rmFinalizer")
                \/ r = "error" /\ Return
             /\ abandoned' = IF r = "denied" THEN abandoned \cup {s} ELSE abandoned
    /\ UNCHANGED <<obj, cache, cacheFresh, srv, listed, user>>

(* StopServer: refused unless the server is running or starting. *)
StopServer(next) ==
    \/ /\ srv[job.server].state \in {"running", "starting"}
       /\ srv' = [srv EXCEPT ![job.server].state = "stopping"]
       /\ job' = next
       /\ UNCHANGED faults
    \/ /\ srv[job.server].state \notin {"running", "starting"}
       /\ Return
       /\ UNCHANGED <<srv, faults>>
    \/ Spend("err") /\ Return /\ UNCHANGED srv

DeleteStop ==
    /\ At("delStop")
    /\ StopServer(Goto("delPoll"))
    /\ UNCHANGED <<obj, cache, cacheFresh, listed, user, abandoned>>

(* One round of the wait for "stopped"; after MaxPolls rounds the delete is *)
(* tried whatever the state.  Here a 403 is an error like any other.        *)
PollUntil(last) ==
    LET done == srv[job.server].state = "stopped" \/ job.poll = last
    IN  /\ At("delPoll")
        /\ \E r \in {"found", "missing", "denied", "error"} :
             /\ GetServer(job.server, r)
             /\ \/ r = "missing" /\ job' = Goto("rmFinalizer")
                \/ r = "found" /\ done /\ job' = Goto("delServer")
                \/ r = "found" /\ ~done /\ job' = [job EXCEPT !.poll = job.poll + 1]
                \/ r \in {"denied", "error"} /\ Return
        /\ UNCHANGED <<obj, cache, cacheFresh, srv, listed, user, abandoned>>

DeletePollOffByOne == PollUntil(MaxPolls)

DeletePoll == PollUntil(MaxPolls - 1)

(* DeleteServer begins with a look of its own, and stops the server if it   *)
(* runs again (or still); it does not wait for the stop.                    *)
DeleteServer ==
    /\ At("delServer")
    /\ \/ \E r \in {"missing", "denied", "error"} :
            /\ GetServer(job.server, r)
            /\ job' = IF r = "missing" THEN Goto("rmFinalizer") ELSE Idle
            /\ UNCHANGED srv
       \/ /\ GetServerResult(job.server) = "found"
          /\ IF srv[job.server].state = "running"
             THEN StopServer(Goto("delCall"))
             ELSE job' = Goto("delCall") /\ UNCHANGED <<srv, faults>>
    /\ UNCHANGED <<obj, cache, cacheFresh, listed, user, abandoned>>

(* The DELETE request.  CloudSigma deletes a stopped server only.  The text *)
(* of the error decides: "in state 'stopping'", "not found" and "404" count *)
(* as success, the finalizer goes, and a stopping server is left behind.    *)
AnyErrorIsSuccess(e) == TRUE
DeleteErrorIsSuccess(e) == e \in {"stopping", "gone", "missing"}

DeleteFailed(e) ==
    job' = IF DeleteErrorIsSuccess(e) THEN Goto("rmFinalizer") ELSE Idle

DeleteCall ==
    LET s == job.server
    IN  /\ At("delCall")
        /\ \/ /\ srv[s].state = "stopped"
              /\ srv' = [srv EXCEPT ![s].state = "gone"]
              /\ job' = Goto("rmFinalizer")
              /\ UNCHANGED <<abandoned, faults>>
           \/ /\ srv[s].state # "stopped"
              /\ DeleteFailed(srv[s].state)
              /\ abandoned' = IF srv[s].state = "stopping" THEN abandoned \cup {s} ELSE abandoned
              /\ UNCHANGED <<srv, faults>>
           \/ Spend("err") /\ DeleteFailed(MisreadAs[s]) /\ UNCHANGED <<srv, abandoned>>
        /\ UNCHANGED <<obj, cache, cacheFresh, listed, user>>

(* The last finalizer of a deleted object goes, and the object with it. *)
RemoveFinalizer ==
    /\ At("rmFinalizer")
    /\ Write([obj[job.cur] EXCEPT !.finalizer = FALSE, !.exists = FALSE], Idle, Idle)

-----------------------------------------------------------------------------
(* The surroundings. *)

(* The watch brings the cache up to date. *)
CacheSync(m) ==
    /\ ~cacheFresh[m]
    /\ cache' = [cache EXCEPT ![m] = obj[m]]
    /\ cacheFresh' = [cacheFresh EXCEPT ![m] = TRUE]
    /\ UNCHANGED <<obj, job, srv, listed, user, abandoned, faults>>

(* Somebody other than the worker writes the object. *)
OtherWrite(m, new) ==
    /\ obj[m].exists
    /\ obj' = [obj EXCEPT ![m] = new]
    /\ cacheFresh' = [cacheFresh EXCEPT ![m] = FALSE]
    /\ job' = [job EXCEPT !.fresh = @ /\ job.cur # m]
    /\ UNCHANGED <<cache, srv, listed, user, abandoned>>

(* kubectl delete: the finalizer, if it is there already, keeps the object. *)
UserDelete(m) ==
    /\ ~obj[m].deleting
    /\ OtherWrite(m, [obj[m] EXCEPT !.deleting = TRUE, !.exists = obj[m].finalizer])
    /\ UNCHANGED faults

(* Another controller writes labels, owner references, annotations... *)
Touch(m) == Spend("write") /\ OtherWrite(m, obj[m])

(* Servers move on by themselves; a new one becomes visible in the list. *)
CloudProgress(s) ==
    /\ \/ /\ srv[s].state = "starting"
          /\ srv' = [srv EXCEPT ![s].state = "running"]
       \/ /\ srv[s].state = "stopping"
          /\ srv' = [srv EXCEPT ![s].state = "stopped"]
    /\ UNCHANGED <<obj, cache, cacheFresh, job, listed, user, abandoned, faults>>

ListPropagates(s) ==
    /\ s \in AliveServers \ listed
    /\ listed' = listed \cup {s}
    /\ UNCHANGED <<obj, cache, cacheFresh, job, srv, user, abandoned, faults>>

(* The owner of the account starts, stops or deletes a server by hand. *)
ExternalChange(s) ==
    /\ Spend("cloud")
    /\ \/ srv[s].state = "running" /\ srv' = [srv EXCEPT ![s].state = "stopping"]
       \/ srv[s].state = "stopped" /\ srv' = [srv EXCEPT ![s].state = "starting"]
       \/ srv[s].state = "stopped" /\ srv' = [srv EXCEPT ![s].state = "gone"]
    /\ UNCHANGED <<obj, cache, cacheFresh, job, listed, user, abandoned>>

(* The user email of the CloudSigmaCluster changes. *)
ChangeUser ==
    /\ Spend("user")
    /\ user' \in Accounts \ {user}
    /\ UNCHANGED <<obj, cache, cacheFresh, job, srv, listed, abandoned>>

(* The manager dies and comes back with a newly filled cache. *)
Crash ==
    /\ Spend("crash")
    /\ Return
    /\ cache' = obj
    /\ cacheFresh' = [m \in Machines |-> TRUE]
    /\ UNCHANGED <<obj, srv, listed, user, abandoned>>

Step ==
    \/ AddFinalizer \/ CheckServer \/ FindAfterDenied \/ ClearDenied \/ ClearMissing
    \/ FindServer \/ AdoptStatus \/ AdoptProvider \/ CreateServer \/ RecordStatus
    \/ RecordProvider \/ StartServer \/ ExistingServer \/ UpdateReady
    \/ DeleteGet \/ DeleteStop \/ DeletePoll \/ DeleteServer \/ DeleteCall \/ RemoveFinalizer

Next ==
    \/ Step
    \/ \E m \in Machines : Reconcile(m) \/ CacheSync(m) \/ UserDelete(m) \/ Touch(m)
    \/ \E s \in ServerIds : CloudProgress(s) \/ ListPropagates(s) \/ ExternalChange(s)
    \/ ChangeUser
    \/ Crash

Spec == Init /\ [][Next]_vars

(* The worker never blocks for good (every call has a deadline), the        *)
(* workqueue hands out machines first in, first out and every return        *)
(* requeues, the watch delivers, and CloudSigma finishes what it started.   *)
Fairness ==
    /\ WF_vars(Step)
    /\ \A m \in Machines : SF_vars(Reconcile(m)) /\ WF_vars(CacheSync(m))
    /\ \A s \in ServerIds : WF_vars(CloudProgress(s)) /\ WF_vars(ListPropagates(s))

FairSpec == Spec /\ Fairness

-----------------------------------------------------------------------------
(* Properties *)

(* Every variable stays in its type; in particular the wait for "stopped"   *)
(* makes at most MaxPolls requests (cloudsigmamachine_controller.go:554).   *)
TypeOK ==
    /\ obj \in [Machines -> MachineObject]
    /\ cache \in [Machines -> MachineObject]
    /\ cacheFresh \in [Machines -> BOOLEAN]
    /\ job \in Job
    /\ srv \in [ServerIds -> Server]
    /\ listed \subseteq ServerIds
    /\ user \in Accounts
    /\ abandoned \subseteq ServerIds
    /\ faults \in [FaultKinds -> Nat]

(* A machine never has two servers in one account, whatever conflicts,      *)
(* lost answers, stale reads and crashes happen between the search by       *)
(* machine-uid, the creation and the status update that records it.         *)
NoDuplicateServers ==
    \A m \in Machines, a \in Accounts : \A s, t \in ServersOf(m, a) : s = t

(* The server a machine records in its status and names in its providerID   *)
(* was created for that very machine (no adoption of a stranger by name).   *)
RecordsOwnServer ==
    \A m \in Machines :
        \A s \in {obj[m].instanceID, obj[m].providerID} \ {None} : srv[s].uid = m

(* The finalizer was stored before the first server was created and stays   *)
(* until the object goes: no server outlives its machine unnoticed because  *)
(* a deletion slipped past the controller.                                  *)
ServersHoldFinalizer ==
    \A s \in AliveServers : obj[srv[s].uid].exists => obj[srv[s].uid].finalizer

(* Once a machine is gone, the server its status recorded is deleted, or    *)
(* the controller left it behind on one of the two paths where it says so   *)
(* (permission denied, or still stopping when the wait ran out).            *)
RecordedServerDeleted ==
    \A m \in Machines :
        ~obj[m].exists /\ obj[m].instanceID # None =>
            \/ srv[obj[m].instanceID].state = "gone"
            \/ obj[m].instanceID \in abandoned

(* The worker stops and deletes only servers of a machine whose stored      *)
(* object carries a deletion timestamp, even when it acts on a stale copy.  *)
OnlyDeletesDeleted ==
    [][\A s \in ServerIds :
         job'.pc # job.pc /\ srv'[s].state # srv[s].state /\ srv'[s].state \in {"stopping", "gone"}
            => job.cur = srv[s].uid /\ obj[job.cur].deleting]_vars

(* A machine that is not deleted ends up with one running server of its     *)
(* own, recorded, named by the providerID and reported ready, once the      *)
(* disturbances (at most Limit of each kind) are over.                      *)
Provisioned(m) ==
    LET s == obj[m].instanceID
    IN  /\ s # None
        /\ srv[s].state = "running" /\ srv[s].uid = m /\ srv[s].acct = user
        /\ obj[m].providerID = s
        /\ obj[m].ready

EventuallyProvisioned == \A m \in Machines : <>[](obj[m].deleting \/ Provisioned(m))

(* A machine that is being deleted goes away: no path of reconcileDelete    *)
(* repeats an error for ever.                                               *)
DeletionCompletes == \A m \in Machines : obj[m].deleting ~> ~obj[m].exists

(* docs/debug/controller-enhancements-proposal.md:268, "Create a VM, delete *)
(* the K8s resource during creation -> No orphaned VMs": a server still     *)
(* has its machine, or the controller knowingly left it behind.             *)
NoOrphanedVMs ==
    \A s \in AliveServers \ abandoned : obj[srv[s].uid].exists
=============================================================================
