---------------------------- MODULE CSIController ----------------------------
(***************************************************************************)
(* The controller service of the CSI driver (csi/driver/controller.go).    *)
(*                                                                         *)
(* gRPC runs every call in a goroutine of its own.  Attaching and          *)
(* detaching are read-modify-write: GET the server, PUT it back with       *)
(* another list of drives.  ControllerPublishVolume holds a lock of the    *)
(* server meanwhile, ControllerUnpublishVolume holds none.                 *)
(*                                                                         *)
(* The calls of a run are given as a constant, with the order in which the *)
(* sidecars issue them; they repeat a call that failed.  CloudSigma takes  *)
(* a drive off a server some time after the PUT that removes it from the   *)
(* list.  Sizes, storage types, topologies and tags are left out; so are   *)
(* servers that disappear.                                                 *)
(***************************************************************************)
EXTENDS Integers, FiniteSets

CONSTANTS
    Drives,      \* UUIDs of drives, of the existing and of future ones
    Servers,     \* UUIDs of the servers, the node IDs
    Names,       \* names of volumes
    InitialName, \* of each drive: its name, None if it does not exist yet
    Calls,       \* the calls made
    Request,     \* of each call: op, drive, server, name
    After,       \* of each call: those that returned before it is issued
    NumChannels, \* 607 in the code: "0:2", then "1:0" to "202:2"
    MaxErrors,   \* how many requests to CloudSigma may fail
    MaxPolls,    \* 30 in the code: rounds of waiting for a detachment
    Misread,     \* UUIDs with a "404": a failed GET of them reads as not found
    None

Ops == {"create", "delete", "publish", "unpublish"}

ASSUME CSIAssumption ==
    /\ None \notin Drives \cup Servers \cup Names \cup Calls
    /\ Request \in [Calls -> [op: Ops, drive: Drives \cup {None},
                              server: Servers \cup {None}, name: Names \cup {None}]]
    /\ \A c \in Calls :
         /\ Request[c].op \in {"publish", "unpublish", "delete"} => Request[c].drive \in Drives
         /\ Request[c].op \in {"publish", "unpublish"} => Request[c].server \in Servers
         /\ Request[c].op = "create" => Request[c].name \in Names
    /\ After \in [Calls -> SUBSET Calls]
    /\ InitialName \in [Drives -> Names \cup {None}]
    /\ \A d, e \in Drives : InitialName[d] # None /\ InitialName[d] = InitialName[e] => d = e
    /\ NumChannels \in Nat \ {0}
    /\ MaxErrors \in Nat
    /\ MaxPolls \in Nat \ {0}
    /\ Misread \subseteq Servers \cup Drives

(* The sidecars make these calls one after the other: external-provisioner  *)
(* those for one volume name, external-attacher those for one volume and    *)
(* node, and the attach-detach controller, for the volumes of this driver   *)
(* are ReadWriteOnce, attaches of one volume.  A detach from the old node   *)
(* may run beside the attach to the new one.                                *)
OneByOne(b, c) ==
    LET ops == {Request[b].op, Request[c].op}
    IN  \/ ops = {"create"} /\ Request[b].name = Request[c].name
        \/ /\ ops \subseteq {"publish", "unpublish"}
           /\ Request[b].drive = Request[c].drive
           /\ Request[b].server = Request[c].server \/ ops = {"publish"}

ASSUME SidecarAssumption ==
    \A b, c \in Calls : b # c /\ OneByOne(b, c) => b \in After[c] \/ c \in After[b]

VARIABLES
    name,       \* CloudSigma: the name of each drive, None if it does not exist
    attached,   \* CloudSigma: the channel of each drive on each server, 0 if none
    mounted,    \* CloudSigma: mounted_on, the servers that still have a drive
    lock,       \* serverAttachLocks: the call that holds the lock of a server
    call,       \* where each call is and what it has read
    published,  \* the channel reported to Kubernetes for a drive and server
    crossed,    \* history: servers with a PUT amid another's unlocked GET and PUT
    errors

vars == <<name, attached, mounted, lock, call, published, crossed, errors>>
serverVars == <<attached, mounted, crossed>>

Channels == 0..NumChannels
DriveList == [Drives -> Channels]

PCs == {"new", "create", "delete", "drive", "oldGet", "oldPut", "put",
        "unPut", "verify", "poll", "done"}

Call == [pc: PCs, list: DriveList, old: Servers \cup {None}, oldList: DriveList,
         polls: 0..(MaxPolls - 1)]

NoDrives == [d \in Drives |-> 0]
NewCall == [pc |-> "new", list |-> NoDrives, old |-> None, oldList |-> NoDrives, polls |-> 0]

(* The drives the calls name; a new drive gets a UUID of its own. *)
InUse == {Request[c].drive : c \in Calls} \ {None}

Init ==
    /\ name = InitialName
    /\ attached = [n \in Servers |-> NoDrives]
    /\ mounted = [d \in Drives |-> {}]
    /\ lock = [n \in Servers |-> None]
    /\ call = [c \in Calls |-> NewCall]
    /\ published = [n \in Servers |-> NoDrives]
    /\ crossed = {}
    /\ errors = 0

-----------------------------------------------------------------------------
Fault == errors < MaxErrors /\ errors' = errors + 1

At(c, op, l) == Request[c].op = op /\ call[c].pc = l

Issued(c) == \A b \in After[c] : call[b].pc = "done"

Goto(c, l) == call' = [call EXCEPT ![c].pc = l]

(* A call returns; one that failed is issued again. *)
Finish(c) == call' = [call EXCEPT ![c] = [NewCall EXCEPT !.pc = "done"]]
Fail(c) == call' = [call EXCEPT ![c] = NewCall]

(* The calls that have read the drives of a server to write them back: with *)
(* the lock of the server, or without it.                                   *)
Holding == {"drive", "oldGet", "oldPut", "put"}
ReadsLocked(c, n) == call[c].pc \in Holding /\ Request[c].server = n
ReadsUnlocked(c, n) ==
    \/ call[c].pc = "unPut" /\ Request[c].server = n
    \/ call[c].pc = "oldPut" /\ call[c].old = n

(* A PUT crosses the GET and PUT of another call if one of the two has no   *)
(* lock.                                                                    *)
Crosses(c, n) ==
    \E b \in Calls \ {c} : \/ ReadsUnlocked(b, n)
                           \/ ReadsLocked(b, n) /\ ReadsUnlocked(c, n)

(* PUT of a server with a list of drives: refused if the list names a drive *)
(* that does not exist or is mounted elsewhere.                             *)
PutAllowed(n, list) ==
    \A d \in Drives : list[d] # 0 => name[d] # None /\ mounted[d] \subseteq {n}

PutServer(c, n, list) ==
    /\ attached' = [attached EXCEPT ![n] = list]
    /\ mounted' = [d \in Drives |-> IF list[d] # 0 THEN mounted[d] \cup {n} ELSE mounted[d]]
    /\ crossed' = IF Crosses(c, n) THEN crossed \cup {n} ELSE crossed

(* A drive that is off the list of a server is unmounted in the end. *)
Unmount(n, d) ==
    /\ n \in mounted[d]
    /\ attached[n][d] = 0
    /\ mounted' = [mounted EXCEPT ![d] = @ \ {n}]
    /\ UNCHANGED <<name, attached, lock, call, published, crossed, errors>>

(* The next free channel; the last one if there is none. *)
IgnoreUsedChannels(list) == 1

FindNextDeviceChannel(list) ==
    LET free == {k \in 1..NumChannels : \A d \in Drives : list[d] # k}
    IN  IF free = {} THEN NumChannels ELSE CHOOSE k \in free : \A j \in free : k <= j

-----------------------------------------------------------------------------
(* CreateVolume: look for a drive of that name, create one if there is none.*)
CreateVolume(c) ==
    /\ At(c, "create", "new")
    /\ Issued(c)
    /\ IF \E d \in Drives : name[d] = Request[c].name THEN Finish(c) ELSE Goto(c, "create")
    /\ UNCHANGED <<name, serverVars, lock, published, errors>>

(* The creation; its answer may be lost, and the repeated call looks again. *)
CreateRetried(c) == UNCHANGED call
CreateFailed(c) == Fail(c)

CreateDrive(c) ==
    /\ At(c, "create", "create")
    /\ \/ \E d \in Drives \ InUse :
            /\ name[d] = None
            /\ name' = [name EXCEPT ![d] = Request[c].name]
            /\ \/ Finish(c) /\ UNCHANGED errors
               \/ Fault /\ CreateFailed(c)
       \/ Fault /\ CreateFailed(c) /\ UNCHANGED name
    /\ UNCHANGED <<serverVars, lock, published>>

(* DeleteVolume: gone already is success; mounted is an error, without any  *)
(* effect, and the call is repeated.                                        *)
DeleteVolume(c) ==
    LET d == Request[c].drive
    IN  /\ At(c, "delete", "new")
        /\ Issued(c)
        /\ \/ name[d] = None /\ Finish(c) /\ UNCHANGED errors
           \/ name[d] # None /\ mounted[d] = {} /\ Goto(c, "delete") /\ UNCHANGED errors
           \/ Fault /\ d \in Misread /\ Finish(c)
        /\ UNCHANGED <<name, serverVars, lock, published>>

(* CloudSigma refuses to delete a drive that has been mounted meanwhile. *)
DeleteDrive(c) ==
    LET d == Request[c].drive
        gone == [name EXCEPT ![d] = None]
    IN  /\ At(c, "delete", "delete")
        /\ \/ mounted[d] = {} /\ name' = gone /\ Finish(c) /\ UNCHANGED errors
           \/ mounted[d] # {} /\ Fail(c) /\ UNCHANGED <<name, errors>>
           \/ Fault /\ Fail(c) /\ UNCHANGED name
           \/ Fault /\ Fail(c) /\ mounted[d] = {} /\ name' = gone
        /\ UNCHANGED <<serverVars, lock, published>>

-----------------------------------------------------------------------------
(* ControllerPublishVolume *)

KeepLock(c) == UNCHANGED lock
Unlock(c) == lock' = [lock EXCEPT ![Request[c].server] = None]

(* The channel a call reports to Kubernetes. *)
Report(c, k) == published' = [published EXCEPT ![Request[c].server][Request[c].drive] = k]

(* A publish that starts takes the drive away from the other servers. *)
Withdraw(n, d) == [m \in Servers |-> IF m = n THEN published[m]
                                     ELSE [published[m] EXCEPT ![d] = 0]]

LockIgnored(c) == TRUE
LockFree(c) == lock[Request[c].server] = None

(* Take the lock and GET the server; a drive that is there already is       *)
(* success.                                                                 *)
PublishVolume(c) ==
    LET n == Request[c].server
        d == Request[c].drive
    IN  /\ At(c, "publish", "new")
        /\ Issued(c)
        /\ LockFree(c)
        /\ \/ attached[n][d] # 0 /\ Report(c, attached[n][d]) /\ Finish(c) /\ UNCHANGED lock
           \/ /\ attached[n][d] = 0
              /\ call' = [call EXCEPT ![c].pc = "drive", ![c].list = attached[n]]
              /\ lock' = [lock EXCEPT ![n] = c]
              /\ published' = Withdraw(n, d)
        /\ UNCHANGED <<name, serverVars, errors>>

(* GET the drive, and see whether another server has it. *)
PublishDrive(c) ==
    LET n == Request[c].server
        d == Request[c].drive
    IN  /\ At(c, "publish", "drive")
        /\ \/ /\ name[d] # None
              /\ \/ mounted[d] \subseteq {n} /\ Goto(c, "put")
                 \/ \E m \in mounted[d] \ {n} :
                      call' = [call EXCEPT ![c].pc = "oldGet", ![c].old = m]
              /\ UNCHANGED <<lock, errors>>
           \/ name[d] = None /\ Fail(c) /\ Unlock(c) /\ UNCHANGED errors
           \/ Fault /\ Fail(c) /\ Unlock(c)
        /\ UNCHANGED <<name, serverVars, published>>

(* Detach it there, without the lock of that server; if the PUT fails, or   *)
(* the server seems to be gone, go on anyway.                               *)
PublishGetOld(c) ==
    /\ At(c, "publish", "oldGet")
    /\ \/ /\ call' = [call EXCEPT ![c].pc = "oldPut", ![c].oldList = attached[call[c].old]]
          /\ UNCHANGED <<lock, errors>>
       \/ Fault /\ call[c].old \in Misread /\ Goto(c, "put") /\ UNCHANGED lock
       \/ Fault /\ call[c].old \notin Misread /\ Fail(c) /\ Unlock(c)
    /\ UNCHANGED <<name, serverVars, published>>

PublishPutOld(c) ==
    LET m == call[c].old
        list == [call[c].oldList EXCEPT ![Request[c].drive] = 0]
    IN  /\ At(c, "publish", "oldPut")
        /\ \/ PutAllowed(m, list) /\ PutServer(c, m, list) /\ UNCHANGED errors
           \/ ~PutAllowed(m, list) /\ UNCHANGED <<serverVars, errors>>
           \/ Fault /\ UNCHANGED serverVars
           \/ Fault /\ PutAllowed(m, list) /\ PutServer(c, m, list)
        /\ Goto(c, "put")
        /\ UNCHANGED <<name, lock, published>>

(* PUT the server with the drive added to the list read at the beginning.   *)
PublishPut(c) ==
    LET n == Request[c].server
        k == FindNextDeviceChannel(call[c].list)
        list == [call[c].list EXCEPT ![Request[c].drive] = k]
    IN  /\ At(c, "publish", "put")
        /\ \/ PutAllowed(n, list) /\ PutServer(c, n, list) /\ Report(c, k) /\ Finish(c)
              /\ UNCHANGED errors
           \/ ~PutAllowed(n, list) /\ Fail(c) /\ UNCHANGED <<serverVars, published, errors>>
           \/ Fault /\ Fail(c) /\ UNCHANGED <<serverVars, published>>
           \/ Fault /\ PutAllowed(n, list) /\ PutServer(c, n, list) /\ Fail(c) /\ UNCHANGED published
        /\ Unlock(c)
        /\ UNCHANGED name

-----------------------------------------------------------------------------
(* ControllerUnpublishVolume *)

(* A failed GET of the server may be taken for its absence, which is        *)
(* success.                                                                 *)
UnpublishVolume(c) ==
    LET n == Request[c].server
        d == Request[c].drive
    IN  /\ At(c, "unpublish", "new")
        /\ Issued(c)
        /\ Report(c, 0)
        /\ \/ attached[n][d] = 0 /\ Finish(c) /\ UNCHANGED errors
           \/ /\ attached[n][d] # 0
              /\ call' = [call EXCEPT ![c].pc = "unPut", ![c].list = attached[n]]
              /\ UNCHANGED errors
           \/ Fault /\ n \in Misread /\ Finish(c)
        /\ UNCHANGED <<name, serverVars, lock>>

UnpublishPut(c) ==
    LET n == Request[c].server
        list == [call[c].list EXCEPT ![Request[c].drive] = 0]
    IN  /\ At(c, "unpublish", "unPut")
        /\ \/ PutAllowed(n, list) /\ PutServer(c, n, list) /\ Goto(c, "poll") /\ UNCHANGED errors
           \/ ~PutAllowed(n, list) /\ Goto(c, "verify") /\ UNCHANGED <<serverVars, errors>>
           \/ Fault /\ Goto(c, "verify") /\ UNCHANGED serverVars
           \/ Fault /\ PutAllowed(n, list) /\ PutServer(c, n, list) /\ Goto(c, "verify")
        /\ UNCHANGED <<name, lock, published>>

(* A PUT that failed is a success if the drive is not there any more. *)
TrustsFailedPut(c) == TRUE
Detached(c) == attached[Request[c].server][Request[c].drive] = 0

UnpublishVerify(c) ==
    /\ At(c, "unpublish", "verify")
    /\ \/ (IF Detached(c) THEN Finish(c) ELSE Fail(c)) /\ UNCHANGED errors
       \/ Fault /\ (IF Request[c].server \in Misread THEN Finish(c) ELSE Fail(c))
    /\ UNCHANGED <<name, serverVars, lock, published>>

(* A round of waiting until the drive is unmounted.  The call succeeds when *)
(* it is, when the drive is gone or seems to be, and after the last round.  *)
UnpublishPoll(c) ==
    LET d == Request[c].drive
        next == IF call[c].polls = MaxPolls - 1 THEN Finish(c)
                ELSE call' = [call EXCEPT ![c].polls = @ + 1]
    IN  /\ At(c, "unpublish", "poll")
        /\ \/ (IF name[d] = None \/ mounted[d] = {} THEN Finish(c) ELSE next) /\ UNCHANGED errors
           \/ Fault /\ (IF d \in Misread THEN Finish(c) ELSE next)
        /\ UNCHANGED <<name, serverVars, lock, published>>

Step(c) ==
    \/ CreateVolume(c) \/ CreateDrive(c) \/ DeleteVolume(c) \/ DeleteDrive(c)
    \/ PublishVolume(c) \/ PublishDrive(c) \/ PublishGetOld(c) \/ PublishPutOld(c) \/ PublishPut(c)
    \/ UnpublishVolume(c) \/ UnpublishPut(c) \/ UnpublishVerify(c)
    \/ UnpublishPoll(c)

Next ==
    \/ \E c \in Calls : Step(c)
    \/ \E n \in Servers, d \in Drives : Unmount(n, d)

Spec == Init /\ [][Next]_vars

(* Goroutines run, mutexes are handed on first come, first served, the      *)
(* sidecars repeat failed calls, and CloudSigma completes what it accepted. *)
FairSpec ==
    /\ Spec
    /\ \A c \in Calls : SF_vars(Step(c))
    /\ WF_vars(\E n \in Servers, d \in Drives : Unmount(n, d))

-----------------------------------------------------------------------------
(* Properties *)

(* Every variable stays in its type: a channel is one of the NumChannels,   *)
(* and only a publish holds a lock, that of its server.                     *)
TypeOK ==
    /\ name \in [Drives -> Names \cup {None}]
    /\ attached \in [Servers -> DriveList]
    /\ mounted \in [Drives -> SUBSET Servers]
    /\ lock \in [Servers -> Calls \cup {None}]
    /\ call \in [Calls -> Call]
    /\ published \in [Servers -> DriveList]
    /\ crossed \subseteq Servers
    /\ errors \in Nat
    /\ \A n \in Servers : lock[n] # None =>
          Request[lock[n]].op = "publish" /\ call[lock[n]].pc \in Holding

(* What Kubernetes was told holds: a drive reported as attached is attached *)
(* at the reported channel, until its unpublish, or its publish elsewhere,  *)
(* begins.  NodeStageVolume finds the device by that channel.               *)
PublishedIsAttached ==
    \A n \in Servers, d \in Drives : published[n][d] # 0 => attached[n][d] = published[n][d]

(* The same on every server where no PUT ever came between the GET and the  *)
(* PUT of an unlocked detach, nor the PUT of a detach between those of an   *)
(* attach: that overlap is the only way for a report to become untrue.      *)
(* Attaches side by side, moves between servers, lost answers and requests  *)
(* misread as not found leave it true.                                      *)
AttachedUnlessCrossed ==
    \A n \in Servers \ crossed, d \in Drives :
        published[n][d] # 0 => attached[n][d] = published[n][d]

(* A channel of a server belongs to one drive. *)
ChannelsExclusive ==
    \A n \in Servers : \A d, e \in Drives :
        d # e /\ attached[n][d] # 0 => attached[n][d] # attached[n][e]

(* A repeated CreateVolume finds the drive of the call whose answer was     *)
(* lost: there is one drive of a name.                                      *)
OneDrivePerName == \A d, e \in Drives : name[d] # None /\ name[d] = name[e] => d = e

(* A drive whose unpublish returned success is off the server's list and    *)
(* stays off, as long as nobody publishes it there again, although the PUT  *)
(* may have failed or lost its answer; "Volume is still attached, return    *)
(* error".  Excepted are servers with a UUID that reads as 404, where a     *)
(* failed GET is taken for success, and those where writers have crossed.   *)
UnpublishedIsDetached ==
    \A c \in Calls :
        LET n == Request[c].server
            d == Request[c].drive
        IN  /\ Request[c].op = "unpublish" /\ call[c].pc = "done"
            /\ n \notin Misread \cup crossed
            /\ \A b \in Calls : Request[b].op = "publish" /\ Request[b].drive = d
                                   /\ Request[b].server = n => c \notin After[b]
            => attached[n][d] = 0

(* Every call succeeds in the end: each path gives the lock back, and a     *)
(* call that failed can be repeated.  What may block a DeleteVolume for     *)
(* good is a drive on the list of a server where writers have crossed, or   *)
(* whose UUID reads as 404: nobody detaches it any more.                    *)
LeftAttached(d) == \E n \in crossed \cup (Misread \cap Servers) : attached[n][d] # 0

CallsReturn ==
    <>[]\A c \in Calls : \/ call[c].pc = "done"
                         \/ Request[c].op = "delete" /\ LeftAttached(Request[c].drive)
=============================================================================
