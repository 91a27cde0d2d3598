------------------------------- MODULE CSINode -------------------------------
(***************************************************************************)
(* The node service of the CSI driver on one node (csi/driver/node.go).    *)
(*                                                                         *)
(* NodeStageVolume has to find the device of a volume.  The publish        *)
(* context carries a channel, which is only checked for being there: the   *)
(* device is the one unmounted disk that is plugged in, the one plugged in *)
(* last if there are several, or the one that appears within ten seconds.  *)
(* nodeDeviceMu serializes whole calls of NodeStageVolume, and nothing     *)
(* else.  Kubelet waits for an answer for a limited time only; the call it *)
(* gave up goes on in its goroutine while kubelet retries or cleans up.    *)
(*                                                                         *)
(* A volume stands for its device, its staging path and the target path of *)
(* the one pod that uses it.  Volumes are filesystems: a block volume gets *)
(* no further than NodePublishVolume, which wants a devicePath that        *)
(* ControllerPublishVolume never sends.                                    *)
(***************************************************************************)
EXTENDS Integers, FiniteSets

CONSTANTS
    Volumes,
    Calls,       \* the goroutines that may serve NodeStageVolume at a time
    MaxRetries,  \* 20 in the code: rounds of waiting for a new device
    Limit,       \* how often each kind of fault may happen
    None

FaultKinds == {"err", "timeout", "restart", "reboot"}

ASSUME NodeServiceAssumption ==
    /\ None \notin Volumes \cup Calls \cup {"dead", "root"}
    /\ Volumes \cap {"dead", "root"} = {}
    /\ IsFiniteSet(Volumes)
    /\ MaxRetries \in Nat \ {0}
    /\ Limit \in [FaultKinds -> Nat]

VARIABLES
    kube,     \* what kubelet and the attacher know of each volume
    plugged,  \* when the device of a volume appeared: 1 the oldest, 0 not there
    mnt,      \* whose device is mounted at the staging path of a volume
    tgt,      \* what is bind mounted at the target path of its pod
    mu,       \* nodeDeviceMu: the call that holds it
    call,     \* where each NodeStageVolume is
    crowded,  \* history: have two volumes ever waited for their device at once?
    blind,    \* history: the volumes once staged without a list of the mounts
    faults

vars == <<kube, plugged, mnt, tgt, mu, call, crowded, blind, faults>>

(* Mounted devices: that of a volume, one that was unplugged meanwhile, or  *)
(* the disk of the node itself.                                             *)
MaybeDevice == Volumes \cup {None, "dead"}
Target == MaybeDevice \cup {"root"}

KubeStates == {"off", "attached", "uncertain", "staged", "published"}

(* live: kubelet still waits for the answer; base: existingDevices. *)
PCs == {"idle", "lock", "wait", "format", "mount"}
Call == [pc: PCs, vol: Volumes \cup {None}, live: BOOLEAN,
         base: SUBSET Volumes, tries: 0..(MaxRetries - 1), dev: Volumes \cup {None}]
NoCall == [pc |-> "idle", vol |-> None, live |-> FALSE, base |-> {}, tries |-> 0, dev |-> None]

Init ==
    /\ kube = [v \in Volumes |-> "off"]
    /\ plugged = [v \in Volumes |-> 0]
    /\ mnt = [v \in Volumes |-> None]
    /\ tgt = [v \in Volumes |-> None]
    /\ mu = None
    /\ call = [k \in Calls |-> NoCall]
    /\ crowded = FALSE
    /\ blind = {}
    /\ faults = [k \in FaultKinds |-> 0]

-----------------------------------------------------------------------------
Spend(k) == faults[k] < Limit[k] /\ faults' = [faults EXCEPT ![k] = @ + 1]

At(k, l) == call[k].pc = l

Visible == {v \in Volumes : plugged[v] # 0}

Mounted == {mnt[v] : v \in Volumes} \cup {tgt[v] : v \in Volumes}

(* The disks findDeviceByPath considers: not the boot disk, not mounted. *)
AllDisks == Visible
Candidates == Visible \ Mounted

Goto(k, l) == call' = [call EXCEPT ![k].pc = l]
KeepLock(k) == UNCHANGED mu
Unlock(k) == mu' = None

(* The answer; only a kubelet that still waits hears it. *)
Succeed(k) ==
    /\ call' = [call EXCEPT ![k] = NoCall]
    /\ kube' = IF call[k].live THEN [kube EXCEPT ![call[k].vol] = "staged"] ELSE kube
    /\ Unlock(k)

Fail(k) == call' = [call EXCEPT ![k] = NoCall] /\ Unlock(k) /\ UNCHANGED kube

-----------------------------------------------------------------------------
(* NodeStageVolume: take the mutex, look at the disks that are there. *)
Found(k, d) == call' = [call EXCEPT ![k].pc = "format", ![k].dev = d]

LockIgnored == TRUE
LockFree == mu = None

(* The newest of the candidates, or wait for another disk. *)
Choose(k, disks) ==
    \/ \E d \in disks : (\A e \in disks : plugged[e] <= plugged[d]) /\ Found(k, d)
    \/ disks = {} /\ call' = [call EXCEPT ![k].pc = "wait", ![k].base = Visible]

(* That the mounts cannot be listed is only logged: none is excluded then.  *)
FindDeviceByPath(k) ==
    /\ At(k, "lock")
    /\ LockFree
    /\ mu' = k
    /\ \/ Choose(k, Candidates) /\ UNCHANGED <<blind, faults>>
       \/ Spend("err") /\ Choose(k, Visible) /\ blind' = blind \cup {call[k].vol}
    /\ UNCHANGED <<kube, plugged, mnt, tgt, crowded>>

(* One round of waiting for a disk that was not there at first: exactly one *)
(* is taken, several are an error, as is none in the last round.            *)
AnyDevices(k) == Visible
NewDevices(k) == Visible \ call[k].base

WaitForDevice(k) ==
    LET new == NewDevices(k)
    IN  /\ At(k, "wait")
        /\ \/ \E d \in new : new = {d} /\ Found(k, d) /\ UNCHANGED <<mu, kube>>
           \/ /\ new = {}
              /\ call[k].tries < MaxRetries - 1
              /\ call' = [call EXCEPT ![k].tries = @ + 1]
              /\ UNCHANGED <<mu, kube>>
           \/ new = {} /\ call[k].tries = MaxRetries - 1 /\ Fail(k)
           \/ Cardinality(new) > 1 /\ Fail(k)
        /\ UNCHANGED <<plugged, mnt, tgt, faults, crowded, blind>>

(* The disk may be gone again; a path that has a mount is staged; a disk    *)
(* without a file system is formatted.                                      *)
FormatDevice(k) ==
    LET v == call[k].vol
        d == call[k].dev
    IN  /\ At(k, "format")
        /\ \/ d \notin Visible /\ Fail(k) /\ UNCHANGED faults
           \/ d \in Visible /\ mnt[v] # None /\ Succeed(k) /\ UNCHANGED faults
           \/ d \in Visible /\ mnt[v] = None /\ Goto(k, "mount") /\ UNCHANGED <<mu, kube, faults>>
           \/ Spend("err") /\ Fail(k)
        /\ UNCHANGED <<plugged, mnt, tgt, crowded, blind>>

MountIgnoringErrors(k) ==
    /\ At(k, "mount")
    /\ \/ call[k].dev \in Visible /\ mnt' = [mnt EXCEPT ![call[k].vol] = call[k].dev] /\ UNCHANGED faults
       \/ call[k].dev \notin Visible /\ UNCHANGED <<mnt, faults>>
       \/ Spend("err") /\ UNCHANGED mnt
    /\ Succeed(k)
    /\ UNCHANGED <<plugged, tgt, crowded, blind>>

Mount(k) ==
    LET v == call[k].vol
        d == call[k].dev
    IN  /\ At(k, "mount")
        /\ \/ d \in Visible /\ mnt' = [mnt EXCEPT ![v] = d] /\ Succeed(k) /\ UNCHANGED faults
           \/ d \notin Visible /\ Fail(k) /\ UNCHANGED <<mnt, faults>>
           \/ Spend("err") /\ Fail(k) /\ UNCHANGED mnt
        /\ UNCHANGED <<plugged, tgt, crowded, blind>>

StageStep(k) == FindDeviceByPath(k) \/ WaitForDevice(k) \/ FormatDevice(k) \/ Mount(k)

-----------------------------------------------------------------------------
(* The calls kubelet makes one at a time for a volume; those that fail have *)
(* no effect and are repeated.                                              *)
Waiting(v) == \E k \in Calls : call[k].vol = v /\ call[k].live

(* The volumes that wait for their device, or for which a call still runs.  *)
Unsettled ==
    {v \in Volumes : mnt[v] # v /\ (kube[v] # "off" \/ \E k \in Calls : call[k].vol = v)}

Observe == crowded' = (crowded \/ Cardinality(Unsettled') > 1)

(* NodeUnstageVolume: without the mutex. *)
NodeUnstageVolume(v) ==
    /\ kube[v] \in {"uncertain", "staged"}
    /\ ~Waiting(v)
    /\ mnt' = [mnt EXCEPT ![v] = None]
    /\ kube' = [kube EXCEPT ![v] = "attached"]
    /\ UNCHANGED <<plugged, tgt, mu, call, faults, blind>>
    /\ Observe

(* NodePublishVolume binds the staging path to the target path, whatever    *)
(* the staging path is: without a mount it is a directory of the node.      *)
NodePublishVolume(v) ==
    /\ kube[v] = "staged"
    /\ tgt' = [tgt EXCEPT ![v] = IF tgt[v] # None THEN tgt[v]
                                 ELSE IF mnt[v] = None THEN "root" ELSE mnt[v]]
    /\ kube' = [kube EXCEPT ![v] = "published"]
    /\ UNCHANGED <<plugged, mnt, mu, call, faults, crowded, blind>>

NodeUnpublishVolume(v) ==
    /\ kube[v] = "published"
    /\ tgt' = [tgt EXCEPT ![v] = None]
    /\ kube' = [kube EXCEPT ![v] = "staged"]
    /\ UNCHANGED <<plugged, mnt, mu, call, faults, crowded, blind>>

-----------------------------------------------------------------------------
(* Kubernetes, CloudSigma and the kernel. *)

(* ControllerPublishVolume has returned; the disk appears in its own time.  *)
Attach(v) ==
    /\ kube[v] = "off"
    /\ kube' = [kube EXCEPT ![v] = "attached"]
    /\ UNCHANGED <<plugged, mnt, tgt, mu, call, faults, blind>>
    /\ Observe

Plug(v) ==
    /\ kube[v] # "off"
    /\ plugged[v] = 0
    /\ plugged' = [plugged EXCEPT ![v] = Cardinality(Visible) + 1]
    /\ UNCHANGED <<kube, mnt, tgt, mu, call, faults, crowded, blind>>

(* ControllerUnpublishVolume, of a volume kubelet believes to be unstaged.  *)
Detach(v) ==
    /\ kube[v] = "attached"
    /\ kube' = [kube EXCEPT ![v] = "off"]
    /\ plugged' = [w \in Volumes |-> IF w = v THEN 0
                                     ELSE IF plugged[v] # 0 /\ plugged[w] > plugged[v] THEN plugged[w] - 1
                                     ELSE plugged[w]]
    /\ mnt' = [w \in Volumes |-> IF mnt[w] = v THEN "dead" ELSE mnt[w]]
    /\ tgt' = [w \in Volumes |-> IF tgt[w] = v THEN "dead" ELSE tgt[w]]
    /\ UNCHANGED <<mu, call, faults, blind>>
    /\ Observe

(* Kubelet calls NodeStageVolume, and may stop waiting for the answer. *)
CallStage(k, v) ==
    /\ At(k, "idle")
    /\ kube[v] \in {"attached", "uncertain"}
    /\ ~Waiting(v)
    /\ call' = [call EXCEPT ![k] = [NoCall EXCEPT !.pc = "lock", !.vol = v, !.live = TRUE]]
    /\ kube' = [kube EXCEPT ![v] = "uncertain"]
    /\ UNCHANGED <<plugged, mnt, tgt, mu, faults, crowded, blind>>

GiveUp(k) ==
    /\ call[k].live
    /\ Spend("timeout")
    /\ call' = [call EXCEPT ![k].live = FALSE]
    /\ UNCHANGED <<kube, plugged, mnt, tgt, mu, crowded, blind>>

(* The driver's pod restarts: its calls end, the mounts stay. *)
Restart ==
    /\ Spend("restart")
    /\ call' = [k \in Calls |-> NoCall]
    /\ mu' = None
    /\ UNCHANGED <<kube, plugged, mnt, tgt, crowded, blind>>

(* The node restarts: nothing is mounted any more, and the disks come back  *)
(* in any order.                                                            *)
Reboot ==
    LET present == {v \in Volumes : kube[v] # "off"}
    IN  /\ Spend("reboot")
        /\ call' = [k \in Calls |-> NoCall]
        /\ mu' = None
        /\ mnt' = [v \in Volumes |-> None]
        /\ tgt' = [v \in Volumes |-> None]
        /\ kube' = [v \in Volumes |-> IF v \in present THEN "attached" ELSE "off"]
        /\ plugged' \in [Volumes -> 0..Cardinality(Volumes)]
        /\ {v \in Volumes : plugged'[v] # 0} = present
        /\ {plugged'[v] : v \in present} = 1..Cardinality(present)
        /\ UNCHANGED blind
        /\ Observe

Next ==
    \/ \E k \in Calls : StageStep(k) \/ GiveUp(k) \/ \E v \in Volumes : CallStage(k, v)
    \/ \E v \in Volumes :
         \/ NodeUnstageVolume(v) \/ NodePublishVolume(v) \/ NodeUnpublishVolume(v)
         \/ Attach(v) \/ Plug(v) \/ Detach(v)
    \/ Restart
    \/ Reboot

Spec == Init /\ [][Next]_vars

(* Go runs every goroutine and hands the mutex on first come, first served; *)
(* plugging is CloudSigma's.                                                *)
FairSpec == Spec /\ \A k \in Calls : SF_vars(StageStep(k))

-----------------------------------------------------------------------------
(* Properties *)

(* Every variable stays in its type; only a running call holds the mutex. *)
TypeOK ==
    /\ kube \in [Volumes -> KubeStates]
    /\ plugged \in [Volumes -> Nat]
    /\ mnt \in [Volumes -> MaybeDevice]
    /\ tgt \in [Volumes -> Target]
    /\ mu \in Calls \cup {None}
    /\ call \in [Calls -> Call]
    /\ crowded \in BOOLEAN
    /\ blind \subseteq Volumes
    /\ faults \in [FaultKinds -> Nat]
    /\ \A k \in Calls : mu = k <=> call[k].pc \in {"wait", "format", "mount"}

(* A device is never mounted at two staging paths, though discovery and     *)
(* mount are steps apart, kubelet's retries run beside calls it gave up,    *)
(* and unstaging takes no lock; unless one of the two was staged when the   *)
(* mounts could not be listed, against the "NO FALLBACKS - either we find   *)
(* the correct device or we fail" of findDeviceByPath.                      *)
OneMountPerDevice ==
    \A v, w \in Volumes :
        mnt[v] \in Volumes /\ v # w /\ mnt[v] = mnt[w] => {v, w} \cap blind # {}

(* The comment in findDeviceByPath, "This works because CSI processes       *)
(* volumes sequentially": as long as no two volumes waited for their device *)
(* at once, each staging path has the volume's own device, unless it was    *)
(* staged when the mounts could not be listed.  Once two waited, or the     *)
(* node was rebooted with two, a path may have another volume's, and        *)
(* docs/csi.md:413, "Wrong device mounted ... Fixed in v1.2.4 with mutex    *)
(* serialization", claims too much.                                         *)
OwnUnlessCrowded ==
    crowded \/ \A v \in Volumes \ blind : mnt[v] \in Volumes => mnt[v] = v

(* A pod that was given its volume has the device that is mounted at the    *)
(* staging path, never a directory of the node's own disk.                  *)
PodSeesStaged ==
    \A v \in Volumes : kube[v] = "published" => tgt[v] = mnt[v] /\ mnt[v] # None

(* Every NodeStageVolume returns, and gives nodeDeviceMu back. *)
StageReturns == \A k \in Calls : call[k].pc # "idle" ~> call[k].pc = "idle"
=============================================================================
