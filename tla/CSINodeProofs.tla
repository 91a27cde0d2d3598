--------------------------- MODULE CSINodeProofs ---------------------------
(* Theorems about CSINode, for any number of volumes, calls and faults. *)
EXTENDS CSINode, FiniteSetTheorems, TLAPS

-----------------------------------------------------------------------------
(* Type correctness, with the discipline of the mutex: a call past the lock *)
(* has a volume, and one past discovery a device.                           *)

HolderPCs == {"wait", "format", "mount"}

CallOK ==
    \A k \in Calls : /\ call[k].pc # "idle" => call[k].vol \in Volumes
                     /\ call[k].live => call[k].pc # "idle"
                     /\ call[k].pc \in {"format", "mount"} => call[k].dev \in Volumes

TypeInv == TypeOK /\ CallOK

(* The value of a call that does not run. *)
LEMMA NoCallType ==
  /\ NoCall \in Call
  /\ NoCall.pc = "idle" /\ NoCall.live = FALSE /\ NoCall.vol = None /\ NoCall.dev = None
<1>1. 0 \in 0..(MaxRetries - 1)
  BY NodeServiceAssumption
<1> QED
  BY <1>1 DEF NoCall, Call, PCs

(* The initial states are well typed. *)
LEMMA InitType == Init => TypeInv
<1> SUFFICES ASSUME Init PROVE TypeInv
  OBVIOUS
<1>1. kube \in [Volumes -> KubeStates] /\ plugged \in [Volumes -> Nat]
  BY DEF Init, KubeStates
<1>2. mnt \in [Volumes -> MaybeDevice] /\ tgt \in [Volumes -> Target]
  BY DEF Init, MaybeDevice, Target
<1>3. /\ faults \in [FaultKinds -> Nat] /\ mu \in Calls \cup {None} /\ crowded \in BOOLEAN
      /\ blind \subseteq Volumes
  BY DEF Init
<1>4. call = [k \in Calls |-> NoCall] /\ mu = None
  BY DEF Init
<1>5. call \in [Calls -> Call]
  BY <1>4, NoCallType
<1>6. \A k \in Calls : call[k].pc = "idle" /\ call[k].live = FALSE
  BY <1>4, NoCallType
<1>7. \A k \in Calls : mu = k <=> call[k].pc \in {"wait", "format", "mount"}
  BY <1>4, <1>6, NodeServiceAssumption
<1>8. CallOK
  BY <1>6 DEF CallOK
<1> QED
  BY <1>1, <1>2, <1>3, <1>5, <1>7, <1>8 DEF TypeInv, TypeOK

(* Spending a fault keeps the counters well typed. *)
LEMMA SpendType ==
  ASSUME TypeInv, NEW k \in FaultKinds, Spend(k)
  PROVE  faults' \in [FaultKinds -> Nat]
  BY DEF TypeInv, TypeOK, Spend

(* The rest of the call stays as it was under the assignments made. *)
LEMMA CallType ==
  ASSUME NEW c \in Call
  PROVE  /\ NoCall \in Call
         /\ \A d \in Volumes : [c EXCEPT !.pc = "format", !.dev = d] \in Call
         /\ \A b \in SUBSET Volumes : [c EXCEPT !.pc = "wait", !.base = b] \in Call
         /\ c.tries < MaxRetries - 1 => [c EXCEPT !.tries = @ + 1] \in Call
         /\ [c EXCEPT !.pc = "mount"] \in Call
         /\ [c EXCEPT !.live = FALSE] \in Call
         /\ \A v \in Volumes : [NoCall EXCEPT !.pc = "lock", !.vol = v, !.live = TRUE] \in Call
<1>1. \A d \in Volumes : [c EXCEPT !.pc = "format", !.dev = d] \in Call
  BY DEF Call, PCs
<1>2. \A b \in SUBSET Volumes : [c EXCEPT !.pc = "wait", !.base = b] \in Call
  BY DEF Call, PCs
<1>3. c.tries < MaxRetries - 1 => [c EXCEPT !.tries = @ + 1] \in Call
  <2>1. c.tries \in 0..(MaxRetries - 1)
    BY DEF Call
  <2>2. c.tries < MaxRetries - 1 => c.tries + 1 \in 0..(MaxRetries - 1)
    BY <2>1, NodeServiceAssumption
  <2> QED
    BY <2>2 DEF Call
<1>4. [c EXCEPT !.pc = "mount"] \in Call /\ [c EXCEPT !.live = FALSE] \in Call
  BY DEF Call, PCs
<1>5. \A v \in Volumes : [NoCall EXCEPT !.pc = "lock", !.vol = v, !.live = TRUE] \in Call
  BY NoCallType DEF Call, PCs
<1> QED
  BY <1>1, <1>2, <1>3, <1>4, <1>5, NoCallType

(* A step of one call that moves on, holding the mutex. *)
LEMMA MoveType ==
  ASSUME TypeInv, NEW k \in Calls, NEW c \in Call, call' = [call EXCEPT ![k] = c],
         c.pc \in HolderPCs, c.vol = call[k].vol, c.vol \in Volumes,
         c.pc \in {"format", "mount"} => c.dev \in Volumes,
         mu' = k, mu \in {None, k}, faults' \in [FaultKinds -> Nat], blind' \subseteq Volumes,
         UNCHANGED <<kube, plugged, mnt, tgt, crowded>>
  PROVE  TypeInv'
<1>1. call' \in [Calls -> Call] /\ mu' \in Calls \cup {None}
  BY DEF TypeInv, TypeOK
<1>2. \A j \in Calls : mu' = j <=> call'[j].pc \in {"wait", "format", "mount"}
  BY NodeServiceAssumption DEF TypeInv, TypeOK, HolderPCs
<1>3. CallOK'
  BY DEF TypeInv, TypeOK, CallOK, HolderPCs
<1> QED
  BY <1>1, <1>2, <1>3 DEF TypeInv, TypeOK

(* The end of a call, with whatever else it changes. *)
LEMMA EndType ==
  ASSUME TypeInv, NEW k \in Calls, call[k].pc \in HolderPCs, Succeed(k) \/ Fail(k),
         mnt' \in [Volumes -> MaybeDevice], faults' \in [FaultKinds -> Nat],
         UNCHANGED <<plugged, tgt, crowded, blind>>
  PROVE  TypeInv'
<1>1. call' = [call EXCEPT ![k] = NoCall] /\ mu' = None
  BY DEF Succeed, Fail, Unlock
<1>2. call' \in [Calls -> Call] /\ call[k].vol \in Volumes
  BY <1>1, CallType DEF TypeInv, TypeOK, CallOK, HolderPCs
<1>3. kube' \in [Volumes -> KubeStates]
  BY <1>2 DEF TypeInv, TypeOK, Succeed, Fail, KubeStates
<1>4. mu = k
  BY DEF TypeInv, TypeOK, HolderPCs
<1>5. \A j \in Calls : mu' = j <=> call'[j].pc \in {"wait", "format", "mount"}
  BY <1>1, <1>4, NodeServiceAssumption DEF TypeInv, TypeOK, NoCall
<1>6. CallOK'
  BY <1>1 DEF TypeInv, TypeOK, CallOK, NoCall
<1> QED
  BY <1>1, <1>2, <1>3, <1>5, <1>6 DEF TypeInv, TypeOK

(* All calls end at once. *)
LEMMA AllEndType ==
  ASSUME TypeInv, call' = [k \in Calls |-> NoCall], mu' = None,
         kube' \in [Volumes -> KubeStates], plugged' \in [Volumes -> Nat],
         mnt' \in [Volumes -> MaybeDevice], tgt' \in [Volumes -> Target],
         crowded' \in BOOLEAN, faults' \in [FaultKinds -> Nat], UNCHANGED blind
  PROVE  TypeInv'
<1>1. NoCall \in Call /\ NoCall.pc = "idle" /\ NoCall.live = FALSE
  BY NoCallType
<1>2. call' \in [Calls -> Call]
  BY <1>1
<1>3. \A j \in Calls : mu' = j <=> call'[j].pc \in {"wait", "format", "mount"}
  BY <1>1, NodeServiceAssumption
<1>4. CallOK'
  BY <1>1 DEF CallOK
<1> QED
  BY <1>2, <1>3, <1>4 DEF TypeInv, TypeOK

(* Calls and mutex stay: the rest only has to be well typed. *)
LEMMA OutsideType ==
  ASSUME TypeInv, UNCHANGED <<mu, call>>,
         kube' \in [Volumes -> KubeStates], plugged' \in [Volumes -> Nat],
         mnt' \in [Volumes -> MaybeDevice], tgt' \in [Volumes -> Target],
         crowded' \in BOOLEAN, faults' \in [FaultKinds -> Nat], UNCHANGED blind
  PROVE  TypeInv'
  BY DEF TypeInv, TypeOK, CallOK

(* Every step of NodeStageVolume keeps the types. *)
LEMMA StageType ==
  ASSUME TypeInv, NEW k \in Calls, StageStep(k)
  PROVE  TypeInv'
<1>0. /\ call[k] \in Call /\ faults \in [FaultKinds -> Nat] /\ mnt \in [Volumes -> MaybeDevice]
      /\ blind \subseteq Volumes
  BY DEF TypeInv, TypeOK
<1>1. CASE FindDeviceByPath(k)
  <2>1. call[k].pc = "lock" /\ call[k].vol \in Volumes /\ mu' = k /\ mu = None
    BY <1>1 DEF FindDeviceByPath, At, LockFree, TypeInv, CallOK
  <2>a. faults' \in [FaultKinds -> Nat] /\ blind' \subseteq Volumes
    BY <1>0, <1>1, <2>1, SpendType DEF FindDeviceByPath, FaultKinds
  <2>2. CASE \E d \in Visible : Found(k, d)
    <3>1. PICK d \in Visible : Found(k, d)
      BY <2>2
    <3>2. d \in Volumes
      BY <3>1 DEF Visible
    <3>3. [call[k] EXCEPT !.pc = "format", !.dev = d] \in Call
      BY <1>0, <3>2, CallType
    <3>4. call' = [call EXCEPT ![k] = [call[k] EXCEPT !.pc = "format", !.dev = d]]
      BY <3>1 DEF Found
    <3> QED
      BY <1>0, <1>1, <2>1, <2>a, <3>2, <3>3, <3>4, MoveType DEF FindDeviceByPath, HolderPCs, Call
  <2>3. CASE call' = [call EXCEPT ![k].pc = "wait", ![k].base = Visible]
    <3>1. [call[k] EXCEPT !.pc = "wait", !.base = Visible] \in Call
      BY <1>0, CallType DEF Visible
    <3>2. call' = [call EXCEPT ![k] = [call[k] EXCEPT !.pc = "wait", !.base = Visible]]
      BY <2>3
    <3> QED
      BY <1>0, <1>1, <2>1, <2>a, <3>1, <3>2, MoveType DEF FindDeviceByPath, HolderPCs, Call
  <2> QED
    BY <1>1, <2>2, <2>3 DEF FindDeviceByPath, Choose, Candidates
<1>2. CASE WaitForDevice(k)
  <2>1. call[k].pc = "wait" /\ call[k].vol \in Volumes /\ mu = k
    BY <1>2 DEF WaitForDevice, At, TypeInv, CallOK, TypeOK
  <2>2. ASSUME NEW d \in NewDevices(k), Found(k, d), UNCHANGED <<mu, kube>> PROVE TypeInv'
    <3>1. d \in Volumes
      BY DEF NewDevices, Visible
    <3>2. [call[k] EXCEPT !.pc = "format", !.dev = d] \in Call
      BY <1>0, <3>1, CallType
    <3>3. call' = [call EXCEPT ![k] = [call[k] EXCEPT !.pc = "format", !.dev = d]]
      BY <2>2 DEF Found
    <3> QED
      BY <1>0, <1>2, <2>1, <2>2, <3>1, <3>2, <3>3, MoveType DEF WaitForDevice, HolderPCs, Call
  <2>3. CASE /\ call[k].tries < MaxRetries - 1
             /\ call' = [call EXCEPT ![k].tries = @ + 1]
             /\ UNCHANGED <<mu, kube>>
    <3>1. [call[k] EXCEPT !.tries = @ + 1] \in Call
      BY <1>0, <2>3, CallType
    <3>2. call' = [call EXCEPT ![k] = [call[k] EXCEPT !.tries = @ + 1]]
      BY <2>3
    <3> QED
      BY <1>0, <1>2, <2>1, <2>3, <3>1, <3>2, MoveType DEF WaitForDevice, HolderPCs, Call
  <2>4. CASE Fail(k)
    BY <1>0, <1>2, <2>1, <2>4, EndType DEF WaitForDevice, HolderPCs
  <2> QED
    BY <1>2, <2>2, <2>3, <2>4 DEF WaitForDevice
<1>3. CASE FormatDevice(k)
  <2>1. call[k].pc = "format" /\ call[k].vol \in Volumes /\ call[k].dev \in Volumes /\ mu = k
    BY <1>3 DEF FormatDevice, At, TypeInv, CallOK, TypeOK
  <2>2. CASE Succeed(k) \/ Fail(k)
    <3>1. faults' \in [FaultKinds -> Nat]
      BY <1>0, <1>3, SpendType DEF FormatDevice, FaultKinds
    <3> QED
      BY <1>0, <1>3, <2>1, <2>2, <3>1, EndType DEF FormatDevice, HolderPCs
  <2>3. CASE Goto(k, "mount") /\ UNCHANGED <<mu, kube, faults>>
    <3>1. [call[k] EXCEPT !.pc = "mount"] \in Call
      BY <1>0, CallType
    <3>2. call' = [call EXCEPT ![k] = [call[k] EXCEPT !.pc = "mount"]]
      BY <2>3 DEF Goto
    <3> QED
      BY <1>0, <1>3, <2>1, <2>3, <3>1, <3>2, MoveType DEF FormatDevice, HolderPCs, Call
  <2> QED
    BY <1>3, <2>2, <2>3 DEF FormatDevice
<1>4. CASE Mount(k)
  <2>1. call[k].pc = "mount" /\ call[k].vol \in Volumes /\ call[k].dev \in Volumes
    BY <1>4 DEF Mount, At, TypeInv, CallOK
  <2>2. faults' \in [FaultKinds -> Nat] /\ mnt' \in [Volumes -> MaybeDevice]
    BY <1>0, <1>4, <2>1, SpendType DEF Mount, FaultKinds, MaybeDevice
  <2> QED
    BY <1>4, <2>1, <2>2, EndType DEF Mount, HolderPCs
<1> QED
  BY <1>1, <1>2, <1>3, <1>4 DEF StageStep

(* Kubelet, the attacher, the kernel and the node keep the types. *)
LEMMA OtherType ==
  ASSUME TypeInv, NEW v \in Volumes,
         \/ NodeUnstageVolume(v) \/ NodePublishVolume(v) \/ NodeUnpublishVolume(v)
         \/ Attach(v) \/ Plug(v) \/ Detach(v)
  PROVE  TypeInv'
<1>1. Cardinality(Visible) \in Nat
  BY NodeServiceAssumption, FS_Subset, FS_CardinalityType DEF Visible
<1>2. UNCHANGED <<mu, call, faults, blind>> /\ crowded' \in BOOLEAN
  BY DEF NodeUnstageVolume, NodePublishVolume, NodeUnpublishVolume, Attach, Plug, Detach, Observe,
         TypeInv, TypeOK
<1>3. kube' \in [Volumes -> KubeStates]
  BY DEF NodeUnstageVolume, NodePublishVolume, NodeUnpublishVolume, Attach, Plug, Detach,
         TypeInv, TypeOK, KubeStates
<1>4. plugged' \in [Volumes -> Nat]
  BY <1>1 DEF NodeUnstageVolume, NodePublishVolume, NodeUnpublishVolume, Attach, Plug, Detach,
         TypeInv, TypeOK
<1>5. mnt' \in [Volumes -> MaybeDevice]
  BY DEF NodeUnstageVolume, NodePublishVolume, NodeUnpublishVolume, Attach, Plug, Detach,
         TypeInv, TypeOK, MaybeDevice
<1>6. tgt' \in [Volumes -> Target]
  BY DEF NodeUnstageVolume, NodePublishVolume, NodeUnpublishVolume, Attach, Plug, Detach,
         TypeInv, TypeOK, MaybeDevice, Target
<1> QED
  BY <1>2, <1>3, <1>4, <1>5, <1>6, OutsideType DEF TypeInv, TypeOK

(* Kubelet calls, and stops waiting: the mutex is not touched. *)
LEMMA AskType ==
  ASSUME TypeInv, NEW k \in Calls,
         GiveUp(k) \/ \E v \in Volumes : CallStage(k, v)
  PROVE  TypeInv'
<1>0. call[k] \in Call /\ call \in [Calls -> Call]
  BY DEF TypeInv, TypeOK
<1>1. CASE GiveUp(k)
  <2>1. call' = [call EXCEPT ![k] = [call[k] EXCEPT !.live = FALSE]]
    BY <1>1 DEF GiveUp
  <2>2. [call[k] EXCEPT !.live = FALSE] \in Call
    BY <1>0, CallType
  <2>3. call' \in [Calls -> Call] /\ mu' = mu
    BY <1>0, <1>1, <2>1, <2>2 DEF GiveUp
  <2>4. \A j \in Calls : call'[j].pc = call[j].pc /\ call'[j].vol = call[j].vol /\ call'[j].dev = call[j].dev
    BY <1>0, <2>1 DEF Call
  <2>5. \A j \in Calls : call'[j].live => call[j].live
    BY <1>0, <2>1 DEF Call
  <2>6. CallOK'
    BY <2>4, <2>5 DEF TypeInv, CallOK
  <2>7. faults' \in [FaultKinds -> Nat]
    BY <1>1, SpendType DEF GiveUp, FaultKinds
  <2> QED
    BY <1>1, <2>3, <2>4, <2>6, <2>7 DEF GiveUp, TypeInv, TypeOK
<1>2. ASSUME NEW v \in Volumes, CallStage(k, v) PROVE TypeInv'
  <2> DEFINE c == [NoCall EXCEPT !.pc = "lock", !.vol = v, !.live = TRUE]
  <2>1. c \in Call /\ c.pc = "lock" /\ c.vol = v
    BY <1>0, CallType DEF NoCall
  <2>2. call' = [call EXCEPT ![k] = c] /\ call[k].pc = "idle"
    BY <1>2 DEF CallStage, At
  <2> HIDE DEF c
  <2>3. call' \in [Calls -> Call]
    BY <1>0, <2>1, <2>2
  <2>4. \A j \in Calls : mu' = j <=> call'[j].pc \in {"wait", "format", "mount"}
    BY <1>0, <1>2, <2>1, <2>2 DEF CallStage, TypeInv, TypeOK
  <2>5. CallOK'
    BY <1>0, <2>1, <2>2 DEF TypeInv, CallOK
  <2>6. kube' \in [Volumes -> KubeStates]
    BY <1>2 DEF CallStage, TypeInv, TypeOK, KubeStates
  <2> QED
    BY <1>2, <2>3, <2>4, <2>5, <2>6 DEF CallStage, TypeInv, TypeOK
<1> QED
  BY <1>1, <1>2

(* Every step keeps the types. *)
LEMMA NextType == TypeInv /\ [Next]_vars => TypeInv'
<1> SUFFICES ASSUME TypeInv, [Next]_vars PROVE TypeInv'
  OBVIOUS
<1>1. ASSUME NEW k \in Calls, StageStep(k) \/ GiveUp(k) \/ \E v \in Volumes : CallStage(k, v)
      PROVE  TypeInv'
  BY <1>1, StageType, AskType
<1>2. ASSUME NEW v \in Volumes,
             \/ NodeUnstageVolume(v) \/ NodePublishVolume(v) \/ NodeUnpublishVolume(v)
             \/ Attach(v) \/ Plug(v) \/ Detach(v)
      PROVE  TypeInv'
  BY <1>2, OtherType
<1>3. CASE Restart
  <2>1. faults' \in [FaultKinds -> Nat]
    BY <1>3, SpendType DEF Restart, FaultKinds
  <2> QED
    BY <1>3, <2>1, AllEndType DEF Restart, TypeInv, TypeOK
<1>4. CASE Reboot
  <2>1. faults' \in [FaultKinds -> Nat]
    BY <1>4, SpendType DEF Reboot, FaultKinds
  <2>2. kube' \in [Volumes -> KubeStates] /\ mnt' \in [Volumes -> MaybeDevice] /\ tgt' \in [Volumes -> Target]
    BY <1>4 DEF Reboot, KubeStates, MaybeDevice, Target
  <2>3. plugged' \in [Volumes -> Nat]
    <3>1. Cardinality(Volumes) \in Nat
      BY NodeServiceAssumption, FS_CardinalityType
    <3> QED
      BY <1>4, <3>1 DEF Reboot
  <2>4. crowded' \in BOOLEAN
    BY <1>4 DEF Reboot, Observe, TypeInv, TypeOK
  <2> QED
    BY <1>4, <2>1, <2>2, <2>3, <2>4, AllEndType DEF Reboot
<1>5. CASE UNCHANGED vars
  BY <1>5 DEF vars, TypeInv, TypeOK, CallOK
<1> QED
  BY <1>1, <1>2, <1>3, <1>4, <1>5 DEF Next

(* TypeOK holds throughout: in particular only a call between its discovery *)
(* and its answer holds nodeDeviceMu, and one at a time.                    *)
THEOREM TypeCorrect == Spec => []TypeOK
<1>1. Spec => []TypeInv
  BY InitType, NextType, PTL DEF Spec
<1>2. TypeInv => TypeOK
  BY DEF TypeInv
<1> QED
  BY <1>1, <1>2, PTL

-----------------------------------------------------------------------------
(* A device has one mount at most.  What discovery saw stays true until the *)
(* mount because every mount is made by the holder of the mutex: a device   *)
(* found is not mounted, if the mounts could be listed, and while a call    *)
(* waits for a new device whatever is mounted was there when it began to.   *)

MountedVisible == \A v \in Volumes : mnt[v] \in Volumes => plugged[mnt[v]] # 0

BaseCovers ==
    \A k \in Calls : call[k].pc = "wait" =>
        \A v \in Volumes : mnt[v] \in Volumes => mnt[v] \in call[k].base

FoundUnmounted ==
    \A k \in Calls : call[k].pc \in {"format", "mount"} /\ call[k].vol \notin blind =>
        \A v \in Volumes : mnt[v] # call[k].dev

MountInv == MountedVisible /\ OneMountPerDevice /\ BaseCovers /\ FoundUnmounted

(* Steps that mount nothing and move no call on. *)
LEMMA QuietMounts ==
  ASSUME TypeInv, MountInv,
         \A v \in Volumes : mnt'[v] \in {mnt[v], None, "dead"},
         \A v \in Volumes : mnt'[v] \in Volumes => plugged'[mnt'[v]] # 0,
         \A k \in Calls : \/ call'[k].pc \in {"idle", "lock"}
                          \/ /\ call'[k].pc = call[k].pc
                             /\ call'[k].vol = call[k].vol
                             /\ call'[k].base = call[k].base
                             /\ call'[k].dev = call[k].dev,
         UNCHANGED blind
  PROVE  MountInv'
<1>0. None \notin Volumes /\ "dead" \notin Volumes
  BY NodeServiceAssumption
<1>1. MountedVisible'
  BY DEF MountedVisible
<1>2. \A v \in Volumes : mnt'[v] \in Volumes => mnt'[v] = mnt[v]
  BY <1>0
<1>3. OneMountPerDevice'
  BY <1>2 DEF OneMountPerDevice, MountInv
<1>4. BaseCovers'
  BY <1>2 DEF BaseCovers, MountInv
<1>5. FoundUnmounted'
  <2> SUFFICES ASSUME NEW k \in Calls, call'[k].pc \in {"format", "mount"},
                      call'[k].vol \notin blind', NEW v \in Volumes, mnt'[v] = call'[k].dev
               PROVE  FALSE
    BY DEF FoundUnmounted
  <2>1. call[k].pc \in {"format", "mount"} /\ call[k].vol \notin blind /\ call[k].dev = call'[k].dev
    OBVIOUS
  <2>2. call[k].dev \in Volumes
    BY <2>1 DEF TypeInv, CallOK
  <2> QED
    BY <1>2, <2>1, <2>2 DEF FoundUnmounted, MountInv
<1> QED
  BY <1>1, <1>3, <1>4, <1>5 DEF MountInv

(* The end of a call that mounted nothing. *)
LEMMA EndMounts ==
  ASSUME TypeInv, MountInv, NEW k \in Calls, call' = [call EXCEPT ![k] = NoCall],
         UNCHANGED <<mnt, plugged, blind>>
  PROVE  MountInv'
<1>1. \A j \in Calls : call'[j].pc = "idle" \/ call'[j] = call[j]
  BY NoCallType DEF TypeInv, TypeOK
<1>2. \A v \in Volumes : mnt'[v] \in Volumes => plugged'[mnt'[v]] # 0
  BY DEF MountInv, MountedVisible
<1> QED
  BY <1>1, <1>2, QuietMounts

(* The holder of the mutex found a device; it is not mounted, unless the    *)
(* mounts could not be listed.                                              *)
LEMMA FoundMounts ==
  ASSUME TypeInv, MountInv, NEW k \in Calls, NEW d \in Volumes, Found(k, d),
         call[k].vol \in blind' \/ \A v \in Volumes : mnt[v] # d,
         blind \subseteq blind', UNCHANGED <<mnt, plugged>>
  PROVE  MountInv'
<1>0. call \in [Calls -> Call]
  BY DEF TypeInv, TypeOK
<1>1. call'[k].pc = "format" /\ call'[k].dev = d /\ call'[k].vol = call[k].vol
  BY <1>0 DEF Found, Call
<1>2. \A j \in Calls : j # k => call'[j] = call[j]
  BY <1>0 DEF Found
<1>3. MountedVisible' /\ OneMountPerDevice'
  BY DEF MountInv, MountedVisible, OneMountPerDevice
<1>4. BaseCovers'
  BY <1>1, <1>2 DEF MountInv, BaseCovers
<1>5. FoundUnmounted'
  BY <1>1, <1>2 DEF MountInv, FoundUnmounted
<1> QED
  BY <1>3, <1>4, <1>5 DEF MountInv

(* Every step of NodeStageVolume keeps one mount per device. *)
LEMMA StageMounts ==
  ASSUME TypeInv, MountInv, NEW k \in Calls, StageStep(k)
  PROVE  MountInv'
<1>0. call \in [Calls -> Call]
  BY DEF TypeInv, TypeOK
<1>1. CASE FindDeviceByPath(k)
  <2>0. blind \subseteq blind' /\ UNCHANGED <<mnt, plugged>>
    BY <1>1 DEF FindDeviceByPath
  <2>1. ASSUME NEW d \in Visible, Found(k, d), call[k].vol \in blind' \/ d \in Candidates
        PROVE  MountInv'
    <3>1. d \in Volumes /\ (call[k].vol \in blind' \/ \A v \in Volumes : mnt[v] # d)
      BY <2>1 DEF Candidates, Visible, Mounted
    <3> QED
      BY <2>0, <2>1, <3>1, FoundMounts
  <2>2. CASE call' = [call EXCEPT ![k].pc = "wait", ![k].base = Visible]
    <3>1. call'[k].pc = "wait" /\ call'[k].base = Visible
      BY <1>0, <2>2 DEF Call
    <3>2. \A j \in Calls : j # k => call'[j] = call[j]
      BY <1>0, <2>2
    <3>3. UNCHANGED <<mnt, plugged>>
      BY <2>0
    <3>4. MountedVisible' /\ OneMountPerDevice'
      BY <2>0 DEF MountInv, MountedVisible, OneMountPerDevice
    <3>5. BaseCovers'
      BY <3>1, <3>2, <3>3 DEF MountInv, MountedVisible, BaseCovers, Visible
    <3>6. FoundUnmounted'
      BY <2>0, <3>1, <3>2 DEF MountInv, FoundUnmounted
    <3> QED
      BY <3>4, <3>5, <3>6 DEF MountInv
  <2>3. CASE Choose(k, Candidates)
    BY <2>1, <2>2, <2>3 DEF Choose, Candidates
  <2>4. CASE Choose(k, Visible) /\ call[k].vol \in blind'
    BY <2>1, <2>2, <2>4 DEF Choose
  <2> QED
    BY <1>1, <2>3, <2>4 DEF FindDeviceByPath
<1>2. CASE WaitForDevice(k)
  <2>1. call[k].pc = "wait" /\ UNCHANGED <<mnt, plugged, blind>>
    BY <1>2 DEF WaitForDevice, At
  <2>2. ASSUME NEW d \in NewDevices(k), Found(k, d) PROVE MountInv'
    <3>1. d \in Volumes /\ d \notin call[k].base
      BY DEF NewDevices, Visible
    <3>2. \A v \in Volumes : mnt[v] # d
      BY <2>1, <3>1 DEF MountInv, BaseCovers
    <3> QED
      BY <2>1, <2>2, <3>1, <3>2, FoundMounts
  <2>3. CASE call' = [call EXCEPT ![k].tries = @ + 1]
    <3>1. \A j \in Calls : /\ call'[j].pc = call[j].pc
                           /\ call'[j].vol = call[j].vol
                           /\ call'[j].base = call[j].base
                           /\ call'[j].dev = call[j].dev
      BY <1>0, <2>3 DEF Call
    <3>2. \A v \in Volumes : mnt'[v] \in Volumes => plugged'[mnt'[v]] # 0
      BY <2>1 DEF MountInv, MountedVisible
    <3> QED
      BY <2>1, <3>1, <3>2, QuietMounts
  <2>4. CASE Fail(k)
    BY <2>1, <2>4, EndMounts DEF Fail
  <2> QED
    BY <1>2, <2>2, <2>3, <2>4 DEF WaitForDevice
<1>3. CASE FormatDevice(k)
  <2>1. call[k].pc = "format" /\ UNCHANGED <<mnt, plugged, blind>>
    BY <1>3 DEF FormatDevice, At
  <2>2. CASE Succeed(k) \/ Fail(k)
    BY <2>1, <2>2, EndMounts DEF Succeed, Fail
  <2>3. CASE Goto(k, "mount")
    <3>1. call'[k].pc = "mount" /\ call'[k].dev = call[k].dev /\ call'[k].vol = call[k].vol
      BY <1>0, <2>3 DEF Goto, Call
    <3>2. \A j \in Calls : j # k => call'[j] = call[j]
      BY <1>0, <2>3 DEF Goto
    <3>3. MountedVisible' /\ OneMountPerDevice'
      BY <2>1 DEF MountInv, MountedVisible, OneMountPerDevice
    <3>4. BaseCovers'
      BY <2>1, <3>1, <3>2 DEF MountInv, BaseCovers
    <3>5. FoundUnmounted'
      BY <2>1, <3>1, <3>2 DEF MountInv, FoundUnmounted
    <3> QED
      BY <3>3, <3>4, <3>5 DEF MountInv
  <2> QED
    BY <1>3, <2>2, <2>3 DEF FormatDevice
<1>4. CASE Mount(k)
  <2>1. /\ call[k].pc = "mount" /\ call[k].vol \in Volumes /\ call[k].dev \in Volumes
        /\ UNCHANGED <<plugged, blind>>
    BY <1>4 DEF Mount, At, TypeInv, CallOK
  <2>2. CASE UNCHANGED mnt
    BY <1>4, <2>1, <2>2, EndMounts DEF Mount, Succeed, Fail
  <2>3. CASE call[k].dev \in Visible /\ mnt' = [mnt EXCEPT ![call[k].vol] = call[k].dev] /\ Succeed(k)
    <3>1. \A j \in Calls : mu = j <=> call[j].pc \in {"wait", "format", "mount"}
      BY DEF TypeInv, TypeOK
    <3>2. call' = [call EXCEPT ![k] = NoCall]
      BY <2>3 DEF Succeed
    <3>3. \A j \in Calls : call'[j].pc \notin {"wait", "format", "mount"}
      BY <1>0, <2>1, <3>1, <3>2, NoCallType
    <3>4. mnt'[call[k].vol] = call[k].dev /\ \A v \in Volumes : v # call[k].vol => mnt'[v] = mnt[v]
      BY <2>1, <2>3 DEF TypeInv, TypeOK
    <3>5. MountedVisible'
      BY <2>1, <2>3, <3>4 DEF MountInv, MountedVisible, Visible
    <3>6. OneMountPerDevice'
      BY <2>1, <3>4 DEF MountInv, OneMountPerDevice, FoundUnmounted
    <3>7. BaseCovers' /\ FoundUnmounted'
      BY <3>3 DEF BaseCovers, FoundUnmounted
    <3> QED
      BY <3>5, <3>6, <3>7 DEF MountInv
  <2> QED
    BY <1>4, <2>2, <2>3 DEF Mount
<1> QED
  BY <1>1, <1>2, <1>3, <1>4 DEF StageStep

(* Every step keeps one mount per device. *)
LEMMA NextMounts == TypeInv /\ MountInv /\ [Next]_vars => MountInv'
<1> SUFFICES ASSUME TypeInv, MountInv, [Next]_vars PROVE MountInv'
  OBVIOUS
<1>0. /\ call \in [Calls -> Call] /\ mnt \in [Volumes -> MaybeDevice] /\ plugged \in [Volumes -> Nat]
      /\ None \notin Volumes /\ "dead" \notin Volumes
  BY NodeServiceAssumption DEF TypeInv, TypeOK
<1>1. ASSUME NEW k \in Calls, StageStep(k) PROVE MountInv'
  BY <1>1, StageMounts
<1>2. CASE UNCHANGED <<mnt, plugged, call, blind>>
  BY <1>2 DEF MountInv, MountedVisible, OneMountPerDevice, BaseCovers, FoundUnmounted
<1>3. ASSUME NEW k \in Calls, GiveUp(k) PROVE MountInv'
  <2>1. call' = [call EXCEPT ![k].live = FALSE] /\ UNCHANGED <<mnt, plugged, blind>>
    BY <1>3 DEF GiveUp
  <2>2. \A j \in Calls : /\ call'[j].pc = call[j].pc /\ call'[j].vol = call[j].vol
                         /\ call'[j].base = call[j].base /\ call'[j].dev = call[j].dev
    BY <1>0, <2>1 DEF Call
  <2> QED
    BY <2>1, <2>2, QuietMounts DEF MountInv, MountedVisible
<1>4. ASSUME NEW k \in Calls, NEW v \in Volumes, CallStage(k, v) PROVE MountInv'
  <2>1. UNCHANGED <<mnt, plugged, blind>> /\ \A j \in Calls : j # k => call'[j] = call[j]
    BY <1>0, <1>4 DEF CallStage
  <2>2. call'[k].pc = "lock"
    BY <1>0, <1>4, NoCallType DEF CallStage, Call
  <2> QED
    BY <2>1, <2>2, QuietMounts DEF MountInv, MountedVisible
<1>5. ASSUME NEW v \in Volumes, NodeUnstageVolume(v) PROVE MountInv'
  <2>1. mnt' = [mnt EXCEPT ![v] = None] /\ UNCHANGED <<plugged, call, blind>>
    BY <1>5 DEF NodeUnstageVolume
  <2> QED
    BY <1>0, <2>1, QuietMounts DEF MountInv, MountedVisible
<1>6. ASSUME NEW v \in Volumes, Plug(v) PROVE MountInv'
  <2>1. plugged' = [plugged EXCEPT ![v] = Cardinality(Visible) + 1] /\ UNCHANGED <<mnt, call, blind>>
    BY <1>6 DEF Plug
  <2>2. Cardinality(Visible) \in Nat
    BY NodeServiceAssumption, FS_Subset, FS_CardinalityType DEF Visible
  <2>3. \A w \in Volumes : plugged[w] # 0 => plugged'[w] # 0
    BY <1>0, <2>1, <2>2
  <2> QED
    BY <2>1, <2>3, QuietMounts DEF MountInv, MountedVisible
<1>7. ASSUME NEW v \in Volumes, Detach(v) PROVE MountInv'
  <2>1. mnt' = [w \in Volumes |-> IF mnt[w] = v THEN "dead" ELSE mnt[w]] /\ UNCHANGED <<call, blind>>
    BY <1>7 DEF Detach
  <2>2. \A w \in Volumes : w # v /\ plugged[w] # 0 => plugged'[w] # 0
    <3> SUFFICES ASSUME NEW w \in Volumes, w # v, plugged[w] # 0 PROVE plugged'[w] # 0
      OBVIOUS
    <3>1. plugged[v] \in Nat /\ plugged[w] \in Nat
      BY <1>0
    <3>2. plugged'[w] = IF plugged[v] # 0 /\ plugged[w] > plugged[v] THEN plugged[w] - 1 ELSE plugged[w]
      BY <1>7 DEF Detach
    <3> QED
      BY <3>1, <3>2
  <2>3. \A w \in Volumes : mnt'[w] \in Volumes => plugged'[mnt'[w]] # 0
    BY <1>0, <2>1, <2>2 DEF MountInv, MountedVisible
  <2> QED
    BY <2>1, <2>3, QuietMounts
<1>8. CASE Restart
  <2>1. UNCHANGED <<mnt, plugged, blind>> /\ \A j \in Calls : call'[j].pc = "idle"
    BY <1>8, NoCallType DEF Restart
  <2> QED
    BY <2>1, QuietMounts DEF MountInv, MountedVisible
<1>9. CASE Reboot
  <2>1. (\A v \in Volumes : mnt'[v] = None) /\ UNCHANGED blind /\ \A j \in Calls : call'[j].pc = "idle"
    BY <1>9, NoCallType DEF Reboot
  <2> QED
    BY <1>0, <2>1, QuietMounts
<1> QED
  BY <1>1, <1>2, <1>3, <1>4, <1>5, <1>6, <1>7, <1>8, <1>9
  DEF Next, NodePublishVolume, NodeUnpublishVolume, Attach, vars

(* A device is never mounted at two staging paths, whatever calls run       *)
(* beside each other and however many of them kubelet has given up, unless  *)
(* findDeviceByPath went on without the list of mounts for one of them.     *)
THEOREM MountsExclusive == Spec => []OneMountPerDevice
<1>1. Init => MountInv
  BY NodeServiceAssumption, NoCallType
     DEF Init, MountInv, MountedVisible, OneMountPerDevice, BaseCovers, FoundUnmounted
<1>2. TypeInv /\ MountInv /\ [Next]_vars => TypeInv' /\ MountInv'
  BY NextType, NextMounts
<1>3. Spec => [](TypeInv /\ MountInv)
  BY InitType, <1>1, <1>2, PTL DEF Spec
<1>4. TypeInv /\ MountInv => OneMountPerDevice
  BY DEF MountInv
<1> QED
  BY <1>3, <1>4, PTL

-----------------------------------------------------------------------------
(* What a pod sees.  A call kubelet still waits for is the only one of its  *)
(* volume, and the volume is not staged before it answers; a call kubelet   *)
(* gave up may mount later, but only at a path without a mount, and a       *)
(* staged volume has one.                                                   *)

LiveUncertain ==
    \A k \in Calls : call[k].live => kube[call[k].vol] = "uncertain"

LiveUnique ==
    \A j, k \in Calls : call[j].live /\ call[k].live /\ call[j].vol = call[k].vol => j = k

MountsEmpty == \A k \in Calls : call[k].pc = "mount" => mnt[call[k].vol] = None

StagedMounted ==
    \A v \in Volumes : /\ kube[v] \in {"staged", "published"} => mnt[v] # None
                       /\ tgt[v] = IF kube[v] = "published" THEN mnt[v] ELSE None

PodInv == LiveUncertain /\ LiveUnique /\ MountsEmpty /\ StagedMounted

(* A call ends with an error, or goes on: it hears nothing, mounts nothing. *)
LEMMA SilentPods ==
  ASSUME TypeInv, PodInv, UNCHANGED <<kube, mnt, tgt>>,
         \A k \in Calls : /\ call'[k].live => call[k].live
                          /\ call'[k].live => call'[k].vol = call[k].vol
                          /\ call'[k].pc = "mount" => mnt[call'[k].vol] = None
  PROVE  PodInv'
<1>1. LiveUncertain' /\ LiveUnique'
  BY DEF PodInv, LiveUncertain, LiveUnique
<1>2. MountsEmpty' /\ StagedMounted'
  BY DEF PodInv, MountsEmpty, StagedMounted
<1> QED
  BY <1>1, <1>2 DEF PodInv

(* A call ends well at a path that has a mount now. *)
LEMMA SuccessPods ==
  ASSUME TypeInv, PodInv, NEW k \in Calls, call[k].pc \in HolderPCs, Succeed(k),
         mnt' \in [Volumes -> MaybeDevice], tgt' = tgt,
         mnt'[call[k].vol] # None,
         mnt' = mnt \/ mnt[call[k].vol] = None,
         \A v \in Volumes : v # call[k].vol => mnt'[v] = mnt[v]
  PROVE  PodInv'
<1> DEFINE v == call[k].vol
<1>0. call \in [Calls -> Call] /\ kube \in [Volumes -> KubeStates] /\ v \in Volumes
  BY DEF TypeInv, TypeOK, CallOK, HolderPCs
<1>1. call'[k] = NoCall /\ \A j \in Calls : j # k => call'[j] = call[j]
  BY <1>0 DEF Succeed
<1>2. ~call'[k].live /\ call'[k].pc = "idle"
  BY <1>1, NoCallType
<1>3. kube' = IF call[k].live THEN [kube EXCEPT ![v] = "staged"] ELSE kube
  BY DEF Succeed
<1>4. \A j \in Calls : j # k => call[j].pc # "mount"
  BY DEF TypeInv, TypeOK, HolderPCs
<1> HIDE DEF v
<1>5. LiveUncertain'
  <2> SUFFICES ASSUME NEW j \in Calls, call'[j].live PROVE kube'[call'[j].vol] = "uncertain"
    BY DEF LiveUncertain
  <2>1. j # k /\ call'[j] = call[j]
    BY <1>1, <1>2
  <2>2. kube[call[j].vol] = "uncertain" /\ (call[k].live => call[j].vol # v)
    BY <2>1 DEF PodInv, LiveUncertain, LiveUnique, v
  <2>3. call[j].vol \in Volumes
    BY <2>1 DEF TypeInv, CallOK
  <2> QED
    BY <1>0, <1>3, <2>1, <2>2, <2>3
<1>6. LiveUnique'
  BY <1>1, <1>2 DEF PodInv, LiveUnique
<1>7. MountsEmpty'
  BY <1>1, <1>2, <1>4 DEF MountsEmpty
<1>8. StagedMounted'
  <2> SUFFICES ASSUME NEW w \in Volumes
               PROVE  /\ kube'[w] \in {"staged", "published"} => mnt'[w] # None
                      /\ tgt'[w] = IF kube'[w] = "published" THEN mnt'[w] ELSE None
    BY DEF StagedMounted
  <2>1. CASE w # v
    BY <1>0, <1>3, <2>1 DEF PodInv, StagedMounted, v
  <2>2. CASE w = v /\ call[k].live
    <3>1. kube[w] = "uncertain" /\ kube'[w] = "staged" /\ mnt'[w] # None
      BY <1>0, <1>3, <2>2 DEF PodInv, LiveUncertain, v
    <3> QED
      BY <3>1 DEF PodInv, StagedMounted
  <2>3. CASE w = v /\ ~call[k].live
    <3>1. kube'[w] = kube[w] /\ mnt'[w] # None
      BY <1>3, <2>3 DEF v
    <3>2. mnt'[w] = mnt[w] \/ kube[w] \notin {"staged", "published"}
      BY <2>3 DEF PodInv, StagedMounted, v
    <3> QED
      BY <3>1, <3>2 DEF PodInv, StagedMounted
  <2> QED
    BY <2>1, <2>2, <2>3
<1> QED
  BY <1>5, <1>6, <1>7, <1>8 DEF PodInv

(* A call fails. *)
LEMMA FailPods ==
  ASSUME TypeInv, PodInv, NEW k \in Calls, Fail(k), UNCHANGED <<mnt, tgt>>
  PROVE  PodInv'
<1>1. UNCHANGED kube /\ \A j \in Calls : call'[j] = NoCall \/ call'[j] = call[j]
  BY DEF Fail, TypeInv, TypeOK
<1>2. \A j \in Calls : /\ call'[j].live => call'[j] = call[j]
                       /\ call'[j].pc = "mount" => call'[j] = call[j]
  BY <1>1, NoCallType
<1> QED
  BY <1>1, <1>2, SilentPods DEF PodInv, MountsEmpty

(* Every step of NodeStageVolume keeps what the pods see. *)
LEMMA StagePods ==
  ASSUME TypeInv, PodInv, NEW k \in Calls, StageStep(k)
  PROVE  PodInv'
<1>0. call \in [Calls -> Call] /\ mnt \in [Volumes -> MaybeDevice] /\ None \notin Volumes
  BY NodeServiceAssumption DEF TypeInv, TypeOK
<1>2. ASSUME NEW d \in Volumes, Found(k, d), UNCHANGED <<kube, mnt, tgt>> PROVE PodInv'
  <2>1. \A j \in Calls : /\ call'[j].live = call[j].live
                         /\ call'[j].vol = call[j].vol
                         /\ call'[j].pc = "mount" => call[j].pc = "mount"
    BY <1>0, <1>2 DEF Found, Call
  <2> QED
    BY <1>2, <2>1, SilentPods DEF PodInv, MountsEmpty
<1>3. CASE FindDeviceByPath(k)
  <2>1. UNCHANGED <<kube, mnt, tgt>>
    BY <1>3 DEF FindDeviceByPath
  <2>2. ASSUME NEW d \in Visible, Found(k, d) PROVE PodInv'
    BY <1>2, <2>1, <2>2 DEF Visible
  <2>3. CASE call' = [call EXCEPT ![k].pc = "wait", ![k].base = Visible]
    <3>1. \A j \in Calls : /\ call'[j].live = call[j].live
                           /\ call'[j].vol = call[j].vol
                           /\ call'[j].pc = "mount" => call[j].pc = "mount"
      BY <1>0, <2>3 DEF Call
    <3> QED
      BY <2>1, <3>1, SilentPods DEF PodInv, MountsEmpty
  <2> QED
    BY <1>3, <2>2, <2>3 DEF FindDeviceByPath, Choose, Candidates
<1>4. CASE WaitForDevice(k)
  <2>1. UNCHANGED <<mnt, tgt>>
    BY <1>4 DEF WaitForDevice
  <2>2. ASSUME NEW d \in NewDevices(k), Found(k, d), UNCHANGED <<mu, kube>> PROVE PodInv'
    BY <1>2, <2>1, <2>2 DEF NewDevices, Visible
  <2>3. CASE call' = [call EXCEPT ![k].tries = @ + 1] /\ UNCHANGED <<mu, kube>>
    <3>1. \A j \in Calls : /\ call'[j].live = call[j].live
                           /\ call'[j].vol = call[j].vol
                           /\ call'[j].pc = "mount" => call[j].pc = "mount"
      BY <1>0, <2>3 DEF Call
    <3> QED
      BY <2>1, <2>3, <3>1, SilentPods DEF PodInv, MountsEmpty
  <2>4. CASE Fail(k)
    BY <2>1, <2>4, FailPods
  <2> QED
    BY <1>4, <2>2, <2>3, <2>4 DEF WaitForDevice
<1>5. CASE FormatDevice(k)
  <2>1. UNCHANGED <<mnt, tgt>> /\ call[k].pc = "format" /\ call[k].vol \in Volumes
    BY <1>5 DEF FormatDevice, At, TypeInv, CallOK
  <2>2. CASE Fail(k)
    BY <2>1, <2>2, FailPods
  <2>3. CASE Succeed(k) /\ mnt[call[k].vol] # None
    BY <1>0, <2>1, <2>3, SuccessPods DEF HolderPCs
  <2>4. CASE Goto(k, "mount") /\ UNCHANGED kube /\ mnt[call[k].vol] = None
    <3>1. \A j \in Calls : /\ call'[j].live = call[j].live
                           /\ call'[j].vol = call[j].vol
                           /\ call'[j].pc = "mount" => j = k \/ call[j].pc = "mount"
      BY <1>0, <2>4 DEF Goto, Call
    <3> QED
      BY <2>1, <2>4, <3>1, SilentPods DEF PodInv, MountsEmpty
  <2> QED
    BY <1>5, <2>2, <2>3, <2>4 DEF FormatDevice
<1>6. CASE Mount(k)
  <2>1. tgt' = tgt /\ call[k].pc = "mount" /\ call[k].vol \in Volumes /\ call[k].dev \in Volumes
    BY <1>6 DEF Mount, At, TypeInv, CallOK
  <2>2. CASE Fail(k) /\ UNCHANGED mnt
    BY <2>1, <2>2, FailPods
  <2>3. CASE mnt' = [mnt EXCEPT ![call[k].vol] = call[k].dev] /\ Succeed(k)
    <3>1. mnt[call[k].vol] = None
      BY <2>1 DEF PodInv, MountsEmpty
    <3>2. mnt' \in [Volumes -> MaybeDevice] /\ mnt'[call[k].vol] = call[k].dev
      BY <1>0, <2>1, <2>3 DEF MaybeDevice
    <3>3. \A v \in Volumes : v # call[k].vol => mnt'[v] = mnt[v]
      BY <1>0, <2>3
    <3> QED
      BY <1>0, <2>1, <2>3, <3>1, <3>2, <3>3, SuccessPods DEF HolderPCs
  <2> QED
    BY <1>6, <2>2, <2>3 DEF Mount
<1> QED
  BY <1>3, <1>4, <1>5, <1>6 DEF StageStep

(* Every step keeps what the pods see. *)
LEMMA NextPods == TypeInv /\ PodInv /\ [Next]_vars => PodInv'
<1> SUFFICES ASSUME TypeInv, PodInv, [Next]_vars PROVE PodInv'
  OBVIOUS
<1>0. /\ call \in [Calls -> Call] /\ mnt \in [Volumes -> MaybeDevice] /\ tgt \in [Volumes -> Target]
      /\ kube \in [Volumes -> KubeStates] /\ None \notin Volumes
  BY NodeServiceAssumption DEF TypeInv, TypeOK
<1>1. ASSUME NEW k \in Calls, StageStep(k) PROVE PodInv'
  BY <1>1, StagePods
<1>2. ASSUME NEW k \in Calls, GiveUp(k) PROVE PodInv'
  <2>1. call' = [call EXCEPT ![k].live = FALSE] /\ UNCHANGED <<kube, mnt, tgt>>
    BY <1>2 DEF GiveUp
  <2>2. \A j \in Calls : /\ call'[j].live => call[j].live
                         /\ call'[j].vol = call[j].vol
                         /\ call'[j].pc = call[j].pc
    BY <1>0, <2>1 DEF Call
  <2> QED
    BY <2>1, <2>2, SilentPods DEF PodInv, MountsEmpty
<1>3. ASSUME NEW k \in Calls, NEW v \in Volumes, CallStage(k, v) PROVE PodInv'
  <2>1. /\ call'[k].pc = "lock" /\ call'[k].vol = v
        /\ \A j \in Calls : j # k => call'[j] = call[j]
    BY <1>0, <1>3 DEF CallStage, NoCall
  <2>2. /\ UNCHANGED <<mnt, tgt>> /\ kube' = [kube EXCEPT ![v] = "uncertain"]
        /\ kube[v] \in {"attached", "uncertain"}
    BY <1>3 DEF CallStage
  <2>3. \A j \in Calls : ~(call[j].live /\ call[j].vol = v)
    BY <1>3 DEF CallStage, Waiting
  <2>4. \A j \in Calls : call[j].live => call[j].vol \in Volumes
    BY DEF TypeInv, CallOK
  <2>5. LiveUncertain'
    BY <1>0, <2>1, <2>2, <2>4 DEF PodInv, LiveUncertain
  <2>6. LiveUnique'
    BY <2>1, <2>3 DEF PodInv, LiveUnique
  <2>7. MountsEmpty'
    BY <2>1, <2>2 DEF PodInv, MountsEmpty
  <2>8. StagedMounted'
    BY <1>0, <2>2 DEF PodInv, StagedMounted
  <2> QED
    BY <2>5, <2>6, <2>7, <2>8 DEF PodInv
<1>4. ASSUME NEW v \in Volumes,
             \/ NodeUnstageVolume(v) \/ NodePublishVolume(v) \/ NodeUnpublishVolume(v)
             \/ Attach(v) \/ Plug(v) \/ Detach(v)
      PROVE  PodInv'
  <2>0. call' = call
    BY <1>4 DEF NodeUnstageVolume, NodePublishVolume, NodeUnpublishVolume, Attach, Plug, Detach
  <2>1. \A w \in Volumes : w # v => kube'[w] = kube[w]
    BY <1>0, <1>4 DEF NodeUnstageVolume, NodePublishVolume, NodeUnpublishVolume, Attach, Plug, Detach
  <2>2. kube'[v] = kube[v] \/ ~Waiting(v)
    BY <1>4 DEF NodeUnstageVolume, NodePublishVolume, NodeUnpublishVolume, Attach, Plug, Detach,
                Waiting, PodInv, LiveUncertain
  <2>3. \A k \in Calls : call[k].live => call[k].vol \in Volumes /\ Waiting(call[k].vol)
    BY DEF TypeInv, CallOK, Waiting
  <2>4. LiveUncertain' /\ LiveUnique'
    BY <2>0, <2>1, <2>2, <2>3 DEF PodInv, LiveUncertain, LiveUnique
  <2>5. \A w \in Volumes : mnt[w] = None => mnt'[w] = None
    BY <1>0, <1>4 DEF NodeUnstageVolume, NodePublishVolume, NodeUnpublishVolume, Attach, Plug, Detach
  <2>6. MountsEmpty'
    BY <2>0, <2>5 DEF PodInv, MountsEmpty, TypeInv, CallOK
  <2>7. CASE NodeUnstageVolume(v)
    <3>1. StagedMounted'
      BY <1>0, <2>7 DEF NodeUnstageVolume, PodInv, StagedMounted
    <3> QED
      BY <2>4, <2>6, <3>1 DEF PodInv
  <2>8. CASE NodePublishVolume(v)
    <3>1. StagedMounted'
      BY <1>0, <2>8 DEF NodePublishVolume, PodInv, StagedMounted
    <3> QED
      BY <2>4, <2>6, <3>1 DEF PodInv
  <2>9. CASE NodeUnpublishVolume(v)
    <3>1. StagedMounted'
      BY <1>0, <2>9 DEF NodeUnpublishVolume, PodInv, StagedMounted
    <3> QED
      BY <2>4, <2>6, <3>1 DEF PodInv
  <2>10. CASE Attach(v) \/ Plug(v)
    <3>1. StagedMounted'
      BY <1>0, <2>10 DEF Attach, Plug, PodInv, StagedMounted
    <3> QED
      BY <2>4, <2>6, <3>1 DEF PodInv
  <2>11. CASE Detach(v)
    <3>1. /\ kube[v] = "attached" /\ kube' = [kube EXCEPT ![v] = "off"]
          /\ \A w \in Volumes : mnt'[w] = IF mnt[w] = v THEN "dead" ELSE mnt[w]
          /\ \A w \in Volumes : tgt'[w] = IF tgt[w] = v THEN "dead" ELSE tgt[w]
      BY <2>11 DEF Detach
    <3>2. "dead" # None
      BY NodeServiceAssumption
    <3>3. ASSUME NEW w \in Volumes
          PROVE  /\ kube'[w] \in {"staged", "published"} => mnt'[w] # None
                 /\ tgt'[w] = IF kube'[w] = "published" THEN mnt'[w] ELSE None
      <4>1. kube'[w] = kube[w] \/ (kube[w] = "attached" /\ kube'[w] = "off")
        BY <1>0, <3>1
      <4>2. mnt[w] # None => mnt'[w] # None
        BY <3>1, <3>2
      <4>3. tgt[w] = None => tgt'[w] = None
        BY <1>0, <3>1
      <4>4. tgt[w] = mnt[w] => tgt'[w] = mnt'[w]
        BY <3>1
      <4> QED
        BY <4>1, <4>2, <4>3, <4>4 DEF PodInv, StagedMounted
    <3>4. StagedMounted'
      BY <3>3 DEF StagedMounted
    <3> QED
      BY <2>4, <2>6, <3>4 DEF PodInv
  <2> QED
    BY <1>4, <2>7, <2>8, <2>9, <2>10, <2>11
<1>5. CASE Restart
  <2>1. UNCHANGED <<kube, mnt, tgt>> /\ \A j \in Calls : ~call'[j].live /\ call'[j].pc = "idle"
    BY <1>5, NoCallType DEF Restart
  <2> QED
    BY <2>1, SilentPods
<1>6. CASE Reboot
  <2>1. \A j \in Calls : ~call'[j].live /\ call'[j].pc = "idle"
    BY <1>6, NoCallType DEF Reboot
  <2>2. \A v \in Volumes : kube'[v] \in {"attached", "off"} /\ tgt'[v] = None
    BY <1>6 DEF Reboot
  <2> QED
    BY <2>1, <2>2 DEF PodInv, LiveUncertain, LiveUnique, MountsEmpty, StagedMounted
<1>7. CASE UNCHANGED vars
  BY <1>7 DEF vars, PodInv, LiveUncertain, LiveUnique, MountsEmpty, StagedMounted
<1> QED
  BY <1>1, <1>2, <1>3, <1>4, <1>5, <1>6, <1>7 DEF Next

(* A pod that was given its volume sees the device mounted at the staging   *)
(* path: NodeStageVolume never reports a success it has not mounted, and    *)
(* no call kubelet gave up mounts over what the pod has.                    *)
THEOREM PodsSeeTheirMount == Spec => []PodSeesStaged
<1>1. Init => PodInv
  BY NodeServiceAssumption, NoCallType
     DEF Init, PodInv, LiveUncertain, LiveUnique, MountsEmpty, StagedMounted
<1>2. TypeInv /\ PodInv /\ [Next]_vars => TypeInv' /\ PodInv'
  BY NextType, NextPods
<1>3. Spec => [](TypeInv /\ PodInv)
  BY InitType, <1>1, <1>2, PTL DEF Spec
<1>4. TypeInv /\ PodInv => PodSeesStaged
  BY DEF PodInv, StagedMounted, PodSeesStaged
<1> QED
  BY <1>3, <1>4, PTL

-----------------------------------------------------------------------------
(* Whose device is mounted.  As long as no two volumes were unsettled at    *)
(* once, the device a call mounts is that of its volume: both are unsettled *)
(* when it does, the volume because its path is empty, the device because   *)
(* it is plugged in and mounted nowhere.  A call that could not list the    *)
(* mounts may take another's, and leaves its own volume unsettled.          *)

PluggedAttached == \A v \in Volumes : plugged[v] # 0 => kube[v] # "off"

Alone == crowded \/ \A v, w \in Unsettled : v = w

DeviceInv == PluggedAttached /\ Alone /\ OwnUnlessCrowded

(* A set with no more than one member. *)
LEMMA AtMostOne ==
  ASSUME NEW S, IsFiniteSet(S), ~(Cardinality(S) > 1), NEW v \in S, NEW w \in S
  PROVE  v = w
<1>1. Cardinality({v}) = 1 /\ Cardinality(S) \in Nat
  BY FS_Singleton, FS_CardinalityType
<1>2. Cardinality({v}) <= Cardinality(S)
  BY FS_Subset
<1>3. Cardinality(S) = 1
  BY <1>1, <1>2
<1>4. \E x : S = {x}
  BY <1>3, FS_Singleton
<1> QED
  BY <1>4

(* A step that observes the volumes notes a crowd. *)
LEMMA ObserveAlone == ASSUME TypeInv, Observe PROVE (crowded => crowded') /\ Alone'
<1>1. IsFiniteSet(Unsettled')
  BY NodeServiceAssumption, FS_Subset DEF Unsettled
<1>2. crowded' \/ ~(Cardinality(Unsettled') > 1)
  BY DEF Observe, TypeInv, TypeOK
<1>3. ASSUME ~(Cardinality(Unsettled') > 1), NEW v \in Unsettled', NEW w \in Unsettled' PROVE v = w
  BY <1>1, <1>3, AtMostOne
<1>4. Alone'
  BY <1>2, <1>3 DEF Alone
<1> QED
  BY <1>4 DEF Observe, TypeInv, TypeOK

(* A step that neither mounts anything nor lets a volume wait. *)
LEMMA QuietDevices ==
  ASSUME TypeInv, DeviceInv, UNCHANGED crowded, Unsettled' \subseteq Unsettled, PluggedAttached',
         blind \subseteq blind',
         \A v \in Volumes : mnt'[v] \in Volumes => mnt'[v] = mnt[v]
  PROVE  DeviceInv'
<1>1. Alone'
  BY DEF DeviceInv, Alone
<1>2. OwnUnlessCrowded'
  BY DEF DeviceInv, OwnUnlessCrowded
<1> QED
  BY <1>1, <1>2 DEF DeviceInv

(* A step that observes, and mounts nothing. *)
LEMMA ObservedDevices ==
  ASSUME TypeInv, DeviceInv, Observe, PluggedAttached', UNCHANGED blind,
         \A v \in Volumes : mnt'[v] \in Volumes => mnt'[v] = mnt[v]
  PROVE  DeviceInv'
<1>1. OwnUnlessCrowded'
  BY ObserveAlone DEF DeviceInv, OwnUnlessCrowded
<1> QED
  BY <1>1, ObserveAlone DEF DeviceInv

(* Calls go on or end; no volume becomes attached or detached. *)
LEMMA CallDevices ==
  ASSUME TypeInv, DeviceInv, UNCHANGED <<crowded, plugged, mnt>>, blind \subseteq blind',
         \A v \in Volumes : kube'[v] = "off" <=> kube[v] = "off",
         \A k \in Calls : call'[k].vol \in {None, call[k].vol}
                          \/ (call'[k].vol \in Volumes /\ kube[call'[k].vol] # "off")
  PROVE  DeviceInv'
<1>1. PluggedAttached'
  BY DEF DeviceInv, PluggedAttached
<1>2. Unsettled' \subseteq Unsettled
  <2> SUFFICES ASSUME NEW v \in Volumes, mnt[v] # v, kube[v] # "off" \/ \E k \in Calls : call'[k].vol = v
               PROVE  kube[v] # "off" \/ \E k \in Calls : call[k].vol = v
    BY DEF Unsettled
  <2> QED
    BY NodeServiceAssumption
<1> QED
  BY <1>1, <1>2, QuietDevices

(* The end of a call: kubelet may be told that the volume is staged. *)
LEMMA EndKube ==
  ASSUME TypeInv, PodInv, NEW k \in Calls, call[k].pc \in HolderPCs, Succeed(k) \/ Fail(k)
  PROVE  /\ \A v \in Volumes : kube'[v] = "off" <=> kube[v] = "off"
         /\ \A j \in Calls : call'[j].vol \in {None, call[j].vol}
<1>0. call \in [Calls -> Call] /\ kube \in [Volumes -> KubeStates] /\ call[k].vol \in Volumes
  BY DEF TypeInv, TypeOK, CallOK, HolderPCs
<1>1. call' = [call EXCEPT ![k] = NoCall]
  BY DEF Succeed, Fail
<1>2. \A j \in Calls : call'[j].vol \in {None, call[j].vol}
  BY <1>0, <1>1, NoCallType
<1>3. kube' = kube \/ (call[k].live /\ kube' = [kube EXCEPT ![call[k].vol] = "staged"])
  BY DEF Succeed, Fail
<1>4. call[k].live => kube[call[k].vol] = "uncertain"
  BY DEF PodInv, LiveUncertain
<1> QED
  BY <1>0, <1>2, <1>3, <1>4

(* NodeStageVolume mounts the volume's own device, or somebody was crowded. *)
LEMMA StageDevices ==
  ASSUME TypeInv, MountInv, PodInv, DeviceInv, NEW k \in Calls, StageStep(k)
  PROVE  DeviceInv'
<1>0. call \in [Calls -> Call] /\ mnt \in [Volumes -> MaybeDevice] /\ kube \in [Volumes -> KubeStates]
  BY DEF TypeInv, TypeOK
<1>1. CASE FindDeviceByPath(k)
  <2>1. UNCHANGED <<crowded, plugged, mnt, kube>> /\ blind \subseteq blind'
    BY <1>1 DEF FindDeviceByPath
  <2>2. \A j \in Calls : call'[j].vol = call[j].vol
    BY <1>0, <1>1 DEF FindDeviceByPath, Choose, Found, Call
  <2> QED
    BY <2>1, <2>2, CallDevices
<1>2. CASE WaitForDevice(k)
  <2>1. UNCHANGED <<crowded, plugged, mnt, blind>> /\ call[k].pc \in HolderPCs
    BY <1>2 DEF WaitForDevice, At, HolderPCs
  <2>2. CASE Fail(k)
    BY <2>1, <2>2, EndKube, CallDevices
  <2>3. CASE ~Fail(k)
    <3>1. UNCHANGED kube /\ \A j \in Calls : call'[j].vol = call[j].vol
      BY <1>0, <1>2, <2>3, SMTT(30) DEF WaitForDevice, Found, Call
    <3> QED
      BY <2>1, <3>1, CallDevices
  <2> QED
    BY <2>2, <2>3
<1>3. CASE FormatDevice(k)
  <2>1. UNCHANGED <<crowded, plugged, mnt, blind>> /\ call[k].pc \in HolderPCs
    BY <1>3 DEF FormatDevice, At, HolderPCs
  <2>2. CASE Succeed(k) \/ Fail(k)
    BY <2>1, <2>2, EndKube, CallDevices
  <2>3. CASE Goto(k, "mount") /\ UNCHANGED kube
    <3>1. \A j \in Calls : call'[j].vol = call[j].vol
      BY <1>0, <2>3 DEF Goto, Call
    <3> QED
      BY <2>1, <2>3, <3>1, CallDevices
  <2> QED
    BY <1>3, <2>2, <2>3 DEF FormatDevice
<1>4. CASE Mount(k)
  <2> DEFINE v == call[k].vol
             d == call[k].dev
  <2>1. /\ UNCHANGED <<crowded, plugged, blind>> /\ call[k].pc = "mount" /\ call[k].pc \in HolderPCs
        /\ v \in Volumes /\ d \in Volumes /\ (Succeed(k) \/ Fail(k))
    BY <1>4 DEF Mount, At, HolderPCs, TypeInv, CallOK
  <2>2. CASE UNCHANGED mnt
    BY <2>1, <2>2, EndKube, CallDevices
  <2>3. CASE d \in Visible /\ mnt' = [mnt EXCEPT ![v] = d]
    <3>1. v \in Unsettled
      BY <2>1, NodeServiceAssumption DEF PodInv, MountsEmpty, Unsettled
    <3>2. v \in blind \/ d \in Unsettled
      BY <2>1, <2>3 DEF MountInv, FoundUnmounted, DeviceInv, PluggedAttached, Visible, Unsettled
    <3>3. crowded \/ v \in blind \/ d = v
      BY <3>1, <3>2 DEF DeviceInv, Alone
    <3>4. /\ \A w \in Volumes : kube'[w] = "off" <=> kube[w] = "off"
          /\ \A j \in Calls : call'[j].vol \in {None, call[j].vol}
      BY <2>1, EndKube
    <3>5. mnt'[v] = d /\ \A w \in Volumes : w # v => mnt'[w] = mnt[w]
      BY <1>0, <2>1, <2>3
    <3> HIDE DEF v, d
    <3>6. PluggedAttached'
      BY <2>1, <3>4 DEF DeviceInv, PluggedAttached
    <3>7. Unsettled' \subseteq Unsettled
      <4> SUFFICES ASSUME NEW w \in Unsettled', w # v PROVE w \in Unsettled
        BY <3>1
      <4>1. w \in Volumes /\ mnt[w] # w
        BY <3>5 DEF Unsettled
      <4>2. kube[w] # "off" \/ \E j \in Calls : call[j].vol = w
        BY <3>4, <4>1, NodeServiceAssumption DEF Unsettled
      <4> QED
        BY <4>1, <4>2 DEF Unsettled
    <3>8. Alone'
      BY <2>1, <3>7 DEF DeviceInv, Alone
    <3>9. OwnUnlessCrowded'
      BY <2>1, <3>3, <3>5 DEF DeviceInv, OwnUnlessCrowded
    <3> QED
      BY <3>6, <3>8, <3>9 DEF DeviceInv
  <2> QED
    BY <1>4, <2>2, <2>3 DEF Mount
<1> QED
  BY <1>1, <1>2, <1>3, <1>4 DEF StageStep

(* Every step keeps the devices where they belong, or notes the crowd. *)
LEMMA NextDevices == TypeInv /\ MountInv /\ PodInv /\ DeviceInv /\ [Next]_vars => DeviceInv'
<1> SUFFICES ASSUME TypeInv, MountInv, PodInv, DeviceInv, [Next]_vars PROVE DeviceInv'
  OBVIOUS
<1>0. /\ call \in [Calls -> Call] /\ mnt \in [Volumes -> MaybeDevice] /\ plugged \in [Volumes -> Nat]
      /\ kube \in [Volumes -> KubeStates]
      /\ None \notin Volumes /\ "dead" \notin Volumes
  BY NodeServiceAssumption DEF TypeInv, TypeOK
<1>1. ASSUME NEW k \in Calls, StageStep(k) PROVE DeviceInv'
  BY <1>1, StageDevices
<1>2. ASSUME NEW k \in Calls, GiveUp(k) PROVE DeviceInv'
  <2>1. UNCHANGED <<kube, crowded, plugged, mnt, blind>> /\ \A j \in Calls : call'[j].vol = call[j].vol
    BY <1>0, <1>2 DEF GiveUp, Call
  <2> QED
    BY <2>1, CallDevices
<1>3. ASSUME NEW k \in Calls, NEW v \in Volumes, CallStage(k, v) PROVE DeviceInv'
  <2>1. UNCHANGED <<crowded, plugged, mnt, blind>> /\ kube[v] # "off" /\ kube' = [kube EXCEPT ![v] = "uncertain"]
    BY <1>3 DEF CallStage
  <2>2. call'[k].vol = v /\ \A j \in Calls : j # k => call'[j] = call[j]
    BY <1>0, <1>3, NoCallType DEF CallStage, Call
  <2> QED
    BY <1>0, <2>1, <2>2, CallDevices
<1>4. ASSUME NEW v \in Volumes, NodePublishVolume(v) \/ NodeUnpublishVolume(v) PROVE DeviceInv'
  <2>1. UNCHANGED <<crowded, plugged, mnt, call, blind>> /\ \A w \in Volumes : kube'[w] = "off" <=> kube[w] = "off"
    BY <1>0, <1>4 DEF NodePublishVolume, NodeUnpublishVolume
  <2> QED
    BY <2>1, CallDevices
<1>5. ASSUME NEW v \in Volumes, NodeUnstageVolume(v) PROVE DeviceInv'
  <2>1. /\ Observe /\ UNCHANGED <<plugged, blind>>
        /\ \A w \in Volumes : kube[w] # "off" => kube'[w] # "off"
        /\ \A w \in Volumes : mnt'[w] \in Volumes => mnt'[w] = mnt[w]
    BY <1>0, <1>5 DEF NodeUnstageVolume
  <2> QED
    BY <2>1, ObservedDevices DEF DeviceInv, PluggedAttached
<1>6. ASSUME NEW v \in Volumes, Attach(v) PROVE DeviceInv'
  <2>1. /\ Observe /\ UNCHANGED <<plugged, mnt, blind>>
        /\ \A w \in Volumes : kube[w] # "off" => kube'[w] # "off"
    BY <1>0, <1>6 DEF Attach
  <2> QED
    BY <2>1, ObservedDevices DEF DeviceInv, PluggedAttached
<1>7. ASSUME NEW v \in Volumes, Plug(v) PROVE DeviceInv'
  <2>1. UNCHANGED <<kube, mnt, call, crowded, blind>> /\ kube[v] # "off"
        /\ \A w \in Volumes : w # v => plugged'[w] = plugged[w]
    BY <1>0, <1>7 DEF Plug
  <2>2. Unsettled' = Unsettled
    BY <2>1 DEF Unsettled
  <2> QED
    BY <2>1, <2>2, QuietDevices DEF DeviceInv, PluggedAttached
<1>8. ASSUME NEW v \in Volumes, Detach(v) PROVE DeviceInv'
  <2>1. /\ Observe /\ kube' = [kube EXCEPT ![v] = "off"] /\ plugged'[v] = 0 /\ UNCHANGED blind
        /\ \A w \in Volumes : mnt'[w] \in Volumes => mnt'[w] = mnt[w]
    BY <1>0, <1>8 DEF Detach
  <2>2. \A w \in Volumes : plugged[w] = 0 => plugged'[w] = 0
    BY <1>0, <1>8 DEF Detach
  <2>3. PluggedAttached'
    BY <1>0, <2>1, <2>2 DEF DeviceInv, PluggedAttached
  <2> QED
    BY <2>1, <2>3, ObservedDevices
<1>9. CASE Restart
  <2>1. UNCHANGED <<kube, crowded, plugged, mnt, blind>> /\ \A j \in Calls : call'[j].vol = None
    BY <1>9, NoCallType DEF Restart
  <2> QED
    BY <2>1, CallDevices
<1>10. CASE Reboot
  <2>1. Observe /\ UNCHANGED blind /\ \A w \in Volumes : mnt'[w] = None
    BY <1>10 DEF Reboot
  <2>2. \A w \in Volumes : plugged'[w] # 0 => kube[w] # "off"
    BY <1>10 DEF Reboot
  <2>3. \A w \in Volumes : kube[w] # "off" => kube'[w] # "off"
    BY <1>10 DEF Reboot
  <2>4. PluggedAttached'
    BY <2>2, <2>3 DEF PluggedAttached
  <2> QED
    BY <1>0, <2>1, <2>4, ObservedDevices
<1>11. CASE UNCHANGED vars
  BY <1>11, CallDevices DEF vars
<1> QED
  BY <1>1, <1>2, <1>3, <1>4, <1>5, <1>6, <1>7, <1>8, <1>9, <1>10, <1>11 DEF Next

(* As long as no two volumes waited for their device at once, a staging     *)
(* path has the volume's own device, although findDeviceByPath never asks   *)
(* whose device it takes: whatever calls kubelet gives up and however often *)
(* the driver restarts.  The volumes staged without a list of the mounts    *)
(* are excepted, and do not disturb the others.                             *)
THEOREM OwnDevices == Spec => []OwnUnlessCrowded
<1>1. Init => MountInv /\ PodInv
  BY NodeServiceAssumption, NoCallType
     DEF Init, MountInv, MountedVisible, OneMountPerDevice, BaseCovers, FoundUnmounted,
         PodInv, LiveUncertain, LiveUnique, MountsEmpty, StagedMounted
<1>2. Init => DeviceInv
  <2> SUFFICES ASSUME Init PROVE DeviceInv
    OBVIOUS
  <2>1. \A k \in Calls : call[k].vol = None
    BY NoCallType DEF Init
  <2>2. Unsettled = {}
    BY <2>1, NodeServiceAssumption DEF Init, Unsettled
  <2> QED
    BY <2>2, NodeServiceAssumption DEF Init, DeviceInv, PluggedAttached, Alone, OwnUnlessCrowded
<1>3. TypeInv /\ MountInv /\ PodInv /\ DeviceInv /\ [Next]_vars
        => TypeInv' /\ MountInv' /\ PodInv' /\ DeviceInv'
  BY NextType, NextMounts, NextPods, NextDevices
<1>4. Spec => [](TypeInv /\ MountInv /\ PodInv /\ DeviceInv)
  BY InitType, <1>1, <1>2, <1>3, PTL DEF Spec
<1>5. TypeInv /\ MountInv /\ PodInv /\ DeviceInv => OwnUnlessCrowded
  BY DEF DeviceInv
<1> QED
  BY <1>4, <1>5, PTL
=============================================================================
