------------------------ MODULE CSIControllerProofs ------------------------
(* Theorems about CSIController, for any calls, drives, servers and faults. *)
EXTENDS CSIController, FiniteSetTheorems, WellFoundedInduction, TLAPS

-----------------------------------------------------------------------------
(* Channels.  A call that attaches a drive finds a channel of its own if    *)
(* there are no more drives than channels.                                  *)
EnoughChannels == IsFiniteSet(Drives) /\ Cardinality(Drives) <= NumChannels

Free(list) == {k \in 1..NumChannels : \A d \in Drives : list[d] # k}

(* FindNextDeviceChannel takes the first free channel, if there is one. *)
LEMMA FirstFree ==
  ASSUME NEW list \in DriveList
  PROVE  /\ FindNextDeviceChannel(list) \in 1..NumChannels
         /\ Free(list) # {} => FindNextDeviceChannel(list) \in Free(list)
<1>0. NumChannels \in 1..NumChannels
  BY CSIAssumption
<1>1. CASE Free(list) = {}
  BY <1>0, <1>1 DEF FindNextDeviceChannel, Free
<1>2. CASE Free(list) # {}
  <2>1. Free(list) \subseteq Nat
    BY CSIAssumption DEF Free
  <2>2. PICK k \in Free(list) : \A j \in Free(list) : <<j, k>> \notin OpToRel(<, Nat)
    BY <1>2, <2>1, NatLessThanWellFounded, WFMin
  <2>3. \A j \in Free(list) : k <= j
    <3>1. \A j \in Free(list) : ~(j < k)
      BY <2>1, <2>2, Zenon DEF OpToRel
    <3> QED
      BY <2>1, <3>1
  <2>4. FindNextDeviceChannel(list) \in Free(list)
    BY <1>2, <2>3 DEF FindNextDeviceChannel, Free
  <2> QED
    BY <2>4 DEF Free
<1> QED
  BY <1>1, <1>2

(* Some channel is free as long as a drive has none. *)
LEMMA ChannelLeft ==
  ASSUME EnoughChannels, NEW list \in DriveList, NEW d \in Drives, list[d] = 0
  PROVE  Free(list) # {}
<1> SUFFICES ASSUME Free(list) = {} PROVE FALSE
  OBVIOUS
<1> DEFINE S == Drives \ {d}
           T == {list[e] : e \in S}
           f == [e \in S |-> list[e]]
<1>1. IsFiniteSet(S) /\ Cardinality(S) = Cardinality(Drives) - 1 /\ Cardinality(Drives) \in Nat
  BY FS_RemoveElement, FS_CardinalityType DEF EnoughChannels
<1>2. f \in Surjection(S, T)
  BY DEF Surjection
<1>3. IsFiniteSet(T) /\ Cardinality(T) <= Cardinality(S)
  <2> HIDE DEF S, T, f
  <2> QED BY <1>1, <1>2, FS_Surjection
<1>4. 1..NumChannels \subseteq T
  <2> SUFFICES ASSUME NEW k \in 1..NumChannels PROVE k \in T
    OBVIOUS
  <2>1. PICK e \in Drives : list[e] = k
    BY DEF Free
  <2>2. k # 0
    BY CSIAssumption
  <2> QED
    BY <2>1, <2>2
<1> HIDE DEF S, T, f
<1>5. Cardinality(1..NumChannels) <= Cardinality(T)
  BY <1>3, <1>4, FS_Subset
<1>6. Cardinality(1..NumChannels) = NumChannels
  BY FS_Interval, CSIAssumption
<1>7. Cardinality(T) \in Nat /\ Cardinality(S) \in Nat
  BY <1>1, <1>3, FS_CardinalityType
<1> QED
  BY <1>1, <1>3, <1>5, <1>6, <1>7, CSIAssumption DEF EnoughChannels

-----------------------------------------------------------------------------
(* Type correctness.  A publish past the lock holds the lock of its server, *)
(* and knows the server it takes the drive from.                            *)
LockInv ==
    \A c \in Calls :
        /\ call[c].pc \in Holding => Request[c].op = "publish" /\ lock[Request[c].server] = c
        /\ \A n \in Servers : lock[n] = c => Request[c].server = n

OldInv == \A c \in Calls : call[c].pc \in {"oldGet", "oldPut"} => call[c].old \in Servers

TypeInv == TypeOK /\ LockInv /\ OldInv

LEMMA CallTypes ==
  /\ NoDrives \in DriveList /\ NewCall \in Call /\ [NewCall EXCEPT !.pc = "done"] \in Call
  /\ NewCall.pc = "new" /\ [NewCall EXCEPT !.pc = "done"].pc = "done"
<1>1. NoDrives \in DriveList
  BY CSIAssumption DEF NoDrives, DriveList, Channels
<1>2. 0 \in 0..(MaxPolls - 1)
  BY CSIAssumption
<1> QED
  BY <1>1, <1>2 DEF NewCall, Call, PCs

LEMMA InitType == Init => TypeInv
<1> SUFFICES ASSUME Init PROVE TypeInv
  OBVIOUS
<1>1. /\ name \in [Drives -> Names \cup {None}] /\ attached \in [Servers -> DriveList]
      /\ lock \in [Servers -> Calls \cup {None}] /\ \A n \in Servers : lock[n] = None
      /\ published \in [Servers -> DriveList] /\ errors \in Nat
      /\ mounted \in [Drives -> SUBSET Servers] /\ crossed \subseteq Servers
  BY CallTypes, CSIAssumption DEF Init
<1>2. call \in [Calls -> Call] /\ \A c \in Calls : call[c].pc = "new"
  BY CallTypes DEF Init
<1>3. None \notin Calls
  BY CSIAssumption
<1> QED
  BY <1>1, <1>2, <1>3 DEF TypeInv, TypeOK, LockInv, OldInv, Holding

(* The drive and the server of a call. *)
LEMMA Requests ==
  ASSUME NEW c \in Calls
  PROVE  /\ Request[c].op \in {"publish", "unpublish", "delete"} => Request[c].drive \in Drives
         /\ Request[c].op \in {"publish", "unpublish"} => Request[c].server \in Servers
         /\ Request[c].op = "create" => Request[c].name \in Names
  BY CSIAssumption

(* How a step of a call changes the call. *)
LEMMA StepCall ==
  ASSUME TypeInv, NEW c \in Calls, Step(c)
  PROVE  /\ call' \in [Calls -> Call]
         /\ \A b \in Calls : b # c => call'[b] = call[b]
         /\ call'[c].pc \in {"oldGet", "oldPut"} => call'[c].old \in Servers
<1>1. call \in [Calls -> Call] /\ call[c] \in Call /\ attached \in [Servers -> DriveList]
  BY DEF TypeInv, TypeOK
<1>2. ASSUME NEW r \in Call, call' = [call EXCEPT ![c] = r],
             r.pc \in {"oldGet", "oldPut"} => r.old \in Servers
      PROVE  /\ call' \in [Calls -> Call]
             /\ \A b \in Calls : b # c => call'[b] = call[b]
             /\ call'[c].pc \in {"oldGet", "oldPut"} => call'[c].old \in Servers
  BY <1>1, <1>2
<1>3. CASE Finish(c) \/ Fail(c)
  BY <1>2, <1>3, CallTypes DEF Finish, Fail
<1>4. ASSUME NEW l \in PCs \ {"oldGet", "oldPut"}, Goto(c, l)
      PROVE  \E r \in Call : /\ call' = [call EXCEPT ![c] = r]
                             /\ r.pc \in {"oldGet", "oldPut"} => r.old \in Servers
  <2>1. call' = [call EXCEPT ![c] = [call[c] EXCEPT !.pc = l]]
    BY <1>4 DEF Goto
  <2>2. [call[c] EXCEPT !.pc = l] \in Call /\ [call[c] EXCEPT !.pc = l].pc = l
    BY <1>1 DEF Call
  <2> QED
    BY <2>1, <2>2
<1>5. ASSUME NEW l \in {"drive", "unPut"}, NEW n \in Servers,
             call' = [call EXCEPT ![c].pc = l, ![c].list = attached[n]]
      PROVE  \E r \in Call : /\ call' = [call EXCEPT ![c] = r]
                             /\ r.pc \in {"oldGet", "oldPut"} => r.old \in Servers
  <2> DEFINE r == [call[c] EXCEPT !.pc = l, !.list = attached[n]]
  <2>1. call' = [call EXCEPT ![c] = r]
    BY <1>5
  <2>2. r \in Call /\ r.pc = l
    BY <1>1 DEF Call, PCs
  <2> QED
    BY <2>1, <2>2
<1>6. ASSUME NEW m \in Servers, call' = [call EXCEPT ![c].pc = "oldGet", ![c].old = m]
      PROVE  \E r \in Call : /\ call' = [call EXCEPT ![c] = r]
                             /\ r.pc \in {"oldGet", "oldPut"} => r.old \in Servers
  <2> DEFINE r == [call[c] EXCEPT !.pc = "oldGet", !.old = m]
  <2>1. call' = [call EXCEPT ![c] = r]
    BY <1>6
  <2>2. r \in Call /\ r.old = m
    BY <1>1 DEF Call, PCs
  <2> QED
    BY <2>1, <2>2
<1>7. ASSUME call[c].old \in Servers,
             call' = [call EXCEPT ![c].pc = "oldPut", ![c].oldList = attached[call[c].old]]
      PROVE  \E r \in Call : /\ call' = [call EXCEPT ![c] = r]
                             /\ r.pc \in {"oldGet", "oldPut"} => r.old \in Servers
  <2> DEFINE r == [call[c] EXCEPT !.pc = "oldPut", !.oldList = attached[call[c].old]]
  <2>1. call' = [call EXCEPT ![c] = r]
    BY <1>7
  <2>2. r \in Call /\ r.old = call[c].old
    BY <1>1, <1>7 DEF Call, PCs
  <2> QED
    BY <1>7, <2>1, <2>2
<1>8. CASE Finish(c) \/ Fail(c) \/ CreateFailed(c) \/ \E l \in PCs \ {"oldGet", "oldPut"} : Goto(c, l)
  BY <1>2, <1>3, <1>4, <1>8 DEF CreateFailed
<1>9. CASE CreateVolume(c) \/ CreateDrive(c) \/ DeleteVolume(c) \/ DeleteDrive(c)
           \/ PublishPutOld(c) \/ PublishPut(c) \/ UnpublishPut(c) \/ UnpublishVerify(c)
  BY <1>8, <1>9 DEF CreateVolume, CreateDrive, DeleteVolume, DeleteDrive, PublishPutOld, PublishPut,
                    UnpublishPut, UnpublishVerify, PCs
<1>10. CASE PublishVolume(c) \/ UnpublishVolume(c)
  BY <1>2, <1>3, <1>5, <1>10, Requests DEF PublishVolume, UnpublishVolume, At
<1>11. CASE PublishDrive(c)
  <2>1. Request[c].drive \in Drives
    BY <1>11, Requests DEF PublishDrive, At
  <2>2. mounted[Request[c].drive] \subseteq Servers
    BY <2>1 DEF TypeInv, TypeOK
  <2> QED
    BY <1>2, <1>6, <1>8, <1>11, <2>2 DEF PublishDrive, PCs
<1>12. CASE PublishGetOld(c)
  BY <1>2, <1>7, <1>8, <1>12 DEF PublishGetOld, At, TypeInv, OldInv, PCs
<1>13. CASE UnpublishPoll(c)
  <2>1. CASE Finish(c)
    BY <1>3, <2>1
  <2>2. CASE call[c].polls # MaxPolls - 1 /\ call' = [call EXCEPT ![c].polls = @ + 1]
    <3> DEFINE r == [call[c] EXCEPT !.polls = @ + 1]
    <3>1. call' = [call EXCEPT ![c] = r]
      BY <2>2
    <3>2. call[c].polls \in 0..(MaxPolls - 1) /\ call[c].pc = "poll"
      BY <1>1, <1>13 DEF Call, UnpublishPoll, At
    <3>3. call[c].polls + 1 \in 0..(MaxPolls - 1)
      BY <2>2, <3>2, CSIAssumption
    <3>4. r \in Call /\ r.pc = "poll"
      BY <1>1, <3>2, <3>3 DEF Call
    <3> QED
      BY <1>2, <3>1, <3>4
  <2> QED
    BY <1>13, <2>1, <2>2 DEF UnpublishPoll
<1> QED
  BY <1>9, <1>10, <1>11, <1>12, <1>13 DEF Step

(* The list of a server is written by one of three PUTs. *)
PutBy(c, n, list) ==
    \/ /\ PublishPut(c) /\ n = Request[c].server
       /\ list = [call[c].list EXCEPT ![Request[c].drive] = FindNextDeviceChannel(call[c].list)]
    \/ /\ PublishPutOld(c) /\ n = call[c].old
       /\ list = [call[c].oldList EXCEPT ![Request[c].drive] = 0]
    \/ /\ UnpublishPut(c) /\ n = Request[c].server
       /\ list = [call[c].list EXCEPT ![Request[c].drive] = 0]

LEMMA StepPut ==
  ASSUME TypeInv, NEW c \in Calls, Step(c)
  PROVE  \/ UNCHANGED serverVars
         \/ \E n \in Servers : \E list \in DriveList : PutBy(c, n, list) /\ PutServer(c, n, list)
<1>1. call[c].list \in DriveList /\ call[c].oldList \in DriveList
  BY DEF TypeInv, TypeOK, Call
<1>2. \A list \in DriveList : \A d \in Drives : \A k \in Channels : [list EXCEPT ![d] = k] \in DriveList
  BY DEF DriveList
<1>3. 0 \in Channels /\ FindNextDeviceChannel(call[c].list) \in Channels
  BY <1>1, FirstFree, CSIAssumption DEF Channels
<1>4. CASE PublishPut(c)
  <2>1. Request[c].server \in Servers /\ Request[c].drive \in Drives
    BY <1>4, Requests DEF PublishPut, At
  <2> DEFINE list == [call[c].list EXCEPT ![Request[c].drive] = FindNextDeviceChannel(call[c].list)]
  <2>2. UNCHANGED serverVars \/ PutServer(c, Request[c].server, list)
    BY <1>4 DEF PublishPut
  <2>3. list \in DriveList
    BY <1>1, <1>2, <1>3, <2>1
  <2> QED
    BY <1>4, <2>1, <2>2, <2>3 DEF PutBy
<1>5. CASE PublishPutOld(c)
  <2>1. call[c].old \in Servers /\ Request[c].drive \in Drives
    BY <1>5, Requests DEF PublishPutOld, At, TypeInv, OldInv
  <2> DEFINE list == [call[c].oldList EXCEPT ![Request[c].drive] = 0]
  <2>2. UNCHANGED serverVars \/ PutServer(c, call[c].old, list)
    BY <1>5 DEF PublishPutOld
  <2>3. list \in DriveList
    BY <1>1, <1>2, <1>3, <2>1
  <2> QED
    BY <1>5, <2>1, <2>2, <2>3 DEF PutBy
<1>6. CASE UnpublishPut(c)
  <2>1. Request[c].server \in Servers /\ Request[c].drive \in Drives
    BY <1>6, Requests DEF UnpublishPut, At
  <2> DEFINE list == [call[c].list EXCEPT ![Request[c].drive] = 0]
  <2>2. UNCHANGED serverVars \/ PutServer(c, Request[c].server, list)
    BY <1>6 DEF UnpublishPut
  <2>3. list \in DriveList
    BY <1>1, <1>2, <1>3, <2>1
  <2> QED
    BY <1>6, <2>1, <2>2, <2>3 DEF PutBy
<1> QED
  BY <1>4, <1>5, <1>6 DEF Step, CreateVolume, CreateDrive, DeleteVolume, DeleteDrive, PublishVolume,
                          PublishDrive, PublishGetOld, UnpublishVolume, UnpublishVerify, UnpublishPoll

LEMMA StepRest ==
  ASSUME TypeInv, NEW c \in Calls, Step(c)
  PROVE  /\ name' \in [Drives -> Names \cup {None}]
         /\ attached' \in [Servers -> DriveList]
         /\ mounted' \in [Drives -> SUBSET Servers]
         /\ crossed' \subseteq Servers /\ crossed \subseteq crossed'
         /\ published' \in [Servers -> DriveList]
         /\ errors' \in Nat
<1>1. /\ attached' \in [Servers -> DriveList] /\ mounted' \in [Drives -> SUBSET Servers]
      /\ crossed' \subseteq Servers /\ crossed \subseteq crossed'
  BY StepPut DEF TypeInv, TypeOK, serverVars, PutServer
<1>2. errors' \in Nat
  <2>1. errors' = errors \/ Fault
    BY DEF Step, CreateVolume, CreateDrive, DeleteVolume, DeleteDrive, PublishVolume, PublishDrive,
           PublishGetOld, PublishPutOld, PublishPut, UnpublishVolume, UnpublishPut, UnpublishVerify, UnpublishPoll
  <2> QED
    BY <2>1 DEF Fault, TypeInv, TypeOK
<1>3. name' \in [Drives -> Names \cup {None}]
  <2>1. CASE CreateDrive(c)
    <3>1. Request[c].name \in Names
      BY <2>1, Requests DEF CreateDrive, At
    <3>2. name' = name \/ \E d \in Drives : name' = [name EXCEPT ![d] = Request[c].name]
      BY <2>1 DEF CreateDrive
    <3> QED
      BY <3>1, <3>2 DEF TypeInv, TypeOK
  <2>2. CASE DeleteDrive(c)
    <3>1. name' = name \/ name' = [name EXCEPT ![Request[c].drive] = None]
      BY <2>2 DEF DeleteDrive
    <3> QED
      BY <3>1 DEF TypeInv, TypeOK
  <2>3. CASE name' = name
    BY <2>3 DEF TypeInv, TypeOK
  <2> QED
    BY <2>1, <2>2, <2>3
       DEF Step, CreateVolume, DeleteVolume, PublishVolume, PublishDrive, PublishGetOld, PublishPutOld,
           PublishPut, UnpublishVolume, UnpublishPut, UnpublishVerify, UnpublishPoll
<1>4. published' \in [Servers -> DriveList]
  <2>0. /\ published \in [Servers -> DriveList] /\ attached \in [Servers -> DriveList]
        /\ call[c].list \in DriveList /\ 0 \in Channels
    BY CSIAssumption DEF TypeInv, TypeOK, Call, Channels
  <2>1. ASSUME NEW n \in Servers, NEW d \in Drives, NEW k \in Channels,
               published' = [published EXCEPT ![n][d] = k]
        PROVE  published' \in [Servers -> DriveList]
    BY <2>0, <2>1 DEF DriveList
  <2>2. CASE Request[c].op \in {"publish", "unpublish"} /\ \E k \in Channels : Report(c, k)
    <3>1. Request[c].drive \in Drives /\ Request[c].server \in Servers
      BY <2>2, Requests
    <3> QED
      BY <2>1, <2>2, <3>1 DEF Report
  <2>3. CASE PublishVolume(c)
    <3>1. Request[c].drive \in Drives /\ Request[c].server \in Servers
      BY <2>3, Requests DEF PublishVolume, At
    <3>2. attached[Request[c].server][Request[c].drive] \in Channels
      BY <2>0, <3>1 DEF DriveList
    <3>3. CASE Report(c, attached[Request[c].server][Request[c].drive])
      BY <2>2, <2>3, <3>2, <3>3 DEF PublishVolume, At
    <3>4. CASE published' = Withdraw(Request[c].server, Request[c].drive)
      BY <2>0, <3>4 DEF Withdraw, DriveList
    <3> QED
      BY <2>3, <3>3, <3>4 DEF PublishVolume
  <2>4. CASE PublishPut(c)
    <3>1. FindNextDeviceChannel(call[c].list) \in Channels
      BY <2>0, FirstFree, CSIAssumption DEF Channels
    <3>2. published' = published \/ Report(c, FindNextDeviceChannel(call[c].list))
      BY <2>4 DEF PublishPut
    <3> QED
      BY <2>0, <2>2, <2>4, <3>1, <3>2 DEF PublishPut, At
  <2>5. CASE UnpublishVolume(c)
    BY <2>0, <2>2, <2>5 DEF UnpublishVolume, At
  <2>6. CASE published' = published
    BY <2>0, <2>6
  <2> QED
    BY <2>3, <2>4, <2>5, <2>6
       DEF Step, CreateVolume, CreateDrive, DeleteVolume, DeleteDrive, PublishDrive, PublishGetOld,
           PublishPutOld, UnpublishPut, UnpublishVerify, UnpublishPoll
<1> QED
  BY <1>1, <1>2, <1>3, <1>4

(* What a step of a call does with the lock. *)
LEMMA StepLock ==
  ASSUME TypeInv, NEW c \in Calls, Step(c)
  PROVE  \/ UNCHANGED lock /\ call[c].pc \notin Holding /\ call'[c].pc \notin Holding
         \/ UNCHANGED lock /\ call[c].pc \in Holding /\ call'[c].pc \in Holding
         \/ /\ Request[c].op = "publish" /\ call[c].pc \notin Holding /\ call'[c].pc \in Holding
            /\ lock[Request[c].server] = None /\ lock' = [lock EXCEPT ![Request[c].server] = c]
         \/ call[c].pc \in Holding /\ call'[c].pc \notin Holding /\ Unlock(c)
<1>0. call \in [Calls -> Call] /\ call[c] \in Call
  BY DEF TypeInv, TypeOK
<1>1. Finish(c) \/ Fail(c) \/ CreateFailed(c) => call'[c].pc \in {"new", "done"}
  BY <1>0, CallTypes DEF Finish, Fail, CreateFailed
<1>2. \A l : Goto(c, l) => call'[c].pc = l
  BY <1>0 DEF Goto, Call
<1>3. CASE CreateVolume(c) \/ CreateDrive(c) \/ DeleteVolume(c) \/ DeleteDrive(c)
           \/ UnpublishPut(c) \/ UnpublishVerify(c)
  BY <1>1, <1>2, <1>3 DEF CreateVolume, CreateDrive, DeleteVolume, DeleteDrive, UnpublishPut,
                          UnpublishVerify, At, Holding
<1>4. CASE UnpublishVolume(c)
  <2>1. \A l, x : call' = [call EXCEPT ![c].pc = l, ![c].list = x] => call'[c].pc = l
    BY <1>0 DEF Call
  <2> QED
    BY <1>1, <1>4, <2>1 DEF UnpublishVolume, At, Holding
<1>5. CASE PublishVolume(c)
  <2>1. \A l, x : call' = [call EXCEPT ![c].pc = l, ![c].list = x] => call'[c].pc = l
    BY <1>0 DEF Call
  <2> QED
    BY <1>1, <1>5, <2>1 DEF PublishVolume, At, Holding, LockFree
<1>6. CASE PublishDrive(c)
  <2>1. \A m : call' = [call EXCEPT ![c].pc = "oldGet", ![c].old = m] => call'[c].pc = "oldGet"
    BY <1>0 DEF Call
  <2> QED
    BY <1>1, <1>2, <1>6, <2>1 DEF PublishDrive, At, Holding
<1>7. CASE PublishGetOld(c)
  <2>1. \A x : call' = [call EXCEPT ![c].pc = "oldPut", ![c].oldList = x] => call'[c].pc = "oldPut"
    BY <1>0 DEF Call
  <2> QED
    BY <1>1, <1>2, <1>7, <2>1 DEF PublishGetOld, At, Holding
<1>8. CASE PublishPutOld(c) \/ PublishPut(c)
  BY <1>1, <1>2, <1>8 DEF PublishPutOld, PublishPut, At, Holding
<1>9. CASE UnpublishPoll(c)
  <2>1. \A x : call' = [call EXCEPT ![c].polls = x] => call'[c].pc = call[c].pc
    BY <1>0 DEF Call
  <2> QED
    BY <1>1, <1>9, <2>1 DEF UnpublishPoll, At, Holding
<1> QED
  BY <1>3, <1>4, <1>5, <1>6, <1>7, <1>8, <1>9 DEF Step

(* The steps that are not of a call change mounted at most. *)
Quiet == UNCHANGED <<name, attached, lock, call, published, crossed, errors>>

LEMMA Steps == ASSUME [Next]_vars PROVE Quiet \/ \E c \in Calls : Step(c)
  BY DEF Next, vars, Quiet, Unmount

LEMMA NextType == TypeInv /\ [Next]_vars => TypeInv'
<1> SUFFICES ASSUME TypeInv, [Next]_vars PROVE TypeInv'
  OBVIOUS
<1>0. None \notin Calls
  BY CSIAssumption
<1>1. CASE UNCHANGED vars
  BY <1>1 DEF vars, TypeInv, TypeOK, LockInv, OldInv
<1>3. ASSUME NEW n \in Servers, NEW d \in Drives, Unmount(n, d) PROVE TypeInv'
  <2>1. mounted' \in [Drives -> SUBSET Servers]
    BY <1>3 DEF Unmount, TypeInv, TypeOK
  <2> QED
    BY <1>3, <2>1 DEF Unmount, TypeInv, TypeOK, LockInv, OldInv
<1>2. ASSUME NEW c \in Calls, Step(c) PROVE TypeInv'
  <2>1. OldInv'
    BY <1>2, StepCall DEF OldInv, TypeInv
  <2>2. /\ lock \in [Servers -> Calls \cup {None}]
        /\ \A n \in Servers : lock[n] # None =>
              Request[lock[n]].op = "publish" /\ call[lock[n]].pc \in Holding
        /\ call'[c].pc \in PCs /\ \A b \in Calls : b # c => call'[b] = call[b]
    BY <1>2, StepCall DEF TypeInv, TypeOK, Holding, Call
  <2>3. call[c].pc \in Holding => Request[c].op = "publish" /\ lock[Request[c].server] = c
    BY DEF TypeInv, LockInv
  <2>4. Request[c].op = "publish" => Request[c].server \in Servers
    BY Requests
  <2>5. lock' \in [Servers -> Calls \cup {None}]
    BY <1>2, <2>2, StepLock DEF Unlock
  <2>6. LockInv'
    <3> SUFFICES ASSUME NEW b \in Calls
                 PROVE  /\ call'[b].pc \in Holding =>
                             Request[b].op = "publish" /\ lock'[Request[b].server] = b
                        /\ \A n \in Servers : lock'[n] = b => Request[b].server = n
      BY DEF LockInv
    <3>1. /\ call[b].pc \in Holding => Request[b].op = "publish" /\ lock[Request[b].server] = b
          /\ \A n \in Servers : lock[n] = b => Request[b].server = n
          /\ b # c => call'[b] = call[b]
      BY <2>2 DEF TypeInv, LockInv
    <3>2. CASE UNCHANGED lock /\ (call'[c].pc \in Holding => call[c].pc \in Holding)
      BY <2>3, <3>1, <3>2
    <3>3. CASE /\ Request[c].op = "publish" /\ lock[Request[c].server] = None
               /\ lock' = [lock EXCEPT ![Request[c].server] = c]
      <4>1. Request[b].op = "publish" => Request[b].server \in Servers
        BY Requests
      <4> QED
        BY <1>0, <2>2, <2>4, <3>1, <3>3, <4>1
    <3>4. CASE Unlock(c) /\ call[c].pc \in Holding /\ call'[c].pc \notin Holding
      <4>1. Request[b].op = "publish" => Request[b].server \in Servers
        BY Requests
      <4>2. lock' = [lock EXCEPT ![Request[c].server] = None]
        BY <3>4 DEF Unlock
      <4> QED
        BY <1>0, <2>2, <2>3, <2>4, <3>1, <3>4, <4>1, <4>2
    <3> QED
      BY <1>2, <3>2, <3>3, <3>4, StepLock
  <2>7. \A n \in Servers : lock'[n] # None =>
          Request[lock'[n]].op = "publish" /\ call'[lock'[n]].pc \in Holding
    BY <1>0, <1>2, <2>2, <2>3, <2>4, StepLock DEF TypeInv, LockInv, Unlock
  <2> QED
    BY <1>2, <2>1, <2>5, <2>6, <2>7, StepCall, StepRest DEF TypeInv, TypeOK, Holding
<1> QED
  BY <1>1, <1>2, <1>3 DEF Next

(* TypeOK, with what it says of the locks, holds for any calls in any order *)
(* and any failures of requests.                                            *)
THEOREM TypeCorrect == Spec => []TypeOK
<1>1. Spec => []TypeInv
  BY InitType, NextType, PTL DEF Spec
<1>2. TypeInv => TypeOK
  BY DEF TypeInv
<1> QED
  BY <1>1, <1>2, PTL

-----------------------------------------------------------------------------
(* Channels again: every list that was ever read has one drive per channel, *)
(* and a publish that attaches has read one without its drive.              *)
OnePerChannel(list) ==
    \A d, e \in Drives : d # e /\ list[d] # 0 => list[d] # list[e]

ListInv ==
    /\ \A n \in Servers : OnePerChannel(attached[n])
    /\ \A c \in Calls : /\ OnePerChannel(call[c].list) /\ OnePerChannel(call[c].oldList)
                        /\ call[c].pc \in Holding => call[c].list[Request[c].drive] = 0

(* What the lists of a call are after a step. *)
LEMMA StepLists ==
  ASSUME TypeInv, NEW c \in Calls, Step(c)
  PROVE  /\ \/ call'[c].list = call[c].list \/ call'[c].list = NoDrives
            \/ /\ Request[c].server \in Servers /\ call'[c].list = attached[Request[c].server]
         /\ \/ call'[c].oldList = call[c].oldList \/ call'[c].oldList = NoDrives
            \/ \E n \in Servers : call'[c].oldList = attached[n]
         /\ call'[c].pc \in Holding =>
              \/ call'[c].list = call[c].list /\ call[c].pc \in Holding
              \/ /\ call'[c].list = attached[Request[c].server]
                 /\ attached[Request[c].server][Request[c].drive] = 0
<1>0. call \in [Calls -> Call] /\ call[c] \in Call
  BY DEF TypeInv, TypeOK
<1>1. Finish(c) \/ Fail(c) \/ CreateFailed(c) =>
        call'[c].list = NoDrives /\ call'[c].oldList = NoDrives /\ call'[c].pc \notin Holding
  BY <1>0 DEF Finish, Fail, CreateFailed, NewCall, Holding
<1>2. \A l : Goto(c, l) =>
        call'[c].list = call[c].list /\ call'[c].oldList = call[c].oldList /\ call'[c].pc = l
  BY <1>0 DEF Goto, Call
<1>3. CASE CreateVolume(c) \/ CreateDrive(c) \/ DeleteVolume(c) \/ DeleteDrive(c)
           \/ PublishPutOld(c) \/ PublishPut(c) \/ UnpublishPut(c) \/ UnpublishVerify(c)
  BY <1>1, <1>2, <1>3 DEF CreateVolume, CreateDrive, DeleteVolume, DeleteDrive, PublishPutOld,
                          PublishPut, UnpublishPut, UnpublishVerify, At, Holding
<1>4. CASE PublishVolume(c) \/ UnpublishVolume(c)
  <2>1. \A l, x : call' = [call EXCEPT ![c].pc = l, ![c].list = x] =>
          call'[c].list = x /\ call'[c].oldList = call[c].oldList /\ call'[c].pc = l
    BY <1>0 DEF Call
  <2>2. Request[c].server \in Servers
    BY <1>4, Requests DEF PublishVolume, UnpublishVolume, At
  <2>3. CASE PublishVolume(c)
    <3>1. \/ Finish(c)
          \/ /\ call' = [call EXCEPT ![c].pc = "drive", ![c].list = attached[Request[c].server]]
             /\ attached[Request[c].server][Request[c].drive] = 0
      BY <2>3 DEF PublishVolume
    <3> QED
      BY <1>1, <2>1, <2>2, <3>1
  <2>4. CASE UnpublishVolume(c)
    <3>1. \/ Finish(c)
          \/ call' = [call EXCEPT ![c].pc = "unPut", ![c].list = attached[Request[c].server]]
      BY <2>4 DEF UnpublishVolume
    <3> QED
      BY <1>1, <2>1, <2>2, <3>1 DEF Holding
  <2> QED
    BY <1>4, <2>3, <2>4
<1>5. CASE PublishDrive(c)
  <2>1. \A m : call' = [call EXCEPT ![c].pc = "oldGet", ![c].old = m] =>
          call'[c].list = call[c].list /\ call'[c].oldList = call[c].oldList
    BY <1>0 DEF Call
  <2>2. call[c].pc \in Holding
    BY <1>5 DEF PublishDrive, At, Holding
  <2> QED
    BY <1>1, <1>2, <1>5, <2>1, <2>2 DEF PublishDrive
<1>6. CASE PublishGetOld(c)
  <2>1. \A x : call' = [call EXCEPT ![c].pc = "oldPut", ![c].oldList = x] =>
          call'[c].list = call[c].list /\ call'[c].oldList = x
    BY <1>0 DEF Call
  <2>2. call[c].pc \in Holding /\ call[c].old \in Servers
    BY <1>6 DEF PublishGetOld, At, Holding, TypeInv, OldInv
  <2> QED
    BY <1>1, <1>2, <1>6, <2>1, <2>2 DEF PublishGetOld
<1>7. CASE UnpublishPoll(c)
  <2>1. \A x : call' = [call EXCEPT ![c].polls = x] =>
          call'[c].list = call[c].list /\ call'[c].oldList = call[c].oldList /\ call'[c].pc = call[c].pc
    BY <1>0 DEF Call
  <2> QED
    BY <1>1, <1>7, <2>1 DEF UnpublishPoll, At, Holding
<1> QED
  BY <1>3, <1>4, <1>5, <1>6, <1>7 DEF Step

LEMMA NextLists ==
  ASSUME EnoughChannels, TypeInv, ListInv, [Next]_vars
  PROVE  ListInv'
<1>0. OnePerChannel(NoDrives)
  BY DEF OnePerChannel, NoDrives
<1>1. CASE Quiet
  BY <1>1 DEF Quiet, ListInv, OnePerChannel
<1>2. ASSUME NEW c \in Calls, Step(c) PROVE ListInv'
  <2>1. \A b \in Calls : /\ OnePerChannel(call'[b].list) /\ OnePerChannel(call'[b].oldList)
                         /\ call'[b].pc \in Holding => call'[b].list[Request[b].drive] = 0
    <3>1. \A b \in Calls : b # c => call'[b] = call[b]
      BY <1>2, StepCall
    <3>2. /\ OnePerChannel(call'[c].list) /\ OnePerChannel(call'[c].oldList)
          /\ call'[c].pc \in Holding => call'[c].list[Request[c].drive] = 0
      BY <1>0, <1>2, StepLists DEF ListInv
    <3> QED
      BY <3>1, <3>2 DEF ListInv
  <2>2. \A n \in Servers : OnePerChannel(attached'[n])
    <3>1. CASE attached' = attached
      BY <3>1 DEF ListInv
    <3>2. CASE attached' # attached
      <4>1. PICK n \in Servers, list \in DriveList :
              PutBy(c, n, list) /\ attached' = [attached EXCEPT ![n] = list]
        BY <1>2, <3>2, StepPut DEF serverVars, PutServer
      <4>2. /\ call[c].list \in DriveList /\ call[c].oldList \in DriveList
            /\ OnePerChannel(call[c].list) /\ OnePerChannel(call[c].oldList)
        BY DEF ListInv, TypeInv, TypeOK, Call
      <4>3. Request[c].drive \in Drives
        BY <4>1, Requests DEF PutBy, PublishPut, PublishPutOld, UnpublishPut, At
      <4>4. \A x \in DriveList : OnePerChannel(x) =>
              OnePerChannel([x EXCEPT ![Request[c].drive] = 0])
        BY <4>3 DEF OnePerChannel, DriveList
      <4>5. CASE PublishPut(c)
        <5> DEFINE k == FindNextDeviceChannel(call[c].list)
        <5>1. call[c].list[Request[c].drive] = 0
          BY <4>5 DEF PublishPut, At, ListInv, Holding
        <5>2. k \in Free(call[c].list)
          BY <4>2, <4>3, <5>1, ChannelLeft, FirstFree
        <5>3. \A e \in Drives : call[c].list[e] # k
          BY <5>2 DEF Free
        <5> HIDE DEF k
        <5>4. OnePerChannel([call[c].list EXCEPT ![Request[c].drive] = k])
          BY <4>2, <4>3, <5>3 DEF OnePerChannel, DriveList
        <5> QED
          BY <4>1, <4>2, <4>4, <5>4 DEF PutBy, k, ListInv, TypeInv, TypeOK
      <4>6. CASE ~PublishPut(c)
        BY <4>1, <4>2, <4>4, <4>6 DEF PutBy, ListInv, TypeInv, TypeOK
      <4> QED
        BY <4>5, <4>6
    <3> QED
      BY <3>1, <3>2
  <2> QED
    BY <2>1, <2>2 DEF ListInv, OnePerChannel
<1> QED
  BY <1>1, <1>2, Steps

(* No channel of a server is given to two drives, whatever lists are        *)
(* written back by whom, as long as there are no more drives than channels: *)
(* findNextDeviceChannel hands the last channel out again when all are      *)
(* used.                                                                    *)
THEOREM OneDrivePerChannel == ASSUME EnoughChannels PROVE Spec => []ChannelsExclusive
<1>1. Init => ListInv
  <2>1. OnePerChannel(NoDrives)
    BY DEF OnePerChannel, NoDrives
  <2> QED
    BY <2>1, CallTypes DEF Init, ListInv, NewCall, Holding
<1>2. TypeInv /\ ListInv /\ [Next]_vars => (TypeInv /\ ListInv)'
  BY NextType, NextLists
<1>3. Spec => [](TypeInv /\ ListInv)
  BY InitType, <1>1, <1>2, PTL DEF Spec
<1>4. TypeInv /\ ListInv => ChannelsExclusive
  BY DEF ListInv, OnePerChannel, ChannelsExclusive
<1> QED
  BY <1>3, <1>4, PTL

-----------------------------------------------------------------------------
(* Names.  external-provisioner makes the calls for one name one after the  *)
(* other; between the search and the creation nobody else creates a drive   *)
(* of the name.                                                             *)
NameInv ==
    /\ OneDrivePerName
    /\ \A c \in Calls : Request[c].op = "create" =>
         /\ call[c].pc # "new" => Issued(c)
         /\ call[c].pc = "create" => \A d \in Drives : name[d] # Request[c].name

(* Calls that have returned stay returned. *)
LEMMA DoneStays ==
  ASSUME TypeInv, NEW c \in Calls, Step(c), NEW b \in Calls, call[b].pc = "done"
  PROVE  call'[b].pc = "done"
<1>1. call[c].pc # "done"
  BY DEF Step, CreateVolume, CreateDrive, DeleteVolume, DeleteDrive, PublishVolume, PublishDrive,
         PublishGetOld, PublishPutOld, PublishPut, UnpublishVolume, UnpublishPut, UnpublishVerify, UnpublishPoll, At
<1> QED
  BY <1>1, StepCall

LEMMA NextNames ==
  ASSUME TypeInv, NameInv, [Next]_vars
  PROVE  NameInv'
<1>1. CASE Quiet
  BY <1>1 DEF Quiet, NameInv, OneDrivePerName, Issued
<1>2. ASSUME NEW c \in Calls, Step(c) PROVE NameInv'
  <2>0. /\ call \in [Calls -> Call] /\ call[c] \in Call /\ name \in [Drives -> Names \cup {None}]
        /\ \A b \in Calls : After[b] \subseteq Calls
        /\ \A b \in Calls : b # c => call'[b] = call[b]
        /\ None \notin Names
    BY <1>2, StepCall, CSIAssumption DEF TypeInv, TypeOK
  <2>1. \A b \in Calls : Issued(b) => Issued(b)'
    BY <1>2, <2>0, DoneStays DEF Issued
  <2>2. Request[c].op = "create" =>
          \/ /\ call[c].pc = "new" /\ Issued(c) /\ UNCHANGED name
             /\ call'[c].pc = "create" => \A d \in Drives : name[d] # Request[c].name
          \/ call[c].pc = "create" /\ call'[c].pc # "create" /\ CreateDrive(c)
    <3>1. Finish(c) \/ Fail(c) \/ CreateFailed(c) => call'[c].pc \in {"new", "done"}
      BY <2>0, CallTypes DEF Finish, Fail, CreateFailed
    <3> QED
      BY <1>2, <3>1
         DEF Step, CreateVolume, CreateDrive, DeleteVolume, DeleteDrive, PublishVolume, PublishDrive,
             PublishGetOld, PublishPutOld, PublishPut, UnpublishVolume, UnpublishPut, UnpublishVerify, UnpublishPoll, At
  <2>3. \A b \in Calls : Request[b].op = "create" /\ call'[b].pc # "new" => Issued(b)'
    BY <2>0, <2>1, <2>2 DEF NameInv
  <2>4. \/ \A d \in Drives : name'[d] = name[d] \/ name'[d] = None
        \/ /\ CreateDrive(c) /\ Request[c].op = "create" /\ call[c].pc = "create"
           /\ \E d \in Drives : name' = [name EXCEPT ![d] = Request[c].name]
    <3>1. CASE CreateDrive(c)
      BY <3>1 DEF CreateDrive, At
    <3>2. CASE DeleteDrive(c)
      BY <2>0, <3>2 DEF DeleteDrive
    <3> QED
      BY <1>2, <3>1, <3>2
         DEF Step, CreateVolume, DeleteVolume, PublishVolume, PublishDrive, PublishGetOld, PublishPutOld,
             PublishPut, UnpublishVolume, UnpublishPut, UnpublishVerify, UnpublishPoll
  <2>5. CASE \A d \in Drives : name'[d] = name[d] \/ name'[d] = None
    <3>1. OneDrivePerName'
      BY <2>5 DEF NameInv, OneDrivePerName
    <3>2. \A b \in Calls : Request[b].op = "create" /\ call'[b].pc = "create" =>
            \A d \in Drives : name'[d] # Request[b].name
      BY <2>0, <2>2, <2>5, Requests DEF NameInv
    <3> QED
      BY <2>3, <3>1, <3>2 DEF NameInv
  <2>6. ASSUME CreateDrive(c), Request[c].op = "create", call[c].pc = "create",
               NEW e \in Drives, name' = [name EXCEPT ![e] = Request[c].name]
        PROVE  NameInv'
    <3>1. Issued(c) /\ \A d \in Drives : name[d] # Request[c].name
      BY <2>6 DEF NameInv
    <3>2. \A d \in Drives : name'[d] = IF d = e THEN Request[c].name ELSE name[d]
      BY <2>0, <2>6
    <3>3. OneDrivePerName'
      BY <3>1, <3>2 DEF NameInv, OneDrivePerName
    <3>4. ASSUME NEW b \in Calls, Request[b].op = "create", call'[b].pc = "create", NEW d \in Drives,
                 name'[d] = Request[b].name
          PROVE  FALSE
      <4>1. b # c
        BY <2>2, <2>6, <3>4
      <4>2. call[b].pc = "create" /\ Issued(b) /\ name[d] # Request[b].name
        BY <2>0, <3>4, <4>1 DEF NameInv
      <4>3. Request[b].name = Request[c].name
        BY <3>2, <3>4, <4>2
      <4>4. b \in After[c] \/ c \in After[b]
        BY <2>6, <3>4, <4>1, <4>3, SidecarAssumption DEF OneByOne
      <4> QED
        BY <2>6, <3>1, <4>2, <4>4 DEF Issued
    <3> QED
      BY <2>3, <3>3, <3>4 DEF NameInv
  <2> QED
    BY <2>4, <2>5, <2>6
<1> QED
  BY <1>1, <1>2, Steps

(* However often CreateVolume is repeated after lost answers, and whatever  *)
(* is deleted meanwhile, a name has one drive.                              *)
THEOREM NamesHaveOneDrive == Spec => []OneDrivePerName
<1>1. Init => NameInv
  <2> SUFFICES ASSUME Init PROVE NameInv
    OBVIOUS
  <2>1. OneDrivePerName
    BY CSIAssumption DEF Init, OneDrivePerName
  <2>2. \A c \in Calls : call[c].pc = "new"
    BY CallTypes DEF Init
  <2> QED
    BY <2>1, <2>2 DEF NameInv
<1>2. TypeInv /\ NameInv /\ [Next]_vars => (TypeInv /\ NameInv)'
  BY NextType, NextNames
<1>3. Spec => [](TypeInv /\ NameInv)
  BY InitType, <1>1, <1>2, PTL DEF Spec
<1>4. TypeInv /\ NameInv => OneDrivePerName
  BY DEF NameInv
<1> QED
  BY <1>3, <1>4, PTL

-----------------------------------------------------------------------------
(* What the calls have read.  A call writes only if it was issued, and of   *)
(* two calls that are made one by one, one has returned.                    *)
Publishes(a, n, d) == Request[a].op = "publish" /\ Request[a].server = n /\ Request[a].drive = d

IssueInv == \A c \in Calls : call[c].pc # "new" => Issued(c)

LEMMA Ordered ==
  ASSUME NEW b \in Calls, NEW c \in Calls, b # c, OneByOne(b, c), Issued(b), Issued(c)
  PROVE  call[b].pc = "done" \/ call[c].pc = "done"
  BY SidecarAssumption DEF Issued

(* Where a step takes a call, and which lists it then has.                  *)
LEMMA StepReads ==
  ASSUME TypeInv, NEW c \in Calls, Step(c)
  PROVE  /\ call[c].pc # "done"
         /\ call[c].pc = "new" /\ call'[c].pc # "new" => Issued(c)
         /\ call'[c].pc = "unPut" =>
              /\ Request[c].op = "unpublish" /\ call'[c].list = attached[Request[c].server]
              /\ UNCHANGED serverVars
         /\ call'[c].pc = "oldGet" =>
              call'[c].old \in mounted[Request[c].drive] /\ call'[c].old # Request[c].server
         /\ call'[c].pc = "oldPut" =>
              /\ call[c].pc = "oldGet" /\ call'[c].old = call[c].old
              /\ call'[c].oldList = attached[call[c].old] /\ UNCHANGED serverVars
         /\ call'[c].pc = "poll" =>
              /\ Request[c].op = "unpublish"
              /\ \/ attached'[Request[c].server][Request[c].drive] = 0
                 \/ call[c].pc = "poll" /\ UNCHANGED serverVars
         /\ call'[c].pc = "done" /\ Request[c].op = "unpublish" =>
              \/ Request[c].server \in Misread
              \/ attached'[Request[c].server][Request[c].drive] = 0
              \/ call[c].pc = "poll" /\ UNCHANGED serverVars
<1>0. /\ call \in [Calls -> Call] /\ call[c] \in Call /\ attached \in [Servers -> DriveList]
      /\ call[c].list \in DriveList
  BY DEF TypeInv, TypeOK, Call
<1>1. /\ Finish(c) => call'[c].pc = "done"
      /\ Fail(c) \/ CreateFailed(c) => call'[c].pc = "new"
  BY <1>0, CallTypes DEF Finish, Fail, CreateFailed
<1>2. \A l : Goto(c, l) => call'[c].pc = l
  BY <1>0 DEF Goto, Call
<1>3. \A l, x : call' = [call EXCEPT ![c].pc = l, ![c].list = x] =>
        call'[c].list = x /\ call'[c].pc = l
  BY <1>0 DEF Call
<1>4. CASE CreateVolume(c) \/ CreateDrive(c) \/ DeleteVolume(c) \/ DeleteDrive(c)
  BY <1>1, <1>2, <1>4 DEF CreateVolume, CreateDrive, DeleteVolume, DeleteDrive, At
<1>5. CASE PublishVolume(c)
  BY <1>1, <1>3, <1>5 DEF PublishVolume, At
<1>6. CASE PublishDrive(c)
  <2>1. \A m : call' = [call EXCEPT ![c].pc = "oldGet", ![c].old = m] =>
          call'[c].pc = "oldGet" /\ call'[c].old = m
    BY <1>0 DEF Call
  <2> QED
    BY <1>1, <1>2, <1>6, <2>1 DEF PublishDrive, At
<1>7. CASE PublishGetOld(c)
  <2>1. \A x : call' = [call EXCEPT ![c].pc = "oldPut", ![c].oldList = x] =>
          call'[c].pc = "oldPut" /\ call'[c].oldList = x /\ call'[c].old = call[c].old
    BY <1>0 DEF Call
  <2> QED
    BY <1>1, <1>2, <1>7, <2>1 DEF PublishGetOld, At
<1>8. CASE PublishPutOld(c) \/ PublishPut(c)
  BY <1>1, <1>2, <1>8 DEF PublishPutOld, PublishPut, At
<1>9. CASE UnpublishVolume(c)
  BY <1>1, <1>3, <1>9 DEF UnpublishVolume, At, serverVars
<1>10. CASE UnpublishPut(c)
  <2>1. Request[c].server \in Servers /\ Request[c].drive \in Drives
    BY <1>10, Requests DEF UnpublishPut, At
  <2>2. call'[c].pc = "poll" =>
          attached' = [attached EXCEPT ![Request[c].server] =
                         [call[c].list EXCEPT ![Request[c].drive] = 0]]
    BY <1>2, <1>10 DEF UnpublishPut, PutServer
  <2>3. call'[c].pc = "poll" => attached'[Request[c].server][Request[c].drive] = 0
    BY <1>0, <2>1, <2>2 DEF DriveList
  <2> QED
    BY <1>2, <1>10, <2>3 DEF UnpublishPut, At
<1>11. CASE UnpublishVerify(c)
  BY <1>1, <1>11 DEF UnpublishVerify, At, Detached, serverVars
<1>12. CASE UnpublishPoll(c)
  <2>1. \A x : call' = [call EXCEPT ![c].polls = x] => call'[c].pc = call[c].pc
    BY <1>0 DEF Call
  <2> QED
    BY <1>1, <1>12, <2>1 DEF UnpublishPoll, At
<1> QED
  BY <1>4, <1>5, <1>6, <1>7, <1>8, <1>9, <1>10, <1>11, <1>12 DEF Step

LEMMA NextIssue ==
  ASSUME TypeInv, IssueInv, NEW c \in Calls, Step(c)
  PROVE  IssueInv'
<1>1. /\ \A b \in Calls : After[b] \subseteq Calls
      /\ \A b \in Calls : b # c => call'[b] = call[b]
  BY StepCall, CSIAssumption
<1>2. \A b \in Calls : Issued(b) => Issued(b)'
  BY <1>1, DoneStays DEF Issued
<1> QED
  BY <1>1, <1>2, StepReads DEF IssueInv

-----------------------------------------------------------------------------
(* What Kubernetes was told.  On a server where writers have not crossed,   *)
(* the lists that were read are current until they are written back; what   *)
(* is about to be taken away is nowhere reported as attached, because the   *)
(* calls that could report it are made one by one; and what is being waited *)
(* for is off the list.                                                     *)
Current(c) ==
    LET n == Request[c].server
        d == Request[c].drive
    IN  /\ call[c].pc \in Holding =>
             /\ \A m \in Servers : m # n => published[m][d] = 0
             /\ n \notin crossed => call[c].list = attached[n] /\ attached[n][d] = 0
        /\ call[c].pc \in {"oldGet", "oldPut"} => call[c].old # n
        /\ call[c].pc = "oldPut" /\ call[c].old \notin crossed =>
             call[c].oldList = attached[call[c].old]
        /\ call[c].pc = "unPut" =>
             /\ Request[c].op = "unpublish" /\ published[n][d] = 0
             /\ n \notin crossed => call[c].list = attached[n]
        /\ call[c].pc = "poll" =>
             /\ Request[c].op = "unpublish"
             /\ n \notin crossed => attached[n][d] = 0

ReportInv == IssueInv /\ AttachedUnlessCrossed /\ \A c \in Calls : Current(c)

(* What a step of a call tells: nothing new, that a drive is not attached,  *)
(* or where its own drive is.                                               *)
LEMMA StepTold ==
  ASSUME TypeInv, NEW c \in Calls, Step(c)
  PROVE  /\ \A n \in Servers, d \in Drives :
              \/ published'[n][d] \in {published[n][d], 0}
              \/ /\ Publishes(c, n, d) /\ published'[n][d] = attached'[n][d]
                 /\ call[c].pc = "put" \/ Issued(c)
         /\ call'[c].pc \in Holding /\ call[c].pc \notin Holding =>
              \A m \in Servers : m # Request[c].server => published'[m][Request[c].drive] = 0
         /\ call'[c].pc = "unPut" => published'[Request[c].server][Request[c].drive] = 0
<1>0. /\ published \in [Servers -> DriveList] /\ attached \in [Servers -> DriveList]
      /\ call \in [Calls -> Call] /\ call[c] \in Call /\ call[c].list \in DriveList
      /\ Request[c].op \in {"publish", "unpublish"} =>
           Request[c].server \in Servers /\ Request[c].drive \in Drives
  BY Requests DEF TypeInv, TypeOK, Call
<1> DEFINE n == Request[c].server
           d == Request[c].drive
<1>1. /\ Finish(c) => call'[c].pc = "done"
      /\ Fail(c) \/ CreateFailed(c) => call'[c].pc = "new"
      /\ \A l : Goto(c, l) => call'[c].pc = l
      /\ \A l, x : call' = [call EXCEPT ![c].pc = l, ![c].list = x] => call'[c].pc = l
  BY <1>0, CallTypes DEF Finish, Fail, CreateFailed, Goto, Call
<1>7. \A x : call' = [call EXCEPT ![c].polls = x] => call'[c].pc = call[c].pc
  BY <1>0 DEF Call
<1>2. CASE PublishVolume(c)
  <2>1. n \in Servers /\ d \in Drives /\ Publishes(c, n, d) /\ call[c].pc = "new" /\ Issued(c)
    BY <1>0, <1>2 DEF PublishVolume, At, Publishes
  <2>2. UNCHANGED attached
    BY <1>2 DEF PublishVolume, serverVars
  <2>3. CASE Report(c, attached[n][d]) /\ Finish(c)
    BY <1>0, <1>1, <2>1, <2>2, <2>3 DEF Report, DriveList, Holding
  <2>4. CASE /\ call' = [call EXCEPT ![c].pc = "drive", ![c].list = attached[n]]
             /\ published' = Withdraw(n, d)
    <3>1. /\ published'[n] = published[n]
          /\ \A m \in Servers : m # n => published'[m] = [published[m] EXCEPT ![d] = 0]
      BY <2>1, <2>4 DEF Withdraw
    <3>2. call'[c].pc = "drive"
      BY <1>1, <2>4
    <3>3. ASSUME NEW m \in Servers, m # n PROVE published'[m][d] = 0
      <4>1. published[m] \in [Drives -> Channels]
        BY <1>0 DEF DriveList
      <4>2. published'[m] = [published[m] EXCEPT ![d] = 0]
        BY <3>1, <3>3
      <4> QED
        BY <2>1, <4>1, <4>2
    <3>4. ASSUME NEW m \in Servers, NEW e \in Drives
          PROVE  published'[m][e] \in {published[m][e], 0}
      <4>1. CASE m = n
        BY <3>1, <4>1
      <4>2. CASE m # n
        <5>1. published[m] \in [Drives -> Channels]
          BY <1>0 DEF DriveList
        <5>2. published'[m] = [published[m] EXCEPT ![d] = 0]
          BY <3>1, <4>2
        <5> QED
          BY <5>1, <5>2
      <4> QED
        BY <4>1, <4>2
    <3> QED
      BY <3>2, <3>3, <3>4
  <2> QED
    BY <1>2, <2>3, <2>4 DEF PublishVolume
<1>3. CASE PublishPut(c)
  <2>1. n \in Servers /\ d \in Drives /\ Publishes(c, n, d) /\ call[c].pc = "put"
    BY <1>0, <1>3 DEF PublishPut, At, Publishes
  <2>2. call'[c].pc \in {"new", "done"}
    BY <1>1, <1>3 DEF PublishPut
  <2>3. \/ UNCHANGED published
        \/ /\ Report(c, FindNextDeviceChannel(call[c].list))
           /\ attached' = [attached EXCEPT ![n] =
                             [call[c].list EXCEPT ![d] = FindNextDeviceChannel(call[c].list)]]
    BY <1>3 DEF PublishPut, PutServer
  <2>4. \A m \in Servers, e \in Drives :
          \/ published'[m][e] = published[m][e]
          \/ m = n /\ e = d /\ published'[m][e] = attached'[m][e]
    BY <1>0, <2>1, <2>3 DEF Report, DriveList
  <2> QED
    BY <2>1, <2>2, <2>4 DEF Holding
<1>4. CASE UnpublishVolume(c)
  <2>1. n \in Servers /\ d \in Drives
    BY <1>0, <1>4 DEF UnpublishVolume, At
  <2>2. call'[c].pc \in {"done", "unPut"}
    BY <1>1, <1>4 DEF UnpublishVolume
  <2>3. /\ \A m \in Servers, e \in Drives : published'[m][e] \in {published[m][e], 0}
        /\ published'[n][d] = 0
    BY <1>0, <1>4, <2>1 DEF UnpublishVolume, Report, DriveList
  <2> QED
    BY <2>2, <2>3 DEF Holding
<1>5. CASE CreateVolume(c) \/ CreateDrive(c) \/ DeleteVolume(c) \/ DeleteDrive(c) \/ UnpublishPut(c)
           \/ UnpublishVerify(c) \/ UnpublishPoll(c)
  <2>1. UNCHANGED published
    BY <1>5 DEF CreateVolume, CreateDrive, DeleteVolume, DeleteDrive, UnpublishPut, UnpublishVerify, UnpublishPoll
  <2>2. call'[c].pc \in {"create", "delete", "verify", "poll", "done", "new"}
    BY <1>1, <1>5, <1>7
       DEF CreateVolume, CreateDrive, DeleteVolume, DeleteDrive, UnpublishPut, UnpublishVerify, UnpublishPoll, At
  <2> QED
    BY <2>1, <2>2 DEF Holding
<1>6. CASE PublishDrive(c) \/ PublishGetOld(c) \/ PublishPutOld(c)
  <2>1. UNCHANGED published /\ call[c].pc \in Holding
    BY <1>6 DEF PublishDrive, PublishGetOld, PublishPutOld, At, Holding
  <2>2. call'[c].pc # "unPut"
    BY <1>6, <2>1, StepReads DEF TypeInv, LockInv
  <2> QED
    BY <2>1, <2>2
<1> QED
  BY <1>2, <1>3, <1>4, <1>5, <1>6 DEF Step

(* A PUT amid no other's GET and PUT changes one drive, which is not        *)
(* reported: an attach its own, with the lock, the others to none.          *)
PutsOne(c, n, k) ==
    /\ Request[c].drive \in Drives /\ published[n][Request[c].drive] = 0
    /\ attached' = [attached EXCEPT ![n][Request[c].drive] = k]
    /\ \/ Publishes(c, n, Request[c].drive) /\ lock[n] = c
       \/ k = 0 /\ ReadsUnlocked(c, n)
    /\ ~Crosses(c, n)

LEMMA PutOne ==
  ASSUME TypeInv, ReportInv, NEW c \in Calls, Step(c), NEW n \in Servers \ crossed',
         attached'[n] # attached[n]
  PROVE  \E k : PutsOne(c, n, k)
<1>0. ~UNCHANGED serverVars
  BY DEF serverVars
<1>1. PICK m \in Servers, lst \in DriveList : PutBy(c, m, lst) /\ PutServer(c, m, lst)
  BY <1>0, StepPut
<1>2. attached \in [Servers -> DriveList] /\ Current(c) /\ AttachedUnlessCrossed
  BY DEF TypeInv, TypeOK, ReportInv
<1>3. m = n /\ attached' = [attached EXCEPT ![n] = lst]
  BY <1>1, <1>2 DEF PutServer
<1>4. ~Crosses(c, n) /\ n \notin crossed
  BY <1>1, <1>3 DEF PutServer
<1> DEFINE d == Request[c].drive
<1>5. CASE PublishPut(c)
  <2>1. call[c].pc = "put" /\ call[c].pc \in Holding /\ Request[c].op = "publish"
    BY <1>5 DEF PublishPut, At, Holding
  <2>2. d \in Drives
    BY <2>1, Requests
  <2>3. n = Request[c].server
        /\ lst = [call[c].list EXCEPT ![d] = FindNextDeviceChannel(call[c].list)]
    BY <1>1, <1>3, <2>1 DEF PutBy, PublishPutOld, UnpublishPut, At
  <2>4. call[c].list = attached[n] /\ attached[n][d] = 0 /\ lock[n] = c
    BY <1>2, <1>4, <2>1, <2>3 DEF Current, TypeInv, LockInv
  <2>5. published[n][d] = 0
    BY <1>2, <1>4, <2>2, <2>4 DEF AttachedUnlessCrossed
  <2>6. attached' = [attached EXCEPT ![n][d] = FindNextDeviceChannel(call[c].list)]
    BY <1>3, <2>3, <2>4
  <2> QED
    BY <1>4, <2>1, <2>2, <2>3, <2>4, <2>5, <2>6 DEF Publishes, PutsOne
<1>6. CASE PublishPutOld(c)
  <2>1. call[c].pc = "oldPut" /\ call[c].pc \in Holding /\ Request[c].op = "publish"
    BY <1>6 DEF PublishPutOld, At, Holding
  <2>2. d \in Drives
    BY <2>1, Requests
  <2>3. n = call[c].old /\ lst = [call[c].oldList EXCEPT ![d] = 0]
    BY <1>1, <1>3, <2>1 DEF PutBy, PublishPut, UnpublishPut, At
  <2>4. call[c].oldList = attached[n] /\ n # Request[c].server /\ published[n][d] = 0
    BY <1>2, <1>4, <2>1, <2>3 DEF Current
  <2>5. attached' = [attached EXCEPT ![n][d] = 0]
    BY <1>3, <2>3, <2>4
  <2> QED
    BY <1>4, <2>1, <2>2, <2>3, <2>4, <2>5 DEF ReadsUnlocked, PutsOne
<1>7. CASE UnpublishPut(c)
  <2>1. call[c].pc = "unPut" /\ Request[c].op = "unpublish"
    BY <1>7 DEF UnpublishPut, At
  <2>2. d \in Drives
    BY <2>1, Requests
  <2>3. n = Request[c].server /\ lst = [call[c].list EXCEPT ![d] = 0]
    BY <1>1, <1>3, <2>1 DEF PutBy, PublishPut, PublishPutOld, At
  <2>4. call[c].list = attached[n] /\ published[n][d] = 0
    BY <1>2, <1>4, <2>1, <2>3 DEF Current
  <2>5. attached' = [attached EXCEPT ![n][d] = 0]
    BY <1>3, <2>3, <2>4
  <2> QED
    BY <1>4, <2>1, <2>2, <2>3, <2>4, <2>5 DEF ReadsUnlocked, PutsOne
<1> QED
  BY <1>1, <1>5, <1>6, <1>7 DEF PutBy

(* A drive that is off the list is put on it by a publish of it only.       *)
LEMMA StaysOff ==
  ASSUME TypeInv, ReportInv, NEW c \in Calls, Step(c), NEW n \in Servers \ crossed',
         NEW d \in Drives, attached[n][d] = 0, attached'[n][d] # 0
  PROVE  Publishes(c, n, d)
<1>1. attached \in [Servers -> DriveList]
  BY DEF TypeInv, TypeOK
<1>2. attached'[n] # attached[n]
  OBVIOUS
<1>3. PICK k : PutsOne(c, n, k)
  BY <1>2, PutOne
<1> QED
  BY <1>1, <1>3 DEF PutsOne, DriveList

(* The lists of the other calls stay current, and nobody reports what they  *)
(* are about to detach.                                                     *)
LEMMA OthersCurrent ==
  ASSUME TypeInv, ReportInv, NEW c \in Calls, Step(c), NEW b \in Calls, b # c
  PROVE  Current(b)'
<1> DEFINE n == Request[b].server
           d == Request[b].drive
           pc == call[b].pc
<1>0. /\ call'[b] = call[b] /\ attached \in [Servers -> DriveList] /\ Current(b) /\ IssueInv
      /\ crossed \subseteq crossed'
      /\ Request[b].op \in {"publish", "unpublish"} => n \in Servers /\ d \in Drives
      /\ pc \in Holding => Request[b].op = "publish" /\ lock[n] = b
      /\ pc \in {"oldGet", "oldPut"} => call[b].old \in Servers
  BY StepCall, StepRest, Requests DEF TypeInv, TypeOK, LockInv, OldInv, ReportInv
<1>1. pc \in Holding \cup {"unPut", "poll"} => Issued(b) /\ pc # "done"
  BY <1>0 DEF IssueInv, Holding
<1>2. call[c].pc # "done" /\ (call[c].pc # "new" => Issued(c))
  BY <1>0, StepReads DEF IssueInv
<1>3. ASSUME NEW m \in Servers \ crossed', attached'[m] # attached[m]
      PROVE  ~ReadsUnlocked(b, m) /\ ~ReadsLocked(b, m)
  <2>1. PICK k : PutsOne(c, m, k)
    BY <1>3, PutOne
  <2>2. ~ReadsUnlocked(b, m) /\ (ReadsLocked(b, m) => lock[m] = c)
    BY <2>1 DEF PutsOne, Crosses
  <2> QED
    BY <1>0, <2>2 DEF ReadsLocked
<1>4. ASSUME NEW m \in Servers, published[m][d] = 0, published'[m][d] # 0, d \in Drives
      PROVE  Publishes(c, m, d) /\ Issued(c)
  BY <1>2, <1>4, StepTold
<1>5. pc \in Holding => \A m \in Servers : m # n => published'[m][d] = 0
  <2> SUFFICES ASSUME pc \in Holding, NEW m \in Servers, m # n, published'[m][d] # 0
               PROVE  FALSE
    OBVIOUS
  <2>1. published[m][d] = 0 /\ d \in Drives /\ Request[b].op = "publish"
    BY <1>0 DEF Current
  <2>2. Publishes(c, m, d) /\ Issued(c)
    BY <1>4, <2>1
  <2>3. OneByOne(b, c)
    BY <2>1, <2>2 DEF OneByOne, Publishes
  <2> QED
    BY <1>1, <1>2, <2>2, <2>3, Ordered
<1>6. pc = "unPut" => published'[n][d] = 0
  <2> SUFFICES ASSUME pc = "unPut", published'[n][d] # 0 PROVE FALSE
    OBVIOUS
  <2>1. published[n][d] = 0 /\ n \in Servers /\ d \in Drives /\ Request[b].op = "unpublish"
    BY <1>0 DEF Current
  <2>2. Publishes(c, n, d) /\ Issued(c)
    BY <1>4, <2>1
  <2>3. OneByOne(b, c)
    BY <2>1, <2>2 DEF OneByOne, Publishes
  <2> QED
    BY <1>1, <1>2, <2>2, <2>3, Ordered
<1>7. /\ pc \in Holding /\ n \notin crossed' => attached'[n] = attached[n]
      /\ pc = "unPut" /\ n \notin crossed' => attached'[n] = attached[n]
      /\ pc = "oldPut" /\ call[b].old \notin crossed' => attached'[call[b].old] = attached[call[b].old]
  <2>1. pc = "unPut" => n \in Servers
    BY <1>0 DEF Current
  <2> QED
    BY <1>0, <1>3, <2>1 DEF ReadsLocked, ReadsUnlocked
<1>8. pc = "poll" /\ n \notin crossed' => attached'[n][d] = 0
  <2> SUFFICES ASSUME pc = "poll", n \notin crossed', attached'[n][d] # 0 PROVE FALSE
    OBVIOUS
  <2>1. Request[b].op = "unpublish" /\ n \in Servers /\ d \in Drives /\ attached[n][d] = 0
    BY <1>0 DEF Current
  <2>2. Publishes(c, n, d)
    BY <2>1, StaysOff
  <2>3. call[c].pc # "new"
    <3>1. attached' # attached
      BY <2>1
    <3>2. PICK m \in Servers, lst \in DriveList : PutBy(c, m, lst)
      BY <3>1, StepPut DEF serverVars
    <3> QED
      BY <3>2 DEF PutBy, PublishPut, PublishPutOld, UnpublishPut, At
  <2>4. OneByOne(b, c)
    BY <2>1, <2>2 DEF OneByOne, Publishes
  <2> QED
    BY <1>1, <1>2, <2>3, <2>4, Ordered
<1> HIDE DEF n, d, pc
<1> QED
  BY <1>0, <1>5, <1>6, <1>7, <1>8 DEF Current, n, d, pc

(* So do its own. *)
LEMMA OwnCurrent ==
  ASSUME TypeInv, ReportInv, NEW c \in Calls, Step(c)
  PROVE  Current(c)'
<1> DEFINE n == Request[c].server
           d == Request[c].drive
<1>0. attached \in [Servers -> DriveList] /\ Current(c) /\ crossed \subseteq crossed'
  BY StepRest DEF TypeInv, TypeOK, ReportInv
<1>1. ASSUME call'[c].pc \in Holding
      PROVE  /\ n \notin crossed' => call'[c].list = attached'[n] /\ attached'[n][d] = 0
             /\ \A m \in Servers : m # n => published'[m][d] = 0
  <2>1. Request[c].op = "publish" /\ n \in Servers /\ d \in Drives
    BY <1>1, StepLock, Requests DEF TypeInv, LockInv
  <2>2. n \notin crossed => call'[c].list = attached[n] /\ attached[n][d] = 0
    BY <1>0, <1>1, StepLists DEF Current
  <2>3. attached'[n] = attached[n]
    <3> SUFFICES ASSUME attached'[n] # attached[n] PROVE FALSE
      OBVIOUS
    <3>0. ~UNCHANGED serverVars
      BY DEF serverVars
    <3>1. PICK m \in Servers, lst \in DriveList : PutBy(c, m, lst) /\ PutServer(c, m, lst)
      BY <3>0, StepPut
    <3>2. m = n
      BY <1>0, <2>1, <3>1 DEF PutServer
    <3>3. CASE PublishPut(c)
      <4>1. call'[c].pc \in {"new", "done"}
        BY <3>3, CallTypes DEF PublishPut, Finish, Fail, TypeInv, TypeOK
      <4> QED
        BY <1>1, <4>1 DEF Holding
    <3>4. CASE PublishPutOld(c)
      BY <1>0, <3>1, <3>2, <3>4 DEF PutBy, PublishPut, PublishPutOld, UnpublishPut, At, Current
    <3> QED
      BY <2>1, <3>1, <3>3, <3>4 DEF PutBy, UnpublishPut, At
  <2>4. CASE call[c].pc \in Holding
    <3>1. \A m \in Servers : m # n => published[m][d] = 0
      BY <1>0, <2>4 DEF Current
    <3> QED
      BY <1>0, <2>1, <2>2, <2>3, <3>1, StepTold DEF Publishes
  <2>5. CASE call[c].pc \notin Holding
    BY <1>0, <1>1, <2>2, <2>3, <2>5, StepTold
  <2> QED
    BY <2>4, <2>5
<1>2. call'[c].pc = "unPut" =>
        /\ Request[c].op = "unpublish" /\ published'[n][d] = 0
        /\ call'[c].list = attached'[n]
  BY StepReads, StepTold DEF serverVars
<1>3. call'[c].pc = "oldPut" => call'[c].oldList = attached'[call'[c].old]
  BY StepReads DEF serverVars
<1>4. call'[c].pc \in {"oldGet", "oldPut"} => call'[c].old # n
  BY <1>0, StepReads DEF Current
<1>5. call'[c].pc = "poll" =>
        Request[c].op = "unpublish" /\ (n \notin crossed' => attached'[n][d] = 0)
  BY <1>0, StepReads DEF Current, serverVars
<1> HIDE DEF n, d
<1> QED
  BY <1>1, <1>2, <1>3, <1>4, <1>5 DEF Current, n, d

(* Every step keeps what Kubernetes was told true. *)
LEMMA NextReports ==
  ASSUME TypeInv, ReportInv, [Next]_vars
  PROVE  ReportInv'
<1>1. CASE Quiet
  BY <1>1 DEF Quiet, ReportInv, IssueInv, Issued, AttachedUnlessCrossed, Current
<1>2. ASSUME NEW c \in Calls, Step(c) PROVE ReportInv'
  <2>1. IssueInv'
    BY <1>2, NextIssue DEF ReportInv
  <2>2. AttachedUnlessCrossed'
    <3> SUFFICES ASSUME NEW n \in Servers \ crossed', NEW d \in Drives, published'[n][d] # 0
                 PROVE  attached'[n][d] = published'[n][d]
      BY DEF AttachedUnlessCrossed
    <3>0. n \notin crossed
      BY <1>2, StepRest
    <3>1. CASE published'[n][d] = attached'[n][d]
      BY <3>1
    <3>2. CASE published'[n][d] # attached'[n][d]
      <4>1. published[n][d] # 0 /\ attached[n][d] = published[n][d] /\ published'[n][d] = published[n][d]
        BY <1>2, <3>0, <3>2, StepTold DEF ReportInv, AttachedUnlessCrossed
      <4>2. attached'[n][d] # attached[n][d]
        BY <3>2, <4>1
      <4>3. attached'[n] # attached[n]
        BY <4>2
      <4>4. PICK k : PutsOne(c, n, k)
        BY <1>2, <4>3, PutOne
      <4>5. Request[c].drive = d
        BY <4>2, <4>4 DEF TypeInv, TypeOK, DriveList, PutsOne
      <4> QED
        BY <4>1, <4>4, <4>5 DEF PutsOne
    <3> QED
      BY <3>1, <3>2
  <2>3. \A b \in Calls : Current(b)'
    BY <1>2, OthersCurrent, OwnCurrent
  <2> QED
    BY <2>1, <2>2, <2>3 DEF ReportInv
<1> QED
  BY <1>1, <1>2, Steps

LEMMA InitReports == Init => ReportInv
<1> SUFFICES ASSUME Init PROVE ReportInv
  OBVIOUS
<1>1. \A n \in Servers, d \in Drives : attached[n][d] = 0 /\ published[n][d] = 0
  BY DEF Init, NoDrives
<1>2. \A c \in Calls : call[c].pc = "new"
  BY CallTypes DEF Init
<1> QED
  BY <1>1, <1>2 DEF ReportInv, IssueInv, AttachedUnlessCrossed, Current, Holding

(* A drive Kubernetes was told is attached is attached, at that channel,    *)
(* through concurrent attaches, moves between servers, detaches, lost       *)
(* answers, misread failures and repetitions, on every server where no PUT  *)
(* of one call came between the GET and the PUT of another, one of the two  *)
(* without the lock.  Nothing is assumed of the callers but the order in    *)
(* which the sidecars make the calls for one volume.                        *)
THEOREM ReportsHold == Spec => []AttachedUnlessCrossed
<1>1. TypeInv /\ ReportInv /\ [Next]_vars => (TypeInv /\ ReportInv)'
  BY NextType, NextReports
<1>2. Spec => [](TypeInv /\ ReportInv)
  BY InitType, InitReports, <1>1, PTL DEF Spec
<1>3. TypeInv /\ ReportInv => AttachedUnlessCrossed
  BY DEF ReportInv
<1> QED
  BY <1>2, <1>3, PTL

-----------------------------------------------------------------------------
(* Detaches.  An unpublish that returned, with no publish of its drive to   *)
(* come, on a server it could not have misread.                             *)
Settled(c) ==
    /\ Request[c].op = "unpublish" /\ call[c].pc = "done"
    /\ Request[c].server \notin Misread
    /\ \A b \in Calls : Publishes(b, Request[c].server, Request[c].drive) => c \notin After[b]

SettledInv ==
    \A c \in Calls : Settled(c) /\ Request[c].server \notin crossed =>
        attached[Request[c].server][Request[c].drive] = 0

LEMMA NextSettled ==
  ASSUME TypeInv, ReportInv, SettledInv, [Next]_vars
  PROVE  SettledInv'
<1>1. CASE Quiet
  BY <1>1 DEF Quiet, SettledInv, Settled
<1>2. ASSUME NEW x \in Calls, Step(x), NEW c \in Calls, Settled(c)', Request[c].server \notin crossed'
      PROVE  attached'[Request[c].server][Request[c].drive] = 0
  <2> DEFINE n == Request[c].server
             d == Request[c].drive
  <2>1. /\ Request[c].op = "unpublish" /\ call'[c].pc = "done" /\ n \notin Misread
        /\ n \in Servers \ crossed' /\ d \in Drives /\ n \notin crossed
        /\ \A b \in Calls : Publishes(b, n, d) => c \notin After[b]
        /\ \A b \in Calls : b # x => call'[b] = call[b]
    BY <1>2, StepCall, StepRest, Requests DEF Settled
  <2>2. CASE call[c].pc = "done"
    <3> SUFFICES ASSUME attached'[n][d] # 0 PROVE FALSE
      OBVIOUS
    <3>1. attached[n][d] = 0 /\ Issued(c) /\ call[x].pc # "done" /\ x # c
      BY <1>2, <2>1, <2>2, StepReads DEF SettledInv, Settled, ReportInv, IssueInv
    <3>2. Publishes(x, n, d)
      BY <1>2, <2>1, <3>1, StaysOff
    <3>3. OneByOne(x, c)
      BY <2>1, <3>2 DEF OneByOne, Publishes
    <3>4. x \in After[c]
      BY <2>1, <3>1, <3>2, <3>3, SidecarAssumption
    <3> QED
      BY <3>1, <3>4 DEF Issued
  <2>3. CASE call[c].pc # "done"
    <3>1. x = c
      BY <2>1, <2>3
    <3>2. CASE attached'[n][d] = 0
      BY <3>2
    <3>3. CASE call[c].pc = "poll" /\ UNCHANGED serverVars
      BY <2>1, <3>3 DEF ReportInv, Current, serverVars
    <3> QED
      BY <1>2, <2>1, <3>1, <3>2, <3>3, StepReads
  <2> QED
    BY <2>2, <2>3
<1> QED
  BY <1>1, <1>2, Steps DEF SettledInv

(* A drive whose unpublish returned success is off the list of the server   *)
(* and stays off, whatever requests failed or took effect without an answer *)
(* on the way, whatever else is attached and detached there and however     *)
(* often the calls were repeated, unless writers have crossed on the server *)
(* or its UUID reads as 404.                                                *)
THEOREM DetachesStay == Spec => []UnpublishedIsDetached
<1> DEFINE Inv == TypeInv /\ ReportInv /\ SettledInv
<1>1. Init => Inv
  <2>1. Init => \A c \in Calls : call[c].pc = "new"
    BY CallTypes DEF Init
  <2> QED
    BY <2>1, InitType, InitReports DEF SettledInv, Settled
<1>2. Inv /\ [Next]_vars => Inv'
  BY NextType, NextReports, NextSettled
<1>3. Inv => UnpublishedIsDetached
  BY DEF SettledInv, Settled, Publishes, UnpublishedIsDetached
<1> QED
  BY <1>1, <1>2, <1>3, PTL DEF Spec

-----------------------------------------------------------------------------
(* Attaches only, each drive to one server: then nothing is ever taken      *)
(* away, and writers cannot cross.                                          *)
AttachOnly ==
    /\ \A c \in Calls : Request[c].op # "unpublish"
    /\ \A b, c \in Calls :
         Request[b].op = "publish" /\ Request[c].op = "publish" /\ Request[b].drive = Request[c].drive
            => Request[b].server = Request[c].server

(* A drive is only where some call publishes it, so no publish finds its    *)
(* drive on another server.                                                 *)
OriginInv ==
    /\ crossed = {}
    /\ \A c \in Calls : call[c].pc \notin {"oldGet", "oldPut"}
    /\ \A n \in Servers, d \in Drives :
         n \in mounted[d] \/ attached[n][d] # 0 => \E a \in Calls : Publishes(a, n, d)

LEMMA NextOrigin ==
  ASSUME AttachOnly, TypeInv, ReportInv, OriginInv, [Next]_vars
  PROVE  OriginInv'
<1>1. CASE UNCHANGED vars
  BY <1>1 DEF vars, OriginInv
<1>2. ASSUME NEW m \in Servers, NEW e \in Drives, Unmount(m, e) PROVE OriginInv'
  <2>1. \A d \in Drives : mounted'[d] \subseteq mounted[d]
    BY <1>2 DEF Unmount, TypeInv, TypeOK
  <2>2. UNCHANGED <<crossed, call, attached>>
    BY <1>2 DEF Unmount
  <2> QED
    BY <2>1, <2>2 DEF OriginInv
<1>3. ASSUME NEW c \in Calls, Step(c) PROVE OriginInv'
  <2>0. /\ attached \in [Servers -> DriveList] /\ mounted \in [Drives -> SUBSET Servers]
        /\ \A b \in Calls : b # c => call'[b] = call[b]
    BY <1>3, StepCall DEF TypeInv, TypeOK
  <2>1. \A b \in Calls : call'[b].pc \notin {"oldGet", "oldPut"}
    <3>1. call'[c].pc # "oldPut"
      BY <1>3, StepReads DEF OriginInv
    <3>2. ASSUME call'[c].pc = "oldGet" PROVE FALSE
      <4>1. /\ call'[c].old \in Servers /\ call'[c].old \in mounted[Request[c].drive]
            /\ call'[c].old # Request[c].server
        BY <1>3, <3>2, StepCall, StepReads
      <4>2. Request[c].op = "publish" /\ Request[c].drive \in Drives
        BY <1>3, <3>2, StepLock, Requests DEF Holding, TypeInv, LockInv
      <4>3. PICK a \in Calls : Publishes(a, call'[c].old, Request[c].drive)
        BY <4>1, <4>2 DEF OriginInv
      <4> QED
        BY <4>1, <4>2, <4>3 DEF AttachOnly, Publishes
    <3> QED
      BY <2>0, <3>1, <3>2 DEF OriginInv
  <2>2. CASE UNCHANGED serverVars
    BY <2>1, <2>2 DEF OriginInv, serverVars
  <2>3. ASSUME NEW n \in Servers, NEW lst \in DriveList, PutBy(c, n, lst), PutServer(c, n, lst)
        PROVE  OriginInv'
    <3>1. /\ PublishPut(c) /\ n = Request[c].server
          /\ lst = [call[c].list EXCEPT ![Request[c].drive] = FindNextDeviceChannel(call[c].list)]
      BY <2>3 DEF PutBy, PublishPutOld, UnpublishPut, At, OriginInv, AttachOnly
    <3>2. /\ Request[c].op = "publish" /\ call[c].pc = "put" /\ call[c].pc \in Holding
          /\ Request[c].drive \in Drives
      BY <3>1, Requests DEF PublishPut, At, Holding
    <3>3. call[c].list = attached[n]
      BY <3>1, <3>2 DEF ReportInv, Current, OriginInv
    <3>4. \A d \in Drives : lst[d] # 0 => \E a \in Calls : Publishes(a, n, d)
      <4> SUFFICES ASSUME NEW d \in Drives, lst[d] # 0 PROVE \E a \in Calls : Publishes(a, n, d)
        OBVIOUS
      <4>1. CASE d = Request[c].drive
        BY <3>1, <3>2, <4>1 DEF Publishes
      <4>2. CASE d # Request[c].drive
        <5>1. attached[n][d] # 0
          BY <2>0, <3>1, <3>2, <3>3, <4>2 DEF DriveList
        <5> QED
          BY <5>1 DEF OriginInv
      <4> QED
        BY <4>1, <4>2
    <3>5. ~Crosses(c, n)
      <4>1. \A b \in Calls : call[b].pc \notin {"unPut", "oldPut"}
        BY DEF ReportInv, Current, OriginInv, AttachOnly
      <4> QED
        BY <4>1 DEF Crosses, ReadsUnlocked
    <3>6. crossed' = {}
      BY <2>3, <3>5 DEF PutServer, OriginInv
    <3>7. /\ attached' = [attached EXCEPT ![n] = lst]
          /\ \A d \in Drives : mounted'[d] = IF lst[d] # 0 THEN mounted[d] \cup {n} ELSE mounted[d]
      BY <2>3 DEF PutServer
    <3> QED
      BY <2>0, <2>1, <3>4, <3>6, <3>7 DEF OriginInv
  <2> QED
    BY <1>3, <2>2, <2>3, StepPut
<1> QED
  BY <1>1, <1>2, <1>3 DEF Next

(* The mutex per server does what it is for: where drives are attached      *)
(* only, each to one server, attaches in any number and any order, with any *)
(* failures, never undo one another.                                        *)
THEOREM AttachesKept == ASSUME AttachOnly PROVE Spec => []PublishedIsAttached
<1> DEFINE Inv == TypeInv /\ ReportInv /\ OriginInv
<1>1. Init => Inv
  <2>1. Init => \A c \in Calls : call[c].pc = "new"
    BY CallTypes DEF Init
  <2>2. Init => crossed = {} /\ \A n \in Servers, d \in Drives : mounted[d] = {} /\ attached[n][d] = 0
    BY DEF Init, NoDrives
  <2> QED
    BY <2>1, <2>2, InitType, InitReports DEF OriginInv
<1>2. Inv /\ [Next]_vars => Inv'
  BY NextType, NextReports, NextOrigin
<1>3. Inv => PublishedIsAttached
  BY DEF ReportInv, OriginInv, AttachedUnlessCrossed, PublishedIsAttached
<1> QED
  BY <1>1, <1>2, <1>3, PTL DEF Spec
=============================================================================
