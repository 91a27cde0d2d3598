---------------------- MODULE MachineControllerProofs ----------------------
(* Theorems about MachineController, for any number of machines, servers,   *)
(* accounts and faults.                                                     *)
EXTENDS MachineController, TLAPS

-----------------------------------------------------------------------------
(* Type correctness.  It needs to know that the worker holds what each      *)
(* program point uses, and for the branch after the finalizer is added,     *)
(* that a copy which counts as fresh is the stored object.                  *)

(* From the step that looks at a server on, the worker holds its UUID. *)
ServerPCs == {"adoptStatus", "adoptProvider", "recordStatus", "recordProvider",
              "start", "existing", "ready", "delStop", "delPoll", "delServer", "delCall"}

JobOK ==
    /\ job.pc # "idle" => job.cur \in Machines /\ job.acct \in Accounts
    /\ job.pc \in {"getServer", "delGet"} => job.copy.instanceID \in ServerIds
    /\ job.pc \in ServerPCs => job.server \in ServerIds
    /\ job.pc = "addFinalizer" /\ job.fresh => job.copy = obj[job.cur]

CacheOK == \A m \in Machines : cacheFresh[m] => cache[m] = obj[m]

TypeInv == TypeOK /\ JobOK /\ CacheOK

(* The worker at rest is a well-typed worker. *)
LEMMA IdleType == Idle \in Job
  BY ConstantsAssumption DEF Idle, Job, PCs, NewMachine, MachineObject, MaybeServer, ServerStates, Alive

(* The initial states are well typed. *)
LEMMA InitType == Init => TypeInv
<1> SUFFICES ASSUME Init PROVE TypeInv
  OBVIOUS
<1>1. TypeOK
  BY IdleType DEF Init, TypeOK, NewMachine, MachineObject, MaybeServer, Server, ServerStates, Alive
<1>2. JobOK
  BY DEF Init, JobOK, Idle, ServerPCs
<1>3. CacheOK
  BY DEF Init, CacheOK
<1> QED
  BY <1>1, <1>2, <1>3 DEF TypeInv

(* Objects stay objects under each kind of write. *)
LEMMA ObjectType ==
  ASSUME NEW o \in MachineObject, NEW id \in MaybeServer, NEW b \in BOOLEAN, NEW c \in BOOLEAN
  PROVE  /\ [o EXCEPT !.instanceID = id, !.ready = b] \in MachineObject
         /\ [o EXCEPT !.instanceID = id] \in MachineObject
         /\ [o EXCEPT !.providerID = id] \in MachineObject
         /\ [o EXCEPT !.finalizer = b] \in MachineObject
         /\ [o EXCEPT !.finalizer = b, !.exists = c] \in MachineObject
         /\ [o EXCEPT !.deleting = b, !.exists = c] \in MachineObject
  BY DEF MachineObject

(* A worker stays well typed under the assignments the actions make. *)
LEMMA JobType ==
  ASSUME NEW j \in Job
  PROVE  /\ \A l \in PCs : [j EXCEPT !.pc = l] \in Job
         /\ \A o \in MachineObject : [j EXCEPT !.copy = o] \in Job
         /\ \A b \in BOOLEAN : [j EXCEPT !.fresh = b] \in Job
         /\ \A l \in PCs, id \in MaybeServer : [[j EXCEPT !.pc = l] EXCEPT !.copy.instanceID = id] \in Job
         /\ \A s \in MaybeServer : [j EXCEPT !.server = s] \in Job
         /\ \A l \in PCs, s \in MaybeServer : [j EXCEPT !.pc = l, !.server = s] \in Job
         /\ \A l \in PCs, s \in MaybeServer, st \in ServerStates :
               [j EXCEPT !.pc = l, !.server = s, !.seen = st] \in Job
  BY DEF Job, MachineObject

(* What Goto changes, and what it leaves alone. *)
LEMMA GotoFields ==
  ASSUME NEW j \in Job, NEW l \in PCs, NEW o \in MachineObject
  PROVE  /\ [[j EXCEPT !.pc = l] EXCEPT !.copy = o].pc = l
         /\ [[j EXCEPT !.pc = l] EXCEPT !.copy = o].copy = o
         /\ [[j EXCEPT !.pc = l] EXCEPT !.copy = o].cur = j.cur
         /\ [[j EXCEPT !.pc = l] EXCEPT !.copy = o].acct = j.acct
         /\ [[j EXCEPT !.pc = l] EXCEPT !.copy = o].fresh = j.fresh
         /\ [[j EXCEPT !.pc = l] EXCEPT !.copy = o].server = j.server
  BY DEF Job

(* A worker that returned meets every demand of JobOK. *)
LEMMA ReturnOK ==
  ASSUME \/ job' = Idle
         \/ \E o \in MachineObject : job' = [Idle EXCEPT !.copy = o]
         \/ job' = [Idle EXCEPT !.fresh = FALSE]
  PROVE  JobOK' /\ job'.pc = "idle"
  BY DEF Idle, JobOK, ServerPCs

(* What a caller may know of a well-typed state. *)
LEMMA Parts ==
  ASSUME TypeInv
  PROVE  /\ job \in Job /\ job.pc \in PCs /\ job.copy \in MachineObject
         /\ job.server \in MaybeServer /\ job.fresh \in BOOLEAN
         /\ job.copy.ready \in BOOLEAN /\ job.copy.instanceID \in MaybeServer
         /\ job.copy.deleting \in BOOLEAN /\ job.copy.finalizer \in BOOLEAN
         /\ job.poll \in 0..(MaxPolls - 1)
         /\ \A m \in Machines : obj[m] \in MachineObject /\ cache[m] \in MachineObject
         /\ job.pc # "idle" => job.cur \in Machines /\ obj[job.cur] \in MachineObject
         /\ \A s \in ServerIds : srv[s] \in Server /\ srv[s].state \in ServerStates
  BY DEF TypeInv, TypeOK, JobOK, Job, MachineObject, Server

(* What one Update leaves behind, if what it is given is well typed. *)
LEMMA WriteType ==
  ASSUME TypeInv, job.pc # "idle", NEW new \in MachineObject, NEW ok \in Job, NEW fail \in Job,
         Write(new, ok, fail)
  PROVE  /\ TypeOK' /\ CacheOK'
         /\ \/ job.fresh /\ job' = [ok EXCEPT !.copy = new]
            \/ job' = fail
            \/ job' = [fail EXCEPT !.fresh = FALSE]
<1>1. job.cur \in Machines
  BY DEF TypeInv, JobOK
<1>2. faults' \in [FaultKinds -> Nat]
  BY DEF TypeInv, TypeOK, Write, Spend
<1>3. obj' \in [Machines -> MachineObject] /\ cacheFresh' \in [Machines -> BOOLEAN]
  BY <1>1, ZenonT(40) DEF TypeInv, TypeOK, Write, Stored
<1>4. \/ job.fresh /\ job' = [ok EXCEPT !.copy = new]
      \/ job' = fail
      \/ job' = [fail EXCEPT !.fresh = FALSE]
  BY DEF Write
<1>5. job' \in Job
  BY <1>4, JobType
<1>6. CacheOK'
  <2> SUFFICES ASSUME NEW m \in Machines, cacheFresh'[m] PROVE cache'[m] = obj'[m]
    BY DEF CacheOK
  <2>1. cache' = cache
    BY DEF Write
  <2>2. CASE obj' = obj /\ cacheFresh' = cacheFresh
    BY <2>1, <2>2 DEF TypeInv, CacheOK
  <2>3. CASE Stored(new)
    BY <1>1, <2>1, <2>3 DEF TypeInv, TypeOK, CacheOK, Stored
  <2> QED
    BY <2>2, <2>3 DEF Write
<1> QED
  BY <1>2, <1>3, <1>4, <1>5, <1>6 DEF TypeInv, TypeOK, Write

(* Counting a fault keeps the counters well typed. *)
LEMMA SpendType ==
  ASSUME TypeInv, NEW k \in FaultKinds, Spend(k)
  PROVE  faults' \in [FaultKinds -> Nat]
  BY DEF Spend, TypeInv, TypeOK

(* What the search of the server list returns is a server. *)
LEMMA FoundIsServer ==
  ASSUME NEW m, NEW s \in FindServerByNameOrMeta(m)
  PROVE  s \in ServerIds
  BY DEF FindServerByNameOrMeta, AliveServers

(* An action that leaves the objects and the cache alone needs a look at    *)
(* the worker, the servers and the counters only.                           *)
LEMMA LocalType ==
  ASSUME TypeInv, UNCHANGED <<obj, cache, cacheFresh, user>>,
         job' \in Job, JobOK', srv' \in [ServerIds -> Server],
         listed' \subseteq ServerIds, abandoned' \subseteq ServerIds,
         faults' = faults \/ \E k \in FaultKinds : Spend(k)
  PROVE  TypeInv'
<1>1. faults' \in [FaultKinds -> Nat]
  BY DEF TypeInv, TypeOK, Spend
<1> QED
  BY <1>1 DEF TypeInv, TypeOK, CacheOK

(* Every step of the worker keeps the type invariant. *)
LEMMA StepType == TypeInv /\ Step => TypeInv'
<1> SUFFICES ASSUME TypeInv, Step PROVE TypeInv'
  OBVIOUS
<1> DEFINE N == "err" \in FaultKinds
<1>0. N
  BY DEF FaultKinds
<1>1. CASE AddFinalizer
  <2> DEFINE new == [obj[job.cur] EXCEPT !.finalizer = TRUE]
  <2>1. job.pc # "idle" /\ new \in MachineObject /\ Goto(AfterFinalizer(job.copy)) \in Job /\ Idle \in Job
    BY <1>1, Parts, ObjectType, JobType, IdleType DEF AddFinalizer, At, Goto, PCs, AfterFinalizer
  <2>2. Write(new, Goto(AfterFinalizer(job.copy)), Idle)
    BY <1>1 DEF AddFinalizer, WriteStatus, WriteProviderID
  <2>3. /\ TypeOK' /\ CacheOK'
        /\ \/ job.fresh /\ job' = [Goto(AfterFinalizer(job.copy)) EXCEPT !.copy = new]
           \/ job' = Idle
           \/ job' = [Idle EXCEPT !.fresh = FALSE]
    BY <2>1, <2>2, WriteType
  <2>4. JobOK'
    <3>1. CASE job.fresh /\ job' = [Goto(AfterFinalizer(job.copy)) EXCEPT !.copy = new]
      <4>1. /\ job'.pc = AfterFinalizer(job.copy) /\ job'.cur = job.cur /\ job'.acct = job.acct
            /\ job'.server = job.server /\ job'.copy = new /\ job.pc # "idle"
        BY <3>1, <2>1, Parts, GotoFields DEF Goto, PCs, AfterFinalizer
      <4>2. new.instanceID = obj[job.cur].instanceID
        BY <2>1, Parts DEF MachineObject
      <4> QED
        BY <1>1, <3>1, <4>1, <4>2, Parts DEF AddFinalizer, At, JobOK, TypeInv, ServerPCs, MaybeServer, MachineObject, AfterFinalizer
    <3> QED
      BY <2>3, <3>1, ReturnOK
  <2> QED
    BY <2>3, <2>4 DEF TypeInv
<1>2. CASE ClearDenied
  <2> DEFINE new == [obj[job.cur] EXCEPT !.instanceID = None, !.ready = job.copy.ready]
  <2>1. job.pc # "idle" /\ new \in MachineObject /\ Idle \in Job /\ Idle \in Job
    BY <1>2, Parts, ObjectType, JobType, IdleType DEF ClearDenied, At, Goto, PCs, MaybeServer
  <2>2. Write(new, Idle, Idle)
    BY <1>2 DEF ClearDenied, WriteStatus, WriteProviderID
  <2>3. /\ TypeOK' /\ CacheOK'
        /\ \/ job.fresh /\ job' = [Idle EXCEPT !.copy = new]
           \/ job' = Idle
           \/ job' = [Idle EXCEPT !.fresh = FALSE]
    BY <2>1, <2>2, WriteType
  <2>4. JobOK'
    BY <2>1, <2>3, ReturnOK
  <2> QED
    BY <2>3, <2>4 DEF TypeInv
<1>3. CASE ClearMissing
  <2> DEFINE new == [obj[job.cur] EXCEPT !.instanceID = None, !.ready = job.copy.ready]
  <2> DEFINE failed == [Goto("find") EXCEPT !.copy.instanceID = None]
  <2> HIDE DEF failed
  <2>1. job.pc # "idle" /\ new \in MachineObject /\ Goto("find") \in Job /\ failed \in Job
    BY <1>3, Parts, ObjectType, JobType, IdleType DEF ClearMissing, At, Goto, PCs, MaybeServer, failed
  <2>2. Write(new, Goto("find"), failed)
    BY <1>3 DEF ClearMissing, WriteStatus, WriteProviderID, failed
  <2>3. /\ TypeOK' /\ CacheOK'
        /\ \/ job.fresh /\ job' = [Goto("find") EXCEPT !.copy = new]
           \/ job' = failed
           \/ job' = [failed EXCEPT !.fresh = FALSE]
    BY <2>1, <2>2, WriteType
  <2>4. JobOK'
    <3>1. CASE job.fresh /\ job' = [Goto("find") EXCEPT !.copy = new]
      <4>1. /\ job'.pc = "find" /\ job'.cur = job.cur /\ job'.acct = job.acct
            /\ job'.server = job.server /\ job'.copy = new /\ job.pc # "idle"
        BY <3>1, <2>1, Parts, GotoFields DEF Goto, PCs, MaybeServer
      <4>2. new.instanceID = None
        BY <2>1, Parts DEF MachineObject
      <4> QED
        BY <1>3, <3>1, <4>1, <4>2, Parts DEF ClearMissing, At, JobOK, TypeInv, ServerPCs, MaybeServer, MachineObject, MaybeServer
    <3>2. CASE job' = failed \/ job' = [failed EXCEPT !.fresh = FALSE]
      BY <1>3, <3>2, Parts DEF ClearMissing, At, JobOK, TypeInv, Goto, ServerPCs, Job, failed
    <3> QED
      BY <2>3, <3>1, <3>2
  <2> QED
    BY <2>3, <2>4 DEF TypeInv
<1>4. CASE AdoptStatus
  <2> DEFINE new == [obj[job.cur] EXCEPT !.instanceID = job.server, !.ready = job.copy.ready]
  <2>1. job.pc # "idle" /\ new \in MachineObject /\ Goto("adoptProvider") \in Job /\ Idle \in Job
    BY <1>4, Parts, ObjectType, JobType, IdleType DEF AdoptStatus, At, Goto, PCs
  <2>2. Write(new, Goto("adoptProvider"), Idle)
    BY <1>4 DEF AdoptStatus, WriteStatus, WriteProviderID
  <2>3. /\ TypeOK' /\ CacheOK'
        /\ \/ job.fresh /\ job' = [Goto("adoptProvider") EXCEPT !.copy = new]
           \/ job' = Idle
           \/ job' = [Idle EXCEPT !.fresh = FALSE]
    BY <2>1, <2>2, WriteType
  <2>4. JobOK'
    <3>1. CASE job.fresh /\ job' = [Goto("adoptProvider") EXCEPT !.copy = new]
      <4>1. /\ job'.pc = "adoptProvider" /\ job'.cur = job.cur /\ job'.acct = job.acct
            /\ job'.server = job.server /\ job'.copy = new /\ job.pc # "idle"
        BY <3>1, <2>1, Parts, GotoFields DEF Goto, PCs
      <4>2. new.instanceID = job.server
        BY <2>1, Parts DEF MachineObject
      <4> QED
        BY <1>4, <3>1, <4>1, <4>2, Parts DEF AdoptStatus, At, JobOK, TypeInv, ServerPCs, MaybeServer, MachineObject
    <3> QED
      BY <2>3, <3>1, ReturnOK
  <2> QED
    BY <2>3, <2>4 DEF TypeInv
<1>5. CASE AdoptProvider
  <2> DEFINE new == [obj[job.cur] EXCEPT !.providerID = job.server]
  <2>1. job.pc # "idle" /\ new \in MachineObject /\ Goto("existing") \in Job /\ Idle \in Job
    BY <1>5, Parts, ObjectType, JobType, IdleType DEF AdoptProvider, At, Goto, PCs
  <2>2. Write(new, Goto("existing"), Idle)
    BY <1>5 DEF AdoptProvider, WriteStatus, WriteProviderID
  <2>3. /\ TypeOK' /\ CacheOK'
        /\ \/ job.fresh /\ job' = [Goto("existing") EXCEPT !.copy = new]
           \/ job' = Idle
           \/ job' = [Idle EXCEPT !.fresh = FALSE]
    BY <2>1, <2>2, WriteType
  <2>4. JobOK'
    <3>1. CASE job.fresh /\ job' = [Goto("existing") EXCEPT !.copy = new]
      <4>1. /\ job'.pc = "existing" /\ job'.cur = job.cur /\ job'.acct = job.acct
            /\ job'.server = job.server /\ job'.copy = new /\ job.pc # "idle"
        BY <3>1, <2>1, Parts, GotoFields DEF Goto, PCs
      <4>2. new.instanceID = obj[job.cur].instanceID
        BY <2>1, Parts DEF MachineObject
      <4> QED
        BY <1>5, <3>1, <4>1, <4>2, Parts DEF AdoptProvider, At, JobOK, TypeInv, ServerPCs, MaybeServer, MachineObject
    <3> QED
      BY <2>3, <3>1, ReturnOK
  <2> QED
    BY <2>3, <2>4 DEF TypeInv
<1>6. CASE RecordStatus
  <2> DEFINE new == [obj[job.cur] EXCEPT !.instanceID = job.server, !.ready = job.copy.ready]
  <2>1. job.pc # "idle" /\ new \in MachineObject /\ Goto("recordProvider") \in Job /\ Idle \in Job
    BY <1>6, Parts, ObjectType, JobType, IdleType DEF RecordStatus, At, Goto, PCs
  <2>2. Write(new, Goto("recordProvider"), Idle)
    BY <1>6 DEF RecordStatus, WriteStatus, WriteProviderID
  <2>3. /\ TypeOK' /\ CacheOK'
        /\ \/ job.fresh /\ job' = [Goto("recordProvider") EXCEPT !.copy = new]
           \/ job' = Idle
           \/ job' = [Idle EXCEPT !.fresh = FALSE]
    BY <2>1, <2>2, WriteType
  <2>4. JobOK'
    <3>1. CASE job.fresh /\ job' = [Goto("recordProvider") EXCEPT !.copy = new]
      <4>1. /\ job'.pc = "recordProvider" /\ job'.cur = job.cur /\ job'.acct = job.acct
            /\ job'.server = job.server /\ job'.copy = new /\ job.pc # "idle"
        BY <3>1, <2>1, Parts, GotoFields DEF Goto, PCs
      <4>2. new.instanceID = job.server
        BY <2>1, Parts DEF MachineObject
      <4> QED
        BY <1>6, <3>1, <4>1, <4>2, Parts DEF RecordStatus, At, JobOK, TypeInv, ServerPCs, MaybeServer, MachineObject
    <3> QED
      BY <2>3, <3>1, ReturnOK
  <2> QED
    BY <2>3, <2>4 DEF TypeInv
<1>7. CASE RecordProvider
  <2> DEFINE new == [obj[job.cur] EXCEPT !.providerID = job.server]
  <2>1. job.pc # "idle" /\ new \in MachineObject /\ Goto("start") \in Job /\ Idle \in Job
    BY <1>7, Parts, ObjectType, JobType, IdleType DEF RecordProvider, At, Goto, PCs
  <2>2. Write(new, Goto("start"), Idle)
    BY <1>7 DEF RecordProvider, WriteStatus, WriteProviderID
  <2>3. /\ TypeOK' /\ CacheOK'
        /\ \/ job.fresh /\ job' = [Goto("start") EXCEPT !.copy = new]
           \/ job' = Idle
           \/ job' = [Idle EXCEPT !.fresh = FALSE]
    BY <2>1, <2>2, WriteType
  <2>4. JobOK'
    <3>1. CASE job.fresh /\ job' = [Goto("start") EXCEPT !.copy = new]
      <4>1. /\ job'.pc = "start" /\ job'.cur = job.cur /\ job'.acct = job.acct
            /\ job'.server = job.server /\ job'.copy = new /\ job.pc # "idle"
        BY <3>1, <2>1, Parts, GotoFields DEF Goto, PCs
      <4>2. new.instanceID = obj[job.cur].instanceID
        BY <2>1, Parts DEF MachineObject
      <4> QED
        BY <1>7, <3>1, <4>1, <4>2, Parts DEF RecordProvider, At, JobOK, TypeInv, ServerPCs, MaybeServer, MachineObject
    <3> QED
      BY <2>3, <3>1, ReturnOK
  <2> QED
    BY <2>3, <2>4 DEF TypeInv
<1>8. CASE UpdateReady
  <2> DEFINE new == [obj[job.cur] EXCEPT !.instanceID = job.copy.instanceID, !.ready = (job.seen = "running")]
  <2>1. job.pc # "idle" /\ new \in MachineObject /\ Idle \in Job /\ Idle \in Job
    BY <1>8, Parts, ObjectType, JobType, IdleType DEF UpdateReady, At, Goto, PCs
  <2>2. Write(new, Idle, Idle)
    BY <1>8 DEF UpdateReady, WriteStatus, WriteProviderID
  <2>3. /\ TypeOK' /\ CacheOK'
        /\ \/ job.fresh /\ job' = [Idle EXCEPT !.copy = new]
           \/ job' = Idle
           \/ job' = [Idle EXCEPT !.fresh = FALSE]
    BY <2>1, <2>2, WriteType
  <2>4. JobOK'
    BY <2>1, <2>3, ReturnOK
  <2> QED
    BY <2>3, <2>4 DEF TypeInv
<1>9. CASE RemoveFinalizer
  <2> DEFINE new == [obj[job.cur] EXCEPT !.finalizer = FALSE, !.exists = FALSE]
  <2>1. job.pc # "idle" /\ new \in MachineObject /\ Idle \in Job /\ Idle \in Job
    BY <1>9, Parts, ObjectType, JobType, IdleType DEF RemoveFinalizer, At, Goto, PCs
  <2>2. Write(new, Idle, Idle)
    BY <1>9 DEF RemoveFinalizer, WriteStatus, WriteProviderID
  <2>3. /\ TypeOK' /\ CacheOK'
        /\ \/ job.fresh /\ job' = [Idle EXCEPT !.copy = new]
           \/ job' = Idle
           \/ job' = [Idle EXCEPT !.fresh = FALSE]
    BY <2>1, <2>2, WriteType
  <2>4. JobOK'
    BY <2>1, <2>3, ReturnOK
  <2> QED
    BY <2>3, <2>4 DEF TypeInv
<1>10. CASE CheckServer
  <2>1. job.pc # "idle"
    BY <1>10 DEF CheckServer, At
  <2>2. job' \in Job /\ JobOK'
    <3>1. job' = Idle \/ job' = Goto("clearMissing") \/ job' = Goto("findDenied")
          \/ job' = [job EXCEPT !.pc = "existing", !.server = job.copy.instanceID,
                                !.seen = srv[job.copy.instanceID].state]
      BY <1>10 DEF CheckServer, Return
    <3>2. job.copy.instanceID \in ServerIds
      BY <1>10 DEF CheckServer, At, TypeInv, JobOK
    <3>3. job' \in Job
      BY <3>1, <3>2, Parts, IdleType, ZenonT(40) DEF Job, PCs, Goto, MaybeServer
    <3> QED
      BY <2>1, <3>1, <3>2, <3>3, Parts, ReturnOK DEF TypeInv, JobOK, ServerPCs, Goto, Job
  <2>3. /\ srv' \in [ServerIds -> Server] /\ listed' \subseteq ServerIds
        /\ abandoned' \subseteq ServerIds
        /\ UNCHANGED <<obj, cache, cacheFresh, user>>
        /\ faults' = faults \/ Spend("err")
    BY <1>10, Parts, TypeInv DEF TypeInv, TypeOK, CheckServer, GetServer, GetServerResult
  <2> QED
    BY <2>2, <2>3, <1>0, LocalType
<1>11. CASE FindAfterDenied
  <2>1. job.pc # "idle"
    BY <1>11 DEF FindAfterDenied, At
  <2>2. job' \in Job /\ JobOK'
    <3>1. job' = Idle \/ job' = Goto("clearDenied")
          \/ \E s \in ServerIds : job' = Adopt(s)
      BY <1>11, FoundIsServer DEF FindAfterDenied, Return
    <3>2. job' \in Job
      BY <3>1, Parts, IdleType DEF Job, PCs, Goto, Adopt, MaybeServer
    <3> QED
      BY <2>1, <3>1, <3>2, Parts, ReturnOK, ZenonT(40) DEF TypeInv, JobOK, ServerPCs, Goto, Adopt, Job
  <2>3. /\ srv' \in [ServerIds -> Server] /\ listed' \subseteq ServerIds
        /\ abandoned' \subseteq ServerIds
        /\ UNCHANGED <<obj, cache, cacheFresh, user>>
        /\ faults' = faults \/ Spend("err")
    BY <1>11, Parts, TypeInv DEF TypeInv, TypeOK, FindAfterDenied
  <2> QED
    BY <2>2, <2>3, <1>0, LocalType
<1>12. CASE FindServer
  <2>1. job.pc # "idle"
    BY <1>12 DEF FindServer, At
  <2>2. job' \in Job /\ JobOK'
    <3>1. job' = Idle \/ job' = Goto("create")
          \/ \E s \in ServerIds : job' = Adopt(s)
      BY <1>12, FoundIsServer DEF FindServer, Return
    <3>2. job' \in Job
      BY <3>1, Parts, IdleType DEF Job, PCs, Goto, Adopt, MaybeServer
    <3> QED
      BY <2>1, <3>1, <3>2, Parts, ReturnOK, ZenonT(40) DEF TypeInv, JobOK, ServerPCs, Goto, Adopt, Job
  <2>3. /\ srv' \in [ServerIds -> Server] /\ listed' \subseteq ServerIds
        /\ abandoned' \subseteq ServerIds
        /\ UNCHANGED <<obj, cache, cacheFresh, user>>
        /\ faults' = faults \/ Spend("err")
    BY <1>12, Parts, TypeInv DEF TypeInv, TypeOK, FindServer
  <2> QED
    BY <2>2, <2>3, <1>0, LocalType
<1>13. CASE CreateServer
  <2>1. job.pc # "idle"
    BY <1>13 DEF CreateServer, At
  <2>2. job' \in Job /\ JobOK'
    <3>1. job' = Idle \/ \E s \in ServerIds :
             job' = [job EXCEPT !.pc = "recordStatus", !.server = s, !.seen = "stopped"]
      BY <1>13 DEF CreateServer, Return
    <3>2. job' \in Job
      BY <3>1, Parts, IdleType DEF Job, PCs, MaybeServer, ServerStates, Alive
    <3> QED
      BY <2>1, <3>1, <3>2, Parts, ReturnOK DEF TypeInv, JobOK, ServerPCs, Job
  <2>3. /\ srv' \in [ServerIds -> Server] /\ listed' \subseteq ServerIds
        /\ abandoned' \subseteq ServerIds
        /\ UNCHANGED <<obj, cache, cacheFresh, user>>
        /\ faults' = faults \/ Spend("err")
    <3>1. job.cur \in Machines /\ job.acct \in Accounts
      BY <2>1 DEF TypeInv, JobOK
    <3>2. [state |-> "stopped", uid |-> job.cur, acct |-> job.acct] \in Server
      BY <3>1 DEF Server, ServerStates, Alive
    <3> QED
      BY <1>13, <3>2 DEF CreateServer, Created, TypeInv, TypeOK
  <2> QED
    BY <2>2, <2>3, <1>0, LocalType
<1>14. CASE StartServer
  <2>1. job.pc # "idle"
    BY <1>14 DEF StartServer, At
  <2>2. job' \in Job /\ JobOK'
    BY <1>14, IdleType, ReturnOK DEF StartServer, Return
  <2>3. /\ srv' \in [ServerIds -> Server] /\ listed' \subseteq ServerIds
        /\ abandoned' \subseteq ServerIds
        /\ UNCHANGED <<obj, cache, cacheFresh, user>>
        /\ faults' = faults \/ Spend("err")
    BY <1>14 DEF StartServer, TypeInv, TypeOK, Server, ServerStates, Alive
  <2> QED
    BY <2>2, <2>3, <1>0, LocalType
<1>15. CASE DeleteStop
  <2>1. job.pc # "idle"
    BY <1>15 DEF DeleteStop, At
  <2>2. job' \in Job /\ JobOK'
    <3>1. job' = Idle \/ job' = Goto("delPoll")
      BY <1>15 DEF DeleteStop, StopServer, Return
    <3>2. job' \in Job
      BY <3>1, Parts, JobType, IdleType DEF PCs, Goto
    <3> QED
      BY <1>15, <2>1, <3>1, <3>2, Parts, ReturnOK DEF DeleteStop, At, TypeInv, JobOK, ServerPCs, Goto, Job
  <2>3. /\ srv' \in [ServerIds -> Server] /\ listed' \subseteq ServerIds
        /\ abandoned' \subseteq ServerIds
        /\ UNCHANGED <<obj, cache, cacheFresh, user>>
        /\ faults' = faults \/ Spend("err")
    BY <1>15 DEF DeleteStop, StopServer, GetServer, TypeInv, TypeOK, Server, ServerStates, Alive
  <2> QED
    BY <2>2, <2>3, <1>0, LocalType
<1>16. CASE DeleteGet
  <2>1. job.pc # "idle"
    BY <1>16 DEF DeleteGet, At
  <2>2. job' \in Job /\ JobOK'
    <3>1. job' = Idle \/ job' = Goto("rmFinalizer")
          \/ \E l \in {"delStop", "delPoll"} :
                job' = [job EXCEPT !.pc = l, !.server = job.copy.instanceID]
      BY <1>16 DEF DeleteGet, Return
    <3>2. job.copy.instanceID \in ServerIds
      BY <1>16 DEF DeleteGet, At, TypeInv, JobOK
    <3>3. job' \in Job
      BY <3>1, <3>2, Parts, IdleType DEF Job, PCs, Goto, MaybeServer
    <3> QED
      BY <2>1, <3>1, <3>2, <3>3, Parts, ReturnOK DEF TypeInv, JobOK, ServerPCs, Goto, Job
  <2>3. /\ srv' \in [ServerIds -> Server] /\ listed' \subseteq ServerIds
        /\ abandoned' \subseteq ServerIds
        /\ UNCHANGED <<obj, cache, cacheFresh, user>>
        /\ faults' = faults \/ Spend("err")
    BY <1>16 DEF DeleteGet, At, GetServer, TypeInv, TypeOK, JobOK
  <2> QED
    BY <2>2, <2>3, <1>0, LocalType
<1>17. CASE DeletePoll
  <2>1. job.pc # "idle"
    BY <1>17 DEF DeletePoll, At, PollUntil
  <2>2. job' \in Job /\ JobOK'
    <3>1. job' = Idle \/ job' = Goto("rmFinalizer") \/ job' = Goto("delServer")
          \/ (job.poll + 1 < MaxPolls /\ job' = [job EXCEPT !.poll = job.poll + 1])
      <4>1. job.poll # MaxPolls - 1 => job.poll + 1 < MaxPolls
        BY Parts, ConstantsAssumption
      <4>2. job' = Idle \/ job' = Goto("rmFinalizer") \/ job' = Goto("delServer")
            \/ (job.poll # MaxPolls - 1 /\ job' = [job EXCEPT !.poll = job.poll + 1])
        BY <1>17 DEF DeletePoll, PollUntil, Return
      <4> QED
        BY <4>1, <4>2
    <3>2. job' \in Job
      <4>1. CASE job.poll + 1 < MaxPolls /\ job' = [job EXCEPT !.poll = job.poll + 1]
        BY <4>1, Parts, ConstantsAssumption DEF Job
      <4> QED
        BY <3>1, <4>1, Parts, JobType, IdleType, ZenonT(40) DEF PCs, Goto
    <3> QED
      BY <1>17, <2>1, <3>1, <3>2, Parts, ReturnOK DEF DeletePoll, PollUntil, At, TypeInv, JobOK, ServerPCs, Goto, Job
  <2>3. /\ srv' \in [ServerIds -> Server] /\ listed' \subseteq ServerIds
        /\ abandoned' \subseteq ServerIds
        /\ UNCHANGED <<obj, cache, cacheFresh, user>>
        /\ faults' = faults \/ Spend("err")
    BY <1>17, Parts, TypeInv DEF TypeInv, TypeOK, DeletePoll, PollUntil, GetServer
  <2> QED
    BY <2>2, <2>3, <1>0, LocalType
<1>18. CASE DeleteServer
  <2>1. job.pc # "idle"
    BY <1>18 DEF DeleteServer, At
  <2>2. job' \in Job /\ JobOK'
    <3>1. job' = Idle \/ job' = Goto("rmFinalizer") \/ job' = Goto("delCall")
      BY <1>18 DEF DeleteServer, StopServer, Return
    <3>2. job' \in Job
      BY <3>1, Parts, JobType, IdleType, ZenonT(40) DEF PCs, Goto
    <3> QED
      BY <1>18, <2>1, <3>1, <3>2, Parts, ReturnOK DEF DeleteServer, At, TypeInv, JobOK, ServerPCs, Goto, Job
  <2>3. /\ srv' \in [ServerIds -> Server] /\ listed' \subseteq ServerIds
        /\ abandoned' \subseteq ServerIds
        /\ UNCHANGED <<obj, cache, cacheFresh, user>>
        /\ faults' = faults \/ Spend("err")
    BY <1>18 DEF DeleteServer, StopServer, GetServer, TypeInv, TypeOK, Server, ServerStates, Alive
  <2> QED
    BY <2>2, <2>3, <1>0, LocalType
<1>19. CASE DeleteCall
  <2>1. job.pc # "idle"
    BY <1>19 DEF DeleteCall, At
  <2>2. job' \in Job /\ JobOK'
    <3>1. job' = Idle \/ job' = Goto("rmFinalizer")
      BY <1>19 DEF DeleteCall, DeleteFailed
    <3>2. job' \in Job
      BY <3>1, Parts, JobType, IdleType DEF PCs, Goto
    <3> QED
      BY <2>1, <3>1, <3>2, Parts, ReturnOK DEF TypeInv, JobOK, ServerPCs, Goto, Job
  <2>3. /\ srv' \in [ServerIds -> Server] /\ listed' \subseteq ServerIds
        /\ abandoned' \subseteq ServerIds
        /\ UNCHANGED <<obj, cache, cacheFresh, user>>
        /\ faults' = faults \/ Spend("err")
    BY <1>19, <2>1 DEF DeleteCall, At, JobOK, ServerPCs, TypeInv, TypeOK, Server, ServerStates, Alive
  <2> QED
    BY <2>2, <2>3, <1>0, LocalType
<1>20. CASE ExistingServer
  <2> DEFINE next == Goto(IF job.seen = "stopped" THEN "start" ELSE "ready")
             new  == [obj[job.cur] EXCEPT !.providerID = job.server]
  <2>1. job.pc = "existing" /\ job.server \in ServerIds
    BY <1>20 DEF ExistingServer, At, TypeInv, JobOK, ServerPCs
  <2>2. next \in Job /\ Idle \in Job /\ new \in MachineObject
    BY <2>1, Parts, ObjectType, JobType, IdleType DEF Goto, PCs
  <2>3. CASE Write(new, next, Idle)
    <3>1. /\ TypeOK' /\ CacheOK'
          /\ \/ job.fresh /\ job' = [next EXCEPT !.copy = new]
             \/ job' = Idle
             \/ job' = [Idle EXCEPT !.fresh = FALSE]
      BY <2>1, <2>2, <2>3, WriteType
    <3>2. JobOK'
      <4>1. CASE job' = [next EXCEPT !.copy = new]
        BY <2>1, <2>2, <4>1, Parts, GotoFields DEF Goto, PCs, JobOK, TypeInv, ServerPCs
      <4> QED
        BY <3>1, <4>1, ReturnOK
    <3> QED
      BY <3>1, <3>2 DEF TypeInv
  <2>4. CASE job' = next /\ UNCHANGED <<obj, cache, cacheFresh, srv, listed, user, abandoned, faults>>
    <3>1. JobOK'
      BY <2>1, <2>4, Parts DEF Goto, JobOK, TypeInv, ServerPCs, Job
    <3>2. TypeOK' /\ CacheOK'
      BY <2>2, <2>4 DEF TypeInv, TypeOK, CacheOK
    <3> QED
      BY <3>1, <3>2 DEF TypeInv
  <2> QED
    BY <1>20, <2>3, <2>4 DEF ExistingServer, WriteProviderID
<1> QED
  BY <1>1, <1>2, <1>3, <1>4, <1>5, <1>6, <1>7, <1>8, <1>9, <1>10, <1>11, <1>12, <1>13, <1>14, <1>15, <1>16, <1>17, <1>18, <1>19, <1>20 DEF Step

(* Every step of the surroundings keeps the type invariant. *)
LEMMA EnvType ==
  ASSUME TypeInv,
         \/ \E m \in Machines : CacheSync(m) \/ UserDelete(m) \/ Touch(m)
         \/ \E s \in ServerIds : CloudProgress(s) \/ ListPropagates(s) \/ ExternalChange(s)
         \/ ChangeUser
  PROVE  TypeInv'
<1>1. ASSUME NEW m \in Machines, CacheSync(m) PROVE TypeInv'
  BY <1>1, Parts DEF CacheSync, TypeInv, TypeOK, JobOK, CacheOK
<1>2. ASSUME NEW m \in Machines, NEW new \in MachineObject, OtherWrite(m, new),
             faults' \in [FaultKinds -> Nat]
      PROVE  TypeInv'
  <2>1. obj' \in [Machines -> MachineObject] /\ cacheFresh' \in [Machines -> BOOLEAN] /\ CacheOK'
    BY <1>2 DEF OtherWrite, TypeInv, TypeOK, CacheOK
  <2>2. job' \in Job
    BY <1>2, Parts, JobType DEF OtherWrite
  <2>3. JobOK'
    BY <1>2, Parts DEF OtherWrite, TypeInv, TypeOK, JobOK, Job
  <2> QED
    BY <1>2, <2>1, <2>2, <2>3 DEF OtherWrite, TypeInv, TypeOK
<1>3. ASSUME NEW m \in Machines, UserDelete(m) PROVE TypeInv'
  <2>1. [obj[m] EXCEPT !.deleting = TRUE, !.exists = obj[m].finalizer] \in MachineObject
    BY Parts DEF MachineObject
  <2> QED
    BY <1>2, <1>3, <2>1 DEF UserDelete, TypeInv, TypeOK
<1>4. ASSUME NEW m \in Machines, Touch(m) PROVE TypeInv'
  <2>1. faults' \in [FaultKinds -> Nat]
    BY <1>4, SpendType DEF Touch, FaultKinds
  <2> QED
    BY <1>2, <1>4, <2>1, Parts DEF Touch
<1>5. ASSUME NEW s \in ServerIds, CloudProgress(s) \/ ListPropagates(s) \/ ExternalChange(s)
      PROVE  TypeInv'
  <2>1. srv' \in [ServerIds -> Server]
    BY <1>5 DEF CloudProgress, ListPropagates, ExternalChange, TypeInv, TypeOK, Server, ServerStates, Alive
  <2>2. faults' \in [FaultKinds -> Nat]
    BY <1>5 DEF CloudProgress, ListPropagates, ExternalChange, TypeInv, TypeOK, Spend
  <2> QED
    BY <1>5, <2>1, <2>2
    DEF CloudProgress, ListPropagates, ExternalChange, TypeInv, TypeOK, JobOK, CacheOK
<1>6. ASSUME ChangeUser PROVE TypeInv'
  <2>1. faults' \in [FaultKinds -> Nat]
    BY <1>6, SpendType DEF ChangeUser, FaultKinds
  <2> QED
    BY <1>6, <2>1 DEF ChangeUser, TypeInv, TypeOK, JobOK, CacheOK
<1> QED
  BY <1>1, <1>3, <1>4, <1>5, <1>6

(* The type invariant is inductive. *)
LEMMA NextType == TypeInv /\ [Next]_vars => TypeInv'
<1> SUFFICES ASSUME TypeInv, [Next]_vars PROVE TypeInv'
  OBVIOUS
<1>1. CASE Step
  BY <1>1, StepType
<1>2. ASSUME NEW m \in Machines, Reconcile(m) PROVE TypeInv'
  <2>1. FirstStep(cache[m]) \in PCs /\ cache[m] \in MachineObject
    BY Parts DEF FirstStep, AfterFinalizer, PCs
  <2>2. job' \in Job
    BY <1>2, <2>1, IdleType DEF Reconcile, TypeInv, TypeOK, Job
  <2>3. /\ job'.pc = FirstStep(cache[m]) /\ job'.cur = m /\ job'.acct = user
        /\ job'.copy = cache[m] /\ job'.fresh = cacheFresh[m]
    BY <1>2 DEF Reconcile, Idle
  <2>4. JobOK'
    BY <1>2, <2>1, <2>3
    DEF Reconcile, FirstStep, AfterFinalizer, JobOK, ServerPCs, TypeInv, TypeOK, CacheOK, MachineObject, MaybeServer
  <2> QED
    BY <1>2, <2>2, <2>4 DEF Reconcile, TypeInv, TypeOK, CacheOK
<1>3. CASE Crash
  <2>1. faults' \in [FaultKinds -> Nat]
    BY <1>3, SpendType DEF Crash, FaultKinds
  <2> QED
    BY <1>3, <2>1, IdleType, ReturnOK DEF Crash, Return, TypeInv, TypeOK, CacheOK
<1>4. CASE UNCHANGED vars
  BY <1>4 DEF vars, TypeInv, TypeOK, JobOK, CacheOK
<1> QED
  BY <1>1, <1>2, <1>3, <1>4, EnvType DEF Next

(* Every reachable state is well typed; in particular reconcileDelete polls *)
(* at most MaxPolls times for the server to stop.                           *)
THEOREM TypeCorrect == Spec => []TypeOK
<1>1. TypeInv => TypeOK
  BY DEF TypeInv
<1> QED
  BY <1>1, InitType, NextType, PTL DEF Spec

(* The inductive form of TypeCorrect, with what each program counter of
   the worker promises (JobOK) and what a fresh cache holds (CacheOK). *)
THEOREM TypeInvariant == Spec => []TypeInv
  BY InitType, NextType, PTL DEF Spec
=============================================================================
