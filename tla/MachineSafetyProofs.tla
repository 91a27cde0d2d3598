------------------------ MODULE MachineSafetyProofs ------------------------
(* The safety properties of MachineController, for any number of machines,  *)
(* servers, accounts and faults, on top of its type invariant, and the      *)
(* refinement they add up to.                                               *)
EXTENDS MachineControllerProofs, MachineRefinement

-----------------------------------------------------------------------------
(* How servers evolve: all keep their owner and account and none comes back *)
(* to life, except that the worker at "create" adds one.                    *)

Keeps(s) ==
    /\ srv'[s].uid = srv[s].uid /\ srv'[s].acct = srv[s].acct
    /\ srv'[s].state = "unused" <=> srv[s].state = "unused"
    /\ srv'[s].state \in Alive => srv[s].state \in Alive

Adds(s) ==
    /\ job.pc = "create" /\ srv[s].state = "unused"
    /\ srv'[s] = [state |-> "stopped", uid |-> job.cur, acct |-> job.acct]
    /\ \A t \in ServerIds \ {s} : srv'[t] = srv[t]
    /\ ListLag \/ s \in listed'
    /\ job'.pc # "create"

(* Moving a live server from one state to another keeps its owner. *)
LEMMA SetState ==
  ASSUME TypeInv, NEW s, NEW st \in {"starting", "running", "stopping", "stopped", "gone"},
         s \in ServerIds, srv[s].state \in Alive,
         srv' = [srv EXCEPT ![s].state = st]
  PROVE  \A t \in ServerIds : Keeps(t)
  BY DEF Keeps, TypeInv, TypeOK, Server, Alive

(* Every step keeps each server's owner, account and place in the list, or
   adds one new server for the machine being reconciled. *)
LEMMA ServerEvolution ==
  ASSUME TypeInv, [Next]_vars
  PROVE  /\ \/ \A s \in ServerIds : Keeps(s)
            \/ \E s \in ServerIds : Adds(s)
         /\ listed \subseteq listed'
<1>1. CASE UNCHANGED srv /\ listed \subseteq listed'
  BY <1>1 DEF Keeps
<1>2. CASE CreateServer
  <2>1. job'.pc # "create"
    <3>1. job' = Idle \/ \E s \in ServerIds :
             job' = [job EXCEPT !.pc = "recordStatus", !.server = s, !.seen = "stopped"]
      BY <1>2 DEF CreateServer, Return
    <3>2. job \in Job
      BY Parts
    <3>3. ASSUME NEW s, job' = [job EXCEPT !.pc = "recordStatus", !.server = s, !.seen = "stopped"]
          PROVE  job'.pc = "recordStatus"
      BY <3>2, <3>3 DEF Job
    <3>4. Idle.pc = "idle"
      BY DEF Idle
    <3> QED
      BY <3>1, <3>3, <3>4
  <2> QED
    BY <1>1, <1>2, <2>1 DEF CreateServer, Created, Adds, At, TypeInv, TypeOK
<1>3. CASE StartServer \/ DeleteStop \/ DeleteServer \/ DeleteCall
  <2>1. job.server \in ServerIds /\ UNCHANGED listed
    BY <1>3 DEF TypeInv, JobOK, ServerPCs, StartServer, DeleteStop, DeleteServer, DeleteCall, At
  <2>2. UNCHANGED srv \/ \E st \in {"starting", "running", "stopping", "stopped", "gone"} :
          srv[job.server].state \in Alive /\ srv' = [srv EXCEPT ![job.server].state = st]
    BY <1>3 DEF StartServer, DeleteStop, DeleteServer, DeleteCall, StopServer, Alive
  <2> QED
    BY <1>1, <2>1, <2>2, SetState
<1>4. ASSUME NEW s \in ServerIds, CloudProgress(s) \/ ListPropagates(s) \/ ExternalChange(s)
      PROVE  (\A t \in ServerIds : Keeps(t)) /\ listed \subseteq listed'
  <2>1. listed \subseteq listed'
    BY <1>4 DEF CloudProgress, ListPropagates, ExternalChange
  <2>2. UNCHANGED srv \/ \E st \in {"starting", "running", "stopping", "stopped", "gone"} :
          srv[s].state \in Alive /\ srv' = [srv EXCEPT ![s].state = st]
    BY <1>4 DEF CloudProgress, ListPropagates, ExternalChange, Alive
  <2> QED
    BY <2>1, <2>2, SetState DEF Keeps
<1>5. CASE UNCHANGED <<srv, listed>>
  BY <1>1, <1>5
<1>6. Step => CreateServer \/ StartServer \/ DeleteStop \/ DeleteServer \/ DeleteCall
              \/ UNCHANGED <<srv, listed>>
  BY DEF Step, AddFinalizer, CheckServer, FindAfterDenied, ClearDenied, ClearMissing, FindServer,
         AdoptStatus, AdoptProvider, RecordStatus, RecordProvider, ExistingServer, UpdateReady,
         DeleteGet, DeletePoll, PollUntil, RemoveFinalizer, Write, WriteStatus, WriteProviderID
<1>7. \A m \in Machines : Reconcile(m) \/ CacheSync(m) \/ UserDelete(m) \/ Touch(m)
                          => UNCHANGED <<srv, listed>>
  BY DEF Reconcile, CacheSync, UserDelete, Touch, OtherWrite
<1>8. ChangeUser \/ Crash \/ UNCHANGED vars => UNCHANGED <<srv, listed>>
  BY DEF ChangeUser, Crash, vars
<1> QED
  BY <1>2, <1>3, <1>4, <1>5, <1>6, <1>7, <1>8 DEF Next

-----------------------------------------------------------------------------
(* No duplicates.  When the list is complete, the worker at "create" knows  *)
(* that its machine has no server in its account: the search just before    *)
(* found none, and nobody else creates servers.                             *)

ListComplete == AliveServers \subseteq listed

NothingToDuplicate == job.pc = "create" => ServersOf(job.cur, job.acct) = {}

DupInv == ListComplete /\ NothingToDuplicate /\ NoDuplicateServers

(* The worker comes to "create" from a search that found nothing. *)
LEMMA ReachCreate ==
  ASSUME TypeInv, [Next]_vars, job'.pc = "create"
  PROVE  /\ job'.cur = job.cur /\ job'.acct = job.acct
         /\ \/ job.pc = "create"
            \/ FindServerByNameOrMeta(job.cur) = {} /\ UNCHANGED srv
<1>0. job \in Job /\ Idle.pc # "create" /\ job.copy \in MachineObject
  BY Parts DEF Idle
<1>1. CASE FindServer
  <2>1. \/ job' = Goto("create") /\ FindServerByNameOrMeta(job.cur) = {} /\ UNCHANGED srv
        \/ job' = Idle
        \/ \E s : job' = Adopt(s)
    BY <1>1 DEF FindServer, Return
  <2> QED
    BY <1>0, <2>1 DEF Goto, Adopt, Job
<1>2. CASE AddFinalizer
  <2>1. \E o : \E l \in {"getServer", "find"} :
          \/ job' = [[job EXCEPT !.pc = l] EXCEPT !.copy = o]
          \/ job' = Idle
          \/ job' = [Idle EXCEPT !.fresh = FALSE]
    BY <1>2 DEF AddFinalizer, Write, Goto, AfterFinalizer
  <2> QED
    BY <1>0, <2>1 DEF Idle, Job
<1>3. CASE CheckServer
  BY <1>0, <1>3 DEF CheckServer, Goto, Return, Idle, Job
<1>4. CASE FindAfterDenied
  BY <1>0, <1>4 DEF FindAfterDenied, Goto, Adopt, Return, Idle, Job
<1>5. CASE ClearDenied \/ UpdateReady \/ RemoveFinalizer
  BY <1>0, <1>5 DEF ClearDenied, UpdateReady, RemoveFinalizer, WriteStatus, Write, Idle
<1>6. CASE ClearMissing
  BY <1>0, <1>6 DEF ClearMissing, WriteStatus, Write, Goto, Job
<1>7. CASE AdoptStatus \/ RecordStatus
  BY <1>0, <1>7 DEF AdoptStatus, RecordStatus, WriteStatus, Write, Goto, Idle, Job
<1>8. CASE AdoptProvider \/ RecordProvider
  BY <1>0, <1>8 DEF AdoptProvider, RecordProvider, WriteProviderID, Write, Goto, Idle, Job
<1>9. CASE CreateServer
  BY <1>0, <1>9 DEF CreateServer, Return, Idle, Job
<1>10. CASE ExistingServer
  BY <1>0, <1>10 DEF ExistingServer, WriteProviderID, Write, Goto, Idle, Job
<1>11. CASE StartServer
  BY <1>0, <1>11 DEF StartServer, Return
<1>12. CASE DeleteGet
  BY <1>0, <1>12 DEF DeleteGet, Goto, Return, Job
<1>13. CASE DeletePoll
  BY <1>0, <1>13 DEF DeletePoll, PollUntil, At, Goto, Return, Job
<1>14. CASE DeleteStop \/ DeleteServer
  BY <1>0, <1>14 DEF DeleteStop, DeleteServer, StopServer, Goto, Return, Job
<1>15. CASE DeleteCall
  BY <1>0, <1>15 DEF DeleteCall, DeleteFailed, Goto, Job
<1>16. ASSUME NEW m \in Machines, Reconcile(m) PROVE FALSE
  BY <1>0, <1>16 DEF Reconcile, FirstStep, AfterFinalizer, Idle
<1>17. ASSUME NEW m \in Machines, UserDelete(m) \/ Touch(m)
       PROVE  job.pc = "create" /\ job'.cur = job.cur /\ job'.acct = job.acct
  BY <1>0, <1>17 DEF UserDelete, Touch, OtherWrite, Job
<1>18. ASSUME NEW m \in Machines, CacheSync(m) PROVE job' = job
  BY <1>18 DEF CacheSync
<1>19. ASSUME NEW s \in ServerIds, CloudProgress(s) \/ ListPropagates(s) \/ ExternalChange(s)
       PROVE  job' = job
  BY <1>19 DEF CloudProgress, ListPropagates, ExternalChange
<1>20. CASE ChangeUser \/ UNCHANGED vars
  BY <1>20 DEF ChangeUser, vars
<1>21. CASE Crash
  BY <1>0, <1>21 DEF Crash, Return
<1> QED
  BY <1>1, <1>2, <1>3, <1>4, <1>5, <1>6, <1>7, <1>8, <1>9, <1>10, <1>11, <1>12, <1>13, <1>14,
     <1>15, <1>16, <1>17, <1>18, <1>19, <1>20, <1>21 DEF Next, Step

(* The invariant behind NoDuplicateServers is inductive. *)
LEMMA NextDup ==
  ASSUME ListLag = FALSE, TypeInv, DupInv, [Next]_vars
  PROVE  DupInv'
<1>1. CASE \A s \in ServerIds : Keeps(s)
  <2>1. AliveServers' \subseteq AliveServers
    BY <1>1 DEF Keeps, AliveServers
  <2>2. \A m, a : ServersOf(m, a)' \subseteq ServersOf(m, a)
    BY <1>1, <2>1 DEF Keeps, ServersOf, AliveServers
  <2>3. ListComplete'
    BY <2>1, ServerEvolution DEF DupInv, ListComplete
  <2>4. NoDuplicateServers'
    BY <2>2 DEF DupInv, NoDuplicateServers
  <2>5. NothingToDuplicate'
    <3> SUFFICES ASSUME job'.pc = "create", NEW s \in ServersOf(job.cur, job.acct)'
                 PROVE  FALSE
      BY DEF NothingToDuplicate
    <3>1. job'.cur = job.cur /\ job'.acct = job.acct
      BY ReachCreate
    <3>2. s \in ServersOf(job.cur, job.acct)
      BY <2>2, <3>1 DEF ServersOf
    <3>3. CASE job.pc = "create"
      BY <3>2, <3>3 DEF DupInv, NothingToDuplicate
    <3>4. CASE FindServerByNameOrMeta(job.cur) = {}
      BY <3>2, <3>4 DEF DupInv, ListComplete, FindServerByNameOrMeta, ServersOf
    <3> QED
      BY <3>3, <3>4, ReachCreate
  <2> QED
    BY <2>3, <2>4, <2>5 DEF DupInv
<1>2. ASSUME NEW s \in ServerIds, Adds(s) PROVE DupInv'
  <2>1. AliveServers' = AliveServers \cup {s} /\ s \notin AliveServers
    BY <1>2 DEF Adds, AliveServers, Alive
  <2>2. \A m, a : ServersOf(m, a)' = IF m = job.cur /\ a = job.acct THEN {s} ELSE ServersOf(m, a)
    BY <1>2, <2>1 DEF Adds, ServersOf, DupInv, NothingToDuplicate, AliveServers
  <2>3. ListComplete'
    BY <1>2, <2>1, ServerEvolution DEF DupInv, ListComplete, Adds
  <2>4. NoDuplicateServers'
    BY <2>2 DEF DupInv, NoDuplicateServers
  <2>5. job'.pc # "create"
    BY <1>2 DEF Adds
  <2> QED
    BY <2>3, <2>4, <2>5 DEF DupInv, NothingToDuplicate
<1> QED
  BY <1>1, <1>2, ServerEvolution

(* If the server list is complete, a machine never has two servers in one   *)
(* account.                                                                 *)
THEOREM NoDuplicates == ASSUME ListLag = FALSE PROVE Spec => []NoDuplicateServers
<1>1. Init => DupInv
  BY DEF Init, Idle, DupInv, ListComplete, NothingToDuplicate, NoDuplicateServers,
         ServersOf, AliveServers, Alive
<1>2. TypeInv /\ DupInv /\ [Next]_vars => DupInv'
  BY NextDup
<1>3. DupInv => NoDuplicateServers
  BY DEF DupInv
<1> QED
  BY <1>1, <1>2, <1>3, TypeInvariant, PTL DEF Spec

-----------------------------------------------------------------------------
(* The finalizer.  A cached or held version may be old, but it is never     *)
(* ahead of the stored object, and only a worker that saw the deletion      *)
(* timestamp removes the finalizer.                                         *)

DeletePCs == {"delGet", "delStop", "delPoll", "delServer", "delCall", "rmFinalizer"}

HeldPCs == PCs \ (DeletePCs \cup {"idle", "addFinalizer"})

ObjFin(m) == obj[m].finalizer => obj[m].exists

CacheFin(m) ==
    /\ cache[m].deleting => obj[m].deleting
    /\ cache[m].finalizer /\ ~cache[m].deleting => obj[m].finalizer

JobFin ==
    /\ job.pc # "idle" /\ job.fresh => obj[job.cur].exists
    /\ job.pc \in DeletePCs => cache[job.cur].deleting
    /\ job.pc \in HeldPCs => obj[job.cur].finalizer

FinInv ==
    /\ \A m \in Machines : ObjFin(m) /\ CacheFin(m)
    /\ JobFin
    /\ \A s \in AliveServers : srv[s].uid \in Machines
    /\ ServersHoldFinalizer

(* A step whose objects, cache and worker meet their part of the invariant  *)
(* meets the rest of it.                                                    *)
LEMMA HoldFinalizer ==
  ASSUME TypeInv, FinInv, [Next]_vars,
         \A m \in Machines : ObjFin(m)' /\ CacheFin(m)',
         \A m \in Machines : obj'[m].exists => obj[m].exists /\ (obj[m].finalizer => obj'[m].finalizer),
         JobFin'
  PROVE  FinInv'
<1>1. CASE \A s \in ServerIds : Keeps(s)
  BY <1>1 DEF FinInv, Keeps, AliveServers, ServersHoldFinalizer
<1>2. ASSUME NEW s \in ServerIds, Adds(s) PROVE FinInv'
  <2>1. job.cur \in Machines /\ obj[job.cur].finalizer
    BY <1>2 DEF Adds, TypeInv, JobOK, FinInv, JobFin, HeldPCs, DeletePCs, PCs
  <2>2. AliveServers' = AliveServers \cup {s} /\ srv'[s].uid = job.cur
    BY <1>2 DEF Adds, AliveServers, Alive
  <2>3. \A t \in AliveServers : t # s => srv'[t] = srv[t]
    BY <1>2 DEF Adds, AliveServers
  <2>4. s \notin AliveServers
    BY <1>2 DEF Adds, AliveServers, Alive
  <2> QED
    BY <2>1, <2>2, <2>3, <2>4 DEF FinInv, ServersHoldFinalizer
<1> QED
  BY <1>1, <1>2, ServerEvolution

(* A write that keeps the finalizer and the object. *)
LEMMA WriteFin ==
  ASSUME TypeInv, FinInv, [Next]_vars, job.pc # "idle",
         NEW new \in MachineObject, NEW ok \in Job, NEW fail \in Job, Write(new, ok, fail),
         new.exists = obj[job.cur].exists, new.deleting = obj[job.cur].deleting,
         obj[job.cur].finalizer => new.finalizer,
         ok.pc # "idle" => ok.pc \in HeldPCs /\ new.finalizer /\ ok.cur = job.cur,
         fail.pc # "idle" => /\ fail.pc \in HeldPCs /\ obj[job.cur].finalizer
                             /\ fail.cur = job.cur /\ fail.fresh = job.fresh
  PROVE  FinInv'
<1>1. job.cur \in Machines
  BY DEF TypeInv, JobOK
<1>2. cache' = cache
  BY DEF Write
<1>3. \A m \in Machines : \/ obj'[m] = obj[m]
                          \/ m = job.cur /\ obj'[m] = new /\ obj[m].exists
  BY <1>1 DEF Write, Stored, TypeInv, TypeOK, FinInv, JobFin
<1>4. \A m \in Machines : ObjFin(m)' /\ CacheFin(m)'
  BY <1>2, <1>3 DEF ObjFin, CacheFin, FinInv
<1>5. \A m \in Machines : obj'[m].exists => obj[m].exists /\ (obj[m].finalizer => obj'[m].finalizer)
  BY <1>3
<1>6. JobFin'
  <2>1. CASE job.fresh /\ obj' = [obj EXCEPT ![job.cur] = new] /\ job' = [ok EXCEPT !.copy = new]
    BY <1>1, <2>1 DEF FinInv, JobFin, HeldPCs, DeletePCs, TypeInv, TypeOK, Job
  <2>2. CASE obj' = obj /\ job' = fail
    BY <1>1, <2>2 DEF FinInv, JobFin, HeldPCs, DeletePCs
  <2>3. CASE job.fresh /\ obj' = [obj EXCEPT ![job.cur] = new] /\ job' = [fail EXCEPT !.fresh = FALSE]
    BY <1>1, <2>3 DEF FinInv, JobFin, HeldPCs, DeletePCs, TypeInv, TypeOK, Job
  <2> QED
    BY <2>1, <2>2, <2>3 DEF Write, Stored
<1> QED
  BY <1>4, <1>5, <1>6, HoldFinalizer

(* An action that leaves objects and cache alone, and keeps the worker on   *)
(* its side of Reconcile.                                                   *)
LEMMA LocalFin ==
  ASSUME TypeInv, FinInv, [Next]_vars, UNCHANGED <<obj, cache>>,
         job'.pc # "idle" =>
            /\ job.pc # "idle" /\ job'.cur = job.cur /\ job'.fresh = job.fresh
            /\ job'.pc \in DeletePCs => job.pc \in DeletePCs
            /\ job'.pc \in HeldPCs => job.pc \in HeldPCs
  PROVE  FinInv'
<1>1. JobFin'
  BY DEF FinInv, JobFin, DeletePCs, HeldPCs
<1>2. \A m \in Machines : ObjFin(m)' /\ CacheFin(m)'
  BY DEF FinInv, ObjFin, CacheFin
<1> QED
  BY <1>1, <1>2, HoldFinalizer

(* Goto moves the program counter only. *)
LEMMA GotoIs ==
  ASSUME job \in Job, NEW l \in PCs
  PROVE  /\ Goto(l) \in Job /\ Goto(l).pc = l /\ Goto(l).cur = job.cur /\ Goto(l).fresh = job.fresh
         /\ Goto(l).server = job.server /\ Goto(l).copy = job.copy /\ Goto(l).acct = job.acct
  BY DEF Goto, Job

(* Every step of the worker keeps the finalizer invariant. *)
LEMMA StepFin ==
  ASSUME TypeInv, FinInv, Step
  PROVE  FinInv'
<1>0. [Next]_vars /\ job \in Job /\ job.copy \in MachineObject /\ Idle \in Job /\ Idle.pc = "idle"
  BY Parts, IdleType DEF Next, Idle
<1>1. CASE AddFinalizer
  <2> DEFINE o == obj[job.cur]
             new == [o EXCEPT !.finalizer = TRUE]
  <2>0. /\ job.pc # "idle" /\ job.cur \in Machines /\ o \in MachineObject
    BY <1>1, Parts DEF AddFinalizer, At, FinInv, JobFin, HeldPCs, DeletePCs, PCs
  <2>3. Write(new, Goto(AfterFinalizer(job.copy)), Idle)
    BY <1>1 DEF AddFinalizer, WriteStatus, WriteProviderID
  <2> HIDE DEF o
  <2>1. /\ new \in MachineObject
        /\ new.exists = o.exists /\ new.deleting = o.deleting /\ new.finalizer
    BY <2>0 DEF MachineObject, MaybeServer
  <2>2. Goto(AfterFinalizer(job.copy)) \in Job /\ Goto(AfterFinalizer(job.copy)).pc \in HeldPCs /\ Goto(AfterFinalizer(job.copy)).cur = job.cur
    BY <1>0, GotoIs DEF PCs, HeldPCs, DeletePCs, AfterFinalizer
  <2> HIDE DEF new
  <2> QED
    BY <1>0, <2>0, <2>1, <2>2, <2>3, WriteFin DEF o
<1>2. CASE ClearDenied
  <2> DEFINE o == obj[job.cur]
             a == job.copy.ready
             new == [o EXCEPT !.instanceID = None, !.ready = a]
  <2>0. /\ job.pc # "idle" /\ job.cur \in Machines /\ o \in MachineObject /\ o.finalizer
    BY <1>2, Parts DEF ClearDenied, At, FinInv, JobFin, HeldPCs, DeletePCs, PCs
  <2>00. a \in BOOLEAN
    BY Parts
  <2>3. Write(new, Idle, Idle)
    BY <1>2 DEF ClearDenied, WriteStatus, WriteProviderID
  <2> HIDE DEF o, a
  <2>1. /\ new \in MachineObject
        /\ new.exists = o.exists /\ new.deleting = o.deleting /\ new.finalizer
    BY <2>0, <2>00 DEF MachineObject, MaybeServer
  <2> HIDE DEF new
  <2> QED
    BY <1>0, <2>0, <2>1, <2>3, WriteFin DEF o
<1>3. CASE AdoptStatus
  <2> DEFINE o == obj[job.cur]
             a == job.server
             b == job.copy.ready
             new == [o EXCEPT !.instanceID = a, !.ready = b]
  <2>0. /\ job.pc # "idle" /\ job.cur \in Machines /\ o \in MachineObject /\ o.finalizer
    BY <1>3, Parts DEF AdoptStatus, At, FinInv, JobFin, HeldPCs, DeletePCs, PCs
  <2>00. a \in MaybeServer /\ b \in BOOLEAN
    BY Parts
  <2>3. Write(new, Goto("adoptProvider"), Idle)
    BY <1>3 DEF AdoptStatus, WriteStatus, WriteProviderID
  <2> HIDE DEF o, a, b
  <2>1. /\ new \in MachineObject
        /\ new.exists = o.exists /\ new.deleting = o.deleting /\ new.finalizer
    BY <2>0, <2>00 DEF MachineObject, MaybeServer
  <2>2. Goto("adoptProvider") \in Job /\ Goto("adoptProvider").pc \in HeldPCs /\ Goto("adoptProvider").cur = job.cur
    BY <1>0, GotoIs DEF PCs, HeldPCs, DeletePCs
  <2> HIDE DEF new
  <2> QED
    BY <1>0, <2>0, <2>1, <2>2, <2>3, WriteFin DEF o
<1>4. CASE AdoptProvider
  <2> DEFINE o == obj[job.cur]
             a == job.server
             new == [o EXCEPT !.providerID = a]
  <2>0. /\ job.pc # "idle" /\ job.cur \in Machines /\ o \in MachineObject /\ o.finalizer
    BY <1>4, Parts DEF AdoptProvider, At, FinInv, JobFin, HeldPCs, DeletePCs, PCs
  <2>00. a \in MaybeServer
    BY Parts
  <2>3. Write(new, Goto("existing"), Idle)
    BY <1>4 DEF AdoptProvider, WriteStatus, WriteProviderID
  <2> HIDE DEF o, a
  <2>1. /\ new \in MachineObject
        /\ new.exists = o.exists /\ new.deleting = o.deleting /\ new.finalizer
    BY <2>0, <2>00 DEF MachineObject, MaybeServer
  <2>2. Goto("existing") \in Job /\ Goto("existing").pc \in HeldPCs /\ Goto("existing").cur = job.cur
    BY <1>0, GotoIs DEF PCs, HeldPCs, DeletePCs
  <2> HIDE DEF new
  <2> QED
    BY <1>0, <2>0, <2>1, <2>2, <2>3, WriteFin DEF o
<1>5. CASE RecordStatus
  <2> DEFINE o == obj[job.cur]
             a == job.server
             b == job.copy.ready
             new == [o EXCEPT !.instanceID = a, !.ready = b]
  <2>0. /\ job.pc # "idle" /\ job.cur \in Machines /\ o \in MachineObject /\ o.finalizer
    BY <1>5, Parts DEF RecordStatus, At, FinInv, JobFin, HeldPCs, DeletePCs, PCs
  <2>00. a \in MaybeServer /\ b \in BOOLEAN
    BY Parts
  <2>3. Write(new, Goto("recordProvider"), Idle)
    BY <1>5 DEF RecordStatus, WriteStatus, WriteProviderID
  <2> HIDE DEF o, a, b
  <2>1. /\ new \in MachineObject
        /\ new.exists = o.exists /\ new.deleting = o.deleting /\ new.finalizer
    BY <2>0, <2>00 DEF MachineObject, MaybeServer
  <2>2. Goto("recordProvider") \in Job /\ Goto("recordProvider").pc \in HeldPCs /\ Goto("recordProvider").cur = job.cur
    BY <1>0, GotoIs DEF PCs, HeldPCs, DeletePCs
  <2> HIDE DEF new
  <2> QED
    BY <1>0, <2>0, <2>1, <2>2, <2>3, WriteFin DEF o
<1>6. CASE RecordProvider
  <2> DEFINE o == obj[job.cur]
             a == job.server
             new == [o EXCEPT !.providerID = a]
  <2>0. /\ job.pc # "idle" /\ job.cur \in Machines /\ o \in MachineObject /\ o.finalizer
    BY <1>6, Parts DEF RecordProvider, At, FinInv, JobFin, HeldPCs, DeletePCs, PCs
  <2>00. a \in MaybeServer
    BY Parts
  <2>3. Write(new, Goto("start"), Idle)
    BY <1>6 DEF RecordProvider, WriteStatus, WriteProviderID
  <2> HIDE DEF o, a
  <2>1. /\ new \in MachineObject
        /\ new.exists = o.exists /\ new.deleting = o.deleting /\ new.finalizer
    BY <2>0, <2>00 DEF MachineObject, MaybeServer
  <2>2. Goto("start") \in Job /\ Goto("start").pc \in HeldPCs /\ Goto("start").cur = job.cur
    BY <1>0, GotoIs DEF PCs, HeldPCs, DeletePCs
  <2> HIDE DEF new
  <2> QED
    BY <1>0, <2>0, <2>1, <2>2, <2>3, WriteFin DEF o
<1>7. CASE UpdateReady
  <2> DEFINE o == obj[job.cur]
             a == job.copy.instanceID
             b == (job.seen = "running")
             new == [o EXCEPT !.instanceID = a, !.ready = b]
  <2>0. /\ job.pc # "idle" /\ job.cur \in Machines /\ o \in MachineObject /\ o.finalizer
    BY <1>7, Parts DEF UpdateReady, At, FinInv, JobFin, HeldPCs, DeletePCs, PCs
  <2>00. a \in MaybeServer /\ b \in BOOLEAN
    BY Parts
  <2>3. Write(new, Idle, Idle)
    BY <1>7 DEF UpdateReady, WriteStatus, WriteProviderID
  <2> HIDE DEF o, a, b
  <2>1. /\ new \in MachineObject
        /\ new.exists = o.exists /\ new.deleting = o.deleting /\ new.finalizer
    BY <2>0, <2>00 DEF MachineObject, MaybeServer
  <2> HIDE DEF new
  <2> QED
    BY <1>0, <2>0, <2>1, <2>3, WriteFin DEF o
<1>8. CASE ClearMissing
  <2> DEFINE o == obj[job.cur]
             a == job.copy.ready
             new == [o EXCEPT !.instanceID = None, !.ready = a]
             ok == Goto("find")
             failed == [ok EXCEPT !.copy.instanceID = None]
  <2>4. Write(new, ok, failed) /\ a \in BOOLEAN
    BY <1>8, Parts DEF ClearMissing, WriteStatus
  <2>0. /\ job.pc \in HeldPCs /\ job.pc # "idle" /\ job.cur \in Machines
        /\ o \in MachineObject /\ o.finalizer
    BY <1>8, Parts DEF ClearMissing, At, FinInv, JobFin, HeldPCs, DeletePCs, PCs
  <2> HIDE DEF o, a
  <2>1. /\ new \in MachineObject
        /\ new.exists = o.exists /\ new.deleting = o.deleting /\ new.finalizer
    BY <2>0, <2>4 DEF MachineObject, MaybeServer
  <2>2. ok \in Job /\ ok.pc \in HeldPCs /\ ok.cur = job.cur /\ ok.fresh = job.fresh
    BY <1>0, GotoIs DEF PCs, HeldPCs, DeletePCs
  <2> HIDE DEF ok
  <2>3. failed \in Job /\ failed.pc \in HeldPCs /\ failed.cur = job.cur /\ failed.fresh = job.fresh
    BY <2>2 DEF Job, MachineObject, MaybeServer
  <2> HIDE DEF failed, new
  <2> QED
    BY <1>0, <2>0, <2>1, <2>2, <2>3, <2>4, WriteFin DEF o
<1>9. CASE ExistingServer
  <2> DEFINE ok == Goto(IF job.seen = "stopped" THEN "start" ELSE "ready")
             o == obj[job.cur]
             a == job.server
             new == [o EXCEPT !.providerID = a]
  <2>5. Write(new, ok, Idle) \/ (UNCHANGED <<obj, cache>> /\ job' = ok)
    BY <1>9 DEF ExistingServer, WriteProviderID
  <2>6. a \in MaybeServer
    BY Parts
  <2>0. /\ job.pc \in HeldPCs /\ job.pc # "idle" /\ job.cur \in Machines
        /\ o \in MachineObject /\ o.finalizer
    BY <1>9, Parts DEF ExistingServer, At, FinInv, JobFin, HeldPCs, DeletePCs, PCs
  <2> HIDE DEF o, a
  <2>1. /\ new \in MachineObject
        /\ new.exists = o.exists /\ new.deleting = o.deleting /\ new.finalizer
    BY <2>0, <2>6 DEF MachineObject, MaybeServer
  <2>2. ok \in Job /\ ok.pc \in HeldPCs /\ ok.cur = job.cur /\ ok.fresh = job.fresh
    BY <1>0, GotoIs DEF PCs, HeldPCs, DeletePCs
  <2> HIDE DEF ok
  <2>3. CASE Write(new, ok, Idle)
    BY <1>0, <2>0, <2>1, <2>2, <2>3, WriteFin DEF o
  <2>4. CASE UNCHANGED <<obj, cache>> /\ job' = ok
    BY <1>0, <2>0, <2>1, <2>2, <2>4, LocalFin DEF HeldPCs
  <2> QED
    BY <2>3, <2>4, <2>5
<1>10. CASE RemoveFinalizer
  <2> DEFINE new == [obj[job.cur] EXCEPT !.finalizer = FALSE, !.exists = FALSE]
  <2>1. /\ job.pc # "idle" /\ job.cur \in Machines /\ cache[job.cur].deleting
        /\ ~new.finalizer /\ ~new.exists /\ new.deleting = obj[job.cur].deleting
    BY <1>10, Parts DEF RemoveFinalizer, At, FinInv, JobFin, DeletePCs, MachineObject
  <2>2. /\ cache' = cache
        /\ obj' = obj \/ obj' = [obj EXCEPT ![job.cur] = new]
        /\ \E o : job' \in {Idle, [Idle EXCEPT !.copy = o], [Idle EXCEPT !.fresh = FALSE]}
    BY <1>10 DEF RemoveFinalizer, Write, Stored
  <2>3. \A m \in Machines : obj'[m] = obj[m] \/ (m = job.cur /\ obj'[m] = new)
    BY <2>2 DEF TypeInv, TypeOK
  <2>4. \A m \in Machines : ObjFin(m)' /\ CacheFin(m)'
    BY <2>1, <2>2, <2>3 DEF ObjFin, CacheFin, FinInv
  <2>5. job'.pc = "idle"
    BY <2>2 DEF Idle
  <2> HIDE DEF new
  <2>6. \A m \in Machines : obj'[m].exists => obj[m].exists /\ (obj[m].finalizer => obj'[m].finalizer)
    BY <2>1, <2>3
  <2> QED
    BY <1>0, <2>4, <2>5, <2>6, HoldFinalizer DEF JobFin, HeldPCs, DeletePCs
<1>11. CASE CheckServer
  <2>1. UNCHANGED <<obj, cache>> /\ job.pc = "getServer"
    BY <1>11 DEF CheckServer, At
  <2>2. \/ job' = Idle
        \/ \E l \in {"clearMissing", "findDenied"} : job' = Goto(l)
        \/ \E s, st : job' = [job EXCEPT !.pc = "existing", !.server = s, !.seen = st]
    BY <1>11, ConstantsAssumption DEF CheckServer, Return
  <2>3. job'.pc # "idle" =>
            /\ job'.cur = job.cur /\ job'.fresh = job.fresh
            /\ job'.pc \in DeletePCs => job.pc \in DeletePCs
            /\ job'.pc \in HeldPCs => job.pc \in HeldPCs
    BY <1>0, <2>1, <2>2 DEF Goto, Adopt, Job, DeletePCs, HeldPCs, PCs
  <2> QED
    BY <1>0, <2>1, <2>3, LocalFin
<1>12. CASE FindAfterDenied
  <2>1. UNCHANGED <<obj, cache>> /\ job.pc = "findDenied"
    BY <1>12 DEF FindAfterDenied, At
  <2>2. job' = Idle \/ job' = Goto("clearDenied") \/ \E s : job' = Adopt(s)
    BY <1>12, ConstantsAssumption DEF FindAfterDenied, Return
  <2>3. job'.pc # "idle" =>
            /\ job'.cur = job.cur /\ job'.fresh = job.fresh
            /\ job'.pc \in DeletePCs => job.pc \in DeletePCs
            /\ job'.pc \in HeldPCs => job.pc \in HeldPCs
    BY <1>0, <2>1, <2>2 DEF Goto, Adopt, Job, DeletePCs, HeldPCs, PCs
  <2> QED
    BY <1>0, <2>1, <2>3, LocalFin
<1>13. CASE FindServer
  <2>1. UNCHANGED <<obj, cache>> /\ job.pc = "find"
    BY <1>13 DEF FindServer, At
  <2>2. job' = Idle \/ job' = Goto("create") \/ \E s : job' = Adopt(s)
    BY <1>13, ConstantsAssumption DEF FindServer, Return
  <2>3. job'.pc # "idle" =>
            /\ job'.cur = job.cur /\ job'.fresh = job.fresh
            /\ job'.pc \in DeletePCs => job.pc \in DeletePCs
            /\ job'.pc \in HeldPCs => job.pc \in HeldPCs
    BY <1>0, <2>1, <2>2 DEF Goto, Adopt, Job, DeletePCs, HeldPCs, PCs
  <2> QED
    BY <1>0, <2>1, <2>3, LocalFin
<1>14. CASE CreateServer
  <2>1. UNCHANGED <<obj, cache>> /\ job.pc = "create"
    BY <1>14 DEF CreateServer, At
  <2>2. \/ job' = Idle
        \/ \E s : job' = [job EXCEPT !.pc = "recordStatus", !.server = s, !.seen = "stopped"]
    BY <1>14, ConstantsAssumption DEF CreateServer, Return
  <2>3. job'.pc # "idle" =>
            /\ job'.cur = job.cur /\ job'.fresh = job.fresh
            /\ job'.pc \in DeletePCs => job.pc \in DeletePCs
            /\ job'.pc \in HeldPCs => job.pc \in HeldPCs
    BY <1>0, <2>1, <2>2 DEF Goto, Adopt, Job, DeletePCs, HeldPCs, PCs
  <2> QED
    BY <1>0, <2>1, <2>3, LocalFin
<1>15. CASE StartServer
  <2>1. UNCHANGED <<obj, cache>> /\ job.pc = "start"
    BY <1>15 DEF StartServer, At
  <2>2. job' = Idle
    BY <1>15, ConstantsAssumption DEF StartServer, Return
  <2>3. job'.pc # "idle" =>
            /\ job'.cur = job.cur /\ job'.fresh = job.fresh
            /\ job'.pc \in DeletePCs => job.pc \in DeletePCs
            /\ job'.pc \in HeldPCs => job.pc \in HeldPCs
    BY <1>0, <2>1, <2>2 DEF Goto, Adopt, Job, DeletePCs, HeldPCs, PCs
  <2> QED
    BY <1>0, <2>1, <2>3, LocalFin
<1>16. CASE DeleteGet
  <2>1. UNCHANGED <<obj, cache>> /\ job.pc = "delGet"
    BY <1>16 DEF DeleteGet, At
  <2>2. \/ job' = Idle
        \/ job' = Goto("rmFinalizer")
        \/ \E s : \E l \in {"delStop", "delPoll"} : job' = [job EXCEPT !.pc = l, !.server = s]
    BY <1>16, ConstantsAssumption DEF DeleteGet, Return
  <2>3. job'.pc # "idle" =>
            /\ job'.cur = job.cur /\ job'.fresh = job.fresh
            /\ job'.pc \in DeletePCs => job.pc \in DeletePCs
            /\ job'.pc \in HeldPCs => job.pc \in HeldPCs
    BY <1>0, <2>1, <2>2 DEF Goto, Adopt, Job, DeletePCs, HeldPCs, PCs
  <2> QED
    BY <1>0, <2>1, <2>3, LocalFin
<1>17. CASE DeleteStop
  <2>1. UNCHANGED <<obj, cache>> /\ job.pc = "delStop"
    BY <1>17 DEF DeleteStop, At
  <2>2. job' = Idle \/ job' = Goto("delPoll")
    BY <1>17, ConstantsAssumption DEF DeleteStop, Return, StopServer
  <2>3. job'.pc # "idle" =>
            /\ job'.cur = job.cur /\ job'.fresh = job.fresh
            /\ job'.pc \in DeletePCs => job.pc \in DeletePCs
            /\ job'.pc \in HeldPCs => job.pc \in HeldPCs
    BY <1>0, <2>1, <2>2 DEF Goto, Adopt, Job, DeletePCs, HeldPCs, PCs
  <2> QED
    BY <1>0, <2>1, <2>3, LocalFin
<1>18. CASE DeletePoll
  <2>1. UNCHANGED <<obj, cache>> /\ job.pc = "delPoll"
    BY <1>18 DEF DeletePoll, At, PollUntil
  <2>2. \/ job' = Idle
        \/ \E l \in {"rmFinalizer", "delServer"} : job' = Goto(l)
        \/ job' = [job EXCEPT !.poll = job.poll + 1]
    BY <1>18, ConstantsAssumption DEF DeletePoll, Return, PollUntil
  <2>3. job'.pc # "idle" =>
            /\ job'.cur = job.cur /\ job'.fresh = job.fresh
            /\ job'.pc \in DeletePCs => job.pc \in DeletePCs
            /\ job'.pc \in HeldPCs => job.pc \in HeldPCs
    BY <1>0, <2>1, <2>2 DEF Goto, Adopt, Job, DeletePCs, HeldPCs, PCs
  <2> QED
    BY <1>0, <2>1, <2>3, LocalFin
<1>19. CASE DeleteServer
  <2>1. UNCHANGED <<obj, cache>> /\ job.pc = "delServer"
    BY <1>19 DEF DeleteServer, At
  <2>2. job' = Idle \/ \E l \in {"rmFinalizer", "delCall"} : job' = Goto(l)
    BY <1>19, ConstantsAssumption DEF DeleteServer, Return, StopServer
  <2>3. job'.pc # "idle" =>
            /\ job'.cur = job.cur /\ job'.fresh = job.fresh
            /\ job'.pc \in DeletePCs => job.pc \in DeletePCs
            /\ job'.pc \in HeldPCs => job.pc \in HeldPCs
    BY <1>0, <2>1, <2>2 DEF Goto, Adopt, Job, DeletePCs, HeldPCs, PCs
  <2> QED
    BY <1>0, <2>1, <2>3, LocalFin
<1>20. CASE DeleteCall
  <2>1. UNCHANGED <<obj, cache>> /\ job.pc = "delCall"
    BY <1>20 DEF DeleteCall, At
  <2>2. job' = Idle \/ job' = Goto("rmFinalizer")
    BY <1>20, ConstantsAssumption DEF DeleteCall, Return, DeleteFailed
  <2>3. job'.pc # "idle" =>
            /\ job'.cur = job.cur /\ job'.fresh = job.fresh
            /\ job'.pc \in DeletePCs => job.pc \in DeletePCs
            /\ job'.pc \in HeldPCs => job.pc \in HeldPCs
    BY <1>0, <2>1, <2>2 DEF Goto, Adopt, Job, DeletePCs, HeldPCs, PCs
  <2> QED
    BY <1>0, <2>1, <2>3, LocalFin
<1> QED
  BY <1>1, <1>2, <1>3, <1>4, <1>5, <1>6, <1>7, <1>8, <1>9, <1>10, <1>11, <1>12, <1>13, <1>14, <1>15, <1>16, <1>17, <1>18, <1>19, <1>20 DEF Step

(* The finalizer invariant is inductive. *)
LEMMA NextFin == TypeInv /\ FinInv /\ [Next]_vars => FinInv'
<1> SUFFICES ASSUME TypeInv, FinInv, [Next]_vars PROVE FinInv'
  OBVIOUS
<1>0. job \in Job
  BY Parts
<1>1. CASE Step
  BY <1>1, StepFin
<1>2. ASSUME NEW m \in Machines, Reconcile(m) PROVE FinInv'
  <2>1. /\ job'.pc = FirstStep(cache[m]) /\ job'.cur = m /\ job'.fresh = cacheFresh[m]
        /\ UNCHANGED <<obj, cache>> /\ cache[m].exists
    BY <1>2 DEF Reconcile, Idle
  <2>2. JobFin'
    BY <2>1 DEF FinInv, JobFin, CacheFin, ObjFin, FirstStep, AfterFinalizer, HeldPCs, DeletePCs,
                TypeInv, CacheOK
  <2>3. \A n \in Machines : ObjFin(n)' /\ CacheFin(n)'
    BY <2>1 DEF FinInv, ObjFin, CacheFin
  <2> QED
    BY <2>1, <2>2, <2>3, HoldFinalizer
<1>3. ASSUME NEW m \in Machines, CacheSync(m) PROVE FinInv'
  <2>1. /\ UNCHANGED <<obj, job>> /\ cache'[m] = obj[m]
        /\ \A n \in Machines \ {m} : cache'[n] = cache[n]
    BY <1>3 DEF CacheSync, TypeInv, TypeOK
  <2>2. \A n \in Machines : ObjFin(n)' /\ CacheFin(n)'
    BY <2>1 DEF FinInv, ObjFin, CacheFin
  <2>3. JobFin'
    BY <2>1 DEF FinInv, JobFin, CacheFin, TypeInv, JobOK, DeletePCs
  <2> QED
    BY <2>1, <2>2, <2>3, HoldFinalizer
<1>4. ASSUME NEW m \in Machines, NEW new, OtherWrite(m, new),
             obj[m].deleting => new.deleting, new.finalizer = obj[m].finalizer,
             new.exists => obj[m].exists, new.finalizer => new.exists
      PROVE  FinInv'
  <2>1. /\ cache' = cache /\ obj'[m] = new /\ job'.pc = job.pc /\ job'.cur = job.cur
        /\ \A n \in Machines \ {m} : obj'[n] = obj[n]
        /\ job'.fresh => job.fresh /\ job.cur # m
    BY <1>0, <1>4 DEF OtherWrite, TypeInv, TypeOK, Job
  <2>2. \A n \in Machines : ObjFin(n)' /\ CacheFin(n)'
    BY <1>4, <2>1 DEF FinInv, ObjFin, CacheFin
  <2>3. JobFin'
    BY <1>4, <2>1 DEF FinInv, JobFin, TypeInv, JobOK, DeletePCs, HeldPCs
  <2>4. \A n \in Machines : obj'[n].exists => obj[n].exists /\ (obj[n].finalizer => obj'[n].finalizer)
    BY <1>4, <2>1
  <2> QED
    BY <2>2, <2>3, <2>4, HoldFinalizer
<1>5. ASSUME NEW m \in Machines, UserDelete(m) PROVE FinInv'
  <2> DEFINE o == obj[m]
             new == [o EXCEPT !.deleting = TRUE, !.exists = o.finalizer]
  <2>1. o \in MachineObject /\ OtherWrite(m, new) /\ (o.finalizer => o.exists)
    BY <1>5, Parts DEF UserDelete, FinInv, ObjFin
  <2>2. o.exists
    BY <1>5 DEF UserDelete, OtherWrite
  <2> HIDE DEF o
  <2>3. new.deleting /\ new.finalizer = o.finalizer /\ new.exists = o.finalizer
    BY <2>1 DEF MachineObject
  <2> HIDE DEF new
  <2> QED
    BY <1>4, <2>1, <2>2, <2>3 DEF o
<1>6. ASSUME NEW m \in Machines, Touch(m) PROVE FinInv'
  BY <1>4, <1>6 DEF Touch, FinInv, ObjFin
<1>7. ASSUME UNCHANGED <<obj, cache, job>> PROVE FinInv'
  BY <1>7, LocalFin
<1>8. CASE Crash
  <2>1. job'.pc = "idle" /\ obj' = obj /\ cache' = obj
    BY <1>8 DEF Crash, Return, Idle
  <2>2. \A n \in Machines : ObjFin(n)' /\ CacheFin(n)'
    BY <2>1 DEF FinInv, ObjFin, CacheFin
  <2>3. JobFin'
    BY <2>1 DEF JobFin, DeletePCs, HeldPCs
  <2> QED
    BY <2>1, <2>2, <2>3, HoldFinalizer
<1>9. ASSUME NEW s \in ServerIds, CloudProgress(s) \/ ListPropagates(s) \/ ExternalChange(s)
      PROVE  FinInv'
  BY <1>7, <1>9 DEF CloudProgress, ListPropagates, ExternalChange
<1>10. CASE ChangeUser \/ UNCHANGED vars
  BY <1>7, <1>10 DEF ChangeUser, vars
<1> QED
  BY <1>1, <1>2, <1>3, <1>5, <1>6, <1>8, <1>9, <1>10 DEF Next

(* The finalizer invariant holds initially. *)
LEMMA InitFin == Init => FinInv
  BY DEF Init, Idle, NewMachine, FinInv, ObjFin, CacheFin, JobFin, HeldPCs, DeletePCs,
         ServersHoldFinalizer, AliveServers, Alive

(* Every live server has a machine whose stored object still carries the    *)
(* finalizer, or none any more: no deletion slips past the controller while *)
(* a server exists, however stale its cache is.                             *)
THEOREM FinalizersHeld == Spec => []ServersHoldFinalizer
<1>1. FinInv => ServersHoldFinalizer
  BY DEF FinInv
<1> QED
  BY <1>1, InitFin, NextFin, TypeInvariant, PTL DEF Spec

-----------------------------------------------------------------------------
(* Ownership.  With unique names, every UUID the controller stores, caches  *)
(* or holds belongs to a server created for the machine at hand.            *)

NamesUnique == \A m, n \in Machines : NameOf[m] = NameOf[n] => m = n

Owned(m, id) == id # None => srv[id].uid = m /\ srv[id].state # "unused"

OwnsRecorded(m, o) == Owned(m, o.instanceID) /\ Owned(m, o.providerID)

JobOwn == job.pc # "idle" => OwnsRecorded(job.cur, job.copy) /\ Owned(job.cur, job.server)

OwnInv ==
    /\ \A s \in ServerIds : srv[s].state # "unused" => srv[s].uid \in Machines
    /\ \A m \in Machines : OwnsRecorded(m, obj[m]) /\ OwnsRecorded(m, cache[m])
    /\ JobOwn

(* Ownership is for ever. *)
LEMMA OwnedStays ==
  ASSUME TypeInv, [Next]_vars, NEW m, NEW id \in MaybeServer, Owned(m, id)
  PROVE  Owned(m, id)'
  BY ServerEvolution DEF Owned, MaybeServer, Keeps, Adds

(* A record that names own servers names own servers after any step. *)
LEMMA RecordStays ==
  ASSUME TypeInv, [Next]_vars, NEW m, NEW o \in MachineObject, OwnsRecorded(m, o)
  PROVE  OwnsRecorded(m, o)'
  BY OwnedStays DEF OwnsRecorded, MachineObject

(* Every server ever created names a machine as its owner, after any step. *)
LEMMA UsedStays ==
  ASSUME TypeInv, OwnInv, [Next]_vars
  PROVE  \A s \in ServerIds : srv'[s].state # "unused" => srv'[s].uid \in Machines
<1>1. CASE \A s \in ServerIds : Keeps(s)
  BY <1>1 DEF OwnInv, Keeps
<1>2. ASSUME NEW s \in ServerIds, Adds(s)
      PROVE  \A t \in ServerIds : srv'[t].state # "unused" => srv'[t].uid \in Machines
  BY <1>2 DEF OwnInv, Adds, TypeInv, JobOK
<1> QED
  BY <1>1, <1>2, ServerEvolution

(* The search finds servers of this machine only. *)
LEMMA FindsOwn ==
  ASSUME NamesUnique, TypeInv, OwnInv, job.cur \in Machines,
         NEW s \in FindServerByNameOrMeta(job.cur)
  PROVE  Owned(job.cur, s)
  BY DEF FindServerByNameOrMeta, NamesUnique, OwnInv, Owned, AliveServers, Alive

(* A write of an own server keeps the ownership invariant. *)
LEMMA WriteOwn ==
  ASSUME TypeInv, OwnInv, [Next]_vars, job.pc # "idle",
         NEW new \in MachineObject, NEW ok \in Job, NEW fail \in Job, Write(new, ok, fail),
         OwnsRecorded(job.cur, new),
         ok.pc # "idle" => ok.cur = job.cur /\ Owned(job.cur, ok.server),
         fail.pc # "idle" => /\ fail.cur = job.cur /\ Owned(job.cur, fail.server)
                             /\ OwnsRecorded(job.cur, fail.copy)
  PROVE  OwnInv'
<1>1. job.cur \in Machines /\ cache' = cache /\ srv' = srv
  BY DEF TypeInv, JobOK, Write
<1>2. \A m \in Machines : obj'[m] = obj[m] \/ (m = job.cur /\ obj'[m] = new)
  BY DEF Write, Stored, TypeInv, TypeOK
<1>3. \A m \in Machines : OwnsRecorded(m, obj'[m]) /\ OwnsRecorded(m, cache'[m])
  BY <1>1, <1>2 DEF OwnInv
<1>4. job'.pc # "idle" => OwnsRecorded(job'.cur, job'.copy) /\ Owned(job'.cur, job'.server)
  <2>1. CASE job' = [ok EXCEPT !.copy = new]
    BY <2>1 DEF Job
  <2>2. CASE job' = fail
    BY <2>2
  <2>3. CASE job' = [fail EXCEPT !.fresh = FALSE]
    BY <2>3 DEF Job
  <2> QED
    BY <2>1, <2>2, <2>3 DEF Write
<1> QED
  BY <1>1, <1>3, <1>4 DEF OwnInv, JobOwn, OwnsRecorded, Owned

(* An action that leaves the objects and the cache alone keeps the
   ownership invariant if the worker keeps its part. *)
LEMMA LocalOwn ==
  ASSUME TypeInv, OwnInv, [Next]_vars,
         \A m \in Machines : obj'[m] = obj[m] /\ cache'[m] \in {cache[m], obj[m]},
         job'.pc # "idle" =>
            /\ job.pc # "idle" /\ job'.cur = job.cur /\ job'.copy = job.copy
            /\ job'.server = job.server \/ Owned(job.cur, job.server)'
  PROVE  OwnInv'
<1>1. ASSUME NEW m \in Machines PROVE OwnsRecorded(m, obj[m])' /\ OwnsRecorded(m, cache[m])'
  <2>1. ASSUME NEW o \in MachineObject, OwnsRecorded(m, o) PROVE OwnsRecorded(m, o)'
    BY <2>1, RecordStays
  <2>2. OwnsRecorded(m, obj[m]) /\ OwnsRecorded(m, cache[m])
    BY DEF OwnInv
  <2>3. obj[m] \in MachineObject /\ cache[m] \in MachineObject
    BY Parts
  <2> QED
    BY <2>1, <2>2, <2>3 DEF OwnsRecorded, Owned
<1>2. JobOwn'
  <2> SUFFICES ASSUME job'.pc # "idle" PROVE OwnsRecorded(job.cur, job.copy)' /\ Owned(job.cur, job.server)'
    BY DEF JobOwn
  <2>1. OwnsRecorded(job.cur, job.copy) /\ Owned(job.cur, job.server)
    BY DEF OwnInv, JobOwn
  <2>2. OwnsRecorded(job.cur, job.copy)'
    <3>1. ASSUME NEW m, NEW o \in MachineObject, OwnsRecorded(m, o) PROVE OwnsRecorded(m, o)'
      BY <3>1, RecordStays
    <3>2. job.copy \in MachineObject
      BY Parts
    <3> QED
      BY <2>1, <3>1, <3>2 DEF OwnsRecorded, Owned
  <2>3. Owned(job.cur, job.server)'
    BY <2>1, OwnedStays, Parts DEF Owned
  <2> QED
    BY <2>2, <2>3
<1> QED
  BY <1>1, <1>2, UsedStays DEF OwnInv

(* Every step of the worker keeps the ownership invariant. *)
LEMMA StepOwn ==
  ASSUME NamesUnique, TypeInv, OwnInv, Step
  PROVE  OwnInv'
<1>0. /\ [Next]_vars /\ job \in Job /\ job.copy \in MachineObject /\ Idle \in Job
      /\ Idle.pc = "idle" /\ Idle.cur = None
  BY Parts, IdleType DEF Next, Idle
<1>1. CASE AddFinalizer
  <2> DEFINE o == obj[job.cur]
             a == TRUE
             new == [o EXCEPT !.finalizer = a]
             ok == Goto(AfterFinalizer(job.copy))
  <2>1. /\ job.pc # "idle" /\ o \in MachineObject /\ OwnsRecorded(job.cur, o)
        /\ a \in BOOLEAN
    BY <1>1, Parts DEF AddFinalizer, At, OwnInv, JobOwn, OwnsRecorded
  <2>2. Write(new, ok, Idle)
    BY <1>1 DEF AddFinalizer, WriteStatus, WriteProviderID
  <2> HIDE DEF o, a
  <2>3. new \in MachineObject /\ OwnsRecorded(job.cur, new)
    BY <2>1 DEF MachineObject, MaybeServer, OwnsRecorded
  <2>4. ok \in Job /\ (ok.pc # "idle" => ok.cur = job.cur /\ ok.server = job.server)
    BY <1>0, GotoIs DEF PCs, AfterFinalizer
  <2> HIDE DEF new, ok
  <2> QED
    BY <1>0, <2>1, <2>2, <2>3, <2>4, WriteOwn DEF OwnInv, JobOwn
<1>2. CASE ClearDenied
  <2> DEFINE o == obj[job.cur]
             b == job.copy.ready
             new == [o EXCEPT !.instanceID = None, !.ready = b]
             ok == Idle
  <2>1. /\ job.pc # "idle" /\ o \in MachineObject /\ OwnsRecorded(job.cur, o)
        /\ b \in BOOLEAN
    BY <1>2, Parts DEF ClearDenied, At, OwnInv, JobOwn, OwnsRecorded
  <2>2. Write(new, ok, Idle)
    BY <1>2 DEF ClearDenied, WriteStatus, WriteProviderID
  <2> HIDE DEF o, b
  <2>3. new \in MachineObject /\ OwnsRecorded(job.cur, new)
    BY <2>1 DEF MachineObject, MaybeServer, OwnsRecorded, Owned
  <2>4. ok \in Job /\ (ok.pc # "idle" => ok.cur = job.cur /\ ok.server = job.server)
    BY <1>0, GotoIs DEF PCs
  <2> HIDE DEF new, ok
  <2> QED
    BY <1>0, <2>1, <2>2, <2>3, <2>4, WriteOwn DEF OwnInv, JobOwn
<1>3. CASE AdoptStatus
  <2> DEFINE o == obj[job.cur]
             a == job.server
             b == job.copy.ready
             new == [o EXCEPT !.instanceID = a, !.ready = b]
             ok == Goto("adoptProvider")
  <2>1. /\ job.pc # "idle" /\ o \in MachineObject /\ OwnsRecorded(job.cur, o) /\ Owned(job.cur, a)
        /\ a \in MaybeServer /\ b \in BOOLEAN
    BY <1>3, Parts DEF AdoptStatus, At, OwnInv, JobOwn, OwnsRecorded
  <2>2. Write(new, ok, Idle)
    BY <1>3 DEF AdoptStatus, WriteStatus, WriteProviderID
  <2> HIDE DEF o, a, b
  <2>3. new \in MachineObject /\ OwnsRecorded(job.cur, new)
    BY <2>1 DEF MachineObject, MaybeServer, OwnsRecorded
  <2>4. ok \in Job /\ (ok.pc # "idle" => ok.cur = job.cur /\ ok.server = job.server)
    BY <1>0, GotoIs DEF PCs
  <2> HIDE DEF new, ok
  <2> QED
    BY <1>0, <2>1, <2>2, <2>3, <2>4, WriteOwn DEF OwnInv, JobOwn
<1>4. CASE AdoptProvider
  <2> DEFINE o == obj[job.cur]
             a == job.server
             new == [o EXCEPT !.providerID = a]
             ok == Goto("existing")
  <2>1. /\ job.pc # "idle" /\ o \in MachineObject /\ OwnsRecorded(job.cur, o) /\ Owned(job.cur, a)
        /\ a \in MaybeServer
    BY <1>4, Parts DEF AdoptProvider, At, OwnInv, JobOwn, OwnsRecorded
  <2>2. Write(new, ok, Idle)
    BY <1>4 DEF AdoptProvider, WriteStatus, WriteProviderID
  <2> HIDE DEF o, a
  <2>3. new \in MachineObject /\ OwnsRecorded(job.cur, new)
    BY <2>1 DEF MachineObject, MaybeServer, OwnsRecorded
  <2>4. ok \in Job /\ (ok.pc # "idle" => ok.cur = job.cur /\ ok.server = job.server)
    BY <1>0, GotoIs DEF PCs
  <2> HIDE DEF new, ok
  <2> QED
    BY <1>0, <2>1, <2>2, <2>3, <2>4, WriteOwn DEF OwnInv, JobOwn
<1>5. CASE RecordStatus
  <2> DEFINE o == obj[job.cur]
             a == job.server
             b == job.copy.ready
             new == [o EXCEPT !.instanceID = a, !.ready = b]
             ok == Goto("recordProvider")
  <2>1. /\ job.pc # "idle" /\ o \in MachineObject /\ OwnsRecorded(job.cur, o) /\ Owned(job.cur, a)
        /\ a \in MaybeServer /\ b \in BOOLEAN
    BY <1>5, Parts DEF RecordStatus, At, OwnInv, JobOwn, OwnsRecorded
  <2>2. Write(new, ok, Idle)
    BY <1>5 DEF RecordStatus, WriteStatus, WriteProviderID
  <2> HIDE DEF o, a, b
  <2>3. new \in MachineObject /\ OwnsRecorded(job.cur, new)
    BY <2>1 DEF MachineObject, MaybeServer, OwnsRecorded
  <2>4. ok \in Job /\ (ok.pc # "idle" => ok.cur = job.cur /\ ok.server = job.server)
    BY <1>0, GotoIs DEF PCs
  <2> HIDE DEF new, ok
  <2> QED
    BY <1>0, <2>1, <2>2, <2>3, <2>4, WriteOwn DEF OwnInv, JobOwn
<1>6. CASE RecordProvider
  <2> DEFINE o == obj[job.cur]
             a == job.server
             new == [o EXCEPT !.providerID = a]
             ok == Goto("start")
  <2>1. /\ job.pc # "idle" /\ o \in MachineObject /\ OwnsRecorded(job.cur, o) /\ Owned(job.cur, a)
        /\ a \in MaybeServer
    BY <1>6, Parts DEF RecordProvider, At, OwnInv, JobOwn, OwnsRecorded
  <2>2. Write(new, ok, Idle)
    BY <1>6 DEF RecordProvider, WriteStatus, WriteProviderID
  <2> HIDE DEF o, a
  <2>3. new \in MachineObject /\ OwnsRecorded(job.cur, new)
    BY <2>1 DEF MachineObject, MaybeServer, OwnsRecorded
  <2>4. ok \in Job /\ (ok.pc # "idle" => ok.cur = job.cur /\ ok.server = job.server)
    BY <1>0, GotoIs DEF PCs
  <2> HIDE DEF new, ok
  <2> QED
    BY <1>0, <2>1, <2>2, <2>3, <2>4, WriteOwn DEF OwnInv, JobOwn
<1>7. CASE UpdateReady
  <2> DEFINE o == obj[job.cur]
             a == job.copy.instanceID
             b == (job.seen = "running")
             new == [o EXCEPT !.instanceID = a, !.ready = b]
             ok == Idle
  <2>1. /\ job.pc # "idle" /\ o \in MachineObject /\ OwnsRecorded(job.cur, o) /\ Owned(job.cur, a)
        /\ a \in MaybeServer /\ b \in BOOLEAN
    BY <1>7, Parts DEF UpdateReady, At, OwnInv, JobOwn, OwnsRecorded
  <2>2. Write(new, ok, Idle)
    BY <1>7 DEF UpdateReady, WriteStatus, WriteProviderID
  <2> HIDE DEF o, a, b
  <2>3. new \in MachineObject /\ OwnsRecorded(job.cur, new)
    BY <2>1 DEF MachineObject, MaybeServer, OwnsRecorded
  <2>4. ok \in Job /\ (ok.pc # "idle" => ok.cur = job.cur /\ ok.server = job.server)
    BY <1>0, GotoIs DEF PCs
  <2> HIDE DEF new, ok
  <2> QED
    BY <1>0, <2>1, <2>2, <2>3, <2>4, WriteOwn DEF OwnInv, JobOwn
<1>8. CASE RemoveFinalizer
  <2> DEFINE o == obj[job.cur]
             a == FALSE
             b == FALSE
             new == [o EXCEPT !.finalizer = a, !.exists = b]
             ok == Idle
  <2>1. /\ job.pc # "idle" /\ o \in MachineObject /\ OwnsRecorded(job.cur, o)
        /\ a \in BOOLEAN /\ b \in BOOLEAN
    BY <1>8, Parts DEF RemoveFinalizer, At, OwnInv, JobOwn, OwnsRecorded
  <2>2. Write(new, ok, Idle)
    BY <1>8 DEF RemoveFinalizer, WriteStatus, WriteProviderID
  <2> HIDE DEF o, a, b
  <2>3. new \in MachineObject /\ OwnsRecorded(job.cur, new)
    BY <2>1 DEF MachineObject, MaybeServer, OwnsRecorded
  <2>4. ok \in Job /\ (ok.pc # "idle" => ok.cur = job.cur /\ ok.server = job.server)
    BY <1>0, GotoIs DEF PCs
  <2> HIDE DEF new, ok
  <2> QED
    BY <1>0, <2>1, <2>2, <2>3, <2>4, WriteOwn DEF OwnInv, JobOwn
<1>9. CASE ClearMissing
  <2> DEFINE o == obj[job.cur]
             b == job.copy.ready
             c == job.copy
             new == [o EXCEPT !.instanceID = None, !.ready = b]
             ok == Goto("find")
             failed == [ok EXCEPT !.copy.instanceID = None]
  <2>1. /\ job.pc # "idle" /\ o \in MachineObject /\ OwnsRecorded(job.cur, o)
        /\ b \in BOOLEAN /\ OwnsRecorded(job.cur, job.copy)
    BY <1>9, Parts DEF ClearMissing, At, OwnInv, JobOwn
  <2>2. Write(new, ok, failed)
    BY <1>9 DEF ClearMissing, WriteStatus
  <2> HIDE DEF o, b
  <2>3. new \in MachineObject /\ OwnsRecorded(job.cur, new)
    BY <2>1 DEF MachineObject, MaybeServer, OwnsRecorded, Owned
  <2>4. ok \in Job /\ ok.cur = job.cur /\ ok.server = job.server /\ ok.copy = job.copy
    BY <1>0, GotoIs DEF PCs
  <2> HIDE DEF new, ok
  <2>5. /\ failed \in Job /\ failed.cur = job.cur /\ failed.server = job.server
        /\ failed.copy.instanceID = None /\ failed.copy.providerID = job.copy.providerID
    BY <2>4 DEF Job, MachineObject, MaybeServer
  <2> HIDE DEF failed
  <2>6. OwnsRecorded(job.cur, failed.copy)
    BY <2>1, <2>5 DEF OwnsRecorded, Owned
  <2> QED
    BY <1>0, <2>1, <2>2, <2>3, <2>4, <2>5, <2>6, WriteOwn DEF OwnInv, JobOwn
<1>10. CASE ExistingServer
  <2> DEFINE o == obj[job.cur]
             a == job.server
             new == [o EXCEPT !.providerID = a]
             ok == Goto(IF job.seen = "stopped" THEN "start" ELSE "ready")
  <2>1. /\ job.pc # "idle" /\ o \in MachineObject /\ OwnsRecorded(job.cur, o)
        /\ Owned(job.cur, a) /\ a \in MaybeServer
    BY <1>10, Parts DEF ExistingServer, At, OwnInv, JobOwn
  <2>2. Write(new, ok, Idle) \/ (UNCHANGED <<obj, cache>> /\ job' = ok)
    BY <1>10 DEF ExistingServer, WriteProviderID
  <2> HIDE DEF o, a
  <2>3. new \in MachineObject /\ OwnsRecorded(job.cur, new)
    BY <2>1 DEF MachineObject, MaybeServer, OwnsRecorded
  <2>4. ok \in Job /\ ok.cur = job.cur /\ ok.server = job.server /\ ok.copy = job.copy
    BY <1>0, GotoIs DEF PCs
  <2> HIDE DEF new, ok
  <2>5. CASE Write(new, ok, Idle)
    BY <1>0, <2>1, <2>3, <2>4, <2>5, WriteOwn DEF OwnInv, JobOwn
  <2>6. CASE UNCHANGED <<obj, cache>> /\ job' = ok
    BY <1>0, <2>1, <2>4, <2>6, LocalOwn
  <2> QED
    BY <2>2, <2>5, <2>6
<1>11. CASE CheckServer
  <2>1. UNCHANGED <<obj, cache>> /\ job.pc = "getServer"
    BY <1>11 DEF CheckServer, At
  <2>2. \/ job' = Idle
        \/ \E l \in {"clearMissing", "findDenied"} : job' = Goto(l)
        \/ \E st : job' = [job EXCEPT !.pc = "existing", !.server = job.copy.instanceID, !.seen = st]
    BY <1>11, ConstantsAssumption DEF CheckServer, Return
  <2>3. job'.pc # "idle" => /\ job'.cur = job.cur /\ job'.copy = job.copy
                            /\ job'.server \in {job.server, job.copy.instanceID}
    BY <1>0, <2>1, <2>2 DEF Goto, Job
  <2>4. job'.pc # "idle" => Owned(job.cur, job'.server) /\ job'.server \in MaybeServer
    BY <2>1, <2>3, Parts DEF OwnInv, JobOwn, OwnsRecorded
  <2>5. job'.pc # "idle" => Owned(job.cur, job.server)'
    BY <1>0, <2>3, <2>4, OwnedStays DEF Owned
  <2> QED
    BY <1>0, <2>1, <2>3, <2>5, LocalOwn
<1>12. CASE StartServer
  <2>1. UNCHANGED <<obj, cache>> /\ job.pc = "start"
    BY <1>12 DEF StartServer, At
  <2>2. job' = Idle
    BY <1>12, ConstantsAssumption DEF StartServer, Return
  <2>3. job'.pc # "idle" => /\ job'.cur = job.cur /\ job'.copy = job.copy
                            /\ job'.server \in {job.server, job.copy.instanceID}
    BY <1>0, <2>1, <2>2 DEF Goto, Job
  <2>4. job'.pc # "idle" => Owned(job.cur, job'.server) /\ job'.server \in MaybeServer
    BY <2>1, <2>3, Parts DEF OwnInv, JobOwn, OwnsRecorded
  <2>5. job'.pc # "idle" => Owned(job.cur, job.server)'
    BY <1>0, <2>3, <2>4, OwnedStays DEF Owned
  <2> QED
    BY <1>0, <2>1, <2>3, <2>5, LocalOwn
<1>13. CASE DeleteGet
  <2>1. UNCHANGED <<obj, cache>> /\ job.pc = "delGet"
    BY <1>13 DEF DeleteGet, At
  <2>2. \/ job' = Idle
        \/ job' = Goto("rmFinalizer")
        \/ \E l \in {"delStop", "delPoll"} : job' = [job EXCEPT !.pc = l, !.server = job.copy.instanceID]
    BY <1>13, ConstantsAssumption DEF DeleteGet, Return
  <2>3. job'.pc # "idle" => /\ job'.cur = job.cur /\ job'.copy = job.copy
                            /\ job'.server \in {job.server, job.copy.instanceID}
    BY <1>0, <2>1, <2>2 DEF Goto, Job
  <2>4. job'.pc # "idle" => Owned(job.cur, job'.server) /\ job'.server \in MaybeServer
    BY <2>1, <2>3, Parts DEF OwnInv, JobOwn, OwnsRecorded
  <2>5. job'.pc # "idle" => Owned(job.cur, job.server)'
    BY <1>0, <2>3, <2>4, OwnedStays DEF Owned
  <2> QED
    BY <1>0, <2>1, <2>3, <2>5, LocalOwn
<1>14. CASE DeleteStop
  <2>1. UNCHANGED <<obj, cache>> /\ job.pc = "delStop"
    BY <1>14 DEF DeleteStop, At
  <2>2. job' = Idle \/ job' = Goto("delPoll")
    BY <1>14, ConstantsAssumption DEF DeleteStop, Return, StopServer
  <2>3. job'.pc # "idle" => /\ job'.cur = job.cur /\ job'.copy = job.copy
                            /\ job'.server \in {job.server, job.copy.instanceID}
    BY <1>0, <2>1, <2>2 DEF Goto, Job
  <2>4. job'.pc # "idle" => Owned(job.cur, job'.server) /\ job'.server \in MaybeServer
    BY <2>1, <2>3, Parts DEF OwnInv, JobOwn, OwnsRecorded
  <2>5. job'.pc # "idle" => Owned(job.cur, job.server)'
    BY <1>0, <2>3, <2>4, OwnedStays DEF Owned
  <2> QED
    BY <1>0, <2>1, <2>3, <2>5, LocalOwn
<1>15. CASE DeletePoll
  <2>1. UNCHANGED <<obj, cache>> /\ job.pc = "delPoll"
    BY <1>15 DEF DeletePoll, At, PollUntil
  <2>2. \/ job' = Idle
        \/ \E l \in {"rmFinalizer", "delServer"} : job' = Goto(l)
        \/ job' = [job EXCEPT !.poll = job.poll + 1]
    BY <1>15, ConstantsAssumption DEF DeletePoll, Return, PollUntil
  <2>3. job'.pc # "idle" => /\ job'.cur = job.cur /\ job'.copy = job.copy
                            /\ job'.server \in {job.server, job.copy.instanceID}
    BY <1>0, <2>1, <2>2 DEF Goto, Job
  <2>4. job'.pc # "idle" => Owned(job.cur, job'.server) /\ job'.server \in MaybeServer
    BY <2>1, <2>3, Parts DEF OwnInv, JobOwn, OwnsRecorded
  <2>5. job'.pc # "idle" => Owned(job.cur, job.server)'
    BY <1>0, <2>3, <2>4, OwnedStays DEF Owned
  <2> QED
    BY <1>0, <2>1, <2>3, <2>5, LocalOwn
<1>16. CASE DeleteServer
  <2>1. UNCHANGED <<obj, cache>> /\ job.pc = "delServer"
    BY <1>16 DEF DeleteServer, At
  <2>2. job' = Idle \/ \E l \in {"rmFinalizer", "delCall"} : job' = Goto(l)
    BY <1>16, ConstantsAssumption DEF DeleteServer, Return, StopServer
  <2>3. job'.pc # "idle" => /\ job'.cur = job.cur /\ job'.copy = job.copy
                            /\ job'.server \in {job.server, job.copy.instanceID}
    BY <1>0, <2>1, <2>2 DEF Goto, Job
  <2>4. job'.pc # "idle" => Owned(job.cur, job'.server) /\ job'.server \in MaybeServer
    BY <2>1, <2>3, Parts DEF OwnInv, JobOwn, OwnsRecorded
  <2>5. job'.pc # "idle" => Owned(job.cur, job.server)'
    BY <1>0, <2>3, <2>4, OwnedStays DEF Owned
  <2> QED
    BY <1>0, <2>1, <2>3, <2>5, LocalOwn
<1>17. CASE DeleteCall
  <2>1. UNCHANGED <<obj, cache>> /\ job.pc = "delCall"
    BY <1>17 DEF DeleteCall, At
  <2>2. job' = Idle \/ job' = Goto("rmFinalizer")
    BY <1>17, ConstantsAssumption DEF DeleteCall, Return, DeleteFailed
  <2>3. job'.pc # "idle" => /\ job'.cur = job.cur /\ job'.copy = job.copy
                            /\ job'.server \in {job.server, job.copy.instanceID}
    BY <1>0, <2>1, <2>2 DEF Goto, Job
  <2>4. job'.pc # "idle" => Owned(job.cur, job'.server) /\ job'.server \in MaybeServer
    BY <2>1, <2>3, Parts DEF OwnInv, JobOwn, OwnsRecorded
  <2>5. job'.pc # "idle" => Owned(job.cur, job.server)'
    BY <1>0, <2>3, <2>4, OwnedStays DEF Owned
  <2> QED
    BY <1>0, <2>1, <2>3, <2>5, LocalOwn
<1>18. CASE FindServer
  <2>1. UNCHANGED <<obj, cache, srv>> /\ job.pc = "find" /\ job.cur \in Machines
    BY <1>18 DEF FindServer, At, TypeInv, JobOK
  <2>2. \/ job' = Idle
        \/ job' = Goto("create")
        \/ \E s \in FindServerByNameOrMeta(job.cur) : job' = Adopt(s)
    BY <1>18 DEF FindServer, Return
  <2>3. job'.pc # "idle" => /\ job'.cur = job.cur /\ job'.copy = job.copy
                            /\ job'.server = job.server \/ job'.server \in FindServerByNameOrMeta(job.cur)
    BY <1>0, <2>2 DEF Goto, Adopt, Job
  <2>4. job'.pc # "idle" => Owned(job.cur, job'.server)
    BY <2>1, <2>3, FindsOwn DEF OwnInv, JobOwn
  <2>5. job'.pc # "idle" => Owned(job.cur, job.server)'
    BY <2>1, <2>3, <2>4 DEF Owned
  <2> QED
    BY <1>0, <2>1, <2>3, <2>5, LocalOwn
<1>19. CASE FindAfterDenied
  <2>1. UNCHANGED <<obj, cache, srv>> /\ job.pc = "findDenied" /\ job.cur \in Machines
    BY <1>19 DEF FindAfterDenied, At, TypeInv, JobOK
  <2>2. \/ job' = Idle
        \/ job' = Goto("clearDenied")
        \/ \E s \in FindServerByNameOrMeta(job.cur) : job' = Adopt(s)
    BY <1>19 DEF FindAfterDenied, Return
  <2>3. job'.pc # "idle" => /\ job'.cur = job.cur /\ job'.copy = job.copy
                            /\ job'.server = job.server \/ job'.server \in FindServerByNameOrMeta(job.cur)
    BY <1>0, <2>2 DEF Goto, Adopt, Job
  <2>4. job'.pc # "idle" => Owned(job.cur, job'.server)
    BY <2>1, <2>3, FindsOwn DEF OwnInv, JobOwn
  <2>5. job'.pc # "idle" => Owned(job.cur, job.server)'
    BY <2>1, <2>3, <2>4 DEF Owned
  <2> QED
    BY <1>0, <2>1, <2>3, <2>5, LocalOwn
<1>20. CASE CreateServer
  <2>1. UNCHANGED <<obj, cache>> /\ job.pc = "create"
    BY <1>20 DEF CreateServer, At
  <2>2. \/ job' = Idle
        \/ \E s \in ServerIds :
              /\ job' = [job EXCEPT !.pc = "recordStatus", !.server = s, !.seen = "stopped"]
              /\ srv' = [srv EXCEPT ![s] = [state |-> "stopped", uid |-> job.cur, acct |-> job.acct]]
    BY <1>20 DEF CreateServer, Created, Return
  <2>3. ASSUME NEW s \in ServerIds,
               job' = [job EXCEPT !.pc = "recordStatus", !.server = s, !.seen = "stopped"],
               srv' = [srv EXCEPT ![s] = [state |-> "stopped", uid |-> job.cur, acct |-> job.acct]]
        PROVE  job'.cur = job.cur /\ job'.copy = job.copy /\ Owned(job.cur, job.server)'
    <3>1. job'.cur = job.cur /\ job'.copy = job.copy /\ job'.server = s
      BY <1>0, <2>3 DEF Job
    <3>2. srv'[s] = [state |-> "stopped", uid |-> job.cur, acct |-> job.acct]
      BY <2>3 DEF TypeInv, TypeOK
    <3> QED
      BY <3>1, <3>2 DEF Owned
  <2> QED
    BY <1>0, <2>1, <2>2, <2>3, LocalOwn
<1> QED
  BY <1>1, <1>2, <1>3, <1>4, <1>5, <1>6, <1>7, <1>8, <1>9, <1>10, <1>11, <1>12, <1>13, <1>14, <1>15, <1>16, <1>17, <1>18, <1>19, <1>20 DEF Step

(* The ownership invariant is inductive. *)
LEMMA NextOwn ==
  ASSUME NamesUnique, TypeInv, OwnInv, [Next]_vars
  PROVE  OwnInv'
<1>0. job \in Job
  BY Parts
<1>1. CASE Step
  BY <1>1, StepOwn
<1>2. ASSUME NEW m \in Machines, Reconcile(m) PROVE OwnInv'
  <2>1. /\ UNCHANGED <<obj, cache, srv>>
        /\ job'.cur = m /\ job'.copy = cache[m] /\ job'.server = None
    BY <1>2 DEF Reconcile, Idle
  <2> QED
    BY <2>1 DEF OwnInv, JobOwn, OwnsRecorded, Owned
<1>3. ASSUME NEW m \in Machines, CacheSync(m) PROVE OwnInv'
  <2>1. /\ \A n \in Machines : obj'[n] = obj[n] /\ cache'[n] \in {cache[n], obj[n]}
        /\ job' = job
    BY <1>3 DEF CacheSync, TypeInv, TypeOK
  <2> QED
    BY <2>1, LocalOwn
<1>4. ASSUME NEW m \in Machines, NEW new, OtherWrite(m, new),
             new.instanceID = obj[m].instanceID, new.providerID = obj[m].providerID
      PROVE  OwnInv'
  <2>1. /\ UNCHANGED <<cache, srv>> /\ obj'[m] = new
        /\ \A n \in Machines \ {m} : obj'[n] = obj[n]
        /\ job'.pc = job.pc /\ job'.cur = job.cur /\ job'.copy = job.copy /\ job'.server = job.server
    BY <1>0, <1>4 DEF OtherWrite, TypeInv, TypeOK, Job
  <2> QED
    BY <1>4, <2>1 DEF OwnInv, JobOwn, OwnsRecorded, Owned
<1>5. ASSUME NEW m \in Machines, UserDelete(m) PROVE OwnInv'
  <2> DEFINE o == obj[m]
             new == [o EXCEPT !.deleting = TRUE, !.exists = o.finalizer]
  <2>1. o \in MachineObject /\ OtherWrite(m, new)
    BY <1>5, Parts DEF UserDelete
  <2> HIDE DEF o
  <2>2. new.instanceID = o.instanceID /\ new.providerID = o.providerID
    BY <2>1 DEF MachineObject
  <2> HIDE DEF new
  <2> QED
    BY <1>4, <2>1, <2>2 DEF o
<1>6. ASSUME NEW m \in Machines, Touch(m) PROVE OwnInv'
  BY <1>4, <1>6 DEF Touch
<1>7. ASSUME UNCHANGED <<obj, cache, job>> PROVE OwnInv'
  BY <1>7, LocalOwn
<1>8. CASE Crash
  <2>1. job'.pc = "idle" /\ obj' = obj /\ cache' = obj
    BY <1>8 DEF Crash, Return, Idle
  <2> QED
    BY <2>1, LocalOwn
<1>9. ASSUME NEW s \in ServerIds, CloudProgress(s) \/ ListPropagates(s) \/ ExternalChange(s)
      PROVE  OwnInv'
  BY <1>7, <1>9 DEF CloudProgress, ListPropagates, ExternalChange
<1>10. CASE ChangeUser \/ UNCHANGED vars
  BY <1>7, <1>10 DEF ChangeUser, vars
<1> QED
  BY <1>1, <1>2, <1>3, <1>5, <1>6, <1>8, <1>9, <1>10 DEF Next

(* The ownership invariant holds initially. *)
LEMMA InitOwn == Init => OwnInv
  BY DEF Init, Idle, NewMachine, OwnInv, OwnsRecorded, Owned, JobOwn

(* If machine names are unique, the server that a machine records was       *)
(* created for that machine.                                                *)
THEOREM OwnServers == ASSUME NamesUnique PROVE Spec => []RecordsOwnServer
<1>1. TypeInv /\ OwnInv /\ [Next]_vars => OwnInv'
  BY NextOwn
<1>2. TypeInv /\ OwnInv => RecordsOwnServer
  BY Parts DEF OwnInv, OwnsRecorded, Owned, RecordsOwnServer
<1> QED
  BY <1>1, <1>2, InitOwn, TypeInvariant, PTL DEF Spec

(* If machine names are unique, the controller stops and deletes servers of *)
(* machines with a deletion timestamp only, however stale its cache is.     *)
THEOREM DeletesOnlyDeleted == ASSUME NamesUnique PROVE Spec => OnlyDeletesDeleted
<1> DEFINE Safe == \A s \in ServerIds :
              job'.pc # job.pc /\ srv'[s].state # srv[s].state /\ srv'[s].state \in {"stopping", "gone"}
                 => job.cur = srv[s].uid /\ obj[job.cur].deleting
<1>1. TypeInv /\ OwnInv /\ FinInv /\ [Next]_vars => [Safe]_vars
  <2> SUFFICES ASSUME TypeInv, OwnInv, FinInv, [Next]_vars, NEW s \in ServerIds, job'.pc # job.pc,
                      srv'[s].state # srv[s].state, srv'[s].state \in {"stopping", "gone"}
               PROVE  job.cur = srv[s].uid /\ obj[job.cur].deleting
    OBVIOUS
  <2>1. ASSUME job.pc \in DeletePCs, s = job.server, job.server # None
        PROVE  job.cur = srv[s].uid /\ obj[job.cur].deleting
    BY <2>1 DEF OwnInv, JobOwn, Owned, FinInv, JobFin, CacheFin, DeletePCs, TypeInv, JobOK
  <2>2. CASE DeleteStop \/ DeleteServer \/ DeleteCall
    <3>1. job.pc \in {"delStop", "delServer", "delCall"}
      BY <2>2 DEF DeleteStop, DeleteServer, DeleteCall, At
    <3>2. job.server \in ServerIds /\ job.server # None
      BY <3>1, ConstantsAssumption DEF TypeInv, JobOK, ServerPCs
    <3>3. \A t \in ServerIds : t # job.server => srv'[t] = srv[t]
      BY <2>2 DEF DeleteStop, DeleteServer, DeleteCall, StopServer, TypeInv, TypeOK
    <3> QED
      BY <2>1, <3>1, <3>2, <3>3 DEF DeletePCs
  <2>3. CASE CreateServer
    <3>1. srv' = srv \/ \E t \in ServerIds :
            srv' = [srv EXCEPT ![t] = [state |-> "stopped", uid |-> job.cur, acct |-> job.acct]]
      BY <2>3 DEF CreateServer, Created
    <3> QED
      BY <3>1 DEF TypeInv, TypeOK
  <2>4. CASE StartServer
    <3>1. srv' = srv \/ srv' = [srv EXCEPT ![job.server].state = "starting"]
      BY <2>4 DEF StartServer
    <3> QED
      BY <3>1 DEF TypeInv, TypeOK, Server
  <2>5. CASE UNCHANGED srv
    BY <2>5
  <2>6. Step => \/ DeleteStop \/ DeleteServer \/ DeleteCall \/ CreateServer \/ StartServer
                \/ UNCHANGED srv
    BY DEF Step, AddFinalizer, CheckServer, FindAfterDenied, ClearDenied, ClearMissing, FindServer,
           AdoptStatus, AdoptProvider, RecordStatus, RecordProvider, ExistingServer, UpdateReady,
           DeleteGet, DeletePoll, PollUntil, RemoveFinalizer, Write, WriteStatus, WriteProviderID
  <2>7. \A m \in Machines : Reconcile(m) \/ CacheSync(m) \/ UserDelete(m) \/ Touch(m) => UNCHANGED srv
    BY DEF Reconcile, CacheSync, UserDelete, Touch, OtherWrite
  <2>8. \A t \in ServerIds : CloudProgress(t) \/ ListPropagates(t) \/ ExternalChange(t) => UNCHANGED job
    BY DEF CloudProgress, ListPropagates, ExternalChange
  <2>9. ChangeUser \/ Crash \/ UNCHANGED vars => UNCHANGED srv
    BY DEF ChangeUser, Crash, vars
  <2> QED
    BY <2>2, <2>3, <2>4, <2>5, <2>6, <2>7, <2>8, <2>9 DEF Next
<1>2. TypeInv /\ OwnInv /\ [Next]_vars => OwnInv'
  BY NextOwn
<1>3. OnlyDeletesDeleted <=> [][Safe]_vars
  BY DEF OnlyDeletesDeleted
<1> QED
  BY <1>1, <1>2, <1>3, InitOwn, InitFin, NextFin, TypeInvariant, PTL DEF Spec

-----------------------------------------------------------------------------
(* The server of a removed machine.  The worker that removes the finalizer  *)
(* holds the stored record, and has seen that server gone or left it.       *)

Settled(s) == srv[s].state = "gone" \/ s \in abandoned

ObjRec(m) ==
    obj[m].instanceID # None =>
        IF obj[m].exists THEN obj[m].finalizer ELSE Settled(obj[m].instanceID)

JobRec ==
    job.pc \in DeletePCs =>
        /\ job.fresh => job.copy.instanceID = obj[job.cur].instanceID
        /\ job.pc \in DeletePCs \ {"delGet", "rmFinalizer"} => job.server = job.copy.instanceID
        /\ job.pc = "rmFinalizer" /\ job.copy.instanceID # None => Settled(job.copy.instanceID)

RecInv == (\A m \in Machines : ObjRec(m)) /\ JobRec

(* A failed request is never taken for an answer that the server is gone. *)
NeverMisreadMissing == \A s \in ServerIds : MisreadAs[s] # "missing"

(* A server that is gone or left behind stays so. *)
LEMMA SettledStays ==
  ASSUME TypeInv, [Next]_vars, NEW s \in ServerIds, Settled(s)
  PROVE  Settled(s)'
<1>1. abandoned \subseteq abandoned'
  <2>1. Step => abandoned \subseteq abandoned'
    BY DEF Step, AddFinalizer, CheckServer, FindAfterDenied, ClearDenied, ClearMissing, FindServer,
           AdoptStatus, AdoptProvider, CreateServer, RecordStatus, RecordProvider, StartServer,
           ExistingServer, UpdateReady, DeleteGet, DeleteStop, DeletePoll, PollUntil, DeleteServer,
           DeleteCall, RemoveFinalizer, Write, WriteStatus, WriteProviderID
  <2> QED
    BY <2>1 DEF Next, Reconcile, CacheSync, UserDelete, Touch, OtherWrite, CloudProgress,
                ListPropagates, ExternalChange, ChangeUser, Crash, vars
<1>2. srv[s].state = "gone" => srv'[s].state = "gone"
  <2>1. srv'[s].state \in ServerStates
    BY NextType DEF TypeInv, TypeOK, Server
  <2>2. (\A t \in ServerIds : Keeps(t)) => (srv[s].state = "gone" => srv'[s].state = "gone")
    BY <2>1 DEF Keeps, ServerStates, Alive
  <2>3. ASSUME NEW t \in ServerIds, Adds(t) PROVE srv[s].state = "gone" => srv'[s].state = "gone"
    BY <2>3 DEF Adds
  <2> QED
    BY <2>2, <2>3, ServerEvolution
<1> QED
  BY <1>1, <1>2 DEF Settled

(* An object that is not written, or keeps its finalizer. *)
LEMMA ObjRecStays ==
  ASSUME TypeInv, RecInv, [Next]_vars, NEW m \in Machines,
         \/ obj'[m].exists = obj[m].exists /\ obj'[m].instanceID = obj[m].instanceID
            /\ obj'[m].finalizer = obj[m].finalizer
         \/ obj'[m].exists /\ obj'[m].finalizer
  PROVE  ObjRec(m)'
<1>1. obj[m].instanceID # None => obj[m].instanceID \in ServerIds
  BY Parts DEF MachineObject, MaybeServer
<1> QED
  BY <1>1, SettledStays DEF RecInv, ObjRec, Settled

(* A step on the other side of Reconcile that at most writes an object with *)
(* the finalizer.                                                           *)
LEMMA NormalRec ==
  ASSUME TypeInv, RecInv, [Next]_vars, job'.pc \notin DeletePCs,
         \A m \in Machines : obj'[m] = obj[m] \/ (obj'[m].exists /\ obj'[m].finalizer)
  PROVE  RecInv'
  BY ObjRecStays DEF RecInv, JobRec

(* A write of an object that has the finalizer, by a worker that goes on    *)
(* with reconcileNormal or returns.                                         *)
LEMMA WriteRec ==
  ASSUME TypeInv, FinInv, RecInv, [Next]_vars, job.pc # "idle",
         NEW new, NEW ok \in Job, NEW fail \in Job, Write(new, ok, fail),
         new.exists = obj[job.cur].exists, new.finalizer,
         ok.pc \notin DeletePCs, fail.pc \notin DeletePCs
  PROVE  RecInv'
<1>1. job.cur \in Machines /\ (job.fresh => obj[job.cur].exists)
  BY DEF TypeInv, JobOK, FinInv, JobFin
<1>2. \A m \in Machines : obj'[m] = obj[m] \/ (obj'[m].exists /\ obj'[m].finalizer)
  BY <1>1 DEF Write, Stored, TypeInv, TypeOK
<1>3. job'.pc \notin DeletePCs
  BY DEF Write, Job
<1> QED
  BY <1>2, <1>3, NormalRec

(* The worker inside reconcileDelete moves on without a write. *)
LEMMA DeleteRec ==
  ASSUME TypeInv, RecInv, [Next]_vars, UNCHANGED obj, job.pc \in DeletePCs,
         job'.pc \in DeletePCs =>
           /\ job'.cur = job.cur /\ job'.fresh = job.fresh /\ job'.copy = job.copy
           /\ job'.server \in {job.server, job.copy.instanceID}
           /\ job.pc = "delGet" /\ job'.pc # "rmFinalizer" => job'.server = job.copy.instanceID
           /\ job.pc = "rmFinalizer" => job'.pc = "rmFinalizer"
           /\ job'.pc # "delGet"
           /\ job'.pc = "rmFinalizer" /\ job.pc # "rmFinalizer" =>
                srv'[job.copy.instanceID].state = "gone" \/ job.copy.instanceID \in abandoned'
  PROVE  RecInv'
<1>1. \A m \in Machines : ObjRec(m)'
  BY ObjRecStays
<1>2. JobRec'
  <2>1. job.copy.instanceID # None => job.copy.instanceID \in ServerIds
    BY Parts DEF MaybeServer
  <2> QED
    BY <2>1, SettledStays DEF RecInv, JobRec, Settled, DeletePCs
<1> QED
  BY <1>1, <1>2 DEF RecInv

(* Found or denied: the server is there.  Missing, and not misread: it is   *)
(* gone, as the machine's servers exist or have existed.                    *)
LEMMA MissingIsGone ==
  ASSUME NeverMisreadMissing, TypeInv, NEW s \in ServerIds, srv[s].state # "unused",
         GetServer(s, "missing")
  PROVE  srv[s].state = "gone"
<1>1. GetServerResult(s) = "missing"
  BY DEF GetServer, NeverMisreadMissing
<1> QED
  BY <1>1, Parts DEF GetServerResult, ServerStates

(* The server reconcileDelete works on is the recorded one, created once. *)
LEMMA DeleteHolds ==
  ASSUME TypeInv, OwnInv, RecInv, job.pc \in DeletePCs \ {"rmFinalizer"}
  PROVE  /\ job.copy.instanceID \in ServerIds /\ srv[job.copy.instanceID].state # "unused"
         /\ job.pc # "delGet" => job.server = job.copy.instanceID
<1>1. job.pc # "delGet" => job.server \in ServerIds /\ job.server = job.copy.instanceID
  BY DEF RecInv, JobRec, DeletePCs, TypeInv, JobOK, ServerPCs
<1>2. job.copy.instanceID \in ServerIds
  BY <1>1 DEF TypeInv, JobOK
<1>3. job.pc # "idle"
  BY DEF DeletePCs
<1> QED
  BY <1>1, <1>2, <1>3, ConstantsAssumption DEF OwnInv, JobOwn, OwnsRecorded, Owned

(* Every step of the worker keeps the record of its machine. *)
LEMMA StepRec ==
  ASSUME NeverMisreadMissing, TypeInv, FinInv, OwnInv, RecInv, Step
  PROVE  RecInv'
<1>0. /\ [Next]_vars /\ job \in Job /\ job.copy \in MachineObject /\ Idle \in Job
      /\ Idle.pc = "idle" /\ "idle" \notin DeletePCs
  BY Parts, IdleType DEF Next, Idle, DeletePCs
<1>1. CASE AddFinalizer
  <2> DEFINE o == obj[job.cur]
             new == [o EXCEPT !.finalizer = TRUE]
             ok == Goto(AfterFinalizer(job.copy))
  <2>1. job.pc # "idle" /\ o \in MachineObject /\ Write(new, ok, Idle)
    BY <1>1, Parts DEF AddFinalizer, At
  <2> HIDE DEF o
  <2>2. new.exists = o.exists /\ new.finalizer
    BY <2>1 DEF MachineObject
  <2>3. ok \in Job /\ ok.pc \notin DeletePCs
    BY <1>0, GotoIs DEF PCs, AfterFinalizer, DeletePCs
  <2> HIDE DEF new, ok
  <2> QED
    BY <1>0, <2>1, <2>2, <2>3, WriteRec DEF o
<1>2. ASSUME NEW id \in MaybeServer, NEW rdy \in BOOLEAN, NEW ok \in Job, NEW fail \in Job,
             job.pc \in HeldPCs, ok.pc \notin DeletePCs, fail.pc \notin DeletePCs,
             WriteStatus(id, rdy, ok, fail) \/ Write([obj[job.cur] EXCEPT !.providerID = id], ok, fail)
      PROVE  RecInv'
  <2> DEFINE o == obj[job.cur]
             status == [o EXCEPT !.instanceID = id, !.ready = rdy]
             provider == [o EXCEPT !.providerID = id]
  <2>1. /\ job.pc # "idle" /\ o \in MachineObject /\ o.finalizer
        /\ Write(status, ok, fail) \/ Write(provider, ok, fail)
    BY <1>2, Parts DEF WriteStatus, HeldPCs, FinInv, JobFin
  <2> HIDE DEF o
  <2>2. status.exists = o.exists /\ status.finalizer /\ provider.exists = o.exists /\ provider.finalizer
    BY <2>1 DEF MachineObject
  <2> HIDE DEF status, provider
  <2> QED
    BY <1>0, <1>2, <2>1, <2>2, WriteRec DEF o
<1>3. job.server \in MaybeServer /\ job.copy.ready \in BOOLEAN /\ job.copy.instanceID \in MaybeServer
      /\ None \in MaybeServer
  BY Parts DEF MaybeServer
<1>4. \A l \in {"adoptProvider", "existing", "recordProvider", "start", "ready", "find"} :
        Goto(l) \in Job /\ Goto(l).pc \notin DeletePCs
  BY <1>0, GotoIs DEF PCs, DeletePCs
<1>5. CASE ClearDenied
  BY <1>0, <1>2, <1>3, <1>5 DEF ClearDenied, At, HeldPCs, PCs, DeletePCs
<1>6. CASE ClearMissing
  <2> DEFINE c == Goto("find")
             fail == [c EXCEPT !.copy.instanceID = None]
  <2>1. WriteStatus(None, job.copy.ready, c, fail) /\ job.pc \in HeldPCs
    BY <1>6 DEF ClearMissing, At, HeldPCs, PCs, DeletePCs
  <2>2. c \in Job /\ c.pc \notin DeletePCs
    BY <1>4
  <2> HIDE DEF c
  <2>3. fail \in Job /\ fail.pc \notin DeletePCs
    BY <2>2 DEF Job, MachineObject, MaybeServer
  <2> HIDE DEF fail
  <2> QED
    BY <1>2, <1>3, <2>1, <2>2, <2>3
<1>7. CASE AdoptStatus \/ RecordStatus
  BY <1>0, <1>2, <1>3, <1>4, <1>7 DEF AdoptStatus, RecordStatus, At, HeldPCs, PCs, DeletePCs
<1>8. CASE AdoptProvider \/ RecordProvider
  BY <1>0, <1>2, <1>3, <1>4, <1>8 DEF AdoptProvider, RecordProvider, WriteProviderID, At, HeldPCs, PCs, DeletePCs
<1>9. CASE ExistingServer
  <2> DEFINE next == Goto(IF job.seen = "stopped" THEN "start" ELSE "ready")
  <2>1. next \in Job /\ next.pc \notin DeletePCs
    BY <1>4
  <2>2. job.pc \in HeldPCs
    BY <1>9 DEF ExistingServer, At, HeldPCs, PCs, DeletePCs
  <2>3. Write([obj[job.cur] EXCEPT !.providerID = job.server], next, Idle) \/ (job' = next /\ obj' = obj)
    BY <1>9 DEF ExistingServer, WriteProviderID
  <2> HIDE DEF next
  <2> QED
    BY <1>0, <1>2, <1>3, <2>1, <2>2, <2>3, NormalRec
<1>10. CASE UpdateReady
  <2>1. (job.seen = "running") \in BOOLEAN /\ job.pc \in HeldPCs
    BY <1>10 DEF UpdateReady, At, HeldPCs, PCs, DeletePCs
  <2> QED
    BY <1>0, <1>2, <1>3, <1>10, <2>1 DEF UpdateReady
<1>11. CASE CheckServer \/ FindAfterDenied \/ FindServer \/ CreateServer \/ StartServer
  <2>1. UNCHANGED obj
    BY <1>11 DEF CheckServer, FindAfterDenied, FindServer, CreateServer, StartServer
  <2>2. job'.pc \notin DeletePCs
    BY <1>0, <1>11 DEF CheckServer, FindAfterDenied, FindServer, CreateServer, StartServer, Adopt,
                       Goto, Return, Job, DeletePCs
  <2> QED
    BY <1>0, <2>1, <2>2, NormalRec
<1>12. CASE RemoveFinalizer
  <2> DEFINE o == obj[job.cur]
             new == [o EXCEPT !.finalizer = FALSE, !.exists = FALSE]
  <2>1. job.pc = "rmFinalizer" /\ o \in MachineObject /\ Write(new, Idle, Idle)
    BY <1>12, Parts DEF RemoveFinalizer, At
  <2> HIDE DEF o
  <2>2. new.instanceID = o.instanceID /\ ~new.exists
    BY <2>1 DEF MachineObject
  <2> HIDE DEF new
  <2>3. srv' = srv /\ abandoned' = abandoned /\ job'.pc = "idle"
    BY <1>0, <2>1 DEF Write, Job
  <2>4. \A m \in Machines : obj'[m] = obj[m] \/ (m = job.cur /\ obj'[m] = new /\ job.fresh)
    BY <2>1 DEF Write, Stored, TypeInv, TypeOK
  <2>5. job.fresh /\ o.instanceID # None => Settled(o.instanceID)
    BY <2>1 DEF RecInv, JobRec, DeletePCs, o
  <2>6. \A m \in Machines : ObjRec(m)'
    BY <2>2, <2>3, <2>4, <2>5 DEF RecInv, ObjRec, Settled, o
  <2> QED
    BY <2>3, <2>6 DEF RecInv, JobRec, DeletePCs
<1>13. CASE DeleteGet
  <2> DEFINE s == job.copy.instanceID
  <2>1. UNCHANGED <<obj, srv>> /\ job.pc = "delGet" /\ s \in ServerIds /\ srv[s].state # "unused"
    BY <1>13, DeleteHolds DEF DeleteGet, At, DeletePCs
  <2>2. \/ job' = Idle
        \/ job' = Goto("rmFinalizer") /\ (GetServer(s, "missing") \/ s \in abandoned')
        \/ \E l \in {"delStop", "delPoll"} : job' = [job EXCEPT !.pc = l, !.server = s]
    BY <1>13 DEF DeleteGet, Return
  <2>3. GetServer(s, "missing") => srv[s].state = "gone"
    BY <2>1, MissingIsGone
  <2> QED
    BY <1>0, <2>1, <2>2, <2>3, DeleteRec DEF Goto, Job, DeletePCs
<1>14. CASE DeleteStop
  <2>1. UNCHANGED obj /\ job.pc = "delStop" /\ (job' = Idle \/ job' = Goto("delPoll"))
    BY <1>14 DEF DeleteStop, At, StopServer, Return
  <2> QED
    BY <1>0, <2>1, DeleteRec DEF Goto, Job, DeletePCs
<1>15. CASE DeletePoll
  <2>1. /\ UNCHANGED <<obj, srv>> /\ job.pc = "delPoll"
        /\ \/ job' = Idle
           \/ job' = Goto("rmFinalizer") /\ GetServer(job.server, "missing")
           \/ job' = Goto("delServer")
           \/ job' = [job EXCEPT !.poll = job.poll + 1]
    BY <1>15 DEF DeletePoll, PollUntil, At, Return
  <2>2. /\ job.copy.instanceID \in ServerIds /\ job.server = job.copy.instanceID
        /\ GetServer(job.server, "missing") => srv[job.server].state = "gone"
    BY <2>1, DeleteHolds, MissingIsGone DEF DeletePCs
  <2> QED
    BY <1>0, <2>1, <2>2, DeleteRec DEF Goto, Job, DeletePCs
<1>16. CASE DeleteServer
  <2>1. /\ UNCHANGED obj /\ job.pc = "delServer"
        /\ \/ job' = Idle
           \/ job' = Goto("rmFinalizer") /\ GetServer(job.server, "missing") /\ srv' = srv
           \/ job' = Goto("delCall")
    BY <1>16 DEF DeleteServer, StopServer, At, Return
  <2>2. /\ job.copy.instanceID \in ServerIds /\ job.server = job.copy.instanceID
        /\ GetServer(job.server, "missing") => srv[job.server].state = "gone"
    BY <2>1, DeleteHolds, MissingIsGone DEF DeletePCs
  <2> QED
    BY <1>0, <2>1, <2>2, DeleteRec DEF Goto, Job, DeletePCs
<1>17. CASE DeleteCall
  <2>1. UNCHANGED obj /\ job.pc = "delCall" /\ (job' = Idle \/ job' = Goto("rmFinalizer"))
    BY <1>17 DEF DeleteCall, DeleteFailed, At
  <2>2. /\ job.copy.instanceID \in ServerIds /\ job.server = job.copy.instanceID
        /\ srv[job.server].state # "unused"
    BY <2>1, DeleteHolds DEF DeletePCs
  <2>3. job' = Goto("rmFinalizer") => srv'[job.server].state = "gone" \/ job.server \in abandoned'
    <3>1. Goto("rmFinalizer") # Idle
      BY <1>0, GotoIs DEF PCs
    <3>2. CASE srv[job.server].state = "stopped" /\ srv' = [srv EXCEPT ![job.server].state = "gone"]
      BY <2>2, <3>2 DEF TypeInv, TypeOK, Server
    <3>3. CASE srv' = srv /\ DeleteFailed(srv[job.server].state)
               /\ (srv[job.server].state = "stopping" => job.server \in abandoned')
      <4>1. job' = Goto("rmFinalizer") => srv[job.server].state \in {"stopping", "gone", "missing"}
        BY <3>1, <3>3 DEF DeleteFailed, DeleteErrorIsSuccess
      <4>2. srv[job.server].state # "missing"
        BY <2>2, Parts DEF ServerStates, Alive
      <4> QED
        BY <3>3, <4>1, <4>2
    <3>4. CASE DeleteFailed(MisreadAs[job.server])
      BY <2>2, <3>1, <3>4, ConstantsAssumption DEF DeleteFailed, DeleteErrorIsSuccess, NeverMisreadMissing
    <3> QED
      BY <1>17, <3>2, <3>3, <3>4 DEF DeleteCall
  <2> QED
    BY <1>0, <2>1, <2>2, <2>3, DeleteRec DEF Goto, Job, DeletePCs
<1> QED
  BY <1>1, <1>5, <1>6, <1>7, <1>8, <1>9, <1>10, <1>11, <1>12, <1>13, <1>14, <1>15, <1>16, <1>17 DEF Step

(* The invariant behind RecordedServerDeleted is inductive. *)
LEMMA NextRec ==
  ASSUME NeverMisreadMissing, TypeInv, FinInv, OwnInv, RecInv, [Next]_vars
  PROVE  RecInv'
<1>1. CASE Step
  BY <1>1, StepRec
<1>2. ASSUME NEW m \in Machines, Reconcile(m) PROVE RecInv'
  <2>1. /\ obj' = obj /\ job'.pc = FirstStep(cache[m]) /\ job'.cur = m /\ job'.copy = cache[m]
        /\ job'.fresh = cacheFresh[m]
    BY <1>2 DEF Reconcile, Idle
  <2>2. job'.pc \in DeletePCs => job'.pc = "delGet" \/ (job'.pc = "rmFinalizer" /\ job'.copy.instanceID = None)
    BY <2>1 DEF FirstStep, AfterFinalizer, DeletePCs
  <2>3. cacheFresh[m] => cache[m] = obj[m]
    BY DEF TypeInv, CacheOK
  <2> QED
    BY <2>1, <2>2, <2>3, ObjRecStays DEF RecInv, JobRec, DeletePCs
<1>3. ASSUME NEW m \in Machines, NEW new, OtherWrite(m, new),
             \A n \in Machines : ObjRec(n)'
      PROVE  RecInv'
  <2>1. job'.pc = job.pc /\ job'.cur = job.cur /\ job'.copy = job.copy /\ job'.server = job.server
        /\ job'.fresh = (job.fresh /\ job.cur # m) /\ UNCHANGED <<srv, abandoned>>
    BY <1>3, Parts DEF OtherWrite, Job
  <2>2. job.pc \in DeletePCs => job.cur \in Machines
    BY DEF DeletePCs, TypeInv, JobOK
  <2>3. \A n \in Machines : n # m => obj'[n] = obj[n]
    BY <1>3 DEF OtherWrite, TypeInv, TypeOK
  <2> QED
    BY <1>3, <2>1, <2>2, <2>3 DEF RecInv, JobRec, Settled
<1>4. ASSUME NEW m \in Machines, UserDelete(m) PROVE RecInv'
  <2> DEFINE o == obj[m]
             new == [o EXCEPT !.deleting = TRUE, !.exists = o.finalizer]
  <2>1. o \in MachineObject /\ OtherWrite(m, new) /\ o.exists
    BY <1>4, Parts DEF UserDelete, OtherWrite
  <2> HIDE DEF o
  <2>2. new.instanceID = o.instanceID /\ new.exists = o.finalizer /\ new.finalizer = o.finalizer
    BY <2>1 DEF MachineObject
  <2> HIDE DEF new
  <2>3. obj'[m] = new /\ \A n \in Machines \ {m} : obj'[n] = obj[n]
    BY <2>1 DEF OtherWrite, TypeInv, TypeOK
  <2>4. ObjRec(m)'
    BY <2>1, <2>2, <2>3 DEF RecInv, ObjRec, o
  <2> QED
    BY <1>3, <2>1, <2>3, <2>4, ObjRecStays
<1>5. ASSUME NEW m \in Machines, Touch(m) PROVE RecInv'
  <2>1. OtherWrite(m, obj[m]) /\ \A n \in Machines : obj'[n] = obj[n]
    BY <1>5 DEF Touch, OtherWrite, TypeInv, TypeOK
  <2> QED
    BY <1>3, <2>1, ObjRecStays
<1>6. ASSUME UNCHANGED <<obj, job>> PROVE RecInv'
  <2>1. \A m \in Machines : ObjRec(m)'
    BY <1>6, ObjRecStays
  <2>2. job.copy.instanceID # None => job.copy.instanceID \in ServerIds
    BY Parts DEF MaybeServer
  <2> QED
    BY <1>6, <2>1, <2>2, SettledStays DEF RecInv, JobRec, Settled
<1>7. CASE Crash
  BY <1>7, NormalRec DEF Crash, Return, Idle, DeletePCs
<1>8. (\E m \in Machines : CacheSync(m)) \/ ChangeUser \/ UNCHANGED vars => UNCHANGED <<obj, job>>
  BY DEF CacheSync, ChangeUser, vars
<1>9. (\E s \in ServerIds : CloudProgress(s) \/ ListPropagates(s) \/ ExternalChange(s)) => UNCHANGED <<obj, job>>
  BY DEF CloudProgress, ListPropagates, ExternalChange
<1> QED
  BY <1>1, <1>2, <1>4, <1>5, <1>6, <1>7, <1>8, <1>9 DEF Next

(* If names are unique and a failed request is never read as 404, a machine *)
(* goes only after the server its status records: it is deleted, or left    *)
(* behind where the controller says so.                                     *)
THEOREM RecordedServersDeleted ==
  ASSUME NamesUnique, NeverMisreadMissing PROVE Spec => []RecordedServerDeleted
<1>1. Init => RecInv
  BY DEF Init, Idle, NewMachine, RecInv, ObjRec, JobRec, DeletePCs
<1>2. TypeInv /\ FinInv /\ OwnInv /\ RecInv /\ [Next]_vars => RecInv'
  BY NextRec
<1>3. TypeInv /\ OwnInv /\ [Next]_vars => OwnInv'
  BY NextOwn
<1>4. RecInv => RecordedServerDeleted
  BY DEF RecInv, ObjRec, Settled, RecordedServerDeleted
<1> QED
  BY <1>1, <1>2, <1>3, <1>4, InitOwn, InitFin, NextFin, TypeInvariant, PTL DEF Spec

-----------------------------------------------------------------------------
(* MachineController implements ServerLifecycle. *)

(* The conjunction of the invariants the simulation rests on. *)
SimInv == TypeInv /\ FinInv /\ OwnInv /\ (ListLag = FALSE => DupInv)

(* The abstract state, by name. *)
AClaim == [m \in Machines |-> ClaimOf(obj[m])]
ARecord == [m \in Machines |-> obj[m].instanceID]
AVM == [s \in ServerIds |-> VMOf(srv[s])]

(* The initial states map to initial states. *)
LEMMA InitSim == Init => Lifecycle!Init
  BY DEF Init, Lifecycle!Init, ClaimOf, VMOf, NewMachine, Alive

(* The mapped servers do not change when no server comes, or goes. *)
LEMMA SameVM ==
  ASSUME TypeInv, NEW s \in ServerIds, NEW st \in Alive, srv[s].state \in Alive,
         srv' = [srv EXCEPT ![s].state = st]
  PROVE  AVM' = AVM
<1>1. srv \in [ServerIds -> Server]
  BY DEF TypeInv, TypeOK
<1>2. ASSUME NEW t \in ServerIds PROVE VMOf(srv[t])' = VMOf(srv[t])
  <2>1. CASE t # s
    BY <1>1, <2>1 DEF VMOf
  <2>2. CASE t = s
    BY <1>1, <2>2 DEF VMOf, Server
  <2> QED BY <2>1, <2>2
<1> QED BY <1>2 DEF AVM

(* A server that is deleted is destroyed in the abstract specification. *)
LEMMA GoneVM ==
  ASSUME TypeInv, NEW s \in ServerIds, srv[s].state \in Alive,
         srv' = [srv EXCEPT ![s].state = "gone"]
  PROVE  AVM[s].state = "alive" /\ AVM' = [AVM EXCEPT ![s].state = "gone"]
<1>1. srv \in [ServerIds -> Server]
  BY DEF TypeInv, TypeOK
<1>2. AVM[s].state = "alive"
  BY <1>1 DEF AVM, VMOf, Server
<1>3. ASSUME NEW t \in ServerIds, t # s PROVE AVM'[t] = AVM[t]
  BY <1>1, <1>3 DEF AVM, VMOf
<1>4. AVM'[s] = [AVM[s] EXCEPT !.state = "gone"]
  BY <1>1 DEF AVM, VMOf, Server, Alive
<1>5. AVM = [t \in ServerIds |-> AVM[t]] /\ AVM' = [t \in ServerIds |-> AVM'[t]]
  BY DEF AVM
<1> QED BY <1>2, <1>3, <1>4, <1>5

(* The creation of a server is a creation of the abstract specification.    *)
LEMMA CreateSim ==
  ASSUME SimInv, CreateServer
  PROVE  Lifecycle!Next \/ UNCHANGED Lifecycle!absVars
<1>1. srv \in [ServerIds -> Server] /\ job.cur \in Machines /\ job.acct \in Accounts
      /\ job.pc = "create" /\ UNCHANGED obj
  BY DEF SimInv, TypeInv, TypeOK, JobOK, CreateServer, At
<1>2. CASE UNCHANGED srv
  BY <1>1, <1>2 DEF Lifecycle!absVars
<1>3. ASSUME NEW s \in ServerIds, srv[s].state = "unused",
             srv' = [srv EXCEPT ![s] = [state |-> "stopped", uid |-> job.cur, acct |-> job.acct]]
      PROVE  Lifecycle!Create(job.cur, job.acct, s)
  <2>1. AClaim[job.cur] \in {"held", "leaving"}
    BY <1>1 DEF AClaim, ClaimOf, SimInv, FinInv, JobFin, ObjFin, HeldPCs, DeletePCs, PCs
  <2>2. AVM[s].state = "unused"
    BY <1>1, <1>3 DEF AVM, VMOf, Server, Alive
  <2>3. ~ListLag => \A t \in ServerIds : AVM[t].state = "alive" => AVM[t].uid # job.cur \/ AVM[t].acct # job.acct
    <3> SUFFICES ASSUME ~ListLag, NEW t \in ServerIds, AVM[t].state = "alive",
                        AVM[t].uid = job.cur, AVM[t].acct = job.acct
                 PROVE  FALSE
      OBVIOUS
    <3>1. ListLag = FALSE
      BY ConstantsAssumption
    <3>2. srv[t].uid = job.cur /\ srv[t].acct = job.acct /\ srv[t].state \in Alive
      BY <1>1 DEF AVM, VMOf, Server, ServerStates, Alive
    <3>3. t \in ServersOf(job.cur, job.acct)
      BY <3>2 DEF ServersOf, AliveServers
    <3> QED
      BY <1>1, <3>1, <3>3 DEF SimInv, DupInv, NothingToDuplicate
  <2>4. AVM' = [AVM EXCEPT ![s] = [state |-> "alive", uid |-> job.cur, acct |-> job.acct]]
    <3>1. ASSUME NEW t \in ServerIds, t # s PROVE AVM'[t] = AVM[t]
      BY <1>1, <1>3, <3>1 DEF AVM, VMOf
    <3>2. AVM'[s] = [state |-> "alive", uid |-> job.cur, acct |-> job.acct]
      BY <1>1, <1>3 DEF AVM, VMOf, Alive
    <3> QED BY <3>1, <3>2 DEF AVM
  <2> QED
    BY <1>1, <2>1, <2>2, <2>3, <2>4 DEF Lifecycle!Create, AClaim, AVM
<1>4. UNCHANGED srv \/ \E s \in ServerIds : srv[s].state = "unused" /\
        srv' = [srv EXCEPT ![s] = [state |-> "stopped", uid |-> job.cur, acct |-> job.acct]]
  BY DEF CreateServer, Created
<1> QED
  BY <1>1, <1>2, <1>3, <1>4 DEF Lifecycle!Next

(* A step that moves a server on, or deletes it, and touches no object. *)
LEMMA ServerSim ==
  ASSUME SimInv, UNCHANGED obj,
         \/ UNCHANGED srv
         \/ \E s \in ServerIds : /\ srv[s].state \in Alive
                                 /\ \E st \in Alive \cup {"gone"} : srv' = [srv EXCEPT ![s].state = st]
  PROVE  Lifecycle!Next \/ UNCHANGED Lifecycle!absVars
<1>1. CASE UNCHANGED srv
  BY <1>1 DEF Lifecycle!absVars
<1>2. ASSUME NEW s \in ServerIds, srv[s].state \in Alive, NEW st \in Alive \cup {"gone"},
             srv' = [srv EXCEPT ![s].state = st]
      PROVE  Lifecycle!Next \/ UNCHANGED Lifecycle!absVars
  <2>1. CASE st \in Alive
    <3>1. AVM' = AVM
      BY <1>2, <2>1, SameVM DEF SimInv
    <3> QED BY <3>1 DEF Lifecycle!absVars, AVM
  <2>2. CASE st = "gone"
    <3>1. Lifecycle!Destroy(s)
      BY <1>2, <2>2, GoneVM DEF Lifecycle!Destroy, AVM, SimInv
    <3> QED BY <3>1 DEF Lifecycle!Next
  <2> QED BY <2>1, <2>2
<1> QED
  BY <1>1, <1>2

(* A step that changes at most the object of one machine and no server maps *)
(* to a step if that object does what the abstract specification allows.    *)
LEMMA ObjectSim ==
  ASSUME SimInv, UNCHANGED srv, NEW m \in Machines, NEW o \in MachineObject,
         obj' = [obj EXCEPT ![m] = o],
         \/ ClaimOf(o) = ClaimOf(obj[m])
         \/ /\ o.instanceID = obj[m].instanceID
            /\ <<ClaimOf(obj[m]), ClaimOf(o)>> \in {<<"new", "held">>, <<"new", "gone">>,
                                                    <<"held", "leaving">>, <<"leaving", "gone">>},
         o.instanceID # obj[m].instanceID => ClaimOf(obj[m]) \in {"held", "leaving"} /\ Owned(m, o.instanceID)
  PROVE  Lifecycle!Next \/ UNCHANGED Lifecycle!absVars
<1>1. obj \in [Machines -> MachineObject] /\ srv \in [ServerIds -> Server]
  BY DEF SimInv, TypeInv, TypeOK
<1>2. AClaim' = [AClaim EXCEPT ![m] = ClaimOf(o)] /\ AVM' = AVM
  BY <1>1 DEF AClaim, AVM
<1>3. ARecord' = [ARecord EXCEPT ![m] = o.instanceID]
  BY <1>1 DEF ARecord
<1>4. AClaim[m] = ClaimOf(obj[m]) /\ ARecord[m] = obj[m].instanceID
  BY DEF AClaim, ARecord
<1>5. CASE o.instanceID = obj[m].instanceID /\ ClaimOf(o) = ClaimOf(obj[m])
  <2>1. AClaim' = AClaim /\ ARecord' = ARecord
    BY <1>2, <1>3, <1>4, <1>5 DEF AClaim, ARecord
  <2> QED
    BY <1>2, <2>1 DEF Lifecycle!absVars, AClaim, ARecord, AVM
<1>6. CASE o.instanceID = obj[m].instanceID /\ ClaimOf(o) # ClaimOf(obj[m])
  <2>1. ARecord' = ARecord
    BY <1>3, <1>4, <1>6 DEF ARecord
  <2>2. Lifecycle!Hold(m) \/ Lifecycle!Delete(m) \/ Lifecycle!Release(m)
    BY <1>2, <1>4, <1>6, <2>1 DEF Lifecycle!Hold, Lifecycle!Delete, Lifecycle!Release, AClaim, ARecord, AVM
  <2> QED
    BY <2>2 DEF Lifecycle!Next
<1>7. CASE o.instanceID # obj[m].instanceID
  <2>1. AClaim' = AClaim
    BY <1>2, <1>4, <1>7 DEF AClaim
  <2>2. o.instanceID \in ServerIds \cup {None}
    BY DEF MachineObject, MaybeServer
  <2>3. o.instanceID # None => AVM[o.instanceID].uid = m
    BY <1>1, <1>7, <2>2 DEF AVM, VMOf, Owned, Server
  <2>4. Lifecycle!Record(m, o.instanceID)
    BY <1>2, <1>3, <1>4, <1>7, <2>1, <2>3 DEF Lifecycle!Record, AClaim, ARecord, AVM
  <2> QED
    BY <2>2, <2>4 DEF Lifecycle!Next
<1> QED
  BY <1>5, <1>6, <1>7

(* One Update of the worker, refused, lost or done. *)
LEMMA WriteSim ==
  ASSUME SimInv, job.pc # "idle", NEW new \in MachineObject, NEW ok, NEW fail,
         Write(new, ok, fail),
         job.fresh =>
           /\ \/ ClaimOf(new) = ClaimOf(obj[job.cur])
              \/ /\ new.instanceID = obj[job.cur].instanceID
                 /\ <<ClaimOf(obj[job.cur]), ClaimOf(new)>> \in {<<"new", "held">>, <<"leaving", "gone">>}
           /\ new.instanceID # obj[job.cur].instanceID =>
                ClaimOf(obj[job.cur]) \in {"held", "leaving"} /\ Owned(job.cur, new.instanceID)
  PROVE  Lifecycle!Next \/ UNCHANGED Lifecycle!absVars
<1>1. job.cur \in Machines
  BY DEF SimInv, TypeInv, JobOK
<1>2. UNCHANGED srv
  BY DEF Write
<1>3. CASE UNCHANGED obj
  BY <1>2, <1>3, ServerSim
<1>4. CASE job.fresh /\ obj' = [obj EXCEPT ![job.cur] = new]
  BY <1>1, <1>2, <1>4, ObjectSim
<1> QED
  BY <1>3, <1>4 DEF Write, Stored

(* A write of the status while the finalizer is held. *)
LEMMA StatusSim ==
  ASSUME SimInv, job.pc \in HeldPCs, NEW id \in MaybeServer, NEW rdy \in BOOLEAN, NEW ok, NEW fail,
         Owned(job.cur, id), WriteStatus(id, rdy, ok, fail)
  PROVE  Lifecycle!Next \/ UNCHANGED Lifecycle!absVars
<1>1. job.pc # "idle" /\ job.cur \in Machines
  BY DEF SimInv, TypeInv, JobOK, HeldPCs
<1>2. obj[job.cur] \in MachineObject
  BY <1>1 DEF SimInv, TypeInv, TypeOK
<1>3. ClaimOf(obj[job.cur]) \in {"held", "leaving"}
  BY <1>1 DEF SimInv, FinInv, JobFin, ObjFin, ClaimOf
<1> DEFINE new == [obj[job.cur] EXCEPT !.instanceID = id, !.ready = rdy]
<1>4. new \in MachineObject
  BY <1>2, ObjectType
<1>5. ClaimOf(new) = ClaimOf(obj[job.cur]) /\ new.instanceID = id
  BY <1>2 DEF ClaimOf, MachineObject
<1>6. Write(new, ok, fail)
  BY DEF WriteStatus
<1> HIDE DEF new
<1> QED
  BY <1>1, <1>3, <1>4, <1>5, <1>6, WriteSim

(* A write of the provider ID changes nothing the abstract state shows. *)
LEMMA ProviderSim ==
  ASSUME SimInv, job.pc # "idle", NEW id \in MaybeServer, NEW ok, WriteProviderID(id, ok)
  PROVE  Lifecycle!Next \/ UNCHANGED Lifecycle!absVars
<1>1. job.cur \in Machines
  BY DEF SimInv, TypeInv, JobOK
<1>2. obj[job.cur] \in MachineObject
  BY <1>1 DEF SimInv, TypeInv, TypeOK
<1> DEFINE new == [obj[job.cur] EXCEPT !.providerID = id]
<1>3. new \in MachineObject
  BY <1>2, ObjectType
<1>4. ClaimOf(new) = ClaimOf(obj[job.cur]) /\ new.instanceID = obj[job.cur].instanceID
  BY <1>2 DEF ClaimOf, MachineObject
<1>5. Write(new, ok, Idle)
  BY DEF WriteProviderID
<1> HIDE DEF new
<1> QED
  BY <1>3, <1>4, <1>5, WriteSim

(* The finalizer comes and goes. *)
LEMMA FinalizerSim ==
  ASSUME SimInv, AddFinalizer \/ RemoveFinalizer
  PROVE  Lifecycle!Next \/ UNCHANGED Lifecycle!absVars
<1>1. job.pc \in {"addFinalizer", "rmFinalizer"}
  BY DEF AddFinalizer, RemoveFinalizer, At
<1>2. job.pc # "idle" /\ job.cur \in Machines
  BY <1>1 DEF SimInv, TypeInv, JobOK
<1>3. obj[job.cur] \in MachineObject
  BY <1>2 DEF SimInv, TypeInv, TypeOK
<1>4. job.fresh => obj[job.cur].exists
  BY <1>2 DEF SimInv, FinInv, JobFin
<1>5. CASE AddFinalizer
  <2> DEFINE new == [obj[job.cur] EXCEPT !.finalizer = TRUE]
  <2>1. new \in MachineObject
    BY <1>3 DEF MachineObject
  <2>2. new.instanceID = obj[job.cur].instanceID
    BY <1>3 DEF MachineObject
  <2>3. job.fresh => \/ ClaimOf(new) = ClaimOf(obj[job.cur])
                     \/ ClaimOf(obj[job.cur]) = "new" /\ ClaimOf(new) = "held"
    BY <1>3, <1>4 DEF ClaimOf, MachineObject
  <2>4. Write(new, Goto(AfterFinalizer(job.copy)), Idle)
    BY <1>5 DEF AddFinalizer
  <2> HIDE DEF new
  <2> QED
    BY <1>2, <2>1, <2>2, <2>3, <2>4, WriteSim
<1>6. CASE RemoveFinalizer
  <2> DEFINE new == [obj[job.cur] EXCEPT !.finalizer = FALSE, !.exists = FALSE]
  <2>1. new \in MachineObject
    BY <1>3 DEF MachineObject
  <2>2. new.instanceID = obj[job.cur].instanceID
    BY <1>3 DEF MachineObject
  <2>3. obj[job.cur].deleting
    BY <1>2, <1>6 DEF RemoveFinalizer, At, SimInv, FinInv, JobFin, CacheFin, DeletePCs
  <2>4. job.fresh => ClaimOf(obj[job.cur]) = "leaving" /\ ClaimOf(new) = "gone"
    BY <1>3, <1>4, <2>3 DEF ClaimOf, MachineObject
  <2>5. Write(new, Idle, Idle)
    BY <1>6 DEF RemoveFinalizer
  <2> HIDE DEF new
  <2> QED
    BY <1>2, <2>1, <2>2, <2>4, <2>5, WriteSim
<1> QED
  BY <1>5, <1>6

(* Writes of others: the user deletes the machine, somebody touches it. *)
LEMMA OtherSim ==
  ASSUME SimInv, NEW m \in Machines, UserDelete(m) \/ Touch(m)
  PROVE  Lifecycle!Next \/ UNCHANGED Lifecycle!absVars
<1>1. obj[m] \in MachineObject /\ obj[m].exists /\ UNCHANGED srv
  BY DEF SimInv, TypeInv, TypeOK, UserDelete, Touch, OtherWrite
<1>2. CASE UserDelete(m)
  <2> DEFINE o == [obj[m] EXCEPT !.deleting = TRUE, !.exists = obj[m].finalizer]
  <2>1. o \in MachineObject
    BY <1>1, ObjectType DEF MachineObject
  <2>2. o.instanceID = obj[m].instanceID
    BY <1>1 DEF MachineObject
  <2>3. \/ ClaimOf(obj[m]) = "new" /\ ClaimOf(o) = "gone"
        \/ ClaimOf(obj[m]) = "held" /\ ClaimOf(o) = "leaving"
    BY <1>1, <1>2 DEF UserDelete, ClaimOf, MachineObject
  <2>4. obj' = [obj EXCEPT ![m] = o]
    BY <1>2 DEF UserDelete, OtherWrite
  <2> HIDE DEF o
  <2> QED
    BY <1>1, <2>1, <2>2, <2>3, <2>4, ObjectSim
<1>3. CASE Touch(m)
  <2>1. obj' = [obj EXCEPT ![m] = obj[m]]
    BY <1>3 DEF Touch, OtherWrite
  <2> QED
    BY <1>1, <2>1, ObjectSim
<1> QED
  BY <1>2, <1>3

(* Every step maps to a step or to a stutter. *)
LEMMA NextSim ==
  ASSUME SimInv, [Next]_vars
  PROVE  Lifecycle!Next \/ UNCHANGED Lifecycle!absVars
<1>1. CASE CreateServer
  BY <1>1, CreateSim
<1>2. CASE StartServer \/ DeleteStop \/ DeleteServer \/ DeleteCall
  <2>1. job.server \in ServerIds /\ UNCHANGED obj
    BY <1>2 DEF SimInv, TypeInv, JobOK, ServerPCs, StartServer, DeleteStop, DeleteServer, DeleteCall, At
  <2>2. UNCHANGED srv \/ \E st \in Alive \cup {"gone"} :
          srv[job.server].state \in Alive /\ srv' = [srv EXCEPT ![job.server].state = st]
    BY <1>2 DEF StartServer, DeleteStop, DeleteServer, DeleteCall, StopServer, Alive
  <2> QED
    BY <2>1, <2>2, ServerSim
<1>3. ASSUME NEW s \in ServerIds, CloudProgress(s) \/ ListPropagates(s) \/ ExternalChange(s)
      PROVE  Lifecycle!Next \/ UNCHANGED Lifecycle!absVars
  <2>1. UNCHANGED obj
    BY <1>3 DEF CloudProgress, ListPropagates, ExternalChange
  <2>2. UNCHANGED srv \/ \E st \in Alive \cup {"gone"} :
          srv[s].state \in Alive /\ srv' = [srv EXCEPT ![s].state = st]
    BY <1>3 DEF CloudProgress, ListPropagates, ExternalChange, Alive
  <2> QED
    BY <2>1, <2>2, ServerSim
<1>4. CASE AddFinalizer \/ RemoveFinalizer
  BY <1>4, FinalizerSim
<1>5. CASE ClearDenied \/ ClearMissing
  <2>1. job.pc \in HeldPCs
    BY <1>5 DEF ClearDenied, ClearMissing, At, HeldPCs, DeletePCs, PCs
  <2>2. job.copy.ready \in BOOLEAN /\ None \in MaybeServer /\ Owned(job.cur, None)
    BY Parts DEF SimInv, MaybeServer, Owned
  <2>3. \E ok, fail : WriteStatus(None, job.copy.ready, ok, fail)
    BY <1>5 DEF ClearDenied, ClearMissing
  <2> QED
    BY <2>1, <2>2, <2>3, StatusSim
<1>6. CASE AdoptStatus \/ RecordStatus
  <2>1. job.pc \in HeldPCs /\ job.pc # "idle"
    BY <1>6 DEF AdoptStatus, RecordStatus, At, HeldPCs, DeletePCs, PCs
  <2>2. job.copy.ready \in BOOLEAN /\ job.server \in MaybeServer
    BY Parts DEF SimInv
  <2>3. Owned(job.cur, job.server)
    BY <2>1 DEF SimInv, OwnInv, JobOwn
  <2>4. \E ok, fail : WriteStatus(job.server, job.copy.ready, ok, fail)
    BY <1>6 DEF AdoptStatus, RecordStatus
  <2> QED
    BY <2>1, <2>2, <2>3, <2>4, StatusSim
<1>7. CASE UpdateReady
  <2>1. job.pc \in HeldPCs /\ job.pc # "idle"
    BY <1>7 DEF UpdateReady, At, HeldPCs, DeletePCs, PCs
  <2>2. job.copy.instanceID \in MaybeServer
    BY Parts DEF SimInv
  <2>3. Owned(job.cur, job.copy.instanceID)
    BY <2>1 DEF SimInv, OwnInv, JobOwn, OwnsRecorded
  <2>4. \E r \in BOOLEAN : WriteStatus(job.copy.instanceID, r, Idle, Idle)
    BY <1>7 DEF UpdateReady
  <2> QED
    BY <2>1, <2>2, <2>3, <2>4, StatusSim
<1>8. CASE AdoptProvider \/ RecordProvider \/ ExistingServer
  <2>1. job.pc # "idle" /\ job.server \in MaybeServer
    BY <1>8, Parts DEF SimInv, AdoptProvider, RecordProvider, ExistingServer, At
  <2>2. (\E ok : WriteProviderID(job.server, ok)) \/ UNCHANGED <<obj, srv>>
    BY <1>8 DEF AdoptProvider, RecordProvider, ExistingServer
  <2> QED
    BY <2>1, <2>2, ProviderSim, ServerSim
<1>9. ASSUME NEW m \in Machines, UserDelete(m) \/ Touch(m)
      PROVE  Lifecycle!Next \/ UNCHANGED Lifecycle!absVars
  BY <1>9, OtherSim
<1>10. CASE UNCHANGED <<obj, srv>>
  BY <1>10, ServerSim
<1>11. CheckServer \/ FindAfterDenied \/ FindServer \/ DeleteGet \/ DeletePoll \/ ChangeUser \/ Crash
       \/ UNCHANGED vars => UNCHANGED <<obj, srv>>
  BY DEF CheckServer, FindAfterDenied, FindServer, DeleteGet, DeletePoll, PollUntil, ChangeUser, Crash, vars
<1>12. \A m \in Machines : Reconcile(m) \/ CacheSync(m) => UNCHANGED <<obj, srv>>
  BY DEF Reconcile, CacheSync
<1> QED
  BY <1>1, <1>2, <1>3, <1>4, <1>5, <1>6, <1>7, <1>8, <1>9, <1>10, <1>11, <1>12 DEF Next, Step

(* If machine names are unique, the controller implements ServerLifecycle:  *)
(* whatever the cache, the API server and crashes do to it, servers are     *)
(* created under the finalizer only, one per machine and account when the   *)
(* server list is complete, records name own servers, and nothing is        *)
(* created for or recorded by a machine that is gone.                       *)
THEOREM Implements == ASSUME NamesUnique PROVE Spec => ImplementsLifecycle
<1>1. TypeInv /\ OwnInv /\ [Next]_vars => OwnInv'
  BY NextOwn
<1>2. Init => (ListLag = FALSE => DupInv)
  BY DEF Init, Idle, DupInv, ListComplete, NothingToDuplicate, NoDuplicateServers,
         ServersOf, AliveServers, Alive
<1>3. TypeInv /\ (ListLag = FALSE => DupInv) /\ [Next]_vars => (ListLag = FALSE => DupInv)'
  BY NextDup
<1>4. Spec => []SimInv
  BY <1>1, <1>2, <1>3, InitOwn, InitFin, NextFin, TypeInvariant, PTL DEF Spec, SimInv
<1>5. SimInv /\ [Next]_vars => [Lifecycle!Next]_(Lifecycle!absVars)
  BY NextSim
<1> QED
  BY <1>4, <1>5, InitSim, PTL DEF Spec, ImplementsLifecycle, Lifecycle!Spec
=============================================================================
