------------------------ MODULE NodeControllerProofs ------------------------
(* Theorems about NodeController, for any number of nodes, any threshold    *)
(* and any faults.                                                          *)
EXTENDS NodeController, TLAPS

-----------------------------------------------------------------------------
(* Type correctness.  The failures of a node go past the threshold only     *)
(* with an error each: after the count that makes it enough the node is     *)
(* deleted before anything else is counted.                                 *)

JobOK ==
    /\ job.pc \in {"taint", "status", "delete"} => job.cur \in Nodes
    /\ job.pc \in {"idle", "nodes"} => job.cur = None

Pending(n) == IF job.pc = "delete" /\ job.cur = n THEN 1 ELSE 0

FailsBounded ==
    /\ faults["err"] <= Limit["err"]
    /\ fails \in [Nodes -> Nat]
    /\ \A n \in Nodes : fails[n] <= Threshold - 1 + faults["err"] + Pending(n)

Typed ==
    /\ node \in [Nodes -> NodeObject]
    /\ vm \in [Nodes -> Answers]
    /\ job \in Job
    /\ faults \in [FaultKinds -> Nat]

TypeInv == Typed /\ JobOK /\ FailsBounded

(* The values of a sync between two nodes. *)
LEMMA JobTypes ==
  /\ Idle \in Job /\ Idle.pc = "idle" /\ Idle.cur = None /\ Idle.fresh = {} /\ Idle.todo = {}
  /\ NewNode \in NodeObject /\ [NewNode EXCEPT !.exists = FALSE] \in NodeObject
  /\ ~[NewNode EXCEPT !.exists = FALSE].addr /\ ~NewNode.addr
  BY DEF Idle, Job, NewNode, NodeObject, Answers

LEMMA RestType ==
  ASSUME job \in Job, NEW todo \in SUBSET Nodes
  PROVE  /\ Rest(todo) \in Job
         /\ Rest(todo).pc \in {"idle", "nodes"} /\ Rest(todo).cur = None
         /\ Rest(todo).todo = todo
         /\ Rest(todo) = Idle \/ (Rest(todo).fresh = job.fresh /\ Rest(todo).snap = job.snap)
<1>1. CASE todo = {}
  BY <1>1, JobTypes DEF Rest
<1>2. CASE todo # {}
  BY <1>2 DEF Rest, Job
<1> QED
  BY <1>1, <1>2

LEMMA SpendType ==
  ASSUME Typed, FailsBounded, NEW k \in FaultKinds, Spend(k)
  PROVE  /\ faults' \in [FaultKinds -> Nat]
         /\ faults'["err"] <= Limit["err"] /\ faults'["err"] >= faults["err"]
         /\ k = "err" => faults'["err"] = faults["err"] + 1
<1>1. "err" \in FaultKinds /\ Limit["err"] \in Nat /\ faults["err"] \in Nat /\ Limit[k] \in Nat
  BY NodeAssumption DEF FaultKinds, Typed
<1> QED
  BY <1>1 DEF Spend, Typed, FailsBounded

LEMMA InitType == Init => TypeInv
<1> SUFFICES ASSUME Init PROVE TypeInv
  OBVIOUS
<1>1. Typed /\ JobOK
  BY JobTypes DEF Init, Typed, JobOK
<1>2. "err" \in FaultKinds /\ Limit["err"] \in Nat /\ Threshold \in Nat /\ Threshold >= 1
  BY NodeAssumption DEF FaultKinds
<1>3. \A n \in Nodes : Pending(n) = 0
  BY JobTypes DEF Init, Pending
<1>4. FailsBounded
  BY <1>2, <1>3 DEF Init, FailsBounded
<1> QED
  BY <1>1, <1>4 DEF TypeInv

(* Nothing is counted, and no deletion comes up. *)
LEMMA QuietFails ==
  ASSUME TypeInv, Typed', fails' = fails,
         faults'["err"] >= faults["err"], faults'["err"] <= Limit["err"],
         \A n \in Nodes : job'.pc = "delete" /\ job'.cur = n => job.pc = "delete" /\ job.cur = n,
         \A n \in Nodes : job.pc = "delete" /\ job.cur = n =>
             (job'.pc = "delete" /\ job'.cur = n) \/ faults'["err"] = faults["err"] + 1
  PROVE  FailsBounded'
<1>1. "err" \in FaultKinds /\ Limit["err"] \in Nat /\ Threshold \in Nat /\ Threshold >= 1
  BY NodeAssumption DEF FaultKinds
<1>2. faults["err"] \in Nat /\ faults'["err"] \in Nat
  BY <1>1 DEF TypeInv, Typed
<1>3. ASSUME NEW n \in Nodes PROVE fails'[n] <= Threshold - 1 + faults'["err"] + Pending(n)'
  <2>1. fails[n] \in Nat /\ fails[n] <= Threshold - 1 + faults["err"] + Pending(n)
    BY DEF TypeInv, FailsBounded
  <2>2. CASE job.pc = "delete" /\ job.cur = n
    <3>1. Pending(n) = 1 /\ (Pending(n)' = 1 \/ (Pending(n)' = 0 /\ faults'["err"] = faults["err"] + 1))
      BY <2>2 DEF Pending
    <3> QED
      BY <1>1, <1>2, <2>1, <3>1
  <2>3. CASE ~(job.pc = "delete" /\ job.cur = n)
    <3>1. Pending(n) = 0 /\ Pending(n)' = 0
      BY <2>3 DEF Pending
    <3> QED
      BY <1>1, <1>2, <2>1, <3>1
  <2> QED
    BY <2>2, <2>3
<1> QED
  BY <1>3 DEF TypeInv, FailsBounded

(* The fails of a node that is counted or forgotten. *)
LEMMA CountFails ==
  ASSUME TypeInv, Typed', JobOK', NEW n \in Nodes, NEW k \in Nat, fails' = [fails EXCEPT ![n] = k],
         UNCHANGED faults, job.pc \in {"nodes", "delete"},
         job.pc = "delete" => job.cur = n,
         job'.pc = "delete" => job'.cur = n,
         k <= Threshold - 1 \/ (k = fails[n] + 1 /\ job.pc # "delete" /\ job'.pc = "delete")
  PROVE  FailsBounded'
<1>1. "err" \in FaultKinds /\ Limit["err"] \in Nat /\ Threshold \in Nat /\ Threshold >= 1
  BY NodeAssumption DEF FaultKinds
<1>2. faults["err"] \in Nat
  BY <1>1 DEF TypeInv, Typed
<1>3. ASSUME NEW m \in Nodes PROVE fails'[m] <= Threshold - 1 + faults'["err"] + Pending(m)'
  <2>1. fails[m] \in Nat /\ fails[m] <= Threshold - 1 + faults["err"] + Pending(m)
    BY DEF TypeInv, FailsBounded
  <2>2. CASE m # n
    <3>1. Pending(m) = 0 /\ Pending(m)' = 0 /\ fails'[m] = fails[m]
      BY <2>2 DEF Pending, TypeInv, FailsBounded
    <3> QED
      BY <1>2, <2>1, <3>1
  <2>3. CASE m = n
    <3>1. fails'[m] = k /\ Pending(m)' \in {0, 1}
      BY <2>3 DEF Pending, TypeInv, FailsBounded
    <3>2. CASE k <= Threshold - 1
      BY <1>1, <1>2, <3>1, <3>2
    <3>3. CASE k = fails[n] + 1 /\ job.pc # "delete" /\ job'.pc = "delete"
      <4>1. Pending(m) = 0 /\ Pending(m)' = 1
        BY <2>3, <3>3 DEF Pending
      <4> QED
        BY <1>1, <1>2, <2>1, <2>3, <3>1, <3>3, <4>1
    <3> QED
      BY <3>2, <3>3
  <2> QED
    BY <2>2, <2>3
<1>4. fails' \in [Nodes -> Nat]
  BY DEF TypeInv, FailsBounded
<1> QED
  BY <1>3, <1>4 DEF TypeInv, FailsBounded

(* On with the next node. *)
LEMMA RestOK ==
  ASSUME TypeInv, NEW todo \in SUBSET Nodes, job' = Rest(todo)
  PROVE  job' \in Job /\ JobOK' /\ job'.pc # "delete"
  BY RestType DEF TypeInv, Typed, JobOK

(* On with this node. *)
LEMMA NodeOK ==
  ASSUME TypeInv, NEW n \in Nodes, NEW l \in {"taint", "status", "delete"},
         NEW r \in Answers \cup {"none"},
         job' = [job EXCEPT !.todo = @ \ {n}, !.pc = l, !.cur = n, !.answer = r]
  PROVE  job' \in Job /\ JobOK' /\ job'.pc = l /\ job'.cur = n
<1>1. job \in Job
  BY DEF TypeInv, Typed
<1>2. job' \in Job /\ job'.pc = l /\ job'.cur = n
  BY <1>1 DEF Job
<1> QED
  BY <1>2 DEF JobOK

(* The steps that write nothing. *)
LEMMA ReadType ==
  ASSUME TypeInv, SyncNodes \/ InitializedNode \/ LookupVM
  PROVE  TypeInv'
<1>0. job \in Job /\ job.pc \in {"idle", "nodes"} /\ job.todo \subseteq Nodes
  BY DEF TypeInv, Typed, Job, SyncNodes, InitializedNode, LookupVM, At
<1>1. UNCHANGED <<node, vm, fails, faults>>
  BY DEF SyncNodes, InitializedNode, LookupVM
<1>2. job' \in Job /\ JobOK' /\ job'.pc # "delete"
  <2>1. CASE SyncNodes
    <3> DEFINE listed == {n \in Nodes : node[n].exists}
               snap == [n \in Nodes |-> IF n \in listed THEN node[n] ELSE NewNode]
    <3>1. snap \in [Nodes -> NodeObject] /\ listed \in SUBSET Nodes
      BY JobTypes DEF TypeInv, Typed
    <3>2. job' = [Idle EXCEPT !.pc = "nodes", !.todo = listed, !.fresh = listed, !.snap = snap]
      BY <2>1 DEF SyncNodes
    <3> HIDE DEF listed, snap
    <3>3. job' \in Job /\ job'.pc = "nodes" /\ job'.cur = None
      BY <3>1, <3>2, JobTypes DEF Job
    <3> QED
      BY <3>3 DEF JobOK
  <2>2. CASE InitializedNode
    <3>1. PICK n \in job.todo :
            \/ job' = Rest(job.todo \ {n})
            \/ job' = [job EXCEPT !.todo = @ \ {n}, !.pc = "taint", !.cur = n]
      BY <2>2 DEF InitializedNode
    <3>2. CASE job' = [job EXCEPT !.todo = @ \ {n}, !.pc = "taint", !.cur = n]
      <4>1. job' \in Job /\ job'.pc = "taint" /\ job'.cur = n /\ n \in Nodes
        BY <1>0, <3>1, <3>2 DEF Job
      <4> QED
        BY <4>1 DEF JobOK
    <3>3. CASE job' = Rest(job.todo \ {n})
      BY <1>0, <3>3, RestOK
    <3> QED
      BY <3>1, <3>2, <3>3
  <2>3. CASE LookupVM
    <3>1. PICK n \in job.todo :
            \/ job' = Rest(job.todo \ {n})
            \/ /\ AfterLookup(n, vm[n]) # "nodes"
               /\ job' = [job EXCEPT !.todo = @ \ {n}, !.pc = AfterLookup(n, vm[n]), !.cur = n,
                                     !.answer = vm[n]]
      BY <2>3 DEF LookupVM
    <3>2. n \in Nodes /\ vm[n] \in Answers
      BY <1>0 DEF TypeInv, Typed
    <3>3. AfterLookup(n, vm[n]) \in {"taint", "status", "nodes"}
      BY DEF AfterLookup
    <3>4. CASE job' = Rest(job.todo \ {n})
      BY <1>0, <3>4, RestOK
    <3> HIDE DEF AfterLookup
    <3>5. CASE job' # Rest(job.todo \ {n})
      BY <3>1, <3>2, <3>3, <3>5, NodeOK
    <3> QED
      BY <3>4, <3>5
  <2> QED
    BY <2>1, <2>2, <2>3
<1>3. Typed'
  BY <1>1, <1>2 DEF TypeInv, Typed
<1>4. faults["err"] \in Nat /\ faults["err"] <= Limit["err"]
  BY DEF TypeInv, Typed, FailsBounded, FaultKinds
<1>5. FailsBounded'
  BY <1>0, <1>1, <1>2, <1>3, <1>4, QuietFails
<1> QED
  BY <1>2, <1>3, <1>5 DEF TypeInv

LEMMA StaleType == ASSUME TypeInv, HandleStaleNode PROVE TypeInv'
<1>0. job \in Job /\ job.pc = "nodes" /\ job.todo \subseteq Nodes /\ UNCHANGED <<node, vm, faults>>
  BY DEF TypeInv, Typed, Job, HandleStaleNode, At
<1>1. PICK n \in job.todo :
        /\ fails' = Counted(n)
        /\ job' = IF Enough(fails'[n])
                  THEN [job EXCEPT !.todo = @ \ {n}, !.pc = "delete", !.cur = n]
                  ELSE Rest(job.todo \ {n})
  BY DEF HandleStaleNode
<1>2. n \in Nodes /\ fails[n] \in Nat /\ fails' = [fails EXCEPT ![n] = fails[n] + 1]
      /\ fails'[n] = fails[n] + 1
  BY <1>0, <1>1 DEF Counted, TypeInv, FailsBounded
<1>3. CASE Enough(fails'[n])
  <2>1. job' = [job EXCEPT !.todo = @ \ {n}, !.pc = "delete", !.cur = n]
    BY <1>1, <1>3
  <2>2. job' \in Job /\ job'.pc = "delete" /\ job'.cur = n
    BY <1>0, <1>2, <2>1 DEF Job
  <2>3. JobOK' /\ Typed'
    BY <1>0, <1>2, <2>2 DEF TypeInv, Typed, JobOK
  <2>4. fails[n] + 1 \in Nat
    BY <1>2
  <2>5. FailsBounded'
    BY <1>0, <1>2, <2>2, <2>3, <2>4, CountFails
  <2> QED
    BY <2>3, <2>5 DEF TypeInv
<1>4. CASE ~Enough(fails'[n])
  <2>1. job' = Rest(job.todo \ {n})
    BY <1>1, <1>4
  <2>2. job' \in Job /\ JobOK' /\ job'.pc # "delete"
    BY <1>0, <2>1, RestOK
  <2>3. Typed'
    BY <1>0, <2>2 DEF TypeInv, Typed
  <2>4. fails[n] + 1 \in Nat /\ fails[n] + 1 <= Threshold - 1
    BY <1>2, <1>4, NodeAssumption DEF Enough
  <2>5. FailsBounded'
    BY <1>0, <1>2, <2>2, <2>3, <2>4, CountFails
  <2> QED
    BY <2>2, <2>3, <2>5 DEF TypeInv
<1> QED
  BY <1>3, <1>4

LEMMA DeleteType == ASSUME TypeInv, DeleteNode PROVE TypeInv'
<1> DEFINE n == job.cur
<1>0. job \in Job /\ job.pc = "delete" /\ n \in Nodes /\ UNCHANGED vm /\ job' = Rest(job.todo)
  BY DEF TypeInv, Typed, JobOK, DeleteNode, At, NextNode
<1>1. job' \in Job /\ JobOK' /\ job'.pc # "delete"
  BY <1>0, RestOK DEF Job
<1>2. node' \in [Nodes -> NodeObject]
  <2>1. node' \in {node, [node EXCEPT ![n] = [NewNode EXCEPT !.exists = FALSE]]}
    BY DEF DeleteNode
  <2> QED
    BY <2>1, JobTypes DEF TypeInv, Typed
<1>3. CASE fails' = [fails EXCEPT ![n] = 0] /\ UNCHANGED faults
  <2>1. Typed'
    BY <1>0, <1>1, <1>2, <1>3 DEF TypeInv, Typed
  <2>2. 0 <= Threshold - 1
    BY NodeAssumption
  <2>3. FailsBounded'
    BY <1>0, <1>1, <1>3, <2>1, <2>2, CountFails
  <2> QED
    BY <1>1, <2>1, <2>3 DEF TypeInv
<1>4. CASE fails' = fails /\ Spend("err")
  <2>1. /\ faults' \in [FaultKinds -> Nat] /\ faults'["err"] <= Limit["err"]
        /\ faults'["err"] >= faults["err"] /\ faults'["err"] = faults["err"] + 1
    BY <1>4, SpendType DEF TypeInv, FaultKinds
  <2>2. Typed'
    BY <1>0, <1>1, <1>2, <2>1 DEF TypeInv, Typed
  <2>3. FailsBounded'
    BY <1>1, <1>4, <2>1, <2>2, QuietFails
  <2> QED
    BY <1>1, <2>2, <2>3 DEF TypeInv
<1> QED
  BY <1>3, <1>4 DEF DeleteNode

LEMMA WriteType == ASSUME TypeInv, RemoveTaint \/ UpdateStatus PROVE TypeInv'
<1> DEFINE n == job.cur
<1>0. job \in Job /\ job.pc \in {"taint", "status"} /\ n \in Nodes /\ UNCHANGED <<vm, fails>>
  BY DEF TypeInv, Typed, JobOK, RemoveTaint, UpdateStatus, At
<1>1. job' \in Job /\ JobOK' /\ job'.pc # "delete"
  <2>1. CASE job' = Rest(job.todo)
    BY <1>0, <2>1, RestOK DEF Job
  <2>2. CASE job' = [Goto("status") EXCEPT !.fresh = @ \ {n}]
    <3>1. job' \in Job /\ job'.pc = "status" /\ job'.cur = n
      BY <1>0, <2>2 DEF Goto, Job
    <3> QED
      BY <1>0, <3>1 DEF JobOK
  <2> QED
    BY <2>1, <2>2 DEF RemoveTaint, UpdateStatus, NextNode
<1>2. node' \in [Nodes -> NodeObject]
  <2>1. \/ node' = node
        \/ node' = [node EXCEPT ![n].taint = FALSE]
        \/ node' = [node EXCEPT ![n].addr = job.answer = "ok"]
    BY DEF RemoveTaint, UpdateStatus
  <2>2. node \in [Nodes -> NodeObject] /\ (job.answer = "ok") \in BOOLEAN
    BY DEF TypeInv, Typed
  <2> QED
    BY <1>0, <2>1, <2>2, ZenonT(40) DEF NodeObject
<1>3. /\ faults' \in [FaultKinds -> Nat] /\ faults'["err"] <= Limit["err"]
      /\ faults'["err"] >= faults["err"]
  <2>1. CASE UNCHANGED faults
    BY <2>1 DEF TypeInv, Typed, FailsBounded, FaultKinds
  <2>2. CASE Spend("err")
    BY <2>2, SpendType DEF TypeInv, FaultKinds
  <2> QED
    BY <2>1, <2>2 DEF RemoveTaint, UpdateStatus
<1>4. Typed'
  BY <1>0, <1>1, <1>2, <1>3 DEF TypeInv, Typed
<1>5. FailsBounded'
  BY <1>0, <1>1, <1>3, <1>4, QuietFails
<1> QED
  BY <1>1, <1>4, <1>5 DEF TypeInv

(* Kubelets, administrators and CloudSigma. *)
LEMMA OtherType ==
  ASSUME TypeInv, NEW n \in Nodes, Register(n) \/ RemoveNode(n) \/ OtherWrite(n) \/ VMChanges(n)
  PROVE  TypeInv'
<1>0. job \in Job /\ node \in [Nodes -> NodeObject] /\ vm \in [Nodes -> Answers] /\ UNCHANGED fails
  BY DEF TypeInv, Typed, Register, RemoveNode, OtherWrite, VMChanges
<1>1. job' \in Job /\ job'.pc = job.pc /\ job'.cur = job.cur
  BY <1>0 DEF Register, RemoveNode, OtherWrite, VMChanges, Job
<1>2. node' \in [Nodes -> NodeObject] /\ vm' \in [Nodes -> Answers]
  BY <1>0, JobTypes DEF Register, RemoveNode, OtherWrite, VMChanges
<1>3. /\ faults' \in [FaultKinds -> Nat] /\ faults'["err"] <= Limit["err"]
      /\ faults'["err"] >= faults["err"]
  BY SpendType DEF TypeInv, FaultKinds, Register, RemoveNode, OtherWrite, VMChanges
<1>4. Typed' /\ JobOK'
  BY <1>1, <1>2, <1>3 DEF TypeInv, Typed, JobOK
<1>5. FailsBounded'
  BY <1>0, <1>1, <1>3, <1>4, QuietFails
<1> QED
  BY <1>4, <1>5 DEF TypeInv

LEMMA CrashType == ASSUME TypeInv, Crash PROVE TypeInv'
<1>1. job' = Idle /\ UNCHANGED <<node, vm>> /\ fails' = [n \in Nodes |-> 0]
  BY DEF Crash
<1>2. faults' \in [FaultKinds -> Nat] /\ faults'["err"] <= Limit["err"] /\ faults'["err"] \in Nat
  BY SpendType DEF TypeInv, FaultKinds, Crash
<1>3. Typed' /\ JobOK'
  BY <1>1, <1>2, JobTypes DEF TypeInv, Typed, JobOK
<1>4. \A n \in Nodes : Pending(n)' = 0
  BY <1>1, JobTypes DEF Pending
<1>5. FailsBounded'
  BY <1>1, <1>2, <1>4, NodeAssumption DEF FailsBounded
<1> QED
  BY <1>3, <1>5 DEF TypeInv

(* Every step keeps the types. *)
LEMMA NextType == TypeInv /\ [Next]_vars => TypeInv'
<1> SUFFICES ASSUME TypeInv, [Next]_vars PROVE TypeInv'
  OBVIOUS
<1>1. CASE UNCHANGED vars
  BY <1>1 DEF vars, TypeInv, Typed, JobOK, FailsBounded, Pending
<1> QED
  BY <1>1, ReadType, StaleType, DeleteType, WriteType, OtherType, CrashType DEF Next, Step

(* TypeOK holds throughout: in particular a node is asked for at most so    *)
(* many times after the threshold as requests have failed, however often it *)
(* is removed and registers anew.                                           *)
THEOREM TypeCorrect == Spec => []TypeOK
<1>1. Spec => []TypeInv
  BY InitType, NextType, PTL DEF Spec
<1>2. TypeInv => TypeOK
  <2> SUFFICES ASSUME TypeInv PROVE TypeOK
    OBVIOUS
  <2>1. Threshold \in Nat /\ Limit["err"] \in Nat /\ faults["err"] \in Nat
    BY NodeAssumption DEF FaultKinds, TypeInv, Typed
  <2>2. ASSUME NEW n \in Nodes PROVE fails[n] \in 0..(Threshold + Limit["err"])
    <3>1. fails[n] \in Nat /\ fails[n] <= Threshold - 1 + faults["err"] + Pending(n)
          /\ faults["err"] <= Limit["err"] /\ Pending(n) \in {0, 1}
      BY DEF TypeInv, FailsBounded, Pending
    <3> QED
      BY <2>1, <3>1
  <2>3. fails \in [Nodes -> 0..(Threshold + Limit["err"])]
    BY <2>2 DEF TypeInv, FailsBounded
  <2> QED
    BY <2>3 DEF TypeInv, Typed, TypeOK
<1> QED
  BY <1>1, <1>2, PTL

-----------------------------------------------------------------------------
(* Addresses come after the initialization.  A copy whose version is fresh  *)
(* is what is stored, and the update of the status is reached with a fresh  *)
(* version only if the copy had no taint: with a taint, the update that     *)
(* removes it makes the version stale.                                      *)

SnapFresh ==
    /\ job.cur \notin job.todo
    /\ \A n \in Nodes : n \in job.fresh /\ (n \in job.todo \/ job.cur = n) => node[n] = job.snap[n]

StatusUntainted ==
    job.pc = "status" /\ job.cur \in job.fresh => ~job.snap[job.cur].taint

AddressInv == SnapFresh /\ StatusUntainted /\ AddressedIsInitialized

(* The next node, or none: the copies are the same. *)
LEMMA RestAddress ==
  ASSUME TypeInv, AddressInv, NEW todo \in SUBSET job.todo, job' = Rest(todo),
         \A n \in todo : node'[n] = node[n], AddressedIsInitialized'
  PROVE  AddressInv'
<1>1. job \in Job /\ job.todo \subseteq Nodes /\ None \notin Nodes
  BY NodeAssumption DEF TypeInv, Typed, Job
<1>2. /\ job'.pc \in {"idle", "nodes"} /\ job'.cur = None /\ job'.todo = todo
      /\ job' = Idle \/ (job'.fresh = job.fresh /\ job'.snap = job.snap)
  BY <1>1, RestType
<1>3. SnapFresh'
  BY <1>1, <1>2, JobTypes DEF AddressInv, SnapFresh
<1>4. StatusUntainted'
  BY <1>2 DEF StatusUntainted
<1> QED
  BY <1>3, <1>4 DEF AddressInv

(* This node, with the copy that was listed. *)
LEMMA NodeAddress ==
  ASSUME TypeInv, AddressInv, NEW n \in job.todo, UNCHANGED node,
         job'.todo = job.todo \ {n}, job'.cur = n, job'.fresh = job.fresh, job'.snap = job.snap,
         job'.pc = "status" => ~job.snap[n].taint
  PROVE  AddressInv'
<1>1. SnapFresh' /\ StatusUntainted'
  BY DEF AddressInv, SnapFresh, StatusUntainted
<1> QED
  BY <1>1 DEF AddressInv, AddressedIsInitialized

(* Every step keeps addresses behind the initialization. *)
LEMMA NextAddress == TypeInv /\ AddressInv /\ [Next]_vars => AddressInv'
<1> SUFFICES ASSUME TypeInv, AddressInv, [Next]_vars PROVE AddressInv'
  OBVIOUS
<1>0. job \in Job /\ job.todo \subseteq Nodes /\ node \in [Nodes -> NodeObject] /\ None \notin Nodes
  BY NodeAssumption DEF TypeInv, Typed, Job
<1>1. CASE SyncNodes
  <2> DEFINE listed == {n \in Nodes : node[n].exists}
             snap == [n \in Nodes |-> IF n \in listed THEN node[n] ELSE NewNode]
  <2>1. job' = [Idle EXCEPT !.pc = "nodes", !.todo = listed, !.fresh = listed, !.snap = snap]
        /\ UNCHANGED node
    BY <1>1 DEF SyncNodes
  <2>2. listed \subseteq Nodes /\ \A n \in listed : snap[n] = node[n]
    OBVIOUS
  <2> HIDE DEF listed, snap
  <2>3. job'.pc = "nodes" /\ job'.todo = listed /\ job'.fresh = listed /\ job'.snap = snap /\ job'.cur = None
    BY <2>1, JobTypes DEF Idle
  <2>4. SnapFresh' /\ StatusUntainted'
    BY <1>0, <2>1, <2>2, <2>3 DEF SnapFresh, StatusUntainted
  <2> QED
    BY <2>1, <2>4 DEF AddressInv, AddressedIsInitialized
<1>2. CASE InitializedNode
  <2>1. PICK n \in job.todo :
          \/ job' = Rest(job.todo \ {n})
          \/ job' = [job EXCEPT !.todo = @ \ {n}, !.pc = "taint", !.cur = n]
    BY <1>2 DEF InitializedNode
  <2>2. UNCHANGED node /\ AddressedIsInitialized'
    BY <1>2 DEF InitializedNode, AddressInv, AddressedIsInitialized
  <2>3. CASE job' = Rest(job.todo \ {n})
    BY <2>2, <2>3, RestAddress
  <2>4. CASE job' = [job EXCEPT !.todo = @ \ {n}, !.pc = "taint", !.cur = n]
    BY <1>0, <2>2, <2>4, NodeAddress DEF Job
  <2> QED
    BY <2>1, <2>3, <2>4
<1>3. CASE LookupVM
  <2>1. PICK n \in job.todo :
          \/ job' = Rest(job.todo \ {n})
          \/ job' = [job EXCEPT !.todo = @ \ {n}, !.pc = AfterLookup(n, vm[n]), !.cur = n,
                                !.answer = vm[n]]
    BY <1>3 DEF LookupVM
  <2>2. UNCHANGED node /\ AddressedIsInitialized'
    BY <1>3 DEF LookupVM, AddressInv, AddressedIsInitialized
  <2>3. CASE job' = Rest(job.todo \ {n})
    BY <2>2, <2>3, RestAddress
  <2>4. CASE job' = [job EXCEPT !.todo = @ \ {n}, !.pc = AfterLookup(n, vm[n]), !.cur = n, !.answer = vm[n]]
    <3>1. AfterLookup(n, vm[n]) = "status" => ~job.snap[n].taint
      BY DEF AfterLookup
    <3> QED
      BY <1>0, <2>2, <2>4, <3>1, NodeAddress DEF Job
  <2> QED
    BY <2>1, <2>3, <2>4
<1>4. CASE HandleStaleNode
  <2>1. PICK n \in job.todo :
          \/ job' = Rest(job.todo \ {n})
          \/ job' = [job EXCEPT !.todo = @ \ {n}, !.pc = "delete", !.cur = n]
    BY <1>4 DEF HandleStaleNode
  <2>2. UNCHANGED node /\ AddressedIsInitialized'
    BY <1>4 DEF HandleStaleNode, AddressInv, AddressedIsInitialized
  <2>3. CASE job' = Rest(job.todo \ {n})
    BY <2>2, <2>3, RestAddress
  <2>4. CASE job' = [job EXCEPT !.todo = @ \ {n}, !.pc = "delete", !.cur = n]
    BY <1>0, <2>2, <2>4, NodeAddress DEF Job
  <2> QED
    BY <2>1, <2>3, <2>4
<1>5. CASE DeleteNode
  <2> DEFINE n == job.cur
  <2>1. /\ n \in Nodes /\ n \notin job.todo /\ job' = Rest(job.todo)
        /\ node' = node \/ node' = [node EXCEPT ![n] = [NewNode EXCEPT !.exists = FALSE]]
    BY <1>5 DEF DeleteNode, At, NextNode, TypeInv, JobOK, AddressInv, SnapFresh
  <2>2. AddressedIsInitialized'
    BY <1>0, <2>1, JobTypes DEF AddressInv, AddressedIsInitialized
  <2>3. \A m \in job.todo : node'[m] = node[m]
    BY <1>0, <2>1
  <2> QED
    BY <2>1, <2>2, <2>3, RestAddress
<1>6. CASE RemoveTaint
  <2> DEFINE n == job.cur
  <2>1. /\ n \in Nodes /\ n \notin job.todo
        /\ node' = node \/ node' = [node EXCEPT ![n].taint = FALSE]
        /\ job' = Rest(job.todo) \/ job' = [Goto("status") EXCEPT !.fresh = @ \ {n}]
    BY <1>6 DEF RemoveTaint, At, NextNode, TypeInv, JobOK, AddressInv, SnapFresh
  <2>2. \A m \in Nodes : node'[m].exists = node[m].exists /\ node'[m].addr = node[m].addr
                         /\ (node'[m].taint => node[m].taint)
    BY <1>0, <2>1 DEF NodeObject
  <2>3. AddressedIsInitialized'
    BY <2>2 DEF AddressInv, AddressedIsInitialized
  <2>4. \A m \in Nodes : m # n => node'[m] = node[m]
    BY <1>0, <2>1
  <2>5. CASE job' = Rest(job.todo)
    BY <1>0, <2>1, <2>3, <2>4, <2>5, RestAddress
  <2>6. CASE job' = [Goto("status") EXCEPT !.fresh = @ \ {n}]
    <3>1. /\ job'.todo = job.todo /\ job'.cur = n /\ job'.snap = job.snap
          /\ job'.fresh = job.fresh \ {n}
      BY <1>0, <2>6 DEF Goto, Job
    <3>2. SnapFresh' /\ StatusUntainted'
      BY <2>1, <2>4, <3>1 DEF AddressInv, SnapFresh, StatusUntainted
    <3> QED
      BY <2>3, <3>2 DEF AddressInv
  <2> QED
    BY <2>1, <2>5, <2>6
<1>7. CASE UpdateStatus
  <2> DEFINE n == job.cur
  <2>1. /\ n \in Nodes /\ n \notin job.todo /\ job.pc = "status" /\ job' = Rest(job.todo)
        /\ node' = node \/ (n \in job.fresh /\ node' = [node EXCEPT ![n].addr = job.answer = "ok"])
    BY <1>7 DEF UpdateStatus, At, NextNode, TypeInv, JobOK, AddressInv, SnapFresh
  <2>2. \A m \in Nodes : m # n => node'[m] = node[m]
    BY <1>0, <2>1
  <2>3. n \in job.fresh => ~node[n].taint
    BY <2>1 DEF AddressInv, SnapFresh, StatusUntainted
  <2>4. n \in job.fresh /\ node' = [node EXCEPT ![n].addr = job.answer = "ok"] => ~node'[n].taint
    BY <1>0, <2>1, <2>3 DEF NodeObject
  <2>5. AddressedIsInitialized'
    BY <2>1, <2>2, <2>4 DEF AddressInv, AddressedIsInitialized
  <2> QED
    BY <1>0, <2>1, <2>2, <2>5, RestAddress
<1>8. ASSUME NEW n \in Nodes, Register(n) \/ RemoveNode(n) \/ OtherWrite(n) PROVE AddressInv'
  <2>1. /\ job' = [job EXCEPT !.fresh = @ \ {n}]
        /\ node' = node \/ node' = [node EXCEPT ![n] = NewNode]
           \/ node' = [node EXCEPT ![n] = [NewNode EXCEPT !.exists = FALSE]]
    BY <1>8 DEF Register, RemoveNode, OtherWrite
  <2>2. /\ job'.todo = job.todo /\ job'.cur = job.cur /\ job'.snap = job.snap /\ job'.pc = job.pc
        /\ job'.fresh = job.fresh \ {n}
    BY <1>0, <2>1 DEF Job
  <2>3. (\A m \in Nodes : m # n => node'[m] = node[m]) /\ (node'[n] = node[n] \/ ~node'[n].addr)
    BY <1>0, <2>1, JobTypes
  <2>4. SnapFresh' /\ StatusUntainted'
    BY <2>2, <2>3 DEF AddressInv, SnapFresh, StatusUntainted
  <2>5. AddressedIsInitialized'
    BY <2>3 DEF AddressInv, AddressedIsInitialized
  <2> QED
    BY <2>4, <2>5 DEF AddressInv
<1>9. CASE Crash
  <2>1. job' = Idle /\ UNCHANGED node
    BY <1>9 DEF Crash
  <2>2. SnapFresh' /\ StatusUntainted'
    BY <2>1, JobTypes DEF SnapFresh, StatusUntainted
  <2> QED
    BY <2>1, <2>2 DEF AddressInv, AddressedIsInitialized
<1>10. CASE UNCHANGED <<node, job>>
  BY <1>10 DEF AddressInv, SnapFresh, StatusUntainted, AddressedIsInitialized
<1>11. (\E n \in Nodes : VMChanges(n)) \/ UNCHANGED vars => UNCHANGED <<node, job>>
  BY DEF VMChanges, vars
<1> QED
  BY <1>1, <1>2, <1>3, <1>4, <1>5, <1>6, <1>7, <1>8, <1>9, <1>10, <1>11 DEF Next, Step

(* A node has an address only once its taint is off, whatever is written,   *)
(* lost, removed and registered anew between the two updates.               *)
THEOREM AddressesLast == Spec => []AddressedIsInitialized
<1>1. Init => AddressInv
  BY JobTypes DEF Init, AddressInv, SnapFresh, StatusUntainted, AddressedIsInitialized
<1>2. TypeInv /\ AddressInv /\ [Next]_vars => TypeInv' /\ AddressInv'
  BY NextType, NextAddress
<1>3. Spec => [](TypeInv /\ AddressInv)
  BY InitType, <1>1, <1>2, PTL DEF Spec
<1>4. TypeInv /\ AddressInv => AddressedIsInitialized
  BY DEF AddressInv
<1> QED
  BY <1>3, <1>4, PTL
=============================================================================
