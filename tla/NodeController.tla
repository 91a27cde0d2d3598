---------------------------- MODULE NodeController ----------------------------
(***************************************************************************)
(* The node controller of the CCM (ccm/controllers/node_controller.go):    *)
(* every 30 seconds it lists the nodes, takes the initialization taint off *)
(* new ones, gives them the addresses of their VM, and deletes a node      *)
(* whose VM belongs to somebody else, which it counts 403 answers for.     *)
(*                                                                         *)
(* Data abstraction: of the addresses only matters whether an IP is among  *)
(* them; the resource version of a listed node is reduced to whether       *)
(* somebody wrote the node since (job.fresh).                              *)
(***************************************************************************)
EXTENDS Integers

CONSTANTS
    Nodes,
    Threshold,   \* 3 in the code
    Limit,       \* how often each kind of disturbance may happen
    None

FaultKinds == {"vm", "write", "err", "remove", "crash"}

ASSUME NodeAssumption ==
    /\ None \notin Nodes
    /\ Threshold \in Nat \ {0}
    /\ Limit \in [FaultKinds -> Nat]

VARIABLES
    node,     \* the stored Node objects
    vm,       \* what CloudSigma answers to a GET of the node's VM
    fails,    \* staleNodeFailures
    job,      \* the sync
    faults

vars == <<node, vm, fails, job, faults>>

(* noIP: the VM has no IP attached yet; error: any failure but a 403. *)
Answers == {"ok", "noIP", "denied", "error"}

NodeObject == [exists: BOOLEAN, taint: BOOLEAN, addr: BOOLEAN]
NewNode == [exists |-> TRUE, taint |-> TRUE, addr |-> FALSE]

Job == [pc: {"idle", "nodes", "taint", "status", "delete"}, todo: SUBSET Nodes,
        snap: [Nodes -> NodeObject], fresh: SUBSET Nodes, cur: Nodes \cup {None},
        answer: Answers \cup {"none"}]
Idle == [pc |-> "idle", todo |-> {}, snap |-> [n \in Nodes |-> NewNode], fresh |-> {},
         cur |-> None, answer |-> "none"]

Init ==
    /\ node = [n \in Nodes |-> [NewNode EXCEPT !.exists = FALSE]]
    /\ vm \in [Nodes -> Answers]
    /\ fails = [n \in Nodes |-> 0]
    /\ job = Idle
    /\ faults = [k \in FaultKinds |-> 0]

-----------------------------------------------------------------------------
Spend(k) == faults[k] < Limit[k] /\ faults' = [faults EXCEPT ![k] = @ + 1]

At(l) == job.pc = l

Goto(l) == [job EXCEPT !.pc = l]

(* On with the rest of the listed nodes. *)
Rest(todo) ==
    IF todo = {} THEN Idle
    ELSE [job EXCEPT !.pc = "nodes", !.todo = todo, !.cur = None, !.answer = "none"]

NextNode == job' = Rest(job.todo)

(* Nodes the cluster has now are listed, with their versions. *)
SyncNodes ==
    LET listed == {n \in Nodes : node[n].exists}
    IN  /\ At("idle")
        /\ listed # {}
        /\ job' = [Idle EXCEPT !.pc = "nodes", !.todo = listed, !.fresh = listed,
                               !.snap = [n \in Nodes |-> IF n \in listed THEN node[n] ELSE NewNode]]
        /\ UNCHANGED <<node, vm, fails, faults>>

(* reconcileNode: a node with its address and without the taint is done.    *)
(* Otherwise the VM is looked up, if the address is missing.  An error is   *)
(* no reason to leave the taint; only a 403 ends the reconcile.             *)
AddressesFirst(n, r) ==
    IF r \in {"ok", "noIP"} THEN "status" ELSE IF job.snap[n].taint THEN "taint" ELSE "nodes"

TaintDecides(n, r) == IF job.snap[n].taint THEN "taint" ELSE "nodes"

AfterLookup(n, r) ==
    IF job.snap[n].taint THEN "taint"
    ELSE IF r \in {"ok", "noIP"} THEN "status"
    ELSE "nodes"

InitializedNode ==
    /\ At("nodes")
    /\ \E n \in job.todo :
         /\ job.snap[n].addr
         /\ job' = IF job.snap[n].taint
                   THEN [job EXCEPT !.todo = @ \ {n}, !.pc = "taint", !.cur = n]
                   ELSE Rest(job.todo \ {n})
    /\ UNCHANGED <<node, vm, fails, faults>>

LookupVM ==
    /\ At("nodes")
    /\ \E n \in job.todo :
         LET r == vm[n]
         IN  /\ ~job.snap[n].addr
             /\ r # "denied"
             /\ job' = LET l == AfterLookup(n, r)
                       IN  IF l = "nodes" THEN Rest(job.todo \ {n})
                           ELSE [job EXCEPT !.todo = @ \ {n}, !.pc = l, !.cur = n, !.answer = r]
    /\ UNCHANGED <<node, vm, fails, faults>>

(* handleStaleNode.  An error may hide a deletion that was made; the count  *)
(* stays then.                                                              *)
EnoughOffByOne(k) == k > Threshold
Enough(k) == k >= Threshold

(* staleNodeFailures with one more failure of n. *)
CountedAnew(n) == [m \in Nodes |-> IF m = n THEN 1 ELSE 0]
Counted(n) == [fails EXCEPT ![n] = @ + 1]

HandleStaleNode ==
    /\ At("nodes")
    /\ \E n \in job.todo :
         /\ ~job.snap[n].addr
         /\ vm[n] = "denied"
         /\ fails' = Counted(n)
         /\ job' = IF Enough(fails'[n])
                   THEN [job EXCEPT !.todo = @ \ {n}, !.pc = "delete", !.cur = n]
                   ELSE Rest(job.todo \ {n})
    /\ UNCHANGED <<node, vm, faults>>

DeleteNode ==
    LET n == job.cur
        gone == [node EXCEPT ![n] = [NewNode EXCEPT !.exists = FALSE]]
    IN  /\ At("delete")
        /\ \/ node' = gone /\ fails' = [fails EXCEPT ![n] = 0] /\ UNCHANGED faults
           \/ Spend("err") /\ node' \in {node, gone} /\ UNCHANGED fails
        /\ NextNode
        /\ UNCHANGED vm

(* Update of the spec.  A conflict or an error, after which the update may  *)
(* have been made or not, ends the reconcile of the node.  The copy keeps   *)
(* its old version, so that the status update after it is refused, and the  *)
(* addresses have to wait for the next sync.                                *)
RemoveTaint ==
    LET n == job.cur
        untainted == [node EXCEPT ![n].taint = FALSE]
    IN  /\ At("taint")
        /\ \/ /\ n \in job.fresh
              /\ node' = untainted
              /\ IF job.answer \in {"ok", "noIP"}
                 THEN job' = [Goto("status") EXCEPT !.fresh = @ \ {n}]
                 ELSE NextNode
              /\ UNCHANGED faults
           \/ n \notin job.fresh /\ NextNode /\ UNCHANGED <<node, faults>>
           \/ Spend("err") /\ NextNode /\ UNCHANGED node
           \/ Spend("err") /\ NextNode /\ n \in job.fresh /\ node' = untainted
        /\ UNCHANGED <<vm, fails>>

UpdateStatus ==
    LET n == job.cur
        addressed == [node EXCEPT ![n].addr = job.answer = "ok"]
    IN  /\ At("status")
        /\ \/ n \in job.fresh /\ node' = addressed /\ UNCHANGED faults
           \/ n \notin job.fresh /\ UNCHANGED <<node, faults>>
           \/ Spend("err") /\ UNCHANGED node
           \/ Spend("err") /\ n \in job.fresh /\ node' = addressed
        /\ NextNode
        /\ UNCHANGED <<vm, fails>>

-----------------------------------------------------------------------------
(* The surroundings. *)

(* A kubelet registers its node: tainted, without an address. *)
Register(n) ==
    /\ ~node[n].exists
    /\ Spend("remove")
    /\ node' = [node EXCEPT ![n] = NewNode]
    /\ job' = [job EXCEPT !.fresh = @ \ {n}]
    /\ UNCHANGED <<vm, fails>>

(* Cluster API or an administrator deletes the node. *)
RemoveNode(n) ==
    /\ node[n].exists
    /\ Spend("remove")
    /\ node' = [node EXCEPT ![n] = [NewNode EXCEPT !.exists = FALSE]]
    /\ job' = [job EXCEPT !.fresh = @ \ {n}]
    /\ UNCHANGED <<vm, fails>>

(* The heartbeat of the kubelet, or anybody else, writes the node. *)
OtherWrite(n) ==
    /\ n \in job.fresh
    /\ Spend("write")
    /\ job' = [job EXCEPT !.fresh = @ \ {n}]
    /\ UNCHANGED <<node, vm, fails>>

(* The VM gets its IP, CloudSigma fails, the token belongs to another user. *)
VMChanges(n) ==
    /\ Spend("vm")
    /\ \E r \in Answers \ {vm[n]} : vm' = [vm EXCEPT ![n] = r]
    /\ UNCHANGED <<node, fails, job>>

Crash ==
    /\ Spend("crash")
    /\ fails' = [n \in Nodes |-> 0]
    /\ job' = Idle
    /\ UNCHANGED <<node, vm>>

Step ==
    \/ InitializedNode \/ LookupVM \/ HandleStaleNode \/ DeleteNode
    \/ RemoveTaint \/ UpdateStatus

Next ==
    \/ SyncNodes \/ Step \/ Crash
    \/ \E n \in Nodes : Register(n) \/ RemoveNode(n) \/ OtherWrite(n) \/ VMChanges(n)

Spec == Init /\ [][Next]_vars

(* The ticker fires, and every call of a sync returns. *)
FairSpec == Spec /\ WF_vars(SyncNodes) /\ WF_vars(Step)

-----------------------------------------------------------------------------
(* Properties *)

(* Every variable stays in its type; the failures of a node are counted up  *)
(* to the threshold, and past it only if its deletion fails.                *)
TypeOK ==
    /\ node \in [Nodes -> NodeObject]
    /\ vm \in [Nodes -> Answers]
    /\ fails \in [Nodes -> 0..(Threshold + Limit["err"])]
    /\ job \in Job
    /\ faults \in [FaultKinds -> Nat]

(* A node has an address only once it is initialized: of the two updates of *)
(* reconcileNode the one of the status never gets ahead of the one of the   *)
(* taint, though conflicts and lost answers separate them and the node may  *)
(* register anew in between.                                                *)
AddressedIsInitialized ==
    \A n \in Nodes : node[n].exists /\ node[n].addr => ~node[n].taint

(* A node whose VM has an IP loses its taint and gets its address, although *)
(* the status update right after the removal of the taint is always refused.*)
EventuallyInitialized ==
    \A n \in Nodes : <>[](node[n].exists /\ vm[n] = "ok" => ~node[n].taint /\ node[n].addr)

(* A node without an address whose VM belongs to somebody else is deleted.  *)
StaleEventuallyDeleted ==
    \A n \in Nodes : <>[](vm[n] = "denied" /\ node[n].exists => node[n].addr)
=============================================================================
