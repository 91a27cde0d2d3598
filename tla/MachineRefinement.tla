------------------------- MODULE MachineRefinement -------------------------
(* MachineController implements ServerLifecycle. *)
EXTENDS MachineController

(* What the stored object of a machine amounts to. *)
ClaimOf(o) ==
    IF ~o.exists THEN "gone"
    ELSE IF o.deleting THEN "leaving"
    ELSE IF o.finalizer THEN "held"
    ELSE "new"

(* A server is alive in all four states CloudSigma reports. *)
VMOf(v) == [v EXCEPT !.state = IF v.state \in Alive THEN "alive" ELSE v.state]

Lifecycle == INSTANCE ServerLifecycle WITH
    Exclusive <- ~ListLag,
    claim     <- [m \in Machines |-> ClaimOf(obj[m])],
    record    <- [m \in Machines |-> obj[m].instanceID],
    vm        <- [s \in ServerIds |-> VMOf(srv[s])]

(* Behind the lagging cache, refused writes, lost answers and crashes, the  *)
(* reconciler (Reconcile, reconcileNormal, reconcileDelete) acts as if each *)
(* of its decisions were taken atomically on the stored object: a server is *)
(* created for a machine that the finalizer holds and that has no live      *)
(* server in the account, if the list is complete; a record names a server  *)
(* created for that machine; what is gone stays gone.                       *)
ImplementsLifecycle == Lifecycle!Spec
=============================================================================
