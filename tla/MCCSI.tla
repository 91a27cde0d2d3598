-------------------------------- MODULE MCCSI --------------------------------
(* CSIController on small instances: three sets of calls. *)
EXTENDS CSIController, TLC

CONSTANTS Scenario, k1, k2, k3, k4, k5, k6, k7, d1, d2, n1, n2, va, vb

Publish(d, n) == [op |-> "publish", drive |-> d, server |-> n, name |-> None]
Unpublish(d, n) == [op |-> "unpublish", drive |-> d, server |-> n, name |-> None]
Create(v) == [op |-> "create", drive |-> None, server |-> None, name |-> v]
Delete(d) == [op |-> "delete", drive |-> d, server |-> None, name |-> None]

MCInitialName == [d \in Drives |-> CASE d = d1 -> vb [] d = d2 -> va [] OTHER -> None]

(* calls: d1 moves from n2 to n1 while it is being detached from n2; d2 is  *)
(*   attached to n1 at the same time, then detached and deleted; its name   *)
(*   is asked for again.                                                    *)
(* detach: a drive is detached while another is attached to the server.     *)
(* migrate: a drive moves away while another is attached to the server.     *)
MCRequest ==
    CASE Scenario = "calls"   -> k1 :> Publish(d1, n2) @@ k2 :> Publish(d2, n1)
                                 @@ k3 :> Create(va) @@ k4 :> Publish(d1, n1)
                                 @@ k5 :> Unpublish(d2, n1) @@ k6 :> Delete(d2)
                                 @@ k7 :> Unpublish(d1, n2)
      [] Scenario = "detach"  -> k1 :> Publish(d1, n1) @@ k2 :> Unpublish(d1, n1)
                                 @@ k3 :> Publish(d2, n1)
      [] Scenario = "migrate" -> k1 :> Publish(d1, n1) @@ k2 :> Publish(d1, n2)
                                 @@ k3 :> Publish(d2, n1)

MCAfter ==
    IF Scenario = "calls"
    THEN k1 :> {} @@ k2 :> {} @@ k3 :> {k4, k5, k7} @@ k4 :> {k1}
         @@ k5 :> {k2} @@ k6 :> {k2} @@ k7 :> {k1}
    ELSE k1 :> {} @@ k2 :> {k1} @@ k3 :> {k1}
=============================================================================
