--------------------------- MODULE ServerLifecycle ---------------------------
(***************************************************************************)
(* What the machine controller promises, without caches, versions, retries *)
(* or program points: servers are created one at a time for machines that  *)
(* are held by the finalizer, a machine records servers of its own only,   *)
(* and a machine that is gone is gone for good, its last record with it.   *)
(* MachineController implements this specification (MachineRefinement).    *)
(***************************************************************************)
CONSTANTS
    Machines, ServerIds, Accounts,
    Exclusive,   \* TRUE: at most one live server per machine and account
    None

VARIABLES
    claim,   \* of each machine: new, held by the finalizer, leaving, or gone
    record,  \* the server each machine records
    vm       \* the servers: state, the machine and the account of each

absVars == <<claim, record, vm>>

Claims == {"new", "held", "leaving", "gone"}

Init ==
    /\ claim = [m \in Machines |-> "new"]
    /\ record = [m \in Machines |-> None]
    /\ vm = [s \in ServerIds |-> [state |-> "unused", uid |-> None, acct |-> None]]

(* The finalizer is there before anything is created. *)
Hold(m) ==
    /\ claim[m] = "new"
    /\ claim' = [claim EXCEPT ![m] = "held"]
    /\ UNCHANGED <<record, vm>>

(* The user deletes the machine: only one that is held has to be waited for. *)
Delete(m) ==
    /\ \/ claim[m] = "new" /\ claim' = [claim EXCEPT ![m] = "gone"]
       \/ claim[m] = "held" /\ claim' = [claim EXCEPT ![m] = "leaving"]
    /\ UNCHANGED <<record, vm>>

(* The controller lets the machine go. *)
Release(m) ==
    /\ claim[m] = "leaving"
    /\ claim' = [claim EXCEPT ![m] = "gone"]
    /\ UNCHANGED <<record, vm>>

(* A new server, for a machine that is held and has none in the account. *)
Create(m, a, s) ==
    /\ claim[m] \in {"held", "leaving"}
    /\ vm[s].state = "unused"
    /\ Exclusive => \A t \in ServerIds : vm[t].state = "alive" => vm[t].uid # m \/ vm[t].acct # a
    /\ vm' = [vm EXCEPT ![s] = [state |-> "alive", uid |-> m, acct |-> a]]
    /\ UNCHANGED <<claim, record>>

(* The machine records a server that was created for it, or forgets it. *)
Record(m, s) ==
    /\ claim[m] \in {"held", "leaving"}
    /\ s # None => vm[s].uid = m
    /\ record' = [record EXCEPT ![m] = s]
    /\ UNCHANGED <<claim, vm>>

(* The controller, or the owner of the account, deletes a server. *)
Destroy(s) ==
    /\ vm[s].state = "alive"
    /\ vm' = [vm EXCEPT ![s].state = "gone"]
    /\ UNCHANGED <<claim, record>>

Next ==
    \/ \E m \in Machines :
         \/ Hold(m) \/ Delete(m) \/ Release(m)
         \/ \E s \in ServerIds \cup {None} : Record(m, s)
         \/ \E a \in Accounts, s \in ServerIds : Create(m, a, s)
    \/ \E s \in ServerIds : Destroy(s)

Spec == Init /\ [][Next]_absVars
=============================================================================
