------------------------------ MODULE MCMachine ------------------------------
(* MachineController on small instances. *)
EXTENDS MachineRefinement, TLC

CONSTANTS Conflicts, Errors, Crashes, CloudChanges, UserChanges, Misread

MCLimit == "write" :> Conflicts @@ "err" :> Errors @@ "crash" :> Crashes
           @@ "cloud" :> CloudChanges @@ "user" :> UserChanges

(* The name of a machine is its UID: names are unique. *)
MCNameOf == [m \in Machines |-> m]

MCMisreadAs == [s \in ServerIds |-> Misread]

MCSymmetry == Permutations(ServerIds) \cup Permutations(Machines)
=============================================================================
