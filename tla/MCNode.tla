-------------------------------- MODULE MCNode --------------------------------
(* NodeController on small instances. *)
EXTENDS NodeController, TLC

CONSTANTS VMs, Writes, Errors, Removals, Crashes

MCLimit == "vm" :> VMs @@ "write" :> Writes @@ "err" :> Errors
           @@ "remove" :> Removals @@ "crash" :> Crashes
=============================================================================
