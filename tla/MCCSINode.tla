------------------------------- MODULE MCCSINode -------------------------------
(* CSINode on small instances. *)
EXTENDS CSINode, TLC

CONSTANTS Errors, Timeouts, Restarts, Reboots

MCLimit == "err" :> Errors @@ "timeout" :> Timeouts @@ "restart" :> Restarts @@ "reboot" :> Reboots
=============================================================================
