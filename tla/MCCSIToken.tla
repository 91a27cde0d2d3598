----------------------------- MODULE MCCSIToken -----------------------------
(* CSIToken on small instances: a tick is 100 seconds. *)
EXTENDS CSIToken, TLC

CONSTANTS LifeSA, LifeRPT, LifeUser

MCLifetimes == "sa" :> LifeSA @@ "rpt" :> LifeRPT @@ "user" :> LifeUser
=============================================================================
