------------------------------ MODULE CSIToken ------------------------------
(***************************************************************************)
(* The CSI token controller of the CCM                                     *)
(* (ccm/controllers/csi_token_controller.go) on top of the impersonation   *)
(* client: its one goroutine writes the user's token into a secret, with   *)
(* retries until it succeeds the first time, then at every tick of a       *)
(* ticker, and shares the client with the other controllers of the CCM.    *)
(* The namespace and the API server of the tenant cluster are abstracted   *)
(* to requests that may fail.                                              *)
(***************************************************************************)
EXTENDS ImpersonationClient

CONSTANTS
    Controller,   \* the caller that is this controller
    Refresh,      \* TokenRefreshInterval, in ticks
    ShortestLife, \* of a user's token
    MaxRestarts

ASSUME TokenControllerAssumption ==
    /\ Controller \in Callers
    /\ Refresh \in Nat /\ Refresh > MaxAge
    /\ ShortestLife \in Nat /\ \A l \in Lifetimes["user"] : l >= ShortestLife
    /\ MaxRestarts \in Nat

VARIABLES
    loop,      \* where provisioningLoop and refreshLoop are
    mode,      \* which of the two runs
    timer,     \* ticks to the next tick of the ticker
    due,       \* the ticker's channel has one
    secret,    \* the token in the secret
    stale,     \* history: for how long refreshLoop has had an expired token there
    missed,    \* history: the refreshes that failed since the last success
    restarts

vars == <<clientVars, loop, mode, timer, due, secret, stale, missed, restarts>>
controllerVars == <<loop, mode, timer, due, secret, stale, missed, restarts>>

Init ==
    /\ ClientInit
    /\ loop = "namespace"
    /\ mode = "provision"
    /\ timer = Refresh
    /\ due = FALSE
    /\ secret = NoToken
    /\ stale = 0
    /\ missed = 0
    /\ restarts = 0

-----------------------------------------------------------------------------
(* The end of ensureCSIToken: the first success starts the ticker, a        *)
(* failure is retried after a back-off only before that.                    *)
Done ==
    /\ loop' = "sleep"
    /\ mode' = "refresh"
    /\ missed' = 0
    /\ UNCHANGED <<timer, due, restarts>>

FailedRetrying ==
    /\ loop' = IF mode = "provision" THEN "backoff" ELSE "sleep"
    /\ missed' = IF mode = "provision" THEN 0 ELSE missed + 1
    /\ UNCHANGED <<mode, timer, due, restarts>>

FailedForever ==
    /\ loop' = "sleep"
    /\ missed' = IF mode = "provision" THEN 0 ELSE missed + 1
    /\ UNCHANGED <<mode, timer, due, restarts>>

Failed == FailedRetrying

(* ensureCSIToken: ensureNamespace, then the client's cache. *)
EnsureNamespace ==
    /\ loop = "namespace"
    /\ \/ GetImpersonatedToken(Controller) /\ loop' = "token" /\ UNCHANGED <<mode, timer, due, missed, restarts>>
       \/ Spend /\ UNCHANGED <<cache, call>> /\ Failed
    /\ UNCHANGED <<secret, stale>>

FetchToken ==
    /\ loop = "token"
    /\ \/ Fetch(Controller) /\ UNCHANGED <<loop, mode, timer, due, missed, restarts>>
       \/ RequestFails(Controller) /\ Failed
    /\ UNCHANGED <<secret, stale>>

(* The secret is created or updated; of a failed request it is not known    *)
(* whether it had its effect.                                               *)
WriteOnce(t) == IF mode = "refresh" THEN UNCHANGED <<secret, stale>> ELSE secret' = t /\ stale' = 0
Write(t) == secret' = t /\ stale' = 0

EnsureSecret ==
    /\ loop = "token"
    /\ Return(Controller)
    /\ \/ Write(call[Controller].held["user"]) /\ UNCHANGED errors /\ Done
       \/ Spend /\ Failed /\ (Write(call[Controller].held["user"]) \/ UNCHANGED <<secret, stale>>)

(* time.After(backoff), and the ticker. *)
Retry ==
    /\ loop = "backoff"
    /\ loop' = "namespace"
    /\ UNCHANGED <<clientVars, mode, timer, due, secret, stale, missed, restarts>>

TickerFires ==
    /\ loop = "sleep"
    /\ due
    /\ loop' = "namespace"
    /\ due' = FALSE
    /\ UNCHANGED <<clientVars, mode, timer, secret, stale, missed, restarts>>

ControllerStep == EnsureNamespace \/ FetchToken \/ EnsureSecret \/ Retry \/ TickerFires

-----------------------------------------------------------------------------
(* The node and the LoadBalancer controller use the same client. *)
OtherCaller(k) ==
    /\ k # Controller
    /\ \/ GetImpersonatedToken(k)
       \/ Fetch(k)
       \/ RequestFails(k)
       \/ Return(k) /\ UNCHANGED errors
    /\ UNCHANGED controllerVars

(* Nobody is left waiting for a tick: goroutines wake up at once, and the   *)
(* tenant cluster answers or refuses sooner than that.                      *)
Prompt == loop # "namespace" /\ ~(loop = "sleep" /\ due)

Tick ==
    /\ Prompt
    /\ ClientTick
    /\ secret' = Older(secret)
    /\ stale' = IF mode = "refresh" /\ secret.real = 0 THEN stale + 1 ELSE stale
    /\ timer' = IF mode = "provision" THEN timer ELSE IF timer = 1 THEN Refresh ELSE timer - 1
    /\ due' = (due \/ (mode = "refresh" /\ timer = 1))
    /\ UNCHANGED <<loop, mode, missed, restarts>>

(* The CCM restarts, and provisions from the beginning. *)
Restart ==
    /\ restarts < MaxRestarts
    /\ restarts' = restarts + 1
    /\ ClientRestart
    /\ loop' = "namespace"
    /\ mode' = "provision"
    /\ timer' = Refresh
    /\ due' = FALSE
    /\ stale' = 0
    /\ missed' = 0
    /\ UNCHANGED secret

Next ==
    \/ ControllerStep
    \/ \E k \in Callers : OtherCaller(k)
    \/ Tick
    \/ Restart

Spec == Init /\ [][Next]_vars

(* Go runs every goroutine, HTTP requests end by their timeout, and time    *)
(* passes.                                                                  *)
FairSpec ==
    /\ Spec
    /\ WF_vars(ControllerStep)
    /\ \A k \in Callers : WF_vars(k # Controller /\ (Fetch(k) \/ Return(k)) /\ UNCHANGED <<errors, controllerVars>>)
    /\ WF_vars(Tick)

-----------------------------------------------------------------------------
(* Properties *)

(* The controller's variables stay in their types; the client is asked by   *)
(* ensureCSIToken only.                                                     *)
TypeOK ==
    /\ ClientTypeOK
    /\ loop \in {"namespace", "token", "backoff", "sleep"}
    /\ mode \in {"provision", "refresh"}
    /\ timer \in 1..Refresh
    /\ due \in BOOLEAN
    /\ secret \in Token
    /\ stale \in Nat /\ missed \in Nat /\ restarts \in Nat
    /\ ~At(Controller, "idle") <=> loop = "token"

(* The least a token has left when it is written: from the cache, or as it  *)
(* was fetched.                                                             *)
LeastLeft ==
    IF Buffer - 2 * MaxAge <= ShortestLife - MaxAge THEN Buffer - 2 * MaxAge ELSE ShortestLife - MaxAge

(* "Tokens auto-refreshed by CCM before expiry": not always.  A token may   *)
(* come from the cache with no more than the buffer of five minutes left    *)
(* and is replaced ten minutes later.  But the secret has an expired token  *)
(* for no longer than the difference, and for one interval more for every   *)
(* refresh that failed.                                                     *)
SecretGapBounded ==
    stale > 0 => stale <= (1 + missed) * Refresh + MaxAge - LeastLeft

(* "ensureCSIToken ensures the CSI token secret exists and is valid": once  *)
(* requests succeed, valid again and again.                                 *)
SecretRecovers == []<>(secret.real > 0)
=============================================================================
