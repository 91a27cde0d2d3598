------------------------ MODULE ImpersonationClient ------------------------
(***************************************************************************)
(* The impersonation client (pkg/auth/impersonation.go): three caches of   *)
(* tokens shared by the goroutines of a process.  A user's token is        *)
(* fetched with the service account's token and an RPT token, each in a    *)
(* request of its own, with no lock held over a request; goroutines that   *)
(* miss a cache at the same time fetch at the same time and the last one   *)
(* to answer overwrites the cache.                                         *)
(*                                                                         *)
(* Time passes in ticks.  A token counts its ticks down: real to the end   *)
(* CloudSigma has set, from the moment it is issued; ttl to expiresAt,     *)
(* which the client computes when the answer has arrived.  One user, one   *)
(* region: the cache key of all callers in a CCM.                          *)
(***************************************************************************)
EXTENDS Integers

CONSTANTS
    Callers,      \* goroutines that ask for the user's token
    Buffer,       \* TokenExpiryBuffer, in ticks
    Lifetimes,    \* the lifetimes CloudSigma gives to the tokens of each kind
    DefaultLife,  \* assumed for a user's token without expires_in
    MaxAge,       \* ticks that can pass during a fetch: three HTTP timeouts
    MaxErrors

Kinds == {"sa", "rpt", "user"}

(* The buffer covers the fetch twice: the token may be older than expiresAt *)
(* says by the time its own request took, and is used a request later.  A   *)
(* token without expires_in lives as long as the client assumes.            *)
ASSUME ClientAssumption ==
    /\ MaxAge \in Nat /\ MaxErrors \in Nat
    /\ Buffer \in Nat /\ Buffer > 2 * MaxAge
    /\ DefaultLife \in Nat
    /\ Lifetimes \in [Kinds -> SUBSET Nat] /\ \A c \in Kinds : \A l \in Lifetimes[c] : l > MaxAge

VARIABLES
    cache,   \* saToken, rptToken and tokenCache with their expiry
    call,    \* where each GetImpersonatedToken is
    errors

clientVars == <<cache, call, errors>>

Token == [real: Nat, ttl: Nat]
NoToken == [real |-> 0, ttl |-> 0]

(* pc: the token to be had next; sent: its request is under way. *)
Call == [pc: Kinds \cup {"idle", "done"}, sent: BOOLEAN, held: [Kinds -> Token], age: 0..MaxAge]
NoCall == [pc |-> "idle", sent |-> FALSE, held |-> [c \in Kinds |-> NoToken], age |-> 0]

ClientInit ==
    /\ cache = [c \in Kinds |-> NoToken]
    /\ call = [k \in Callers |-> NoCall]
    /\ errors = 0

-----------------------------------------------------------------------------
Spend == errors < MaxErrors /\ errors' = errors + 1

At(k, p) == call[k].pc = p

(* IsExpired, for the user's token. *)
IsExpiredNoBuffer(t) == t.ttl = 0
IsExpired(t) == t.ttl < Buffer

(* The check of getServiceAccountToken and getRPTToken; theirs is strict. *)
UsableNoBuffer(t) == t.ttl > 0
Usable(t) == t.ttl > Buffer

After(c) == CASE c = "sa" -> "rpt" [] c = "rpt" -> "user" [] c = "user" -> "done"

(* Token c is there: on to the next.  With the user's token the others go   *)
(* out of scope.                                                            *)
Holding(k, c, t) ==
    IF c = "user" THEN [NoCall.held EXCEPT !["user"] = t] ELSE [call[k].held EXCEPT ![c] = t]
HaveStillSent(k, c, t) ==
    call' = [call EXCEPT ![k].pc = After(c), ![k].held = Holding(k, c, t)]
Have(k, c, t) ==
    call' = [call EXCEPT ![k].pc = After(c), ![k].held = Holding(k, c, t), ![k].sent = FALSE]

(* GetImpersonatedToken up to the cache. *)
GetImpersonatedToken(k) ==
    /\ At(k, "idle")
    /\ \/ ~IsExpired(cache["user"]) /\ Have(k, "user", cache["user"])
       \/ IsExpired(cache["user"]) /\ call' = [call EXCEPT ![k].pc = "sa"]
    /\ UNCHANGED <<cache, errors>>

(* getServiceAccountToken and getRPTToken from their caches. *)
UseCached(k, c) ==
    /\ At(k, c) /\ c \in {"sa", "rpt"}
    /\ ~call[k].sent
    /\ Usable(cache[c])
    /\ Have(k, c, cache[c])
    /\ UNCHANGED <<cache, errors>>

(* expires_in, or what its absence means. *)
ExpiresIn(c, l, stated) ==
    IF stated THEN l ELSE IF c = "user" THEN DefaultLife ELSE 0

(* CloudSigma issues the token; the answer is on its way.  Without          *)
(* expires_in it lives DefaultLife at least.                                *)
Request(k, c) ==
    /\ At(k, c)
    /\ ~call[k].sent
    /\ c = "user" \/ ~Usable(cache[c])
    /\ \E l \in Lifetimes[c], stated \in BOOLEAN :
         /\ stated \/ l >= DefaultLife
         /\ call' = [call EXCEPT ![k].sent = TRUE,
                                 ![k].held[c] = [real |-> l, ttl |-> ExpiresIn(c, l, stated)]]
    /\ UNCHANGED <<cache, errors>>

(* The answer, with the lock for the cache. *)
Answer(k, c) ==
    /\ At(k, c)
    /\ call[k].sent
    /\ cache' = [cache EXCEPT ![c] = call[k].held[c]]
    /\ Have(k, c, call[k].held[c])
    /\ UNCHANGED errors

Fetch(k) == \E c \in Kinds : UseCached(k, c) \/ Request(k, c) \/ Answer(k, c)

(* A request fails, at CloudSigma or on the way: the call returns an error. *)
RequestFails(k) ==
    /\ call[k].pc \in Kinds
    /\ Spend
    /\ call' = [call EXCEPT ![k] = NoCall]
    /\ UNCHANGED cache

(* The caller has its token and uses it. *)
Return(k) ==
    /\ At(k, "done")
    /\ call' = [call EXCEPT ![k] = NoCall]
    /\ UNCHANGED cache

(* Time.  The answer on its way has no expiresAt yet. *)
Less(n) == IF n = 0 THEN 0 ELSE n - 1
Older(t) == [real |-> Less(t.real), ttl |-> Less(t.ttl)]
OnItsWay(t) == [t EXCEPT !.real = Less(@)]

ClientTick ==
    /\ \A k \in Callers : ~At(k, "idle") => call[k].age < MaxAge
    /\ cache' = [c \in Kinds |-> Older(cache[c])]
    /\ call' = [k \in Callers |->
                  IF At(k, "idle") THEN call[k]
                  ELSE [call[k] EXCEPT
                          !.age = @ + 1,
                          !.held = [c \in Kinds |-> IF call[k].sent /\ At(k, c) THEN OnItsWay(@[c])
                                                    ELSE Older(@[c])]]]
    /\ UNCHANGED errors

(* The process restarts. *)
ClientRestart ==
    /\ cache' = [c \in Kinds |-> NoToken]
    /\ call' = [k \in Callers |-> NoCall]
    /\ UNCHANGED errors

-----------------------------------------------------------------------------
(* Properties *)

(* The client's variables stay in their types; only a fetch has a request   *)
(* under way.                                                               *)
ClientTypeOK ==
    /\ cache \in [Kinds -> Token]
    /\ call \in [Callers -> Call]
    /\ errors \in Nat
    /\ \A k \in Callers : call[k].sent => call[k].pc \in Kinds

(* The tokens a request is made with: the service account's for the RPT     *)
(* token, both for the user's.                                              *)
Credentials(c) == CASE c = "sa" -> {} [] c = "rpt" -> {"sa"} [] c = "user" -> {"sa", "rpt"}

(* A token taken from its cache is not expired when, requests later, it is  *)
(* sent: neither the time its own answer took, nor the requests in between, *)
(* nor the older token of a goroutine that answered late outlast the        *)
(* buffer.                                                                  *)
CredentialsLive ==
    \A k \in Callers : call[k].pc \in Kinds /\ ~call[k].sent =>
        \A c \in Credentials(call[k].pc) : call[k].held[c].real > 0

(* "GetImpersonatedToken returns a valid impersonated token", cached or     *)
(* fetched, whatever other goroutines wrote to the cache.                   *)
ReturnsLive == \A k \in Callers : At(k, "done") => call[k].held["user"].real > 0
=============================================================================
