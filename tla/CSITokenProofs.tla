--------------------------- MODULE CSITokenProofs ---------------------------
(* Theorems about the impersonation client under the CSI token controller,  *)
(* for any callers, lifetimes, buffer and refresh interval.                 *)
EXTENDS CSIToken, TLAPS

-----------------------------------------------------------------------------
(* A token in a cache is at most MaxAge older than its expiresAt says.  The *)
(* tokens a call holds would outlast MaxAge ticks from its beginning; the   *)
(* one on its way is as much older than its ttl as the call is old.         *)

CacheDrift == \A c \in Kinds : cache[c].ttl <= cache[c].real + MaxAge

Lasts(r, c) == r.held[c].real + r.age > MaxAge

Sound(r) ==
    /\ r.sent => Lasts(r, r.pc) /\ r.held[r.pc].ttl <= r.held[r.pc].real + r.age
    /\ r.pc \in Kinds => \A c \in Credentials(r.pc) : Lasts(r, c)
    /\ r.pc = "done" => Lasts(r, "user")

LiveInv == CacheDrift /\ \A k \in Callers : Sound(call[k])

(* The order of the tokens, and what each needs. *)
LEMMA Order ==
  /\ After("sa") = "rpt" /\ After("rpt") = "user" /\ After("user") = "done"
  /\ Credentials("sa") = {} /\ Credentials("rpt") = {"sa"} /\ Credentials("user") = {"sa", "rpt"}
  BY DEF After, Credentials

(* The value of a call that does not run. *)
LEMMA NoCallType ==
  /\ NoToken \in Token /\ NoCall \in Call
  /\ NoCall.pc = "idle" /\ NoCall.sent = FALSE
  /\ NoCall.held \in [Kinds -> Token]
<1>1. NoToken \in Token
  BY DEF NoToken, Token
<1>2. 0 \in 0..MaxAge
  BY ClientAssumption
<1> QED
  BY <1>1, <1>2 DEF NoCall, Call

(* A call that does not run is sound. *)
LEMMA IdleSound ==
  ASSUME NEW r, r.pc = "idle", r.sent = FALSE
  PROVE  Sound(r)
  BY DEF Sound, Kinds

(* The step of one call, from the soundness of its result. *)
LEMMA OneCall ==
  ASSUME ClientTypeOK, LiveInv, NEW k \in Callers, NEW r \in Call, call' = [call EXCEPT ![k] = r],
         Sound(r), r.sent => r.pc \in Kinds,
         cache' \in [Kinds -> Token], CacheDrift', errors' \in Nat
  PROVE  ClientTypeOK' /\ LiveInv' /\ call'[k] = r /\ \A j \in Callers : j # k => call'[j] = call[j]
<1>1. call' \in [Callers -> Call] /\ call'[k] = r /\ \A j \in Callers : j # k => call'[j] = call[j]
  BY DEF ClientTypeOK
<1>2. \A j \in Callers : Sound(call'[j])
  BY <1>1 DEF LiveInv
<1>3. \A j \in Callers : call'[j].sent => call'[j].pc \in Kinds
  BY <1>1 DEF ClientTypeOK
<1> QED
  BY <1>1, <1>2, <1>3 DEF ClientTypeOK, LiveInv

(* A call has a token that outlasts it. *)
LEMMA HaveInv ==
  ASSUME ClientTypeOK, LiveInv, NEW k \in Callers, NEW c \in Kinds, NEW t \in Token, Have(k, c, t),
         call[k].pc = c \/ (call[k].pc = "idle" /\ c = "user"),
         t.real + call[k].age > MaxAge,
         cache' \in [Kinds -> Token], CacheDrift', errors' \in Nat
  PROVE  /\ ClientTypeOK' /\ LiveInv' /\ call'[k].pc # "idle"
         /\ \A j \in Callers : j # k => call'[j] = call[j]
<1> DEFINE r == [call[k] EXCEPT !.pc = After(c), !.held = Holding(k, c, t), !.sent = FALSE]
<1>0. call \in [Callers -> Call] /\ call[k] \in Call /\ Sound(call[k])
  BY DEF ClientTypeOK, LiveInv
<1>1. call' = [call EXCEPT ![k] = r]
  BY DEF Have
<1>2. /\ Holding(k, c, t) \in [Kinds -> Token]
      /\ Holding(k, c, t)[c] = t
      /\ c # "user" => \A d \in Kinds : d # c => Holding(k, c, t)[d] = call[k].held[d]
  <2>1. call[k].held \in [Kinds -> Token]
    BY <1>0 DEF Call
  <2>2. "user" \in Kinds
    BY DEF Kinds
  <2> QED
    BY <2>1, <2>2, NoCallType DEF Holding
<1>3. After(c) \in {"rpt", "user", "done"}
  BY Order DEF Kinds
<1>4. r \in Call /\ r.pc = After(c) /\ r.held = Holding(k, c, t) /\ r.sent = FALSE /\ r.age = call[k].age
  BY <1>0, <1>2, <1>3 DEF Call, Kinds
<1> HIDE DEF r
<1>5. r.held[c].real + r.age > MaxAge
  BY <1>2, <1>4
<1>6. Sound(r)
  <2>1. CASE c = "sa"
    BY <1>4, <1>5, <2>1, Order DEF Sound, Lasts
  <2>2. CASE c = "rpt"
    <3>1. call[k].pc = "rpt" /\ call[k].held["sa"].real + call[k].age > MaxAge
      BY <1>0, <2>2, Order DEF Sound, Lasts, Kinds
    <3>2. r.held["sa"].real + r.age > MaxAge
      BY <1>2, <1>4, <2>2, <3>1 DEF Kinds
    <3> QED
      BY <1>4, <1>5, <2>2, <3>2, Order DEF Sound, Lasts
  <2>3. CASE c = "user"
    BY <1>4, <1>5, <2>3, Order DEF Sound, Lasts, Kinds
  <2> QED
    BY <2>1, <2>2, <2>3 DEF Kinds
<1>7. r.pc # "idle"
  BY <1>3, <1>4
<1> QED
  BY <1>1, <1>4, <1>6, <1>7, OneCall

(* GetImpersonatedToken as far as the cache. *)
LEMMA GetInv ==
  ASSUME ClientTypeOK, LiveInv, NEW k \in Callers, GetImpersonatedToken(k)
  PROVE  /\ ClientTypeOK' /\ LiveInv' /\ call'[k].pc # "idle"
         /\ \A j \in Callers : j # k => call'[j] = call[j]
<1>0. /\ call[k] \in Call /\ call[k].pc = "idle" /\ call[k].sent = FALSE
      /\ "user" \in Kinds /\ cache["user"] \in Token
  BY DEF GetImpersonatedToken, At, ClientTypeOK, Call, Kinds
<1>1. cache' \in [Kinds -> Token] /\ CacheDrift' /\ errors' \in Nat
  BY DEF GetImpersonatedToken, ClientTypeOK, LiveInv, CacheDrift
<1>2. CASE ~IsExpired(cache["user"]) /\ Have(k, "user", cache["user"])
  <2>1. cache["user"].ttl <= cache["user"].real + MaxAge /\ cache["user"].ttl >= Buffer
    BY <1>0, <1>2, ClientAssumption DEF IsExpired, LiveInv, CacheDrift, Token
  <2>2. cache["user"].real + call[k].age > MaxAge
    BY <1>0, <2>1, ClientAssumption DEF Call, Token
  <2> QED
    BY <1>0, <1>1, <1>2, <2>2, HaveInv
<1>3. CASE call' = [call EXCEPT ![k].pc = "sa"]
  <2> DEFINE r == [call[k] EXCEPT !.pc = "sa"]
  <2>1. call' = [call EXCEPT ![k] = r] /\ r \in Call /\ r.pc = "sa" /\ r.sent = FALSE
    BY <1>0, <1>3 DEF Call, Kinds
  <2> HIDE DEF r
  <2>2. Sound(r)
    BY <2>1, Order DEF Sound
  <2> QED
    BY <1>1, <2>1, <2>2, OneCall
<1> QED
  BY <1>2, <1>3 DEF GetImpersonatedToken

(* A step of the fetch. *)
LEMMA FetchInv ==
  ASSUME ClientTypeOK, LiveInv, NEW k \in Callers, Fetch(k)
  PROVE  /\ ClientTypeOK' /\ LiveInv' /\ call[k].pc # "idle" /\ call'[k].pc # "idle"
         /\ \A j \in Callers : j # k => call'[j] = call[j]
<1>0. call[k] \in Call /\ Sound(call[k]) /\ call \in [Callers -> Call]
  BY DEF ClientTypeOK, LiveInv
<1>1. PICK c \in Kinds : UseCached(k, c) \/ Request(k, c) \/ Answer(k, c)
  BY DEF Fetch
<1>2. call[k].pc = c /\ c # "idle"
  BY <1>1 DEF UseCached, Request, Answer, At, Kinds
<1>3. cache[c] \in Token /\ call[k].held[c] \in Token /\ cache[c].ttl <= cache[c].real + MaxAge
  BY <1>0 DEF ClientTypeOK, LiveInv, CacheDrift, Call
<1>4. CASE UseCached(k, c)
  <2>1. cache' \in [Kinds -> Token] /\ CacheDrift' /\ errors' \in Nat
    BY <1>4 DEF UseCached, ClientTypeOK, LiveInv, CacheDrift
  <2>2. cache[c].real + call[k].age > MaxAge
    BY <1>0, <1>3, <1>4, ClientAssumption DEF UseCached, Usable, Call, Token
  <2> QED
    BY <1>2, <1>3, <1>4, <2>1, <2>2, HaveInv DEF UseCached
<1>5. CASE Request(k, c)
  <2>1. PICK l \in Lifetimes[c], stated \in BOOLEAN :
          /\ stated \/ l >= DefaultLife
          /\ call' = [call EXCEPT ![k].sent = TRUE,
                                  ![k].held[c] = [real |-> l, ttl |-> ExpiresIn(c, l, stated)]]
    BY <1>5 DEF Request
  <2> DEFINE t == [real |-> l, ttl |-> ExpiresIn(c, l, stated)]
             r == [call[k] EXCEPT !.sent = TRUE, !.held = [call[k].held EXCEPT ![c] = t]]
  <2>2. l \in Nat /\ l > MaxAge /\ ExpiresIn(c, l, stated) \in Nat /\ ExpiresIn(c, l, stated) <= l
    BY <2>1, ClientAssumption DEF ExpiresIn
  <2>3. t \in Token /\ t.real = l /\ t.ttl <= l
    BY <2>2 DEF Token
  <2>4. call' = [call EXCEPT ![k] = r]
    BY <1>0, <2>1
  <2> HIDE DEF t
  <2>5. /\ r \in Call /\ r.pc = c /\ r.sent = TRUE /\ r.age = call[k].age /\ r.held[c] = t
        /\ \A d \in Kinds : d # c => r.held[d] = call[k].held[d]
    BY <1>0, <1>2, <2>3 DEF Call
  <2> HIDE DEF r
  <2>6. r.age \in Nat
    BY <1>0, <2>5, ClientAssumption DEF Call
  <2>7. Lasts(r, c) /\ r.held[c].ttl <= r.held[c].real + r.age
    BY <2>2, <2>3, <2>5, <2>6, ClientAssumption DEF Lasts, Token
  <2>8. \A d \in Credentials(c) : d \in Kinds /\ d # c
    BY Order DEF Kinds
  <2>9. \A d \in Credentials(c) : Lasts(call[k], d)
    BY <1>0, <1>2 DEF Sound
  <2>10. \A d \in Credentials(c) : Lasts(r, d)
    BY <2>5, <2>8, <2>9 DEF Lasts
  <2>11. Sound(r)
    BY <2>5, <2>7, <2>10 DEF Sound, Kinds
  <2>12. cache' \in [Kinds -> Token] /\ CacheDrift' /\ errors' \in Nat
    BY <1>5 DEF Request, ClientTypeOK, LiveInv, CacheDrift
  <2> QED
    BY <1>2, <2>4, <2>5, <2>11, <2>12, OneCall
<1>6. CASE Answer(k, c)
  <2>1. /\ cache' = [cache EXCEPT ![c] = call[k].held[c]] /\ errors' \in Nat /\ cache' \in [Kinds -> Token]
        /\ call[k].sent
    BY <1>3, <1>6 DEF Answer, ClientTypeOK
  <2>2. Lasts(call[k], c) /\ call[k].held[c].ttl <= call[k].held[c].real + call[k].age
    BY <1>0, <1>2, <2>1 DEF Sound
  <2>3. call[k].held[c].ttl <= call[k].held[c].real + MaxAge
    BY <1>0, <1>3, <2>2, ClientAssumption DEF Call, Token
  <2>4. CacheDrift'
    BY <2>1, <2>3 DEF CacheDrift, LiveInv, ClientTypeOK
  <2> QED
    BY <1>2, <1>3, <1>6, <2>1, <2>2, <2>4, HaveInv DEF Answer, Lasts
<1> QED
  BY <1>1, <1>4, <1>5, <1>6

(* The end of a call. *)
LEMMA EndInv ==
  ASSUME ClientTypeOK, LiveInv, NEW k \in Callers, call' = [call EXCEPT ![k] = NoCall],
         UNCHANGED cache, errors' \in Nat
  PROVE  /\ ClientTypeOK' /\ LiveInv' /\ call'[k].pc = "idle"
         /\ \A j \in Callers : j # k => call'[j] = call[j]
<1>1. cache' \in [Kinds -> Token] /\ CacheDrift'
  BY DEF ClientTypeOK, LiveInv, CacheDrift
<1>2. Sound(NoCall)
  BY NoCallType, IdleSound
<1> QED
  BY <1>1, <1>2, NoCallType, OneCall

(* A tick makes everything one older: a call that runs as well as what it   *)
(* holds.                                                                   *)
LEMMA TickInv ==
  ASSUME ClientTypeOK, LiveInv, ClientTick
  PROVE  /\ ClientTypeOK' /\ LiveInv'
         /\ \A k \in Callers : call'[k].pc = call[k].pc
<1>1. \A n \in Nat : Less(n) \in Nat /\ Less(n) <= n /\ Less(n) + 1 >= n
  BY DEF Less
<1>2. \A t \in Token : /\ Older(t) \in Token /\ OnItsWay(t) \in Token
                       /\ Older(t).real = Less(t.real) /\ Older(t).ttl = Less(t.ttl)
                       /\ OnItsWay(t).real = Less(t.real) /\ OnItsWay(t).ttl = t.ttl
  BY <1>1 DEF Older, OnItsWay, Token
<1>3. cache' \in [Kinds -> Token] /\ errors' \in Nat
  BY <1>2 DEF ClientTick, ClientTypeOK
<1>4. CacheDrift'
  <2> SUFFICES ASSUME NEW c \in Kinds PROVE cache'[c].ttl <= cache'[c].real + MaxAge
    BY DEF CacheDrift
  <2>1. cache[c] \in Token /\ cache[c].ttl <= cache[c].real + MaxAge
    BY DEF ClientTypeOK, LiveInv, CacheDrift
  <2>2. cache'[c].ttl = Less(cache[c].ttl) /\ cache'[c].real = Less(cache[c].real)
    BY <1>2, <2>1 DEF ClientTick
  <2> QED
    BY <2>1, <2>2, ClientAssumption DEF Less, Token
<1>5. ASSUME NEW k \in Callers
      PROVE  /\ call'[k] \in Call /\ Sound(call'[k]) /\ call'[k].pc = call[k].pc
             /\ call'[k].sent = call[k].sent
  <2>0. call[k] \in Call /\ Sound(call[k]) /\ (call[k].sent => call[k].pc \in Kinds)
    BY DEF ClientTypeOK, LiveInv
  <2>1. CASE At(k, "idle")
    <3>1. call'[k] = call[k]
      BY <2>1 DEF ClientTick
    <3> QED
      BY <2>0, <3>1
  <2>2. CASE ~At(k, "idle")
    <3> DEFINE h == [c \in Kinds |-> IF call[k].sent /\ At(k, c) THEN OnItsWay(call[k].held[c])
                                     ELSE Older(call[k].held[c])]
               r == [call[k] EXCEPT !.age = @ + 1, !.held = h]
    <3>1. call'[k] = r /\ call[k].age < MaxAge
      BY <2>2 DEF ClientTick
    <3>2. \A c \in Kinds : call[k].held[c] \in Token
      BY <2>0 DEF Call
    <3>3. h \in [Kinds -> Token]
      BY <1>2, <3>2
    <3>4. \A c \in Kinds : h[c].real = Less(call[k].held[c].real)
      BY <1>2, <3>2
    <3>5. call[k].sent => h[call[k].pc].ttl = call[k].held[call[k].pc].ttl
      BY <1>2, <2>0, <3>2 DEF At
    <3> HIDE DEF h
    <3>6. call[k].age + 1 \in 0..MaxAge /\ call[k].age \in Nat
      BY <2>0, <3>1, ClientAssumption DEF Call
    <3>7. /\ r \in Call /\ r.pc = call[k].pc /\ r.sent = call[k].sent /\ r.held = h
          /\ r.age = call[k].age + 1
      BY <2>0, <3>3, <3>6 DEF Call
    <3> HIDE DEF r
    <3>8. ASSUME NEW c \in Kinds, Lasts(call[k], c)
          PROVE  /\ Lasts(r, c)
                 /\ h[c].real + 1 = call[k].held[c].real
      <4>1. call[k].held[c].real \in Nat /\ call[k].held[c].real > 0
        BY <3>1, <3>2, <3>6, <3>8, ClientAssumption DEF Lasts, Token
      <4>2. h[c].real = call[k].held[c].real - 1
        BY <3>4, <4>1 DEF Less
      <4> QED
        BY <3>6, <3>7, <3>8, <4>1, <4>2, ClientAssumption DEF Lasts
    <3>9. "user" \in Kinds /\ \A c \in Kinds : Credentials(c) \subseteq Kinds
      BY Order DEF Kinds
    <3>10. call[k].sent => /\ Lasts(r, r.pc)
                           /\ r.held[r.pc].ttl <= r.held[r.pc].real + r.age
      <4> SUFFICES ASSUME call[k].sent
                   PROVE  Lasts(r, r.pc) /\ r.held[r.pc].ttl <= r.held[r.pc].real + r.age
        OBVIOUS
      <4>1. call[k].pc \in Kinds /\ Lasts(call[k], call[k].pc)
            /\ call[k].held[call[k].pc].ttl <= call[k].held[call[k].pc].real + call[k].age
        BY <2>0 DEF Sound
      <4>2. Lasts(r, r.pc) /\ h[r.pc].real + 1 = call[k].held[r.pc].real
        BY <3>7, <3>8, <4>1
      <4>3. h[r.pc].real \in Nat
        BY <3>3, <3>7, <4>1 DEF Token
      <4> QED
        BY <3>5, <3>6, <3>7, <4>1, <4>2, <4>3
    <3>11. Sound(r)
      BY <2>0, <3>7, <3>8, <3>9, <3>10 DEF Sound
    <3> QED
      BY <3>1, <3>7, <3>11
  <2> QED
    BY <2>1, <2>2
<1>6. call' \in [Callers -> Call]
  BY <1>5 DEF ClientTick
<1> QED
  BY <1>3, <1>4, <1>5, <1>6 DEF ClientTypeOK, LiveInv

-----------------------------------------------------------------------------
(* The controller around the client. *)

TokenInv == TypeOK /\ LiveInv

(* The controller's own variables. *)
ControllerTypeOK ==
    /\ loop \in {"namespace", "token", "backoff", "sleep"}
    /\ mode \in {"provision", "refresh"}
    /\ timer \in 1..Refresh
    /\ due \in BOOLEAN
    /\ secret \in Token
    /\ stale \in Nat /\ missed \in Nat /\ restarts \in Nat

(* The two halves make the whole. *)
LEMMA Halves ==
  TypeOK <=> /\ ClientTypeOK /\ ControllerTypeOK
             /\ ~At(Controller, "idle") <=> loop = "token"
  BY DEF TypeOK, ControllerTypeOK

(* The initial states. *)
LEMMA InitInv == Init => TokenInv
<1> SUFFICES ASSUME Init PROVE TokenInv
  OBVIOUS
<1>1. cache = [c \in Kinds |-> NoToken] /\ call = [k \in Callers |-> NoCall] /\ errors = 0
  BY DEF Init, ClientInit
<1>2. ClientTypeOK
  BY <1>1, NoCallType DEF ClientTypeOK
<1>3. LiveInv
  <2>1. Sound(NoCall)
    BY NoCallType, IdleSound
  <2>2. CacheDrift
    BY <1>1, ClientAssumption DEF CacheDrift, NoToken
  <2> QED
    BY <1>1, <2>1, <2>2 DEF LiveInv
<1>4. ControllerTypeOK
  <2>1. Refresh \in 1..Refresh
    BY ClientAssumption, TokenControllerAssumption
  <2> QED
    BY <2>1, NoCallType DEF Init, ControllerTypeOK
<1>5. At(Controller, "idle") /\ loop = "namespace"
  BY <1>1, NoCallType, TokenControllerAssumption DEF Init, At
<1> QED
  BY <1>2, <1>3, <1>4, <1>5, Halves DEF TokenInv

(* A success or a failure of ensureCSIToken. *)
LEMMA OutcomeType ==
  ASSUME ControllerTypeOK, Done \/ Failed, secret' \in Token, stale' \in Nat
  PROVE  ControllerTypeOK' /\ loop' # "token"
  BY DEF ControllerTypeOK, Done, Failed, FailedRetrying

(* Every step keeps the invariant. *)
LEMMA NextInv == TokenInv /\ [Next]_vars => TokenInv'
<1> SUFFICES ASSUME TokenInv, [Next]_vars PROVE TokenInv'
  OBVIOUS
<1>0. /\ ClientTypeOK /\ LiveInv /\ ControllerTypeOK /\ Controller \in Callers
      /\ ~At(Controller, "idle") <=> loop = "token"
  BY Halves, TokenControllerAssumption DEF TokenInv
<1>s. Spend => errors' \in Nat
  BY <1>0 DEF Spend, ClientTypeOK
<1>e. /\ errors \in Nat /\ secret \in Token /\ stale \in Nat
      /\ \A k \in Callers : call[k] \in Call
  BY <1>0 DEF ClientTypeOK, ControllerTypeOK
<1>q. SUFFICES /\ ClientTypeOK' /\ LiveInv' /\ ControllerTypeOK'
               /\ ~At(Controller, "idle")' <=> loop' = "token"
  BY Halves DEF TokenInv, TypeOK, ControllerTypeOK
<1> USE DEF At
<1>1. CASE EnsureNamespace
  <2>1. UNCHANGED <<secret, stale>> /\ loop = "namespace"
    BY <1>1 DEF EnsureNamespace
  <2>2. CASE GetImpersonatedToken(Controller) /\ loop' = "token" /\ UNCHANGED <<mode, timer, due, missed, restarts>>
    <3>1. ClientTypeOK' /\ LiveInv' /\ call'[Controller].pc # "idle"
      BY <1>0, <2>2, GetInv
    <3>2. ControllerTypeOK'
      BY <1>0, <2>1, <2>2 DEF ControllerTypeOK
    <3> QED
      BY <2>2, <3>1, <3>2
  <2>3. CASE Spend /\ UNCHANGED <<cache, call>> /\ Failed
    <3>1. ClientTypeOK' /\ LiveInv'
      BY <1>0, <1>s, <2>3 DEF ClientTypeOK, LiveInv, CacheDrift
    <3>2. ControllerTypeOK' /\ loop' # "token"
      BY <1>0, <1>e, <2>1, <2>3, OutcomeType
    <3> QED
      BY <1>0, <2>1, <2>3, <3>1, <3>2
  <2> QED
    BY <1>1, <2>2, <2>3 DEF EnsureNamespace
<1>2. CASE FetchToken
  <2>1. UNCHANGED <<secret, stale>> /\ loop = "token"
    BY <1>2 DEF FetchToken
  <2>2. CASE Fetch(Controller) /\ UNCHANGED <<loop, mode, timer, due, missed, restarts>>
    <3>1. ClientTypeOK' /\ LiveInv' /\ call'[Controller].pc # "idle"
      BY <1>0, <2>2, FetchInv
    <3>2. ControllerTypeOK'
      BY <1>0, <2>1, <2>2 DEF ControllerTypeOK
    <3> QED
      BY <2>1, <2>2, <3>1, <3>2
  <2>3. CASE RequestFails(Controller) /\ Failed
    <3>1. ClientTypeOK' /\ LiveInv' /\ call'[Controller].pc = "idle"
      BY <1>0, <1>s, <2>3, EndInv DEF RequestFails
    <3>2. ControllerTypeOK' /\ loop' # "token"
      BY <1>0, <1>e, <2>1, <2>3, OutcomeType
    <3> QED
      BY <3>1, <3>2
  <2> QED
    BY <1>2, <2>2, <2>3 DEF FetchToken
<1>3. CASE EnsureSecret
  <2>1. Return(Controller) /\ errors' \in Nat /\ (Done \/ Failed)
    BY <1>3, <1>s, <1>e DEF EnsureSecret
  <2>2. ClientTypeOK' /\ LiveInv' /\ call'[Controller].pc = "idle"
    BY <1>0, <2>1, EndInv DEF Return
  <2>3. call[Controller].held["user"] \in Token
    BY <1>0, <1>e DEF Call, Kinds
  <2>4. secret' \in Token /\ stale' \in Nat
    BY <1>3, <1>e, <2>3 DEF EnsureSecret, Write
  <2>5. ControllerTypeOK' /\ loop' # "token"
    BY <1>0, <2>1, <2>4, OutcomeType
  <2> QED
    BY <2>2, <2>5
<1>4. CASE Retry \/ TickerFires
  <2>1. UNCHANGED clientVars /\ loop # "token" /\ loop' = "namespace"
    BY <1>4 DEF Retry, TickerFires
  <2>2. ClientTypeOK' /\ LiveInv'
    BY <1>0, <2>1 DEF clientVars, ClientTypeOK, LiveInv, CacheDrift
  <2>3. ControllerTypeOK'
    BY <1>0, <1>4 DEF Retry, TickerFires, ControllerTypeOK
  <2> QED
    BY <1>0, <2>1, <2>2, <2>3 DEF clientVars
<1>5. ASSUME NEW k \in Callers, OtherCaller(k)
      PROVE  /\ ClientTypeOK' /\ LiveInv' /\ ControllerTypeOK'
             /\ ~At(Controller, "idle")' <=> loop' = "token"
  <2>1. UNCHANGED controllerVars /\ k # Controller
    BY <1>5 DEF OtherCaller
  <2>2. ClientTypeOK' /\ LiveInv' /\ \A j \in Callers : j # k => call'[j] = call[j]
    <3>1. CASE GetImpersonatedToken(k)
      BY <1>0, <3>1, GetInv
    <3>2. CASE Fetch(k)
      BY <1>0, <3>2, FetchInv
    <3>3. CASE RequestFails(k)
      BY <1>0, <1>s, <3>3, EndInv DEF RequestFails
    <3>4. CASE Return(k) /\ UNCHANGED errors
      BY <1>0, <1>e, <3>4, EndInv DEF Return
    <3> QED
      BY <1>5, <3>1, <3>2, <3>3, <3>4 DEF OtherCaller
  <2>3. ControllerTypeOK'
    BY <1>0, <2>1 DEF controllerVars, ControllerTypeOK
  <2> QED
    BY <1>0, <2>1, <2>2, <2>3 DEF controllerVars
<1>6. CASE Tick
  <2>1. ClientTypeOK' /\ LiveInv' /\ call'[Controller].pc = call[Controller].pc
    BY <1>0, <1>6, TickInv DEF Tick
  <2>2. secret' \in Token /\ stale' \in Nat
    BY <1>6, <1>e DEF Tick, Older, Less, Token
  <2>3. timer' \in 1..Refresh
    BY <1>0, <1>6, TokenControllerAssumption DEF Tick, ControllerTypeOK
  <2>4. due' \in BOOLEAN
    BY <1>6 DEF Tick
  <2>5. ControllerTypeOK' /\ loop' = loop
    BY <1>0, <1>6, <2>2, <2>3, <2>4 DEF Tick, ControllerTypeOK
  <2> QED
    BY <1>0, <2>1, <2>5
<1>7. CASE Restart
  <2>1. cache' = [c \in Kinds |-> NoToken] /\ call' = [k \in Callers |-> NoCall] /\ errors' \in Nat
    BY <1>7, <1>e DEF Restart, ClientRestart
  <2>2. ClientTypeOK'
    BY <2>1, NoCallType DEF ClientTypeOK
  <2>3. Sound(NoCall)
    BY NoCallType, IdleSound
  <2>4. CacheDrift'
    BY <2>1, ClientAssumption DEF CacheDrift, NoToken
  <2>5. LiveInv'
    BY <2>1, <2>3, <2>4 DEF LiveInv
  <2>6. ControllerTypeOK' /\ loop' = "namespace"
    <3>1. Refresh \in 1..Refresh /\ restarts + 1 \in Nat
      BY <1>0, ClientAssumption, TokenControllerAssumption DEF ControllerTypeOK
    <3> QED
      BY <1>0, <1>7, <3>1 DEF Restart, ControllerTypeOK
  <2> QED
    BY <1>0, <2>1, <2>2, <2>5, <2>6, NoCallType
<1>8. CASE UNCHANGED vars
  <2>1. ClientTypeOK' /\ LiveInv'
    BY <1>0, <1>8 DEF vars, clientVars, ClientTypeOK, LiveInv, CacheDrift
  <2>2. ControllerTypeOK'
    BY <1>0, <1>8 DEF vars, ControllerTypeOK
  <2> QED
    BY <1>0, <1>8, <2>1, <2>2 DEF vars, clientVars
<1> QED
  BY <1>1, <1>2, <1>3, <1>4, <1>5, <1>6, <1>7, <1>8 DEF Next, ControllerStep

(* TokenInv is an invariant. *)
LEMMA Invariance == Spec => []TokenInv
  BY InitInv, NextInv, PTL DEF Spec

(* Every variable of client and controller stays in its type, and the       *)
(* controller has a call under way exactly within ensureCSIToken.           *)
THEOREM TypeCorrect == Spec => []TypeOK
<1>1. TokenInv => TypeOK
  BY DEF TokenInv
<1> QED
  BY <1>1, Invariance, PTL

(* Whatever is held outlasts the age a call can have. *)
LEMMA Outlasts ==
  ASSUME TokenInv, NEW k \in Callers, NEW c \in Kinds, Lasts(call[k], c)
  PROVE  call[k].held[c].real > 0
<1>1. call[k].age \in 0..MaxAge /\ call[k].held[c].real \in Nat
  BY DEF TokenInv, TypeOK, ClientTypeOK, Call, Token
<1> QED
  BY <1>1, ClientAssumption DEF Lasts

(* No request to CloudSigma is made with an expired token, for any number   *)
(* of goroutines and any lifetimes longer than a fetch, if the buffer is    *)
(* longer than two fetches.                                                 *)
THEOREM CredentialsOutlastFetch == Spec => []CredentialsLive
<1>1. TokenInv => CredentialsLive
  <2> SUFFICES ASSUME TokenInv, NEW k \in Callers, call[k].pc \in Kinds,
                      NEW c \in Credentials(call[k].pc)
               PROVE  call[k].held[c].real > 0
    BY DEF CredentialsLive
  <2>1. c \in Kinds
    BY Order DEF Kinds
  <2>2. Lasts(call[k], c)
    BY DEF TokenInv, LiveInv, Sound
  <2> QED
    BY <2>1, <2>2, Outlasts
<1> QED
  BY <1>1, Invariance, PTL

(* GetImpersonatedToken returns no expired token, whichever goroutine wrote *)
(* the cache last.                                                          *)
THEOREM ReturnedTokensLive == Spec => []ReturnsLive
<1>1. TokenInv => ReturnsLive
  <2> SUFFICES ASSUME TokenInv, NEW k \in Callers, call[k].pc = "done"
               PROVE  call[k].held["user"].real > 0
    BY DEF ReturnsLive, At
  <2>1. "user" \in Kinds /\ Lasts(call[k], "user")
    BY DEF TokenInv, LiveInv, Sound, Kinds
  <2> QED
    BY <2>1, Outlasts
<1> QED
  BY <1>1, Invariance, PTL

-----------------------------------------------------------------------------
(* How long an expired token stays in the secret.  stale minus what is left *)
(* of the token grows by one with every tick, the timer falls by one: their *)
(* sum only changes when the ticker fires, by an interval, and is set back  *)
(* by a write.                                                              *)

UserLeft ==
    \A k \in Callers :
        /\ call[k].pc = "user" /\ call[k].sent => call[k].held["user"].real + call[k].age >= ShortestLife
        /\ call[k].pc = "done" => call[k].held["user"].real + call[k].age >= LeastLeft + MaxAge

Interval(m) == (1 + m) * Refresh

GapInv ==
    /\ stale > 0 => secret.real = 0
    /\ mode = "provision" => timer = Refresh /\ due = FALSE /\ stale = 0 /\ missed = 0
    /\ mode = "refresh" =>
         /\ loop # "backoff"
         /\ loop = "sleep" /\ ~due => stale - secret.real + timer <= Interval(missed) - LeastLeft
         /\ ~(loop = "sleep" /\ ~due) =>
              stale - secret.real + timer <= Interval(missed) + Refresh - LeastLeft
    /\ loop = "sleep" => mode = "refresh"
    /\ loop = "sleep" /\ due => timer = Refresh
    /\ loop = "namespace" => timer = Refresh /\ ~due
    /\ loop # "token" => call[Controller].age = 0
    /\ loop = "token" => /\ ~due
                         /\ timer = IF mode = "refresh" THEN Refresh - call[Controller].age ELSE Refresh

(* One more failure is one more interval. *)
LEMMA Intervals ==
  ASSUME NEW m \in Nat
  PROVE  /\ Interval(m) \in Nat /\ Interval(m + 1) = Interval(m) + Refresh
         /\ Interval(0) = Refresh /\ Interval(m) >= Refresh
<1>1. Refresh \in Nat
  BY TokenControllerAssumption
<1>2. (1 + (m + 1)) * Refresh = (1 + m) * Refresh + Refresh
  BY <1>1
<1>3. (1 + m) * Refresh = m * Refresh + Refresh /\ m * Refresh \in Nat
  BY <1>1
<1> QED
  BY <1>1, <1>2, <1>3 DEF Interval

(* LeastLeft is the smaller of the two. *)
LEMMA Least ==
  /\ LeastLeft \in Int /\ LeastLeft <= Buffer - 2 * MaxAge /\ LeastLeft <= ShortestLife - MaxAge
  BY ClientAssumption, TokenControllerAssumption DEF LeastLeft

(* What a call of the client has left of the user's token. *)
LEMMA UserLeftStep ==
  ASSUME TokenInv, TokenInv', UserLeft, NEW k \in Callers,
         \A j \in Callers : j # k => call'[j] = call[j],
         \/ GetImpersonatedToken(k) \/ Fetch(k)
         \/ call' = [call EXCEPT ![k] = NoCall]
  PROVE  UserLeft'
<1>0. /\ call \in [Callers -> Call] /\ call[k] \in Call /\ call'[k] \in Call
      /\ cache["user"] \in Token /\ "user" \in Kinds
  BY DEF TokenInv, TypeOK, ClientTypeOK, Kinds
<1>1. SUFFICES
        /\ call'[k].pc = "user" /\ call'[k].sent => call'[k].held["user"].real + call'[k].age >= ShortestLife
        /\ call'[k].pc = "done" => call'[k].held["user"].real + call'[k].age >= LeastLeft + MaxAge
  BY DEF UserLeft
<1>2. ASSUME NEW c \in Kinds, NEW t \in Token, Have(k, c, t),
             c = "user" => t.real + call[k].age >= LeastLeft + MaxAge
      PROVE  /\ call'[k].pc = "user" /\ call'[k].sent => call'[k].held["user"].real + call'[k].age >= ShortestLife
             /\ call'[k].pc = "done" => call'[k].held["user"].real + call'[k].age >= LeastLeft + MaxAge
  <2>1. /\ call'[k].pc = After(c) /\ call'[k].sent = FALSE /\ call'[k].age = call[k].age
        /\ call'[k].held = Holding(k, c, t)
    BY <1>0, <1>2 DEF Have, Call
  <2>2. c = "user" => Holding(k, c, t)["user"] = t
    BY <1>0, NoCallType DEF Holding
  <2>3. After(c) = "done" => c = "user"
    BY Order DEF Kinds
  <2> QED
    BY <1>2, <2>1, <2>2, <2>3
<1>3. CASE GetImpersonatedToken(k)
  <2>1. CASE ~IsExpired(cache["user"]) /\ Have(k, "user", cache["user"])
    <3>1. cache["user"].ttl <= cache["user"].real + MaxAge /\ cache["user"].ttl >= Buffer
      BY <1>0, <2>1, ClientAssumption DEF IsExpired, TokenInv, LiveInv, CacheDrift, Token
    <3>2. cache["user"].real + call[k].age >= LeastLeft + MaxAge
      BY <1>0, <3>1, Least, ClientAssumption DEF Call, Token
    <3> QED
      BY <1>0, <1>2, <2>1, <3>2
  <2>2. CASE call' = [call EXCEPT ![k].pc = "sa"]
    <3>1. call'[k].pc = "sa"
      BY <1>0, <2>2 DEF Call
    <3> QED
      BY <3>1
  <2> QED
    BY <1>3, <2>1, <2>2 DEF GetImpersonatedToken
<1>4. CASE Fetch(k)
  <2>1. PICK c \in Kinds : UseCached(k, c) \/ Request(k, c) \/ Answer(k, c)
    BY <1>4 DEF Fetch
  <2>2. CASE UseCached(k, c)
    <3>1. c # "user" /\ cache[c] \in Token /\ Have(k, c, cache[c])
      BY <2>2 DEF UseCached, TokenInv, TypeOK, ClientTypeOK
    <3> QED
      BY <1>2, <3>1
  <2>3. CASE Request(k, c)
    <3>1. PICK l \in Lifetimes[c], stated \in BOOLEAN :
            call' = [call EXCEPT ![k].sent = TRUE,
                                 ![k].held[c] = [real |-> l, ttl |-> ExpiresIn(c, l, stated)]]
      BY <2>3 DEF Request
    <3>2. call[k].pc = c /\ call'[k].pc = c /\ call'[k].age = call[k].age
      BY <1>0, <2>3, <3>1 DEF Request, At, Call
    <3>3. c = "user" => call'[k].held["user"].real = l
      BY <1>0, <3>1 DEF Call
    <3>4. c = "user" => l \in Nat /\ l >= ShortestLife
      BY ClientAssumption, TokenControllerAssumption
    <3>5. call[k].age \in Nat /\ c # "done"
      BY <1>0, ClientAssumption DEF Call, Kinds
    <3> QED
      BY <3>2, <3>3, <3>4, <3>5, TokenControllerAssumption
  <2>4. CASE Answer(k, c)
    <3>1. call[k].pc = c /\ call[k].sent /\ Have(k, c, call[k].held[c]) /\ call[k].held[c] \in Token
      BY <1>0, <2>4 DEF Answer, At, Call
    <3>2. c = "user" => call[k].held[c].real + call[k].age >= ShortestLife
      BY <3>1 DEF UserLeft
    <3>3. c = "user" => call[k].held[c].real + call[k].age >= LeastLeft + MaxAge
      BY <1>0, <3>1, <3>2, Least, ClientAssumption, TokenControllerAssumption DEF Call, Token
    <3> QED
      BY <1>2, <3>1, <3>3
  <2> QED
    BY <2>1, <2>2, <2>3, <2>4
<1>5. CASE call' = [call EXCEPT ![k] = NoCall]
  <2>1. call'[k].pc = "idle"
    BY <1>0, <1>5, NoCallType
  <2> QED
    BY <2>1
<1> QED
  BY <1>3, <1>4, <1>5

(* A tick: what is left and the age add up to the same. *)
LEMMA UserLeftTick ==
  ASSUME TokenInv, UserLeft, ClientTick
  PROVE  UserLeft'
<1> SUFFICES ASSUME NEW k \in Callers, call'[k].pc \in {"user", "done"}
             PROVE  /\ call'[k].pc = call[k].pc /\ call'[k].sent = call[k].sent
                    /\ call'[k].held["user"].real + call'[k].age
                         >= call[k].held["user"].real + call[k].age
  <2>1. \A k \in Callers : call'[k] \in Call /\ call[k] \in Call
    BY TickInv DEF TokenInv, TypeOK, ClientTypeOK
  <2>2. \A k \in Callers : /\ call'[k].held["user"].real \in Nat /\ call'[k].age \in Nat
                           /\ call[k].held["user"].real \in Nat /\ call[k].age \in Nat
    BY <2>1, ClientAssumption DEF Call, Token, Kinds
  <2> QED
    BY <2>2, Least, ClientAssumption, TokenControllerAssumption DEF UserLeft
<1>1. call[k] \in Call /\ "user" \in Kinds /\ call'[k].pc = call[k].pc
  BY TickInv DEF TokenInv, TypeOK, ClientTypeOK, Kinds
<1>2. ~At(k, "idle")
  BY <1>1 DEF At
<1>3. call'[k] = [call[k] EXCEPT
                    !.age = @ + 1,
                    !.held = [c \in Kinds |-> IF call[k].sent /\ At(k, c) THEN OnItsWay(@[c])
                                              ELSE Older(@[c])]]
  BY <1>2 DEF ClientTick
<1>4. call'[k].age = call[k].age + 1 /\ call'[k].sent = call[k].sent
  BY <1>1, <1>3 DEF Call
<1>5. call[k].held["user"] \in Token /\ call[k].age \in Nat
  BY <1>1, ClientAssumption DEF Call
<1>6. call'[k].held["user"].real = Less(call[k].held["user"].real)
  BY <1>1, <1>3, <1>5 DEF Call, Older, OnItsWay, Token
<1> QED
  BY <1>1, <1>4, <1>5, <1>6 DEF Less, Token

(* The invariant behind the bound. *)
BoundInv == TokenInv /\ UserLeft /\ GapInv

(* The outcome of ensureCSIToken, written or not. *)
LEMMA GapOutcome ==
  ASSUME TokenInv, UserLeft, GapInv, loop \in {"namespace", "token"},
         Failed \/ (Done /\ loop = "token"),
         \/ Failed /\ UNCHANGED <<secret, stale>>
         \/ /\ loop = "token" /\ At(Controller, "done") /\ Write(call[Controller].held["user"]),
         call'[Controller].age = 0
  PROVE  GapInv'
<1>0. /\ Refresh \in Nat /\ MaxAge \in Nat /\ stale \in Nat /\ missed \in Nat /\ timer \in Nat
      /\ secret \in Token /\ secret.real \in Nat /\ Interval(missed) \in Nat
      /\ call[Controller] \in Call /\ mode \in {"provision", "refresh"}
  BY Intervals, ClientAssumption, TokenControllerAssumption
     DEF TokenInv, TypeOK, ClientTypeOK, Token
<1>1. ~due /\ UNCHANGED <<timer, due, restarts>>
  BY DEF GapInv, Failed, FailedRetrying, Done
<1>2. /\ mode = "provision" => timer = Refresh /\ missed = 0 /\ stale = 0
      /\ stale > 0 => secret.real = 0
  BY DEF GapInv
<1>3. /\ Failed => /\ mode' = mode /\ loop' = (IF mode = "provision" THEN "backoff" ELSE "sleep")
                   /\ missed' = IF mode = "provision" THEN 0 ELSE missed + 1
      /\ Done => mode' = "refresh" /\ loop' = "sleep" /\ missed' = 0
  BY DEF Failed, FailedRetrying, Done
<1>4. CASE Write(call[Controller].held["user"]) /\ loop = "token" /\ At(Controller, "done")
  <2>1. stale' = 0 /\ secret' = call[Controller].held["user"]
    BY <1>4 DEF Write
  <2>2. secret'.real \in Nat /\ call[Controller].age \in 0..MaxAge
    BY <1>0, <2>1 DEF Call, Token, Kinds
  <2>3. secret'.real + call[Controller].age >= LeastLeft + MaxAge
    BY <1>4, <2>1, TokenControllerAssumption DEF UserLeft, At
  <2>4. timer = IF mode = "refresh" THEN Refresh - call[Controller].age ELSE Refresh
    BY <1>4 DEF GapInv
  <2>5. 0 - secret'.real + timer <= Refresh - LeastLeft
    BY <1>0, <2>2, <2>3, <2>4, Least
  <2>6. mode' = "refresh" => 0 - secret'.real + timer' <= Interval(missed') - LeastLeft
    <3>1. missed' \in Nat
      BY <1>0, <1>3
    <3>2. Interval(missed') \in Nat /\ Interval(missed') >= Refresh
      BY <3>1, Intervals
    <3> QED
      BY <1>0, <1>1, <2>2, <2>5, <3>2, Least
  <2>7. loop' \in {"backoff", "sleep"} /\ (loop' = "sleep" <=> mode' = "refresh")
    BY <1>0, <1>3
  <2>8. mode' = "provision" => mode = "provision" /\ missed' = 0
    BY <1>0, <1>3
  <2> QED
    BY <1>1, <1>2, <2>1, <2>6, <2>7, <2>8 DEF GapInv
<1>5. CASE Failed /\ UNCHANGED <<secret, stale>>
  <2>1. CASE mode = "provision"
    BY <1>0, <1>1, <1>2, <1>3, <1>5, <2>1 DEF GapInv
  <2>2. CASE mode = "refresh"
    <3>1. stale - secret.real + timer <= Interval(missed) + Refresh - LeastLeft
      BY <2>2 DEF GapInv
    <3>2. stale' - secret'.real + timer' <= Interval(missed') - LeastLeft
      <4>1. missed' = missed + 1 /\ Interval(missed + 1) = Interval(missed) + Refresh
        BY <1>0, <1>3, <1>5, <2>2, Intervals
      <4> QED
        BY <1>0, <1>1, <1>5, <3>1, <4>1, Least
    <3> QED
      BY <1>1, <1>2, <1>3, <1>5, <2>2, <3>2 DEF GapInv
  <2> QED
    BY <1>0, <2>1, <2>2
<1> QED
  BY <1>4, <1>5

(* Every step keeps the bound. *)
LEMMA BoundNext == BoundInv /\ [Next]_vars => BoundInv'
<1> SUFFICES ASSUME BoundInv, [Next]_vars PROVE UserLeft' /\ GapInv'
  BY NextInv DEF BoundInv
<1>0. TokenInv /\ TokenInv' /\ UserLeft /\ GapInv /\ Controller \in Callers
  BY NextInv, TokenControllerAssumption DEF BoundInv
<1>t. /\ Refresh \in Nat /\ MaxAge \in Nat /\ Refresh > MaxAge
      /\ stale \in Nat /\ missed \in Nat /\ timer \in 1..Refresh
      /\ secret.real \in Nat /\ Interval(missed) \in Nat /\ call[Controller] \in Call
      /\ call[Controller].age \in 0..MaxAge /\ mode \in {"provision", "refresh"}
  BY <1>0, Intervals, ClientAssumption, TokenControllerAssumption
     DEF TokenInv, TypeOK, ClientTypeOK, Token, Call
<1>c. /\ call \in [Callers -> Call]
      /\ ~At(Controller, "idle") <=> loop = "token"
      /\ ClientTypeOK /\ LiveInv
  BY <1>0 DEF TokenInv, TypeOK, ClientTypeOK
<1>u. UNCHANGED call => UserLeft'
  BY <1>0 DEF UserLeft
<1>1. CASE EnsureNamespace
  <2>1. UNCHANGED <<secret, stale>> /\ loop = "namespace"
    BY <1>1 DEF EnsureNamespace
  <2>2. CASE GetImpersonatedToken(Controller) /\ loop' = "token" /\ UNCHANGED <<mode, timer, due, missed, restarts>>
    <3>1. \A j \in Callers : j # Controller => call'[j] = call[j]
      BY <1>0, <1>c, <2>2, GetInv
    <3>2. UserLeft'
      BY <1>0, <2>2, <3>1, UserLeftStep
    <3>3. call'[Controller].age = call[Controller].age
      BY <1>0, <1>c, <2>2 DEF GetImpersonatedToken, Have, Call
    <3> QED
      BY <1>0, <1>t, <2>1, <2>2, <3>2, <3>3 DEF GapInv
  <2>3. CASE Spend /\ UNCHANGED <<cache, call>> /\ Failed
    <3>1. call'[Controller].age = 0
      BY <1>0, <2>1, <2>3 DEF GapInv
    <3> QED
      BY <1>0, <1>u, <2>1, <2>3, <3>1, GapOutcome
  <2> QED
    BY <1>1, <2>2, <2>3 DEF EnsureNamespace
<1>2. CASE FetchToken
  <2>1. UNCHANGED <<secret, stale>> /\ loop = "token"
    BY <1>2 DEF FetchToken
  <2>2. CASE Fetch(Controller) /\ UNCHANGED <<loop, mode, timer, due, missed, restarts>>
    <3>1. \A j \in Callers : j # Controller => call'[j] = call[j]
      BY <1>0, <1>c, <2>2, FetchInv
    <3>2. UserLeft'
      BY <1>0, <2>2, <3>1, UserLeftStep
    <3>3. call'[Controller].age = call[Controller].age
      BY <1>0, <1>c, <2>2 DEF Fetch, UseCached, Request, Answer, Have, Call
    <3> QED
      BY <1>0, <2>1, <2>2, <3>2, <3>3 DEF GapInv
  <2>3. CASE RequestFails(Controller) /\ Failed
    <3>1. call' = [call EXCEPT ![Controller] = NoCall] /\ \A j \in Callers : j # Controller => call'[j] = call[j]
      BY <1>c, <2>3 DEF RequestFails
    <3>2. call'[Controller].age = 0
      BY <1>0, <1>c, <3>1 DEF NoCall
    <3> QED
      BY <1>0, <2>1, <2>3, <3>1, <3>2, UserLeftStep, GapOutcome
  <2> QED
    BY <1>2, <2>2, <2>3 DEF FetchToken
<1>3. CASE EnsureSecret
  <2>1. call' = [call EXCEPT ![Controller] = NoCall] /\ \A j \in Callers : j # Controller => call'[j] = call[j]
    BY <1>c, <1>3 DEF EnsureSecret, Return
  <2>2. UserLeft'
    BY <1>0, <2>1, UserLeftStep
  <2>3. call'[Controller].age = 0
    BY <1>0, <1>c, <2>1 DEF NoCall
  <2>4. GapInv'
    BY <1>0, <1>3, <2>3, GapOutcome DEF EnsureSecret, Return
  <2> QED
    BY <2>2, <2>4
<1>4. CASE Retry \/ TickerFires
  <2>1. UNCHANGED <<call, secret, stale, missed, timer, mode>> /\ loop' = "namespace" /\ due' = FALSE
    BY <1>0, <1>t, <1>4 DEF Retry, TickerFires, clientVars, GapInv
  <2>2. timer = Refresh
    BY <1>0, <1>t, <1>4 DEF Retry, TickerFires, GapInv
  <2>3. mode = "refresh" => stale - secret.real + timer <= Interval(missed) + Refresh - LeastLeft
    BY <1>0, <1>4 DEF Retry, TickerFires, GapInv
  <2>4. call'[Controller].age = 0
    BY <1>0, <1>4, <2>1 DEF Retry, TickerFires, GapInv
  <2>5. GapInv'
    BY <1>0, <2>1, <2>2, <2>3, <2>4 DEF GapInv
  <2> QED
    BY <1>u, <2>1, <2>5
<1>5. ASSUME NEW k \in Callers, OtherCaller(k) PROVE UserLeft' /\ GapInv'
  <2>1. UNCHANGED controllerVars /\ k # Controller
    BY <1>5 DEF OtherCaller
  <2>2. /\ \A j \in Callers : j # k => call'[j] = call[j]
        /\ GetImpersonatedToken(k) \/ Fetch(k) \/ call' = [call EXCEPT ![k] = NoCall]
    <3>1. CASE GetImpersonatedToken(k)
      BY <1>c, <3>1, GetInv
    <3>2. CASE Fetch(k)
      BY <1>c, <3>2, FetchInv
    <3>3. CASE call' = [call EXCEPT ![k] = NoCall]
      BY <1>c, <3>3
    <3> QED
      BY <1>5, <3>1, <3>2, <3>3 DEF OtherCaller, RequestFails, Return
  <2>3. UserLeft'
    BY <1>0, <2>2, UserLeftStep
  <2>4. call'[Controller] = call[Controller]
    BY <1>0, <2>1, <2>2
  <2> QED
    BY <1>0, <2>1, <2>3, <2>4 DEF GapInv, controllerVars
<1>6. CASE Tick
  <2>1. UserLeft' /\ UNCHANGED <<loop, mode, missed>>
    BY <1>0, <1>6, UserLeftTick DEF Tick
  <2>2. loop \in {"token", "backoff", "sleep"} /\ ~(loop = "sleep" /\ due)
    BY <1>0, <1>6 DEF Tick, Prompt, TokenInv, TypeOK
  <2>3. secret'.real = Less(secret.real)
    BY <1>6 DEF Tick, Older
  <2>i. loop # "token" => call'[Controller].age = 0
    BY <1>0, <1>c, <1>6 DEF Tick, ClientTick, GapInv
  <2>4. CASE mode = "provision"
    <3>1. UNCHANGED <<timer, stale, due>>
      BY <1>0, <1>6, <2>4 DEF Tick, GapInv
    <3> QED
      BY <1>0, <1>t, <2>1, <2>2, <2>i, <2>4, <3>1 DEF GapInv
  <2>5. CASE mode = "refresh"
    <3>1. ~due /\ loop \in {"token", "sleep"} /\ (stale > 0 => secret.real = 0)
      BY <1>0, <2>2, <2>5 DEF GapInv
    <3>2. /\ stale' - secret'.real = stale - secret.real + 1 /\ stale' \in Nat /\ secret'.real \in Nat
          /\ stale' > 0 => secret'.real = 0
      BY <1>t, <1>6, <2>3, <2>5, <3>1 DEF Tick, Less
    <3>3. CASE loop = "token"
      <4>1. call'[Controller].age = call[Controller].age + 1 /\ call[Controller].age < MaxAge
        BY <1>0, <1>c, <1>6, <3>3 DEF Tick, ClientTick, At, Call
      <4>2. timer = Refresh - call[Controller].age
        BY <1>0, <2>5, <3>3 DEF GapInv
      <4>3. timer' = timer - 1 /\ due' = FALSE
        <5>1. timer # 1
          BY <1>t, <4>1, <4>2
        <5> QED
          BY <1>6, <2>5, <3>1, <5>1 DEF Tick
      <4>4. stale - secret.real + timer <= Interval(missed) + Refresh - LeastLeft
        BY <1>0, <2>5, <3>3 DEF GapInv
      <4>5. stale' - secret'.real + timer' <= Interval(missed) + Refresh - LeastLeft
        BY <1>t, <3>2, <4>3, <4>4, Least
      <4> QED
        BY <1>t, <2>1, <2>5, <3>2, <3>3, <4>1, <4>2, <4>3, <4>5 DEF GapInv
    <3>4. CASE loop = "sleep" /\ timer = 1
      <4>1. timer' = Refresh /\ due' = TRUE
        BY <1>6, <2>5, <3>4 DEF Tick
      <4>2. stale - secret.real + timer <= Interval(missed) - LeastLeft
        BY <1>0, <2>5, <3>1, <3>4 DEF GapInv
      <4>3. stale' - secret'.real + timer' <= Interval(missed) + Refresh - LeastLeft
        BY <1>t, <3>2, <3>4, <4>1, <4>2, Least
      <4> QED
        BY <2>1, <2>i, <2>5, <3>2, <3>4, <4>1, <4>3 DEF GapInv
    <3>5. CASE loop = "sleep" /\ timer # 1
      <4>1. timer' = timer - 1 /\ due' = FALSE
        BY <1>6, <2>5, <3>1, <3>5 DEF Tick
      <4>2. stale - secret.real + timer <= Interval(missed) - LeastLeft
        BY <1>0, <2>5, <3>1, <3>5 DEF GapInv
      <4>3. stale' - secret'.real + timer' <= Interval(missed) - LeastLeft
        BY <1>t, <3>2, <4>1, <4>2, Least
      <4> QED
        BY <2>1, <2>i, <2>5, <3>2, <3>5, <4>1, <4>3 DEF GapInv
    <3> QED
      BY <3>1, <3>3, <3>4, <3>5
  <2> QED
    BY <1>t, <2>4, <2>5
<1>7. CASE Restart
  <2>1. \A k \in Callers : call'[k].pc = "idle" /\ call'[k].age = 0
    BY <1>7, NoCallType DEF Restart, ClientRestart, NoCall
  <2>2. UserLeft'
    BY <2>1 DEF UserLeft
  <2>3. GapInv'
    BY <1>0, <1>7, <2>1 DEF Restart, GapInv
  <2> QED
    BY <2>2, <2>3
<1>8. CASE UNCHANGED vars
  <2>1. UNCHANGED <<call, loop, mode, timer, due, secret, stale, missed>>
    BY <1>8 DEF vars, clientVars
  <2> QED
    BY <1>0, <1>u, <2>1 DEF GapInv
<1> QED
  BY <1>1, <1>2, <1>3, <1>4, <1>5, <1>6, <1>7, <1>8 DEF Next, ControllerStep

(* The secret has an expired token for at most the refresh interval less    *)
(* what a token has left when it is written, plus an interval for every     *)
(* refresh that failed, for all lifetimes and intervals.                    *)
THEOREM ExpiredSecretBounded == Spec => []SecretGapBounded
<1>1. Init => BoundInv
  <2> SUFFICES ASSUME Init PROVE UserLeft /\ GapInv
    BY InitInv DEF BoundInv
  <2>1. UserLeft
    BY NoCallType DEF Init, ClientInit, UserLeft
  <2>2. GapInv
    BY TokenControllerAssumption DEF Init, ClientInit, NoCall, GapInv
  <2> QED
    BY <2>1, <2>2
<1>2. Spec => []BoundInv
  BY <1>1, BoundNext, PTL DEF Spec
<1>3. BoundInv => SecretGapBounded
  <2> SUFFICES ASSUME BoundInv, stale > 0
               PROVE  stale <= Interval(missed) + MaxAge - LeastLeft
    BY DEF SecretGapBounded, Interval
  <2>1. /\ stale \in Nat /\ missed \in Nat /\ timer \in 1..Refresh /\ MaxAge \in Nat /\ Refresh \in Nat
        /\ mode \in {"provision", "refresh"} /\ call[Controller].age \in 0..MaxAge
        /\ loop \in {"namespace", "token", "backoff", "sleep"} /\ due \in BOOLEAN
    BY ClientAssumption, TokenControllerAssumption DEF BoundInv, TokenInv, TypeOK, ClientTypeOK, Call
  <2>2. secret.real = 0 /\ mode = "refresh" /\ loop # "backoff"
    BY <2>1 DEF BoundInv, GapInv
  <2>3. Interval(missed) \in Nat
    BY <2>1, Intervals
  <2>4. CASE loop = "sleep" /\ ~due
    <3>1. stale - 0 + timer <= Interval(missed) - LeastLeft
      BY <2>2, <2>4 DEF BoundInv, GapInv
    <3> QED
      BY <2>1, <2>3, <3>1, Least
  <2>5. CASE ~(loop = "sleep" /\ ~due)
    <3>1. stale - 0 + timer <= Interval(missed) + Refresh - LeastLeft
      BY <2>2, <2>5 DEF BoundInv, GapInv
    <3>2. timer >= Refresh - MaxAge
      BY <2>1, <2>2, <2>5 DEF BoundInv, GapInv
    <3> QED
      BY <2>1, <2>3, <3>1, <3>2, Least
  <2> QED
    BY <2>4, <2>5
<1> QED
  BY <1>2, <1>3, PTL
=============================================================================
