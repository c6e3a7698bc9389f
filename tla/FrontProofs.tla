---------------------------- MODULE FrontProofs -----------------------------
(***************************************************************************)
(* What stands before the services: the middleware and the authentication, *)
(* the sockets, the registries, the limiter, the circuit breaker and the   *)
(* command line, for any number of clients.                                *)
(***************************************************************************)
EXTENDS Gateway, OAuth2, RateLimiter, CircuitBreaker, Registry, Sockets, Cli,
        FiniteSetTheorems, TLAPS

-----------------------------------------------------------------------------
(* RateLimiter: WindowBound for every rate, burst and length of time.      *)
(* BucketAccounts is the inductive invariant: what the bucket holds counts *)
(* as spent.                                                               *)

\* Refilling over two adjacent stretches is refilling over their union.
LEMMA RateAdds ==
    ASSUME NEW r \in Int, NEW a \in Int, NEW b \in Int, NEW c \in Int
    PROVE  r * (c - a) = r * (b - a) + (c - b) * r
  OBVIOUS

\* A longer window is given at least as much.
LEMMA RateGrows ==
    ASSUME NEW r \in Nat, NEW a \in Int, NEW b \in Int, a <= b
    PROVE  r * a <= r * b
  OBVIOUS

\* One more request is one Unit more.
LEMMA OneMore ==
    ASSUME NEW u \in Int, NEW n \in Int
    PROVE  u * (n + 1) = u * n + u
  OBVIOUS

\* A bucket holds a whole number of units.
LEMMA BucketSize == maxTokens \in Nat
  BY LimiterAssumption DEF maxTokens

\* The full bucket of NewRateLimiter accounts for every window.
LEMMA InitAccounts == RlInit => BucketAccounts
  BY LimiterAssumption, BucketSize DEF RlInit, BucketAccounts, Instants

\* Time alone changes nothing: the bucket is refilled only by Allow.
LEMMA TickAccounts == BucketAccounts /\ Tick => BucketAccounts'
  BY LimiterAssumption, BucketSize DEF Tick, BucketAccounts, Instants

\* Allow refills for the time since the last look, or to the brim, and takes
\* one request out of the bucket for the one it counts in.
LEMMA AllowAccounts == BucketAccounts /\ Allow => BucketAccounts'
<1> SUFFICES ASSUME BucketAccounts, Allow PROVE BucketAccounts'
  OBVIOUS
<1>1. /\ Unit \in Nat \ {0} /\ Rate \in Nat /\ maxTokens \in Nat
      /\ tokens \in Nat /\ clock \in Nat /\ lastRefill \in Nat /\ MaxClock \in Nat
      /\ tokens <= maxTokens /\ lastRefill <= clock /\ clock <= MaxClock
      /\ clock' = clock /\ lastRefill' = clock /\ maxTokens' = maxTokens
  BY LimiterAssumption, BucketSize DEF BucketAccounts, Instants, Allow, maxTokens
<1>2. (clock - lastRefill) * Rate \in Nat
  <2>1. Rate * 0 <= Rate * (clock - lastRefill)
    BY <1>1, RateGrows
  <2> QED
    BY <2>1, <1>1
<1>3. Refill \in 0 .. maxTokens /\ Refill <= tokens + (clock - lastRefill) * Rate
  BY <1>1, <1>2 DEF Refill
\* Before the request is counted, every window up to now has room for the
\* refilled bucket.
<1>4. ASSUME NEW s \in 0 .. clock
      PROVE  Unit * admitted[s] + Refill <= maxTokens + Rate * (clock - s)
  <2>1. s \in Instants /\ admitted[s] \in Nat
    BY <1>1 DEF BucketAccounts, Instants
  <2>2. CASE s <= lastRefill
    <3>1. Unit * admitted[s] + tokens <= maxTokens + Rate * (lastRefill - s)
      BY <2>2, <1>1 DEF BucketAccounts
    <3>2. Rate * (clock - s) = Rate * (lastRefill - s) + (clock - lastRefill) * Rate
      BY <1>1, RateAdds
    <3>3. Unit * admitted[s] \in Int /\ Rate * (lastRefill - s) \in Int
      BY <1>1, <2>1
    <3> QED
      BY <3>1, <3>2, <3>3, <1>1, <1>2, <1>3
  <2>3. CASE s > lastRefill
    <3>1. admitted[s] = 0
      BY <2>1, <2>3 DEF BucketAccounts
    <3>2. Unit * admitted[s] = 0
      BY <3>1, <1>1
    <3>3. Rate * 0 <= Rate * (clock - s)
      BY <1>1, RateGrows
    <3> QED
      BY <3>2, <3>3, <1>1, <1>3
  <2> QED
    BY <2>2, <2>3, <1>1
<1>5. \A s \in Instants : s > clock => admitted[s] = 0
  BY <1>1 DEF BucketAccounts, Instants
<1>6. CASE Refill < Unit
  <2>1. tokens' = Refill /\ admitted' = admitted
    BY <1>6 DEF Allow
  <2> QED
    BY <1>1, <1>3, <1>4, <1>5, <2>1 DEF BucketAccounts, Instants
<1>7. CASE ~(Refill < Unit)
  <2>1. /\ tokens' = Refill - Unit
        /\ admitted' = [s \in Instants |-> admitted[s] + IF s <= clock THEN 1 ELSE 0]
    BY <1>7 DEF Allow
  <2>2. tokens' \in 0 .. maxTokens
    BY <2>1, <1>1, <1>3, <1>7
  <2>3. admitted' \in [Instants -> Nat]
    BY <2>1 DEF BucketAccounts
  <2>4. ASSUME NEW s \in 0 .. clock
        PROVE  Unit * admitted'[s] + tokens' <= maxTokens + Rate * (clock - s)
    <3>1. s \in Instants /\ admitted[s] \in Nat
      BY <1>1 DEF BucketAccounts, Instants
    <3>2. admitted'[s] = admitted[s] + 1
      BY <2>1, <3>1, <1>1
    <3>3. Unit * admitted'[s] = Unit * admitted[s] + Unit
      BY <3>1, <3>2, <1>1, OneMore
    <3>4. Unit * admitted[s] \in Int /\ Rate * (clock - s) \in Int
      BY <3>1, <1>1
    <3> QED
      BY <3>3, <3>4, <2>1, <1>1, <1>3, <1>4
  <2>5. \A s \in Instants : s > clock => admitted'[s] = 0
    BY <2>1, <1>1, <1>5 DEF Instants
  <2> QED
    BY <1>1, <2>2, <2>3, <2>4, <2>5 DEF BucketAccounts, Instants
<1> QED
  BY <1>6, <1>7

\* The invariant bounds each window up to now.
LEMMA AccountsBound == BucketAccounts => WindowBound
<1> SUFFICES ASSUME BucketAccounts, NEW s \in 0 .. clock
             PROVE  Unit * admitted[s] <= maxTokens + Rate * (clock - s)
  BY DEF WindowBound
<1>1. /\ Unit \in Nat /\ Rate \in Nat /\ maxTokens \in Nat /\ tokens \in Nat
      /\ clock \in Nat /\ lastRefill \in Nat /\ lastRefill <= clock
      /\ s \in Instants /\ admitted[s] \in Nat
  BY LimiterAssumption, BucketSize DEF BucketAccounts, Instants
<1>2. CASE s <= lastRefill
  <2>1. Unit * admitted[s] + tokens <= maxTokens + Rate * (lastRefill - s)
    BY <1>1, <1>2 DEF BucketAccounts
  <2>2. Rate * (lastRefill - s) <= Rate * (clock - s)
    BY <1>1, RateGrows
  <2>3. Unit * admitted[s] \in Int /\ Rate * (lastRefill - s) \in Int /\ Rate * (clock - s) \in Int
    BY <1>1
  <2> QED
    BY <2>1, <2>2, <2>3, <1>1
<1>3. CASE s > lastRefill
  <2>1. Unit * admitted[s] = 0
    BY <1>1, <1>3 DEF BucketAccounts
  <2>2. Rate * 0 <= Rate * (clock - s)
    BY <1>1, RateGrows
  <2> QED
    BY <2>1, <2>2, <1>1
<1> QED
  BY <1>1, <1>2, <1>3

\* The limiter never lets through more than a burst plus the rate, in any
\* stretch of time and for every rate and burst.
THEOREM LimiterBound == RlSpec => []WindowBound
<1>1. BucketAccounts /\ [RlNext]_rlVars => BucketAccounts'
  <2> SUFFICES ASSUME BucketAccounts, [RlNext]_rlVars PROVE BucketAccounts'
    OBVIOUS
  <2>1. CASE Tick
    BY <2>1, TickAccounts
  <2>2. CASE Allow
    BY <2>2, AllowAccounts
  <2>3. CASE UNCHANGED rlVars
    BY <2>3 DEF rlVars, BucketAccounts, maxTokens
  <2> QED
    BY <2>1, <2>2, <2>3 DEF RlNext, RateLimitMiddleware
<1> QED
  BY <1>1, InitAccounts, AccountsBound, PTL DEF RlSpec

-----------------------------------------------------------------------------
(* CircuitBreaker: state and failure count agree.                          *)

CbInv == CbTypeOK /\ ClosedIffBelowThreshold

\* The breaker starts closed with no failure counted.
LEMMA CbInitInv == CbInit => CbInv
BY ThresholdAssumption DEF CbInit, CbInv, CbTypeOK, ClosedIffBelowThreshold

\* A call that returns leaves the sets of calls in flight well-typed.
LEMMA ReturnType ==
    ASSUME CbTypeOK, NEW c \in Callers, Return(c)
    PROVE  /\ up' \in BOOLEAN
           /\ inside' \subseteq Callers
           /\ trial' \subseteq inside' /\ doomed' \subseteq inside'
BY DEF CbTypeOK, Return

\* Either critical section of Execute leaves state and failureCount in
\* agreement, whatever happened between the two.
LEMMA CbStepInv == CbInv /\ [CbNext]_cbVars => CbInv'
<1> SUFFICES ASSUME CbInv, [CbNext]_cbVars PROVE CbInv'
    OBVIOUS
<1> USE ThresholdAssumption
<1>1. ASSUME NEW c \in Callers, Admit(c) PROVE CbInv'
  <2>1. /\ inside' = inside \cup {c} /\ up' = up /\ cooled' = cooled
        /\ trial' \subseteq trial \cup {c} /\ doomed' \subseteq doomed \cup {c}
    BY <1>1 DEF Admit
  <2>2. /\ failureCount' = failureCount
        /\ state' = IF state = "open" THEN "half-open" ELSE state
    BY <1>1 DEF Admit
  <2>3. CbTypeOK'
    BY <2>1, <2>2 DEF CbInv, CbTypeOK
  <2>4. ClosedIffBelowThreshold'
    BY <2>2 DEF CbInv, ClosedIffBelowThreshold
  <2>5. QED BY <2>3, <2>4 DEF CbInv
<1>2. ASSUME NEW c \in Callers, Fail(c) PROVE CbInv'
  <2>1. /\ up' \in BOOLEAN /\ cooled' = FALSE
        /\ inside' \subseteq Callers
        /\ trial' \subseteq inside' /\ doomed' \subseteq inside'
    BY <1>2, ReturnType, Zenon DEF Fail, CbInv
  <2>2. /\ failureCount' = IF failureCount < failureThreshold
                           THEN failureCount + 1 ELSE failureCount
        /\ state' = IF failureCount' >= failureThreshold THEN "open" ELSE state
    BY <1>2 DEF Fail
  <2>3. failureCount' \in 0 .. failureThreshold
    BY <2>2 DEF CbInv, CbTypeOK
  <2>4. CbTypeOK'
    BY <2>1, <2>2, <2>3, Zenon DEF CbInv, CbTypeOK
  <2>5. ClosedIffBelowThreshold'
    BY <2>2, <2>3 DEF CbInv, CbTypeOK, ClosedIffBelowThreshold
  <2>6. QED BY <2>4, <2>5 DEF CbInv
<1>3. ASSUME NEW c \in Callers, Succeed(c) PROVE CbInv'
  <2>1. /\ up' \in BOOLEAN
        /\ inside' \subseteq Callers
        /\ trial' \subseteq inside' /\ doomed' \subseteq inside'
    BY <1>3, ReturnType DEF Succeed, CbInv
  <2>2. failureCount' = 0 /\ state' = "closed" /\ cooled' = cooled
    BY <1>3 DEF Succeed
  <2>3. QED BY <2>1, <2>2 DEF CbInv, CbTypeOK, ClosedIffBelowThreshold
<1>4. CASE Elapse \/ GoDown \/ ComeUp
  BY <1>4, Zenon
     DEF Elapse, GoDown, ComeUp, CbInv, CbTypeOK, ClosedIffBelowThreshold
<1>5. CASE UNCHANGED cbVars
  BY <1>5, Zenon DEF cbVars, CbInv, CbTypeOK, ClosedIffBelowThreshold
<1>6. QED
  BY <1>1, <1>2, <1>3, <1>4, <1>5 DEF CbNext

\* The breaker is closed exactly while fewer than failureThreshold failures
\* were recorded since the last success, however late the results of Execute
\* come in.
THEOREM BreakerConsistent == CbSpec => []ClosedIffBelowThreshold
<1>1. CbInv => ClosedIffBelowThreshold
  BY DEF CbInv
<1>2. QED BY <1>1, CbInitInv, CbStepInv, PTL DEF CbSpec

-----------------------------------------------------------------------------
(* OAuth2.                                                                 *)

\* A code that is still stored was issued and has not bought a token.
OaInv ==
    /\ nextCode \in Nat \ {0}
    /\ exchanged \in [1 .. MaxCodes -> Nat]
    /\ codes \subseteq (1 .. MaxCodes) \cap (1 .. (nextCode - 1))
    /\ CodeUsedOnce

\* No request and no restart disturbs it: one critical section looks the code up and
\* deletes it.
LEMMA OaStepInv == OaInv /\ [OaNext]_oaVars => OaInv'
  <1> SUFFICES ASSUME OaInv, [OaNext]_oaVars PROVE OaInv'
    OBVIOUS
  <1>1. CASE handleOAuth2Authorize
    <2>1. CASE generateSimulatedCode /\ UNCHANGED exchanged
      BY <2>1, CodesAssumption DEF OaInv, CodeUsedOnce, generateSimulatedCode
    <2>2. CASE UNCHANGED <<codes, nextCode, exchanged>>
      BY <2>2 DEF OaInv, CodeUsedOnce
    <2> QED
      BY <1>1, <2>1, <2>2 DEF handleOAuth2Authorize, GetAuthorizationURL
  <1>2. CASE handleOAuth2Callback
    <2>1. CASE UNCHANGED <<codes, exchanged>>
      BY <1>2, <2>1, Zenon DEF OaInv, CodeUsedOnce, handleOAuth2Callback
    <2>2. ASSUME NEW k \in 1 .. MaxCodes, ExchangeCode(k) PROVE OaInv'
      BY <1>2, <2>2 DEF OaInv, CodeUsedOnce, handleOAuth2Callback, ExchangeCode
    <2> QED
      BY <1>2, <2>1, <2>2 DEF handleOAuth2Callback
  <1>3. CASE handleOAuth2Providers
    BY <1>3 DEF OaInv, CodeUsedOnce, handleOAuth2Providers
  <1>4. CASE OaRestart
    BY <1>4, Zenon DEF OaInv, CodeUsedOnce, OaRestart
  <1>5. CASE UNCHANGED oaVars
    BY <1>5 DEF OaInv, CodeUsedOnce, oaVars
  <1> QED
    BY <1>1, <1>2, <1>3, <1>4, <1>5 DEF OaNext

\* For any number of clients and codes: an authorization code buys one token at most,
\* however the exchanges of it interleave.
THEOREM CodeBuysOneToken == OaSpec => []CodeUsedOnce
  <1>1. OaInit => OaInv
    BY DEF OaInit, OaInv, CodeUsedOnce
  <1>2. OaInv => CodeUsedOnce
    BY DEF OaInv
  <1> QED
    BY <1>1, <1>2, OaStepInv, PTL DEF OaSpec

-----------------------------------------------------------------------------
(* Gateway. The two checks of a token come at different times: the         *)
(* invariant follows a request from the first to the second and says that  *)
(* a token spent at the first is still refused at the second.              *)

\* A request with a handler; one whose token was spent when it came in is not
\* behind the access check, or has a handler that will look at the token itself.
Seated(r) ==
    /\ DOMAIN r = {"at", "path", "method", "cred", "spent"}
    /\ r.path \in {p[1] : p \in Routes}
    /\ r.spent => /\ r.path = "vms" => ~conf.rbac
                  /\ r.path \in {"refresh", "logout", "users"} =>
                        /\ r.at = "handler" /\ r.cred.kind = "bearer"
                        /\ r.cred.jti \in Tokens /\ ~ValidateToken(r.cred.jti)

\* Tokens are numbered, and what was logged out is in the blacklist.
GwInv ==
    /\ boots \in Nat
    /\ \E n \in Nat : Tokens = 1 .. n
    /\ loggedOut \subseteq blacklist
    /\ \A c \in DOMAIN desk : Seated(desk[c])

\* The claims and the key of a token stay, and what refuses it does.
TokensKept ==
    /\ UNCHANGED <<conf, signingKey, boots>>
    /\ expired \subseteq expired' /\ blacklist \subseteq blacklist'
    /\ loggedOut' \subseteq blacklist'
    /\ \E n \in Nat : DOMAIN issued' = 1 .. n
    /\ Tokens \subseteq DOMAIN issued' /\ \A t \in Tokens : issued'[t] = issued[t]

\* What was known of a request stays true while tokens are issued, revoked and expire.
LEMMA SeatKept == ASSUME TokensKept, NEW r, Seated(r) PROVE Seated(r)'
  <1>1. ASSUME NEW t \in Tokens, ~ValidateToken(t) PROVE ~ValidateToken(t)' /\ t \in Tokens'
    BY <1>1, Zenon DEF TokensKept, ValidateToken, IsRevoked, Tokens
  <1>2. conf' = conf
    BY Zenon DEF TokensKept
  <1> QED
    BY <1>1, <1>2, Zenon DEF Seated

\* A new token gets a number nobody has.
LEMMA GenerateKeeps ==
    ASSUME GwInv, NEW user, NEW role, GenerateToken(user, role),
           UNCHANGED <<conf, boots, signingKey, expired, blacklist, loggedOut>>
    PROVE  TokensKept
  <1>1. PICK n \in Nat : Tokens = 1 .. n
    BY DEF GwInv
  <1>2. Cardinality(Tokens) = n
    BY <1>1, FS_Interval
  <1>3. issued' = Put(issued, n + 1, [user |-> user, role |-> role, key |-> signingKey])
    BY <1>2, Zenon DEF GenerateToken
  <1>4. DOMAIN issued' = 1 .. (n + 1) /\ \A t \in Tokens : issued'[t] = issued[t]
    BY <1>1, <1>3 DEF Put, Tokens
  <1> QED
    BY <1>1, <1>4 DEF TokensKept, GwInv

\* A step that leaves tokens alone.
LEMMA SameKeeps ==
    ASSUME GwInv, UNCHANGED <<conf, boots, issued, expired, signingKey, blacklist, loggedOut>>
    PROVE  TokensKept
  BY Zenon DEF GwInv, TokensKept, Tokens

\* One request is answered, the others stay.
LEMMA AnsweredInv ==
    ASSUME GwInv, TokensKept, NEW c, NEW code, Answered(c, code)
    PROVE  /\ GwInv' /\ answer' = code
           /\ DOMAIN desk \ DOMAIN desk' \subseteq {c}
  <1>1. /\ DOMAIN desk' = DOMAIN desk \ {c} /\ answer' = code
        /\ \A d \in DOMAIN desk' : desk'[d] = desk[d]
    BY Zenon DEF Answered, Reply, Del, Restrict
  <1>2. ASSUME NEW d \in DOMAIN desk' PROVE Seated(desk[d])'
    <2>1. PICK r : r = desk[d]
      OBVIOUS
    <2>2. Seated(r)
      BY <1>1, <2>1, Zenon DEF GwInv
    <2>3. Seated(r)'
      BY <2>2, SeatKept
    <2> QED
      BY <1>1, <2>1, <2>3, Zenon
  <1> QED
    BY <1>1, <1>2, Zenon DEF GwInv, TokensKept, Tokens

\* A request that gets past its handler's check did not come with a spent token,
\* unless the handler looks at no token.
LEMMA ProceedInv ==
    ASSUME GwInv, TokensKept, NEW c \in DOMAIN desk, NEW cred,
           desk[c].path \in {"refresh", "logout", "users"} => ~desk[c].spent,
           \/ desk' = [desk EXCEPT ![c].at = "checked"]
           \/ desk' = [desk EXCEPT ![c].at = "checked", ![c].cred = cred]
    PROVE  GwInv' /\ DOMAIN desk' = DOMAIN desk
  <1>1. PICK r : r = desk[c]
    OBVIOUS
  <1>2. Seated(r) /\ (r.path \in {"refresh", "logout", "users"} => ~r.spent)
    BY <1>1, Zenon DEF GwInv
  <1>3. PICK q : q = desk'[c]
    OBVIOUS
  <1>4. /\ DOMAIN desk' = DOMAIN desk
        /\ \A d \in DOMAIN desk \ {c} : desk'[d] = desk[d]
        /\ q = [r EXCEPT !.at = "checked"] \/ q = [r EXCEPT !.at = "checked", !.cred = cred]
    BY <1>1, <1>3
  <1>5. /\ DOMAIN q = {"at", "path", "method", "cred", "spent"}
        /\ q.path = r.path /\ q.spent = r.spent
    BY <1>2, <1>4, Zenon DEF Seated
  <1>6. Seated(q)
    BY <1>2, <1>5 DEF Seated
  <1>7. ASSUME NEW d \in DOMAIN desk PROVE Seated(desk[d])'
    <2>1. CASE d = c
      BY <1>3, <1>6, <2>1, SeatKept
    <2>2. CASE d # c
      <3>1. PICK o : o = desk[d]
        OBVIOUS
      <3>2. Seated(o)'
        BY <3>1, SeatKept DEF GwInv
      <3> QED
        BY <1>4, <2>2, <3>1, <3>2
    <2> QED
      BY <2>1, <2>2
  <1> QED
    BY <1>4, <1>7, Zenon DEF GwInv, TokensKept, Tokens

\* The chain lets no spent token through to a handler that does not look.
LEMMA ArriveInv ==
    ASSUME GwInv, NEW c, NEW route \in Routes, NEW cred \in Credentials,
           Arrive(c, route[1], route[2], cred)
    PROVE  GwInv' /\ DOMAIN desk \subseteq DOMAIN desk'
  <1>1. PICK path, method : path = route[1] /\ method = route[2]
    OBVIOUS
  <1>2. PICK empty \in BOOLEAN :
           desk' = IF middleware(path, method, cred, empty) # 0 THEN desk
                   ELSE Put(desk, c, [at |-> "handler", path |-> path, method |-> method,
                                      cred |-> IF path \in Checked THEN cred ELSE NoCred,
                                      spent |-> Spent(cred)])
    BY <1>1, Zenon DEF Arrive
  <1>3. c \notin DOMAIN desk /\ UNCHANGED <<conf, boots, issued, expired, signingKey, blacklist, loggedOut>>
    BY Zenon DEF Arrive, authVars
  <1>4. TokensKept
    BY <1>3, SameKeeps, Zenon
  <1>5. ASSUME NEW d \in DOMAIN desk, desk'[d] = desk[d] PROVE Seated(desk[d])'
    <2>1. PICK o : o = desk[d]
      OBVIOUS
    <2> QED
      BY <1>4, <1>5, <2>1, SeatKept, Zenon DEF GwInv
  <1>6. CASE middleware(path, method, cred, empty) # 0
    <2>1. desk' = desk
      BY <1>2, <1>6, Zenon
    <2> QED
      BY <1>4, <1>5, <2>1, Zenon DEF GwInv, TokensKept, Tokens
  <1>7. CASE middleware(path, method, cred, empty) = 0
    <2>1. PICK b : b = Spent(cred)
      OBVIOUS
    <2>2. PICK seen : seen = IF path \in Checked THEN cred ELSE NoCred
      OBVIOUS
    <2>3. PICK q : q = [at |-> "handler", path |-> path, method |-> method, cred |-> seen, spent |-> b]
      BY Zenon
    <2>4. desk' = Put(desk, c, q)
      BY <1>2, <1>7, <2>1, <2>2, <2>3, Zenon
    <2>5. /\ DOMAIN desk' = DOMAIN desk \cup {c} /\ desk'[c] = q
          /\ \A d \in DOMAIN desk : desk'[d] = desk[d]
      BY <1>3, <2>4, Zenon DEF Put
    <2>6. ASSUME Spent(cred)
          PROVE  /\ cred.kind = "bearer" /\ cred.jti \in Tokens /\ ~ValidateToken(cred.jti)
                 /\ path = "vms" => ~conf.rbac
      <3>1. cred.kind = "bearer"
        BY <2>6, Zenon DEF Spent
      <3>2. cred.jti \in Tokens
        BY <3>1 DEF Credentials, NoCred, Basic, Bearer
      <3>3. ~ValidateToken(cred.jti)
        BY <2>6, Zenon DEF Spent, ValidateToken, IsRevoked, GwInv
      <3>4. RoleOf(cred) = "nobody"
        BY <3>1, <3>3 DEF RoleOf
      <3>5. path = "vms" /\ conf.rbac => RBACMiddleware(path, method, cred) = 401
        BY <3>4 DEF RBACMiddleware, Open
      <3>6. RBACMiddleware(path, method, cred) = 401 => middleware(path, method, cred, empty) = 401
        BY DEF middleware
      <3> QED
        BY <1>7, <3>1, <3>2, <3>3, <3>5, <3>6
    <2>7. q.spent <=> Spent(cred)
      BY Zenon, <2>1, <2>3
    <2>8. /\ DOMAIN q = {"at", "path", "method", "cred", "spent"} /\ q.at = "handler"
          /\ q.path = path /\ q.cred = seen
      BY <2>3, Zenon
    <2>9. path \in {p[1] : p \in Routes}
      BY <1>1, Zenon
    <2>10. path \in {"refresh", "logout", "users"} => seen = cred
      BY <2>2 DEF Checked
    <2>11. Seated(q)
      BY <2>6, <2>7, <2>8, <2>9, <2>10, Zenon DEF Seated
    <2>12. Seated(q)'
      BY <1>4, <2>11, SeatKept
    <2>13. ASSUME NEW d \in DOMAIN desk' PROVE Seated(desk[d])'
      BY <1>5, <2>5, <2>12, Zenon
    <2> QED
      BY <1>4, <2>5, <2>13, Zenon DEF GwInv, TokensKept, Tokens
  <1> QED
    BY <1>6, <1>7, Zenon

\* What SpentTokenRefused says of a step.
ServedSpent ==
    \E c \in DOMAIN desk \ DOMAIN desk' :
        /\ desk[c].spent /\ boots' = boots
        /\ conf.rbac \/ desk[c].path # "vms"
        /\ desk[c].path \notin Open /\ answer' # 401

\* A request that may be answered: it is not spent, or it is open to all, or the
\* answer is 401.
LEMMA AnswerWell ==
    ASSUME GwInv, TokensKept, NEW c \in DOMAIN desk, NEW code, Answered(c, code),
           \/ code = 401
           \/ desk[c].path \in {"refresh", "logout", "users"} => desk[c].at # "handler"
    PROVE  GwInv' /\ ~ServedSpent
  <1>1. GwInv' /\ answer' = code /\ DOMAIN desk \ DOMAIN desk' \subseteq {c}
    BY AnsweredInv, Zenon
  <1>2. PICK r : r = desk[c]
    OBVIOUS
  <1>3. Seated(r)
    BY <1>2, Zenon DEF GwInv
  <1>4. r.path \in Open \cup {"vms", "refresh", "logout", "users"}
    BY <1>3 DEF Seated, Routes, Open
  <1>5. r.spent /\ (conf.rbac \/ r.path # "vms") => r.path \in Open \/ code = 401
    BY <1>2, <1>3, <1>4, Zenon DEF Seated
  <1> QED
    BY <1>1, <1>2, <1>5, Zenon DEF ServedSpent

\* The checks of login, refresh, logout and user management.
LEMMA ChecksWell ==
    ASSUME GwInv, NEW c,
           \/ LoginCheck(c) \/ AdminCheck(c)
           \/ TokenCheck(c, "refresh") \/ TokenCheck(c, "logout")
    PROVE  GwInv' /\ ~ServedSpent
  <1>1. c \in DOMAIN desk /\ desk[c].at = "handler" /\ Seated(desk[c])
    BY Zenon DEF LoginCheck, AdminCheck, TokenCheck, At, GwInv
  <1>2. UNCHANGED <<conf, boots, issued, expired, signingKey, blacklist, loggedOut>>
    BY Zenon DEF LoginCheck, AdminCheck, TokenCheck, authVars
  <1>3. TokensKept
    BY <1>2, SameKeeps
  <1>4. CASE LoginCheck(c)
    <2>1. desk[c].path = "login"
      BY <1>4 DEF LoginCheck, At
    <2>2. ASSUME NEW code, Answered(c, code) PROVE GwInv' /\ ~ServedSpent
      BY <1>1, <1>3, <2>1, <2>2, AnswerWell, Zenon
    <2>3. ASSUME NEW cred, desk' = [desk EXCEPT ![c].at = "checked", ![c].cred = cred]
          PROVE  GwInv' /\ ~ServedSpent
      BY <1>1, <1>3, <2>1, <2>3, ProceedInv, Zenon DEF ServedSpent
    <2> QED
      BY <1>4, <2>2, <2>3 DEF LoginCheck
  <1>5. CASE TokenCheck(c, "refresh") \/ TokenCheck(c, "logout")
    <2>1. CASE desk[c].cred.kind = "bearer" /\ ValidateToken(desk[c].cred.jti)
      <3>1. Proceed(c)
        BY <1>5, <2>1, Zenon DEF TokenCheck
      <3>2. desk[c].path \in {"refresh", "logout", "users"} => ~desk[c].spent
        BY <1>1, <2>1, Zenon DEF Seated
      <3> QED
        BY <1>1, <1>3, <3>1, <3>2, ProceedInv, Zenon DEF Proceed, ServedSpent
    <2>2. CASE ~(desk[c].cred.kind = "bearer" /\ ValidateToken(desk[c].cred.jti))
      BY <1>1, <1>3, <1>5, <2>2, AnswerWell, Zenon DEF TokenCheck
    <2> QED
      BY <2>1, <2>2, Zenon
  <1>6. CASE AdminCheck(c)
    <2>1. PICK code : code = requireAdminFromRequest(desk[c].cred)
      OBVIOUS
    <2>2. desk[c].path = "users"
      BY <1>6, Zenon DEF AdminCheck, At
    <2>3. desk[c].spent => code = 401
      BY <1>1, <2>1, <2>2 DEF Seated, requireAdminFromRequest
    <2>4. CASE code = 0
      <3>1. Proceed(c) /\ ~desk[c].spent
        BY <1>6, <2>1, <2>3, <2>4 DEF AdminCheck
      <3> QED
        BY <1>1, <1>3, <3>1, ProceedInv, Zenon DEF Proceed, ServedSpent
    <2>5. CASE code # 0
      <3>1. Answered(c, code)
        BY <1>6, <2>1, <2>5, Zenon DEF AdminCheck
      <3>2. GwInv' /\ answer' = code /\ DOMAIN desk \ DOMAIN desk' \subseteq {c}
        BY <1>1, <1>3, <3>1, AnsweredInv, Zenon
      <3> QED
        BY <2>3, <3>2, Zenon DEF ServedSpent
    <2> QED
      BY <2>4, <2>5
  <1> QED
    BY <1>4, <1>5, <1>6, Zenon

\* The handlers that answer: past their check, or without one.
LEMMA HandlersWell ==
    ASSUME GwInv, NEW c,
           \/ recoveryMiddleware(c) \/ handleAuthLogin(c) \/ handleAuthRefresh(c) \/ handleAuthLogout(c)
           \/ handleAuthListUsers(c) \/ handleAuthCreateUser(c) \/ handleAuthDeleteUser(c)
    PROVE  GwInv' /\ ~ServedSpent
  <1>1. /\ c \in DOMAIN desk
        /\ desk[c].path \in {"refresh", "logout", "users"} => desk[c].at # "handler"
    BY Zenon
       DEF recoveryMiddleware, handleAuthLogin, handleAuthRefresh, handleAuthLogout,
       handleAuthListUsers, handleAuthCreateUser, handleAuthDeleteUser, At
  <1>2. \E code : Answered(c, code)
    BY ZenonT(60)
       DEF recoveryMiddleware, handleAuthLogin, handleAuthRefresh, handleAuthLogout,
       handleAuthListUsers, handleAuthCreateUser, handleAuthDeleteUser
  <1>3. TokensKept
    <2>1. CASE handleAuthLogin(c) \/ handleAuthRefresh(c)
      BY <2>1, GenerateKeeps, Zenon DEF handleAuthLogin, handleAuthRefresh
    <2>2. CASE handleAuthLogout(c)
      <3>1. PICK t : blacklist' = blacklist \cup {t} /\ loggedOut' = loggedOut \cup {t}
        BY <2>2, Zenon DEF handleAuthLogout, RevokeToken
      <3> QED
        BY <2>2, <3>1, Zenon DEF handleAuthLogout, TokensKept, GwInv, Tokens
    <2>3. CASE \/ recoveryMiddleware(c) \/ handleAuthListUsers(c)
               \/ handleAuthCreateUser(c) \/ handleAuthDeleteUser(c)
      BY <2>3, SameKeeps, Zenon
         DEF recoveryMiddleware, handleAuthListUsers, handleAuthCreateUser,
         handleAuthDeleteUser, authVars
    <2> QED
      BY <2>1, <2>2, <2>3, Zenon
  <1> QED
    BY <1>1, <1>2, <1>3, AnswerWell, Zenon

\* There are no tokens and no requests at first.
LEMMA GwInitInv == GwInit => GwInv
  <1> SUFFICES ASSUME GwInit PROVE GwInv
    OBVIOUS
  <1>1. Tokens = 1 .. 0
    BY DEF GwInit, Empty, Tokens
  <1> QED
    BY <1>1, Zenon DEF GwInit, GwInv, Empty

\* Every step keeps the invariant and serves no request that came with a spent token.
LEMMA GwStepInv == GwInv /\ [GwNext]_gwVars => GwInv' /\ ~ServedSpent
  <1> SUFFICES ASSUME GwInv, [GwNext]_gwVars PROVE GwInv' /\ ~ServedSpent
    OBVIOUS
  <1>1. ASSUME NEW c, NEW r \in Routes, NEW cred \in Credentials, Arrive(c, r[1], r[2], cred)
        PROVE  GwInv' /\ ~ServedSpent
    BY <1>1, ArriveInv, Zenon DEF ServedSpent
  <1>2. CASE UNCHANGED <<conf, boots, issued, signingKey, blacklist, loggedOut, desk>> /\ expired \subseteq expired'
    <2>1. TokensKept
      BY <1>2, Zenon DEF TokensKept, GwInv, Tokens
    <2>2. ASSUME NEW d \in DOMAIN desk PROVE Seated(desk[d])'
      <3>1. PICK r : r = desk[d]
        OBVIOUS
      <3> QED
        BY <1>2, <2>1, <3>1, SeatKept, Zenon DEF GwInv
    <2> QED
      BY <1>2, <2>1, <2>2, Zenon DEF GwInv, TokensKept, Tokens, ServedSpent
  <1>3. CASE \E t \in Tokens : TokenExpires(t)
    BY <1>2, <1>3, Zenon DEF TokenExpires
  <1>4. CASE UNCHANGED gwVars
    BY <1>2, <1>4, Zenon DEF gwVars, authVars
  <1>5. CASE GwRestart
    <2>1. boots' = boots + 1 /\ boots \in Nat
      BY <1>5, Zenon DEF GwRestart, GwInv
    <2>2. loggedOut' = {} /\ DOMAIN desk' = {} /\ issued' = issued
      BY <1>5, Zenon DEF GwRestart, Empty
    <2> QED
      BY <2>1, <2>2 DEF GwInv, ServedSpent, Tokens
  <1> QED
    BY <1>1, <1>3, <1>4, <1>5, ChecksWell, HandlersWell, Zenon DEF GwNext

\* For any number of requests, users, tokens and restarts: a request whose token had been
\* logged out, had expired or was signed with another key when it arrived is never served,
\* although the chain and the handler check the token at different times.
THEOREM SpentTokensAreRefused == GwSpec => SpentTokenRefused
  <1>1. ~ServedSpent =>
           \A c \in DOMAIN desk \ DOMAIN desk' :
              /\ desk[c].spent /\ boots' = boots
              /\ conf.rbac \/ desk[c].path # "vms"
              => desk[c].path \in Open \/ answer' = 401
    BY Zenon DEF ServedSpent
  <1> QED
    BY <1>1, GwInitInv, GwStepInv, PTL DEF GwSpec, SpentTokenRefused

-----------------------------------------------------------------------------
(* Registry.                                                               *)

\* An id that was taken is below its counter, not yet in its table, and taken by
\* one request only.
TakenOnce ==
    \A c \in DOMAIN entering :
        /\ entering[c][1] \in {"image", "template"}
        /\ entering[c][1] = "image" =>
              entering[c][2] < nextImageID /\ entering[c][2] \notin DOMAIN images
        /\ entering[c][1] = "template" =>
              entering[c][2] < nextTemplateID /\ entering[c][2] \notin DOMAIN templates
        /\ entering[c][2] \in Nat
        /\ \A d \in DOMAIN entering \ {c} : entering[d] # entering[c]

\* The inductive invariant of both tables: every id in use is below its counter, and an id
\* that was taken is nobody else's until it is entered.
RgInv ==
    /\ nextImageID \in Nat /\ nextTemplateID \in Nat
    /\ \A i \in DOMAIN images : i \in Nat /\ i < nextImageID
    /\ \A i \in DOMAIN templates : i \in Nat /\ i < nextTemplateID
    /\ \A c \in DOMAIN entering : entering[c] = <<entering[c][1], entering[c][2]>>
    /\ TakenOnce

\* The default images and templates have the first three ids.
LEMMA RgInitInv == RgInit => RgInv
  BY DEF RgInit, RgInv, TakenOnce, NewImageService, NewTemplateService, Empty

\* An entry leaves the table of pending ones, the others stay.
LEMMA Leaves ==
    ASSUME NEW m, NEW k
    PROVE  /\ DOMAIN Del(m, k) = DOMAIN m \ {k}
           /\ \A x \in DOMAIN m \ {k} : Del(m, k)[x] = m[x]
  BY Zenon DEF Del, Restrict

\* RegisterImage takes an id that no entry and no other request has.
LEMMA RegisterInv == ASSUME RgInv, NEW c, RegisterImage(c) PROVE RgInv'
  <1>1. /\ DOMAIN entering' = DOMAIN entering \cup {c}
        /\ entering'[c] = <<"image", nextImageID>>
        /\ \A d \in DOMAIN entering : entering'[d] = entering[d]
    BY Zenon DEF RegisterImage, Put, NotEntering
  <1>2. nextImageID' = nextImageID + 1 /\ UNCHANGED <<images, templates, nextTemplateID>>
    BY Zenon DEF RegisterImage, templateVars
  <1>3. \A d \in DOMAIN entering : entering[d] # <<"image", nextImageID>>
    BY DEF RgInv, TakenOnce
  <1>4. TakenOnce'
    <2>1. /\ nextImageID \in Nat /\ nextImageID \notin DOMAIN images /\ nextImageID < nextImageID'
          /\ \A k \in Nat : k < nextImageID => k < nextImageID'
      BY <1>2 DEF RgInv
    <2> QED
      BY <1>1, <1>2, <1>3, <2>1 DEF RgInv, TakenOnce
  <1> QED
    BY <1>1, <1>2, <1>4 DEF RgInv

\* So does CreateTemplate.
LEMMA CreateTemplateInv == ASSUME RgInv, NEW c, CreateTemplate(c) PROVE RgInv'
  <1>1. /\ DOMAIN entering' = DOMAIN entering \cup {c}
        /\ entering'[c] = <<"template", nextTemplateID>>
        /\ \A d \in DOMAIN entering : entering'[d] = entering[d]
    BY Zenon DEF CreateTemplate, Put, NotEntering
  <1>2. nextTemplateID' = nextTemplateID + 1 /\ UNCHANGED <<images, templates, nextImageID>>
    BY Zenon DEF CreateTemplate, imageVars
  <1>3. \A d \in DOMAIN entering : entering[d] # <<"template", nextTemplateID>>
    BY DEF RgInv, TakenOnce
  <1>4. TakenOnce'
    <2>1. /\ nextTemplateID \in Nat /\ nextTemplateID \notin DOMAIN templates /\ nextTemplateID < nextTemplateID'
          /\ \A k \in Nat : k < nextTemplateID => k < nextTemplateID'
      BY <1>2 DEF RgInv
    <2> QED
      BY <1>1, <1>2, <1>3, <2>1 DEF RgInv, TakenOnce
  <1> QED
    BY <1>1, <1>2, <1>4 DEF RgInv

\* The entry is made under an id the table does not have.
LEMMA EnterImageInv ==
    ASSUME RgInv, NEW c, EnterImage(c)
    PROVE  /\ RgInv'
           /\ \A i \in DOMAIN images : images'[i] = images[i]
  <1>1. c \in DOMAIN entering /\ entering[c][1] = "image"
    BY Zenon DEF EnterImage, NotEntering
  <1>2. /\ DOMAIN entering' = DOMAIN entering \ {c}
        /\ \A d \in DOMAIN entering' : entering'[d] = entering[d]
    BY Leaves, Zenon DEF EnterImage
  <1>3. PICK n : n = entering[c][2]
    OBVIOUS
  <1>4. n \in Nat /\ n < nextImageID /\ n \notin DOMAIN images /\ entering[c] = <<"image", n>>
    BY <1>1, <1>3, Zenon DEF RgInv, TakenOnce
  <1>5. DOMAIN images' = DOMAIN images \cup {n} /\ \A i \in DOMAIN images : images'[i] = images[i]
    BY <1>3, <1>4, Zenon DEF EnterImage, Put
  <1>6. UNCHANGED <<nextImageID, templates, nextTemplateID>>
    BY Zenon DEF EnterImage, templateVars
  <1>7. ASSUME NEW d \in DOMAIN entering', entering[d][1] = "image"
        PROVE  entering[d][2] # n
    <2>1. d \in DOMAIN entering \ {c}
      BY <1>2, <1>7, Zenon
    <2>2. entering[d] # entering[c]
      BY <1>1, <2>1, Zenon DEF RgInv, TakenOnce
    <2>3. entering[d] = <<"image", entering[d][2]>>
      BY <1>7, <2>1, Zenon DEF RgInv
    <2> QED
      BY <1>4, <2>2, <2>3, Zenon
  <1>8. TakenOnce'
    BY <1>2, <1>5, <1>6, <1>7, ZenonT(60) DEF RgInv, TakenOnce
  <1> QED
    BY <1>2, <1>4, <1>5, <1>6, <1>8, Zenon DEF RgInv

\* So is a template's.
LEMMA EnterTemplateInv ==
    ASSUME RgInv, NEW c, EnterTemplate(c)
    PROVE  /\ RgInv'
           /\ \A i \in DOMAIN templates : templates'[i] = templates[i]
  <1>1. c \in DOMAIN entering /\ entering[c][1] = "template"
    BY Zenon DEF EnterTemplate, NotEntering
  <1>2. /\ DOMAIN entering' = DOMAIN entering \ {c}
        /\ \A d \in DOMAIN entering' : entering'[d] = entering[d]
    BY Leaves, Zenon DEF EnterTemplate
  <1>3. PICK n : n = entering[c][2]
    OBVIOUS
  <1>4. n \in Nat /\ n < nextTemplateID /\ n \notin DOMAIN templates /\ entering[c] = <<"template", n>>
    BY <1>1, <1>3, Zenon DEF RgInv, TakenOnce
  <1>5. /\ DOMAIN templates' = DOMAIN templates \cup {n}
        /\ \A i \in DOMAIN templates : templates'[i] = templates[i]
    BY <1>3, <1>4, Zenon DEF EnterTemplate, Put
  <1>6. UNCHANGED <<nextTemplateID, images, nextImageID>>
    BY Zenon DEF EnterTemplate, imageVars
  <1>7. ASSUME NEW d \in DOMAIN entering', entering[d][1] = "template"
        PROVE  entering[d][2] # n
    <2>1. d \in DOMAIN entering \ {c}
      BY <1>2, <1>7, Zenon
    <2>2. entering[d] # entering[c]
      BY <1>1, <2>1, Zenon DEF RgInv, TakenOnce
    <2>3. entering[d] = <<"template", entering[d][2]>>
      BY <1>7, <2>1, Zenon DEF RgInv
    <2> QED
      BY <1>4, <2>2, <2>3, Zenon
  <1>8. TakenOnce'
    BY <1>2, <1>5, <1>6, <1>7, ZenonT(60) DEF RgInv, TakenOnce
  <1> QED
    BY <1>2, <1>4, <1>5, <1>6, <1>8, Zenon DEF RgInv

\* What EntryNeverReplaced says of a step.
Replaced ==
    \/ \E i \in DOMAIN images \cap DOMAIN images' : images'[i] # images[i]
    \/ \E i \in DOMAIN templates \cap DOMAIN templates' : templates'[i] # templates[i]

\* A deletion takes an entry away and changes no other.
LEMMA DeletesOne ==
    ASSUME RgInv, handleDeleteImage \/ handleDeleteTemplate
    PROVE  RgInv' /\ ~Replaced
  <1> DEFINE Same == UNCHANGED <<images, nextImageID, templates, nextTemplateID, entering>>
             Shrinks == /\ UNCHANGED <<nextImageID, nextTemplateID, entering>>
                        /\ DOMAIN images' \subseteq DOMAIN images
                        /\ DOMAIN templates' \subseteq DOMAIN templates
                        /\ \A i \in DOMAIN images' : images'[i] = images[i]
                        /\ \A i \in DOMAIN templates' : templates'[i] = templates[i]
  <1>1. Same => Shrinks
    OBVIOUS
  <1>2. ASSUME NEW i, DeleteImage(i) PROVE Shrinks
    BY <1>2, Leaves, Zenon DEF DeleteImage, templateVars
  <1>3. ASSUME NEW i, DeleteTemplate(i) PROVE Shrinks
    BY <1>3, Leaves, Zenon DEF DeleteTemplate, imageVars
  <1>4. Same \/ (\E i : DeleteImage(i)) \/ (\E i : DeleteTemplate(i))
    BY DEF handleDeleteImage, handleDeleteTemplate, imageVars, templateVars
  <1>5. Shrinks
    BY <1>1, <1>2, <1>3, <1>4, Zenon
  <1>6. TakenOnce'
    BY <1>5, Zenon DEF RgInv, TakenOnce
  <1> QED
    BY <1>5, <1>6, Zenon DEF RgInv, Replaced

\* Every step of a handler keeps the invariant and replaces no entry.
LEMMA RgStepInv == RgInv /\ [RgNext]_rgVars => RgInv' /\ ~Replaced
  <1> SUFFICES ASSUME RgInv, [RgNext]_rgVars PROVE RgInv' /\ ~Replaced
    OBVIOUS
  <1>1. CASE UNCHANGED <<imageVars, templateVars, entering>>
    <2>1. UNCHANGED <<images, nextImageID, templates, nextTemplateID, entering>>
      BY <1>1 DEF imageVars, templateVars
    <2> QED
      BY <2>1, Zenon DEF RgInv, TakenOnce, Replaced
  <1>2. ASSUME NEW c, RegisterImage(c) PROVE RgInv' /\ ~Replaced
    BY <1>2, RegisterInv, Zenon DEF RegisterImage, templateVars, Replaced
  <1>3. ASSUME NEW c, CreateTemplate(c) PROVE RgInv' /\ ~Replaced
    BY <1>3, CreateTemplateInv, Zenon DEF CreateTemplate, imageVars, Replaced
  <1>4. ASSUME NEW c, EnterImage(c) PROVE RgInv' /\ ~Replaced
    BY <1>4, EnterImageInv, Zenon DEF EnterImage, templateVars, Replaced
  <1>5. ASSUME NEW c, EnterTemplate(c) PROVE RgInv' /\ ~Replaced
    BY <1>5, EnterTemplateInv, Zenon DEF EnterTemplate, imageVars, Replaced
  <1> QED
    BY <1>1, <1>2, <1>3, <1>4, <1>5, DeletesOne, Zenon
       DEF RgNext, handleRegisterImage, handleCreateTemplate,
       handleListImages, handleGetImage, handleListTemplates, handleGetTemplate,
       rgVars,
       imageVars, templateVars

\* For any number of clients: no image and no template is replaced by another, in whatever
\* order ids are taken, entered and deleted.
THEOREM EntriesStay == RgSpec => EntryNeverReplaced
  <1>1. ~Replaced => /\ \A i \in DOMAIN images \cap DOMAIN images' : images'[i] = images[i]
                     /\ \A i \in DOMAIN templates \cap DOMAIN templates' : templates'[i] = templates[i]
    BY Zenon DEF Replaced
  <1> QED
    BY <1>1, RgInitInv, RgStepInv, PTL DEF RgSpec, EntryNeverReplaced

-----------------------------------------------------------------------------
(* Sockets.                                                                *)

-----------------------------------------------------------------------------
(* What the map operations do, for the maps of every component.            *)

\* What Put enters into a map, and what it leaves alone.
LEMMA PutIs ==
    ASSUME NEW f, NEW k, NEW v
    PROVE  /\ DOMAIN Put(f, k, v) = DOMAIN f \cup {k}
           /\ Put(f, k, v)[k] = v
           /\ \A x \in DOMAIN f : x # k => Put(f, k, v)[x] = f[x]
  BY Zenon DEF Put

\* What Del takes out of a map, and what it leaves alone.
LEMMA DelIs ==
    ASSUME NEW f, NEW k
    PROVE  /\ DOMAIN Del(f, k) = DOMAIN f \ {k}
           /\ \A x \in DOMAIN f \ {k} : Del(f, k)[x] = f[x]
  BY DEF Del, Restrict

-----------------------------------------------------------------------------
(* The event hub.  Who is being written to is in the map, and who is in    *)
(* the map has not got as far as Close.                                    *)

\* A connection is in hub.clients only between Join and the deferred function, and
\* Broadcast works on connections that still are there: its read lock keeps them.
SoInv ==
    /\ conn \in [Conns -> {"new", "joining", "refused", "reading", "leaving", "left", "closed"}]
    /\ hub \subseteq Conns
    /\ \A b \in DOMAIN todo : todo[b] \subseteq hub
    /\ \A k \in hub : conn[k] \in {"reading", "leaving"}

\* The hub is empty at first.
LEMMA SoInitInv == SoInit => SoInv
  BY DEF SoInit, SoInv, Empty

\* No step of the hub or of a console disturbs it.
LEMMA SoNextInv == ASSUME SoInv, [SoNext]_soVars PROVE SoInv'
  <1> USE DEF SoInv
  <1>1. ASSUME NEW k \in Conns, Upgrade(k) \/ ReadFails(k) \/ CloseConn(k)
        PROVE  SoInv'
    BY <1>1, Zenon DEF Upgrade, ReadFails, CloseConn
  <1>2. ASSUME NEW k \in Conns, Join(k) \/ LeaveHub(k)
        PROVE  SoInv'
    BY <1>2, Zenon DEF Join, LeaveHub, WriteLocked
  <1>3. ASSUME NEW b \in Senders, Broadcast(b)
        PROVE  SoInv'
    BY <1>3, PutIs, Zenon DEF Broadcast, Put
  <1>4. ASSUME NEW b \in Senders, BroadcastWrite(b)
        PROVE  SoInv'
    <2>1. CASE todo' = Del(todo, b)
      BY <1>4, <2>1 DEF BroadcastWrite, Del, Restrict
    <2>2. ASSUME NEW k \in todo[b], todo' = [todo EXCEPT ![b] = @ \ {k}]
          PROVE  SoInv'
      BY <1>4, <2>2, Zenon DEF BroadcastWrite
    <2> QED
      BY <1>4, <2>1, <2>2, Zenon DEF BroadcastWrite
  <1>5. CASE UNCHANGED hubVars
    BY <1>5, Zenon DEF hubVars
  <1>6. UNCHANGED soVars => UNCHANGED hubVars
    BY Zenon DEF soVars
  <1>7. ASSUME SoNext
        PROVE  \/ UNCHANGED hubVars
               \/ \E k \in Conns : \/ Upgrade(k) \/ ReadFails(k) \/ CloseConn(k)
                                   \/ Join(k) \/ LeaveHub(k)
               \/ \E b \in Senders : Broadcast(b) \/ BroadcastWrite(b)
    BY <1>7, Zenon
       DEF SoNext, HandleWS, OpenConsole, ConsoleReturns, Forgotten, HangUp,
                PumpReads, PumpWrites, PumpEnds
  <1> QED
    BY <1>1, <1>2, <1>3, <1>4, <1>5, <1>6, <1>7, Zenon

\* Broadcast keeps the read lock for its whole loop and HandleWS takes a client
\* out of the map, under the write lock, before it closes the connection: no
\* number of broadcasts and clients makes the hub write to a closed one.
THEOREM BroadcastWritesToOpen == SoSpec => []NoWriteAfterClose
  <1>1. SoInv => NoWriteAfterClose
    BY Zenon DEF SoInv, NoWriteAfterClose
  <1> QED
    BY <1>1, SoInitInv, SoNextInv, PTL DEF SoSpec

-----------------------------------------------------------------------------
(* Cli.                                                                    *)

\* The commands of the program and of its shell.
Commands == main \cup {Login} \cup executeShellCommand

\* Commands that look at the status, decode a list, or are silent.
Sorted(cmd) ==
    \/ cmd.check = TRUE \/ cmd.wants = "array"
    \/ \E c \in Silent : cmd \in {c, Asks(c)}

\* Every command is of one of the known forms.
LEMMA CommandsSorted == \A cmd \in Commands : Sorted(cmd)
  <1>1. /\ Sorted(Lists) /\ Sorted(ListsChecked) /\ Sorted(ListsPage)
        /\ Sorted(Changes) /\ Sorted(ChangesNamed) /\ Sorted(vmAction) /\ Sorted(Login)
        /\ Sorted(handleShellStatus) /\ Sorted(backupList) /\ Sorted(templateList) /\ Sorted(containerExec)
    <2>1. Lists.wants = "array" /\ backupList.wants = "array" /\ templateList.wants = "array" /\ ListsChecked.wants = "array"
      BY Zenon DEF Lists, backupList, templateList, ListsChecked, Command
    <2>2. Changes.check = TRUE /\ ChangesNamed.check = TRUE /\ Login.check = TRUE
      BY Zenon DEF Changes, ChangesNamed, Login, Command
    <2>3. handleShellStatus.check = TRUE /\ containerExec.check = TRUE
      BY Zenon DEF handleShellStatus, containerExec, Command
    <2>4. vmAction \in Silent /\ ListsPage \in Silent
      BY DEF Silent, vmList
    <2> QED
      BY <2>1, <2>2, <2>3, <2>4, Zenon DEF Sorted
  <1>2. /\ Sorted(Asks(Lists)) /\ Sorted(Asks(ListsPage)) /\ Sorted(Asks(Changes))
         /\ Sorted(Asks(vmAction)) /\ Sorted(Asks(backupList))
    <2>1. Asks(Lists).wants = "array" /\ Asks(backupList).wants = "array" /\ Asks(Changes).check = TRUE
      BY DEF Asks, Lists, backupList, Changes, Command
    <2>4. vmAction \in Silent /\ ListsPage \in Silent
      BY DEF Silent, vmList
    <2> QED
      BY <2>1, <2>4, Zenon DEF Sorted
  <1>3. \A cmd \in vmCmd \cup nodeCmd \cup storageCmd \cup networkCmd : Sorted(cmd)
    <2>1. \A cmd \in vmCmd : Sorted(cmd)
      BY <1>1, <1>2, Zenon DEF vmCmd, vmList, vmCreate, vmMigrate
    <2>2. \A cmd \in nodeCmd \cup storageCmd \cup networkCmd : Sorted(cmd)
      BY <1>1, <1>2, Zenon
         DEF nodeCmd, storageCmd, networkCmd, nodeList, storagePoolList, storageVolumeList,
             storageVolumeCreate, networkZoneList, networkVnetList,
         networkFirewallList
    <2> QED
      BY <2>1, <2>2, Zenon
  <1>4. \A cmd \in deviceCmd \cup clusterCmd \cup backupCmd \cup statusCmd : Sorted(cmd)
    <2>1. \A cmd \in deviceCmd : Sorted(cmd)
      BY <1>1, <1>2, Zenon DEF deviceCmd, deviceList, deviceAttach, deviceDetach
    <2>2. \A cmd \in clusterCmd : Sorted(cmd)
      BY <1>1, <1>2, Zenon
         DEF clusterCmd, clusterStatus, clusterNodeList, clusterFence
    <2>3. \A cmd \in backupCmd \cup statusCmd : Sorted(cmd)
      BY <1>1, <1>2, Zenon
         DEF backupCmd, statusCmd, backupCreate, backupDelete, systemStatus
    <2> QED
      BY <2>1, <2>2, <2>3, Zenon
  <1>5. \A cmd \in templateCmd \cup imageCmd \cup snapshotCmd : Sorted(cmd)
    BY <1>1, <1>2, Zenon
       DEF templateCmd, imageCmd, snapshotCmd, templateCreate, templateDelete, templateDeploy,
           imageList, imageRegister, imageDelete, snapshotListCLI,
       snapshotCreateCLI, snapshotDeleteCLI,
           snapshotRestoreCLI
  <1>6. \A cmd \in containerCmd : Sorted(cmd)
    BY <1>1, <1>2, Zenon
       DEF containerCmd, containerList, containerCreate, containerDelete
  <1>7. \A cmd \in executeShellCommand : Sorted(cmd)
    <2>1. \A cmd \in handleShellVM : Sorted(cmd)
      BY <1>1, <1>2, Zenon DEF handleShellVM
    <2>2. \A cmd \in handleShellStorage \cup handleShellNetwork \cup handleShellDevice : Sorted(cmd)
      BY <1>1, <1>2, Zenon
         DEF handleShellStorage, handleShellNetwork, handleShellDevice, storagePoolList,
             storageVolumeList, networkZoneList, networkVnetList,
         networkFirewallList, shellDeviceList
    <2>3. \A cmd \in handleShellCluster : Sorted(cmd)
      BY <1>1, <1>2, Zenon DEF handleShellCluster, clusterStatus, clusterNodeList
    <2>4. \A cmd \in handleShellBackup \cup {handleShellStatus} : Sorted(cmd)
      BY <1>1, <1>2, Zenon DEF handleShellBackup
    <2> QED
      BY <2>1, <2>2, <2>3, <2>4, Zenon DEF executeShellCommand
  <1> QED
    BY <1>1, <1>3, <1>4, <1>5, <1>6, <1>7, Zenon DEF main, Commands

\* A command that looked at no status error and decoded a body that is no list.
RunKnown == \A t \in DOMAIN run : run[t].cmd \in Commands

\* How a step may end a command: its records stay, or one of them is appended or removed
LEMMA KnownKept ==
    ASSUME RunKnown, \A t \in DOMAIN run' : t \in DOMAIN run /\ run'[t].cmd = run[t].cmd
    PROVE  RunKnown'
  BY Zenon DEF RunKnown

\* A command that ends is reported as the command it is.
LEMMA EndsKnown ==
    ASSUME RunKnown, NEW t, NEW cmd, NEW code, NEW ok, Ends(t, cmd, code, ok)
    PROVE  RunKnown' /\ ended' = [ok |-> ok, code |-> code, cmd |-> cmd]
  BY KnownKept, Zenon DEF Ends, Del, Restrict

\* The error codes a command may end with without saying so.
LEMMA FailureServed ==
    ASSUME ended'.ok = FALSE \/ ended'.code \in {Pending, 200}
    PROVE  SuccessIsServed'
  BY DEF SuccessIsServed, IsError, Pending

\* The end of a command: success is claimed on a served answer only.
LEMMA ConcludesServed ==
    ASSUME RunKnown, NEW t, Concludes(t)
    PROVE  RunKnown' /\ SuccessIsServed'
  <1>1. PICK cmd : cmd = run[t].cmd
    OBVIOUS
  <1>2. t \in DOMAIN run /\ Sorted(cmd)
    BY <1>1, CommandsSorted, Zenon DEF Concludes, CliIdle, RunKnown
  <1>3. PICK code \in Codes(cmd, run[t].cred) :
            Ends(t, cmd, code, ~checkResponse(cmd, code) /\ Decodes(cmd, code))
    BY <1>1, Zenon DEF Concludes
  <1>4. PICK ok : ok = (~checkResponse(cmd, code) /\ Decodes(cmd, code))
    OBVIOUS
  <1>5. RunKnown' /\ ended' = [ok |-> ok, code |-> code, cmd |-> cmd]
    BY <1>3, <1>4, EndsKnown, Zenon
  <1>6. ended'.ok = ok /\ ended'.code = code /\ ended'.cmd = cmd
    BY <1>5, Zenon
  <1>7. CASE ok /\ IsError(code)
    <2>1. code \in Int /\ code >= 400
      BY <1>7, <1>3 DEF IsError, Codes
    <2>2. ~(cmd.check = TRUE)
      BY <1>4, <1>7, <2>1, Zenon DEF checkResponse
    <2>3. cmd.wants \in {"", "object"}
      BY <1>4, <1>7, Zenon DEF Decodes
    <2>4. \E c \in Silent : cmd \in {c, Asks(c)}
      BY <1>2, <2>2, <2>3, Zenon DEF Sorted
    <2> QED
      BY <1>5, <1>6, <2>4, Zenon DEF SuccessIsServed
  <1>8. CASE ~(ok /\ IsError(code))
    <2>1. SuccessIsServed'
      BY <1>6, <1>8, Zenon DEF SuccessIsServed
    <2> QED
      BY <1>5, <2>1, Zenon
  <1> QED
    BY <1>7, <1>8, Zenon

\* Invocation of a known command.
LEMMA InvokeServed ==
    ASSUME RunKnown, SuccessIsServed, NEW t, NEW cmd \in Commands, Invoke(t, cmd)
    PROVE  RunKnown' /\ SuccessIsServed'
  <1>1. CASE Ends(t, cmd, Pending, FALSE)
    <2>1. RunKnown' /\ ended' = [ok |-> FALSE, code |-> Pending, cmd |-> cmd]
      BY <1>1, EndsKnown, Zenon
    <2> QED
      BY <2>1, FailureServed, Zenon
  <1>2. ASSUME NEW r, r.cmd = cmd, run' = Put(run, t, r), UNCHANGED ended
        PROVE  RunKnown' /\ SuccessIsServed'
    BY <1>2, Zenon DEF RunKnown, SuccessIsServed, Put
  <1>3. ASSUME NEW user \in BOOLEAN, UNCHANGED ended,
               run' = Put(run, t, [at |-> "sent", cmd |-> cmd, token |-> NoToken,
                                   cred |-> IF cmd.auth THEN newRequest(user) ELSE NoToken])
        PROVE  RunKnown' /\ SuccessIsServed'
    <2>1. PICK r : r = [at |-> "sent", cmd |-> cmd, token |-> NoToken,
                        cred |-> IF cmd.auth THEN newRequest(user) ELSE NoToken]
      BY Zenon
    <2>2. r.cmd = cmd
      BY <2>1, Zenon
    <2> QED
      BY <1>2, <1>3, <2>1, <2>2, Zenon
  <1> QED
    BY <1>1, <1>3, Zenon DEF Invoke

\* The steps that end a command with an error, or a login.
LEMMA EndsServed ==
    ASSUME RunKnown, NEW t, NEW cmd, NEW code, NEW ok, Ends(t, cmd, code, ok),
           ok = FALSE \/ code = 200
    PROVE  RunKnown' /\ SuccessIsServed'
  <1>1. RunKnown' /\ ended' = [ok |-> ok, code |-> code, cmd |-> cmd]
    BY EndsKnown
  <1> QED
    BY <1>1, FailureServed, Zenon

\* No step of a terminal or of the server disturbs it.
LEMMA CliStepServed == RunKnown /\ SuccessIsServed /\ [CliNext]_<<cliVars, answer>>
                           => (RunKnown /\ SuccessIsServed)'
  <1> SUFFICES ASSUME RunKnown, SuccessIsServed, [CliNext]_<<cliVars, answer>>
               PROVE  RunKnown' /\ SuccessIsServed'
    OBVIOUS
  <1>1. CASE UNCHANGED <<run, ended>>
    BY <1>1, Zenon DEF RunKnown, SuccessIsServed
  <1>2. ASSUME NEW t, \E cmd \in Commands : Invoke(t, cmd) PROVE RunKnown' /\ SuccessIsServed'
    BY <1>2, InvokeServed, Zenon
  <1>3. ASSUME NEW t, Concludes(t) PROVE RunKnown' /\ SuccessIsServed'
    BY <1>3, ConcludesServed, Zenon
  <1>4. ASSUME NEW t, Fails(t) PROVE RunKnown' /\ SuccessIsServed'
    <2>1. PICK cmd : cmd = run[t].cmd
      OBVIOUS
    <2> QED
      BY <1>4, <2>1, EndsServed, Zenon DEF Fails
  <1>5. ASSUME NEW t, loginRun(t) PROVE RunKnown' /\ SuccessIsServed'
    <2>1. CASE \E code, ok : Ends(t, Login, code, ok) /\ ok = FALSE
      BY <2>1, EndsServed, Zenon
    <2>2. ASSUME NEW token, OpenTokenFile(t, token) PROVE RunKnown' /\ SuccessIsServed'
      BY <2>2 DEF OpenTokenFile, RunKnown, SuccessIsServed
    <2>3. ASSUME Granted(t) PROVE RunKnown' /\ SuccessIsServed'
      <3>1. PICK n : n = logins + 1
        OBVIOUS
      <3> QED
        BY <2>1, <2>2, <2>3, <3>1, Zenon DEF Granted
    <2> QED
      BY <1>5, <2>1, <2>3, Zenon DEF loginRun
  <1>6. ASSUME NEW t, WriteTokenFile(t) PROVE RunKnown' /\ SuccessIsServed'
    BY <1>6, EndsServed, Zenon DEF WriteTokenFile
  <1>7. ASSUME NEW t, ShellVMList(t) PROVE RunKnown' /\ SuccessIsServed'
    BY <1>7, EndsServed, Zenon DEF ShellVMList
  <1>8. (\E t \in Terminals : runShell(t)) \/ TokenDropped => UNCHANGED <<run, ended>>
    BY Zenon DEF runShell, TokenDropped
  <1> QED
    BY <1>1, <1>2, <1>3, <1>4, <1>5, <1>6, <1>7, <1>8, Zenon
       DEF CliNext, cliVars, Commands

\* For any number of terminals: a command that reported success was served by the
\* controller, except for the four that neither check the status nor decode a list.
THEOREM SuccessWasServed == CliSpec => []SuccessIsServed
  <1>1. CliInit => RunKnown /\ SuccessIsServed
    BY DEF CliInit, RunKnown, SuccessIsServed, Empty, Nothing, IsError, Pending
  <1> QED
    BY <1>1, CliStepServed, PTL DEF CliSpec
=============================================================================
