---------------------------- MODULE RateLimiter ----------------------------
(***************************************************************************)
(* The token bucket of api/ratelimit.go: the limiter in front of the       *)
(* routes (HCV_RATE_LIMIT) and the one in front of the login handler.      *)
(* Time advances by ticks and the bucket is counted in units, Rate of them *)
(* a tick and Unit of them a request, so that fractions of a request are   *)
(* integers; the rounding of float64 is left out.  The bucket is only      *)
(* refilled when a request looks at it.                                    *)
(***************************************************************************)
EXTENDS Integers

CONSTANTS Unit, Rate, Burst,   \* units per request and per tick; bucket in requests
          MaxClock             \* bound: ticks

ASSUME LimiterAssumption ==
    /\ Unit \in Nat \ {0} /\ Rate \in Nat /\ Burst \in Nat
    /\ MaxClock \in Nat

VARIABLES tokens, lastRefill,  \* the bucket
          clock,               \* time.Now()
          admitted             \* admitted[s]: requests let through at s or later

rlVars == <<tokens, lastRefill, clock, admitted>>

Instants == 0 .. MaxClock

maxTokens == Burst * Unit

\* NewRateLimiter: the bucket starts full.
RlInit ==
    /\ tokens = maxTokens /\ lastRefill = 0
    /\ clock = 0
    /\ admitted = [s \in Instants |-> 0]

Tick ==
    /\ clock < MaxClock
    /\ clock' = clock + 1
    /\ UNCHANGED <<tokens, lastRefill, admitted>>

\* The bucket after the time since the last look at it.
RefillUncapped == tokens + (clock - lastRefill) * Rate

Refill ==
    LET sum == tokens + (clock - lastRefill) * Rate
    IN  IF sum > maxTokens THEN maxTokens ELSE sum

\* Allow: refill, then take one request's worth or refuse.
Allow ==
    /\ lastRefill' = clock
    /\ IF Refill < Unit
       THEN tokens' = Refill /\ UNCHANGED admitted
       ELSE /\ tokens' = Refill - Unit
            /\ admitted' = [s \in Instants |-> admitted[s] + IF s <= clock THEN 1 ELSE 0]
    /\ UNCHANGED clock

\* Health and metrics pass without a look at the bucket; every other request
\* reads Remaining for its header and then asks Allow.
RateLimitMiddleware(exempt) == IF exempt THEN UNCHANGED rlVars ELSE Allow

RlNext == Tick \/ \E exempt \in BOOLEAN : RateLimitMiddleware(exempt)

RlSpec == RlInit /\ [][RlNext]_rlVars

-----------------------------------------------------------------------------
(* Properties.                                                             *)

\* However the requests are spaced, the limiter lets through at most a burst
\* plus what the rate gives in any stretch of time up to now.
WindowBound ==
    \A s \in 0 .. clock : Unit * admitted[s] <= maxTokens + Rate * (clock - s)

\* What is left in the bucket is already owed to each window: with it the
\* bound holds at the last look, and nothing was admitted after that.
BucketAccounts ==
    /\ tokens \in 0 .. maxTokens
    /\ clock \in Instants /\ lastRefill \in 0 .. clock
    /\ admitted \in [Instants -> Nat]
    /\ \A s \in 0 .. lastRefill :
          Unit * admitted[s] + tokens <= maxTokens + Rate * (lastRefill - s)
    /\ \A s \in Instants : s > lastRefill => admitted[s] = 0
=============================================================================
