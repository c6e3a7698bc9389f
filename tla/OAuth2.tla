------------------------------- MODULE OAuth2 -------------------------------
(***************************************************************************)
(* The simulated OAuth2 provider: codes handed out by the authorize route  *)
(* and exchanged by the callback route, by several requests at a time and  *)
(* across restarts, which forget the codes.  With a provider URL the       *)
(* authorize route only builds a redirect and no code is ever known here.  *)
(***************************************************************************)
EXTENDS Api

CONSTANTS MaxCodes, MaxStarts    \* bounds

ASSUME CodesAssumption == MaxCodes \in Nat

VARIABLES simulated,       \* no provider URL is configured
          codes,           \* p.codes
          nextCode, starts,
          exchanged        \* history: exchanged[k]: tokens bought with code k

oaVars == <<simulated, codes, nextCode, starts, exchanged, answer>>

\* NewOAuth2Provider, with the client id and redirect URL it insists on.
OaInit ==
    /\ simulated \in BOOLEAN
    /\ codes = {} /\ nextCode = 1 /\ starts = 1
    /\ exchanged = [k \in 1 .. MaxCodes |-> 0]
    /\ answer = Pending

\* A random code: one never drawn before.
generateSimulatedCode ==
    /\ nextCode <= MaxCodes
    /\ codes' = codes \cup {nextCode}
    /\ nextCode' = nextCode + 1

GetAuthorizationURL ==
    IF simulated THEN generateSimulatedCode ELSE UNCHANGED <<codes, nextCode>>

handleOAuth2Authorize ==
    /\ GetAuthorizationURL
    /\ Reply(200)
    /\ UNCHANGED <<simulated, starts, exchanged>>

ExchangeCodeKept(k) ==
    /\ UNCHANGED codes
    /\ exchanged' = [exchanged EXCEPT ![k] = @ + IF k \in codes THEN 1 ELSE 0]
    /\ Reply(IF k \in codes THEN 200 ELSE 401)

\* One critical section looks the code up and deletes it.
ExchangeCode(k) ==
    /\ codes' = codes \ {k}
    /\ exchanged' = [exchanged EXCEPT ![k] = @ + IF k \in codes THEN 1 ELSE 0]
    /\ Reply(IF k \in codes THEN 200 ELSE 401)

\* A callback without a code is a 400; one with a code may be repeated.
handleOAuth2Callback ==
    /\ \/ Reply(400) /\ UNCHANGED <<codes, exchanged>>
       \/ \E k \in 1 .. MaxCodes : ExchangeCode(k)
    /\ UNCHANGED <<simulated, starts, nextCode>>

handleOAuth2Providers == Reply(200) /\ UNCHANGED <<simulated, codes, nextCode, starts, exchanged>>

OaRestart ==
    /\ starts < MaxStarts
    /\ starts' = starts + 1
    /\ codes' = {}
    /\ Reply(Pending)
    /\ UNCHANGED <<simulated, nextCode, exchanged>>

OaNext == handleOAuth2Authorize \/ handleOAuth2Callback \/ handleOAuth2Providers \/ OaRestart

OaSpec == OaInit /\ [][OaNext]_oaVars

\* A code buys one token however many callbacks present it, and a code that
\* was never handed out, or was handed out before a restart, buys none.
CodeUsedOnce ==
    /\ \A k \in 1 .. MaxCodes : exchanged[k] <= IF k < nextCode THEN 1 ELSE 0
    /\ \A k \in codes : exchanged[k] = 0
=============================================================================
