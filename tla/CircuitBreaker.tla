--------------------------- MODULE CircuitBreaker ---------------------------
(***************************************************************************)
(* The circuit breaker in front of etcd (ResilientStore) and of QMP.       *)
(* Execute takes the lock twice: once to decide whether the call may go    *)
(* ahead and once, after the protected function returned, to record the    *)
(* outcome.  Any number of calls is in flight between the two.             *)
(*                                                                         *)
(* Time is abstracted to whether resetTimeout has elapsed since            *)
(* lastFailure.  failureCount is only ever compared with the threshold and *)
(* is kept saturated there.                                                *)
(***************************************************************************)
EXTENDS Integers, FiniteSets

CONSTANTS Callers,              \* goroutines calling Execute
          Heartbeat,            \* the one that retries for ever
          failureThreshold      \* consecutive failures that open the breaker

ASSUME ThresholdAssumption == failureThreshold \in Nat \ {0}
ASSUME HeartbeatAssumption == Heartbeat \in Callers

VARIABLES state, failureCount,  \* the breaker
          cooled,               \* time.Since(lastFailure) > resetTimeout
          inside,             \* callers inside fn()
          trial,                \* those let through to test a recovery
          up,                   \* environment: the dependency answers
          doomed                \* in-flight calls that saw it down

cbVars == <<state, failureCount, cooled, inside, trial, up, doomed>>

CbInit ==
    /\ state = "closed" /\ failureCount = 0
    /\ cooled = TRUE            \* lastFailure is the zero time
    /\ inside = {} /\ trial = {}
    /\ up = TRUE /\ doomed = {}

-----------------------------------------------------------------------------
\* Mutant: the reset timeout is compared the wrong way round.
AdmitEarly(c) ==
    /\ c \notin inside
    /\ state = "open" => ~cooled
    /\ state' = IF state = "open" THEN "half-open" ELSE state
    /\ inside' = inside \cup {c}
    /\ trial' = IF state' = "half-open" THEN trial \cup {c} ELSE trial
    /\ doomed' = IF up THEN doomed ELSE doomed \cup {c}
    /\ UNCHANGED <<failureCount, cooled, up>>

\* First critical section.  An open breaker that has not cooled down returns
\* ErrCircuitOpen at once and changes nothing.
Admit(c) ==
    /\ c \notin inside
    /\ state = "open" => cooled
    /\ state' = IF state = "open" THEN "half-open" ELSE state
    /\ inside' = inside \cup {c}
    /\ trial' = IF state' = "half-open" THEN trial \cup {c} ELSE trial
    /\ doomed' = IF up THEN doomed ELSE doomed \cup {c}
    /\ UNCHANGED <<failureCount, cooled, up>>

Return(c) ==
    /\ c \in inside
    /\ inside' = inside \ {c}
    /\ trial' = trial \ {c}
    /\ doomed' = doomed \ {c}
    /\ UNCHANGED up

\* Second critical section, fn() returned an error.
Fail(c) ==
    /\ Return(c)
    /\ c \in doomed
    /\ failureCount' = IF failureCount < failureThreshold
                       THEN failureCount + 1 ELSE failureCount
    /\ cooled' = FALSE
    /\ state' = IF failureCount' >= failureThreshold THEN "open" ELSE state

\* Mutant: a success closes the breaker and forgets to reset the count.
SucceedUncounted(c) ==
    /\ Return(c)
    /\ state' = "closed"
    /\ UNCHANGED <<failureCount, cooled>>

\* Second critical section, fn() succeeded.
Succeed(c) ==
    /\ Return(c)
    /\ failureCount' = 0
    /\ state' = "closed"
    /\ UNCHANGED cooled

-----------------------------------------------------------------------------
Elapse ==
    /\ ~cooled
    /\ cooled' = TRUE
    /\ UNCHANGED <<state, failureCount, inside, trial, up, doomed>>

\* The dependency goes down, taking the calls in flight with it, or comes up.
GoDown ==
    /\ up
    /\ up' = FALSE
    /\ doomed' = inside
    /\ UNCHANGED <<state, failureCount, cooled, inside, trial>>

ComeUp ==
    /\ ~up
    /\ up' = TRUE
    /\ UNCHANGED <<state, failureCount, cooled, inside, trial, doomed>>

Finish(c) == Fail(c) \/ Succeed(c)

CbNext ==
    \/ \E c \in Callers : Admit(c) \/ Fail(c) \/ Succeed(c)
    \/ Elapse \/ GoDown \/ ComeUp

CbSpec == CbInit /\ [][CbNext]_cbVars

\* Heartbeat.Start puts its key for ever, so it is admitted when it can be;
\* its call has no deadline and is only sure to return while the dependency
\* answers.  Nothing is assumed of the other callers.  Time passes.
CbFairSpec ==
    /\ CbSpec
    /\ WF_cbVars(Elapse)
    /\ WF_cbVars(Admit(Heartbeat))
    /\ WF_cbVars(up /\ Finish(Heartbeat))

-----------------------------------------------------------------------------
(* Properties.                                                             *)

\* Type invariant of the breaker.
CbTypeOK ==
    /\ state \in {"closed", "open", "half-open"}
    /\ failureCount \in 0 .. failureThreshold
    /\ cooled \in BOOLEAN /\ up \in BOOLEAN
    /\ inside \subseteq Callers
    /\ trial \subseteq inside
    /\ doomed \subseteq inside

\* However late results come in and in whatever order, the breaker lets calls
\* through unconditionally exactly while fewer than failureThreshold failures
\* have been recorded since the last success.
ClosedIffBelowThreshold ==
    state = "closed" <=> failureCount < failureThreshold

\* StateHalfOpen's comment: "only one request passes, to verify recovery".
SingleTrial == Cardinality(trial) <= 1

\* Once the dependency stays up the breaker closes and stays closed.
Recovers == (<>[]up) => <>[](state = "closed")
=============================================================================
