------------------------------ MODULE Breaker ------------------------------
(***************************************************************************)
(* What the circuit breaker of internal/service/ratelimiter.go promises,   *)
(* without locks: every report and every expiry of the timer is one step.  *)
(* Ages saturate one past resetTimeout, where the zero time.Time is too.   *)
(***************************************************************************)
EXTENDS Integers

CONSTANTS
    FailureThreshold,  \* failureThreshold
    ResetTimeout       \* resetTimeout

VARIABLES
    circuitBreaker,  \* TRUE when open
    failureCount,
    age              \* time since lastFailure

vars == <<circuitBreaker, failureCount, age>>

LongAgo == ResetTimeout + 1
Expired == age > ResetTimeout
Older(a) == IF a = LongAgo THEN a ELSE a + 1

Init == circuitBreaker = FALSE /\ failureCount = 0 /\ age = LongAgo

\* incrementFailure
Failure ==
    /\ failureCount' = failureCount + 1
    /\ age' = 0
    /\ circuitBreaker' = (circuitBreaker \/ failureCount' >= FailureThreshold)

\* resetFailure
Success ==
    /\ failureCount' = 0
    /\ age' = IF circuitBreaker THEN age ELSE LongAgo
    /\ UNCHANGED circuitBreaker

\* The reset branch of isCircuitBreakerOpen.
Close ==
    /\ circuitBreaker /\ Expired
    /\ circuitBreaker' = FALSE
    /\ failureCount' = 0
    /\ UNCHANGED age

Tick == age' = Older(age) /\ UNCHANGED <<circuitBreaker, failureCount>>

\* The process is started again.
Restart == circuitBreaker' = FALSE /\ failureCount' = 0 /\ age' = LongAgo

Next == Failure \/ Success \/ Close \/ Tick \/ Restart

Spec == Init /\ [][Next]_vars
=============================================================================
