------------------------- MODULE RateLimiterService -------------------------
(***************************************************************************)
(* internal/service/ratelimiter.go over the settings kept by               *)
(* internal/storage/redis.go: checks read whether a client is whitelisted  *)
(* and which custom limit it has, while UpdateWhitelist and SetLimit       *)
(* change these, and every call feeds the circuit breaker, which lets      *)
(* checks pass and refuses changes while it is open.                       *)
(*                                                                         *)
(* The breaker is the atomic one of module Breaker, which ServiceBreaker   *)
(* is shown to implement.  The count that a check compares with its limit  *)
(* is the subject of RedisStorage; it decides nothing here but the answer. *)
(***************************************************************************)
EXTENDS Integers, FiniteSets

CONSTANTS
    Procs,             \* the goroutines that serve requests
    Keys,              \* the full keys, "key:identifier"
    Windows,           \* the window names that requests use
    DefaultLimits,     \* config.DefaultLimits: the request limit of each
                       \* configured window
    Limits,            \* the limits that SetLimit is called with
    FailureThreshold,  \* failureThreshold
    ResetTimeout,      \* resetTimeout
    MaxLate            \* bound of the model: abandoned commands under way

ASSUME ServiceAssumption ==
    /\ IsFiniteSet(Procs) /\ Procs # {}
    /\ DOMAIN DefaultLimits \subseteq Windows
    /\ \A w \in DOMAIN DefaultLimits : DefaultLimits[w] \in Int
    /\ Limits \subseteq Int
    /\ FailureThreshold \in Nat \ {0} /\ ResetTimeout \in Nat

VARIABLES
    circuitBreaker, failureCount, age,  \* see Breaker
    trouble,    \* Redis does not answer always, or not before clients give up
    setting,    \* the whitelist and limit keys in Redis, 0 when missing
    late,       \* commands whose caller no longer waits for them
    call,       \* call[p]: the request that p serves
    inForce     \* history: inForce[x], the values that x may have

breaker == <<circuitBreaker, failureCount, age>>
vars == <<breaker, trouble, setting, late, call, inForce>>

B == INSTANCE Breaker

\* The Redis keys of the settings.
Whitelist(k) == <<"whitelist", k>>
LimitOf(k, w) == <<"limit", k, w>>
Settings == {Whitelist(k) : k \in Keys}
            \cup {LimitOf(k, w) : k \in Keys, w \in Windows}

\* SET key value, or DEL key for the value 0: a missing limit and a limit that
\* is not positive mean the same to a check.
Command == [on : Settings, value : Int]

\* A request is at the breaker, at one of its Redis calls, about to report to
\* the breaker how they went, or answered.
Check == [op : {"check"}, key : Keys, window : Windows, limit : Int,
          at : {"breaker", "whitelist", "limit", "count"}]
Change == [op : {"change"}, on : Settings, value : Int,
           at : {"breaker", "write"}]
Report == [op : {"report"}, at : {"failed", "ok"}]
Idle == [op |-> "idle", at |-> "idle"]

TypeOK ==
    /\ circuitBreaker \in BOOLEAN
    /\ failureCount \in Nat
    /\ age \in 0 .. (ResetTimeout + 1)
    /\ trouble \in BOOLEAN
    /\ setting \in [Settings -> Int]
    /\ late \subseteq Command
    /\ call \in [Procs -> Check \cup Change \cup Report \cup {Idle}]
    /\ inForce \in [Settings -> SUBSET Int]

Init ==
    /\ B!Init
    /\ trouble = FALSE
    /\ setting = [x \in Settings |-> 0]
    /\ late = {}
    /\ call = [p \in Procs |-> Idle]
    /\ inForce = [x \in Settings |-> {0}]

At(p, stage) == call[p].at = stage
Go(p, stage) == call' = [call EXCEPT ![p].at = stage]
Tell(p, how) ==
    call' = [call EXCEPT ![p] = [op |-> "report", at |-> how]]
Answer(p) == call' = [call EXCEPT ![p] = Idle]

-----------------------------------------------------------------------------
(***************************************************************************)
(* Requests and the breaker.                                               *)
(***************************************************************************)

Begin(p, c) ==
    /\ At(p, "idle")
    /\ call' = [call EXCEPT ![p] = c]
    /\ UNCHANGED <<breaker, trouble, setting, late, inForce>>

CheckRateLimit(p) == \E k \in Keys, w \in Windows :
    Begin(p, [op |-> "check", key |-> k, window |-> w, limit |-> 0,
              at |-> "breaker"])

UpdateWhitelist(p) == \E k \in Keys, value \in {0, 1} :
    Begin(p, [op |-> "change", on |-> Whitelist(k), value |-> value,
              at |-> "breaker"])

\* The window is not compared with the configured ones, nor the limit with 0.
SetLimit(p) == \E k \in Keys, w \in Windows, value \in Limits :
    Begin(p, [op |-> "change", on |-> LimitOf(k, w), value |-> value,
              at |-> "breaker"])

\* The first Redis call of p's request.  From the moment a change is under way
\* the setting may have its value.
GoOn(p) ==
    IF call[p].op = "check"
    THEN Go(p, "whitelist") /\ UNCHANGED inForce
    ELSE /\ Go(p, "write")
         /\ inForce' = [inForce EXCEPT ![call[p].on] = @ \cup {call[p].value}]

\* Mutant of IsCircuitBreakerOpen: it looks at the timer after it has returned.
ReturnEarly(p) ==
    /\ At(p, "breaker")
    /\ \/ circuitBreaker /\ Answer(p) /\ UNCHANGED <<breaker, inForce>>
       \/ ~circuitBreaker /\ GoOn(p) /\ UNCHANGED breaker
    /\ UNCHANGED <<trouble, setting, late>>

\* isCircuitBreakerOpen.  An open breaker lets a check pass uncounted and
\* refuses a change; one whose timer has expired closes first.
IsCircuitBreakerOpen(p) ==
    /\ At(p, "breaker")
    /\ \/ /\ circuitBreaker /\ ~B!Expired
          /\ Answer(p)
          /\ UNCHANGED <<breaker, inForce>>
       \/ ~circuitBreaker /\ GoOn(p) /\ UNCHANGED breaker
       \/ B!Close /\ GoOn(p)
    /\ UNCHANGED <<trouble, setting, late>>

\* Mutant of IncrementFailure: the breaker opens one failure too late.
OpenLate(p) ==
    /\ At(p, "failed")
    /\ failureCount' = failureCount + 1
    /\ age' = 0
    /\ circuitBreaker' = (circuitBreaker \/ failureCount' > FailureThreshold)
    /\ Answer(p)
    /\ UNCHANGED <<trouble, setting, late, inForce>>

\* The error is reported to the breaker and returned.
IncrementFailure(p) ==
    /\ At(p, "failed")
    /\ B!Failure
    /\ Answer(p)
    /\ UNCHANGED <<trouble, setting, late, inForce>>

ResetFailure(p) ==
    /\ At(p, "ok")
    /\ B!Success
    /\ Answer(p)
    /\ UNCHANGED <<trouble, setting, late, inForce>>

-----------------------------------------------------------------------------
(***************************************************************************)
(* The Redis calls.                                                        *)
(***************************************************************************)

\* Mutant of IsWhitelisted: a missing key is read as a whitelisted client too.
PassMissing(p) ==
    /\ At(p, "whitelist")
    /\ Answer(p)
    /\ UNCHANGED <<breaker, trouble, setting, late, inForce>>

\* A whitelisted client, and a window without a configured limit, end the
\* check without a report to the breaker.
IsWhitelisted(p) ==
    /\ At(p, "whitelist")
    /\ IF setting[Whitelist(call[p].key)] # 0
          \/ call[p].window \notin DOMAIN DefaultLimits
       THEN Answer(p)
       ELSE Go(p, "limit")
    /\ UNCHANGED <<breaker, trouble, setting, late, inForce>>

\* The limit that a check with this custom limit uses.
Effective(custom, w) == IF custom > 0 THEN custom ELSE DefaultLimits[w]

\* Mutant of GetLimit: a custom limit can only raise the configured one.
GetLargerLimit(p) ==
    LET custom == setting[LimitOf(call[p].key, call[p].window)]
        default == DefaultLimits[call[p].window]
    IN  /\ At(p, "limit")
        /\ call' = [call EXCEPT ![p].at = "count",
                       ![p].limit = IF custom > default THEN custom ELSE default]
        /\ UNCHANGED <<breaker, trouble, setting, late, inForce>>

GetLimit(p) ==
    LET custom == setting[LimitOf(call[p].key, call[p].window)]
    IN  /\ At(p, "limit")
        /\ call' = [call EXCEPT ![p].at = "count",
                                ![p].limit = Effective(custom, call[p].window)]
        /\ UNCHANGED <<breaker, trouble, setting, late, inForce>>

IncrementAndCount(p) ==
    /\ At(p, "count")
    /\ Tell(p, "ok")
    /\ UNCHANGED <<breaker, trouble, setting, late, inForce>>

CommandOf(p) == [on |-> call[p].on, value |-> call[p].value]

\* An attempt of p's command that p does not wait for may still be under way.
MayLinger(p) ==
    \/ UNCHANGED late
    \/ /\ late' = late \cup {CommandOf(p)}
       /\ Cardinality(late') <= MaxLate

\* The changes to x that Redis may still execute.
Coming(x) ==
    {m.value : m \in {c \in late : c.on = x}}
    \cup {call[p].value : p \in {q \in Procs : At(q, "write") /\ call[q].on = x}}

\* The same once goroutine p has its answer.
ComingBut(p, x) ==
    {m.value : m \in {c \in late' : c.on = x}}
    \cup {call[q].value : q \in {r \in Procs \ {p} :
                                    At(r, "write") /\ call[r].on = x}}

\* UpdateWhitelist or SetLimit is executed and answered.  What was written
\* before is gone; what others have sent, or a retry of p's own, may follow.
Write(p) ==
    /\ At(p, "write")
    /\ LET x == call[p].on
       IN  /\ setting' = [setting EXCEPT ![x] = call[p].value]
           /\ MayLinger(p)
           /\ inForce' = [inForce EXCEPT ![x] =
                              {call[p].value} \cup ComingBut(p, x)]
    /\ Tell(p, "ok")
    /\ UNCHANGED <<breaker, trouble>>

\* Mutant of StoreFails: a change that could not be made is reported as made.
ErrorIgnored(p) ==
    /\ trouble
    /\ \/ /\ call[p].at \in {"whitelist", "limit", "count"}
          /\ Tell(p, "failed")
          /\ UNCHANGED <<late, inForce>>
       \/ /\ At(p, "write")
          /\ MayLinger(p)
          /\ inForce' = [inForce EXCEPT ![call[p].on] = {call[p].value}]
          /\ Tell(p, "ok")
    /\ UNCHANGED <<breaker, trouble, setting>>

\* A Redis call returns an error: Redis did not answer in time or at all, or
\* the request's context was done.  A change may be executed all the same.
StoreFails(p) ==
    /\ trouble
    /\ \/ call[p].at \in {"whitelist", "limit", "count"} /\ UNCHANGED late
       \/ At(p, "write") /\ MayLinger(p)
    /\ Tell(p, "failed")
    /\ UNCHANGED <<breaker, trouble, setting, inForce>>

-----------------------------------------------------------------------------
(***************************************************************************)
(* The environment.                                                        *)
(***************************************************************************)

\* Retries may have left several copies of the command under way.
LateCommand(m) ==
    /\ setting' = [setting EXCEPT ![m.on] = m.value]
    /\ late' \in {late, late \ {m}}
    /\ UNCHANGED <<breaker, trouble, call, inForce>>

LostCommand(m) ==
    /\ late' = late \ {m}
    /\ UNCHANGED <<breaker, trouble, setting, call, inForce>>

\* 24 hours after it was set, a setting is gone.
Expire(x) ==
    /\ setting[x] # 0
    /\ setting' = [setting EXCEPT ![x] = 0]
    /\ inForce' = [inForce EXCEPT ![x] = {0} \cup Coming(x)]
    /\ UNCHANGED <<breaker, trouble, late, call>>

\* Redis restarts without its data.
RedisRestart ==
    /\ setting' = [x \in Settings |-> 0]
    /\ inForce' = [x \in Settings |-> {0} \cup Coming(x)]
    /\ UNCHANGED <<breaker, trouble, late, call>>

Environment ==
    /\ trouble' \in BOOLEAN
    /\ UNCHANGED <<breaker, setting, late, call, inForce>>

\* The process ends and is started again: the breaker's reset may do that (see
\* ServiceBreaker), an update does.  Commands it has sent may still arrive.
Restart ==
    /\ B!Restart
    /\ call' = [p \in Procs |-> Idle]
    /\ \E W \in SUBSET {p \in Procs : At(p, "write")} :
          /\ late' = late \cup {CommandOf(p) : p \in W}
          /\ Cardinality(late') <= MaxLate
    /\ UNCHANGED <<trouble, setting, inForce>>

Tick == B!Tick /\ UNCHANGED <<trouble, setting, late, call, inForce>>

Request(p) == CheckRateLimit(p) \/ UpdateWhitelist(p) \/ SetLimit(p)

Step(p) ==
    \/ IsCircuitBreakerOpen(p)
    \/ IsWhitelisted(p) \/ GetLimit(p) \/ IncrementAndCount(p) \/ Write(p)
    \/ StoreFails(p)
    \/ IncrementFailure(p) \/ ResetFailure(p)

Next ==
    \/ \E p \in Procs : Request(p) \/ Step(p)
    \/ \E m \in late : LateCommand(m) \/ LostCommand(m)
    \/ \E x \in Settings : Expire(x)
    \/ RedisRestart \/ Environment \/ Restart \/ Tick

Spec == Init /\ [][Next]_vars

\* Goroutines run, time passes, and callers keep coming.
FairSpec ==
    /\ Spec
    /\ \A p \in Procs : WF_vars(Request(p)) /\ WF_vars(Step(p))
    /\ WF_vars(Tick)

-----------------------------------------------------------------------------
(***************************************************************************)
(* Properties.                                                             *)
(***************************************************************************)

\* A change that was answered with success decides the setting, up to what was
\* already under way then: only the commands of other changes that had been
\* sent and not answered, or a retry of its own, may still take its place, as
\* Redis executes them when they arrive.  Changes that were answered before it
\* never come back, and a change that failed counts as possible until the next
\* answered one.  Apart from that a setting is missing only after its day is
\* over or Redis has lost its data.
Agreement ==
    \A x \in Settings : setting[x] \in inForce[x] /\ Coming(x) \subseteq inForce[x]

\* Only a check of a configured window gets past the whitelist.
Configured ==
    \A p \in Procs : call[p].at \in {"limit", "count"} =>
        call[p].window \in DOMAIN DefaultLimits

ServiceInv == TypeOK /\ Configured /\ Agreement

\* A check passes a client as whitelisted only if it may be whitelisted, counts
\* it only if it may be missing from the whitelist, and compares the count with
\* a limit that may be in force: the custom one, or the configured one when
\* that is not positive.
ChecksObey ==
    [][\A p \in Procs :
          /\ IsWhitelisted(p) /\ call[p].window \in DOMAIN DefaultLimits =>
                LET x == Whitelist(call[p].key)
                IN  IF call'[p] = Idle THEN inForce[x] # {0} ELSE 0 \in inForce[x]
          /\ GetLimit(p) =>
                \E v \in inForce[LimitOf(call[p].key, call[p].window)] :
                    call'[p].limit = Effective(v, call[p].window)]_vars

\* The requests that passed a closed breaker and have not reported yet.
UnderWay == {p \in Procs : call[p].at \notin {"idle", "breaker"}}

\* An outage of Redis costs a bounded number of failed requests, counted from
\* the last success: the threshold, and those that were under way when the
\* breaker opened.
OutageBound ==
    /\ ~circuitBreaker => failureCount < FailureThreshold
    /\ circuitBreaker =>
          failureCount + Cardinality(UnderWay) < FailureThreshold + Cardinality(Procs)

\* Once Redis answers and clients wait for the answers, the breaker closes for
\* good: late reports of failures do not open it again and again.
EnforcementResumes == <>[]~trouble => <>[]~circuitBreaker
=============================================================================
