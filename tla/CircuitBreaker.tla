--------------------------- MODULE CircuitBreaker ---------------------------
(***************************************************************************)
(* internal/circuitbreaker/circuitbreaker.go: the three-state breaker.     *)
(* Execute asks beforeRequest for admission, runs the request without the  *)
(* lock and reports to afterRequest, both under the write lock.  State and *)
(* the Is... functions built on it run currentState, which may write,      *)
(* under the read lock only, so several of them may do so at a time.       *)
(*                                                                         *)
(* A request carries the generation it was admitted in, which is only ever *)
(* compared with the current one: here it is "current" until the next      *)
(* setState and "stale" from then on.  The counts Requests and             *)
(* ConsecutiveSuccesses saturate at MaxRequests, and the totals, which     *)
(* nothing but a readyToTrip of the user reads, are left out.              *)
(***************************************************************************)
EXTENDS Integers, FiniteSets

CONSTANTS
    Procs,        \* the goroutines that use the breaker
    MaxRequests,  \* maxRequests
    Tolerated,    \* the 5 of the default readyToTrip
    Timeout,      \* timeout
    Interval,     \* interval, 0 for none
    MaxForced     \* bound of the model: calls of Reset, ForceOpen, ForceClose

ASSUME CircuitAssumption ==
    /\ IsFiniteSet(Procs)
    /\ {MaxRequests, Tolerated, Timeout, Interval, MaxForced} \subseteq Nat

VARIABLES
    state,
    counts,   \* Requests, ConsecutiveSuccesses and ConsecutiveFailures
    left,     \* expiry - now, -1 when now is after expiry
    call,     \* call[p]: the request that p executes, or its place in State
    trouble,  \* whether requests succeed, may fail or may panic
    forced,   \* how often the breaker was operated by hand
    since,    \* history: the time since the breaker last opened
    leaked    \* history: requests admitted since the last setState that
              \* panicked when the breaker was half-open

breaker == <<state, counts, left, since>>
vars == <<breaker, call, trouble, forced, leaked>>

NoCounts == [requests |-> 0, successes |-> 0, failures |-> 0]
Reading == {"seen", "set", "renew"}

TypeOK ==
    /\ state \in {"closed", "open", "half-open"}
    /\ counts \in [requests : 0 .. MaxRequests, successes : 0 .. MaxRequests,
                   failures : 0 .. Tolerated]
    /\ left \in Int /\ left >= -1
    /\ call \in [Procs -> {"idle", "current", "stale"} \cup Reading]
    /\ trouble \in {"none", "failing", "panicking"}
    /\ forced \in 0 .. MaxForced
    /\ since \in 0 .. (Timeout + 1)
    /\ leaked \in Nat

Init ==
    /\ state = "closed"
    /\ counts = NoCounts
    /\ left = -1
    /\ call = [p \in Procs |-> "idle"]
    /\ trouble = "none"
    /\ forced = 0
    /\ since = Timeout + 1
    /\ leaked = 0

Bump(n) == IF n < MaxRequests THEN n + 1 ELSE n

\* The write lock excludes the goroutines that are inside State.
NoReader == \A p \in Procs : call[p] \notin Reading

-----------------------------------------------------------------------------
(***************************************************************************)
(* currentState, as the first thing under the lock.                        *)
(***************************************************************************)

Lapsed == left < 0
HalfOpens == state = "open" /\ Lapsed
Renews == state = "closed" /\ Interval > 0 /\ Lapsed

StateNow == IF HalfOpens THEN "half-open" ELSE state
CountsNow == IF HalfOpens \/ Renews THEN NoCounts ELSE counts
LeftNow == IF Renews THEN Interval ELSE left
LeakedNow == IF HalfOpens THEN 0 ELSE leaked

\* The calls after a new generation has begun.
Outdated == [q \in Procs |-> IF call[q] = "current" THEN "stale" ELSE call[q]]
CallNow == IF HalfOpens THEN Outdated ELSE call

\* Nothing but currentState happens to the breaker.
Settle ==
    /\ state' = StateNow /\ counts' = CountsNow /\ left' = LeftNow
    /\ leaked' = LeakedNow
    /\ UNCHANGED since

\* Mutant of SetState: the counts are kept.
KeepCounts(s, p) ==
    /\ state' = s
    /\ left' = IF s = "open" THEN Timeout ELSE LeftNow
    /\ since' = IF s = "open" THEN 0 ELSE since
    /\ leaked' = 0
    /\ call' = [Outdated EXCEPT ![p] = "idle"]
    /\ UNCHANGED counts

\* setState to a state other than the present one, by goroutine p.
SetState(s, p) ==
    /\ state' = s
    /\ counts' = NoCounts
    /\ left' = IF s = "open" THEN Timeout ELSE LeftNow
    /\ since' = IF s = "open" THEN 0 ELSE since
    /\ leaked' = 0
    /\ call' = [Outdated EXCEPT ![p] = "idle"]

-----------------------------------------------------------------------------
(***************************************************************************)
(* Execute.                                                                *)
(***************************************************************************)

Full == StateNow = "half-open" /\ CountsNow.requests >= MaxRequests

\* beforeRequest
BeforeRequest(p) ==
    /\ call[p] = "idle" /\ NoReader
    /\ \/ /\ StateNow = "open" \/ Full
          /\ Settle
          /\ call' = CallNow
       \/ /\ StateNow # "open" /\ ~Full
          /\ state' = StateNow /\ left' = LeftNow /\ leaked' = LeakedNow
          /\ counts' = [CountsNow EXCEPT !.requests = Bump(@)]
          /\ call' = [CallNow EXCEPT ![p] = "current"]
          /\ UNCHANGED since
    /\ UNCHANGED <<trouble, forced>>

\* Mutant of OnSuccess: the breaker closes one success too late.
CloseLate(p) ==
    \/ /\ state = "closed"
       /\ counts' = [CountsNow EXCEPT !.successes = Bump(@), !.failures = 0]
       /\ left' = IF Interval > 0 THEN Interval ELSE left
       /\ call' = [call EXCEPT ![p] = "idle"]
       /\ UNCHANGED <<state, since, leaked>>
    \/ /\ state = "half-open"
       /\ counts.successes < MaxRequests
       /\ counts' = [counts EXCEPT !.successes = Bump(@), !.failures = 0]
       /\ call' = [call EXCEPT ![p] = "idle"]
       /\ UNCHANGED <<state, left, since, leaked>>
    \/ /\ state = "half-open"
       /\ counts.successes >= MaxRequests
       /\ SetState("closed", p)

\* onSuccess
OnSuccess(p) ==
    \/ /\ state = "closed"
       /\ counts' = [CountsNow EXCEPT !.successes = Bump(@), !.failures = 0]
       /\ left' = IF Interval > 0 THEN Interval ELSE left
       /\ call' = [call EXCEPT ![p] = "idle"]
       /\ UNCHANGED <<state, since, leaked>>
    \/ /\ state = "half-open"
       /\ counts.successes + 1 < MaxRequests
       /\ counts' = [counts EXCEPT !.successes = Bump(@), !.failures = 0]
       /\ call' = [call EXCEPT ![p] = "idle"]
       /\ UNCHANGED <<state, left, since, leaked>>
    \/ /\ state = "half-open"
       /\ counts.successes + 1 >= MaxRequests
       /\ SetState("closed", p)

\* onFailure
OnFailure(p) ==
    \/ /\ state = "closed"
       /\ CountsNow.failures + 1 <= Tolerated
       /\ counts' = [CountsNow EXCEPT !.successes = 0, !.failures = @ + 1]
       /\ left' = LeftNow
       /\ call' = [call EXCEPT ![p] = "idle"]
       /\ UNCHANGED <<state, since, leaked>>
    \/ /\ state = "closed"
       /\ CountsNow.failures + 1 > Tolerated
       /\ SetState("open", p)
    \/ /\ state = "half-open"
       /\ SetState("open", p)

\* A request of an outdated generation is ignored.  While a request is current
\* the breaker is not open, so currentState may only renew the interval.
Ignored(p) ==
    /\ call[p] = "stale"
    /\ Settle
    /\ call' = [CallNow EXCEPT ![p] = "idle"]

\* Mutant of AfterRequest: the generation is not compared.
AnyGeneration(p) ==
    /\ call[p] \in {"current", "stale"} /\ NoReader
    /\ \/ state = "open" /\ Ignored(p)
       \/ OnSuccess(p)
       \/ trouble # "none" /\ OnFailure(p)
    /\ UNCHANGED <<trouble, forced>>

\* afterRequest
AfterRequest(p) ==
    /\ NoReader
    /\ \/ Ignored(p)
       \/ call[p] = "current" /\ OnSuccess(p)
       \/ call[p] = "current" /\ trouble # "none" /\ OnFailure(p)
    /\ UNCHANGED <<trouble, forced>>

\* The request panics: afterRequest, which is not deferred, never runs.
Panic(p) ==
    /\ trouble = "panicking"
    /\ call[p] \in {"current", "stale"}
    /\ leaked' = IF call[p] = "current" /\ state = "half-open"
                 THEN leaked + 1 ELSE leaked
    /\ call' = [call EXCEPT ![p] = "idle"]
    /\ UNCHANGED <<breaker, trouble, forced>>

-----------------------------------------------------------------------------
(***************************************************************************)
(* State, under the read lock.                                             *)
(***************************************************************************)

\* currentState finds that it has something to write.
SeeExpiry(p) ==
    /\ call[p] = "idle"
    /\ \/ HalfOpens /\ call' = [call EXCEPT ![p] = "seen"]
       \/ Renews /\ call' = [call EXCEPT ![p] = "renew"]
    /\ UNCHANGED <<breaker, trouble, forced, leaked>>

\* setState's own look at the state; another reader may have been faster.
CheckState(p) ==
    /\ call[p] = "seen"
    /\ call' = [call EXCEPT ![p] = IF state = "half-open" THEN "idle" ELSE "set"]
    /\ UNCHANGED <<breaker, trouble, forced, leaked>>

HalfOpen(p) ==
    /\ call[p] = "set"
    /\ SetState("half-open", p)
    /\ UNCHANGED <<trouble, forced>>

Renew(p) ==
    /\ call[p] = "renew"
    /\ counts' = NoCounts
    /\ left' = Interval
    /\ call' = [call EXCEPT ![p] = "idle"]
    /\ UNCHANGED <<state, since, trouble, forced, leaked>>

-----------------------------------------------------------------------------
(***************************************************************************)
(* Operation by hand, and the environment.                                 *)
(***************************************************************************)

ByHand == forced < MaxForced /\ NoReader /\ forced' = forced + 1

Reset ==
    /\ ByHand
    /\ state' = "closed" /\ counts' = NoCounts /\ left' = Interval
    /\ call' = IF state = "closed" THEN call ELSE Outdated
    /\ leaked' = 0
    /\ UNCHANGED <<since, trouble>>

\* Mutant of ForceOpen: the timer is not set.
OpenUntimed ==
    /\ ByHand
    /\ state # "open"
    /\ state' = "open" /\ counts' = NoCounts /\ since' = 0
    /\ call' = Outdated
    /\ leaked' = 0
    /\ UNCHANGED <<left, trouble>>

ForceOpen ==
    /\ ByHand
    /\ state # "open"
    /\ state' = "open" /\ counts' = NoCounts /\ left' = Timeout /\ since' = 0
    /\ call' = Outdated
    /\ leaked' = 0
    /\ UNCHANGED trouble

ForceClose ==
    /\ ByHand
    /\ state # "closed"
    /\ state' = "closed" /\ counts' = NoCounts
    /\ call' = Outdated
    /\ leaked' = 0
    /\ UNCHANGED <<left, since, trouble>>

Environment ==
    /\ trouble' \in {"none", "failing", "panicking"}
    /\ UNCHANGED <<breaker, call, forced, leaked>>

\* A tick is much longer than a call of State.
Tick ==
    /\ NoReader
    /\ left' = IF Lapsed THEN left ELSE left - 1
    /\ since' = IF since > Timeout THEN since ELSE since + 1
    /\ UNCHANGED <<state, counts, call, trouble, forced, leaked>>

Read(p) == SeeExpiry(p) \/ CheckState(p) \/ HalfOpen(p) \/ Renew(p)

Next ==
    \/ \E p \in Procs : BeforeRequest(p) \/ AfterRequest(p) \/ Panic(p) \/ Read(p)
    \/ Reset \/ ForceOpen \/ ForceClose
    \/ Environment \/ Tick

Spec == Init /\ [][Next]_vars

\* Callers keep coming, requests end, sync.RWMutex does not starve writers,
\* a call of State returns and time passes.
FairSpec ==
    /\ Spec
    /\ \A p \in Procs :
          /\ SF_vars(BeforeRequest(p)) /\ SF_vars(AfterRequest(p))
          /\ WF_vars(call[p] \in Reading /\ Read(p))
    /\ SF_vars(Tick)

-----------------------------------------------------------------------------
(***************************************************************************)
(* Properties.                                                             *)
(***************************************************************************)

Current == {p \in Procs : call[p] = "current"}

\* The half-open breaker's books: every request it admitted is under way, has
\* succeeded or has panicked, and there are at most MaxRequests of them.
ProbesFit ==
    state = "half-open" =>
        /\ counts.requests = Cardinality(Current) + counts.successes + leaked
        /\ MaxRequests > 0 => counts.successes < MaxRequests

\* An open breaker has no request of its own generation, and its timer runs
\* from the moment it opened.
OpenFits ==
    state = "open" =>
        /\ Current = {} /\ counts = NoCounts
        /\ left = Timeout - since

\* Goroutines inside State find what they saw, or what another of them wrote.
ReadersFit ==
    \A p \in Procs :
        /\ call[p] \in {"seen", "set"} =>
              \/ state = "open" /\ Lapsed
              \/ state = "half-open" /\ counts = NoCounts /\ Current = {}
        /\ call[p] = "renew" => state = "closed"

CircuitInv == TypeOK /\ ProbesFit /\ OpenFits /\ ReadersFit

\* Unless a request panicked, a half-open breaker has room for a request or
\* waits for one that is under way: it is never stuck refusing everything.
NeverStuck ==
    state = "half-open" /\ leaked = 0 /\ MaxRequests > 0 =>
        counts.requests < MaxRequests \/ Current # {}

\* An open breaker lets a request through only after its timeout or by hand.
OpenLasts == [][state = "open" /\ state' = "half-open" => since > Timeout]_vars

\* A half-open breaker that has given every slot away and waits for no request
\* refuses all that follow.
Exhausted ==
    state = "half-open" /\ Current = {} /\ counts.requests >= MaxRequests

\* Neither time nor the late answer of an outdated request frees a slot that a
\* panicking request kept (or that MaxRequests = 0 never gave): an exhausted
\* breaker stays so until Reset, ForceOpen or ForceClose.
OnlyByHand == [][Exhausted /\ ~Exhausted' => forced' # forced]_vars

\* Once requests succeed again, the breaker closes for good, provided that the
\* last half-open period lost no request to a panic.
Recovers == <>[](trouble = "none" /\ leaked = 0) => <>[](state = "closed")
=============================================================================
