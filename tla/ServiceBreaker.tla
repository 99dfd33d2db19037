--------------------------- MODULE ServiceBreaker ---------------------------
(***************************************************************************)
(* internal/service/ratelimiter.go: the circuit breaker built into         *)
(* RateLimiterService, at the granularity of its lock operations.  Every   *)
(* goroutine that serves a request runs isCircuitBreakerOpen, then, unless *)
(* that returned true, talks to Redis and reports how it went with         *)
(* incrementFailure or resetFailure.                                       *)
(*                                                                         *)
(* isCircuitBreakerOpen releases its read lock by hand before it takes the *)
(* write lock, and its deferred RUnlock releases it once more.  What that  *)
(* does depends on who else is inside, so Go's sync.RWMutex is modelled    *)
(* with its own counters.                                                  *)
(*                                                                         *)
(* Time is kept as ages that saturate one past resetTimeout: the code only *)
(* asks whether an age exceeds it, and the zero time.Time exceeds it too.  *)
(***************************************************************************)
EXTENDS Integers, FiniteSets

CONSTANTS
    Procs,             \* the goroutines
    None,              \* no goroutine
    FailureThreshold,  \* failureThreshold
    ResetTimeout       \* resetTimeout

ASSUME BreakerAssumption ==
    /\ IsFiniteSet(Procs)
    /\ None \notin Procs
    /\ FailureThreshold \in Nat \ {0}
    /\ ResetTimeout \in Nat

VARIABLES
    circuitBreaker,  \* TRUE when open
    failureCount,
    age,             \* time since lastFailure
    quiet,           \* history: time since a failure was last recorded
    pc,              \* where each goroutine is
    job,             \* what it holds or wants the write lock for
    ret,             \* what its isCircuitBreakerOpen is about to return
    writer,          \* RWMutex.w: the goroutine that has announced a write lock
    readers,         \* RWMutex.readerCount, without the writer's mark
    readerWait,      \* RWMutex.readerWait: readers the writer waits for
    readerSem,       \* RWMutex.readerSem: wake-ups for blocked readers
    writerSem,       \* RWMutex.writerSem: wake-ups for a blocked writer
    surplus,         \* history: RUnlocks that released no lock of their own
    resetTaken,      \* history: a goroutine took the reset branch
    dead             \* the runtime has ended the process

breaker == <<circuitBreaker, failureCount, age, quiet>>
rwmutex == <<writer, readers, readerWait, readerSem, writerSem, surplus>>
vars == <<breaker, rwmutex, pc, job, ret, resetTaken, dead>>

Ages == 0 .. (ResetTimeout + 1)
LongAgo == ResetTimeout + 1

Jobs == {"none", "close", "fail", "reset"}
Section == {"first", "second", "unlock"}
Places == {"idle", "rlock", "rwait", "read", "early", "runlock", "lock",
           "wwait", "unmatched", "redis"} \cup Section

TypeOK ==
    /\ circuitBreaker \in BOOLEAN
    /\ failureCount \in Nat
    /\ age \in Ages /\ quiet \in Ages
    /\ pc \in [Procs -> Places]
    /\ job \in [Procs -> Jobs]
    /\ ret \in [Procs -> BOOLEAN]
    /\ writer \in Procs \cup {None}
    /\ readers \in Nat
    /\ readerWait \in Int
    /\ readerSem \in Nat /\ writerSem \in Nat
    /\ surplus \in Nat
    /\ resetTaken \in BOOLEAN /\ dead \in BOOLEAN

Init ==
    /\ circuitBreaker = FALSE
    /\ failureCount = 0
    /\ age = LongAgo /\ quiet = LongAgo
    /\ pc = [p \in Procs |-> "idle"]
    /\ job = [p \in Procs |-> "none"]
    /\ ret = [p \in Procs |-> FALSE]
    /\ writer = None
    /\ readers = 0 /\ readerWait = 0 /\ readerSem = 0 /\ writerSem = 0
    /\ surplus = 0
    /\ resetTaken = FALSE /\ dead = FALSE

At(p, place) == ~dead /\ pc[p] = place
Go(p, place) == pc' = [pc EXCEPT ![p] = place]

-----------------------------------------------------------------------------
(***************************************************************************)
(* sync.RWMutex.                                                           *)
(***************************************************************************)

\* RLock: a reader that finds a writer announced blocks until a wake-up.
RLock(p, blocked, inside) ==
    /\ readers' = readers + 1
    /\ Go(p, IF writer = None THEN inside ELSE blocked)
    /\ UNCHANGED <<writer, readerWait, readerSem, writerSem, surplus, dead>>

\* RUnlock: fatal when the mutex counts no reader.  Under an announced writer
\* it also counts down the readers that the writer waits for.
RUnlock(p, after, owned) ==
    \/ /\ readers = 0
       /\ dead' = TRUE
       /\ UNCHANGED <<pc, rwmutex>>
    \/ /\ readers > 0
       /\ readers' = readers - 1
       /\ readerWait' = IF writer = None THEN readerWait ELSE readerWait - 1
       /\ writerSem' = IF writer # None /\ readerWait = 1
                       THEN writerSem + 1 ELSE writerSem
       /\ surplus' = IF owned THEN surplus ELSE surplus + 1
       /\ Go(p, after)
       /\ UNCHANGED <<writer, readerSem, dead>>

\* Lock: excludes other writers, then waits for the readers counted so far.
Lock(p) ==
    /\ At(p, "lock")
    /\ writer = None
    /\ writer' = p
    /\ readerWait' = readerWait + readers
    /\ Go(p, IF readers = 0 \/ readerWait' = 0 THEN "first" ELSE "wwait")
    /\ UNCHANGED <<breaker, readers, readerSem, writerSem, surplus, job, ret,
                   resetTaken, dead>>

WakeWriter(p) ==
    /\ At(p, "wwait")
    /\ writerSem > 0
    /\ writerSem' = writerSem - 1
    /\ Go(p, "first")
    /\ UNCHANGED <<breaker, writer, readers, readerWait, readerSem, surplus,
                   job, ret, resetTaken, dead>>

\* Unlock: wakes as many readers as are counted.
Unlock(p) ==
    /\ At(p, "unlock")
    /\ writer' = None
    /\ readerSem' = readerSem + readers
    /\ Go(p, IF job[p] = "close" THEN "unmatched" ELSE "idle")
    /\ job' = [job EXCEPT ![p] = "none"]
    /\ UNCHANGED <<breaker, readers, readerWait, writerSem, surplus, ret,
                   resetTaken, dead>>

-----------------------------------------------------------------------------
(***************************************************************************)
(* isCircuitBreakerOpen.                                                   *)
(***************************************************************************)

Expired == age > ResetTimeout

Request(p) ==
    /\ At(p, "idle")
    /\ Go(p, "rlock")
    /\ UNCHANGED <<breaker, rwmutex, job, ret, resetTaken, dead>>

\* Mutant of TakeReadLock: the state is read without the lock.
ReadUnlocked(p) ==
    /\ At(p, "rlock")
    /\ Go(p, "read")
    /\ UNCHANGED <<breaker, rwmutex, job, ret, resetTaken, dead>>

TakeReadLock(p) ==
    /\ At(p, "rlock")
    /\ RLock(p, "rwait", "read")
    /\ UNCHANGED <<breaker, job, ret, resetTaken>>

WakeReader(p) ==
    /\ At(p, "rwait")
    /\ readerSem > 0
    /\ readerSem' = readerSem - 1
    /\ Go(p, "read")
    /\ UNCHANGED <<breaker, writer, readers, readerWait, writerSem, surplus,
                   job, ret, resetTaken, dead>>

\* A reader that is inside together with a writer may see lastFailure half
\* written.
Torn == \E q \in Procs : pc[q] \in {"first", "second"} /\ job[q] # "close"

Read(p) ==
    /\ At(p, "read")
    /\ \E expired \in (IF Torn THEN BOOLEAN ELSE {Expired}) :
          /\ Go(p, IF circuitBreaker /\ expired THEN "early" ELSE "runlock")
          /\ resetTaken' = (resetTaken \/ (circuitBreaker /\ expired))
    /\ ret' = [ret EXCEPT ![p] = circuitBreaker]
    /\ UNCHANGED <<breaker, rwmutex, job, dead>>

\* Mutant of EarlyRUnlock: the read lock is kept while the write lock is taken.
UpgradeInPlace(p) ==
    /\ At(p, "early")
    /\ Go(p, "lock")
    /\ job' = [job EXCEPT ![p] = "close"]
    /\ UNCHANGED <<breaker, rwmutex, ret, resetTaken, dead>>

\* The RUnlock by hand, on the way to the write lock.
EarlyRUnlock(p) ==
    /\ At(p, "early")
    /\ RUnlock(p, "lock", TRUE)
    /\ job' = [job EXCEPT ![p] = "close"]
    /\ UNCHANGED <<breaker, ret, resetTaken>>

\* An open breaker is answered at once (or refused); otherwise on to Redis.
AfterCheck(p) == IF ret[p] THEN "idle" ELSE "redis"

\* Mutant of DeferredRUnlock: the read lock is not released on the common path.
ReturnLocked(p) ==
    /\ \/ /\ At(p, "runlock")
          /\ Go(p, AfterCheck(p))
          /\ UNCHANGED <<rwmutex, dead>>
       \/ At(p, "unmatched") /\ RUnlock(p, AfterCheck(p), FALSE)
    /\ UNCHANGED <<breaker, job, ret, resetTaken>>

\* The deferred RUnlock, with and without the reset branch before it.
DeferredRUnlock(p) ==
    /\ \/ At(p, "runlock") /\ RUnlock(p, AfterCheck(p), TRUE)
       \/ At(p, "unmatched") /\ RUnlock(p, AfterCheck(p), FALSE)
    /\ UNCHANGED <<breaker, job, ret, resetTaken>>

\* The request's Redis calls: they failed, they succeeded, or they ended early
\* (a whitelisted key, an unknown window) without a report.
Redis(p) ==
    /\ At(p, "redis")
    /\ \/ /\ Go(p, "lock")
          /\ \E j \in {"fail", "reset"} : job' = [job EXCEPT ![p] = j]
       \/ Go(p, "idle") /\ UNCHANGED job
    /\ UNCHANGED <<breaker, rwmutex, ret, resetTaken, dead>>

-----------------------------------------------------------------------------
(***************************************************************************)
(* The three critical sections, two steps each.                            *)
(***************************************************************************)

\* Mutants of CloseBreaker: no second check; failureCount is kept.
CloseUnchecked(p) ==
    /\ job[p] = "close"
    /\ \/ /\ At(p, "first")
          /\ circuitBreaker' = FALSE
          /\ Go(p, "second")
          /\ UNCHANGED <<failureCount, age, quiet, ret>>
       \/ /\ At(p, "second")
          /\ failureCount' = 0
          /\ ret' = [ret EXCEPT ![p] = circuitBreaker]
          /\ Go(p, "unlock")
          /\ UNCHANGED <<circuitBreaker, age, quiet>>
    /\ UNCHANGED <<rwmutex, job, resetTaken, dead>>
CloseKeepingCount(p) ==
    /\ job[p] = "close"
    /\ At(p, "first")
    /\ circuitBreaker' = (circuitBreaker /\ ~Expired)
    /\ ret' = [ret EXCEPT ![p] = circuitBreaker']
    /\ Go(p, "unlock")
    /\ UNCHANGED <<failureCount, age, quiet, rwmutex, job, resetTaken, dead>>

\* isCircuitBreakerOpen, behind its second check.
CloseBreaker(p) ==
    /\ job[p] = "close"
    /\ \/ /\ At(p, "first")
          /\ circuitBreaker /\ Expired
          /\ circuitBreaker' = FALSE
          /\ Go(p, "second")
          /\ UNCHANGED <<failureCount, age, quiet, ret>>
       \/ /\ At(p, "first")
          /\ ~(circuitBreaker /\ Expired)
          /\ ret' = [ret EXCEPT ![p] = circuitBreaker]
          /\ Go(p, "unlock")
          /\ UNCHANGED breaker
       \/ /\ At(p, "second")
          /\ failureCount' = 0
          /\ ret' = [ret EXCEPT ![p] = circuitBreaker]
          /\ Go(p, "unlock")
          /\ UNCHANGED <<circuitBreaker, age, quiet>>
    /\ UNCHANGED <<rwmutex, job, resetTaken, dead>>

IncrementFailure(p) ==
    /\ job[p] = "fail"
    /\ \/ /\ At(p, "first")
          /\ failureCount' = failureCount + 1
          /\ age' = 0 /\ quiet' = 0
          /\ Go(p, "second")
          /\ UNCHANGED circuitBreaker
       \/ /\ At(p, "second")
          /\ circuitBreaker' =
                (circuitBreaker \/ failureCount >= FailureThreshold)
          /\ Go(p, "unlock")
          /\ UNCHANGED <<failureCount, age, quiet>>
    /\ UNCHANGED <<rwmutex, job, ret, resetTaken, dead>>

\* Mutant of ResetFailure: lastFailure is cleared whether or not it is open.
ClearAlways(p) ==
    /\ job[p] = "reset"
    /\ \/ /\ At(p, "first")
          /\ failureCount' = 0
          /\ Go(p, "second")
          /\ UNCHANGED <<circuitBreaker, age, quiet>>
       \/ /\ At(p, "second")
          /\ age' = LongAgo
          /\ Go(p, "unlock")
          /\ UNCHANGED <<circuitBreaker, failureCount, quiet>>
    /\ UNCHANGED <<rwmutex, job, ret, resetTaken, dead>>

ResetFailure(p) ==
    /\ job[p] = "reset"
    /\ \/ /\ At(p, "first")
          /\ failureCount' = 0
          /\ Go(p, "second")
          /\ UNCHANGED <<circuitBreaker, age, quiet>>
       \/ /\ At(p, "second")
          /\ age' = IF circuitBreaker THEN age ELSE LongAgo
          /\ Go(p, "unlock")
          /\ UNCHANGED <<circuitBreaker, failureCount, quiet>>
    /\ UNCHANGED <<rwmutex, job, ret, resetTaken, dead>>

-----------------------------------------------------------------------------

Older(a) == IF a = LongAgo THEN a ELSE a + 1

Tick ==
    /\ ~dead
    /\ age' = Older(age) /\ quiet' = Older(quiet)
    /\ UNCHANGED <<circuitBreaker, failureCount, rwmutex, pc, job, ret,
                   resetTaken, dead>>

\* The orchestrator starts the process again, with nothing remembered.
Restart ==
    /\ dead
    /\ circuitBreaker' = FALSE
    /\ failureCount' = 0
    /\ age' = LongAgo /\ quiet' = LongAgo
    /\ pc' = [p \in Procs |-> "idle"]
    /\ job' = [p \in Procs |-> "none"]
    /\ ret' = [p \in Procs |-> FALSE]
    /\ writer' = None
    /\ readers' = 0 /\ readerWait' = 0 /\ readerSem' = 0 /\ writerSem' = 0
    /\ surplus' = 0
    /\ resetTaken' = FALSE /\ dead' = FALSE

Step(p) ==
    \/ TakeReadLock(p)
    \/ WakeReader(p)
    \/ Read(p)
    \/ EarlyRUnlock(p)
    \/ DeferredRUnlock(p)
    \/ Redis(p)
    \/ WakeWriter(p)
    \/ CloseBreaker(p)
    \/ IncrementFailure(p)
    \/ ResetFailure(p)
    \/ Unlock(p)

Next ==
    \/ \E p \in Procs : Request(p) \/ Lock(p) \/ Step(p)
    \/ Tick
    \/ Restart

Spec == Init /\ [][Next]_vars
\* The Go scheduler runs every goroutine, neither sync.Mutex nor the runtime's
\* semaphores starve a waiter, time passes and a dead process is started again.
\* That requests keep coming is an assumption about the callers.
FairSpec ==
    /\ Spec
    /\ \A p \in Procs :
          /\ WF_vars(Request(p)) /\ WF_vars(Step(p))
          /\ SF_vars(Lock(p)) /\ SF_vars(WakeReader(p))
    /\ WF_vars(Tick) /\ WF_vars(Restart)

-----------------------------------------------------------------------------
(***************************************************************************)
(* Properties.                                                             *)
(***************************************************************************)

\* Only the goroutine that holds the writer's mark is past Lock.
OneWriter == \A p \in Procs : pc[p] \in Section \cup {"wwait"} <=> writer = p

\* The jobs are those of the goroutines that want or hold the write lock.
JobsFit == \A p \in Procs :
    pc[p] \in {"lock", "wwait"} \cup Section => job[p] # "none"

\* The timer of an open breaker runs from the last recorded failure.  A request
\* that was under way when the breaker opened may still report: its failure, as
\* any other, starts the timer anew; its success neither stops nor restarts it.
TimerFits ==
    /\ circuitBreaker => age = quiet
    /\ \A p \in Procs : pc[p] = "second" /\ job[p] = "fail" => age = quiet

\* A closed breaker has seen fewer failures than the threshold, except inside
\* the critical section that is about to act on them.
CountFits ==
    \/ circuitBreaker
    \/ failureCount < FailureThreshold
    \/ \E p \in Procs : pc[p] = "second" /\ job[p] \in {"fail", "close"}

BreakerInv == TypeOK /\ OneWriter /\ JobsFit /\ TimerFits /\ CountFits

\* The critical sections are atomic to the outside: a section whose second step
\* is still to come counts as done.
Midway(j) == \E p \in Procs : pc[p] = "second" /\ job[p] = j

OpenNow == circuitBreaker \/ (Midway("fail") /\ failureCount >= FailureThreshold)
CountNow == IF Midway("close") THEN 0 ELSE failureCount
AgeNow == IF Midway("reset") /\ ~circuitBreaker THEN LongAgo ELSE age

Atomic == INSTANCE Breaker WITH
    circuitBreaker <- OpenNow, failureCount <- CountNow, age <- AgeNow

\* Whatever the double RUnlock does to the lock, also in a process that it is
\* about to end, reports and resets take effect one at a time.
Atomicity == Atomic!Spec

\* An open breaker closes only when resetTimeout has passed since the last
\* recorded failure, also when several goroutines find the timer expired and a
\* failure reopens the breaker between the first one's close and the next's.
ClosesAfterQuiet ==
    [][circuitBreaker /\ ~circuitBreaker' => quiet > ResetTimeout \/ dead]_vars

\* The goroutines at one of some places.
Inside(places) == {p \in Procs : pc[p] \in places}
Active == {"read", "early", "runlock"}
Blocked == {"rwait"}

\* The mutex counts the goroutines that hold or await a read lock, short of one
\* for every RUnlock that released nothing of its own.
LockAccounting ==
    readers + surplus = Cardinality(Inside(Active)) + Cardinality(Inside(Blocked))

\* As long as no goroutine took the reset branch, no reader is inside together
\* with a writer, and the runtime has no cause to end the process.
SafeUntilReset ==
    ~resetTaken =>
        /\ ~dead
        /\ \A p, q \in Procs :
              ~(pc[p] \in Active /\ pc[q] \in Section)

\* Why it is safe: the counters of the mutex match the goroutines.  Without a
\* writer every blocked reader has a wake-up under way; under a writer only
\* those that a former writer woke have, and the writer waits for these and for
\* the active readers.
LocksFit ==
    ~resetTaken =>
        /\ ~dead
        /\ \A p \in Procs : pc[p] \notin {"early", "unmatched"} /\ job[p] # "close"
        /\ readers = Cardinality(Inside(Active)) + Cardinality(Inside(Blocked))
        /\ writer = None => /\ readerWait = 0 /\ writerSem = 0
                            /\ readerSem = Cardinality(Inside(Blocked))
        /\ writer # None => readerWait = Cardinality(Inside(Active)) + readerSem
        /\ \A p \in Procs : pc[p] = "wwait" =>
              (IF readerWait = 0 THEN writerSem = 1 ELSE writerSem = 0)
        /\ \A p \in Procs : pc[p] \in Section => readerWait = 0 /\ writerSem = 0

\* An open breaker is closed again, by its timer or by the end of the process.
BreakerRecovers == circuitBreaker ~> ~circuitBreaker

\* As long as no goroutine took the reset branch, every request gets through the
\* locks and returns: nobody waits for a wake-up that was given to another.
RequestsReturn ==
    \A p \in Procs : pc[p] # "idle" ~> pc[p] = "idle" \/ resetTaken

\* The unit test's fourth call, made after the timer has expired, is expected
\* to work normally.
NoFatal == ~dead
=============================================================================
