------------------------ MODULE ServiceBreakerProofs ------------------------
(***************************************************************************)
(* Theorems about ServiceBreaker, for every number of goroutines, every    *)
(* threshold and every reset timeout.                                      *)
(***************************************************************************)
EXTENDS ServiceBreaker, FiniteSetTheorems, TLAPS

LEMMA AgesOK ==
    /\ Ages \subseteq Nat /\ LongAgo \in Ages /\ 0 \in Ages
    /\ \A a \in Ages : Older(a) \in Ages
BY BreakerAssumption DEF Ages, LongAgo, Older

LEMMA PlacesOK ==
    /\ {"idle", "rlock", "rwait", "read", "early", "runlock", "lock", "wwait",
        "first", "second", "unlock", "unmatched", "redis"} = Places
    /\ {"none", "close", "fail", "reset"} = Jobs
BY DEF Places, Section, Jobs

-----------------------------------------------------------------------------
(***************************************************************************)
(* The breaker's own state.                                                *)
(***************************************************************************)

\* TypeOK in two halves: Zenon deals with the flags, SMT with the numbers.
Flags ==
    /\ circuitBreaker \in BOOLEAN /\ resetTaken \in BOOLEAN /\ dead \in BOOLEAN
    /\ ret \in [Procs -> BOOLEAN]
Data ==
    /\ failureCount \in Nat
    /\ age \in Ages /\ quiet \in Ages
    /\ pc \in [Procs -> Places]
    /\ job \in [Procs -> Jobs]
    /\ writer \in Procs \cup {None}
    /\ readers \in Nat
    /\ readerWait \in Int
    /\ readerSem \in Nat /\ writerSem \in Nat
    /\ surplus \in Nat

LEMMA TypeHalves == TypeOK <=> Flags /\ Data
BY Zenon DEF TypeOK, Flags, Data

LEMMA BreakerInit == Init => BreakerInv
<1> SUFFICES ASSUME Init PROVE BreakerInv
  OBVIOUS
<1>1. Flags
  BY Zenon DEF Init, Flags
<1>2. Data
  BY BreakerAssumption, AgesOK, PlacesOK DEF Init, Data
<1>3. OneWriter /\ JobsFit
  BY BreakerAssumption DEF Init, OneWriter, JobsFit, Section
<1>4. TimerFits /\ CountFits
  BY BreakerAssumption DEF Init, TimerFits, CountFits
<1> QED  BY <1>1, <1>2, <1>3, <1>4, TypeHalves DEF BreakerInv

\* The steps outside the critical sections leave the breaker alone and move the
\* goroutine between places where it holds no writer's mark.
LEMMA OutsideStep ==
    ASSUME BreakerInv, NEW p \in Procs, NEW place \in Places,
           pc[p] \notin Section \cup {"wwait"},
           place \notin Section \cup {"wwait"},
           pc' \in {pc, [pc EXCEPT ![p] = place]},
           writer' = writer, UNCHANGED breaker,
           job' \in [Procs -> Jobs],
           \A q \in Procs : q # p => job'[q] = job[q],
           place = "lock" => job'[p] # "none",
           pc[p] = "lock" /\ pc' = pc => job'[p] # "none",
           TypeOK'
    PROVE  BreakerInv'
<1> USE DEF BreakerInv, TypeOK
<1>1. OneWriter'
  BY DEF OneWriter
<1>2. JobsFit'
  BY DEF JobsFit
<1>3. TimerFits'
  BY DEF TimerFits, breaker, Section
<1>4. CountFits'
  BY DEF CountFits, breaker, Section
<1> QED  BY <1>1, <1>2, <1>3, <1>4

LEMMA FlagsNext == BreakerInv /\ [Next]_vars => Flags'
<1> SUFFICES ASSUME BreakerInv, [Next]_vars PROVE Flags'
  OBVIOUS
<1>0. Flags
  BY TypeHalves DEF BreakerInv
<1> USE <1>0 DEF Flags, breaker, Go
<1>1. ASSUME NEW p \in Procs, Request(p) PROVE Flags'
  BY Zenon, <1>1 DEF Request
<1>2. ASSUME NEW p \in Procs, TakeReadLock(p) PROVE Flags'
  BY Zenon, <1>2 DEF TakeReadLock, RLock
<1>3. ASSUME NEW p \in Procs, WakeReader(p) PROVE Flags'
  BY Zenon, <1>3 DEF WakeReader
<1>4. ASSUME NEW p \in Procs, Read(p) PROVE Flags'
  BY Zenon, <1>4 DEF Read
<1>5. ASSUME NEW p \in Procs, EarlyRUnlock(p) PROVE Flags'
  BY Zenon, <1>5 DEF EarlyRUnlock, RUnlock
<1>6. ASSUME NEW p \in Procs, DeferredRUnlock(p) PROVE Flags'
  BY Zenon, <1>6 DEF DeferredRUnlock, RUnlock, AfterCheck
<1>7. ASSUME NEW p \in Procs, Redis(p) PROVE Flags'
  BY Zenon, <1>7 DEF Redis
<1>8. ASSUME NEW p \in Procs, Lock(p) PROVE Flags'
  BY Zenon, <1>8 DEF Lock
<1>9. ASSUME NEW p \in Procs, WakeWriter(p) PROVE Flags'
  BY Zenon, <1>9 DEF WakeWriter
<1>10. ASSUME NEW p \in Procs, Unlock(p) PROVE Flags'
  BY Zenon, <1>10 DEF Unlock
<1>11. ASSUME NEW p \in Procs, CloseBreaker(p) PROVE Flags'
  BY Zenon, <1>11 DEF CloseBreaker
<1>12. ASSUME NEW p \in Procs, IncrementFailure(p) PROVE Flags'
  BY Zenon, <1>12 DEF IncrementFailure
<1>13. ASSUME NEW p \in Procs, ResetFailure(p) PROVE Flags'
  BY Zenon, <1>13 DEF ResetFailure
<1>14. CASE Tick
  BY Zenon, <1>14 DEF Tick
<1>15. CASE Restart
  BY Zenon, <1>15 DEF Restart
<1>16. CASE UNCHANGED vars
  BY Zenon, <1>16 DEF vars
<1> QED  BY <1>1, <1>2, <1>3, <1>4, <1>5, <1>6, <1>7, <1>8, <1>9, <1>10, <1>11,
            <1>12, <1>13, <1>14, <1>15, <1>16 DEF Next, Step

LEMMA DataNext == BreakerInv /\ [Next]_vars => Data'
<1> SUFFICES ASSUME BreakerInv, [Next]_vars PROVE Data'
  OBVIOUS
<1>0. /\ Data
      /\ \A p \in Procs, place \in Places :
             Go(p, place) => pc' \in [Procs -> Places]
      /\ \A p \in Procs, j \in Jobs : [job EXCEPT ![p] = j] \in [Procs -> Jobs]
  BY TypeHalves DEF BreakerInv, Data, Go
<1> USE <1>0, BreakerAssumption, AgesOK, PlacesOK DEF Data, At, breaker, rwmutex
<1>1. ASSUME NEW p \in Procs, Request(p) PROVE Data'
  BY <1>1 DEF Request
<1>2. ASSUME NEW p \in Procs, TakeReadLock(p) PROVE Data'
  BY <1>2 DEF TakeReadLock, RLock
<1>3. ASSUME NEW p \in Procs, WakeReader(p) PROVE Data'
  BY <1>3 DEF WakeReader
<1>4. ASSUME NEW p \in Procs, Read(p) PROVE Data'
  BY <1>4 DEF Read
<1>5. ASSUME NEW p \in Procs, EarlyRUnlock(p) PROVE Data'
  BY <1>5 DEF EarlyRUnlock, RUnlock
<1>6. ASSUME NEW p \in Procs, DeferredRUnlock(p) PROVE Data'
  BY <1>6 DEF DeferredRUnlock, RUnlock, AfterCheck
<1>7. ASSUME NEW p \in Procs, Redis(p) PROVE Data'
  BY <1>7 DEF Redis
<1>8. ASSUME NEW p \in Procs, Lock(p) PROVE Data'
  BY <1>8 DEF Lock
<1>9. ASSUME NEW p \in Procs, WakeWriter(p) PROVE Data'
  BY <1>9 DEF WakeWriter
<1>10. ASSUME NEW p \in Procs, Unlock(p) PROVE Data'
  BY <1>10 DEF Unlock
<1>11. ASSUME NEW p \in Procs, CloseBreaker(p) PROVE Data'
  BY <1>11 DEF CloseBreaker
<1>12. ASSUME NEW p \in Procs, IncrementFailure(p) PROVE Data'
  BY <1>12 DEF IncrementFailure
<1>13. ASSUME NEW p \in Procs, ResetFailure(p) PROVE Data'
  BY <1>13 DEF ResetFailure
<1>14. CASE Tick
  BY <1>14 DEF Tick
<1>15. CASE Restart
  BY <1>15 DEF Restart
<1>16. CASE UNCHANGED vars
  BY <1>16 DEF vars
<1> QED  BY <1>1, <1>2, <1>3, <1>4, <1>5, <1>6, <1>7, <1>8, <1>9, <1>10, <1>11,
            <1>12, <1>13, <1>14, <1>15, <1>16 DEF Next, Step

LEMMA TypeNext == BreakerInv /\ [Next]_vars => TypeOK'
<1>1. Flags' /\ Data' => TypeOK'
  BY Zenon DEF TypeOK, Flags, Data
<1> QED  BY <1>1, FlagsNext, DataNext

LEMMA BreakerNext == BreakerInv /\ [Next]_vars => BreakerInv'
<1> SUFFICES ASSUME BreakerInv, [Next]_vars PROVE BreakerInv'
  OBVIOUS
<1>0. TypeOK'
  BY TypeNext
<1> USE DEF BreakerInv
<1>1. ASSUME NEW p \in Procs, Request(p) PROVE BreakerInv'
  BY <1>0, <1>1, OutsideStep
     DEF Request, At, Go, TypeOK, Places, Section, rwmutex
<1>2. ASSUME NEW p \in Procs, TakeReadLock(p) PROVE BreakerInv'
  BY <1>0, <1>2, OutsideStep
     DEF TakeReadLock, RLock, At, Go, TypeOK, Places, Section
<1>3. ASSUME NEW p \in Procs, WakeReader(p) PROVE BreakerInv'
  BY <1>0, <1>3, OutsideStep DEF WakeReader, At, Go, TypeOK, Places, Section
<1>4. ASSUME NEW p \in Procs, Read(p) PROVE BreakerInv'
  BY <1>0, <1>4, OutsideStep
     DEF Read, At, Go, TypeOK, Places, Section, rwmutex
<1>5. ASSUME NEW p \in Procs, EarlyRUnlock(p) PROVE BreakerInv'
  BY <1>0, <1>5, OutsideStep
     DEF EarlyRUnlock, RUnlock, At, Go, TypeOK, Places, Section, Jobs, rwmutex
<1>6. ASSUME NEW p \in Procs, DeferredRUnlock(p) PROVE BreakerInv'
  BY <1>0, <1>6, OutsideStep
     DEF DeferredRUnlock, RUnlock, AfterCheck, At, Go, TypeOK, Places, Section,
         rwmutex
<1>7. ASSUME NEW p \in Procs, Redis(p) PROVE BreakerInv'
  BY <1>0, <1>7, OutsideStep
     DEF Redis, At, Go, TypeOK, Places, Section, Jobs, rwmutex
<1>8. ASSUME NEW p \in Procs, Lock(p) PROVE BreakerInv'
  <2> USE <1>8 DEF Lock, At, Go, TypeOK
  <2>1. OneWriter' /\ JobsFit'
    BY BreakerAssumption DEF OneWriter, JobsFit, Section
  <2>2. TimerFits' /\ CountFits'
    BY DEF TimerFits, CountFits, breaker
  <2> QED  BY <1>0, <2>1, <2>2
<1>9. ASSUME NEW p \in Procs, WakeWriter(p) PROVE BreakerInv'
  <2> USE <1>9 DEF WakeWriter, At, Go, TypeOK
  <2>1. OneWriter' /\ JobsFit'
    BY DEF OneWriter, JobsFit, Section
  <2>2. TimerFits' /\ CountFits'
    BY DEF TimerFits, CountFits, breaker
  <2> QED  BY <1>0, <2>1, <2>2
<1>10. ASSUME NEW p \in Procs, Unlock(p) PROVE BreakerInv'
  <2> USE <1>10 DEF Unlock, At, Go, TypeOK
  <2>1. OneWriter' /\ JobsFit'
    BY BreakerAssumption DEF OneWriter, JobsFit, Section
  <2>2. TimerFits' /\ CountFits'
    BY DEF TimerFits, CountFits, breaker
  <2> QED  BY <1>0, <2>1, <2>2
<1>11. ASSUME NEW p \in Procs, CloseBreaker(p) PROVE BreakerInv'
  <2> USE <1>11 DEF CloseBreaker, At, Go, TypeOK
  <2>1. OneWriter' /\ JobsFit'
    BY DEF OneWriter, JobsFit, Section, rwmutex
  <2>2. TimerFits'
    BY DEF TimerFits, breaker
  <2>3. CountFits'
    BY BreakerAssumption DEF CountFits, breaker
  <2> QED  BY <1>0, <2>1, <2>2, <2>3
<1>12. ASSUME NEW p \in Procs, IncrementFailure(p) PROVE BreakerInv'
  <2> USE <1>12 DEF IncrementFailure, At, Go, TypeOK
  <2>1. OneWriter' /\ JobsFit'
    BY DEF OneWriter, JobsFit, Section, rwmutex
  <2>2. TimerFits'
    BY DEF TimerFits
  <2>3. CountFits'
    <3>1. CASE pc[p] = "first"
      BY <3>1 DEF CountFits
    <3>2. CASE pc[p] = "second"
      <4>1. failureCount' = failureCount
            /\ (failureCount >= FailureThreshold => circuitBreaker')
        BY <3>2 DEF breaker
      <4>2. failureCount \in Nat /\ FailureThreshold \in Nat
        BY BreakerAssumption
      <4>3. failureCount' < FailureThreshold \/ circuitBreaker'
        BY <4>1, <4>2
      <4> QED  BY <4>3 DEF CountFits
    <3> QED  BY <3>1, <3>2
  <2> QED  BY <1>0, <2>1, <2>2, <2>3
<1>13. ASSUME NEW p \in Procs, ResetFailure(p) PROVE BreakerInv'
  <2> USE <1>13 DEF ResetFailure, At, Go, TypeOK
  <2>1. OneWriter' /\ JobsFit'
    BY DEF OneWriter, JobsFit, Section, rwmutex
  <2>2. TimerFits'
    BY DEF TimerFits, OneWriter, Section
  <2>3. CountFits'
    BY BreakerAssumption DEF CountFits, OneWriter, Section
  <2> QED  BY <1>0, <2>1, <2>2, <2>3
<1>14. CASE Tick
  <2> USE <1>14 DEF Tick, TypeOK
  <2>1. OneWriter' /\ JobsFit'
    BY DEF OneWriter, JobsFit, rwmutex
  <2>2. TimerFits' /\ CountFits'
    BY DEF TimerFits, CountFits
  <2> QED  BY <1>0, <2>1, <2>2
<1>15. CASE Restart
  <2> USE <1>15, BreakerAssumption DEF Restart
  <2>1. OneWriter' /\ JobsFit'
    BY DEF OneWriter, JobsFit, Section
  <2>2. TimerFits' /\ CountFits'
    BY DEF TimerFits, CountFits
  <2> QED  BY <1>0, <2>1, <2>2
<1>16. CASE UNCHANGED vars
  BY <1>0, <1>16 DEF vars, breaker, rwmutex, OneWriter, JobsFit, TimerFits,
                     CountFits
<1> QED  BY <1>1, <1>2, <1>3, <1>4, <1>5, <1>6, <1>7, <1>8, <1>9, <1>10, <1>11,
            <1>12, <1>13, <1>14, <1>15, <1>16 DEF Next, Step

\* Writers exclude each other, the timer of an open breaker is the time since
\* the last recorded failure, and a closed breaker is below its threshold: also
\* after the read lock has been released too often.
THEOREM BreakerInvariant == Spec => []BreakerInv
BY BreakerInit, BreakerNext, PTL DEF Spec

\* An open breaker closes only after resetTimeout without a recorded failure.
THEOREM QuietClose == Spec => ClosesAfterQuiet
<1>1. BreakerInv /\ [Next]_vars =>
         [circuitBreaker /\ ~circuitBreaker' => quiet > ResetTimeout \/ dead]_vars
  <2> SUFFICES ASSUME BreakerInv, Next, circuitBreaker, ~circuitBreaker'
               PROVE  quiet > ResetTimeout \/ dead
    OBVIOUS
  <2>1. CASE Restart
    BY <2>1 DEF Restart
  <2>2. ASSUME NEW p \in Procs, CloseBreaker(p) PROVE quiet > ResetTimeout
    BY <2>2 DEF CloseBreaker, Expired, BreakerInv, TimerFits, breaker
  <2>3. ASSUME NEW p \in Procs,
               IncrementFailure(p) \/ ResetFailure(p) \/ Request(p) \/ Lock(p)
        PROVE  FALSE
    BY <2>3 DEF IncrementFailure, ResetFailure, Request, Lock, breaker
  <2>4. ASSUME NEW p \in Procs,
               TakeReadLock(p) \/ WakeReader(p) \/ Read(p) \/ EarlyRUnlock(p)
               \/ DeferredRUnlock(p) \/ Redis(p) \/ WakeWriter(p) \/ Unlock(p)
        PROVE  FALSE
    BY <2>4 DEF TakeReadLock, WakeReader, Read, EarlyRUnlock, DeferredRUnlock,
                Redis, WakeWriter, Unlock, breaker
  <2>5. CASE Tick
    BY <2>5 DEF Tick
  <2> QED  BY <2>1, <2>2, <2>3, <2>4, <2>5 DEF Next, Step
<1> QED  BY <1>1, BreakerInvariant, PTL DEF Spec, ClosesAfterQuiet
-----------------------------------------------------------------------------
(***************************************************************************)
(* The lock.                                                               *)
(***************************************************************************)

LEMMA CountOK ==
    ASSUME NEW A
    PROVE  IsFiniteSet(Inside(A)) /\ Cardinality(Inside(A)) \in Nat
BY BreakerAssumption, FS_Subset, FS_CardinalityType DEF Inside

\* How the number of goroutines at some places changes when one of them moves.
LEMMA Enter ==
    ASSUME NEW A, NEW p \in Procs, NEW place \in A, pc \in [Procs -> Places],
           Go(p, place), pc[p] \notin A
    PROVE  Cardinality(Inside(A)') = Cardinality(Inside(A)) + 1
<1>1. Inside(A)' = Inside(A) \cup {p} /\ p \notin Inside(A)
  BY DEF Inside, Go
<1> QED  BY <1>1, CountOK, FS_AddElement

LEMMA Leave ==
    ASSUME NEW A, NEW p \in Procs, NEW place, place \notin A,
           pc \in [Procs -> Places], Go(p, place), pc[p] \in A
    PROVE  /\ Cardinality(Inside(A)') = Cardinality(Inside(A)) - 1
           /\ Cardinality(Inside(A)) > 0
<1>1. Inside(A)' = Inside(A) \ {p} /\ p \in Inside(A)
  BY DEF Inside, Go
<1>2. Cardinality(Inside(A) \ {p}) = Cardinality(Inside(A)) - 1
  BY <1>1, CountOK, FS_RemoveElement
<1>3. Cardinality(Inside(A)) # 0
  BY <1>1, CountOK, FS_EmptySet
<1> QED  BY <1>1, <1>2, <1>3, CountOK

LEMMA Stay ==
    ASSUME NEW A, NEW p \in Procs, NEW place, pc \in [Procs -> Places],
           Go(p, place), pc[p] \in A <=> place \in A
    PROVE  Cardinality(Inside(A)') = Cardinality(Inside(A))
<1>1. Inside(A)' = Inside(A)
  BY DEF Inside, Go
<1> QED  BY <1>1

LEMMA NoMove ==
    ASSUME NEW A, pc' = pc PROVE Cardinality(Inside(A)') = Cardinality(Inside(A))
BY DEF Inside

\* A place that a goroutine is at counts for something.
LEMMA CountsAt ==
    ASSUME NEW p \in Procs, NEW A, pc[p] \in A
    PROVE  Cardinality(Inside(A)) # 0
<1>1. p \in Inside(A)
  BY DEF Inside
<1> QED  BY <1>1, CountOK, FS_EmptySet

LEMMA AccountingNext ==
    BreakerInv /\ LockAccounting /\ [Next]_vars => LockAccounting'
<1> SUFFICES ASSUME BreakerInv, LockAccounting, [Next]_vars PROVE LockAccounting'
  OBVIOUS
<1> DEFINE a == Cardinality(Inside(Active))
           b == Cardinality(Inside(Blocked))
<1>0. /\ Data /\ pc \in [Procs -> Places] /\ readers \in Nat /\ surplus \in Nat
      /\ a \in Nat /\ b \in Nat /\ readers + surplus = a + b
  BY TypeHalves, CountOK DEF BreakerInv, Data, LockAccounting
<1>1. ASSUME a' = a, b' = b, readers' = readers, surplus' = surplus
      PROVE  LockAccounting'
  BY <1>0, <1>1 DEF LockAccounting
<1>2. ASSUME NEW p \in Procs, NEW place,
             pc[p] \notin Active \cup Blocked, place \notin Active \cup Blocked,
             Go(p, place), readers' = readers, surplus' = surplus
      PROVE  LockAccounting'
  BY <1>0, <1>1, <1>2, Stay
<1> USE DEF At
<1>3. ASSUME NEW p \in Procs, Request(p) \/ Redis(p) PROVE LockAccounting'
  BY <1>2, <1>3 DEF Request, Redis, Active, Blocked, rwmutex
<1>4. ASSUME NEW p \in Procs, Lock(p) \/ WakeWriter(p) \/ Unlock(p)
      PROVE  LockAccounting'
  BY <1>2, <1>4 DEF Lock, WakeWriter, Unlock, Active, Blocked
<1>5. ASSUME NEW p \in Procs,
             CloseBreaker(p) \/ IncrementFailure(p) \/ ResetFailure(p)
      PROVE  LockAccounting'
  BY <1>2, <1>5 DEF CloseBreaker, IncrementFailure, ResetFailure, Active,
                    Blocked, rwmutex
<1>6. ASSUME NEW p \in Procs, TakeReadLock(p) PROVE LockAccounting'
  <2>1. readers' = readers + 1 /\ surplus' = surplus /\ pc[p] = "rlock"
    BY <1>6 DEF TakeReadLock, RLock
  <2>2. CASE Go(p, "rwait")
    <3>1. a' = a /\ b' = b + 1
      BY <1>0, <2>1, <2>2, Stay, Enter DEF Active, Blocked
    <3> QED  BY <1>0, <2>1, <3>1 DEF LockAccounting
  <2>3. CASE Go(p, "read")
    <3>1. a' = a + 1 /\ b' = b
      BY <1>0, <2>1, <2>3, Stay, Enter DEF Active, Blocked
    <3> QED  BY <1>0, <2>1, <3>1 DEF LockAccounting
  <2> QED  BY <1>6, <2>2, <2>3 DEF TakeReadLock, RLock
<1>7. ASSUME NEW p \in Procs, WakeReader(p) PROVE LockAccounting'
  <2>1. /\ readers' = readers /\ surplus' = surplus
        /\ pc[p] = "rwait" /\ Go(p, "read")
    BY <1>7 DEF WakeReader
  <2>2. a' = a + 1 /\ b' = b - 1
    BY <1>0, <2>1, Enter, Leave DEF Active, Blocked
  <2> QED  BY <1>0, <2>1, <2>2 DEF LockAccounting
<1>8. ASSUME NEW p \in Procs, Read(p) PROVE LockAccounting'
  <2>1. /\ readers' = readers /\ surplus' = surplus /\ pc[p] = "read"
        /\ Go(p, "early") \/ Go(p, "runlock")
    BY <1>8 DEF Read, rwmutex
  <2>2. a' = a /\ b' = b
    BY <1>0, <2>1, Stay DEF Active, Blocked
  <2> QED  BY <1>1, <2>1, <2>2
<1>9. ASSUME NEW p \in Procs, NEW place, NEW owned \in BOOLEAN,
             RUnlock(p, place, owned), place \notin Active \cup Blocked,
             owned => pc[p] \in Active, ~owned => pc[p] \notin Active,
             pc[p] \notin Blocked
      PROVE  LockAccounting'
  <2>1. CASE readers = 0 /\ UNCHANGED <<pc, rwmutex>>
    <3>1. readers' = readers /\ surplus' = surplus /\ pc' = pc
      BY <2>1 DEF rwmutex
    <3> QED  BY <1>1, <3>1, NoMove
  <2>2. CASE readers > 0 /\ readers' = readers - 1 /\ Go(p, place)
             /\ surplus' = IF owned THEN surplus ELSE surplus + 1
    <3>1. b' = b
      BY <1>0, <1>9, <2>2, Stay
    <3>2. CASE owned
      <4>1. a' = a - 1
        BY <1>0, <1>9, <2>2, <3>2, Leave
      <4>2. surplus' = surplus
        BY <2>2, <3>2
      <4> QED  BY <1>0, <2>2, <3>1, <4>1, <4>2 DEF LockAccounting
    <3>3. CASE ~owned
      <4>1. a' = a
        BY <1>0, <1>9, <2>2, <3>3, Stay
      <4>2. surplus' = surplus + 1
        BY <2>2, <3>3
      <4> QED  BY <1>0, <2>2, <3>1, <4>1, <4>2 DEF LockAccounting
    <3> QED  BY <3>2, <3>3
  <2> QED  BY <1>9, <2>1, <2>2 DEF RUnlock
<1>10. ASSUME NEW p \in Procs, EarlyRUnlock(p) PROVE LockAccounting'
  BY <1>9, <1>10 DEF EarlyRUnlock, Active, Blocked
<1>11. ASSUME NEW p \in Procs, DeferredRUnlock(p) PROVE LockAccounting'
  <2>1. AfterCheck(p) \notin Active \cup Blocked
    BY DEF AfterCheck, Active, Blocked
  <2> QED  BY <1>9, <1>11, <2>1 DEF DeferredRUnlock, Active, Blocked
<1>12. CASE Tick
  <2>1. readers' = readers /\ surplus' = surplus /\ pc' = pc
    BY <1>12 DEF Tick, rwmutex
  <2> QED  BY <1>1, <2>1, NoMove
<1>13. CASE Restart
  <2>1. Inside(Active)' = {} /\ Inside(Blocked)' = {}
    BY <1>13 DEF Restart, Inside, Active, Blocked
  <2>2. readers' = 0 /\ surplus' = 0
    BY <1>13 DEF Restart
  <2> QED  BY <2>1, <2>2, FS_EmptySet DEF LockAccounting
<1>14. CASE UNCHANGED vars
  <2>1. readers' = readers /\ surplus' = surplus /\ pc' = pc
    BY <1>14 DEF vars, rwmutex
  <2> QED  BY <1>1, <2>1, NoMove
<1> QED  BY <1>3, <1>4, <1>5, <1>6, <1>7, <1>8, <1>10, <1>11, <1>12, <1>13,
            <1>14 DEF Next, Step

\* The reader count of the mutex falls short of the goroutines that hold or
\* await a read lock by exactly the number of RUnlocks too many.
THEOREM AccountingInvariant == Spec => []LockAccounting
<1>1. Init => LockAccounting
  <2> SUFFICES ASSUME Init PROVE LockAccounting
    OBVIOUS
  <2>1. Inside(Active) = {} /\ Inside(Blocked) = {}
    BY DEF Init, Inside, Active, Blocked
  <2> QED  BY <2>1, FS_EmptySet DEF Init, LockAccounting
<1> QED  BY <1>1, AccountingNext, BreakerInvariant, PTL DEF Spec

\* The counters of LocksFit before and after a step, the two counts as
\* parameters.
Fit(a, b) ==
    /\ readers = a + b
    /\ writer = None => readerWait = 0 /\ writerSem = 0 /\ readerSem = b
    /\ writer # None => readerWait = a + readerSem
    /\ \A p \in Procs : pc[p] = "wwait" =>
          (IF readerWait = 0 THEN writerSem = 1 ELSE writerSem = 0)
    /\ \A p \in Procs : pc[p] \in Section => readerWait = 0 /\ writerSem = 0

FitAfter(a, b) ==
    /\ readers' = a + b
    /\ writer' = None => readerWait' = 0 /\ writerSem' = 0 /\ readerSem' = b
    /\ writer' # None => readerWait' = a + readerSem'
    /\ \A p \in Procs : pc'[p] = "wwait" =>
          (IF readerWait' = 0 THEN writerSem' = 1 ELSE writerSem' = 0)
    /\ \A p \in Procs : pc'[p] \in Section =>
          readerWait' = 0 /\ writerSem' = 0

NoReset ==
    \A p \in Procs : pc[p] \notin {"early", "unmatched"} /\ job[p] # "close"

LEMMA LocksFitParts ==
    LocksFit <=> (~resetTaken =>
        /\ ~dead /\ NoReset
        /\ Fit(Cardinality(Inside(Active)), Cardinality(Inside(Blocked))))
BY DEF LocksFit, NoReset, Fit

LEMMA LocksStep ==
    ASSUME BreakerInv, Data', ~dead, NoReset,
           Fit(Cardinality(Inside(Active)), Cardinality(Inside(Blocked))),
           [Next]_vars, ~Restart, ~resetTaken'
    PROVE  /\ ~dead' /\ NoReset'
           /\ FitAfter(Cardinality(Inside(Active))', Cardinality(Inside(Blocked))')
<1> DEFINE a == Cardinality(Inside(Active))
           b == Cardinality(Inside(Blocked))
           Goal == ~dead' /\ NoReset' /\ FitAfter(a', b')
<1>0. /\ Data /\ pc \in [Procs -> Places] /\ job \in [Procs -> Jobs]
      /\ a \in Nat /\ b \in Nat /\ OneWriter
      /\ readers \in Nat /\ readerWait \in Int /\ readerSem \in Nat /\ writerSem \in Nat
  BY TypeHalves, CountOK DEF BreakerInv, Data
<1> SUFFICES Goal
  OBVIOUS
<1>a. Fit(a, b)
  OBVIOUS
<1>b. \A p \in Procs, place \in Places : Go(p, place) => pc' = [pc EXCEPT ![p] = place]
  BY DEF Go
<1> HIDE DEF a, b
<1> USE DEF At
<1>1. ASSUME NEW p \in Procs, NEW place, Go(p, place), UNCHANGED rwmutex,
             a' = a, b' = b, place # "wwait",
             place \in Section => pc[p] \in Section
      PROVE  FitAfter(a', b')
  BY <1>0, <1>a, <1>1 DEF Fit, FitAfter, Go, rwmutex
<1>2. ASSUME NEW p \in Procs, NEW place, Go(p, place),
             pc[p] \notin Active \cup Blocked, place \notin Active \cup Blocked
      PROVE  a' = a /\ b' = b
  BY <1>0, <1>2, Stay DEF a, b
<1>3. ASSUME NEW p \in Procs, Request(p) \/ Redis(p) PROVE Goal
  <2>1. PICK place \in {"rlock", "lock", "idle"} : Go(p, place)
    BY <1>3 DEF Request, Redis
  <2>2. a' = a /\ b' = b
    BY <1>2, <1>3, <2>1 DEF Request, Redis, Active, Blocked
  <2>3. UNCHANGED rwmutex /\ dead' = dead
    BY <1>3 DEF Request, Redis
  <2>4. FitAfter(a', b')
    BY <1>1, <2>1, <2>2, <2>3 DEF Section
  <2>5. NoReset'
    BY <1>0, <1>3 DEF NoReset, Request, Redis, Go
  <2> QED  BY <2>3, <2>4, <2>5
<1>4. ASSUME NEW p \in Procs, CloseBreaker(p) PROVE Goal
  BY <1>4 DEF CloseBreaker, NoReset
<1>5. ASSUME NEW p \in Procs, IncrementFailure(p) \/ ResetFailure(p) PROVE Goal
  <2>1. PICK place \in {"second", "unlock"} : Go(p, place)
    BY <1>5 DEF IncrementFailure, ResetFailure
  <2>2. a' = a /\ b' = b
    BY <1>2, <1>5, <2>1 DEF IncrementFailure, ResetFailure, Active, Blocked
  <2>3. UNCHANGED rwmutex /\ dead' = dead /\ pc[p] \in Section
    BY <1>5 DEF IncrementFailure, ResetFailure, Section
  <2>4. FitAfter(a', b')
    BY <1>1, <2>1, <2>2, <2>3 DEF Section
  <2>5. NoReset'
    BY <1>0, <1>5 DEF NoReset, IncrementFailure, ResetFailure, Go
  <2> QED  BY <2>3, <2>4, <2>5
<1>6. ASSUME NEW p \in Procs, Lock(p) PROVE Goal
  <2>1. a' = a /\ b' = b
    BY <1>2, <1>6 DEF Lock, Active, Blocked
  <2>2. /\ writer = None /\ writer' = p /\ p # None
        /\ readers' = readers /\ readerSem' = readerSem /\ writerSem' = writerSem
        /\ readerWait' = readerWait + readers
    BY <1>6, BreakerAssumption DEF Lock
  <2>3. readerWait' = a + readerSem /\ writerSem = 0 /\ readers = a + b
    BY <1>0, <1>a, <2>2 DEF Fit
  <2>4. \A q \in Procs : pc'[q] \in Section \cup {"wwait"} => q = p
    BY <1>0, <1>6, <2>2, BreakerAssumption DEF OneWriter, Lock, Go
  <2>5. readers = 0 <=> readerWait' = 0
    BY <1>0, <1>a, <2>2, <2>3 DEF Fit
  <2>6. pc'[p] = IF readerWait' = 0 THEN "first" ELSE "wwait"
    BY <1>0, <1>6, <2>5 DEF Lock, Go
  <2>7. FitAfter(a', b')
    BY <1>0, <2>1, <2>2, <2>3, <2>4, <2>6 DEF Fit, FitAfter, Section
  <2>8. NoReset' /\ dead' = dead
    BY <1>0, <1>6 DEF NoReset, Lock, Go
  <2> QED  BY <2>7, <2>8
<1>7. ASSUME NEW p \in Procs, WakeWriter(p) PROVE Goal
  <2>1. a' = a /\ b' = b
    BY <1>2, <1>7 DEF WakeWriter, Active, Blocked
  <2>2. /\ writer' = writer /\ readers' = readers /\ readerWait' = readerWait
        /\ readerSem' = readerSem /\ writerSem' = writerSem - 1
        /\ writerSem > 0 /\ pc[p] = "wwait"
    BY <1>7 DEF WakeWriter
  <2>3. readerWait = 0 /\ writerSem = 1 /\ writer = p /\ p # None
    BY <1>0, <1>a, <2>2, BreakerAssumption DEF Fit, OneWriter
  <2>4. \A q \in Procs : pc'[q] \in Section \cup {"wwait"} => q = p
    BY <1>0, <1>7, <2>3 DEF OneWriter, WakeWriter, Go
  <2>5. pc'[p] = "first"
    BY <1>0, <1>7 DEF WakeWriter, Go
  <2>6. FitAfter(a', b')
    BY <1>0, <1>a, <2>1, <2>2, <2>3, <2>4, <2>5 DEF Fit, FitAfter, Section
  <2>7. NoReset' /\ dead' = dead
    BY <1>0, <1>7 DEF NoReset, WakeWriter, Go
  <2> QED  BY <2>6, <2>7
<1>8. ASSUME NEW p \in Procs, Unlock(p) PROVE Goal
  <2>1. Go(p, "idle") /\ pc[p] = "unlock" /\ job[p] # "close"
    BY <1>8 DEF Unlock, NoReset
  <2>2. a' = a /\ b' = b
    BY <1>2, <2>1 DEF Active, Blocked
  <2>3. /\ writer' = None /\ readers' = readers /\ readerWait' = readerWait
        /\ readerSem' = readerSem + readers /\ writerSem' = writerSem
    BY <1>8 DEF Unlock
  <2>4. writer = p /\ p # None
    BY <1>0, <2>1, BreakerAssumption DEF OneWriter, Section
  <2>5. readerWait = 0 /\ writerSem = 0 /\ a = 0 /\ readerSem = 0
    BY <1>0, <1>a, <2>1, <2>4 DEF Fit, Section
  <2>6. \A q \in Procs : pc'[q] \notin Section \cup {"wwait"}
    BY <1>0, <2>1, <2>4 DEF OneWriter, Go, Section
  <2>7. readers = a + b
    BY <1>a DEF Fit
  <2>8. FitAfter(a', b')
    BY <1>0, <2>2, <2>3, <2>5, <2>6, <2>7 DEF Fit, FitAfter
  <2>9. NoReset' /\ dead' = dead
    BY <1>0, <1>8, <2>1 DEF NoReset, Unlock, Go
  <2> QED  BY <2>8, <2>9
<1>9. ASSUME NEW p \in Procs, TakeReadLock(p) PROVE Goal
  <2>1. /\ readers' = readers + 1 /\ pc[p] = "rlock" /\ dead' = dead /\ job' = job
        /\ writer' = writer /\ readerWait' = readerWait
        /\ readerSem' = readerSem /\ writerSem' = writerSem
    BY <1>9 DEF TakeReadLock, RLock
  <2>2. CASE writer # None /\ Go(p, "rwait")
    <3>1. a' = a /\ b' = b + 1
      BY <1>0, <2>1, <2>2, Stay, Enter DEF Active, Blocked, a, b
    <3> QED  BY <1>0, <1>a, <2>1, <2>2, <3>1 DEF Fit, FitAfter, NoReset, Go, Section
  <2>3. CASE writer = None /\ Go(p, "read")
    <3>1. a' = a + 1 /\ b' = b
      BY <1>0, <2>1, <2>3, Stay, Enter DEF Active, Blocked, a, b
    <3> QED  BY <1>0, <1>a, <2>1, <2>3, <3>1 DEF Fit, FitAfter, NoReset, Go, Section
  <2> QED  BY <1>9, <2>2, <2>3 DEF TakeReadLock, RLock
<1>10. ASSUME NEW p \in Procs, WakeReader(p) PROVE Goal
  <2>1. /\ readers' = readers /\ pc[p] = "rwait" /\ dead' = dead /\ job' = job
        /\ writer' = writer /\ readerWait' = readerWait /\ Go(p, "read")
        /\ readerSem > 0 /\ readerSem' = readerSem - 1 /\ writerSem' = writerSem
    BY <1>10 DEF WakeReader
  <2>2. a' = a + 1 /\ b' = b - 1
    BY <1>0, <2>1, Enter, Leave DEF Active, Blocked, a, b
  <2>3. FitAfter(a', b')
    BY <1>0, <1>a, <2>1, <2>2 DEF Fit, FitAfter, Go, Section
  <2>4. NoReset'
    BY <1>0, <2>1 DEF NoReset, Go
  <2> QED  BY <2>1, <2>3, <2>4
<1>11. ASSUME NEW p \in Procs, Read(p) PROVE Goal
  <2>1. Go(p, "runlock") /\ pc[p] = "read" /\ UNCHANGED <<rwmutex, job, dead>>
    BY <1>11 DEF Read
  <2>2. a' = a /\ b' = b
    BY <1>0, <2>1, Stay DEF Active, Blocked, a, b
  <2>3. FitAfter(a', b')
    BY <1>1, <2>1, <2>2 DEF Section
  <2>4. NoReset'
    BY <1>0, <2>1 DEF NoReset, Go
  <2> QED  BY <2>1, <2>3, <2>4
<1>12. ASSUME NEW p \in Procs, EarlyRUnlock(p) PROVE Goal
  BY <1>12 DEF EarlyRUnlock, NoReset
<1>13. ASSUME NEW p \in Procs, DeferredRUnlock(p) PROVE Goal
  <2>1. pc[p] = "runlock" /\ RUnlock(p, AfterCheck(p), TRUE) /\ job' = job
    BY <1>13 DEF DeferredRUnlock, NoReset
  <2>2. a > 0 /\ readers = a + b
    <3>1. a # 0
      BY <2>1, CountsAt DEF Active, a
    <3> QED  BY <1>0, <1>a, <3>1 DEF Fit
  <2>3. /\ Go(p, AfterCheck(p)) /\ readers' = readers - 1
        /\ readerWait' = IF writer = None THEN readerWait ELSE readerWait - 1
        /\ writerSem' = IF writer # None /\ readerWait = 1
                        THEN writerSem + 1 ELSE writerSem
        /\ writer' = writer /\ readerSem' = readerSem /\ dead' = dead
    BY <1>0, <2>1, <2>2 DEF RUnlock
  <2>4. AfterCheck(p) \in {"idle", "redis"}
    BY DEF AfterCheck
  <2>5. a' = a - 1 /\ b' = b
    BY <1>0, <2>1, <2>3, <2>4, Leave, Stay DEF Active, Blocked, a, b
  <2>6. CASE writer = None
    <3>1. \A q \in Procs : pc'[q] \notin Section \cup {"wwait"}
      BY <1>0, <2>3, <2>4, <2>6, BreakerAssumption DEF OneWriter, Go, Section
    <3>2. FitAfter(a', b')
      BY <1>0, <1>a, <2>3, <2>5, <2>6, <3>1 DEF Fit, FitAfter
    <3> QED  BY <1>0, <2>1, <2>3, <2>4, <3>2 DEF NoReset, Go
  <2>7. CASE writer # None
    <3>1. readerWait = a + readerSem /\ readerWait > 0
      BY <1>0, <1>a, <2>2, <2>7 DEF Fit
    <3>2. \A q \in Procs : pc[q] \notin Section
      BY <1>a, <3>1 DEF Fit
    <3>3. \A q \in Procs : pc'[q] \notin Section
                           /\ (pc'[q] = "wwait" => pc[q] = "wwait")
      BY <1>0, <2>3, <2>4, <3>2 DEF Go, Section
    <3>4. \A q \in Procs : pc[q] = "wwait" => writerSem = 0
      BY <1>a, <3>1 DEF Fit
    <3>5. readerWait' = readerWait - 1
          /\ writerSem' = IF readerWait = 1 THEN writerSem + 1 ELSE writerSem
      BY <2>3, <2>7
    <3>6. FitAfter(a', b')
      BY <1>0, <2>2, <2>3, <2>5, <2>7, <3>1, <3>3, <3>4, <3>5 DEF Fit, FitAfter
    <3> QED  BY <1>0, <2>1, <2>3, <2>4, <3>6 DEF NoReset, Go
  <2> QED  BY <2>6, <2>7
<1>14. CASE Tick \/ UNCHANGED vars
  <2>1. UNCHANGED <<rwmutex, pc, job, dead>>
    BY <1>14 DEF Tick, vars
  <2>2. a' = a /\ b' = b
    BY <2>1, NoMove DEF a, b
  <2>3. FitAfter(a', b')
    BY <1>a, <2>1, <2>2 DEF Fit, FitAfter, rwmutex
  <2> QED  BY <2>1, <2>3 DEF NoReset
<1> QED  BY <1>3, <1>4, <1>5, <1>6, <1>7, <1>8, <1>9, <1>10, <1>11, <1>12,
            <1>13, <1>14 DEF Next, Step

LEMMA LocksNext == BreakerInv /\ LocksFit /\ [Next]_vars => LocksFit'
<1> DEFINE a == Cardinality(Inside(Active))
           b == Cardinality(Inside(Blocked))
<1> SUFFICES ASSUME BreakerInv, LocksFit, [Next]_vars, ~resetTaken'
             PROVE  ~dead' /\ NoReset' /\ FitAfter(a', b')
  BY LocksFitParts DEF LocksFit, NoReset, Fit, FitAfter
<1>1. CASE Restart
  <2>1. Inside(Active)' = {} /\ Inside(Blocked)' = {}
    BY <1>1 DEF Restart, Inside, Active, Blocked
  <2>2. a' = 0 /\ b' = 0
    BY <2>1, FS_EmptySet
  <2>3. FitAfter(0, 0)
    BY <1>1 DEF Fit, FitAfter, Restart, Section
  <2>4. NoReset' /\ ~dead'
    BY <1>1 DEF NoReset, Restart
  <2> QED  BY <2>2, <2>3, <2>4
<1>2. CASE ~Restart
  <2>1. ~resetTaken
    BY <1>2 DEF Next, Step, vars, Request, TakeReadLock, WakeReader, Read,
                EarlyRUnlock, DeferredRUnlock, Redis, Lock, WakeWriter,
                CloseBreaker, IncrementFailure, ResetFailure, Unlock, Tick
  <2>2. ~dead /\ NoReset /\ Fit(a, b)
    BY <2>1, LocksFitParts
  <2> QED  BY <1>2, <2>2, DataNext, LocksStep
<1> QED  BY <1>1, <1>2

LEMMA LocksInit == Init => LocksFit
<1> SUFFICES ASSUME Init PROVE LocksFit
  OBVIOUS
<1>1. Inside(Active) = {} /\ Inside(Blocked) = {}
  BY DEF Init, Inside, Active, Blocked
<1>2. Fit(0, 0)
  BY DEF Fit, Init, Section
<1>3. ~dead /\ NoReset
  BY DEF Init, NoReset
<1> QED  BY <1>1, <1>2, <1>3, FS_EmptySet, LocksFitParts

\* Until a goroutine takes the reset branch, the mutex counts its readers and
\* its waiters exactly, so no RUnlock is fatal and no wake-up goes astray.
THEOREM LocksInvariant == Spec => []LocksFit
BY LocksInit, LocksNext, BreakerInvariant, PTL DEF Spec

\* Until a goroutine takes the reset branch, the read-write lock does its work:
\* no reader is inside together with a writer and no RUnlock is fatal.
THEOREM Safety == Spec => []SafeUntilReset
<1>1. BreakerInv /\ LocksFit => SafeUntilReset
  <2> SUFFICES ASSUME BreakerInv, LocksFit, ~resetTaken,
                      NEW p \in Procs, NEW q \in Procs,
                      pc[p] \in Active, pc[q] \in Section
               PROVE  FALSE
    BY DEF SafeUntilReset, LocksFit
  <2>1. Cardinality(Inside(Active)) # 0 /\ Cardinality(Inside(Active)) \in Nat
    BY CountsAt, CountOK
  <2>2. writer = q /\ q # None /\ readerSem \in Nat
    BY BreakerAssumption, TypeHalves DEF BreakerInv, OneWriter, Data
  <2> QED  BY <2>1, <2>2 DEF LocksFit
<1> QED  BY <1>1, LocksInvariant, BreakerInvariant, PTL

\* Under a writer, the wake-ups under way are for readers that still wait.
WakeUpsFit ==
    ~resetTaken /\ writer # None => readerSem <= Cardinality(Inside(Blocked))

LEMMA WakeUpsNext ==
    BreakerInv /\ LocksFit /\ LocksFit' /\ WakeUpsFit /\ [Next]_vars => WakeUpsFit'
<1> DEFINE b == Cardinality(Inside(Blocked))
<1> SUFFICES ASSUME BreakerInv, LocksFit, LocksFit', WakeUpsFit, [Next]_vars,
                    ~resetTaken', writer' # None
             PROVE  readerSem' <= b'
  BY DEF WakeUpsFit
<1>1. /\ pc \in [Procs -> Places] /\ readerSem \in Nat
      /\ b \in Nat /\ b' \in Nat /\ IsFiniteSet(Inside(Blocked)')
  <2>1. Data /\ Data'
    BY TypeHalves, DataNext DEF BreakerInv
  <2>2. IsFiniteSet(Inside(Blocked)')
    BY BreakerAssumption, FS_Subset DEF Inside
  <2> QED  BY <2>1, <2>2, CountOK, FS_CardinalityType DEF Data
<1>2. ~Restart /\ \A p \in Procs : ~Unlock(p)
  BY DEF Restart, Unlock
<1>3. ~resetTaken
  BY <1>2 DEF Next, Step, vars, Request, TakeReadLock, WakeReader, Read,
              EarlyRUnlock, DeferredRUnlock, Redis, Lock, WakeWriter,
              CloseBreaker, IncrementFailure, ResetFailure, Tick
<1>4. readerSem <= b
  <2>1. CASE writer = None
    BY <1>1, <1>3, <2>1 DEF LocksFit
  <2>2. CASE writer # None
    BY <1>3, <2>2 DEF WakeUpsFit
  <2> QED  BY <2>1, <2>2
<1>5. ASSUME NEW p \in Procs, WakeReader(p) PROVE readerSem' <= b'
  <2>1. b' = b - 1
    BY <1>1, <1>5, Leave DEF WakeReader, At, Blocked
  <2>2. readerSem' = readerSem - 1
    BY <1>5 DEF WakeReader
  <2> QED  BY <1>1, <1>4, <2>1, <2>2
<1>6. CASE \A p \in Procs : ~WakeReader(p)
  <2> DEFINE Waiting == /\ readerSem' = readerSem
                        /\ \A q \in Procs : pc[q] = "rwait" => pc'[q] = "rwait"
  <2>1. Waiting
    <3>1. ASSUME NEW p \in Procs, Request(p) \/ TakeReadLock(p) \/ Read(p)
                                  \/ EarlyRUnlock(p) \/ DeferredRUnlock(p)
          PROVE  Waiting
      BY <1>1, <3>1 DEF Request, TakeReadLock, RLock, Read, EarlyRUnlock,
                 DeferredRUnlock, RUnlock, rwmutex, At, Go
    <3>2. ASSUME NEW p \in Procs, Redis(p) \/ Lock(p) \/ WakeWriter(p)
                                  \/ CloseBreaker(p) \/ IncrementFailure(p)
                                  \/ ResetFailure(p)
          PROVE  Waiting
      BY <1>1, <3>2 DEF Redis, Lock, WakeWriter, CloseBreaker, IncrementFailure,
                 ResetFailure, rwmutex, At, Go
    <3>3. CASE Tick \/ UNCHANGED vars
      BY <3>3 DEF Tick, vars, rwmutex
    <3> QED  BY <1>2, <1>6, <3>1, <3>2, <3>3 DEF Next, Step
  <2>2. Inside(Blocked) \subseteq Inside(Blocked)'
    BY <2>1 DEF Inside, Blocked
  <2>3. b <= b'
    BY <1>1, <2>2, FS_Subset
  <2> QED  BY <1>1, <1>4, <2>1, <2>3
<1> QED  BY <1>5, <1>6

\* A goroutine that is in a request waits at three places only: for a wake-up
\* as a reader or as the announced writer, and to be the next writer.
CanMove(p) ==
    /\ ~dead /\ pc[p] # "idle"
    /\ pc[p] = "rwait" => readerSem > 0
    /\ pc[p] = "lock" => writer = None
    /\ pc[p] = "wwait" => writerSem > 0
    /\ pc[p] \in {"first", "second"} => job[p] # "none"

SomebodyMoves == ~resetTaken =>
    \A p \in Procs : pc[p] # "idle" => \E q \in Procs : CanMove(q)

\* Until a goroutine takes the reset branch, the goroutines never all wait for
\* wake-ups that went to others: while one of them is in a request, one can go
\* on.
THEOREM NoDeadlock == Spec => []SomebodyMoves
<1>1. ASSUME BreakerInv, LocksFit, WakeUpsFit, ~resetTaken,
             NEW p \in Procs, pc[p] # "idle", \A q \in Procs : ~CanMove(q)
      PROVE  FALSE
  <2> DEFINE a == Cardinality(Inside(Active))
             b == Cardinality(Inside(Blocked))
  <2>1. /\ ~dead /\ readerSem \in Nat /\ writerSem \in Nat /\ readerWait \in Int
        /\ a \in Nat /\ b \in Nat /\ writer \in Procs \cup {None}
    BY <1>1, TypeHalves, CountOK DEF BreakerInv, LocksFit, Data
  <2>2. \A q \in Procs :
           \/ pc[q] = "idle"
           \/ pc[q] = "rwait" /\ readerSem = 0
           \/ pc[q] = "lock" /\ writer # None
           \/ pc[q] = "wwait" /\ writerSem = 0
    BY <1>1, <2>1 DEF CanMove, BreakerInv, JobsFit, Section
  <2>3. Inside(Active) = {} /\ a = 0
    <3>1. Inside(Active) = {}
      BY <2>2 DEF Inside, Active
    <3> QED  BY <3>1, FS_EmptySet
  <2>4. CASE writer = None
    <3>1. pc[p] = "rwait" /\ readerSem = 0
      BY <1>1, <2>2, <2>4, BreakerAssumption DEF BreakerInv, OneWriter
    <3>2. b = 0
      BY <1>1, <2>4, <3>1 DEF LocksFit
    <3> QED  BY <3>1, <3>2, CountsAt DEF Blocked
  <2>5. CASE writer # None
    <3>1. writer \in Procs /\ pc[writer] = "wwait" /\ writerSem = 0
      BY <1>1, <2>1, <2>2, <2>5 DEF BreakerInv, OneWriter, Section
    <3>2. readerWait # 0 /\ readerWait = readerSem
      BY <1>1, <2>1, <2>3, <2>5, <3>1 DEF LocksFit
    <3>3. b # 0
      BY <1>1, <2>1, <2>5, <3>2 DEF WakeUpsFit
    <3>4. PICK q \in Inside(Blocked) : TRUE
      BY <3>3, FS_EmptySet
    <3>5. q \in Procs /\ pc[q] = "rwait"
      BY <3>4 DEF Inside, Blocked
    <3> QED  BY <2>1, <2>2, <3>2, <3>5
  <2> QED  BY <2>4, <2>5
<1>2. BreakerInv /\ LocksFit /\ WakeUpsFit => SomebodyMoves
  BY <1>1 DEF SomebodyMoves
<1>3. Init => WakeUpsFit
  BY DEF Init, WakeUpsFit
<1> QED  BY <1>2, <1>3, WakeUpsNext, LocksInvariant, BreakerInvariant, PTL DEF Spec

-----------------------------------------------------------------------------
(***************************************************************************)
(* The critical sections are atomic: ServiceBreaker implements Breaker.    *)
(***************************************************************************)

LEMMA SameConstants ==
    /\ Atomic!LongAgo = LongAgo
    /\ \A a : Atomic!Older(a) = Older(a)
BY DEF Atomic!LongAgo, LongAgo, Atomic!Older, Older

\* Without a goroutine at its second step, the atomic breaker is the concrete
\* one; with one, it is what that step will leave.
LEMMA NowQuiet ==
    ASSUME \A p \in Procs : pc[p] # "second"
    PROVE  /\ OpenNow <=> circuitBreaker
           /\ CountNow = failureCount
           /\ AgeNow = age
BY DEF OpenNow, CountNow, AgeNow, Midway

LEMMA NowQuietAfter ==
    ASSUME \A p \in Procs : pc'[p] # "second"
    PROVE  /\ OpenNow' <=> circuitBreaker'
           /\ CountNow' = failureCount'
           /\ AgeNow' = age'
BY DEF OpenNow, CountNow, AgeNow, Midway

LEMMA NowMidway ==
    ASSUME NEW p \in Procs, pc[p] = "second",
           \A q \in Procs \ {p} : pc[q] # "second"
    PROVE  /\ OpenNow <=> circuitBreaker
                  \/ (job[p] = "fail" /\ failureCount >= FailureThreshold)
           /\ CountNow = IF job[p] = "close" THEN 0 ELSE failureCount
           /\ AgeNow = IF job[p] = "reset" /\ ~circuitBreaker THEN LongAgo ELSE age
BY DEF OpenNow, CountNow, AgeNow, Midway

LEMMA NowMidwayAfter ==
    ASSUME NEW p \in Procs, pc'[p] = "second",
           \A q \in Procs \ {p} : pc'[q] # "second"
    PROVE  /\ OpenNow' <=> circuitBreaker'
                  \/ (job'[p] = "fail" /\ failureCount' >= FailureThreshold)
           /\ CountNow' = IF job'[p] = "close" THEN 0 ELSE failureCount'
           /\ AgeNow' = IF job'[p] = "reset" /\ ~circuitBreaker'
                        THEN LongAgo ELSE age'
BY DEF OpenNow, CountNow, AgeNow, Midway, LongAgo

\* A step that leaves the breaker and the goroutines at their second step alone
\* is none of the atomic breaker.
LEMMA NowSame ==
    ASSUME circuitBreaker' = circuitBreaker, failureCount' = failureCount,
           age' = age,
           \A q \in Procs : pc'[q] = "second" <=> pc[q] = "second",
           \A q \in Procs : pc[q] = "second" => job'[q] = job[q]
    PROVE  UNCHANGED Atomic!vars
<1>1. \A j : Midway(j)' <=> Midway(j)
  BY DEF Midway
<1>2. OpenNow' = OpenNow
  BY <1>1 DEF OpenNow
<1>3. CountNow' = CountNow /\ AgeNow' = AgeNow
  BY <1>1 DEF CountNow, AgeNow, LongAgo
<1> QED  BY <1>2, <1>3 DEF Atomic!vars

LEMMA AtomicSteps ==
    BreakerInv /\ [Next]_vars => [Atomic!Next]_(Atomic!vars)
<1> SUFFICES ASSUME BreakerInv, [Next]_vars
             PROVE  [Atomic!Next]_(Atomic!vars)
  OBVIOUS
<1>0. /\ pc \in [Procs -> Places] /\ job \in [Procs -> Jobs] /\ OneWriter
      /\ Data /\ Flags
  BY TypeHalves DEF BreakerInv, Data
<1>1. ASSUME NEW p \in Procs, pc[p] \in Section
      PROVE  \A q \in Procs \ {p} : pc[q] \notin Section
  BY <1>0, <1>1, BreakerAssumption DEF OneWriter
<1>2. ASSUME NEW p \in Procs, NEW place \in Places,
             pc' \in {pc, [pc EXCEPT ![p] = place]},
             pc[p] # "second", place # "second",
             \A q \in Procs : q # p => job'[q] = job[q], UNCHANGED breaker
      PROVE  UNCHANGED Atomic!vars
  BY <1>0, <1>2, NowSame DEF breaker
<1>3. ASSUME NEW p \in Procs,
             Request(p) \/ TakeReadLock(p) \/ WakeReader(p) \/ Read(p) \/ Redis(p)
      PROVE  UNCHANGED Atomic!vars
  <2>1. PICK place \in Places \ {"second"} : Go(p, place)
    BY <1>3, PlacesOK DEF Request, TakeReadLock, RLock, WakeReader, Read, Redis
  <2>2. pc[p] # "second" /\ UNCHANGED breaker
        /\ \A q \in Procs : q # p => job'[q] = job[q]
    BY <1>0, <1>3 DEF Request, TakeReadLock, WakeReader, Read, Redis, At
  <2> QED  BY <1>2, <2>1, <2>2 DEF Go
<1>4. ASSUME NEW p \in Procs, EarlyRUnlock(p) \/ DeferredRUnlock(p)
      PROVE  UNCHANGED Atomic!vars
  <2>1. AfterCheck(p) \in Places \ {"second"} /\ "lock" \in Places
    BY PlacesOK DEF AfterCheck
  <2>2. PICK place \in Places \ {"second"} :
            pc' \in {pc, [pc EXCEPT ![p] = place]}
    BY <1>4, <2>1 DEF EarlyRUnlock, DeferredRUnlock, RUnlock, Go
  <2>3. pc[p] # "second" /\ UNCHANGED breaker
        /\ \A q \in Procs : q # p => job'[q] = job[q]
    BY <1>0, <1>4 DEF EarlyRUnlock, DeferredRUnlock, At
  <2> QED  BY <1>2, <2>2, <2>3
<1>5. ASSUME NEW p \in Procs, Lock(p) \/ WakeWriter(p) \/ Unlock(p)
      PROVE  UNCHANGED Atomic!vars
  <2>1. PICK place \in Places \ {"second"} : Go(p, place)
    BY <1>5, PlacesOK DEF Lock, WakeWriter, Unlock
  <2>2. pc[p] # "second" /\ UNCHANGED breaker
        /\ \A q \in Procs : q # p => job'[q] = job[q]
    BY <1>0, <1>5 DEF Lock, WakeWriter, Unlock, At
  <2> QED  BY <1>2, <2>1, <2>2 DEF Go
<1>6. ASSUME NEW p \in Procs, CloseBreaker(p) PROVE [Atomic!Next]_(Atomic!vars)
  <2>1. /\ pc[p] \in Section /\ job[p] = "close" /\ job' = job
        /\ \A q \in Procs \ {p} : pc[q] # "second" /\ pc'[q] = pc[q]
    BY <1>0, <1>1, <1>6 DEF CloseBreaker, At, Go, Section
  <2>2. CASE /\ pc[p] = "first" /\ circuitBreaker /\ Expired
             /\ circuitBreaker' = FALSE /\ pc'[p] = "second"
             /\ UNCHANGED <<failureCount, age>>
    <3>1. (OpenNow <=> circuitBreaker) /\ CountNow = failureCount /\ AgeNow = age
      BY <2>1, <2>2, NowQuiet
    <3>2. ~OpenNow' /\ CountNow' = 0 /\ AgeNow' = age'
      BY <2>1, <2>2, NowMidwayAfter
    <3>3. OpenNow' = FALSE
      BY <3>2
    <3>4. Atomic!Close
      BY <2>2, <3>1, <3>2, <3>3 DEF Atomic!Close, Atomic!Expired, Expired
    <3> QED  BY <3>4 DEF Atomic!Next
  <2>3. CASE /\ pc[p] = "first" /\ pc'[p] = "unlock" /\ UNCHANGED breaker
    BY <2>1, <2>3, NowSame DEF breaker
  <2>4. CASE /\ pc[p] = "second" /\ pc'[p] = "unlock" /\ failureCount' = 0
             /\ UNCHANGED <<circuitBreaker, age>>
    <3>1. (OpenNow <=> circuitBreaker) /\ CountNow = 0 /\ AgeNow = age
      BY <2>1, <2>4, NowMidway
    <3>2. (OpenNow' <=> circuitBreaker') /\ CountNow' = 0 /\ AgeNow' = age'
      BY <2>1, <2>4, NowQuietAfter
    <3>3. OpenNow' = OpenNow
      BY <2>4, <3>1, <3>2 DEF OpenNow
    <3> QED  BY <2>4, <3>1, <3>2, <3>3 DEF Atomic!vars
  <2> QED  BY <1>0, <1>6, <2>2, <2>3, <2>4 DEF CloseBreaker, At, Go
<1>7. ASSUME NEW p \in Procs, IncrementFailure(p)
      PROVE  [Atomic!Next]_(Atomic!vars)
  <2>1. /\ pc[p] \in Section /\ job[p] = "fail" /\ job' = job
        /\ \A q \in Procs \ {p} : pc[q] # "second" /\ pc'[q] = pc[q]
    BY <1>0, <1>1, <1>7 DEF IncrementFailure, At, Go, Section
  <2>2. CASE /\ pc[p] = "first" /\ pc'[p] = "second"
             /\ failureCount' = failureCount + 1 /\ age' = 0
             /\ UNCHANGED circuitBreaker
    <3>1. (OpenNow <=> circuitBreaker) /\ CountNow = failureCount /\ AgeNow = age
      BY <2>1, <2>2, NowQuiet
    <3>2. /\ OpenNow' <=> circuitBreaker' \/ failureCount' >= FailureThreshold
          /\ CountNow' = failureCount' /\ AgeNow' = age'
      BY <2>1, <2>2, NowMidwayAfter
    <3>3. OpenNow' <=> OpenNow \/ CountNow' >= FailureThreshold
      BY <2>2, <3>1, <3>2
    <3>4. OpenNow' = (OpenNow \/ CountNow' >= FailureThreshold)
      BY <3>3 DEF OpenNow
    <3>5. Atomic!Failure
      BY <2>2, <3>1, <3>2, <3>4 DEF Atomic!Failure
    <3> QED  BY <3>5 DEF Atomic!Next
  <2>3. CASE /\ pc[p] = "second" /\ pc'[p] = "unlock"
             /\ circuitBreaker' = (circuitBreaker \/ failureCount >= FailureThreshold)
             /\ UNCHANGED <<failureCount, age>>
    <3>1. /\ OpenNow <=> circuitBreaker \/ failureCount >= FailureThreshold
          /\ CountNow = failureCount /\ AgeNow = age
      BY <2>1, <2>3, NowMidway
    <3>2. (OpenNow' <=> circuitBreaker') /\ CountNow' = failureCount' /\ AgeNow' = age'
      BY <2>1, <2>3, NowQuietAfter
    <3>3. OpenNow' <=> OpenNow
      BY <2>3, <3>1, <3>2
    <3>4. OpenNow' = OpenNow
      BY <3>3 DEF OpenNow
    <3> QED  BY <2>3, <3>1, <3>2, <3>4 DEF Atomic!vars
  <2> QED  BY <1>0, <1>7, <2>2, <2>3 DEF IncrementFailure, At, Go
<1>8. ASSUME NEW p \in Procs, ResetFailure(p)
      PROVE  [Atomic!Next]_(Atomic!vars)
  <2>1. /\ pc[p] \in Section /\ job[p] = "reset" /\ job' = job
        /\ \A q \in Procs \ {p} : pc[q] # "second" /\ pc'[q] = pc[q]
    BY <1>0, <1>1, <1>8 DEF ResetFailure, At, Go, Section
  <2>2. CASE /\ pc[p] = "first" /\ pc'[p] = "second" /\ failureCount' = 0
             /\ UNCHANGED <<circuitBreaker, age>>
    <3>1. (OpenNow <=> circuitBreaker) /\ CountNow = failureCount /\ AgeNow = age
      BY <2>1, <2>2, NowQuiet
    <3>2. /\ (OpenNow' <=> circuitBreaker') /\ CountNow' = 0
          /\ AgeNow' = IF circuitBreaker' THEN age' ELSE LongAgo
      BY <2>1, <2>2, NowMidwayAfter
    <3>3. OpenNow' <=> OpenNow
      BY <2>2, <3>1, <3>2
    <3>4. OpenNow' = OpenNow
      BY <3>3 DEF OpenNow
    <3>5. AgeNow' = IF OpenNow THEN AgeNow ELSE LongAgo
      BY <2>2, <3>1, <3>2
    <3>6. Atomic!Success
      BY <3>2, <3>4, <3>5, SameConstants DEF Atomic!Success
    <3> QED  BY <3>6 DEF Atomic!Next
  <2>3. CASE /\ pc[p] = "second" /\ pc'[p] = "unlock"
             /\ age' = (IF circuitBreaker THEN age ELSE LongAgo)
             /\ UNCHANGED <<circuitBreaker, failureCount>>
    <3>1. /\ (OpenNow <=> circuitBreaker) /\ CountNow = failureCount
          /\ AgeNow = IF circuitBreaker THEN age ELSE LongAgo
      BY <2>1, <2>3, NowMidway
    <3>2. (OpenNow' <=> circuitBreaker') /\ CountNow' = failureCount' /\ AgeNow' = age'
      BY <2>1, <2>3, NowQuietAfter
    <3>3. OpenNow' <=> OpenNow
      BY <2>3, <3>1, <3>2
    <3>4. OpenNow' = OpenNow
      BY <3>3 DEF OpenNow
    <3> QED  BY <2>3, <3>1, <3>2, <3>4 DEF Atomic!vars
  <2> QED  BY <1>0, <1>8, <2>2, <2>3 DEF ResetFailure, At, Go
<1>9. CASE Tick
  <2>1. /\ age' = Older(age) /\ pc' = pc /\ job' = job
        /\ UNCHANGED <<circuitBreaker, failureCount>>
    BY <1>9 DEF Tick
  <2>2. \A j : Midway(j)' <=> Midway(j)
    BY <2>1 DEF Midway
  <2>3. OpenNow' = OpenNow /\ CountNow' = CountNow
    BY <2>1, <2>2 DEF OpenNow, CountNow
  <2>4. AgeNow' = Older(AgeNow)
    BY <2>1, <2>2 DEF AgeNow, Older, LongAgo
  <2> QED  BY <2>3, <2>4, SameConstants DEF Atomic!Next, Atomic!Tick
<1>10. CASE Restart
  <2>1. \A q \in Procs : pc'[q] # "second"
    BY <1>10 DEF Restart
  <2>2. circuitBreaker' = FALSE /\ failureCount' = 0 /\ age' = LongAgo
    BY <1>10 DEF Restart
  <2>3. OpenNow' = FALSE /\ CountNow' = 0 /\ AgeNow' = LongAgo
    BY <2>1, <2>2, NowQuietAfter DEF OpenNow
  <2> QED  BY <2>3, SameConstants DEF Atomic!Next, Atomic!Restart
<1>11. CASE UNCHANGED vars
  BY <1>11, NowSame DEF vars, breaker
<1> QED  BY <1>3, <1>4, <1>5, <1>6, <1>7, <1>8, <1>9, <1>10, <1>11 DEF Next, Step

\* Reports, resets and the passing of time take effect as in Breaker, one at a
\* time, for every number of goroutines and whatever becomes of the lock.
THEOREM Implements == Spec => Atomicity
<1>1. Init => Atomic!Init
  <2> SUFFICES ASSUME Init PROVE Atomic!Init
    OBVIOUS
  <2>1. \A q \in Procs : pc[q] # "second"
    BY DEF Init
  <2> QED  BY <2>1, NowQuiet, SameConstants DEF Init, Atomic!Init
<1> QED  BY <1>1, AtomicSteps, BreakerInvariant, PTL
            DEF Spec, Atomicity, Atomic!Spec
=============================================================================
