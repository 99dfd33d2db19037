------------------------------- MODULE Health -------------------------------
(***************************************************************************)
(* internal/health/health.go: one HealthChecker, used by many goroutines.  *)
(* Check and Readiness ping Redis and then run every registered checker    *)
(* while they hold the read lock; RegisterServiceChecker takes the write   *)
(* lock.  Check gives the read lock back at its end, Readiness by a defer: *)
(* a checker that panics leaves Check with the lock still held.            *)
(*                                                                         *)
(* sync.RWMutex is external and modelled as documented: a writer that is   *)
(* waiting holds off new readers, and when it is done those that came      *)
(* meanwhile go first.  Whoever called Check recovers from a panic, as     *)
(* gin and net/http do, and a checker does not call the HealthChecker.     *)
(***************************************************************************)
EXTENDS Integers, FiniteSets

CONSTANTS
    Threads,       \* the goroutines
    Names,         \* the names under which checkers are registered
    Checkers,      \* the checkers
    Default,       \* those that DefaultServiceHealthCheck has made
    Inquiries,     \* Inquiries[p]: which of `check' and `readiness' p calls
    Registrations, \* Registrations[p]: what p registers, name and checker
    NoChecker,     \* nothing is registered under a name
    NoThread,      \* nobody wants to write
    MaxPanics      \* bound: how many checkers panic

ASSUME HealthAssumption ==
    /\ IsFiniteSet(Threads)
    /\ Inquiries \in [Threads -> SUBSET {"check", "readiness"}]
    /\ Registrations \in [Threads -> SUBSET (Names \X Checkers)]
    /\ Default \subseteq Checkers
    /\ NoChecker \notin Checkers
    /\ NoThread \notin Threads
    /\ MaxPanics \in Nat

VARIABLES
    checkers,   \* serviceCheckers
    readers,    \* how many read locks are held
    writer,     \* who holds the write lock, or is waiting for the readers to end
    call,       \* call[p]: the call that p is in
    lost,       \* history: the read locks that nobody will give back
    panics      \* how many checkers have panicked

vars == <<checkers, readers, writer, call, lost, panics>>

\* `degraded' stands for every status that is neither of the others.
Statuses == {"healthy", "degraded", "unhealthy"}

Idle == [op |-> "none"]

\* A call of Check or Readiness: todo are the names of the loop still to come,
\* status is Check's, and report what the checkers have said.
Inquiry == [op : {"check", "readiness"}, at : {"ping", "rlock", "queued", "loop"},
            redis : BOOLEAN, status : Statuses, todo : SUBSET Names,
            report : [Names -> [by : Checkers \cup {NoChecker}, status : Statuses]]]
Registration == [op : {"register"}, at : {"lock"}, name : Names, checker : Checkers]

\* A name that no checker of this call has been asked about.
Unreported == [by |-> NoChecker, status |-> "healthy"]

TypeOK ==
    /\ checkers \in [Names -> Checkers \cup {NoChecker}]
    /\ readers \in Nat
    /\ writer \in Threads \cup {NoThread}
    /\ call \in [Threads -> Inquiry \cup Registration \cup {Idle}]
    /\ lost \in Nat
    /\ panics \in 0 .. MaxPanics

Init ==
    /\ checkers = [n \in Names |-> NoChecker]
    /\ readers = 0
    /\ writer = NoThread
    /\ call = [p \in Threads |-> Idle]
    /\ lost = 0
    /\ panics = 0

Busy(p) == call[p] # Idle
At(p, op, place) == call[p].op = op /\ call[p].at = place
Inquires(p, place) == \E op \in {"check", "readiness"} : At(p, op, place)
Those(place) == {p \in Threads : Inquires(p, place)}

\* The names that a loop which begins now goes through.
Registered == {n \in Names : checkers[n] # NoChecker}

Return(p) == call' = [call EXCEPT ![p] = Idle]

-----------------------------------------------------------------------------
(***************************************************************************)
(* RegisterServiceChecker.                                                 *)
(***************************************************************************)

Register(p) ==
    /\ ~Busy(p)
    /\ \E r \in Registrations[p] :
          call' = [call EXCEPT ![p] =
              [op |-> "register", at |-> "lock", name |-> r[1], checker |-> r[2]]]
    /\ UNCHANGED <<checkers, readers, writer, lost, panics>>

\* Lock, as one of the writers.
Announce(p) ==
    /\ At(p, "register", "lock")
    /\ writer = NoThread
    /\ writer' = p
    /\ UNCHANGED <<checkers, readers, call, lost, panics>>

\* Mutant of Write: the map is written without the lock.
WriteUnlocked(p) ==
    /\ At(p, "register", "lock")
    /\ writer # p
    /\ checkers' = [checkers EXCEPT ![call[p].name] = call[p].checker]
    /\ Return(p)
    /\ UNCHANGED <<readers, writer, lost, panics>>

\* The readers have ended: the map is written, and Unlock lets those in that have
\* queued up meanwhile.
Write(p) ==
    /\ writer = p
    /\ readers = 0
    /\ checkers' = [checkers EXCEPT ![call[p].name] = call[p].checker]
    /\ writer' = NoThread
    /\ readers' = Cardinality(Those("queued"))
    /\ call' = [q \in Threads |->
           IF q = p THEN Idle
           ELSE IF Inquires(q, "queued")
                THEN [call[q] EXCEPT !.at = "loop", !.todo = Registered']
                ELSE call[q]]
    /\ UNCHANGED <<lost, panics>>

-----------------------------------------------------------------------------
(***************************************************************************)
(* Check and Readiness.                                                    *)
(***************************************************************************)

Inquire(p) ==
    /\ ~Busy(p)
    /\ \E op \in Inquiries[p] :
          call' = [call EXCEPT ![p] =
              [op |-> op, at |-> "ping", redis |-> FALSE, status |-> "healthy",
               todo |-> {}, report |-> [n \in Names |-> Unreported]]]
    /\ UNCHANGED <<checkers, readers, writer, lost, panics>>

\* Redis answers the ping within a second, or not.  Check goes on in any case.
Ping(p) ==
    /\ Inquires(p, "ping")
    /\ \E redis \in BOOLEAN :
          IF redis \/ call[p].op = "check"
          THEN call' = [call EXCEPT ![p].at = "rlock", ![p].redis = redis,
                   ![p].status = IF redis THEN "healthy" ELSE "degraded"]
          ELSE Return(p)
    /\ UNCHANGED <<checkers, readers, writer, lost, panics>>

\* RLock: at once, or after the writer.
RLock(p) ==
    /\ Inquires(p, "rlock")
    /\ IF writer = NoThread
       THEN /\ readers' = readers + 1
            /\ call' = [call EXCEPT ![p].at = "loop", ![p].todo = Registered]
       ELSE /\ UNCHANGED readers
            /\ call' = [call EXCEPT ![p].at = "queued"]
    /\ UNCHANGED <<checkers, writer, lost, panics>>

\* What checker c may find.
Findings(c) == IF c \in Default THEN {"healthy", "unhealthy"} ELSE Statuses

\* Mutant of Worse: a later checker makes it better.
Last(status, found) ==
    IF found = "healthy" THEN status ELSE found

\* The status after a checker has found this.
Worse(status, found) ==
    CASE found = "healthy" \/ status = "unhealthy" -> status
      [] OTHER -> found

\* The next checker, in the random order of Go's maps, returns.
RunChecker(p) ==
    /\ Inquires(p, "loop")
    /\ \E n \in call[p].todo : \E found \in Findings(checkers[n]) :
          LET c == [call[p] EXCEPT
                  !.todo = @ \ {n},
                  !.report[n] = [by |-> checkers[n], status |-> found]]
          IN  \/ /\ c.op = "check"
                 /\ call' = [call EXCEPT ![p] = [c EXCEPT !.status = Worse(@, found)]]
              \/ /\ c.op = "readiness" /\ found # "unhealthy"
                 /\ call' = [call EXCEPT ![p] = c]
    /\ UNCHANGED <<checkers, readers, writer, lost, panics>>

\* Mutant of NotReady: the way out of the loop leaves the lock held.
NotReadyHolding(p) ==
    /\ At(p, "readiness", "loop")
    /\ call[p].todo # {}
    /\ Return(p)
    /\ UNCHANGED <<checkers, readers, writer, lost, panics>>

\* Readiness is over at the first checker that finds its service unhealthy.
NotReady(p) ==
    /\ At(p, "readiness", "loop")
    /\ call[p].todo # {}
    /\ readers' = readers - 1
    /\ Return(p)
    /\ UNCHANGED <<checkers, writer, lost, panics>>

\* The loop is over.
RUnlock(p) ==
    /\ Inquires(p, "loop")
    /\ call[p].todo = {}
    /\ readers' = readers - 1
    /\ Return(p)
    /\ UNCHANGED <<checkers, writer, lost, panics>>

\* A checker panics: Readiness gives the lock back on its way, Check does not.
Panic(p) ==
    /\ Inquires(p, "loop")
    /\ call[p].todo # {}
    /\ panics < MaxPanics
    /\ panics' = panics + 1
    /\ \/ call[p].op = "check" /\ lost' = lost + 1 /\ UNCHANGED readers
       \/ call[p].op = "readiness" /\ readers' = readers - 1 /\ UNCHANGED lost
    /\ Return(p)
    /\ UNCHANGED <<checkers, writer>>

\* What the goroutine does once it is in a call.
Step(p) ==
    \/ Announce(p) \/ Write(p)
    \/ Ping(p) \/ RLock(p) \/ RunChecker(p) \/ NotReady(p) \/ RUnlock(p)

Next == \E p \in Threads :
    \/ Register(p) \/ Inquire(p)
    \/ Step(p)
    \/ Panic(p)

\* Goroutines run, pings have a deadline, and checkers return.  The lock that
\* orders the writers is handed on to the one that has waited longest.
Fairness == \A p \in Threads : WF_vars(Step(p)) /\ SF_vars(Announce(p))

Spec == Init /\ [][Next]_vars /\ Fairness

-----------------------------------------------------------------------------
(***************************************************************************)
(* Properties.                                                             *)
(***************************************************************************)

\* Every read lock is held by a call that is in its loop, or was lost with a
\* Check whose checker panicked; a goroutine queues only behind a writer.
HealthInv ==
    /\ TypeOK
    /\ readers = Cardinality(Those("loop")) + lost
    /\ lost <= panics
    /\ \A p \in Threads : Inquires(p, "queued") => writer # NoThread
    /\ writer # NoThread => At(writer, "register", "lock")

\* What this call has heard from checkers.
Heard(p) == {call[p].report[n].status :
             n \in {m \in Names : call[p].report[m].by # NoChecker}}

\* Check's status does not depend on the order in which the checkers run: it is
\* `unhealthy' exactly when one of them says so, and `healthy' exactly when all
\* of them and Redis do.  A Redis that does not answer only degrades it.
WorstOfAll == \A p \in Threads : At(p, "check", "loop") =>
    /\ call[p].status = "unhealthy" <=> "unhealthy" \in Heard(p)
    /\ call[p].status = "healthy" <=> call[p].redis /\ Heard(p) \subseteq {"healthy"}

\* A loop that comes to its end, with Check's status or a Readiness that says
\* ready, has asked the checkers that are registered at that moment, each under its
\* name and none but these, however registrations come in between; ready means that
\* Redis answered and none of them was unhealthy.
AsksTheRegistered ==
    [][\A p \in Threads : RUnlock(p) =>
          /\ \A n \in Names : checkers[n] = call[p].report[n].by
          /\ call[p].op = "readiness" =>
                call[p].redis /\ "unhealthy" \notin Heard(p)]_vars

\* Every call returns, registrations between inquiries included, unless a Check
\* has lost its read lock and a registration then waits for it.
CallsReturn == \A p \in Threads :
    Busy(p) ~> ~Busy(p) \/ (lost > 0 /\ writer # NoThread)
=============================================================================
