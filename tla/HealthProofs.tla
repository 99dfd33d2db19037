---------------------------- MODULE HealthProofs ----------------------------
(***************************************************************************)
(* What Health promises of its lock, its status and its reports, for any   *)
(* number of goroutines, any names and any checkers.  Every report names   *)
(* the checker it comes from, so a report can be held against the map.     *)
(***************************************************************************)
EXTENDS Health, FiniteSetTheorems, TLAPS

USE HealthAssumption

-----------------------------------------------------------------------------
(***************************************************************************)
(* The read locks.                                                         *)
(***************************************************************************)

LEMMA Counted ==
    ASSUME NEW place
    PROVE  IsFiniteSet(Those(place)) /\ Cardinality(Those(place)) \in Nat
BY FS_Subset, FS_CardinalityType DEF Those

\* A goroutine that stays out of the loop or in it holds what it held.
LEMMA SameHolders ==
    ASSUME \A q \in Threads : Inquires(q, "loop")' <=> Inquires(q, "loop")
    PROVE  Those("loop")' = Those("loop")
BY DEF Those

LEMMA Enters ==
    ASSUME NEW p \in Threads, ~Inquires(p, "loop"), Inquires(p, "loop")',
           \A q \in Threads \ {p} : Inquires(q, "loop")' <=> Inquires(q, "loop")
    PROVE  Cardinality(Those("loop"))' = Cardinality(Those("loop")) + 1
<1>1. Those("loop")' = Those("loop") \cup {p} /\ p \notin Those("loop")
  BY DEF Those
<1> QED  BY <1>1, Counted, FS_AddElement

LEMMA Leaves ==
    ASSUME NEW p \in Threads, Inquires(p, "loop"), ~Inquires(p, "loop")',
           \A q \in Threads \ {p} : Inquires(q, "loop")' <=> Inquires(q, "loop")
    PROVE  /\ Cardinality(Those("loop"))' = Cardinality(Those("loop")) - 1
           /\ Cardinality(Those("loop")) > 0
<1>1. Those("loop")' = Those("loop") \ {p} /\ p \in Those("loop")
  BY DEF Those
<1>2. Cardinality(Those("loop"))' = Cardinality(Those("loop")) - 1
  BY <1>1, Counted, FS_RemoveElement
<1>3. Cardinality(Those("loop")) # 0 /\ Cardinality(Those("loop")) \in Nat
  BY <1>1, Counted, FS_EmptySet
<1> QED  BY <1>2, <1>3

\* Where no read lock is held nobody is in the loop, and none was lost.
LEMMA NobodyInside ==
    ASSUME HealthInv, readers = 0
    PROVE  lost = 0 /\ \A q \in Threads : ~Inquires(q, "loop")
<1>1. Cardinality(Those("loop")) = 0 /\ lost = 0
  BY Counted DEF HealthInv, TypeOK
<1>2. Those("loop") = {}
  BY <1>1, Counted, FS_EmptySet
<1> QED  BY <1>1, <1>2 DEF Those

\* What the types say of a call.
LEMMA CallTypes ==
    ASSUME TypeOK, NEW p \in Threads
    PROVE  /\ \A place : Inquires(p, place) => call[p] \in Inquiry
           /\ \A place : At(p, "register", place) => call[p] \in Registration
           /\ Busy(p) <=> call[p] \in Inquiry \cup Registration
           /\ ~Busy(p) => \A op \in {"check", "readiness", "register"} :
                             \A place : ~At(p, op, place)
BY DEF TypeOK, Inquires, At, Busy, Idle, Inquiry, Registration

-----------------------------------------------------------------------------
(***************************************************************************)
(* HealthInv is inductive.                                                 *)
(***************************************************************************)

LEMMA HealthInit == Init => HealthInv
<1> SUFFICES ASSUME Init PROVE HealthInv
  OBVIOUS
<1>1. TypeOK
  BY DEF Init, TypeOK
<1>2. \A p \in Threads : \A place : ~Inquires(p, place)
  BY DEF Init, Inquires, At, Idle
<1>3. Those("loop") = {}
  BY <1>2 DEF Those
<1>4. Cardinality(Those("loop")) = 0
  BY <1>3, FS_EmptySet
<1> QED  BY <1>1, <1>2, <1>4 DEF Init, HealthInv

\* A step that takes and gives back no read lock.
LEMMA KeepsLocks ==
    ASSUME HealthInv, TypeOK', UNCHANGED <<readers, lost>>, panics' = panics,
           \A q \in Threads : Inquires(q, "loop")' <=> Inquires(q, "loop"),
           \A q \in Threads : Inquires(q, "queued")' => writer' # NoThread,
           writer' # NoThread => At(writer, "register", "lock")'
    PROVE  HealthInv'
<1>1. Cardinality(Those("loop"))' = Cardinality(Those("loop"))
  BY SameHolders
<1> QED  BY <1>1 DEF HealthInv

\* The call of p changes, and no other.
Only(p) == \A q \in Threads \ {p} : call'[q] = call[q]

LEMMA OthersStay ==
    ASSUME NEW p \in Threads, Only(p), NEW q \in Threads \ {p}, NEW place
    PROVE  /\ Inquires(q, place)' <=> Inquires(q, place)
           /\ \A op : At(q, op, place)' <=> At(q, op, place)
BY DEF Only, Inquires, At

LEMMA RegisterKeeps ==
    ASSUME HealthInv, NEW p \in Threads, Register(p)
    PROVE  HealthInv'
<1>1. TypeOK /\ ~Busy(p)
  BY DEF HealthInv, Register
<1>2. PICK r \in Registrations[p] : call' = [call EXCEPT ![p] =
         [op |-> "register", at |-> "lock", name |-> r[1], checker |-> r[2]]]
  BY DEF Register
<1>3. r[1] \in Names /\ r[2] \in Checkers
  OBVIOUS
<1>4. call'[p] \in Registration /\ Only(p)
  BY <1>1, <1>2, <1>3 DEF TypeOK, Registration, Only
<1>5. TypeOK'
  BY <1>1, <1>2, <1>4 DEF TypeOK, Register, Only
<1>6. \A place : ~Inquires(p, place) /\ ~Inquires(p, place)' /\ ~At(p, "register", place)
  BY <1>1, <1>4, CallTypes DEF Inquires, At, Registration
<1> QED  BY <1>4, <1>5, <1>6, OthersStay, KeepsLocks DEF HealthInv, Register, TypeOK

LEMMA AnnounceKeeps ==
    ASSUME HealthInv, NEW p \in Threads, Announce(p)
    PROVE  HealthInv'
<1>1. TypeOK'
  BY DEF HealthInv, TypeOK, Announce
<1>2. \A q \in Threads : \A op, place :
                           /\ Inquires(q, place)' <=> Inquires(q, place)
                           /\ At(q, op, place)' <=> At(q, op, place)
  BY DEF Announce, Inquires, At
<1> QED  BY <1>1, <1>2, KeepsLocks DEF HealthInv, Announce

LEMMA WriteKeeps ==
    ASSUME HealthInv, NEW p \in Threads, Write(p)
    PROVE  HealthInv'
<1>1. TypeOK /\ At(p, "register", "lock") /\ call[p] \in Registration
  BY CallTypes DEF HealthInv, Write
<1>2. lost = 0 /\ \A q \in Threads : ~Inquires(q, "loop")
  BY NobodyInside DEF Write
<1>3. checkers' \in [Names -> Checkers \cup {NoChecker}]
  BY <1>1 DEF TypeOK, Write, Registration
<1>4. ASSUME NEW q \in Threads
      PROVE  /\ call'[q] \in Inquiry \cup Registration \cup {Idle}
             /\ Inquires(q, "queued") <=> Inquires(q, "loop")'
             /\ ~Inquires(q, "queued")'
  <2>1. CASE q = p
    BY <1>1, <2>1 DEF Write, Inquires, At, Idle, Registration
  <2>2. CASE q # p /\ Inquires(q, "queued")
    <3>1. call'[q] = [call[q] EXCEPT !.at = "loop", !.todo = Registered']
      BY <2>2 DEF Write
    <3>2. call[q] \in Inquiry /\ Registered' \in SUBSET Names
      BY <1>1, <2>2, CallTypes DEF Registered
    <3> QED  BY <2>2, <3>1, <3>2 DEF Inquiry, Inquires, At
  <2>3. CASE q # p /\ ~Inquires(q, "queued")
    <3>1. call'[q] = call[q]
      BY <2>3 DEF Write
    <3> QED  BY <1>1, <1>2, <2>3, <3>1 DEF TypeOK, Inquires, At
  <2> QED  BY <2>1, <2>2, <2>3
<1>5. call' \in [Threads -> Inquiry \cup Registration \cup {Idle}]
  BY <1>4 DEF Write
<1>6. Those("loop")' = Those("queued")
  BY <1>4 DEF Those
<1>7. readers' = Cardinality(Those("loop"))' /\ readers' \in Nat
  BY <1>6, Counted DEF Write
<1>8. TypeOK'
  BY <1>1, <1>3, <1>5, <1>7 DEF TypeOK, Write
<1>9. readers' = Cardinality(Those("loop"))' + lost' /\ lost' <= panics'
  <2>1. lost' = 0 /\ panics' = panics
    BY <1>2 DEF Write
  <2>2. panics \in Nat
    BY <1>1 DEF TypeOK
  <2> QED  BY <1>7, <2>1, <2>2
<1>10. writer' = NoThread
  BY DEF Write
<1> QED  BY <1>4, <1>8, <1>9, <1>10 DEF HealthInv

LEMMA InquireKeeps ==
    ASSUME HealthInv, NEW p \in Threads, Inquire(p)
    PROVE  HealthInv'
<1>1. TypeOK /\ ~Busy(p)
  BY DEF HealthInv, Inquire
<1>2. PICK op \in Inquiries[p] : call' = [call EXCEPT ![p] =
         [op |-> op, at |-> "ping", redis |-> FALSE, status |-> "healthy",
          todo |-> {}, report |-> [n \in Names |-> Unreported]]]
  BY DEF Inquire
<1>3. op \in {"check", "readiness"}
  OBVIOUS
<1>4. call'[p] \in Inquiry /\ call'[p].at = "ping" /\ Only(p)
  BY <1>1, <1>2, <1>3 DEF TypeOK, Inquiry, Statuses, Unreported, Only
<1>5. TypeOK'
  BY <1>1, <1>2, <1>4 DEF TypeOK, Inquire, Only
<1>6. /\ ~Inquires(p, "loop") /\ ~Inquires(p, "loop")' /\ ~Inquires(p, "queued")'
      /\ ~At(p, "register", "lock")
  BY <1>1, <1>4, CallTypes DEF Inquires, At
<1> QED  BY <1>4, <1>5, <1>6, OthersStay, KeepsLocks DEF HealthInv, Inquire, TypeOK

LEMMA PingKeeps ==
    ASSUME HealthInv, NEW p \in Threads, Ping(p)
    PROVE  HealthInv'
<1>1. TypeOK /\ call[p] \in Inquiry /\ call[p].at = "ping"
  BY CallTypes DEF HealthInv, Ping, Inquires, At
<1>2. /\ (call'[p] \in Inquiry /\ call'[p].at = "rlock") \/ call'[p] = Idle
      /\ Only(p) /\ call' \in [Threads -> Inquiry \cup Registration \cup {Idle}]
  <2>1. PICK redis \in BOOLEAN : call' = [call EXCEPT ![p] =
           IF redis \/ call[p].op = "check"
           THEN [call[p] EXCEPT !.at = "rlock", !.redis = redis,
                     !.status = IF redis THEN "healthy" ELSE "degraded"]
           ELSE Idle]
    BY <1>1 DEF Ping, Return, TypeOK
  <2>2. [call[p] EXCEPT !.at = "rlock", !.redis = redis,
             !.status = IF redis THEN "healthy" ELSE "degraded"] \in Inquiry
    BY <1>1 DEF Inquiry, Statuses
  <2> QED  BY <1>1, <2>1, <2>2 DEF TypeOK, Only, Inquiry
<1>3. TypeOK'
  BY <1>1, <1>2 DEF TypeOK, Ping
<1>4. /\ ~Inquires(p, "loop") /\ ~Inquires(p, "loop")' /\ ~Inquires(p, "queued")'
      /\ ~At(p, "register", "lock")
  BY <1>1, <1>2 DEF Inquires, At, Idle, Inquiry
<1> QED  BY <1>2, <1>3, <1>4, OthersStay, KeepsLocks DEF HealthInv, Ping, TypeOK

LEMMA RLockKeeps ==
    ASSUME HealthInv, NEW p \in Threads, RLock(p)
    PROVE  HealthInv'
<1>1. TypeOK /\ call[p] \in Inquiry /\ call[p].at = "rlock"
  BY CallTypes DEF HealthInv, RLock, Inquires, At
<1>2. ~Inquires(p, "loop") /\ ~At(p, "register", "lock")
  BY <1>1 DEF Inquires, At, Inquiry
<1>3. CASE writer = NoThread
  <2>1. call' = [call EXCEPT ![p] = [call[p] EXCEPT !.at = "loop", !.todo = Registered]]
    BY <1>1, <1>3 DEF RLock, TypeOK
  <2>2. [call[p] EXCEPT !.at = "loop", !.todo = Registered] \in Inquiry
    BY <1>1 DEF Inquiry, Registered
  <2>3. call'[p] \in Inquiry /\ call'[p].at = "loop" /\ Only(p)
    BY <1>1, <2>1, <2>2 DEF TypeOK, Only, Inquiry
  <2>4. TypeOK'
    BY <1>1, <1>3, <2>1, <2>2 DEF TypeOK, RLock
  <2>5. Inquires(p, "loop")' /\ ~Inquires(p, "queued")'
    BY <2>3 DEF Inquires, At, Inquiry
  <2>6. Cardinality(Those("loop"))' = Cardinality(Those("loop")) + 1
    BY <1>2, <2>3, <2>5, OthersStay, Enters
  <2>7. readers' = Cardinality(Those("loop"))' + lost'
    BY <1>1, <1>3, <2>6, Counted DEF HealthInv, RLock, TypeOK
  <2> QED  BY <1>3, <2>3, <2>4, <2>5, <2>7, OthersStay DEF HealthInv, RLock, TypeOK
<1>4. CASE writer # NoThread
  <2>1. call' = [call EXCEPT ![p] = [call[p] EXCEPT !.at = "queued"]]
    BY <1>1, <1>4 DEF RLock, TypeOK
  <2>2. [call[p] EXCEPT !.at = "queued"] \in Inquiry
    BY <1>1 DEF Inquiry
  <2>3. call'[p] \in Inquiry /\ call'[p].at = "queued" /\ Only(p)
    BY <1>1, <2>1, <2>2 DEF TypeOK, Only, Inquiry
  <2>4. TypeOK'
    BY <1>1, <1>4, <2>1, <2>2 DEF TypeOK, RLock
  <2>5. ~Inquires(p, "loop")'
    BY <2>3 DEF Inquires, At
  <2> QED  BY <1>2, <1>4, <2>3, <2>4, <2>5, OthersStay, KeepsLocks
           DEF HealthInv, RLock, TypeOK
<1> QED  BY <1>3, <1>4

\* What RunChecker does to the call of p.
LEMMA Runs ==
    ASSUME TypeOK, NEW p \in Threads, RunChecker(p)
    PROVE  /\ call[p] \in Inquiry /\ call[p].at = "loop" /\ Only(p)
           /\ call'[p] \in Inquiry /\ call'[p].at = "loop"
           /\ call'[p].op = call[p].op /\ call'[p].redis = call[p].redis
           /\ \E n \in Names, found \in Statuses :
                 /\ n \in call[p].todo
                 /\ call[p].op = "readiness" => found # "unhealthy"
                 /\ call'[p].todo = call[p].todo \ {n}
                 /\ call'[p].report = [call[p].report EXCEPT
                       ![n] = [by |-> checkers[n], status |-> found]]
                 /\ call[p].op = "check" =>
                       call'[p].status = Worse(call[p].status, found)
<1>1. call[p] \in Inquiry /\ call[p].at = "loop"
  BY CallTypes DEF RunChecker, Inquires, At
<1>2. PICK n \in call[p].todo : \E found \in Findings(checkers[n]) :
         LET c == [call[p] EXCEPT
                 !.todo = @ \ {n},
                 !.report[n] = [by |-> checkers[n], status |-> found]]
         IN  \/ /\ c.op = "check"
                /\ call' = [call EXCEPT ![p] = [c EXCEPT !.status = Worse(@, found)]]
             \/ /\ c.op = "readiness" /\ found # "unhealthy"
                /\ call' = [call EXCEPT ![p] = c]
  BY DEF RunChecker
<1>3. PICK found \in Findings(checkers[n]) :
         LET c == [call[p] EXCEPT
                 !.todo = @ \ {n},
                 !.report[n] = [by |-> checkers[n], status |-> found]]
         IN  \/ /\ c.op = "check"
                /\ call' = [call EXCEPT ![p] = [c EXCEPT !.status = Worse(@, found)]]
             \/ /\ c.op = "readiness" /\ found # "unhealthy"
                /\ call' = [call EXCEPT ![p] = c]
  BY <1>2
<1> DEFINE told == [by |-> checkers[n], status |-> found]
           report == [call[p].report EXCEPT ![n] = told]
           c == [call[p] EXCEPT !.todo = call[p].todo \ {n}, !.report = report]
<1>4. found \in Statuses /\ n \in Names /\ checkers[n] \in Checkers \cup {NoChecker}
  BY <1>1 DEF Findings, Statuses, Inquiry, TypeOK
<1>5. report \in [Names -> [by : Checkers \cup {NoChecker}, status : Statuses]]
  BY <1>1, <1>4 DEF Inquiry
<1>6. \/ /\ call[p].op = "check"
         /\ call' = [call EXCEPT ![p] = [c EXCEPT !.status = Worse(call[p].status, found)]]
      \/ /\ call[p].op = "readiness" /\ found # "unhealthy"
         /\ call' = [call EXCEPT ![p] = c]
  BY <1>1, <1>3 DEF Inquiry
<1> HIDE DEF report
<1>7. /\ c \in Inquiry /\ c.at = "loop" /\ c.op = call[p].op /\ c.redis = call[p].redis
      /\ c.todo = call[p].todo \ {n} /\ c.report = report /\ c.status = call[p].status
  BY <1>1, <1>5 DEF Inquiry
<1>8. Worse(call[p].status, found) \in Statuses
  BY <1>1, <1>4 DEF Worse, Inquiry
<1> HIDE DEF c
<1>9. CASE /\ call[p].op = "check"
           /\ call' = [call EXCEPT ![p] = [c EXCEPT !.status = Worse(call[p].status, found)]]
  <2>1. Only(p) /\ call'[p] = [c EXCEPT !.status = Worse(call[p].status, found)]
    BY <1>9 DEF Only, TypeOK
  <2>2. /\ call'[p] \in Inquiry /\ call'[p].at = "loop" /\ call'[p].op = c.op
        /\ call'[p].redis = c.redis /\ call'[p].todo = c.todo
        /\ call'[p].report = c.report
        /\ call'[p].status = Worse(call[p].status, found)
    BY <1>7, <1>8, <2>1 DEF Inquiry
  <2> QED  BY <1>1, <1>4, <1>7, <1>9, <2>1, <2>2 DEF report
<1>10. CASE /\ call[p].op = "readiness" /\ found # "unhealthy"
            /\ call' = [call EXCEPT ![p] = c]
  <2>1. Only(p) /\ call'[p] = c
    BY <1>10 DEF Only, TypeOK
  <2> QED  BY <1>1, <1>4, <1>7, <1>10, <2>1 DEF report
<1> QED  BY <1>6, <1>9, <1>10

LEMMA RunCheckerKeeps ==
    ASSUME HealthInv, NEW p \in Threads, RunChecker(p)
    PROVE  HealthInv'
<1>1. /\ TypeOK /\ call[p] \in Inquiry /\ call[p].at = "loop" /\ Only(p)
      /\ call'[p] \in Inquiry /\ call'[p].at = "loop"
  BY Runs DEF HealthInv
<1>2. call' \in [Threads -> Inquiry \cup Registration \cup {Idle}]
  <2>1. PICK c : call' = [call EXCEPT ![p] = c]
    BY <1>1 DEF RunChecker
  <2> QED  BY <1>1, <2>1 DEF TypeOK
<1>3. TypeOK'
  BY <1>1, <1>2 DEF TypeOK, RunChecker
<1>4. /\ Inquires(p, "loop") /\ Inquires(p, "loop")' /\ ~Inquires(p, "queued")'
      /\ ~At(p, "register", "lock")
  BY <1>1 DEF Inquires, At, Inquiry
<1> QED  BY <1>1, <1>3, <1>4, OthersStay, KeepsLocks DEF HealthInv, RunChecker, TypeOK

\* A call that ends in its loop and gives its read lock back, or loses it.
LEMMA EndKeeps ==
    ASSUME HealthInv, NEW p \in Threads, Inquires(p, "loop"), Return(p),
           UNCHANGED <<checkers, writer>>, panics' \in 0 .. MaxPanics,
           \/ readers' = readers - 1 /\ lost' = lost /\ panics' >= panics
           \/ readers' = readers /\ lost' = lost + 1 /\ panics' = panics + 1
    PROVE  HealthInv'
<1>1. /\ TypeOK /\ call[p] \in Inquiry
      /\ readers \in Nat /\ lost \in Nat /\ panics \in Nat
  BY CallTypes DEF HealthInv, TypeOK
<1>2. call'[p] = Idle /\ Only(p) /\ call' \in [Threads -> Inquiry \cup Registration \cup {Idle}]
  BY <1>1 DEF Return, TypeOK, Only
<1>3. ~Inquires(p, "loop")' /\ ~Inquires(p, "queued")' /\ ~At(p, "register", "lock")
  BY <1>1, <1>2 DEF Inquires, At, Idle, Inquiry
<1>4. /\ Cardinality(Those("loop"))' = Cardinality(Those("loop")) - 1
      /\ Cardinality(Those("loop")) > 0 /\ Cardinality(Those("loop")) \in Nat
  BY <1>2, <1>3, OthersStay, Leaves, Counted
<1>5. /\ readers' \in Nat /\ lost' \in Nat /\ lost' <= panics'
      /\ readers' = Cardinality(Those("loop"))' + lost'
  BY <1>1, <1>4 DEF HealthInv
<1>6. TypeOK'
  BY <1>1, <1>2, <1>5 DEF TypeOK
<1> QED  BY <1>2, <1>3, <1>5, <1>6, OthersStay DEF HealthInv, TypeOK

LEMMA HealthNext ==
    ASSUME HealthInv, [Next]_vars
    PROVE  HealthInv'
<1>1. ASSUME NEW p \in Threads, NotReady(p) \/ RUnlock(p) PROVE HealthInv'
  <2>1. Inquires(p, "loop")
    BY <1>1 DEF NotReady, RUnlock, Inquires
  <2> QED  BY <1>1, <2>1, EndKeeps DEF NotReady, RUnlock, HealthInv, TypeOK
<1>2. ASSUME NEW p \in Threads, Panic(p) PROVE HealthInv'
  <2>1. panics' \in 0 .. MaxPanics /\ panics' = panics + 1 /\ panics \in Nat
    BY <1>2 DEF Panic, HealthInv, TypeOK
  <2> QED  BY <1>2, <2>1, EndKeeps DEF Panic
<1>3. CASE UNCHANGED vars
  BY <1>3 DEF vars, HealthInv, TypeOK, Those, Inquires, At
<1> QED  BY <1>1, <1>2, <1>3, RegisterKeeps, AnnounceKeeps, WriteKeeps, InquireKeeps,
            PingKeeps, RLockKeeps, RunCheckerKeeps DEF Next, Step

-----------------------------------------------------------------------------
(***************************************************************************)
(* What a call has done and heard: CallsFit is inductive with HealthInv.   *)
(***************************************************************************)

Unheard(p) == \A n \in Names : call[p].report[n].by = NoChecker

\* In the loop the names that are to do and those that are reported are together
\* the registered ones, reported under the checker registered; Check's status is
\* what WorstOfAll says of the part that is reported.
InLoop(p) ==
    /\ \A n \in Names :
          IF n \in call[p].todo
          THEN call[p].report[n].by = NoChecker /\ checkers[n] # NoChecker
          ELSE call[p].report[n].by = checkers[n]
    /\ IF call[p].op = "readiness"
       THEN call[p].redis /\ "unhealthy" \notin Heard(p)
       ELSE /\ call[p].status = "unhealthy" <=> "unhealthy" \in Heard(p)
            /\ call[p].status = "healthy" <=>
                  call[p].redis /\ Heard(p) \subseteq {"healthy"}

\* Before the loop nothing is reported, and the status is that of Redis, which
\* Readiness insists on.
CallsFit == \A p \in Threads :
    /\ Inquires(p, "ping") => Unheard(p)
    /\ Inquires(p, "rlock") \/ Inquires(p, "queued") =>
          /\ Unheard(p)
          /\ IF call[p].op = "readiness" THEN call[p].redis
             ELSE call[p].status = IF call[p].redis THEN "healthy" ELSE "degraded"
    /\ Inquires(p, "loop") => InLoop(p)

\* What fits a call depends on the call, and in the loop on what is registered.
LEMMA StillFits ==
    ASSUME CallsFit, NEW q \in Threads, call'[q] = call[q],
           Inquires(q, "loop") => checkers' = checkers
    PROVE  /\ Inquires(q, "ping")' => Unheard(q)'
           /\ Inquires(q, "rlock")' \/ Inquires(q, "queued")' =>
                 /\ Unheard(q)'
                 /\ IF call'[q].op = "readiness" THEN call'[q].redis
                    ELSE call'[q].status =
                            IF call'[q].redis THEN "healthy" ELSE "degraded"
           /\ Inquires(q, "loop")' => InLoop(q)'
<1>1. \A place : Inquires(q, place)' <=> Inquires(q, place)
  BY DEF Inquires, At
<1>2. Unheard(q)' <=> Unheard(q)
  BY DEF Unheard
<1>3. checkers' = checkers => (InLoop(q)' <=> InLoop(q))
  BY DEF InLoop, Heard
<1> QED  BY <1>1, <1>2, <1>3 DEF CallsFit

\* A call that begins its loop has heard nothing, of any checker registered.
LEMMA Begins ==
    ASSUME TypeOK, NEW p \in Threads, Inquires(p, "rlock") \/ Inquires(p, "queued"),
           CallsFit, call'[p] = [call[p] EXCEPT !.at = "loop", !.todo = Registered']
    PROVE  InLoop(p)' /\ call'[p] \in Inquiry /\ call'[p].at = "loop"
<1>1. call[p] \in Inquiry
  BY CallTypes
<1>2. Registered' \in SUBSET Names
  BY DEF Registered
<1>3. /\ call'[p] \in Inquiry /\ call'[p].at = "loop"
      /\ call'[p].op = call[p].op /\ call'[p].redis = call[p].redis
      /\ call'[p].status = call[p].status /\ call'[p].report = call[p].report
      /\ call'[p].todo = Registered'
  BY <1>1, <1>2 DEF Inquiry
<1>4. /\ \A n \in Names : call'[p].report[n].by = NoChecker
      /\ IF call[p].op = "readiness" THEN call[p].redis
         ELSE call[p].status = IF call[p].redis THEN "healthy" ELSE "degraded"
  BY <1>3 DEF CallsFit, Unheard
<1>5. Heard(p)' = {}
  BY <1>4 DEF Heard
<1>6. \A n \in Names : n \in call'[p].todo <=> checkers'[n] # NoChecker
  BY <1>3 DEF Registered
<1>7. call[p].redis \in BOOLEAN
  BY <1>1 DEF Inquiry
<1> QED  BY <1>3, <1>4, <1>5, <1>6, <1>7 DEF InLoop

LEMMA RunCheckerFits ==
    ASSUME HealthInv, CallsFit, NEW p \in Threads, RunChecker(p)
    PROVE  InLoop(p)'
<1>1. PICK n \in Names, found \in Statuses :
         /\ n \in call[p].todo
         /\ call[p].op = "readiness" => found # "unhealthy"
         /\ call'[p].todo = call[p].todo \ {n}
         /\ call'[p].report = [call[p].report EXCEPT
               ![n] = [by |-> checkers[n], status |-> found]]
         /\ call[p].op = "check" => call'[p].status = Worse(call[p].status, found)
  BY Runs DEF HealthInv
<1>2. /\ call[p] \in Inquiry /\ InLoop(p) /\ checkers' = checkers
      /\ call'[p].op = call[p].op /\ call'[p].redis = call[p].redis
  BY Runs DEF HealthInv, CallsFit, RunChecker
<1>3. checkers[n] \in Checkers /\ call[p].report[n].by = NoChecker
  BY <1>1, <1>2 DEF InLoop, HealthInv, TypeOK
<1> DEFINE told == [by |-> checkers[n], status |-> found]
<1>4. /\ call'[p].report[n] = told
      /\ \A m \in Names \ {n} : call'[p].report[m] = call[p].report[m]
  BY <1>1, <1>2 DEF Inquiry
<1>6. Heard(p)' = Heard(p) \cup {found}
  BY <1>3, <1>4 DEF Heard
<1>7. \A m \in Names :
         IF m \in call'[p].todo
         THEN call'[p].report[m].by = NoChecker /\ checkers'[m] # NoChecker
         ELSE call'[p].report[m].by = checkers'[m]
  BY <1>1, <1>2, <1>3, <1>4 DEF InLoop
<1>8. CASE call[p].op = "readiness"
  BY <1>1, <1>2, <1>6, <1>7, <1>8 DEF InLoop
<1>9. CASE call[p].op = "check"
  <2>1. call'[p].status = Worse(call[p].status, found)
    BY <1>1, <1>9
  <2>2. /\ call[p].status = "unhealthy" <=> "unhealthy" \in Heard(p)
        /\ call[p].status = "healthy" <=>
              call[p].redis /\ Heard(p) \subseteq {"healthy"}
    BY <1>2, <1>9 DEF InLoop
  <2>3. call'[p].status = "unhealthy" <=> "unhealthy" \in Heard(p)'
    BY <1>6, <2>1, <2>2 DEF Worse, Statuses
  <2>4. call'[p].status = "healthy" <=>
           call'[p].redis /\ Heard(p)' \subseteq {"healthy"}
    BY <1>2, <1>6, <2>1, <2>2 DEF Worse, Statuses
  <2> QED  BY <1>2, <1>7, <1>9, <2>3, <2>4 DEF InLoop
<1> QED  BY <1>2, <1>8, <1>9 DEF Inquiry

\* A step of p that leaves the checkers alone disturbs no other call.
LEMMA OneFits ==
    ASSUME CallsFit, NEW p \in Threads, Only(p), checkers' = checkers,
           Inquires(p, "ping")' => Unheard(p)',
           Inquires(p, "rlock")' \/ Inquires(p, "queued")' =>
              /\ Unheard(p)'
              /\ IF call'[p].op = "readiness" THEN call'[p].redis
                 ELSE call'[p].status =
                         IF call'[p].redis THEN "healthy" ELSE "degraded",
           Inquires(p, "loop")' => InLoop(p)'
    PROVE  CallsFit'
BY StillFits DEF CallsFit, Only

LEMMA PingFits ==
    ASSUME HealthInv, CallsFit, NEW p \in Threads, Ping(p)
    PROVE  CallsFit'
<1>1. call[p] \in Inquiry /\ call[p].at = "ping" /\ Unheard(p) /\ TypeOK
  BY CallTypes DEF HealthInv, Ping, CallsFit, Inquires, At
<1>2. PICK redis \in BOOLEAN :
         call' = [call EXCEPT ![p] =
            IF redis \/ call[p].op = "check"
            THEN [call[p] EXCEPT !.at = "rlock", !.redis = redis,
                      !.status = IF redis THEN "healthy" ELSE "degraded"]
            ELSE Idle]
  BY <1>1 DEF Ping, Return, TypeOK
<1>3. Only(p) /\ checkers' = checkers
  BY <1>2 DEF Only, Ping, TypeOK
<1>4. CASE redis \/ call[p].op = "check"
  <2>1. /\ call'[p].at = "rlock" /\ call'[p].redis = redis
        /\ call'[p].op = call[p].op /\ call'[p].report = call[p].report
        /\ call'[p].status = IF redis THEN "healthy" ELSE "degraded"
    BY <1>1, <1>2, <1>4 DEF Inquiry, TypeOK
  <2>2. Unheard(p)'
    BY <1>1, <2>1 DEF Unheard
  <2>3. ~Inquires(p, "ping")' /\ ~Inquires(p, "loop")'
    BY <2>1 DEF Inquires, At
  <2>4. call[p].op = "readiness" => redis
    BY <1>4
  <2> QED  BY <1>3, <2>1, <2>2, <2>3, <2>4, OneFits
<1>5. CASE ~(redis \/ call[p].op = "check")
  <2>1. call'[p] = Idle
    BY <1>1, <1>2, <1>5 DEF TypeOK
  <2>2. \A place : ~Inquires(p, place)'
    BY <2>1 DEF Inquires, At, Idle
  <2> QED  BY <1>3, <2>2, OneFits
<1> QED  BY <1>4, <1>5

LEMMA RLockFits ==
    ASSUME HealthInv, CallsFit, NEW p \in Threads, RLock(p)
    PROVE  CallsFit'
<1>1. call[p] \in Inquiry /\ call[p].at = "rlock" /\ TypeOK /\ Inquires(p, "rlock")
  BY CallTypes DEF HealthInv, RLock, Inquires, At
<1>2. Only(p) /\ checkers' = checkers
  BY <1>1 DEF Only, RLock, TypeOK
<1>3. CASE writer = NoThread
  <2>1. call'[p] = [call[p] EXCEPT !.at = "loop", !.todo = Registered']
    <3>1. Registered' = Registered
      BY <1>2 DEF Registered
    <3>2. call'[p] = [call[p] EXCEPT !.at = "loop", !.todo = Registered]
      BY <1>1, <1>3 DEF RLock, TypeOK
    <3> QED  BY <3>1, <3>2
  <2>2. InLoop(p)' /\ call'[p].at = "loop"
    BY <1>1, <2>1, Begins
  <2>3. ~Inquires(p, "ping")' /\ ~Inquires(p, "rlock")' /\ ~Inquires(p, "queued")'
    BY <2>2 DEF Inquires, At
  <2> QED  BY <1>2, <2>2, <2>3, OneFits
<1>4. CASE writer # NoThread
  <2>1. call'[p] = [call[p] EXCEPT !.at = "queued"]
    BY <1>1, <1>4 DEF RLock, TypeOK
  <2>2. /\ call'[p].at = "queued" /\ call'[p].op = call[p].op
        /\ call'[p].redis = call[p].redis /\ call'[p].status = call[p].status
        /\ call'[p].report = call[p].report
    BY <1>1, <2>1 DEF Inquiry
  <2>3. ~Inquires(p, "ping")' /\ ~Inquires(p, "loop")'
    BY <2>2 DEF Inquires, At
  <2> QED  BY <1>1, <1>2, <2>2, <2>3, OneFits DEF CallsFit, Unheard
<1> QED  BY <1>3, <1>4

LEMMA WriteFits ==
    ASSUME HealthInv, CallsFit, NEW p \in Threads, Write(p)
    PROVE  CallsFit'
<1>1. TypeOK /\ \A q \in Threads : ~Inquires(q, "loop")
  BY NobodyInside DEF HealthInv, Write
<1>2. ASSUME NEW q \in Threads
      PROVE  /\ Inquires(q, "ping")' => Unheard(q)'
             /\ Inquires(q, "rlock")' \/ Inquires(q, "queued")' =>
                   /\ Unheard(q)'
                   /\ IF call'[q].op = "readiness" THEN call'[q].redis
                      ELSE call'[q].status =
                              IF call'[q].redis THEN "healthy" ELSE "degraded"
             /\ Inquires(q, "loop")' => InLoop(q)'
  <2>1. CASE q = p
    <3>1. call'[q] = Idle
      BY <2>1 DEF Write
    <3>2. \A place : ~Inquires(q, place)'
      BY <3>1 DEF Inquires, At, Idle
    <3> QED  BY <3>2
  <2>2. CASE q # p /\ Inquires(q, "queued")
    <3>1. call'[q] = [call[q] EXCEPT !.at = "loop", !.todo = Registered']
      BY <2>2 DEF Write
    <3>2. InLoop(q)' /\ call'[q].at = "loop"
      BY <1>1, <2>2, <3>1, Begins
    <3> QED  BY <3>2 DEF Inquires, At
  <2>3. CASE q # p /\ ~Inquires(q, "queued")
    <3>1. call'[q] = call[q]
      BY <2>3 DEF Write
    <3> QED  BY <1>1, <3>1, StillFits
  <2> QED  BY <2>1, <2>2, <2>3
<1> QED  BY <1>2 DEF CallsFit

LEMMA CallsNext ==
    ASSUME HealthInv, CallsFit, [Next]_vars
    PROVE  CallsFit'
<1>1. ASSUME NEW p \in Threads, call'[p] = Idle, Only(p), checkers' = checkers
      PROVE  CallsFit'
  <2>1. \A place : ~Inquires(p, place)'
    BY <1>1 DEF Inquires, At, Idle
  <2> QED  BY <1>1, <2>1, OneFits
<1>2. ASSUME NEW p \in Threads, NotReady(p) \/ RUnlock(p) \/ Panic(p)
      PROVE  CallsFit'
  <2>1. call'[p] = Idle /\ Only(p) /\ checkers' = checkers
    BY <1>2 DEF NotReady, RUnlock, Panic, Return, Only, HealthInv, TypeOK
  <2> QED  BY <1>1, <2>1
<1>3. ASSUME NEW p \in Threads, Register(p) PROVE CallsFit'
  <2>1. call'[p].op = "register" /\ Only(p) /\ checkers' = checkers
    BY <1>3 DEF Register, Only, HealthInv, TypeOK
  <2>2. \A place : ~Inquires(p, place)'
    BY <2>1 DEF Inquires, At
  <2> QED  BY <2>1, <2>2, OneFits
<1>4. ASSUME NEW p \in Threads, Inquire(p) PROVE CallsFit'
  <2>1. /\ call'[p].at = "ping" /\ \A n \in Names : call'[p].report[n].by = NoChecker
        /\ Only(p) /\ checkers' = checkers
    BY <1>4 DEF Inquire, Unreported, Only, HealthInv, TypeOK
  <2>2. ~Inquires(p, "rlock")' /\ ~Inquires(p, "queued")' /\ ~Inquires(p, "loop")'
    BY <2>1 DEF Inquires, At
  <2> QED  BY <2>1, <2>2, OneFits DEF Unheard
<1>5. ASSUME NEW p \in Threads, RunChecker(p) PROVE CallsFit'
  <2>1. InLoop(p)' /\ Only(p) /\ call'[p].at = "loop" /\ checkers' = checkers
    BY <1>5, Runs, RunCheckerFits DEF HealthInv, RunChecker
  <2>2. ~Inquires(p, "ping")' /\ ~Inquires(p, "rlock")' /\ ~Inquires(p, "queued")'
    BY <2>1 DEF Inquires, At
  <2> QED  BY <2>1, <2>2, OneFits
<1>6. CASE UNCHANGED <<call, checkers>>
  BY <1>6, StillFits DEF CallsFit
<1>7. ASSUME NEW p \in Threads, Announce(p) PROVE CallsFit'
  BY <1>6, <1>7 DEF Announce
<1>8. CASE UNCHANGED vars
  BY <1>6, <1>8 DEF vars
<1> QED  BY <1>2, <1>3, <1>4, <1>5, <1>7, <1>8, WriteFits, PingFits, RLockFits
         DEF Next, Step

LEMMA Inductive == Spec => [](HealthInv /\ CallsFit)
<1>1. Init => CallsFit
  BY DEF Init, CallsFit, Inquires, At, Idle
<1>2. HealthInv /\ CallsFit /\ [Next]_vars => HealthInv' /\ CallsFit'
  BY HealthNext, CallsNext
<1> QED  BY <1>1, <1>2, HealthInit, PTL DEF Spec

-----------------------------------------------------------------------------
(***************************************************************************)
(* The theorems.                                                           *)
(***************************************************************************)

\* The read locks that are held are those of the calls in their loops and those
\* that Checks have lost, whatever panics and registrations come in between.
THEOREM HealthInvariant == Spec => []HealthInv
BY Inductive, PTL

\* Check's status is the worst of what it has heard, in any order.
THEOREM WorstStatus == Spec => []WorstOfAll
<1>1. HealthInv /\ CallsFit => WorstOfAll
  <2> SUFFICES ASSUME HealthInv, CallsFit, NEW p \in Threads, At(p, "check", "loop")
               PROVE  /\ call[p].status = "unhealthy" <=> "unhealthy" \in Heard(p)
                      /\ call[p].status = "healthy" <=>
                            call[p].redis /\ Heard(p) \subseteq {"healthy"}
    BY DEF WorstOfAll
  <2>1. InLoop(p) /\ call[p].op = "check"
    BY DEF CallsFit, Inquires, At
  <2> QED  BY <2>1 DEF InLoop
<1> QED  BY <1>1, Inductive, PTL

\* A loop that ends has asked the checkers that are registered at its end.
THEOREM AskedTheRegistered == Spec => AsksTheRegistered
<1> DEFINE Asked == \A p \in Threads : RUnlock(p) =>
        /\ \A n \in Names : checkers[n] = call[p].report[n].by
        /\ call[p].op = "readiness" => call[p].redis /\ "unhealthy" \notin Heard(p)
<1>1. HealthInv /\ CallsFit /\ [Next]_vars => [Asked]_vars
  BY DEF CallsFit, RUnlock, InLoop
<1> QED  BY <1>1, Inductive, PTL DEF Spec, AsksTheRegistered

\* The guards of Step(p): p need not wait.
CanMove(p) ==
    \/ At(p, "register", "lock") /\ writer = NoThread
    \/ writer = p /\ readers = 0
    \/ Inquires(p, "ping") \/ Inquires(p, "rlock") \/ Inquires(p, "loop")

SomebodyMoves == \A p \in Threads : Busy(p) =>
    \/ \E q \in Threads : CanMove(q)
    \/ lost > 0 /\ writer # NoThread

\* The goroutines never all wait for each other: while one of them is in a call, one
\* of them can go on, unless a registration waits for a lock that a Check has lost.
THEOREM NoDeadlock == Spec => []SomebodyMoves
<1>1. ASSUME HealthInv, NEW p \in Threads, Busy(p), ~(lost > 0 /\ writer # NoThread)
      PROVE  \E q \in Threads : CanMove(q)
  <2>1. CASE writer = NoThread
    <3>1. ~Inquires(p, "queued")
      BY <1>1, <2>1 DEF HealthInv
    <3>2. At(p, "register", "lock") \/ \E place \in {"ping", "rlock", "loop"} : Inquires(p, place)
      BY <1>1, <3>1, CallTypes DEF HealthInv, Inquiry, Registration, Inquires, At
    <3> QED  BY <2>1, <3>2 DEF CanMove
  <2>2. CASE writer # NoThread /\ readers = 0
    <3>1. writer \in Threads
      BY <1>1, <2>2 DEF HealthInv, TypeOK
    <3> QED  BY <2>2, <3>1 DEF CanMove
  <2>3. CASE writer # NoThread /\ readers # 0
    <3>1. lost = 0 /\ readers = Cardinality(Those("loop"))
      BY <1>1, <2>3, Counted DEF HealthInv, TypeOK
    <3>2. Those("loop") # {}
      BY <2>3, <3>1, FS_EmptySet
    <3> QED  BY <3>2 DEF Those, CanMove
  <2> QED  BY <2>1, <2>2, <2>3
<1>2. HealthInv => SomebodyMoves
  BY <1>1 DEF SomebodyMoves
<1> QED  BY <1>2, Inductive, PTL
=============================================================================
