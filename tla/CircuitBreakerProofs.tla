------------------------ MODULE CircuitBreakerProofs ------------------------
(***************************************************************************)
(* Proofs about CircuitBreaker, for any number of goroutines and any       *)
(* settings: the invariant, that a half-open breaker is never stuck while  *)
(* requests do not panic, that one which has lost its slots to panics is   *)
(* left by hand only, and that an open one stays open for its timeout.     *)
(***************************************************************************)
EXTENDS CircuitBreaker, FiniteSetTheorems, TLAPS

Calls == [Procs -> {"idle", "current", "stale"} \cup Reading]

CountsType == [requests : 0 .. MaxRequests, successes : 0 .. MaxRequests,
               failures : 0 .. Tolerated]

\* The goroutines that have a current request in the calls f.
CurrentIn(f) == {p \in Procs : f[p] = "current"}

\* A set of goroutines is finite.
LEMMA CurrentFinite ==
    ASSUME NEW f PROVE IsFiniteSet(CurrentIn(f)) /\ Cardinality(CurrentIn(f)) \in Nat
<1>1. CurrentIn(f) \subseteq Procs
  BY DEF CurrentIn
<1> QED  BY <1>1, CircuitAssumption, FS_Subset, FS_CardinalityType DEF CircuitAssumption

\* A goroutine that begins a request adds one to the requests under way.
LEMMA OneMore ==
    ASSUME NEW f \in Calls, NEW p \in Procs, f[p] # "current"
    PROVE  LET g == [f EXCEPT ![p] = "current"]
           IN  Cardinality(CurrentIn(g)) = Cardinality(CurrentIn(f)) + 1
<1> DEFINE g == [f EXCEPT ![p] = "current"]
<1>1. CurrentIn(g) = CurrentIn(f) \cup {p} /\ p \notin CurrentIn(f)
  BY DEF CurrentIn, Calls
<1> QED  BY <1>1, CurrentFinite, FS_AddElement

\* A goroutine that ends its current request takes one away.
LEMMA OneLess ==
    ASSUME NEW f \in Calls, NEW p \in Procs, f[p] = "current"
    PROVE  LET g == [f EXCEPT ![p] = "idle"]
           IN  Cardinality(CurrentIn(g)) = Cardinality(CurrentIn(f)) - 1
<1> DEFINE g == [f EXCEPT ![p] = "idle"]
<1>1. CurrentIn(g) = CurrentIn(f) \ {p} /\ p \in CurrentIn(f)
  BY DEF CurrentIn, Calls
<1> QED  BY <1>1, CurrentFinite, FS_RemoveElement

\* A goroutine without a current request may come and go unnoticed.
LEMMA SameCurrent ==
    ASSUME NEW f \in Calls, NEW p \in Procs, f[p] # "current", NEW place,
           place # "current"
    PROVE  CurrentIn([f EXCEPT ![p] = place]) = CurrentIn(f)
BY DEF CurrentIn, Calls

LEMMA NobodyCurrent == Cardinality({}) = 0
BY FS_EmptySet

\* No request is current in a new generation.
LEMMA NewGeneration ==
    ASSUME call \in Calls
    PROVE  /\ Outdated \in Calls /\ CurrentIn(Outdated) = {}
           /\ \A p \in Procs : CurrentIn([Outdated EXCEPT ![p] = "idle"]) = {}
           /\ \A p \in Procs : Outdated[p] # "current"
           /\ \A p \in Procs : call[p] = "idle" => Outdated[p] = "idle"
           /\ \A p \in Procs : call[p] \notin Reading => Outdated[p] \notin Reading
BY DEF Outdated, Calls, CurrentIn, Reading

LEMMA CurrentNow == Current = CurrentIn(call) /\ Current' = CurrentIn(call')
BY DEF Current, CurrentIn

-----------------------------------------------------------------------------

\* Counts stay in range.
LEMMA BumpType ==
    ASSUME NEW n \in 0 .. MaxRequests
    PROVE  /\ Bump(n) \in 0 .. MaxRequests /\ 0 \in 0 .. Tolerated
           /\ n < MaxRequests => Bump(n) = n + 1
BY CircuitAssumption DEF CircuitAssumption, Bump

\* setState under either lock.
LEMMA SetStateInv ==
    ASSUME CircuitInv, NEW p \in Procs, call[p] # "renew",
           NEW s \in {"closed", "open", "half-open"},
           SetState(s, p), NoReader \/ (s = "half-open" /\ state # "closed"),
           trouble' = trouble, forced' = forced
    PROVE  CircuitInv'
<1> USE CircuitAssumption DEF CircuitAssumption
<1>1. TypeOK /\ ReadersFit
  BY DEF CircuitInv
<1>2. call \in Calls /\ call' = [Outdated EXCEPT ![p] = "idle"]
  BY <1>1 DEF TypeOK, Calls, SetState
<1>3. call' \in Calls /\ Current' = {}
  BY <1>2, NewGeneration, CurrentNow DEF Calls
<1>4. /\ state' = s /\ counts' = NoCounts /\ leaked' = 0
      /\ left' = IF s = "open" THEN Timeout ELSE LeftNow
      /\ since' = IF s = "open" THEN 0 ELSE since
  BY DEF SetState
<1>5. TypeOK'
  <2>1. LeftNow \in Int /\ LeftNow >= -1
    BY <1>1 DEF TypeOK, LeftNow
  <2> QED  BY <1>1, <1>3, <1>4, <2>1 DEF TypeOK, Calls, NoCounts
<1>6. ProbesFit'
  BY <1>3, <1>4, NobodyCurrent DEF ProbesFit, NoCounts
<1>7. OpenFits'
  BY <1>3, <1>4 DEF OpenFits
<1>8. ReadersFit'
  <2>1. \A q \in Procs : call'[q] \in Reading => call[q] \in Reading /\ call'[q] = call[q]
    BY <1>2 DEF Outdated, Reading, Calls
  <2>2. CASE NoReader
    BY <2>1, <2>2 DEF NoReader, ReadersFit, Reading
  <2>3. CASE s = "half-open" /\ state # "closed"
    BY <1>1, <1>3, <1>4, <2>1, <2>3 DEF ReadersFit, Reading
  <2> QED  BY <2>2, <2>3
<1> QED  BY <1>5, <1>6, <1>7, <1>8 DEF CircuitInv

\* Without a reader inside there is none after a step that lets none in.
LEMMA NoReaderInv ==
    ASSUME NoReader, \A q \in Procs : call'[q] \in Reading => call[q] \in Reading
    PROVE  ReadersFit'
BY DEF NoReader, ReadersFit, Reading

LEMMA BeforeRequestInv ==
    ASSUME CircuitInv, NEW p \in Procs, BeforeRequest(p)
    PROVE  CircuitInv'
<1> USE CircuitAssumption DEF CircuitAssumption
<1>1. TypeOK /\ ProbesFit /\ OpenFits /\ NoReader /\ call[p] = "idle"
  BY DEF CircuitInv, BeforeRequest
<1>2. call \in Calls /\ CallNow \in Calls /\ CallNow[p] = "idle"
  BY <1>1, NewGeneration DEF TypeOK, Calls, CallNow
<1>3. /\ CurrentIn(CallNow) = IF HalfOpens THEN {} ELSE Current
      /\ \A q \in Procs : CallNow[q] \in Reading => call[q] \in Reading
  BY <1>2, NewGeneration, CurrentNow DEF CallNow
<1>4. CountsNow \in CountsType /\ LeftNow \in Int /\ LeftNow >= -1 /\ LeakedNow \in Nat
  BY <1>1 DEF TypeOK, CountsNow, NoCounts, LeftNow, LeakedNow, CountsType
<1>5. StateNow \in {"closed", "open", "half-open"} /\ trouble' = trouble /\ forced' = forced
  BY <1>1 DEF TypeOK, StateNow, BeforeRequest
<1>6. StateNow = "half-open" =>
         /\ CountsNow.requests = Cardinality(CurrentIn(CallNow))
                                 + CountsNow.successes + LeakedNow
         /\ MaxRequests > 0 => CountsNow.successes < MaxRequests
  <2>1. CASE HalfOpens
    BY <1>3, <2>1, NobodyCurrent DEF CountsNow, NoCounts, LeakedNow
  <2>2. CASE ~HalfOpens
    BY <1>1, <1>3, <2>2 DEF CountsNow, LeakedNow, StateNow, ProbesFit, Renews
  <2> QED  BY <2>1, <2>2
<1>7. StateNow = "open" => CurrentIn(CallNow) = {} /\ CountsNow = NoCounts
                           /\ LeftNow = Timeout - since
  BY <1>1, <1>3 DEF StateNow, OpenFits, CountsNow, LeftNow, Renews
<1>8. CASE Settle /\ call' = CallNow
  <2>1. Current' = CurrentIn(CallNow)
    BY <1>8, CurrentNow
  <2>2. TypeOK'
    BY <1>1, <1>2, <1>4, <1>5, <1>8 DEF TypeOK, Settle, Calls, CountsType
  <2>3. ProbesFit' /\ OpenFits'
    BY <1>6, <1>7, <1>8, <2>1 DEF ProbesFit, OpenFits, Settle
  <2>4. ReadersFit'
    BY <1>1, <1>3, <1>8, NoReaderInv
  <2> QED  BY <2>2, <2>3, <2>4 DEF CircuitInv
<1>9. CASE /\ StateNow # "open" /\ ~Full
           /\ state' = StateNow /\ left' = LeftNow /\ leaked' = LeakedNow
           /\ counts' = [CountsNow EXCEPT !.requests = Bump(@)]
           /\ call' = [CallNow EXCEPT ![p] = "current"]
           /\ UNCHANGED since
  <2>1. Cardinality(Current') = Cardinality(CurrentIn(CallNow)) + 1
    BY <1>2, <1>9, OneMore, CurrentNow
  <2>2. counts' \in CountsType
    BY <1>4, <1>9 DEF CountsType, Bump
  <2>3. TypeOK'
    BY <1>1, <1>2, <1>4, <1>5, <1>9, <2>2 DEF TypeOK, Calls, CountsType
  <2>4. ProbesFit'
    <3>1. SUFFICES ASSUME StateNow = "half-open" PROVE ProbesFit'
      BY <1>9 DEF ProbesFit
    <3>2. CountsNow.requests < MaxRequests
      BY <1>4, <1>9, <3>1 DEF Full, CountsType
    <3>3. /\ counts'.requests = CountsNow.requests + 1
          /\ counts'.successes = CountsNow.successes
      BY <1>4, <1>9, <3>2 DEF CountsType, Bump
    <3> QED  BY <1>4, <1>6, <1>9, <2>1, <3>1, <3>3, CurrentFinite DEF ProbesFit, CountsType
  <2>5. OpenFits'
    BY <1>9 DEF OpenFits
  <2>6. ReadersFit'
    BY <1>1, <1>2, <1>3, <1>9, NoReaderInv DEF Calls, Reading
  <2> QED  BY <2>3, <2>4, <2>5, <2>6 DEF CircuitInv
<1> QED  BY <1>8, <1>9 DEF BeforeRequest

\* A report that changes the counts only, of a current request.
LEMMA AfterRequestInv ==
    ASSUME CircuitInv, NEW p \in Procs, AfterRequest(p)
    PROVE  CircuitInv'
<1> USE CircuitAssumption DEF CircuitAssumption
<1>1. TypeOK /\ ProbesFit /\ OpenFits /\ NoReader
  BY DEF CircuitInv, AfterRequest
<1>2. call \in Calls /\ trouble' = trouble /\ forced' = forced
  BY <1>1 DEF TypeOK, Calls, AfterRequest
<1>3. CountsNow \in CountsType /\ LeftNow \in Int /\ LeftNow >= -1 /\ LeakedNow \in Nat
  BY <1>1 DEF TypeOK, CountsNow, NoCounts, LeftNow, LeakedNow, CountsType
<1>4. call[p] = "current" => state # "open" /\ ~HalfOpens
  BY <1>1 DEF OpenFits, Current, HalfOpens
<1>5. call[p] # "renew"
  BY <1>1 DEF NoReader, Reading
<1>6. CASE Ignored(p)
  <2>1. call[p] = "stale" /\ Settle /\ call' = [CallNow EXCEPT ![p] = "idle"]
    BY <1>6 DEF Ignored
  <2>2. CASE HalfOpens
    <3>1. call' = [Outdated EXCEPT ![p] = "idle"]
      BY <2>1, <2>2 DEF CallNow
    <3>2. SetState("half-open", p)
      BY <2>1, <2>2, <3>1 DEF SetState, Settle, StateNow, CountsNow, LeakedNow
    <3> QED  BY <1>1, <1>2, <1>5, <3>2, SetStateInv
  <2>3. CASE ~HalfOpens
    <3>1. call' = [call EXCEPT ![p] = "idle"] /\ state' = state /\ leaked' = leaked
      BY <2>1, <2>3 DEF CallNow, Settle, StateNow, LeakedNow
    <3>2. Current' = Current
      <4>1. call[p] # "current"
        BY <2>1
      <4>2. CurrentIn(call') = CurrentIn(call)
        BY <1>2, <3>1, <4>1, SameCurrent
      <4> QED  BY <4>2, CurrentNow
    <3>3. TypeOK'
      BY <1>1, <1>2, <1>3, <2>1, <3>1 DEF TypeOK, Settle, Calls, CountsType
    <3>4. ProbesFit' /\ OpenFits'
      BY <1>1, <2>1, <2>3, <3>1, <3>2
      DEF ProbesFit, OpenFits, Settle, CountsNow, LeftNow, Renews
    <3>5. ReadersFit'
      BY <1>1, <1>2, <3>1, NoReaderInv DEF Calls, Reading
    <3> QED  BY <3>3, <3>4, <3>5 DEF CircuitInv
  <2> QED  BY <2>2, <2>3
<1>7. CASE call[p] = "current" /\ OnSuccess(p)
  <2>1. CASE /\ state = "closed"
             /\ counts' = [CountsNow EXCEPT !.successes = Bump(@), !.failures = 0]
             /\ left' = IF Interval > 0 THEN Interval ELSE left
             /\ call' = [call EXCEPT ![p] = "idle"]
             /\ UNCHANGED <<state, since, leaked>>
    <3>1. counts' \in CountsType
      BY <1>3, <2>1, BumpType DEF CountsType
    <3>2. TypeOK'
      BY <1>1, <1>2, <2>1, <3>1 DEF TypeOK, Calls, CountsType
    <3>3. ProbesFit' /\ OpenFits'
      BY <2>1 DEF ProbesFit, OpenFits
    <3>4. ReadersFit'
      BY <1>1, <1>2, <2>1, NoReaderInv DEF Calls, Reading
    <3> QED  BY <3>2, <3>3, <3>4 DEF CircuitInv
  <2>2. CASE /\ state = "half-open"
             /\ counts.successes + 1 < MaxRequests
             /\ counts' = [counts EXCEPT !.successes = Bump(@), !.failures = 0]
             /\ call' = [call EXCEPT ![p] = "idle"]
             /\ UNCHANGED <<state, left, since, leaked>>
    <3>0. counts \in CountsType /\ counts.successes < MaxRequests
      BY <1>1, <2>2 DEF TypeOK, CountsType
    <3>1. /\ counts' \in CountsType
          /\ counts'.successes = counts.successes + 1
          /\ counts'.requests = counts.requests
      BY <2>2, <3>0, BumpType DEF CountsType
    <3>2. Cardinality(Current') = Cardinality(Current) - 1
      BY <1>2, <1>7, <2>2, OneLess, CurrentNow
    <3>3. TypeOK'
      BY <1>1, <1>2, <2>2, <3>1 DEF TypeOK, Calls, CountsType
    <3>4. ProbesFit'
      BY <1>1, <2>2, <3>1, <3>2, CurrentFinite, CurrentNow DEF ProbesFit, TypeOK
    <3>5. OpenFits'
      BY <2>2 DEF OpenFits
    <3>6. ReadersFit'
      BY <1>1, <1>2, <2>2, NoReaderInv DEF Calls, Reading
    <3> QED  BY <3>3, <3>4, <3>5, <3>6 DEF CircuitInv
  <2>3. CASE SetState("closed", p)
    BY <1>1, <1>2, <1>5, <2>3, SetStateInv
  <2> QED  BY <1>7, <2>1, <2>2, <2>3 DEF OnSuccess
<1>8. CASE call[p] = "current" /\ OnFailure(p)
  <2>1. CASE /\ state = "closed"
             /\ CountsNow.failures + 1 <= Tolerated
             /\ counts' = [CountsNow EXCEPT !.successes = 0, !.failures = @ + 1]
             /\ left' = LeftNow
             /\ call' = [call EXCEPT ![p] = "idle"]
             /\ UNCHANGED <<state, since, leaked>>
    <3>1. counts' \in CountsType
      <4>1. 0 \in 0 .. MaxRequests
        OBVIOUS
      <4>2. CountsNow.failures + 1 \in 0 .. Tolerated
        BY <1>3, <2>1 DEF CountsType
      <4> QED  BY <1>3, <2>1, <4>1, <4>2 DEF CountsType
    <3>2. TypeOK'
      BY <1>1, <1>2, <1>3, <2>1, <3>1 DEF TypeOK, Calls, CountsType
    <3>3. ProbesFit' /\ OpenFits'
      BY <2>1 DEF ProbesFit, OpenFits
    <3>4. ReadersFit'
      BY <1>1, <1>2, <2>1, NoReaderInv DEF Calls, Reading
    <3> QED  BY <3>2, <3>3, <3>4 DEF CircuitInv
  <2>2. CASE SetState("open", p)
    BY <1>1, <1>2, <1>5, <2>2, SetStateInv
  <2> QED  BY <1>8, <2>1, <2>2 DEF OnFailure
<1> QED  BY <1>6, <1>7, <1>8 DEF AfterRequest

\* A panic takes a request away and, when half-open, leaves its slot taken.
LEMMA PanicInv ==
    ASSUME CircuitInv, NEW p \in Procs, Panic(p)
    PROVE  CircuitInv'
<1>1. /\ TypeOK /\ ProbesFit /\ OpenFits /\ ReadersFit
      /\ call[p] \in {"current", "stale"}
      /\ call' = [call EXCEPT ![p] = "idle"]
      /\ UNCHANGED <<state, counts, left, since, trouble, forced>>
      /\ leaked' = IF call[p] = "current" /\ state = "half-open"
                   THEN leaked + 1 ELSE leaked
  BY DEF CircuitInv, Panic, breaker
<1>2. call \in Calls
  BY <1>1 DEF TypeOK, Calls
<1>3. TypeOK'
  BY <1>1, <1>2 DEF TypeOK, Calls
<1>4. ProbesFit' /\ OpenFits'
  <2>1. CASE call[p] = "current"
    <3>1. Cardinality(Current') = Cardinality(Current) - 1
      BY <1>1, <1>2, <2>1, OneLess, CurrentNow
    <3>2. state # "open"
      BY <1>1, <2>1 DEF OpenFits, Current
    <3> QED  BY <1>1, <2>1, <3>1, <3>2, CurrentFinite, CurrentNow
             DEF ProbesFit, OpenFits, TypeOK
  <2>2. CASE call[p] = "stale"
    <3>1. Current' = Current
      BY <1>1, <1>2, <2>2, SameCurrent, CurrentNow
    <3> QED  BY <1>1, <2>2, <3>1 DEF ProbesFit, OpenFits
  <2> QED  BY <1>1, <2>1, <2>2
<1>5. ReadersFit'
  <2>1. Current = {} => Current' = {}
    BY <1>1, <1>2 DEF Current, Calls
  <2> QED  BY <1>1, <1>2, <2>1 DEF ReadersFit, Lapsed, Calls
<1> QED  BY <1>3, <1>4, <1>5 DEF CircuitInv

\* The steps of a goroutine inside State.
LEMMA ReadInv ==
    ASSUME CircuitInv, NEW p \in Procs, Read(p)
    PROVE  CircuitInv'
<1> USE CircuitAssumption DEF CircuitAssumption
<1>1. TypeOK /\ ProbesFit /\ OpenFits /\ ReadersFit /\ call \in Calls
  BY DEF CircuitInv, TypeOK, Calls
<1>2. CASE SeeExpiry(p) \/ CheckState(p)
  <2>1. PICK place \in Reading \cup {"idle"} :
            /\ call' = [call EXCEPT ![p] = place]
            /\ call[p] # "current"
            /\ place \in {"seen", "set"} =>
                  \/ state = "open" /\ Lapsed
                  \/ state = "half-open" /\ counts = NoCounts /\ Current = {}
            /\ place = "renew" => state = "closed"
    BY <1>1, <1>2 DEF SeeExpiry, CheckState, HalfOpens, Renews, Reading, ReadersFit
  <2>2. UNCHANGED <<state, counts, left, since, trouble, forced, leaked>>
    BY <1>2 DEF SeeExpiry, CheckState, breaker
  <2>3. Current' = Current
    BY <1>1, <2>1, SameCurrent, CurrentNow DEF Reading
  <2>4. TypeOK' /\ ProbesFit' /\ OpenFits'
    BY <1>1, <2>1, <2>2, <2>3 DEF TypeOK, ProbesFit, OpenFits
  <2>5. ReadersFit'
    BY <1>1, <2>1, <2>2, <2>3 DEF ReadersFit, Calls, Lapsed
  <2> QED  BY <2>4, <2>5 DEF CircuitInv
<1>3. CASE HalfOpen(p)
  <2>1. call[p] = "set" /\ SetState("half-open", p) /\ trouble' = trouble /\ forced' = forced
    BY <1>3 DEF HalfOpen
  <2>2. state # "closed"
    BY <1>1, <2>1 DEF ReadersFit
  <2> QED  BY <2>1, <2>2, SetStateInv
<1>4. CASE Renew(p)
  <2>1. /\ call[p] = "renew" /\ state = "closed" /\ state' = "closed"
        /\ call' = [call EXCEPT ![p] = "idle"]
        /\ counts' = NoCounts /\ left' = Interval
        /\ UNCHANGED <<since, trouble, forced, leaked>>
    BY <1>1, <1>4 DEF Renew, ReadersFit
  <2>2. TypeOK' /\ ProbesFit' /\ OpenFits'
    BY <1>1, <2>1 DEF TypeOK, NoCounts, ProbesFit, OpenFits
  <2>3. ReadersFit'
    BY <1>1, <2>1 DEF ReadersFit, Calls
  <2> QED  BY <2>2, <2>3 DEF CircuitInv
<1> QED  BY <1>2, <1>3, <1>4 DEF Read

LEMMA ByHandInv ==
    ASSUME CircuitInv, Reset \/ ForceOpen \/ ForceClose
    PROVE  CircuitInv'
<1> USE CircuitAssumption DEF CircuitAssumption
<1>1. TypeOK /\ NoReader /\ forced' \in 0 .. MaxForced /\ call \in Calls
  BY DEF CircuitInv, Reset, ForceOpen, ForceClose, ByHand, TypeOK, Calls
<1>2. /\ counts' = NoCounts /\ leaked' = 0 /\ trouble' = trouble
      /\ state' \in {"closed", "open"}
      /\ left' \in Int /\ left' >= -1
      /\ since' \in 0 .. (Timeout + 1)
      /\ state' = "open" => left' = Timeout /\ since' = 0 /\ call' = Outdated
      /\ call' \in {call, Outdated}
  BY <1>1 DEF Reset, ForceOpen, ForceClose, TypeOK
<1>3. TypeOK'
  BY <1>1, <1>2, NewGeneration DEF TypeOK, NoCounts, Calls
<1>4. ProbesFit' /\ OpenFits'
  BY <1>1, <1>2, NewGeneration, CurrentNow DEF ProbesFit, OpenFits
<1>5. ReadersFit'
  BY <1>1, <1>2, NoReaderInv, NewGeneration DEF Calls
<1> QED  BY <1>3, <1>4, <1>5 DEF CircuitInv

LEMMA TickInv == ASSUME CircuitInv, Tick PROVE CircuitInv'
<1> USE CircuitAssumption DEF CircuitAssumption
<1>1. TypeOK /\ ProbesFit /\ OpenFits /\ NoReader
  BY DEF CircuitInv, Tick
<1>2. /\ left' = IF Lapsed THEN left ELSE left - 1
      /\ since' = IF since > Timeout THEN since ELSE since + 1
      /\ UNCHANGED <<state, counts, call, trouble, forced, leaked>>
  BY DEF Tick
<1>3. TypeOK' /\ OpenFits'
  BY <1>1, <1>2 DEF TypeOK, OpenFits, Lapsed, Current
<1>4. ProbesFit'
  BY <1>1, <1>2 DEF ProbesFit, Current
<1>5. ReadersFit'
  BY <1>1, <1>2, NoReaderInv
<1> QED  BY <1>3, <1>4, <1>5 DEF CircuitInv

-----------------------------------------------------------------------------
(***************************************************************************)
(* Theorems.                                                               *)
(***************************************************************************)

LEMMA InitInv == Init => CircuitInv
<1> SUFFICES ASSUME Init PROVE CircuitInv
  OBVIOUS
<1> USE CircuitAssumption DEF CircuitAssumption
<1>1. TypeOK
  BY DEF Init, TypeOK, NoCounts
<1>2. ProbesFit /\ OpenFits
  BY DEF Init, ProbesFit, OpenFits
<1>3. ReadersFit
  BY DEF Init, ReadersFit
<1> QED  BY <1>1, <1>2, <1>3 DEF CircuitInv

LEMMA NextInv == CircuitInv /\ [Next]_vars => CircuitInv'
<1> SUFFICES ASSUME CircuitInv, [Next]_vars PROVE CircuitInv'
  OBVIOUS
<1>1. CASE Environment \/ UNCHANGED vars
  <2>1. /\ UNCHANGED <<state, counts, left, since, call, forced, leaked>>
        /\ trouble' \in {"none", "failing", "panicking"}
    BY <1>1 DEF Environment, vars, breaker, CircuitInv, TypeOK
  <2> QED  BY <2>1 DEF CircuitInv, TypeOK, ProbesFit, OpenFits, ReadersFit,
                       Current, Lapsed
<1> QED  BY <1>1, BeforeRequestInv, AfterRequestInv, PanicInv, ReadInv, ByHandInv,
            TickInv DEF Next

\* The books of a half-open breaker, the timer of an open one and the readers
\* inside State fit, whatever requests, readers and operators do.
THEOREM CircuitInvariant == Spec => []CircuitInv
BY InitInv, NextInv, PTL DEF Spec

LEMMA RoomOrPending == CircuitInv => NeverStuck
<1> SUFFICES ASSUME CircuitInv, state = "half-open", leaked = 0, MaxRequests > 0,
                    ~(counts.requests < MaxRequests)
             PROVE  Current # {}
  BY DEF NeverStuck
<1>1. /\ counts.requests = Cardinality(Current) + counts.successes
      /\ counts.successes < MaxRequests
      /\ {counts.requests, counts.successes, MaxRequests} \subseteq Nat
  BY CircuitAssumption, CurrentFinite, CurrentNow
  DEF CircuitInv, ProbesFit, TypeOK, CircuitAssumption
<1>2. Cardinality(Current) # 0
  BY <1>1
<1> QED  BY <1>2, NobodyCurrent

\* A half-open breaker that lost no request to a panic is never stuck.
THEOREM NotStuck == Spec => []NeverStuck
BY CircuitInvariant, RoomOrPending, PTL

LEMMA OpenStep ==
    ASSUME CircuitInv, [Next]_vars, state = "open", state' = "half-open"
    PROVE  since > Timeout
<1> USE CircuitAssumption DEF CircuitAssumption
<1>1. left = Timeout - since /\ since \in Int /\ Current = {}
  BY DEF CircuitInv, TypeOK, OpenFits
<1>2. Lapsed
  <2>1. CASE \E p \in Procs : BeforeRequest(p)
    BY <2>1 DEF BeforeRequest, Settle, StateNow, HalfOpens
  <2>2. CASE \E p \in Procs : AfterRequest(p)
    BY <1>1, <2>2 DEF AfterRequest, Ignored, Settle, StateNow, HalfOpens, Current
  <2>3. CASE \E p \in Procs : HalfOpen(p)
    BY <2>3 DEF HalfOpen, CircuitInv, ReadersFit
  <2>4. CASE \E p \in Procs : Panic(p) \/ SeeExpiry(p) \/ CheckState(p) \/ Renew(p)
    BY <2>4 DEF Panic, SeeExpiry, CheckState, Renew, breaker
  <2>5. CASE \/ Reset \/ ForceOpen \/ ForceClose \/ Environment \/ Tick
             \/ UNCHANGED vars
    BY <2>5 DEF Reset, ForceOpen, ForceClose, Environment, Tick, vars, breaker
  <2> QED  BY <2>1, <2>2, <2>3, <2>4, <2>5 DEF Next, Read
<1> QED  BY <1>1, <1>2 DEF Lapsed

\* An open breaker stays open for its timeout unless it is closed by hand.
THEOREM OpenForTimeout == Spec => OpenLasts
<1>1. CircuitInv /\ [Next]_vars => (state = "open" /\ state' = "half-open" => since > Timeout)
  BY OpenStep
<1> QED  BY <1>1, CircuitInvariant, PTL DEF Spec, OpenLasts

\* No step but one by hand gives an exhausted breaker a slot.
LEMMA ExhaustedStep ==
    ASSUME CircuitInv, [Next]_vars, Exhausted, forced' = forced
    PROVE  Exhausted'
<1>1. /\ state = "half-open" /\ counts.requests >= MaxRequests
      /\ \A p \in Procs : call[p] # "current"
      /\ call \in Calls
      /\ counts \in CountsType /\ forced \in Nat
  BY DEF Exhausted, Current, CircuitInv, TypeOK, Calls, CountsType
<1>2. Full /\ StateNow = state /\ CountsNow = counts /\ CallNow = call
  BY <1>1 DEF Full, StateNow, CountsNow, CallNow, HalfOpens, Renews
<1>3. SUFFICES state' = "half-open" /\ counts'.requests >= MaxRequests
               /\ \A p \in Procs : call'[p] # "current"
  BY <1>3 DEF Exhausted, Current
<1>4. CASE \E p \in Procs : BeforeRequest(p)
  BY <1>1, <1>2, <1>4 DEF BeforeRequest, Settle
<1>5. CASE \E p \in Procs : AfterRequest(p)
  BY <1>1, <1>2, <1>5 DEF AfterRequest, Ignored, Settle, Calls
<1>6. CASE \E p \in Procs : Panic(p) \/ SeeExpiry(p) \/ CheckState(p)
  BY <1>1, <1>6 DEF Panic, SeeExpiry, CheckState, breaker, Calls
\* Another reader writes a second time what the first wrote.
<1>7. ASSUME NEW p \in Procs, HalfOpen(p)
      PROVE  state' = "half-open" /\ counts'.requests >= MaxRequests
             /\ \A q \in Procs : call'[q] # "current"
  <2>1. counts = NoCounts
    BY <1>1, <1>7 DEF HalfOpen, CircuitInv, ReadersFit
  <2>2. [Outdated EXCEPT ![p] = "idle"] \in Calls
        /\ CurrentIn([Outdated EXCEPT ![p] = "idle"]) = {}
    BY <1>1, NewGeneration DEF Calls
  <2>3. /\ state' = "half-open" /\ counts' = counts
        /\ call' = [Outdated EXCEPT ![p] = "idle"]
    BY <1>7, <2>1 DEF HalfOpen, SetState
  <2> QED  BY <1>1, <2>2, <2>3 DEF CurrentIn
<1>8. CASE \E p \in Procs : Renew(p)
  BY <1>1, <1>8 DEF Renew, CircuitInv, ReadersFit
<1>9. CASE Reset \/ ForceOpen \/ ForceClose
  BY <1>1, <1>9 DEF Reset, ForceOpen, ForceClose, ByHand
<1>10. CASE Environment \/ Tick \/ UNCHANGED vars
  BY <1>1, <1>10 DEF Environment, Tick, vars, breaker
<1> QED  BY <1>4, <1>5, <1>6, <1>7, <1>8, <1>9, <1>10 DEF Next, Read

\* A half-open breaker without a free slot and without a request under way is
\* left by hand only.
THEOREM ExhaustedOnlyByHand == Spec => OnlyByHand
<1>1. CircuitInv /\ [Next]_vars => (Exhausted /\ ~Exhausted' => forced' # forced)
  BY ExhaustedStep
<1> QED  BY <1>1, CircuitInvariant, PTL DEF Spec, OnlyByHand
=============================================================================
