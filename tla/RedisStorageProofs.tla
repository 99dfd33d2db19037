------------------------- MODULE RedisStorageProofs -------------------------
(***************************************************************************)
(* The sliding window of RedisStorage implements the abstract counter, for *)
(* every number of clients, keys and nodes, every set of windows and every *)
(* lag and lead that the grace absorbs.                                    *)
(***************************************************************************)
EXTENDS RedisStorage, FiniteSetTheorems, TLAPS

-----------------------------------------------------------------------------
(***************************************************************************)
(* Facts about the constants and the operators.                            *)
(***************************************************************************)

LEMMA Numbers ==
    /\ Grace \in Nat /\ MaxLag \in Nat /\ MaxLead \in Nat
    /\ MaxRetries \in Nat /\ MaxClock \in Nat /\ MaxCalls \in Nat
    /\ Shortest \in Windows /\ Shortest \in Nat \ {0} /\ Windows \subseteq Nat \ {0}
    /\ \A w \in Windows : Shortest <= w
    /\ MaxLag <= MaxClock /\ MaxLag + MaxLead <= Grace
BY StorageAssumption, SkewAssumption

LEMMA TicksNat == Ticks \subseteq Nat /\ IsFiniteSet(Ticks)
<1>1. MaxClock + MaxLead \in Nat
  BY Numbers
<1> QED  BY <1>1, FS_Interval DEF Ticks

\* What the script keeps on key k: every recent tick, no unrecorded one, and
\* among the latter only those inside the caller's window.
LEMMA Kept ==
    ASSUME StorageInv, NEW k \in Keys, NEW now \in Ticks, NEW window \in Windows,
           InTime(now)
    PROVE  LET kept == Trim(Live(k), now, window) \cup {now}
               hit == log[k] \cup {now}
           IN  /\ Counter!RecentOf(hit) \subseteq kept
               /\ kept \subseteq Counter!Visible(hit, now, window)
               /\ kept \in SUBSET Ticks
<1> DEFINE kept == Trim(Live(k), now, window) \cup {now}
           hit == log[k] \cup {now}
<1> USE Numbers, TicksNat
<1>1. clock \in Nat /\ expireAt[k] \in Nat /\ now \in Nat /\ window \in Nat \ {0}
  BY DEF StorageInv, TypeOK
<1>2. log[k] \in SUBSET Ticks /\ zset[k] \in SUBSET Ticks /\ zset[k] \subseteq log[k]
  BY DEF StorageInv, TypeOK, Recorded
<1>3. ASSUME NEW t \in Counter!RecentOf(hit), t # now PROVE t \in kept
  <2>1. t \in log[k] /\ t \in Nat /\ now - Shortest < t
    BY <1>2, <1>3 DEF Counter!RecentOf
  <2>2. t \in Counter!RecentOf(log[k])
    BY <1>3, <2>1 DEF Counter!RecentOf
  <2>3. t \in zset[k]
    BY <2>2 DEF StorageInv, Retained
  <2>4. t + Shortest + Grace <= expireAt[k] + MaxLead
    BY <2>1 DEF StorageInv, Fresh
  <2>5. ~(clock > expireAt[k])
    BY <1>1, <2>1, <2>4 DEF InTime
  <2>6. t > now - window
    BY <1>1, <2>1
  <2> QED  BY <2>3, <2>5, <2>6 DEF Trim, Live
<1>4. Counter!RecentOf(hit) \subseteq kept
  BY <1>3
<1>5. kept \subseteq Counter!Visible(hit, now, window)
  BY <1>1, <1>2 DEF Trim, Live, Counter!Visible
<1>6. kept \in SUBSET Ticks
  BY <1>2 DEF Trim, Live
<1> QED  BY <1>4, <1>5, <1>6

-----------------------------------------------------------------------------
(***************************************************************************)
(* The invariant.                                                          *)
(***************************************************************************)

LEMMA InitInv == Init => StorageInv
<1> SUFFICES ASSUME Init PROVE StorageInv
  OBVIOUS
<1> USE Numbers, TicksNat DEF Init
<1>1. NoCall \in Call
  <2>1. 0 \in Ticks /\ 0 \in 0 .. MaxRetries
    BY DEF Ticks
  <2> QED  BY <2>1 DEF NoCall, Call
<1>2. TypeOK
  BY <1>1, StorageAssumption DEF TypeOK
<1>3. Retained
  BY DEF Retained, Counter!RecentOf
<1>4. Fresh /\ Recorded
  BY DEF Fresh, Recorded
<1>5. NotAhead
  BY DEF NotAhead, NoCall
<1> QED  BY <1>2, <1>3, <1>4, <1>5 DEF StorageInv

\* A run of the script preserves the parts of the invariant that speak of Redis.
LEMMA RecordInv ==
    ASSUME StorageInv, NEW k \in Keys, NEW now \in Ticks, NEW window \in Windows,
           InTime(now), now <= clock + MaxLead, clock' = clock,
           Record(k, now, window)
    PROVE  /\ zset' \in [Keys -> SUBSET Ticks]
           /\ expireAt' \in [Keys -> Nat]
           /\ log' \in [Keys -> SUBSET Ticks]
           /\ answers' \in [Keys -> SUBSET Answer]
           /\ Retained' /\ Fresh' /\ Recorded'
           /\ \A j \in Keys : \A t \in log'[j] : t <= clock + MaxLead
<1> DEFINE kept == Trim(Live(k), now, window) \cup {now}
           hit == log[k] \cup {now}
           a == [tick |-> now, window |-> window, count |-> Cardinality(kept)]
<1> USE Numbers, TicksNat
<1>1. /\ Counter!RecentOf(hit) \subseteq kept
      /\ kept \subseteq Counter!Visible(hit, now, window)
      /\ kept \in SUBSET Ticks
  BY Kept
<1>2. clock \in Nat /\ now \in Nat /\ window \in Nat
  BY DEF StorageInv, TypeOK
<1>3. /\ zset' = [zset EXCEPT ![k] = kept]
      /\ expireAt' = [expireAt EXCEPT ![k] = Expiry(window)]
      /\ log' = [log EXCEPT ![k] = hit]
      /\ answers' = [answers EXCEPT ![k] = @ \cup {a}]
  BY DEF Record, StorageInv, TypeOK
<1>4. Expiry(window) \in Nat /\ Expiry(window) = clock + window + Grace
  BY <1>2 DEF Expiry
<1>5. a \in Answer
  BY <1>1, FS_Subset, FS_CardinalityType DEF Answer
<1>6. hit \in SUBSET Ticks
  BY DEF StorageInv, TypeOK
<1> HIDE DEF kept, hit, a
<1>7. /\ zset' \in [Keys -> SUBSET Ticks]
      /\ expireAt' \in [Keys -> Nat]
      /\ log' \in [Keys -> SUBSET Ticks]
      /\ answers' \in [Keys -> SUBSET Answer]
  BY <1>1, <1>3, <1>4, <1>5, <1>6 DEF StorageInv, TypeOK
<1>8. Retained'
  <2> SUFFICES ASSUME NEW j \in Keys
               PROVE  Counter!RecentOf(log'[j]) \subseteq zset'[j]
    BY DEF Retained, Counter!RecentOf
  <2>1. CASE j = k
    BY <1>1, <1>3, <2>1 DEF StorageInv, TypeOK
  <2>2. CASE j # k
    BY <1>3, <2>2 DEF StorageInv, TypeOK, Retained
  <2> QED  BY <2>1, <2>2
<1>9. \A j \in Keys : \A t \in log'[j] : t <= clock + MaxLead
  BY <1>3 DEF hit, StorageInv, TypeOK, NotAhead
<1>10. Fresh'
  <2> SUFFICES ASSUME NEW j \in Keys, NEW t \in log'[j]
               PROVE  t + Shortest + Grace <= expireAt'[j] + MaxLead
    BY DEF Fresh
  <2>1. t \in Nat /\ t <= clock + MaxLead
    BY <1>7, <1>9
  <2>2. CASE j = k
    <3>1. expireAt'[j] = clock + window + Grace
      BY <1>3, <1>4, <2>2 DEF StorageInv, TypeOK
    <3>2. Shortest <= window
      OBVIOUS
    <3> QED  BY <1>2, <2>1, <3>1, <3>2
  <2>3. CASE j # k
    BY <1>3, <2>3 DEF StorageInv, TypeOK, Fresh
  <2> QED  BY <2>2, <2>3
<1>11. Recorded'
  <2> SUFFICES ASSUME NEW j \in Keys
               PROVE  /\ zset'[j] \subseteq log'[j]
                      /\ \A b \in answers'[j] : b.tick \in log'[j]
    BY DEF Recorded
  <2>1. CASE j = k
    <3>1. zset'[j] = kept /\ log'[j] = hit /\ answers'[j] = answers[j] \cup {a}
      BY <1>3, <2>1 DEF StorageInv, TypeOK
    <3>2. kept \subseteq hit
      BY <1>1 DEF Counter!Visible
    <3>3. a.tick \in hit /\ \A b \in answers[j] : b.tick \in hit
      BY <2>1 DEF hit, a, StorageInv, Recorded
    <3> QED  BY <3>1, <3>2, <3>3
  <2>2. CASE j # k
    BY <1>3, <2>2 DEF StorageInv, TypeOK, Recorded
  <2> QED  BY <2>1, <2>2
<1> QED  BY <1>7, <1>8, <1>9, <1>10, <1>11

\* One run of the script, or a refused one, preserves the invariant when it
\* comes with a change of the client side that keeps its type and its ticks.
LEMMA ScriptInv ==
    ASSUME StorageInv, NEW k \in Keys, NEW now \in Ticks, NEW window \in Windows,
           NEW pipe \in BOOLEAN,
           InTime(now), now <= clock + MaxLead, clock' = clock,
           Script(k, now, window, pipe),
           call' \in [Clients -> Call], late' \subseteq Command, begun' = begun,
           \A c \in Clients : call'[c].tick <= clock + MaxLead,
           \A m \in late' : m.tick <= clock + MaxLead
    PROVE  StorageInv'
<1>1. CASE Record(k, now, window) /\ loaded' = [loaded EXCEPT ![Home[k]] = TRUE]
  BY <1>1, RecordInv DEF StorageInv, TypeOK, NotAhead
<1>2. CASE UNCHANGED <<redis, history>>
  <2>1. zset' = zset /\ expireAt' = expireAt /\ loaded' = loaded
        /\ log' = log /\ answers' = answers
    BY <1>2 DEF redis, history
  <2>2. TypeOK'
    BY <2>1 DEF StorageInv, TypeOK
  <2>3. Retained' /\ Fresh' /\ Recorded' /\ NotAhead'
    BY <2>1 DEF StorageInv, Retained, Fresh, Recorded, NotAhead, Counter!RecentOf
  <2> QED  BY <2>2, <2>3 DEF StorageInv
<1> QED  BY <1>1, <1>2 DEF Script

\* A client step that leaves Redis alone preserves the invariant likewise.
LEMMA ClientInv ==
    ASSUME StorageInv, UNCHANGED <<clock, redis, history>>,
           call' \in [Clients -> Call], late' \subseteq Command,
           begun' \in [Keys -> 0 .. MaxCalls],
           \A c \in Clients : call'[c].tick <= clock + MaxLead,
           \A m \in late' : m.tick <= clock + MaxLead
    PROVE  StorageInv'
<1>1. /\ zset' = zset /\ expireAt' = expireAt /\ loaded' = loaded
      /\ log' = log /\ answers' = answers /\ clock' = clock
  BY DEF redis, history
<1>2. TypeOK'
  BY <1>1 DEF StorageInv, TypeOK
<1>3. Retained' /\ Fresh' /\ Recorded' /\ NotAhead'
  BY <1>1 DEF StorageInv, Retained, Fresh, Recorded, NotAhead, Counter!RecentOf
<1> QED  BY <1>2, <1>3 DEF StorageInv

LEMMA BeginInv ==
    ASSUME StorageInv, NEW c \in Clients, NEW K \in SUBSET Keys,
           NEW now \in ClientNow, NEW window \in Windows, NEW pipe \in BOOLEAN,
           Begin(c, K, now, window, pipe)
    PROVE  StorageInv'
<1> USE Numbers
<1>1. now \in Ticks /\ now <= clock + MaxLead
  BY DEF ClientNow
<1>2. call' \in [Clients -> Call]
  <2>1. [keys |-> K, pending |-> K, tick |-> now, window |-> window,
         pipe |-> pipe, tries |-> 0] \in Call
    BY <1>1 DEF Call
  <2> QED  BY <2>1 DEF Begin, StorageInv, TypeOK
<1>3. begun' \in [Keys -> 0 .. MaxCalls]
  <2>1. ASSUME NEW k \in Keys
        PROVE  (IF k \in K THEN begun[k] + 1 ELSE begun[k]) \in 0 .. MaxCalls
    BY DEF Begin, StorageInv, TypeOK
  <2> QED  BY <2>1 DEF Begin
<1>4. \A d \in Clients : call'[d].tick <= clock + MaxLead
  BY <1>1 DEF Begin, StorageInv, TypeOK, NotAhead
<1>5. late' = late /\ UNCHANGED <<clock, redis, history>>
  BY DEF Begin
<1> QED  BY <1>2, <1>3, <1>4, <1>5, ClientInv DEF StorageInv, TypeOK, NotAhead

LEMMA ReplyInv ==
    ASSUME StorageInv, NEW c \in Clients, NEW k \in Keys, Reply(c, k)
    PROVE  StorageInv'
<1> DEFINE rest == call[c].pending \ {k}
<1>1. call[c] \in Call /\ NoCall \in Call /\ NoCall.tick = 0
  <2>1. 0 \in Ticks /\ 0 \in 0 .. MaxRetries
    BY Numbers DEF Ticks
  <2> QED  BY <2>1, Numbers DEF NoCall, Call, StorageInv, TypeOK
<1>2. [call[c] EXCEPT !.pending = rest] \in Call
  BY <1>1 DEF Call
<1>3. call' \in [Clients -> Call]
  BY <1>1, <1>2 DEF Reply, StorageInv, TypeOK
<1>4. [call[c] EXCEPT !.pending = rest].tick = call[c].tick
  BY <1>1 DEF Call
<1>5. \A d \in Clients : call'[d].tick <= clock + MaxLead
  <2>1. 0 <= clock + MaxLead
    BY Numbers DEF StorageInv, TypeOK
  <2> SUFFICES ASSUME NEW d \in Clients PROVE call'[d].tick <= clock + MaxLead
    OBVIOUS
  <2>2. call'[d] \in {call[d], NoCall, [call[c] EXCEPT !.pending = rest]}
    BY DEF Reply, StorageInv, TypeOK
  <2> QED  BY <1>1, <1>4, <2>1, <2>2 DEF StorageInv, NotAhead
<1>6. /\ call[c].tick \in Ticks /\ call[c].window \in Windows
      /\ call[c].pipe \in BOOLEAN /\ call[c].tick <= clock + MaxLead
  BY <1>1 DEF Call, StorageInv, NotAhead
<1>7. /\ InTime(call[c].tick) /\ late' = late /\ begun' = begun /\ clock' = clock
      /\ Script(k, call[c].tick, call[c].window, call[c].pipe)
  BY DEF Reply
<1> QED  BY <1>3, <1>5, <1>6, <1>7, ScriptInv DEF StorageInv, TypeOK, NotAhead

\* Abandoning an attempt, for a retry or for good.
LEMMA AbandonedOK ==
    ASSUME StorageInv, NEW c \in Clients
    PROVE  /\ Abandoned(c) \subseteq Command
           /\ \A m \in Abandoned(c) : m.tick <= clock + MaxLead
<1>1. call[c] \in Call /\ call[c].tick <= clock + MaxLead
  BY DEF StorageInv, TypeOK, NotAhead
<1> QED  BY <1>1 DEF Abandoned, Command, Call

LEMMA RetryInv ==
    ASSUME StorageInv, NEW c \in Clients, Retry(c)
    PROVE  StorageInv'
<1> DEFINE again == [call[c] EXCEPT !.pending = call[c].keys, !.tries = @ + 1]
<1> USE Numbers
<1>1. call[c] \in Call /\ call[c].tries < MaxRetries
  BY DEF Retry, StorageInv, TypeOK
<1>2. call' = [call EXCEPT ![c] = again]
  BY DEF Retry, StorageInv, TypeOK
<1>3. again \in Call /\ again.tick = call[c].tick
  <2>1. call[c].tries + 1 \in 0 .. MaxRetries
    BY <1>1 DEF Call
  <2>2. again = [call[c] EXCEPT !.pending = call[c].keys,
                                !.tries = call[c].tries + 1]
    OBVIOUS
  <2> QED  BY <1>1, <2>1, <2>2 DEF Call
<1> HIDE DEF again
<1>4. call' \in [Clients -> Call]
  BY <1>2, <1>3 DEF StorageInv, TypeOK
<1>5. \A d \in Clients : call'[d].tick <= clock + MaxLead
  BY <1>2, <1>3 DEF StorageInv, TypeOK, NotAhead
<1>6. late' \subseteq Command /\ \A m \in late' : m.tick <= clock + MaxLead
  BY AbandonedOK DEF Retry, StorageInv, TypeOK, NotAhead
<1>7. begun' = begun /\ UNCHANGED <<clock, redis, history>>
  BY DEF Retry
<1> QED  BY <1>4, <1>5, <1>6, <1>7, ClientInv DEF StorageInv, TypeOK

LEMMA FailInv ==
    ASSUME StorageInv, NEW c \in Clients, Fail(c)
    PROVE  StorageInv'
<1> USE Numbers
<1>1. NoCall \in Call /\ NoCall.tick = 0
  <2>1. 0 \in Ticks /\ 0 \in 0 .. MaxRetries
    BY DEF Ticks
  <2> QED  BY <2>1 DEF NoCall, Call
<1>2. call' = [call EXCEPT ![c] = NoCall]
  BY DEF Fail
<1>3. call' \in [Clients -> Call]
  BY <1>1, <1>2 DEF StorageInv, TypeOK
<1>4. \A d \in Clients : call'[d].tick <= clock + MaxLead
  BY <1>1, <1>2 DEF StorageInv, TypeOK, NotAhead
<1>5. late' \subseteq Command /\ \A m \in late' : m.tick <= clock + MaxLead
  BY AbandonedOK DEF Fail, StorageInv, TypeOK, NotAhead
<1>6. begun' = begun /\ UNCHANGED <<clock, redis, history>>
  BY DEF Fail
<1> QED  BY <1>3, <1>4, <1>5, <1>6, ClientInv DEF StorageInv, TypeOK

LEMMA LateInv ==
    ASSUME StorageInv, NEW m \in late, LateCommand(m)
    PROVE  StorageInv'
<1>1. m \in Command /\ m.tick <= clock + MaxLead
  BY DEF StorageInv, TypeOK, NotAhead
<1>2. m.key \in Keys /\ m.tick \in Ticks /\ m.window \in Windows /\ m.pipe \in BOOLEAN
  BY <1>1 DEF Command
<1>3. /\ InTime(m.tick) /\ Script(m.key, m.tick, m.window, m.pipe)
      /\ late' \subseteq late /\ call' = call /\ begun' = begun /\ clock' = clock
  BY DEF LateCommand
<1> QED  BY <1>1, <1>2, <1>3, ScriptInv DEF StorageInv, TypeOK, NotAhead

\* Losing all that is known about some keys.
LEMMA LoseInv ==
    ASSUME StorageInv, NEW lost \in SUBSET Keys,
           zset' = [k \in Keys |-> IF k \in lost THEN {} ELSE zset[k]],
           expireAt' = [k \in Keys |-> IF k \in lost THEN 0 ELSE expireAt[k]],
           log' = [k \in Keys |-> IF k \in lost THEN {} ELSE log[k]],
           answers' = [k \in Keys |-> IF k \in lost THEN {} ELSE answers[k]],
           loaded' \in [Nodes -> BOOLEAN],
           UNCHANGED <<clock, call, late, begun>>
    PROVE  StorageInv'
<1>1. TypeOK'
  BY DEF StorageInv, TypeOK
<1>2. Retained'
  BY DEF StorageInv, Retained, Counter!RecentOf
<1>3. Fresh' /\ NotAhead' /\ Recorded'
  BY DEF StorageInv, Fresh, NotAhead, Recorded
<1> QED  BY <1>1, <1>2, <1>3 DEF StorageInv

LEMMA TickInv == ASSUME StorageInv, Tick PROVE StorageInv'
<1> USE Numbers, TicksNat
<1>1. clock \in Nat /\ clock' = clock + 1 /\ clock < MaxClock
  BY DEF Tick, StorageInv, TypeOK
<1>2. UNCHANGED <<zset, expireAt, loaded, call, begun, log, answers>>
  BY DEF Tick, redis, history
<1>3. late' \subseteq late
  BY DEF Tick
<1>4. TypeOK'
  BY <1>1, <1>2, <1>3 DEF StorageInv, TypeOK
<1>5. Retained' /\ Fresh' /\ Recorded'
  BY <1>2 DEF StorageInv, Retained, Fresh, Recorded, Counter!RecentOf
<1>6. NotAhead'
  <2>1. ASSUME NEW t \in Ticks, t <= clock + MaxLead PROVE t <= clock' + MaxLead
    BY <1>1, <2>1
  <2>2. \A c \in Clients : call[c].tick \in Ticks
    BY DEF StorageInv, TypeOK, Call
  <2>3. \A m \in late : m.tick \in Ticks
    BY DEF StorageInv, TypeOK, Command
  <2>4. \A k \in Keys : \A t \in log[k] : t \in Ticks
    BY DEF StorageInv, TypeOK
  <2> QED  BY <1>2, <1>3, <2>1, <2>2, <2>3, <2>4 DEF StorageInv, NotAhead
<1> QED  BY <1>4, <1>5, <1>6 DEF StorageInv

LEMMA NextInv == StorageInv /\ [Next]_vars => StorageInv'
<1> SUFFICES ASSUME StorageInv, [Next]_vars PROVE StorageInv'
  OBVIOUS
<1>1. ASSUME NEW c \in Clients, IncrementAndCount(c) PROVE StorageInv'
  BY <1>1, BeginInv DEF IncrementAndCount
<1>2. ASSUME NEW c \in Clients, BatchIncrementAndCount(c) PROVE StorageInv'
  BY <1>2, BeginInv DEF BatchIncrementAndCount
<1>3. ASSUME NEW c \in Clients, NEW k \in Keys, Reply(c, k) PROVE StorageInv'
  BY <1>3, ReplyInv
<1>4. ASSUME NEW c \in Clients, Retry(c) PROVE StorageInv'
  BY <1>4, RetryInv
<1>5. ASSUME NEW c \in Clients, Fail(c) PROVE StorageInv'
  BY <1>5, FailInv
<1>6. ASSUME NEW m \in late, LateCommand(m) PROVE StorageInv'
  BY <1>6, LateInv
<1>7. ASSUME NEW n \in Nodes, Restart(n) PROVE StorageInv'
  <2>1. loaded' \in [Nodes -> BOOLEAN]
    BY <1>7 DEF Restart, StorageInv, TypeOK
  <2> QED  BY <1>7, <2>1, LoseInv DEF Restart
<1>8. CASE FlushAll
  <2>1. loaded' \in [Nodes -> BOOLEAN]
    BY <1>8 DEF FlushAll, StorageInv, TypeOK
  <2>2. /\ zset' = [k \in Keys |-> IF k \in Keys THEN {} ELSE zset[k]]
        /\ expireAt' = [k \in Keys |-> IF k \in Keys THEN 0 ELSE expireAt[k]]
        /\ log' = [k \in Keys |-> IF k \in Keys THEN {} ELSE log[k]]
        /\ answers' = [k \in Keys |-> IF k \in Keys THEN {} ELSE answers[k]]
        /\ UNCHANGED <<clock, call, late, begun>>
    BY <1>8 DEF FlushAll
  <2> QED  BY <2>1, <2>2, LoseInv
<1>9. CASE Tick
  BY <1>9, TickInv
<1>10. CASE UNCHANGED vars
  BY <1>10 DEF vars, redis, history, StorageInv, TypeOK, Retained, Fresh,
               NotAhead, Recorded, Counter!RecentOf
<1> QED  BY <1>1, <1>2, <1>3, <1>4, <1>5, <1>6, <1>7, <1>8, <1>9, <1>10
         DEF Next, ClientStep

\* Redis keeps every recorded tick that is still recent, under every
\* interleaving of calls, retries, late commands, restarts and expiries.
THEOREM StorageInvariant == Spec => []StorageInv
BY InitInv, NextInv, PTL DEF Spec
\* Every variable of the storage keeps its type.
THEOREM TypeInvariant == Spec => []TypeOK
<1>1. StorageInv => TypeOK
  BY DEF StorageInv
<1> QED  BY <1>1, StorageInvariant, PTL

-----------------------------------------------------------------------------
(***************************************************************************)
(* The refinement.                                                         *)
(***************************************************************************)

\* Cardinality means the same inside and outside the instance.
LEMMA SameCardinality == \A S : Counter!Cardinality(S) = Cardinality(S)
BY DEF Counter!Cardinality, Cardinality

\* A run of the script is a hit of the abstract counter; a refused one is none.
LEMMA ScriptRefines ==
    ASSUME StorageInv, StorageInv', NEW k \in Keys, NEW now \in Ticks,
           NEW window \in Windows, NEW pipe \in BOOLEAN,
           InTime(now), Script(k, now, window, pipe)
    PROVE  [Counter!Next]_(Counter!vars)
<1> DEFINE kept == Trim(Live(k), now, window) \cup {now}
           hit == log[k] \cup {now}
           a == [tick |-> now, window |-> window, count |-> Cardinality(kept)]
<1>1. CASE Record(k, now, window)
  <2>1. /\ Counter!RecentOf(hit) \subseteq kept
        /\ kept \subseteq Counter!Visible(hit, now, window)
        /\ kept \in SUBSET Ticks
    BY Kept
  <2>2. hit \in SUBSET Ticks
    BY DEF StorageInv, TypeOK
  <2>3. /\ log' = [log EXCEPT ![k] = hit]
        /\ answers' = [answers EXCEPT ![k] = @ \cup {a}]
        /\ log'[k] = hit /\ a \in answers'[k]
    BY <1>1 DEF Record, StorageInv, TypeOK
  <2>4. IsFiniteSet(kept) /\ IsFiniteSet(Counter!Visible(hit, now, window))
    <3>1. Counter!Visible(hit, now, window) \subseteq Ticks
      BY <2>2 DEF Counter!Visible
    <3> QED  BY <2>1, <3>1, TicksNat, FS_Subset
  <2>4a. \A S : Counter!Cardinality(S) = Cardinality(S)
    BY SameCardinality
  <2>5. Cardinality(Counter!RecentOf(hit)) <= Cardinality(kept)
    BY <2>1, <2>4, FS_Subset
  <2>6. Cardinality(kept) <= Cardinality(Counter!Visible(hit, now, window))
    BY <2>1, <2>4, FS_Subset
  <2>7. a \in Answer
    BY <2>4, FS_CardinalityType DEF Answer
  <2>8. Counter!Hit(k, a)
    BY <2>3, <2>4a, <2>5, <2>6 DEF Counter!Hit
  <2>8a. Cardinality(kept) \in 0 .. Counter!Cardinality(Ticks)
    BY <2>1, <2>4, <2>4a, TicksNat, FS_Subset, FS_CardinalityType
  <2>9. Counter!Next
    BY <2>8, <2>8a DEF Counter!Next
  <2> QED  BY <2>9
<1>2. CASE UNCHANGED <<redis, history>>
  BY <1>2 DEF redis, history, Counter!vars
<1> QED  BY <1>1, <1>2 DEF Script

LEMMA StepRefines ==
    StorageInv /\ StorageInv' /\ [Next]_vars => [Counter!Next]_(Counter!vars)
<1> SUFFICES ASSUME StorageInv, StorageInv', [Next]_vars
             PROVE  [Counter!Next]_(Counter!vars)
  OBVIOUS
<1>1. ASSUME UNCHANGED history PROVE UNCHANGED Counter!vars
  BY <1>1 DEF history, Counter!vars
<1>2. ASSUME NEW c \in Clients, ClientStep(c)
      PROVE  [Counter!Next]_(Counter!vars)
  <2>1. CASE IncrementAndCount(c) \/ BatchIncrementAndCount(c)
    BY <1>1, <2>1 DEF IncrementAndCount, BatchIncrementAndCount, Begin
  <2>2. ASSUME NEW k \in Keys, Reply(c, k) PROVE [Counter!Next]_(Counter!vars)
    <3>1. /\ call[c].tick \in Ticks /\ call[c].window \in Windows
          /\ call[c].pipe \in BOOLEAN
      BY DEF StorageInv, TypeOK, Call
    <3> QED  BY <2>2, <3>1, ScriptRefines DEF Reply
  <2>3. CASE Retry(c) \/ Fail(c)
    BY <1>1, <2>3 DEF Retry, Fail
  <2> QED  BY <1>2, <2>1, <2>2, <2>3 DEF ClientStep
<1>3. ASSUME NEW m \in late, LateCommand(m) PROVE [Counter!Next]_(Counter!vars)
  <2>1. /\ m.key \in Keys /\ m.tick \in Ticks /\ m.window \in Windows
        /\ m.pipe \in BOOLEAN
    BY DEF StorageInv, TypeOK, Command
  <2> QED  BY <1>3, <2>1, ScriptRefines DEF LateCommand
<1>4. ASSUME NEW n \in Nodes, Restart(n) PROVE [Counter!Next]_(Counter!vars)
  <2>1. Counter!Forget({k \in Keys : Home[k] = n})
    BY <1>4 DEF Restart, Counter!Forget
  <2> QED  BY <2>1 DEF Counter!Next
<1>5. CASE FlushAll
  <2>1. Counter!Forget(Keys)
    BY <1>5 DEF FlushAll, Counter!Forget
  <2> QED  BY <2>1 DEF Counter!Next
<1>6. CASE Tick
  BY <1>1, <1>6 DEF Tick
<1>7. CASE UNCHANGED vars
  BY <1>1, <1>7 DEF vars
<1> QED  BY <1>2, <1>3, <1>4, <1>5, <1>6, <1>7 DEF Next

\* RedisStorage implements the abstract counter: retries, reordering, key
\* expiry, clock skew and shared windows never show outside the two bounds.
THEOREM Implements == Spec => Refinement
<1>1. Init => Counter!Init
  BY DEF Init, Counter!Init
<1> QED  BY <1>1, StepRefines, StorageInvariant, PTL DEF Spec, Refinement, Counter!Spec

-----------------------------------------------------------------------------
(***************************************************************************)
(* The abstract counter: its bounds follow from its own steps.             *)
(***************************************************************************)

\* A hit is answered with an answer, which the answers then hold.
LEMMA Hits ==
    ASSUME Counter!TypeOK, Counter!Next
    PROVE  \/ \E k \in Keys : \E a \in answers'[k] :
                 a \in Counter!Answer /\ Counter!Hit(k, a)
           \/ \E K \in SUBSET Keys : Counter!Forget(K)
<1>1. ASSUME NEW k \in Keys, NEW t \in Ticks, NEW w \in Windows,
             NEW n \in 0 .. Cardinality(Ticks),
             Counter!Hit(k, [tick |-> t, window |-> w, count |-> n])
      PROVE  \E a \in answers'[k] : a \in Counter!Answer /\ Counter!Hit(k, a)
  <2> DEFINE a == [tick |-> t, window |-> w, count |-> n]
  <2>1. n \in Nat
    BY TicksNat, FS_CardinalityType
  <2>2. a \in Counter!Answer
    BY <2>1 DEF Counter!Answer
  <2>3. a \in answers'[k]
    BY <1>1 DEF Counter!Hit, Counter!TypeOK
  <2> QED  BY <1>1, <2>2, <2>3
<1> QED  BY <1>1, SameCardinality DEF Counter!Next

\* The states and steps of the counter have their types.
THEOREM CounterTypes == Counter!Spec => []Counter!TypeOK
<1>1. Counter!Init => Counter!TypeOK
  BY DEF Counter!Init, Counter!TypeOK
<1>2. Counter!TypeOK /\ [Counter!Next]_(Counter!vars) => Counter!TypeOK'
  <2> SUFFICES ASSUME Counter!TypeOK, [Counter!Next]_(Counter!vars) PROVE Counter!TypeOK'
    OBVIOUS
  <2>1. ASSUME NEW k \in Keys, NEW a \in answers'[k], a \in Counter!Answer, Counter!Hit(k, a)
        PROVE  Counter!TypeOK'
    BY <2>1 DEF Counter!TypeOK, Counter!Hit, Counter!Answer
  <2>2. ASSUME NEW K \in SUBSET Keys, Counter!Forget(K) PROVE Counter!TypeOK'
    BY <2>2 DEF Counter!TypeOK, Counter!Forget
  <2>3. CASE UNCHANGED Counter!vars
    BY <2>3 DEF Counter!TypeOK, Counter!vars
  <2> QED  BY <2>1, <2>2, <2>3, Hits
<1> QED  BY <1>1, <1>2, PTL DEF Counter!Spec

\* Sets of ticks are finite, so that they have a cardinality.
LEMMA FiniteTicks ==
    ASSUME NEW S \in SUBSET Ticks
    PROVE  IsFiniteSet(S) /\ Cardinality(S) \in Nat
BY TicksNat, FS_Subset, FS_CardinalityType

\* A larger set of ticks has at least as many of them.
LEMMA SubsetCount ==
    ASSUME NEW S \in SUBSET Ticks, NEW T \in SUBSET S
    PROVE  Cardinality(T) <= Cardinality(S)
BY FiniteTicks, FS_Subset

\* Adding a tick makes no old tick recent again.
LEMMA RecentShrinks ==
    ASSUME NEW S \in SUBSET Ticks, NEW t \in Ticks
    PROVE  Counter!RecentOf(S \cup {t}) \cap S \subseteq Counter!RecentOf(S)
BY DEF Counter!RecentOf

\* Answers are about logged ticks.
Logged == \A k \in Keys : \A a \in answers[k] : a.tick \in log[k]

\* The bound holds because a hit whose count is within the limit has at most
\* limit recent ticks in the log, admitted or not, and any other hit can only
\* age the ticks that were admitted before.
BoundInv == Counter!TypeOK /\ Logged /\ Counter!ShortestWindowBound

LEMMA HitBound ==
    ASSUME BoundInv, Counter!TypeOK',
           NEW k \in Keys, NEW a \in Counter!Answer, Counter!Hit(k, a),
           NEW limit \in Limits
    PROVE  Cardinality(Counter!RecentOf(log'[k]) \cap Counter!Admitted(k, limit)') <= limit
<1> DEFINE New == Counter!RecentOf(log'[k]) \cap Counter!Admitted(k, limit)'
           Old == Counter!RecentOf(log[k]) \cap Counter!Admitted(k, limit)
<1>1. log[k] \in SUBSET Ticks /\ log'[k] = log[k] \cup {a.tick} /\ a.tick \in Ticks
  BY DEF BoundInv, Counter!TypeOK, Counter!Hit, Counter!Answer
<1>2. answers'[k] = answers[k] \cup {a}
  BY DEF BoundInv, Counter!TypeOK, Counter!Hit
<1>3. limit \in Nat /\ a.count \in Nat
  BY StorageAssumption DEF Counter!Answer
<1>4. Counter!RecentOf(log'[k]) \in SUBSET Ticks
  BY <1>1 DEF Counter!RecentOf
<1>5. CASE a.count <= limit
  <2>1. Cardinality(New) <= Cardinality(Counter!RecentOf(log'[k]))
    BY <1>4, SubsetCount
  <2>2. Cardinality(Counter!RecentOf(log'[k])) <= a.count
    BY SameCardinality DEF Counter!Hit
  <2>3. Cardinality(New) \in Nat /\ Cardinality(Counter!RecentOf(log'[k])) \in Nat
    BY <1>4, FiniteTicks
  <2> QED  BY <1>3, <1>5, <2>1, <2>2, <2>3
<1>6. CASE ~(a.count <= limit)
  <2>1. Counter!Admitted(k, limit)' \subseteq Counter!Admitted(k, limit)
    BY <1>1, <1>2, <1>6 DEF Counter!Admitted, BoundInv, Logged
  <2>2. New \subseteq Old
    BY <1>1, <2>1, RecentShrinks DEF Counter!Admitted
  <2>3. Old \in SUBSET Ticks
    BY <1>1 DEF Counter!RecentOf
  <2>4. Cardinality(New) <= Cardinality(Old)
    BY <2>2, <2>3, SubsetCount
  <2>5. Cardinality(Old) <= limit
    BY SameCardinality DEF BoundInv, Counter!ShortestWindowBound
  <2>6. Cardinality(New) \in Nat /\ Cardinality(Old) \in Nat
    BY <2>2, <2>3, FiniteTicks
  <2> QED  BY <1>3, <2>4, <2>5, <2>6
<1> QED  BY <1>5, <1>6

LEMMA BoundInit == ASSUME Counter!Init PROVE BoundInv
<1>1. Counter!TypeOK /\ Logged
  BY DEF Counter!Init, Counter!TypeOK, Logged
<1>2. ASSUME NEW k \in Keys, NEW limit \in Limits
      PROVE  Cardinality(Counter!RecentOf(log[k]) \cap Counter!Admitted(k, limit)) <= limit
  <2>1. Counter!RecentOf(log[k]) \cap Counter!Admitted(k, limit) = {}
    BY DEF Counter!Init, Counter!Admitted
  <2> QED  BY <2>1, FS_EmptySet, StorageAssumption
<1> QED  BY <1>1, <1>2, SameCardinality DEF BoundInv, Counter!ShortestWindowBound

LEMMA BoundNext ==
    ASSUME BoundInv, Counter!TypeOK', [Counter!Next]_(Counter!vars)
    PROVE  BoundInv'
<1>1. ASSUME NEW k \in Keys, NEW a \in answers'[k], a \in Counter!Answer, Counter!Hit(k, a)
      PROVE  BoundInv'
  <2>1. Logged'
    BY <1>1 DEF BoundInv, Counter!TypeOK, Logged, Counter!Hit
  <2>2. ASSUME NEW j \in Keys, NEW limit \in Limits
        PROVE  Cardinality(Counter!RecentOf(log'[j]) \cap Counter!Admitted(j, limit)') <= limit
    <3>1. CASE j = k
      BY <1>1, <3>1, HitBound
    <3>2. CASE j # k
      BY <1>1, <3>2, SameCardinality DEF BoundInv, Counter!TypeOK,
         Counter!ShortestWindowBound, Counter!Admitted, Counter!Hit
    <3> QED  BY <3>1, <3>2
  <2> QED  BY <2>1, <2>2, SameCardinality DEF BoundInv, Counter!ShortestWindowBound
<1>2. ASSUME NEW K \in SUBSET Keys, Counter!Forget(K) PROVE BoundInv'
  <2>1. Logged'
    BY <1>2 DEF BoundInv, Logged, Counter!Forget
  <2>2. ASSUME NEW j \in Keys, NEW limit \in Limits
        PROVE  Cardinality(Counter!RecentOf(log'[j]) \cap Counter!Admitted(j, limit)') <= limit
    <3>1. CASE j \in K
      <4>1. Counter!RecentOf(log'[j]) \cap Counter!Admitted(j, limit)' = {}
        BY <1>2, <3>1 DEF Counter!Forget, Counter!Admitted
      <4> QED  BY <4>1, FS_EmptySet, StorageAssumption
    <3>2. CASE j \notin K
      BY <1>2, <3>2, SameCardinality DEF BoundInv, Counter!ShortestWindowBound,
         Counter!Admitted, Counter!Forget
    <3> QED  BY <3>1, <3>2
  <2> QED  BY <2>1, <2>2, SameCardinality DEF BoundInv, Counter!ShortestWindowBound
<1>3. CASE UNCHANGED Counter!vars
  BY <1>3 DEF BoundInv, Logged, Counter!ShortestWindowBound, Counter!Admitted,
              Counter!vars
<1> QED  BY <1>1, <1>2, <1>3, Hits DEF BoundInv

\* In any Shortest window that ends at the latest hit of a key, hits at no more
\* than limit ticks are admitted: what makes the counter a rate limiter.
THEOREM CounterBounded == Counter!Spec => []Counter!ShortestWindowBound
<1>1. BoundInv => Counter!ShortestWindowBound
  BY DEF BoundInv
<1>2. Counter!Init => BoundInv
  BY BoundInit
<1>3. BoundInv /\ Counter!TypeOK' /\ [Counter!Next]_(Counter!vars) => BoundInv'
  BY BoundNext
<1> QED  BY <1>1, <1>2, <1>3, CounterTypes, PTL DEF Counter!Spec

LEMMA CountsInit == Counter!Init => Counter!NeverOvercounts
BY DEF Counter!Init, Counter!NeverOvercounts

LEMMA CountsNext ==
    ASSUME Counter!TypeOK, Counter!TypeOK', Counter!NeverOvercounts,
           [Counter!Next]_(Counter!vars)
    PROVE  Counter!NeverOvercounts'
<1>1. ASSUME NEW k \in Keys, NEW a \in answers'[k], a \in Counter!Answer, Counter!Hit(k, a),
             NEW j \in Keys, NEW b \in answers'[j]
      PROVE  b.count <= Cardinality(Counter!Visible(log'[j], b.tick, b.window))
  <2>1. CASE j = k /\ b = a
    BY <1>1, <2>1, SameCardinality DEF Counter!Hit
  <2>2. CASE ~(j = k /\ b = a)
    <3> DEFINE Before == Counter!Visible(log[j], b.tick, b.window)
               After == Counter!Visible(log'[j], b.tick, b.window)
    <3>1. b \in answers[j]
      BY <1>1, <2>2 DEF Counter!TypeOK, Counter!Hit
    <3>2. After \in SUBSET Ticks /\ Before \in SUBSET After
      BY <1>1 DEF Counter!TypeOK, Counter!Hit, Counter!Visible
    <3>3. Cardinality(Before) <= Cardinality(After)
      BY <3>2, SubsetCount
    <3>4. b.count <= Cardinality(Before) /\ b.count \in Nat
      BY <3>1, SameCardinality DEF Counter!NeverOvercounts, Counter!TypeOK, Counter!Answer
    <3>5. Cardinality(Before) \in Nat /\ Cardinality(After) \in Nat
      BY <3>2, FiniteTicks
    <3> QED  BY <3>3, <3>4, <3>5
  <2> QED  BY <2>1, <2>2
<1>2. ASSUME NEW K \in SUBSET Keys, Counter!Forget(K) PROVE Counter!NeverOvercounts'
  BY <1>2 DEF Counter!NeverOvercounts, Counter!Forget
<1>3. CASE UNCHANGED Counter!vars
  BY <1>3 DEF Counter!NeverOvercounts, Counter!vars
<1> QED  BY <1>1, <1>2, <1>3, Hits, SameCardinality DEF Counter!NeverOvercounts

\* No answer exceeds the number of ticks that the key was hit at since the
\* start of the window that was asked about.
THEOREM CounterNeverOvercounts == Counter!Spec => []Counter!NeverOvercounts
<1>1. /\ Counter!TypeOK /\ Counter!TypeOK' /\ Counter!NeverOvercounts
      /\ [Counter!Next]_(Counter!vars)
      => Counter!NeverOvercounts'
  BY CountsNext
<1> QED  BY <1>1, CountsInit, CounterTypes, PTL DEF Counter!Spec

-----------------------------------------------------------------------------
(***************************************************************************)
(* What the storage has from the counter.                                  *)
(***************************************************************************)

\* In any Shortest window that ends at the latest hit of a key, hits at no more
\* than limit ticks are admitted, whatever happens between client and Redis.
THEOREM StorageBounded == Spec => []ShortestWindowBound
BY Implements, CounterBounded, PTL DEF Refinement, ShortestWindowBound

\* No reply exceeds the number of recorded ticks that lie in the caller's
\* window or after it.
THEOREM StorageNeverOvercounts == Spec => []NeverOvercounts
BY Implements, CounterNeverOvercounts, PTL DEF Refinement, NeverOvercounts

\* README's windows: a key that is limited over one window only is limited over
\* it.  What fails is the second window that shares the key's sorted set.
THEOREM SingleWindow ==
    ASSUME Windows = {Shortest} PROVE Spec => []EveryWindowBound
<1>1. TypeOK /\ ShortestWindowBound => EveryWindowBound
  <2> SUFFICES ASSUME TypeOK, ShortestWindowBound, NEW k \in Keys, NEW limit \in Limits
               PROVE  Cardinality({t \in log[k] :
                          /\ \A u \in log[k] : u - Shortest < t
                          /\ \E a \in answers[k] :
                                a.tick = t /\ a.window = Shortest /\ a.count <= limit})
                      <= limit
    BY DEF EveryWindowBound
  <2> DEFINE bounded == {t \in log[k] :
                            /\ \A u \in log[k] : u - Shortest < t
                            /\ \E a \in answers[k] :
                                  a.tick = t /\ a.window = Shortest /\ a.count <= limit}
             all == Counter!RecentOf(log[k]) \cap Counter!Admitted(k, limit)
  <2>1. bounded \in SUBSET all /\ all \in SUBSET Ticks
    BY DEF TypeOK, Counter!RecentOf, Counter!Admitted
  <2>2. Cardinality(all) <= limit
    BY SameCardinality DEF ShortestWindowBound, Counter!ShortestWindowBound
  <2> HIDE DEF bounded, all
  <2>3. Cardinality(bounded) <= Cardinality(all)
    BY <2>1, SubsetCount
  <2>4. Cardinality(bounded) \in Nat /\ Cardinality(all) \in Nat /\ limit \in Nat
    BY <2>1, FiniteTicks, StorageAssumption
  <2>5. Cardinality(bounded) <= limit
    BY <2>2, <2>3, <2>4
  <2> QED  BY <2>5 DEF bounded
<1> QED  BY <1>1, TypeInvariant, StorageBounded, PTL

\* A call about the shortest window whose tick is the latest of its key counts
\* exactly the recorded ticks of its window, the call's own included: both
\* bounds of the abstract counter then say the same.
ExactWhenLatest ==
    [][\A c \in Clients, k \in Keys :
          /\ Reply(c, k) /\ Runs(k, call[c].pipe)
          /\ call[c].window = Shortest
          /\ \A t \in log[k] : t <= call[c].tick
          => zset'[k] = Counter!Visible(log'[k], call[c].tick, Shortest)]_vars

THEOREM ExactAnswers == Spec => ExactWhenLatest
<1>1. ASSUME StorageInv, NEW c \in Clients, NEW k \in Keys, Reply(c, k),
             Runs(k, call[c].pipe), call[c].window = Shortest,
             \A t \in log[k] : t <= call[c].tick
      PROVE  zset'[k] = Counter!Visible(log'[k], call[c].tick, Shortest)
  <2> DEFINE now == call[c].tick
             kept == Trim(Live(k), now, Shortest) \cup {now}
             hit == log[k] \cup {now}
  <2>1. /\ now \in Ticks /\ InTime(now) /\ Record(k, now, Shortest)
        /\ log[k] \in SUBSET Ticks
    BY <1>1 DEF Reply, Script, StorageInv, TypeOK, Call
  <2>2. zset'[k] = kept /\ log'[k] = hit
    BY <1>1, <2>1 DEF Record, StorageInv, TypeOK
  <2>3. Counter!RecentOf(hit) \subseteq kept /\ kept \subseteq Counter!Visible(hit, now, Shortest)
    <3>1. StorageInv /\ now \in Ticks /\ InTime(now) /\ Shortest \in Windows
      BY <1>1, <2>1, StorageAssumption
    <3> HIDE DEF now
    <3> QED  BY <3>1, Kept
  <2>4. Counter!Visible(hit, now, Shortest) \subseteq Counter!RecentOf(hit)
    <3>1. now \in Nat /\ Shortest \in Nat /\ hit \in SUBSET Nat
      BY <2>1, TicksNat, StorageAssumption
    <3>2. \A u \in hit : u <= now
      BY <1>1, <3>1
    <3> HIDE DEF now, hit
    <3>3. ASSUME NEW t \in hit, t > now - Shortest, NEW u \in hit
          PROVE  u - Shortest < t
      <4>1. t \in Nat /\ u \in Nat /\ u <= now
        BY <3>1, <3>2
      <4> QED  BY <3>1, <3>3, <4>1
    <3> QED  BY <3>3 DEF Counter!Visible, Counter!RecentOf
  <2> QED  BY <2>2, <2>3, <2>4
<1>2. StorageInv /\ [Next]_vars =>
         [\A c \in Clients, k \in Keys :
             /\ Reply(c, k) /\ Runs(k, call[c].pipe)
             /\ call[c].window = Shortest
             /\ \A t \in log[k] : t <= call[c].tick
             => zset'[k] = Counter!Visible(log'[k], call[c].tick, Shortest)]_vars
  BY <1>1
<1> QED  BY <1>2, StorageInvariant, PTL DEF Spec, ExactWhenLatest

-----------------------------------------------------------------------------
(***************************************************************************)
(* One tick per call.  The ticks that are recorded at a key or may still   *)
(* be are those of the calls made about it, so they are no more than these.*)
(***************************************************************************)

\* The ticks at k, those of the calls about it and of its late commands.
TicksOf(k) ==
    log[k] \cup {call[c].tick : c \in {d \in Clients : k \in call[d].keys}}
           \cup {m.tick : m \in {n \in late : n.key = k}}

CallsInv ==
    /\ \A c \in Clients : call[c].pending \subseteq call[c].keys
    /\ \A k \in Keys : Cardinality(TicksOf(k)) <= begun[k]

LEMMA TicksOfFinite ==
    ASSUME TypeOK, NEW k \in Keys
    PROVE  TicksOf(k) \subseteq Ticks /\ IsFiniteSet(TicksOf(k))
<1>1. TicksOf(k) \subseteq Ticks
  BY DEF TicksOf, TypeOK, Call, Command
<1> QED  BY <1>1, TicksNat, FS_Subset

\* A step that makes no tick possible at k that was not keeps the bound.
LEMMA NoNewTick ==
    ASSUME TypeOK, NEW k \in Keys, Cardinality(TicksOf(k)) <= begun[k],
           TicksOf(k)' \subseteq TicksOf(k), begun'[k] = begun[k]
    PROVE  (Cardinality(TicksOf(k)) <= begun[k])'
<1> DEFINE old == TicksOf(k)
           new == TicksOf(k)'
<1>1. IsFiniteSet(old) /\ new \subseteq old
  BY TicksOfFinite
<1> HIDE DEF old, new
<1>2. Cardinality(new) <= Cardinality(old) /\ Cardinality(new) \in Nat
      /\ Cardinality(old) \in Nat
  BY <1>1, FS_Subset, FS_CardinalityType
<1>3. begun[k] \in Nat
  BY Numbers DEF TypeOK
<1>4. Cardinality(old) <= begun[k]
  BY DEF old
<1>5. Cardinality(new) <= begun'[k]
  BY <1>2, <1>3, <1>4
<1> QED  BY <1>5 DEF new

LEMMA BeginCalls ==
    ASSUME TypeOK, CallsInv, NEW c \in Clients, NEW K \in SUBSET Keys,
           NEW now \in ClientNow, NEW window \in Windows, NEW pipe \in BOOLEAN,
           Begin(c, K, now, window, pipe)
    PROVE  CallsInv'
<1> DEFINE started == [keys |-> K, pending |-> K, tick |-> now,
                       window |-> window, pipe |-> pipe, tries |-> 0]
<1>1. call' = [call EXCEPT ![c] = started] /\ late' = late /\ log' = log
  BY DEF Begin, history
<1>2. call'[c] = started /\ \A d \in Clients \ {c} : call'[d] = call[d]
  BY <1>1 DEF TypeOK
<1>3. \A d \in Clients : call'[d].pending \subseteq call'[d].keys
  BY <1>2 DEF CallsInv
<1>4. ASSUME NEW k \in Keys PROVE (Cardinality(TicksOf(k)) <= begun[k])'
  <2>1. CASE k \notin K
    <3>1. TicksOf(k)' \subseteq TicksOf(k)
      BY <1>1, <1>2, <2>1 DEF TicksOf
    <3>2. begun'[k] = begun[k]
      BY <2>1 DEF Begin
    <3> QED  BY <3>1, <3>2, NoNewTick DEF CallsInv
  <2>2. CASE k \in K
    <3> DEFINE old == TicksOf(k)
               new == TicksOf(k)'
    <3>1. new \subseteq old \cup {now}
      BY <1>1, <1>2 DEF TicksOf
    <3>2. IsFiniteSet(old) /\ Cardinality(old) <= begun[k]
      BY TicksOfFinite DEF CallsInv
    <3> HIDE DEF old, new
    <3>3. IsFiniteSet(old \cup {now}) /\ Cardinality(old \cup {now}) <= Cardinality(old) + 1
      <4>1. Cardinality(old) \in Nat
        BY <3>2, FS_CardinalityType
      <4>2. IsFiniteSet(old \cup {now})
        BY <3>2, FS_AddElement
      <4>3. Cardinality(old \cup {now}) =
              IF now \in old THEN Cardinality(old) ELSE Cardinality(old) + 1
        BY <3>2, FS_AddElement
      <4> QED  BY <4>1, <4>2, <4>3
    <3>4. Cardinality(new) <= Cardinality(old \cup {now})
      BY <3>1, <3>3, FS_Subset
    <3>5. /\ Cardinality(old) \in Nat /\ Cardinality(old \cup {now}) \in Nat
          /\ Cardinality(new) \in Nat
      BY <3>1, <3>2, <3>3, FS_Subset, FS_CardinalityType
    <3>6. begun'[k] = begun[k] + 1 /\ begun[k] \in Nat
      BY <2>2, Numbers DEF Begin, TypeOK
    <3>7. Cardinality(new) <= begun'[k]
      BY <3>2, <3>3, <3>4, <3>5, <3>6
    <3> QED  BY <3>7 DEF new
  <2> QED  BY <2>1, <2>2
<1> QED  BY <1>3, <1>4 DEF CallsInv

\* Running the script on k records a tick of k's, or nothing.
LEMMA ScriptRecords ==
    ASSUME TypeOK, NEW k \in Keys, NEW now, NEW window, NEW pipe,
           Script(k, now, window, pipe)
    PROVE  \A j \in Keys : log'[j] \subseteq
                              IF j = k THEN log[j] \cup {now} ELSE log[j]
BY DEF Script, Record, history, TypeOK

LEMMA OtherCalls ==
    ASSUME TypeOK, CallsInv, UNCHANGED begun,
           \A c \in Clients : call'[c].pending \subseteq call'[c].keys,
           \A k \in Keys : TicksOf(k)' \subseteq TicksOf(k)
    PROVE  CallsInv'
<1>1. ASSUME NEW k \in Keys PROVE (Cardinality(TicksOf(k)) <= begun[k])'
  BY NoNewTick DEF CallsInv
<1> QED  BY <1>1 DEF CallsInv

LEMMA CallsNext == TypeOK /\ CallsInv /\ [Next]_vars => CallsInv'
<1> SUFFICES ASSUME TypeOK, CallsInv, [Next]_vars PROVE CallsInv'
  OBVIOUS
<1>1. ASSUME NEW c \in Clients, IncrementAndCount(c) \/ BatchIncrementAndCount(c)
      PROVE  CallsInv'
  BY <1>1, BeginCalls DEF IncrementAndCount, BatchIncrementAndCount
<1>2. ASSUME NEW c \in Clients, NEW k \in Keys, Reply(c, k) PROVE CallsInv'
  <2> DEFINE rest == call[c].pending \ {k}
             now == call[c].tick
  <2>1. k \in call[c].keys /\ call[c] \in Call
    BY <1>2 DEF Reply, CallsInv, TypeOK
  <2>2. \A j \in Keys : log'[j] \subseteq
                           IF j = k THEN log[j] \cup {now} ELSE log[j]
    BY <1>2, ScriptRecords DEF Reply
  <2>3. /\ call'[c] = IF rest = {} THEN NoCall ELSE [call[c] EXCEPT !.pending = rest]
        /\ \A d \in Clients \ {c} : call'[d] = call[d]
        /\ late' = late /\ begun' = begun
    BY <1>2 DEF Reply, TypeOK
  <2>4. /\ call'[c].keys = {} \/ (call'[c].keys = call[c].keys /\ call'[c].tick = now)
        /\ call'[c].pending \subseteq call'[c].keys
    BY <2>1, <2>3 DEF NoCall, CallsInv, Call
  <2>5. \A d \in Clients : call'[d].pending \subseteq call'[d].keys
    BY <2>3, <2>4 DEF CallsInv
  <2>6. ASSUME NEW j \in Keys PROVE TicksOf(j)' \subseteq TicksOf(j)
    <3>1. log'[j] \subseteq TicksOf(j)
      BY <2>1, <2>2 DEF TicksOf
    <3>2. ASSUME NEW d \in Clients, j \in call'[d].keys
          PROVE  j \in call[d].keys /\ call'[d].tick = call[d].tick
      BY <2>3, <2>4, <3>2
    <3>3. {call'[d].tick : d \in {e \in Clients : j \in call'[e].keys}} \subseteq TicksOf(j)
      BY <3>2 DEF TicksOf
    <3> QED  BY <2>3, <3>1, <3>3 DEF TicksOf
  <2> QED  BY <2>3, <2>5, <2>6, OtherCalls
<1>3. ASSUME NEW c \in Clients, Retry(c) \/ Fail(c) PROVE CallsInv'
  <2>1. call[c] \in Call /\ call[c].pending \subseteq call[c].keys
    BY DEF CallsInv, TypeOK
  <2>2. /\ \A d \in Clients \ {c} : call'[d] = call[d]
        /\ late' = late \cup Abandoned(c) /\ begun' = begun /\ log' = log
    BY <1>3 DEF Retry, Fail, TypeOK, history
  <2>3. /\ call'[c].keys = {} \/ (call'[c].keys = call[c].keys /\ call'[c].tick = call[c].tick)
        /\ call'[c].pending \subseteq call'[c].keys
    BY <1>3, <2>1 DEF Retry, Fail, NoCall, TypeOK, Call
  <2>4. \A d \in Clients : call'[d].pending \subseteq call'[d].keys
    BY <2>2, <2>3 DEF CallsInv
  <2>5. \A m \in Abandoned(c) : m.key \in call[c].keys /\ m.tick = call[c].tick
    BY <2>1 DEF Abandoned
  <2>6. ASSUME NEW j \in Keys PROVE TicksOf(j)' \subseteq TicksOf(j)
    BY <2>2, <2>3, <2>5 DEF TicksOf
  <2> QED  BY <2>2, <2>4, <2>6, OtherCalls
<1>4. ASSUME NEW m \in late, LateCommand(m) PROVE CallsInv'
  <2>1. m.key \in Keys
    BY DEF TypeOK, Command
  <2>2. \A j \in Keys : log'[j] \subseteq
                           IF j = m.key THEN log[j] \cup {m.tick} ELSE log[j]
    BY <1>4, <2>1, ScriptRecords DEF LateCommand
  <2>3. call' = call /\ begun' = begun /\ late' \subseteq late
    BY <1>4 DEF LateCommand
  <2>4. ASSUME NEW j \in Keys PROVE TicksOf(j)' \subseteq TicksOf(j)
    BY <2>2, <2>3 DEF TicksOf
  <2> QED  BY <2>3, <2>4, OtherCalls DEF CallsInv
<1>5. ASSUME (\E n \in Nodes : Restart(n)) \/ FlushAll \/ Tick \/ UNCHANGED vars
      PROVE  CallsInv'
  <2>1. /\ call' = call /\ begun' = begun /\ late' \subseteq late
        /\ \A j \in Keys : log'[j] \subseteq log[j]
    BY <1>5 DEF Restart, FlushAll, Tick, vars, history
  <2>2. ASSUME NEW j \in Keys PROVE TicksOf(j)' \subseteq TicksOf(j)
    BY <2>1 DEF TicksOf
  <2> QED  BY <2>1, <2>2, OtherCalls DEF CallsInv
<1> QED  BY <1>1, <1>2, <1>3, <1>4, <1>5 DEF Next, ClientStep

\* However often the commands of a call are sent, executed, abandoned or
\* delayed, on however many nodes, it leaves at most one tick per key.
THEOREM OneTick == Spec => []OneTickPerCall
<1>1. Init => CallsInv
  <2> SUFFICES ASSUME Init, NEW k \in Keys PROVE Cardinality(TicksOf(k)) <= begun[k]
    BY DEF Init, CallsInv, NoCall
  <2>1. TicksOf(k) = {}
    BY DEF Init, TicksOf, NoCall
  <2> QED  BY <2>1, FS_EmptySet DEF Init
<1>2. TypeOK /\ CallsInv => OneTickPerCall
  <2> SUFFICES ASSUME TypeOK, CallsInv, NEW k \in Keys
               PROVE  Cardinality(log[k]) <= begun[k]
    BY DEF OneTickPerCall
  <2>1. log[k] \subseteq TicksOf(k) /\ IsFiniteSet(TicksOf(k))
    BY TicksOfFinite DEF TicksOf
  <2>2. Cardinality(log[k]) <= Cardinality(TicksOf(k))
    BY <2>1, FS_Subset
  <2>3. Cardinality(log[k]) \in Nat /\ Cardinality(TicksOf(k)) \in Nat
    BY <2>1, FS_Subset, FS_CardinalityType
  <2>4. begun[k] \in Nat /\ Cardinality(TicksOf(k)) <= begun[k]
    BY Numbers DEF CallsInv, TypeOK
  <2> QED  BY <2>2, <2>3, <2>4
<1> QED  BY <1>1, <1>2, CallsNext, TypeInvariant, PTL DEF Spec
=============================================================================
