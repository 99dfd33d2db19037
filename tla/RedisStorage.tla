---------------------------- MODULE RedisStorage ----------------------------
(***************************************************************************)
(* internal/storage/redis.go: the sliding window counter.  A call reads    *)
(* the clock of its own machine, sends one Lua script per key to the Redis *)
(* node of that key, and returns the cardinality of the key's sorted set.  *)
(* The script is atomic; everything around it is not: the client's clock   *)
(* may be off, the command may be delayed, the reply may be lost and the   *)
(* whole attempt retried with the same arguments, the caller may give up   *)
(* while the command is still under way, and a node may restart empty.     *)
(*                                                                         *)
(* A sorted set is the set of its members: the script adds `now' as both   *)
(* member and score.                                                       *)
(***************************************************************************)
EXTENDS Integers, FiniteSets

CONSTANTS
    Clients,     \* goroutines that call the storage, on any machine
    Keys,        \* the keys they count
    Nodes,       \* the Redis nodes (one, unless ClusterMode)
    Home,        \* Home[k]: the node that holds k
    Windows,     \* the windows asked about, in milliseconds
    Shortest,    \* the smallest of them
    Grace,       \* the 1000 that the script adds to the window for PEXPIRE
    MaxLag,      \* how long a command may take from reading `now' to Redis,
                 \* plus how far the client's clock may be behind Redis's
    MaxLead,     \* how far a client's clock may be ahead of Redis's
    Limits,      \* the limits that callers compare a count with
    MaxRetries,  \* the client's MaxRetries
    MaxClock,    \* bound of the model: the last instant considered
    MaxCalls     \* bound of the model: calls per key

ASSUME StorageAssumption ==
    /\ IsFiniteSet(Keys)
    /\ Home \in [Keys -> Nodes]
    /\ Windows \subseteq Nat \ {0}
    /\ Shortest \in Windows
    /\ \A w \in Windows : Shortest <= w
    /\ {Grace, MaxLag, MaxLead, MaxRetries, MaxClock, MaxCalls} \subseteq Nat
    /\ MaxLag <= MaxClock
    /\ Limits \subseteq Nat

\* The skew and delay that the extra second of key life has to absorb.
ASSUME SkewAssumption == MaxLag + MaxLead <= Grace

VARIABLES
    clock,       \* the clock of the Redis nodes, in milliseconds
    zset,        \* zset[k]: the sorted set stored at k, expired or not
    expireAt,    \* expireAt[k]: the instant at which it expires
    loaded,      \* loaded[n]: node n has the script in its script cache
    call,        \* call[c]: the call that client c is in
    late,        \* commands of abandoned attempts that may still reach Redis
    begun,       \* begun[k]: history, how many calls were made about k
    log,         \* log[k]: history, the ticks recorded at k
    answers      \* answers[k]: history, the replies given about k

redis == <<zset, expireAt, loaded>>
history == <<log, answers>>
vars == <<clock, redis, call, late, begun, history>>

Ticks == 0 .. (MaxClock + MaxLead)
Answer == [tick : Ticks, window : Windows, count : Nat]

\* keys is {} when the client is in no call; pending are the keys whose command
\* of the current attempt has not been answered.
Call == [keys : SUBSET Keys, pending : SUBSET Keys, tick : Ticks,
         window : Windows, pipe : BOOLEAN, tries : 0 .. MaxRetries]
Command == [key : Keys, tick : Ticks, window : Windows, pipe : BOOLEAN]

TypeOK ==
    /\ clock \in 0 .. MaxClock
    /\ zset \in [Keys -> SUBSET Ticks]
    /\ expireAt \in [Keys -> Nat]
    /\ loaded \in [Nodes -> BOOLEAN]
    /\ call \in [Clients -> Call]
    /\ late \subseteq Command
    /\ begun \in [Keys -> 0 .. MaxCalls]
    /\ log \in [Keys -> SUBSET Ticks]
    /\ answers \in [Keys -> SUBSET Answer]

NoCall == [keys |-> {}, pending |-> {}, tick |-> 0, window |-> Shortest,
           pipe |-> FALSE, tries |-> 0]

Init ==
    /\ clock = MaxLag
    /\ zset = [k \in Keys |-> {}]
    /\ expireAt = [k \in Keys |-> 0]
    /\ loaded = [n \in Nodes |-> FALSE]
    /\ call = [c \in Clients |-> NoCall]
    /\ late = {}
    /\ begun = [k \in Keys |-> 0]
    /\ log = [k \in Keys |-> {}]
    /\ answers = [k \in Keys |-> {}]

-----------------------------------------------------------------------------
(***************************************************************************)
(* The script.                                                             *)
(***************************************************************************)

\* Mutants of Trim: the cutoff itself survives; one tick too many goes.
TrimExclusive(S, now, window) == {t \in S : t >= now - window}
TrimEarly(S, now, window) == {t \in S : t > now - window + 1}

\* ZREMRANGEBYSCORE key 0 cutoff: what it leaves in place.
Trim(S, now, window) == {t \in S : t > now - window}

\* Redis reads an expired key as missing.
Live(k) == IF clock > expireAt[k] THEN {} ELSE zset[k]

\* Mutant of Expiry: no second on top of the window.
ExpiryWithoutGrace(window) == clock + window

\* The instant that PEXPIRE sets.
Expiry(window) == clock + window + Grace

\* Mutant of Record: ZCARD before ZADD.
CountThenAdd(k, now, window) ==
    LET kept == Trim(Live(k), now, window)
    IN  /\ zset' = [zset EXCEPT ![k] = kept \cup {now}]
        /\ expireAt' = [expireAt EXCEPT ![k] = Expiry(window)]
        /\ log' = [log EXCEPT ![k] = @ \cup {now}]
        /\ answers' = [answers EXCEPT ![k] = @ \cup
               {[tick |-> now, window |-> window, count |-> Cardinality(kept)]}]

\* One run of the script on key k; the reply is its ZCARD.
Record(k, now, window) ==
    LET kept == Trim(Live(k), now, window) \cup {now}
    IN  /\ zset' = [zset EXCEPT ![k] = kept]
        /\ expireAt' = [expireAt EXCEPT ![k] = Expiry(window)]
        /\ log' = [log EXCEPT ![k] = @ \cup {now}]
        /\ answers' = [answers EXCEPT ![k] = @ \cup
               {[tick |-> now, window |-> window, count |-> Cardinality(kept)]}]

\* Script.Run tries EVALSHA and falls back to EVAL, which loads the script.  On
\* a pipeline the fallback never happens: the EVALSHA is only queued there.
Runs(k, pipe) == pipe => loaded[Home[k]]

Script(k, now, window, pipe) ==
    \/ /\ Runs(k, pipe)
       /\ Record(k, now, window)
       /\ loaded' = [loaded EXCEPT ![Home[k]] = TRUE]
    \/ /\ ~Runs(k, pipe)                          \* NOSCRIPT
       /\ UNCHANGED <<redis, history>>

-----------------------------------------------------------------------------
(***************************************************************************)
(* The client.                                                             *)
(***************************************************************************)

Busy(c) == call[c].keys # {}

\* What a client's clock may show.
ClientNow == {t \in Ticks : clock - MaxLag <= t /\ t <= clock + MaxLead}

\* A command that would reach Redis later than this is never executed.
InTime(tick) == clock - tick <= MaxLag

Begin(c, K, now, window, pipe) ==
    /\ ~Busy(c)
    /\ \A k \in K : begun[k] < MaxCalls
    /\ call' = [call EXCEPT ![c] = [keys |-> K, pending |-> K, tick |-> now,
                   window |-> window, pipe |-> pipe, tries |-> 0]]
    /\ begun' = [k \in Keys |-> IF k \in K THEN begun[k] + 1 ELSE begun[k]]
    /\ UNCHANGED <<clock, redis, late, history>>

IncrementAndCount(c) ==
    \E k \in Keys, now \in ClientNow, window \in Windows :
        Begin(c, {k}, now, window, FALSE)

\* Without keys the pipeline is empty and the call returns at once.
BatchIncrementAndCount(c) ==
    \E K \in SUBSET Keys \ {{}}, now \in ClientNow, window \in Windows :
        Begin(c, K, now, window, TRUE)

\* A node executes the command of client c for key k, and the reply arrives.
\* With the last reply of a pipeline, or the only one, the call returns.
Reply(c, k) ==
    LET rest == call[c].pending \ {k}
    IN  /\ k \in call[c].pending
        /\ InTime(call[c].tick)
        /\ Script(k, call[c].tick, call[c].window, call[c].pipe)
        /\ call' = [call EXCEPT ![c] =
                       IF rest = {} THEN NoCall ELSE [@ EXCEPT !.pending = rest]]
        /\ UNCHANGED <<clock, late, begun>>

\* The commands of c's attempt that nobody waits for any more.
Abandoned(c) ==
    [key : call[c].pending, tick : {call[c].tick}, window : {call[c].window},
     pipe : {call[c].pipe}]

\* Mutants of Retry: the clock is read again; the attempts are not counted.
RetryLater(c) ==
    /\ Busy(c)
    /\ call[c].tries < MaxRetries
    /\ \E now \in ClientNow :
           call' = [call EXCEPT ![c].pending = call[c].keys,
                                ![c].tries = @ + 1, ![c].tick = now]
    /\ late' = late \cup Abandoned(c)
    /\ UNCHANGED <<clock, redis, begun, history>>
RetryForever(c) ==
    /\ Busy(c)
    /\ call' = [call EXCEPT ![c].pending = call[c].keys]
    /\ late' = late \cup Abandoned(c)
    /\ UNCHANGED <<clock, redis, begun, history>>

\* An attempt fails (timeout, broken connection): go-redis sends the whole
\* attempt again, with the same arguments, at most MaxRetries times.
Retry(c) ==
    /\ Busy(c)
    /\ call[c].tries < MaxRetries
    /\ call' = [call EXCEPT ![c].pending = call[c].keys, ![c].tries = @ + 1]
    /\ late' = late \cup Abandoned(c)
    /\ UNCHANGED <<clock, redis, begun, history>>

\* The last retry failed, or the context is done: the call returns an error.
Fail(c) ==
    /\ Busy(c)
    /\ call' = [call EXCEPT ![c] = NoCall]
    /\ late' = late \cup Abandoned(c)
    /\ UNCHANGED <<clock, redis, begun, history>>

-----------------------------------------------------------------------------
(***************************************************************************)
(* The network, the nodes and time.                                        *)
(***************************************************************************)

\* A command of an abandoned attempt reaches Redis after all; with retries, a
\* copy of it from another attempt may still be under way.
LateCommand(m) ==
    /\ InTime(m.tick)
    /\ Script(m.key, m.tick, m.window, m.pipe)
    /\ \/ late' = late \ {m}
       \/ MaxRetries > 0 /\ UNCHANGED late
    /\ UNCHANGED <<clock, call, begun>>

\* Node n restarts without its data and without its script cache.
Restart(n) ==
    LET lost == {k \in Keys : Home[k] = n}
    IN  /\ zset' = [k \in Keys |-> IF k \in lost THEN {} ELSE zset[k]]
        /\ expireAt' = [k \in Keys |-> IF k \in lost THEN 0 ELSE expireAt[k]]
        /\ loaded' = [loaded EXCEPT ![n] = FALSE]
        /\ log' = [k \in Keys |-> IF k \in lost THEN {} ELSE log[k]]
        /\ answers' = [k \in Keys |-> IF k \in lost THEN {} ELSE answers[k]]
        /\ UNCHANGED <<clock, call, late, begun>>

\* FLUSHALL: the data goes, the script cache stays.
FlushAll ==
    /\ zset' = [k \in Keys |-> {}]
    /\ expireAt' = [k \in Keys |-> 0]
    /\ log' = [k \in Keys |-> {}]
    /\ answers' = [k \in Keys |-> {}]
    /\ UNCHANGED <<clock, loaded, call, late, begun>>

\* A millisecond passes; commands that are now too old are gone.
Tick ==
    /\ clock < MaxClock
    /\ clock' = clock + 1
    /\ late' = {m \in late : clock' - m.tick <= MaxLag}
    /\ UNCHANGED <<redis, call, begun, history>>

ClientStep(c) ==
    \/ IncrementAndCount(c)
    \/ BatchIncrementAndCount(c)
    \/ \E k \in Keys : Reply(c, k)
    \/ Retry(c)
    \/ Fail(c)

Next ==
    \/ \E c \in Clients : ClientStep(c)
    \/ \E m \in late : LateCommand(m)
    \/ \E n \in Nodes : Restart(n)
    \/ FlushAll
    \/ Tick

Spec == Init /\ [][Next]_vars

\* DialTimeout, ReadTimeout and WriteTimeout end every attempt, so an attempt
\* that gets no reply is retried or given up.
FairSpec == Spec /\ \A c \in Clients : WF_vars(Retry(c) \/ Fail(c))

-----------------------------------------------------------------------------
(***************************************************************************)
(* Properties.                                                             *)
(***************************************************************************)

\* The storage implements the abstract counter: the ticks it recorded since a
\* node's last restart are the log, its replies the answers.
Counter == INSTANCE WindowCounter

Refinement == Counter!Spec

\* In any Shortest window that ends at the latest hit of a key, hits at no more
\* than limit ticks are answered with a count within the limit: no interleaving
\* of delayed, reordered or repeated scripts and key expiries makes the store
\* forget a hit that still matters.
ShortestWindowBound == Counter!ShortestWindowBound

\* The script never denies on account of hits that were not made or that lie
\* before the caller's window, even for a key it shares with another window.
NeverOvercounts == Counter!NeverOvercounts

\* A call leaves at most one tick in the set of a key, however often it was
\* sent, executed or abandoned on the way.
OneTickPerCall == \A k \in Keys : Cardinality(log[k]) <= begun[k]

\* The stored set keeps every recorded tick that is still recent.
Retained == \A k \in Keys : Counter!RecentOf(log[k]) \subseteq zset[k]

\* A key outlives each of its ticks by a Shortest window and the grace.
Fresh == \A k \in Keys : \A t \in log[k] :
             t + Shortest + Grace <= expireAt[k] + MaxLead

\* Nothing is recorded ahead of the clock by more than a client may lead.
NotAhead ==
    /\ \A c \in Clients : call[c].tick <= clock + MaxLead
    /\ \A m \in late : m.tick <= clock + MaxLead
    /\ \A k \in Keys : \A t \in log[k] : t <= clock + MaxLead

\* Redis holds and has answered about recorded ticks only.
Recorded == \A k \in Keys :
    /\ zset[k] \subseteq log[k]
    /\ \A a \in answers[k] : a.tick \in log[k]

\* Why the bound holds: the invariant that every step preserves.
StorageInv == TypeOK /\ Retained /\ Fresh /\ NotAhead /\ Recorded

\* Every call returns, with a count or an error, also when Redis never answers.
CallsReturn == \A c \in Clients : Busy(c) ~> ~Busy(c)
-----------------------------------------------------------------------------
(***************************************************************************)
(* What the repository says of the counter and the code does not do.       *)
(***************************************************************************)

\* The integration test's expectation that n successful calls leave a count of
\* n: a call that was sent once adds one to the hits still in its window.
EveryCallCounts ==
    [][\A c \in Clients, k \in Keys :
          Reply(c, k) /\ call[c].tries = 0 /\ Runs(k, call[c].pipe) =>
              Cardinality(zset'[k]) =
                  1 + Cardinality(Trim(Live(k), call[c].tick, call[c].window))]_vars

\* The README's configurable windows: a key that is limited over several
\* windows is limited over each of them, not over the shortest one only.
EveryWindowBound ==
    \A k \in Keys, w \in Windows, limit \in Limits :
        Cardinality({t \in log[k] :
            /\ \A u \in log[k] : u - w < t
            /\ \E a \in answers[k] :
                   a.tick = t /\ a.window = w /\ a.count <= limit}) <= limit
=============================================================================
