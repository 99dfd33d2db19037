----------------------------- MODULE LocalCache -----------------------------
(***************************************************************************)
(* LocalCache of internal/cache/cache.go: a map of entries under an        *)
(* RWMutex, whose results are LimitResult objects that go to a sync.Pool   *)
(* when their entry is deleted and are overwritten when Get takes them out *)
(* again.  Objects have an identity and a content here, because a Get      *)
(* reads the object of the entry it found after it gave up the lock.       *)
(*                                                                         *)
(* The mutex is used as intended, so each critical section is one step.    *)
(* Two readings of the clock are never equal (Go's clock has nanoseconds), *)
(* hence every Set takes an instant of its own.                            *)
(***************************************************************************)
EXTENDS Integers, FiniteSets

CONSTANTS
    Procs,       \* the goroutines that call the cache
    Keys,        \* the strings that they use as keys
    Objects,     \* the LimitResult objects in memory
    Values,      \* what a LimitResult can say
    Torn,        \* the content of an object that is being overwritten
    None,        \* no entry, no object
    MaxSize,     \* maxSize
    DefaultTTL,  \* defaultTTL
    TTLs,        \* the times to live that callers ask for
    MaxClock,    \* bound of the model: the last instant considered
    MaxPurges    \* bound of the model: deletes under way per key

ASSUME CacheAssumption ==
    /\ IsFiniteSet(Keys)
    /\ MaxSize \in Nat \ {0}
    /\ DefaultTTL \in Nat \ {0} /\ TTLs \subseteq Int
    /\ MaxClock \in Nat /\ MaxPurges \in Nat
    /\ Torn \notin Values
    /\ None \notin Objects /\ None \notin Values

VARIABLES
    clock,
    entries,   \* entries[k]: the entry of k, or None
    pool,      \* the objects in resultPool
    content,   \* content[o]: what is in the memory of object o
    call,      \* call[p]: what p is doing, and the result it holds
    purges,    \* purges[k]: the deletes of k that Gets have started
    janitor    \* the janitor goroutine, with its now and keysToDelete

vars == <<clock, entries, pool, content, call, purges, janitor>>

\* val is history: the value that the entry was made with.
Entry == [obj : Objects, val : Values, expiry : Int, updated : Nat]

\* pooled is history: the object of the entry that a Get has found was put into
\* the pool before the Get had copied it.
Caller == [at : {"idle"}, result : Objects, val : Values, pooled : BOOLEAN]
Getting == [at : {"found"}, key : Keys, entry : Entry, pooled : BOOLEAN]
Copying == [at : {"copying"}, entry : Entry, result : Objects, pooled : BOOLEAN]
Setting == [at : {"store"}, key : Keys, entry : Entry]
Idle == [at |-> "idle", result |-> None]

Janitor == [at : {"idle", "stopped"}]
           \cup [at : {"scan"}, now : Nat]
           \cup [at : {"delete"}, now : Nat, keys : SUBSET Keys]

TypeOK ==
    /\ clock \in Nat
    /\ entries \in [Keys -> Entry \cup {None}]
    /\ pool \subseteq Objects
    /\ content \in [Objects -> Values \cup {Torn}]
    /\ call \in [Procs -> {Idle} \cup Caller \cup Getting \cup Copying \cup Setting]
    /\ purges \in [Keys -> Nat]
    /\ janitor \in Janitor

Init ==
    /\ clock = 0
    /\ entries = [k \in Keys |-> None]
    /\ pool = {}
    /\ content = [o \in Objects |-> Torn]
    /\ call = [p \in Procs |-> Idle]
    /\ purges = [k \in Keys |-> 0]
    /\ janitor = [at |-> "idle"]

Cached == {k \in Keys : entries[k] # None}
After(now, e) == now > e.expiry

\* The objects that a goroutine refers to.
Source(p) == IF call[p].at \in {"found", "copying", "store"}
             THEN {call[p].entry.obj} ELSE {}
Result(p) == IF call[p].at \in {"idle", "copying"} THEN {call[p].result} ELSE {}

\* An object that nothing refers to is as good as a new one.
Unused(o) ==
    /\ o \notin pool
    /\ \A k \in Cached : entries[k].obj # o
    /\ \A p \in Procs : o \notin Source(p) \cup Result(p)

\* The entries of K are removed and their results put into the pool.
PutAndRemove(K) ==
    LET put == {entries[k].obj : k \in K \cap Cached}
    IN  /\ pool' = pool \cup put
        /\ entries' = [k \in Keys |-> IF k \in K THEN None ELSE entries[k]]
        /\ call' = [p \in Procs |->
                       IF call[p].at \in {"found", "copying"}
                          /\ call[p].entry.obj \in put
                       THEN [call[p] EXCEPT !.pooled = TRUE]
                       ELSE call[p]]

-----------------------------------------------------------------------------
(***************************************************************************)
(* Get.  A caller keeps its result until its next call.                    *)
(***************************************************************************)

\* Under the read lock.
Look(p, k) ==
    /\ call[p].at = "idle"
    /\ call' = [call EXCEPT ![p] =
                   IF k \in Cached
                   THEN [at |-> "found", key |-> k, entry |-> entries[k],
                         pooled |-> FALSE]
                   ELSE Idle]
    /\ UNCHANGED <<clock, entries, pool, content, purges, janitor>>

\* An expired entry is a miss, and a goroutine is started that deletes the key.
MissExpired(p) ==
    /\ call[p].at = "found" /\ After(clock, call[p].entry)
    /\ purges[call[p].key] < MaxPurges
    /\ purges' = [purges EXCEPT ![call[p].key] = @ + 1]
    /\ call' = [call EXCEPT ![p] = Idle]
    /\ UNCHANGED <<clock, entries, pool, content, janitor>>

\* The pool hands out one of its objects or a new one, and the result of the
\* entry is copied into it.  Copying takes two steps, and an object that is
\* being overwritten reads as Torn; copied to itself, it keeps its content.
BeginCopy(p) ==
    /\ call[p].at = "found" /\ ~After(clock, call[p].entry)
    /\ \E o \in Objects :
          /\ o \in pool \/ Unused(o)
          /\ pool' = pool \ {o}
          /\ content' = IF o = call[p].entry.obj THEN content
                        ELSE [content EXCEPT ![o] = Torn]
          /\ call' = [call EXCEPT ![p] =
                 [at |-> "copying", entry |-> call[p].entry, result |-> o,
                  pooled |-> call[p].pooled]]
    /\ UNCHANGED <<clock, entries, purges, janitor>>

\* Mutant of EndCopy: the result goes back to the pool when Get returns.
PutResult(p) ==
    /\ call[p].at = "copying"
    /\ content' = [content EXCEPT ![call[p].result] = content[call[p].entry.obj]]
    /\ call' = [call EXCEPT ![p] =
           [at |-> "idle", result |-> call[p].result, val |-> call[p].entry.val,
            pooled |-> call[p].pooled]]
    /\ pool' = pool \cup {call[p].result}
    /\ UNCHANGED <<clock, entries, purges, janitor>>

\* Mutant of EndCopy: source and target are swapped.
CopyBack(p) ==
    /\ call[p].at = "copying"
    /\ content' = [content EXCEPT ![call[p].entry.obj] = content[call[p].result]]
    /\ call' = [call EXCEPT ![p] =
           [at |-> "idle", result |-> call[p].result, val |-> call[p].entry.val,
            pooled |-> call[p].pooled]]
    /\ UNCHANGED <<clock, entries, pool, purges, janitor>>

EndCopy(p) ==
    /\ call[p].at = "copying"
    /\ content' = [content EXCEPT ![call[p].result] = content[call[p].entry.obj]]
    /\ call' = [call EXCEPT ![p] =
           [at |-> "idle", result |-> call[p].result, val |-> call[p].entry.val,
            pooled |-> call[p].pooled]]
    /\ UNCHANGED <<clock, entries, pool, purges, janitor>>

-----------------------------------------------------------------------------
(***************************************************************************)
(* Set.  The caller passes an object of its own.                           *)
(***************************************************************************)

\* The entry is made and stamped before the lock is taken.
Stamp(p, k, v, ttl) ==
    /\ call[p].at = "idle"
    /\ clock < MaxClock
    /\ \E o \in Objects :
          /\ Unused(o)
          /\ content' = [content EXCEPT ![o] = v]
          /\ call' = [call EXCEPT ![p] =
                 [at |-> "store", key |-> k,
                  entry |-> [obj |-> o, val |-> v, updated |-> clock,
                             expiry |-> clock + (IF ttl <= 0 THEN DefaultTTL
                                                 ELSE ttl)]]]
    /\ clock' = clock + 1
    /\ UNCHANGED <<entries, pool, purges, janitor>>

\* The keys among which the eviction loop ends, whatever the order of the map.
Oldest ==
    {k \in Cached : /\ entries[k].updated < clock
                    /\ \A j \in Cached : entries[k].updated <= entries[j].updated}

\* Mutant of MustEvict: an off-by-one in the comparison.
MustEvictLate(k) == Cardinality(Cached) > MaxSize /\ k \notin Cached

MustEvict(k) == Cardinality(Cached) >= MaxSize /\ k \notin Cached

\* What the eviction takes for no key, though it may be one.
NoKey == ""

\* Mutant of Store: an entry that is there stays, as with sync.Map's LoadOrStore.
StoreIfAbsent(p) ==
    /\ call[p].at = "store"
    /\ LET k == call[p].key
           Put(evicted) == entries' = [j \in Keys |->
               IF j = k /\ k \notin Cached THEN call[p].entry
               ELSE IF j \in evicted \ {NoKey} THEN None ELSE entries[j]]
       IN  IF MustEvict(k) /\ Oldest # {}
           THEN \E j \in Oldest : Put({j})
           ELSE Put({})
    /\ call' = [call EXCEPT ![p] = Idle]
    /\ UNCHANGED <<clock, pool, content, purges, janitor>>

\* The oldest entry makes room, unless its key is NoKey.  Neither the evicted nor a
\* replaced result goes to the pool.
Store(p) ==
    /\ call[p].at = "store"
    /\ LET k == call[p].key
           Put(evicted) == entries' = [j \in Keys |->
               IF j = k THEN call[p].entry
               ELSE IF j \in evicted \ {NoKey} THEN None ELSE entries[j]]
       IN  IF MustEvict(k) /\ Oldest # {}
           THEN \E j \in Oldest : Put({j})
           ELSE Put({})
    /\ call' = [call EXCEPT ![p] = Idle]
    /\ UNCHANGED <<clock, pool, content, purges, janitor>>

-----------------------------------------------------------------------------
(***************************************************************************)
(* Delete and Clear, the deletes started by Get, and the janitor.          *)
(***************************************************************************)

Delete(k) ==
    /\ PutAndRemove({k})
    /\ UNCHANGED <<clock, content, purges, janitor>>

\* The entry is deleted as it is now, also when it was set again meanwhile.
Purge(k) ==
    /\ purges[k] > 0
    /\ purges' = [purges EXCEPT ![k] = @ - 1]
    /\ PutAndRemove({k})
    /\ UNCHANGED <<clock, content, janitor>>

\* Mutant of Clear: the map is not replaced.
ClearKeepingMap ==
    /\ pool' = pool \cup {entries[k].obj : k \in Cached}
    /\ UNCHANGED <<clock, entries, content, call, purges, janitor>>

Clear ==
    /\ PutAndRemove(Keys)
    /\ UNCHANGED <<clock, content, purges, janitor>>

CleanExpired ==
    /\ janitor.at = "idle"
    /\ janitor' = [at |-> "scan", now |-> clock]
    /\ UNCHANGED <<clock, entries, pool, content, call, purges>>

\* Under the read lock.
FindExpired ==
    /\ janitor.at = "scan"
    /\ LET found == {k \in Cached : After(janitor.now, entries[k])}
       IN  janitor' = IF found = {} THEN [at |-> "idle"]
                      ELSE [at |-> "delete", now |-> janitor.now, keys |-> found]
    /\ UNCHANGED <<clock, entries, pool, content, call, purges>>

\* Mutant of DeleteExpired: what was found expired is deleted unseen.
DeleteFound ==
    /\ janitor.at = "delete"
    /\ PutAndRemove(janitor.keys)
    /\ janitor' = [at |-> "idle"]
    /\ UNCHANGED <<clock, content, purges>>

\* Under the write lock, what is still expired is deleted.
DeleteExpired ==
    /\ janitor.at = "delete"
    /\ PutAndRemove({k \in janitor.keys \cap Cached :
                         After(janitor.now, entries[k])})
    /\ janitor' = [at |-> "idle"]
    /\ UNCHANGED <<clock, content, purges>>

\* The janitor looks at janitorStop only when it is idle.  A second Close would
\* panic.
Close ==
    /\ janitor.at = "idle"
    /\ janitor' = [at |-> "stopped"]
    /\ UNCHANGED <<clock, entries, pool, content, call, purges>>

\* The garbage collector takes an object out of the pool.
Drop(o) ==
    /\ pool' = pool \ {o}
    /\ UNCHANGED <<clock, entries, content, call, purges, janitor>>

Tick ==
    /\ clock < MaxClock
    /\ clock' = clock + 1
    /\ UNCHANGED <<entries, pool, content, call, purges, janitor>>

JanitorStep == CleanExpired \/ FindExpired \/ DeleteExpired

Next ==
    \/ \E p \in Procs :
          \/ \E k \in Keys : Look(p, k)
          \/ MissExpired(p) \/ BeginCopy(p) \/ EndCopy(p)
          \/ \E k \in Keys, v \in Values, ttl \in TTLs : Stamp(p, k, v, ttl)
          \/ Store(p)
    \/ \E k \in Keys : Delete(k) \/ Purge(k)
    \/ Clear \/ JanitorStep \/ Close
    \/ \E o \in pool : Drop(o)
    \/ Tick

Spec == Init /\ [][Next]_vars

-----------------------------------------------------------------------------
(***************************************************************************)
(* Properties.                                                             *)
(***************************************************************************)

\* The pool, the entries, the entries about to be stored and the results in the
\* callers' hands never share an object, and no two of them are the same one.
Stored(p) == call[p].at = "store"
Holds(p) == Result(p) \cap Objects

Apart ==
    /\ \A k \in Cached :
          /\ entries[k].obj \notin pool
          /\ \A j \in Cached : entries[j].obj = entries[k].obj => j = k
          /\ \A p \in Procs :
                /\ entries[k].obj \notin Holds(p)
                /\ Stored(p) => call[p].entry.obj # entries[k].obj
    /\ \A p \in Procs :
          /\ Holds(p) \cap pool = {}
          /\ Stored(p) => call[p].entry.obj \notin pool
          /\ \A q \in Procs \ {p} :
                /\ Holds(p) \cap Holds(q) = {}
                /\ Stored(p) /\ Stored(q) => call[p].entry.obj # call[q].entry.obj
                /\ Stored(p) => call[p].entry.obj \notin Holds(q)

\* What is cached is what was set: no Get is handed the object of an entry to
\* overwrite.
Intact ==
    /\ \A k \in Cached : content[entries[k].obj] = entries[k].val
    /\ \A p \in Procs :
          Stored(p) => content[call[p].entry.obj] = call[p].entry.val

CacheInv == TypeOK /\ Apart /\ Intact

\* What a Get that looks now finds, in the memory of the results themselves.
Live == {k \in Cached : ~After(clock, entries[k])}
Found == [k \in Keys |-> IF k \in Live THEN content[entries[k].obj] ELSE None]

\* The calls of Set whose entry is made and not yet stored.
Asked == {[caller |-> p, key |-> call[p].key, value |-> call[p].entry.val] :
             p \in {q \in Procs : Stored(q)}}

Promised == INSTANCE SharedCache WITH cached <- Found, asked <- Asked

\* LocalCache implements the abstract cache: what the memory of a key's result says
\* changes only when a call of Set stores its own value under its own key, in the
\* place of the old one, or when the value goes for good.  No Get that is given an
\* object of the pool to fill, no late delete and no janitor brings a value back,
\* and none changes what another call stores.
Refinement == Promised!SharedSpec

\* A Get whose entry kept its object until it was copied returns what was set,
\* and its result stays as it is for as long as the caller uses it.
FaithfulUnlessPooled ==
    \A p \in Procs : call[p].at = "idle" /\ call[p] # Idle =>
        call[p].pooled \/ content[call[p].result] = call[p].val

\* The cache does not grow beyond its size, although entries are stamped before
\* they compete for the lock; the empty string must be no key.
SizeBound == NoKey \notin Keys => Cardinality(Cached) <= MaxSize

\* The janitor deletes nothing that was set again between its two passes.
JanitorSpares ==
    [][janitor.at = "delete" /\ janitor'.at = "idle" =>
          \A k \in Cached : entries'[k] = None => After(clock, entries[k])]_vars

-----------------------------------------------------------------------------
(***************************************************************************)
(* What the source says of Get and the code does not do.                   *)
(***************************************************************************)

\* A Get returns a copy of what was set, whatever happens at the same time.
Faithful ==
    \A p \in Procs : call[p].at = "idle" /\ call[p] # Idle =>
        content[call[p].result] = call[p].val
=============================================================================
