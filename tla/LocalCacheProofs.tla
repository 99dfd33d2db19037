-------------------------- MODULE LocalCacheProofs --------------------------
(***************************************************************************)
(* CacheInv is inductive; with it LocalCache implements SharedCache, a Get *)
(* whose entry kept its object returns what was set, the janitor spares    *)
(* what was set again, and the cache keeps to its size.                    *)
(***************************************************************************)
EXTENDS LocalCache, FiniteSetTheorems, WellFoundedInduction, TLAPS

-----------------------------------------------------------------------------
(***************************************************************************)
(* What the types say of a call.                                           *)
(***************************************************************************)
AnyCall == {Idle} \cup Caller \cup Getting \cup Copying \cup Setting

LEMMA CallTypes ==
    ASSUME TypeOK, NEW p \in Procs
    PROVE  /\ call[p].at \in {"idle", "found", "copying", "store"}
           /\ call[p].at = "idle" => call[p] \in {Idle} \cup Caller
           /\ call[p].at = "found" => call[p] \in Getting
           /\ call[p].at = "copying" => call[p] \in Copying
           /\ call[p].at = "store" => call[p] \in Setting
BY DEF TypeOK, Idle, Caller, Getting, Copying, Setting

\* The objects that a call refers to, by what it is doing.
LEMMA Referred ==
    ASSUME TypeOK, NEW p \in Procs
    PROVE  /\ call[p].at = "found" =>
                 /\ call[p].entry.obj \in Objects /\ Source(p) = {call[p].entry.obj}
                 /\ Holds(p) = {} /\ ~Stored(p)
           /\ call[p].at = "copying" =>
                 /\ call[p].entry.obj \in Objects /\ Source(p) = {call[p].entry.obj}
                 /\ call[p].result \in Objects /\ Holds(p) = {call[p].result}
                 /\ Result(p) = {call[p].result} /\ ~Stored(p)
           /\ call[p].at = "store" =>
                 /\ call[p].entry.obj \in Objects /\ Source(p) = {call[p].entry.obj}
                 /\ Holds(p) = {} /\ Stored(p)
           /\ call[p].at = "idle" => ~Stored(p) /\ Source(p) = {}
           /\ call[p] = Idle => Holds(p) = {}
           /\ call[p].at = "idle" /\ call[p] # Idle =>
                 /\ call[p].result \in Objects /\ Holds(p) = {call[p].result}
                 /\ Result(p) = {call[p].result} /\ call[p].val \in Values
BY CallTypes, CacheAssumption
   DEF Holds, Result, Source, Stored, Idle, Caller, Getting, Copying, Setting, Entry

\* An object that a Get may be given, or a Set, is nobody else's.
LEMMA Free ==
    ASSUME CacheInv, NEW o \in Objects, o \in pool \/ Unused(o)
    PROVE  /\ \A k \in Cached : entries[k].obj # o
           /\ \A p \in Procs : /\ o \notin Holds(p)
                               /\ Stored(p) => call[p].entry.obj # o
BY CallTypes DEF CacheInv, Apart, Unused, Holds, Source, Stored

-----------------------------------------------------------------------------
(***************************************************************************)
(* What keeps Apart and Intact.                                            *)
(***************************************************************************)

\* Giving up references keeps the others apart.
LEMMA ApartShrinks ==
    ASSUME Apart, entries' = entries, pool' \subseteq pool,
           \A p \in Procs : /\ Holds(p)' \subseteq Holds(p)
                            /\ Stored(p)' => Stored(p) /\ call'[p] = call[p]
    PROVE  Apart'
BY DEF Apart, Cached

\* So does a content that changes where no entry is.
LEMMA IntactElsewhere ==
    ASSUME Intact, entries' = entries, NEW o,
           \A x \in Objects \ {o} : content'[x] = content[x],
           TypeOK, \A k \in Cached : entries[k].obj # o,
           \A p \in Procs : /\ Stored(p) => call[p].entry.obj # o
                            /\ Stored(p)' => Stored(p) /\ call'[p] = call[p]
    PROVE  Intact'
<1>1. \A k \in Cached : entries[k].obj \in Objects
  BY DEF TypeOK, Cached, Entry
<1>2. \A p \in Procs : Stored(p) => call[p].entry.obj \in Objects
  BY CallTypes DEF Stored, Setting, Entry
<1>. QED  BY <1>1, <1>2 DEF Intact, Cached

\* Entries go, and their objects, which are nobody else's, come into the pool.
LEMMA PutKeeps ==
    ASSUME CacheInv, NEW K \in SUBSET Keys, PutAndRemove(K), UNCHANGED content
    PROVE  /\ entries' \in [Keys -> Entry \cup {None}] /\ pool' \subseteq Objects
           /\ call' \in [Procs -> AnyCall]
           /\ \A k \in Keys : IF k \in K THEN entries'[k] = None
                              ELSE entries'[k] = entries[k]
           /\ \A p \in Procs : /\ call'[p].at = call[p].at
                               /\ call[p].at \in {"idle", "store"} =>
                                     call'[p] = call[p]
                               /\ Holds(p)' = Holds(p) /\ Source(p)' = Source(p)
           /\ Apart' /\ Intact'
<1> DEFINE put == {entries[k].obj : k \in K \cap Cached}
<1>1. /\ pool' = pool \cup put
      /\ entries' = [k \in Keys |-> IF k \in K THEN None ELSE entries[k]]
      /\ call' = [p \in Procs |->
                     IF call[p].at \in {"found", "copying"}
                        /\ call[p].entry.obj \in put
                     THEN [call[p] EXCEPT !.pooled = TRUE]
                     ELSE call[p]]
  BY DEF PutAndRemove
<1>2. TypeOK
  BY DEF CacheInv
<1>3. \A k \in Cached : entries[k] \in Entry /\ entries[k].obj \in Objects
  BY <1>2 DEF TypeOK, Cached, Entry
<1>4. put \subseteq Objects /\ pool' \subseteq Objects
  BY <1>1, <1>2, <1>3 DEF TypeOK
<1>5. entries' \in [Keys -> Entry \cup {None}]
  BY <1>1, <1>2 DEF TypeOK
<1>6. ASSUME NEW c \in Getting \cup Copying
      PROVE  /\ [c EXCEPT !.pooled = TRUE] \in Getting \cup Copying
             /\ [c EXCEPT !.pooled = TRUE].at = c.at
             /\ [c EXCEPT !.pooled = TRUE].entry = c.entry
             /\ c.at = "copying" => [c EXCEPT !.pooled = TRUE].result = c.result
  BY DEF Getting, Copying
<1>. HIDE DEF put
<1>7. ASSUME NEW p \in Procs
      PROVE  /\ call'[p] \in AnyCall
             /\ call'[p].at = call[p].at
             /\ call[p].at \in {"idle", "store"} => call'[p] = call[p]
             /\ call[p].at \in {"found", "copying"} =>
                   call'[p].entry = call[p].entry
             /\ call[p].at = "copying" => call'[p].result = call[p].result
  <2>1. CASE call[p].at \in {"found", "copying"}
    <3>1. call[p] \in Getting \cup Copying
      BY <1>2, <2>1, CallTypes
    <3>. QED  BY <1>1, <1>6, <2>1, <3>1 DEF AnyCall
  <2>2. CASE call[p].at \notin {"found", "copying"}
    BY <1>1, <1>2, <2>2 DEF TypeOK, AnyCall
  <2>. QED  BY <2>1, <2>2
<1>8. call' \in [Procs -> AnyCall]
  BY <1>1, <1>7
<1>9. ASSUME NEW p \in Procs
      PROVE  /\ Holds(p)' = Holds(p) /\ Source(p)' = Source(p)
             /\ Stored(p)' = Stored(p)
  BY <1>7 DEF Holds, Result, Source, Stored
<1>10. Cached' = Cached \ K /\ \A k \in Cached \ K : entries'[k] = entries[k]
  BY <1>1 DEF Cached
<1>11. \A k \in Cached \ K : entries[k].obj \notin put
  BY DEF put, CacheInv, Apart
<1>12. \A p \in Procs : /\ Holds(p) \cap put = {}
                        /\ Stored(p) => call[p].entry.obj \notin put
  BY DEF put, CacheInv, Apart
<1>13. \A p \in Procs : Stored(p) => call'[p] = call[p]
  BY <1>7 DEF Stored
<1>14. Apart'
  BY <1>1, <1>9, <1>10, <1>11, <1>12, <1>13 DEF CacheInv, Apart
<1>15. Intact'
  BY <1>9, <1>10, <1>13 DEF CacheInv, Intact
<1>. QED  BY <1>1, <1>4, <1>5, <1>7, <1>8, <1>9, <1>14, <1>15

-----------------------------------------------------------------------------
(***************************************************************************)
(* The steps of Get and Set.                                               *)
(***************************************************************************)
LEMMA LookKeeps ==
    ASSUME CacheInv, NEW p \in Procs, NEW k \in Keys, Look(p, k)
    PROVE  CacheInv'
<1>1. TypeOK /\ call[p].at = "idle"
  BY DEF CacheInv, Look
<1>2. /\ call' \in [Procs -> AnyCall]
      /\ Holds(p)' = {} /\ ~Stored(p)'
      /\ \A q \in Procs \ {p} : call'[q] = call[q]
  <2>1. k \in Cached => [at |-> "found", key |-> k, entry |-> entries[k],
                         pooled |-> FALSE] \in Getting
    BY <1>1 DEF TypeOK, Cached, Getting
  <2>. QED  BY <1>1, <2>1, CacheAssumption
            DEF Look, TypeOK, AnyCall, Holds, Result, Stored, Idle
<1>3. TypeOK'
  BY <1>1, <1>2 DEF TypeOK, AnyCall, Look
<1>4. \A q \in Procs : /\ Holds(q)' \subseteq Holds(q)
                       /\ Stored(q)' => Stored(q) /\ call'[q] = call[q]
  BY <1>2 DEF Holds, Result, Stored
<1>5. Apart' /\ Intact'
  BY <1>4, ApartShrinks DEF Look, CacheInv, Intact, Cached
<1>. QED  BY <1>3, <1>5 DEF CacheInv

LEMMA MissKeeps ==
    ASSUME CacheInv, NEW p \in Procs, MissExpired(p)
    PROVE  CacheInv'
<1>1. TypeOK /\ call[p] \in Getting /\ call[p].key \in Keys
  BY CallTypes DEF CacheInv, MissExpired, Getting
<1>2. /\ call' \in [Procs -> AnyCall]
      /\ Holds(p)' = {} /\ ~Stored(p)'
      /\ \A q \in Procs \ {p} : call'[q] = call[q]
  BY <1>1, CacheAssumption
     DEF MissExpired, TypeOK, AnyCall, Holds, Result, Stored, Idle
<1>3. purges' \in [Keys -> Nat]
  BY <1>1 DEF TypeOK, MissExpired
<1>4. TypeOK'
  BY <1>1, <1>2, <1>3 DEF TypeOK, AnyCall, MissExpired
<1>5. \A q \in Procs : /\ Holds(q)' \subseteq Holds(q)
                       /\ Stored(q)' => Stored(q) /\ call'[q] = call[q]
  BY <1>2 DEF Holds, Result, Stored
<1>6. Apart' /\ Intact'
  BY <1>5, ApartShrinks DEF MissExpired, CacheInv, Intact, Cached
<1>. QED  BY <1>4, <1>6 DEF CacheInv

\* What a Get is given to fill is in no entry.
LEMMA BeginCopyKeeps ==
    ASSUME CacheInv, NEW p \in Procs, BeginCopy(p)
    PROVE  CacheInv'
<1>1. TypeOK /\ call[p] \in Getting
  BY CallTypes DEF CacheInv, BeginCopy
<1>2. PICK o \in Objects :
         /\ o \in pool \/ Unused(o)
         /\ pool' = pool \ {o}
         /\ content' = IF o = call[p].entry.obj THEN content
                       ELSE [content EXCEPT ![o] = Torn]
         /\ call' = [call EXCEPT ![p] =
                [at |-> "copying", entry |-> call[p].entry, result |-> o,
                 pooled |-> call[p].pooled]]
  BY DEF BeginCopy
<1>3. /\ call' \in [Procs -> AnyCall]
      /\ Holds(p)' = {o} /\ ~Stored(p)'
      /\ \A q \in Procs \ {p} : call'[q] = call[q]
  <2>1. [at |-> "copying", entry |-> call[p].entry, result |-> o,
         pooled |-> call[p].pooled] \in Copying
    BY <1>1 DEF Getting, Copying
  <2>. QED  BY <1>1, <1>2, <2>1 DEF TypeOK, AnyCall, Holds, Result, Stored
<1>4. content' \in [Objects -> Values \cup {Torn}]
  BY <1>1, <1>2 DEF TypeOK
<1>5. TypeOK'
  BY <1>1, <1>2, <1>3, <1>4 DEF TypeOK, AnyCall, BeginCopy
<1>6. /\ \A k \in Cached : entries[k].obj # o
      /\ \A q \in Procs : /\ o \notin Holds(q)
                          /\ Stored(q) => call[q].entry.obj # o
  BY <1>2, Free
<1>7. \A q \in Procs \ {p} : Holds(q)' = Holds(q) /\ Stored(q)' = Stored(q)
  BY <1>3 DEF Holds, Result, Stored
<1>8. entries' = entries /\ Cached' = Cached
  BY DEF BeginCopy, Cached
<1>9. Apart'
  BY <1>2, <1>3, <1>6, <1>7, <1>8 DEF CacheInv, Apart
<1>10. Intact'
  <2>1. \A x \in Objects \ {o} : content'[x] = content[x]
    BY <1>1, <1>2 DEF TypeOK
  <2>2. \A q \in Procs : Stored(q)' => Stored(q) /\ call'[q] = call[q]
    BY <1>3, <1>7
  <2>. QED  BY <1>1, <1>6, <1>8, <2>1, <2>2, IntactElsewhere DEF CacheInv
<1>. QED  BY <1>5, <1>9, <1>10 DEF CacheInv

LEMMA EndCopyKeeps ==
    ASSUME CacheInv, NEW p \in Procs, EndCopy(p)
    PROVE  CacheInv'
<1> DEFINE o == call[p].result
<1>1. TypeOK /\ call[p] \in Copying /\ o \in Objects /\ Holds(p) = {o}
      /\ call[p].entry \in Entry /\ call[p].entry.obj \in Objects
  BY CallTypes, Referred DEF CacheInv, EndCopy, Copying
<1>2. /\ call' \in [Procs -> AnyCall]
      /\ Holds(p)' = {o} /\ ~Stored(p)'
      /\ \A q \in Procs \ {p} : call'[q] = call[q]
  <2>1. [at |-> "idle", result |-> o, val |-> call[p].entry.val,
         pooled |-> call[p].pooled] \in Caller
    BY <1>1 DEF Copying, Caller, Entry
  <2>. QED  BY <1>1, <2>1 DEF EndCopy, TypeOK, AnyCall, Holds, Result, Stored
<1>3. content' = [content EXCEPT ![o] = content[call[p].entry.obj]]
  BY DEF EndCopy
<1>4. TypeOK'
  BY <1>1, <1>2, <1>3 DEF TypeOK, AnyCall, EndCopy
<1>5. \A q \in Procs : /\ Holds(q)' = Holds(q)
                       /\ Stored(q)' => Stored(q) /\ call'[q] = call[q]
  BY <1>1, <1>2 DEF Holds, Result, Stored
<1>6. Apart'
  BY <1>5, ApartShrinks DEF EndCopy, CacheInv
<1>7. Intact'
  <2>1. \A x \in Objects \ {o} : content'[x] = content[x]
    BY <1>1, <1>3 DEF TypeOK
  <2>2. /\ \A k \in Cached : entries[k].obj # o
        /\ \A q \in Procs : Stored(q) => call[q].entry.obj # o
    <3>1. ~Stored(p)
      BY DEF EndCopy, Stored
    <3>. QED  BY <1>1, <3>1 DEF CacheInv, Apart
  <2>. HIDE DEF o
  <2>. QED  BY <1>1, <1>5, <2>1, <2>2, IntactElsewhere DEF CacheInv, EndCopy
<1>. QED  BY <1>4, <1>6, <1>7 DEF CacheInv

LEMMA StampKeeps ==
    ASSUME CacheInv, NEW p \in Procs, NEW k \in Keys, NEW v \in Values,
           NEW ttl \in TTLs, Stamp(p, k, v, ttl)
    PROVE  CacheInv'
<1>1. TypeOK /\ call[p].at = "idle" /\ ~Stored(p)
  BY DEF CacheInv, Stamp, Stored
<1> DEFINE expiry == clock + (IF ttl <= 0 THEN DefaultTTL ELSE ttl)
<1>2. PICK o \in Objects :
         /\ Unused(o)
         /\ content' = [content EXCEPT ![o] = v]
         /\ call' = [call EXCEPT ![p] =
                [at |-> "store", key |-> k,
                 entry |-> [obj |-> o, val |-> v, updated |-> clock,
                            expiry |-> expiry]]]
  BY DEF Stamp
<1>3. expiry \in Int
  BY <1>1, CacheAssumption DEF TypeOK
<1>. HIDE DEF expiry
<1>4. /\ call' \in [Procs -> AnyCall]
      /\ Holds(p)' = {} /\ Stored(p)'
      /\ call'[p].entry.obj = o /\ call'[p].entry.val = v
      /\ \A q \in Procs \ {p} : call'[q] = call[q]
  <2>1. [at |-> "store", key |-> k,
         entry |-> [obj |-> o, val |-> v, updated |-> clock, expiry |-> expiry]]
        \in Setting
    BY <1>1, <1>3 DEF Setting, Entry, TypeOK
  <2>. QED  BY <1>1, <1>2, <2>1 DEF TypeOK, AnyCall, Holds, Result, Stored
<1>5. content' \in [Objects -> Values \cup {Torn}] /\ clock' \in Nat
  BY <1>1, <1>2 DEF TypeOK, Stamp
<1>6. TypeOK'
  BY <1>1, <1>4, <1>5 DEF TypeOK, AnyCall, Stamp
<1>7. /\ o \notin pool /\ \A j \in Cached : entries[j].obj # o
      /\ \A q \in Procs : /\ o \notin Holds(q)
                          /\ Stored(q) => call[q].entry.obj # o
  BY <1>2, Free DEF Unused
<1>8. \A q \in Procs \ {p} : Holds(q)' = Holds(q) /\ Stored(q)' = Stored(q)
  BY <1>4 DEF Holds, Result, Stored
<1>9. entries' = entries /\ pool' = pool /\ Cached' = Cached
  BY DEF Stamp, Cached
<1>10. Apart'
  BY <1>4, <1>7, <1>8, <1>9 DEF CacheInv, Apart
<1>11. Intact'
  <2>1. content'[o] = v /\ \A x \in Objects \ {o} : content'[x] = content[x]
    BY <1>1, <1>2 DEF TypeOK
  <2>2. \A j \in Cached : entries[j].obj \in Objects
    BY <1>1 DEF TypeOK, Cached, Entry
  <2>3. \A q \in Procs : Stored(q) => call[q].entry.obj \in Objects
    BY <1>1, CallTypes DEF Stored, Setting, Entry
  <2>. QED  BY <1>4, <1>7, <1>8, <1>9, <2>1, <2>2, <2>3 DEF CacheInv, Intact
<1>. QED  BY <1>6, <1>10, <1>11 DEF CacheInv

\* A Store puts the entry in its place and at most takes others away.
LEMMA StoreEffect ==
    ASSUME TypeOK, NEW p \in Procs, Store(p)
    PROVE  /\ call[p] \in Setting /\ call[p].key \in Keys /\ Stored(p)
           /\ entries' \in [Keys -> Entry \cup {None}]
           /\ entries'[call[p].key] = call[p].entry
           /\ \A j \in Keys \ {call[p].key} : entries'[j] \in {entries[j], None}
<1>1. call[p] \in Setting /\ call[p].key \in Keys /\ Stored(p)
      /\ call[p].entry \in Entry
  BY CallTypes DEF Store, Setting, Stored
<1>2. PICK E : entries' = [j \in Keys |-> IF j = call[p].key THEN call[p].entry
                             ELSE IF j \in E \ {NoKey} THEN None ELSE entries[j]]
  BY DEF Store
<1>. QED  BY <1>1, <1>2 DEF TypeOK

LEMMA StoreKeeps ==
    ASSUME CacheInv, NEW p \in Procs, Store(p)
    PROVE  CacheInv'
<1> DEFINE k == call[p].key
           e == call[p].entry
<1>1. TypeOK
  BY DEF CacheInv
<1>2. /\ call[p] \in Setting /\ k \in Keys /\ Stored(p)
      /\ entries' \in [Keys -> Entry \cup {None}]
      /\ entries'[k] = e
      /\ \A j \in Keys \ {k} : entries'[j] \in {entries[j], None}
  BY <1>1, StoreEffect
<1>3. /\ call' \in [Procs -> AnyCall]
      /\ Holds(p)' = {} /\ ~Stored(p)'
      /\ \A q \in Procs \ {p} : call'[q] = call[q]
  BY <1>1, CacheAssumption
     DEF Store, TypeOK, AnyCall, Holds, Result, Stored, Idle
<1>4. UNCHANGED <<clock, pool, content, purges, janitor>>
  BY DEF Store
<1>. HIDE DEF k, e
<1>5. TypeOK'
  BY <1>1, <1>2, <1>3, <1>4 DEF TypeOK, AnyCall
<1>6. \A j \in Cached' : j \in Keys /\ (j # k => j \in Cached /\ entries'[j] = entries[j])
  BY <1>2 DEF Cached
<1>7. \A q \in Procs \ {p} : Holds(q)' = Holds(q) /\ Stored(q)' = Stored(q)
  BY <1>3 DEF Holds, Result, Stored
<1>8. /\ e.obj \notin pool
      /\ \A j \in Cached : entries[j].obj # e.obj
      /\ \A q \in Procs \ {p} : /\ e.obj \notin Holds(q)
                                /\ Stored(q) => call[q].entry.obj # e.obj
  BY <1>2 DEF CacheInv, Apart, e
<1>9. Apart'
  <2>1. ASSUME NEW i \in Cached'
        PROVE  /\ entries'[i].obj \notin pool'
               /\ \A j \in Cached' : entries'[j].obj = entries'[i].obj => j = i
               /\ \A q \in Procs :
                     /\ entries'[i].obj \notin Holds(q)'
                     /\ Stored(q)' => call'[q].entry.obj # entries'[i].obj
    <3>1. CASE i = k
      BY <1>2, <1>3, <1>4, <1>6, <1>7, <1>8, <3>1
    <3>2. CASE i # k
      BY <1>2, <1>3, <1>4, <1>6, <1>7, <1>8, <3>2 DEF CacheInv, Apart
    <3>. QED  BY <3>1, <3>2
  <2>2. ASSUME NEW q \in Procs
        PROVE  /\ Holds(q)' \cap pool' = {}
               /\ Stored(q)' => call'[q].entry.obj \notin pool'
               /\ \A r \in Procs \ {q} :
                     /\ Holds(q)' \cap Holds(r)' = {}
                     /\ Stored(q)' /\ Stored(r)' =>
                           call'[q].entry.obj # call'[r].entry.obj
                     /\ Stored(q)' => call'[q].entry.obj \notin Holds(r)'
    BY <1>3, <1>4, <1>7 DEF CacheInv, Apart
  <2>. QED  BY <2>1, <2>2 DEF Apart
<1>10. Intact'
  <2>1. content[e.obj] = e.val
    BY <1>2 DEF CacheInv, Intact, e
  <2>. QED  BY <1>2, <1>3, <1>4, <1>6, <1>7, <2>1 DEF CacheInv, Intact
<1>. QED  BY <1>5, <1>9, <1>10 DEF CacheInv

\* The actions that put the results of K's entries into the pool.
LEMMA RemovalsKeep ==
    ASSUME CacheInv, NEW K \in SUBSET Keys, PutAndRemove(K), UNCHANGED content,
           clock' \in Nat, purges' \in [Keys -> Nat], janitor' \in Janitor
    PROVE  CacheInv'
BY PutKeeps DEF CacheInv, TypeOK, AnyCall

\* Steps that leave the entries, the memory and the calls alone.
LEMMA OthersKeep ==
    ASSUME CacheInv, UNCHANGED <<entries, content, call>>, pool' \subseteq pool,
           clock' \in Nat, purges' \in [Keys -> Nat], janitor' \in Janitor
    PROVE  CacheInv'
<1>1. TypeOK'
  BY DEF CacheInv, TypeOK
<1>2. \A p \in Procs : Holds(p)' = Holds(p) /\ Stored(p)' = Stored(p)
  BY DEF Holds, Result, Stored
<1>3. Apart' /\ Intact'
  BY <1>2, ApartShrinks DEF CacheInv, Intact, Cached
<1>. QED  BY <1>1, <1>3 DEF CacheInv

\* What the janitor finds.
LEMMA FindTyped ==
    ASSUME TypeOK, FindExpired
    PROVE  /\ UNCHANGED <<clock, entries, pool, content, call, purges>>
           /\ \/ janitor'.at = "idle"
              \/ janitor'.at = "delete" /\ janitor'.now = janitor.now
           /\ janitor' \in Janitor
           /\ janitor.at = "scan" /\ janitor.now \in Nat
<1>1. janitor.at = "scan" /\ janitor.now \in Nat
  BY DEF FindExpired, TypeOK, Janitor
<1>2. {k \in Cached : After(janitor.now, entries[k])} \in SUBSET Keys
  BY DEF Cached
<1>. QED  BY <1>1, <1>2 DEF FindExpired, Janitor

\* Every action but those of the janitor leaves it alone, or stops it.
LEMMA CacheSteps ==
    ASSUME CacheInv, [Next]_vars
    PROVE  CacheInv'
<1>1. TypeOK
  BY DEF CacheInv
<1>2. clock \in Nat /\ purges \in [Keys -> Nat] /\ janitor \in Janitor
  BY <1>1 DEF TypeOK
<1>3. ASSUME NEW p \in Procs, NEW k \in Keys, Look(p, k) PROVE CacheInv'
  BY <1>3, LookKeeps
<1>4. ASSUME NEW p \in Procs, MissExpired(p) \/ BeginCopy(p) \/ EndCopy(p) \/ Store(p)
      PROVE  CacheInv'
  BY <1>4, MissKeeps, BeginCopyKeeps, EndCopyKeeps, StoreKeeps
<1>5. ASSUME NEW p \in Procs, NEW k \in Keys, NEW v \in Values, NEW ttl \in TTLs,
             Stamp(p, k, v, ttl)
      PROVE  CacheInv'
  BY <1>5, StampKeeps
<1>6. ASSUME NEW k \in Keys, Delete(k) PROVE CacheInv'
  <2>1. PutAndRemove({k}) /\ UNCHANGED <<clock, content, purges, janitor>>
    BY <1>6 DEF Delete
  <2>. QED  BY <1>2, <2>1, RemovalsKeep
<1>7. ASSUME NEW k \in Keys, Purge(k) PROVE CacheInv'
  <2>1. PutAndRemove({k}) /\ UNCHANGED <<clock, content, janitor>>
    BY <1>7 DEF Purge
  <2>2. purges' \in [Keys -> Nat]
    BY <1>2, <1>7 DEF Purge
  <2>. QED  BY <1>2, <2>1, <2>2, RemovalsKeep
<1>8. CASE Clear
  <2>1. PutAndRemove(Keys) /\ UNCHANGED <<clock, content, purges, janitor>>
    BY <1>8 DEF Clear
  <2>. QED  BY <1>2, <2>1, RemovalsKeep
<1>9. CASE CleanExpired
  BY <1>2, <1>9, OthersKeep DEF CleanExpired, Janitor
<1>10. CASE FindExpired
  BY <1>1, <1>2, <1>10, FindTyped, OthersKeep
<1>11. CASE DeleteExpired
  <2> DEFINE K == {k \in janitor.keys \cap Cached : After(janitor.now, entries[k])}
  <2>1. PutAndRemove(K) /\ UNCHANGED <<clock, content, purges>>
    BY <1>11 DEF DeleteExpired
  <2>2. K \in SUBSET Keys
    BY DEF Cached
  <2>3. janitor' \in Janitor
    BY <1>11 DEF DeleteExpired, Janitor
  <2>. HIDE DEF K
  <2>. QED  BY <1>2, <2>1, <2>2, <2>3, RemovalsKeep
<1>12. CASE Close
  BY <1>2, <1>12, OthersKeep DEF Close, Janitor
<1>13. ASSUME NEW o \in pool, Drop(o) PROVE CacheInv'
  BY <1>2, <1>13, OthersKeep DEF Drop
<1>14. CASE Tick
  BY <1>2, <1>14, OthersKeep DEF Tick
<1>15. CASE UNCHANGED vars
  BY <1>2, <1>15, OthersKeep DEF vars
<1>. QED  BY <1>3, <1>4, <1>5, <1>6, <1>7, <1>8, <1>9, <1>10, <1>11, <1>12, <1>13,
             <1>14, <1>15 DEF Next, JanitorStep

LEMMA InitInv == Init => CacheInv
<1>. SUFFICES ASSUME Init PROVE CacheInv
  OBVIOUS
<1>1. TypeOK
  BY DEF Init, TypeOK, Janitor
<1>2. Cached = {}
  BY DEF Init, Cached
<1>3. \A p \in Procs : Holds(p) = {} /\ ~Stored(p)
  BY CacheAssumption DEF Init, Holds, Result, Stored, Idle
<1>. QED  BY <1>1, <1>2, <1>3 DEF CacheInv, Apart, Intact

\* The pool, the entries, the entries about to be stored and the callers' results
\* never share an object, and what is cached is what was set.
THEOREM CacheInvariant == Spec => []CacheInv
BY InitInv, CacheSteps, PTL DEF Spec

-----------------------------------------------------------------------------
(***************************************************************************)
(* What a Get returns.  As long as the object of the entry that it found   *)
(* was not pooled, it holds what was set and nobody else may write to it.  *)
(***************************************************************************)
Looking(p) == call[p].at \in {"found", "copying"}

CleanAt(p) ==
    Looking(p) /\ ~call[p].pooled =>
        /\ call[p].entry.obj \notin pool
        /\ \A q \in Procs : call[p].entry.obj \notin Holds(q)
        /\ content[call[p].entry.obj] = call[p].entry.val

FaithfulAt(p) ==
    call[p].at = "idle" /\ call[p] # Idle =>
        call[p].pooled \/ content[call[p].result] = call[p].val

GetInv == CacheInv /\ \A p \in Procs : CleanAt(p) /\ FaithfulAt(p)

\* A caller that does nothing is not concerned by what others do to an object
\* that it does not rely on.
LEMMA Unconcerned ==
    ASSUME GetInv, NEW q \in Procs, call'[q] = call[q], NEW o,
           o \notin Holds(q), Looking(q) /\ ~call[q].pooled => o # call[q].entry.obj,
           \A x \in Objects \ {o} : content'[x] = content[x],
           pool' \subseteq pool,
           \A r \in Procs : Holds(r)' \subseteq Holds(r) \cup {o}
    PROVE  CleanAt(q)' /\ FaithfulAt(q)'
<1>1. TypeOK
  BY DEF GetInv, CacheInv
<1>2. CleanAt(q)'
  <2>1. Looking(q) => call[q].entry.obj \in Objects
    BY <1>1, CallTypes, Referred DEF Looking
  <2>2. CleanAt(q) /\ Looking(q)' = Looking(q)
    BY DEF GetInv, Looking
  <2>. QED  BY <2>1, <2>2 DEF CleanAt
<1>3. FaithfulAt(q)'
  <2>1. call[q].at = "idle" /\ call[q] # Idle =>
            call[q].result \in Objects /\ call[q].result \in Holds(q)
    BY <1>1, Referred
  <2>2. FaithfulAt(q)
    BY DEF GetInv
  <2>. QED  BY <2>1, <2>2 DEF FaithfulAt
<1>. QED  BY <1>2, <1>3

\* A Get is given an object, or a Set fills one, that no Get relies on.
LEMMA NotReliedOn ==
    ASSUME GetInv, NEW o \in Objects, o \in pool \/ Unused(o), NEW q \in Procs
    PROVE  o \notin Holds(q) /\ (Looking(q) /\ ~call[q].pooled => o # call[q].entry.obj)
<1>1. o \notin Holds(q)
  BY Free DEF GetInv
<1>2. ASSUME Looking(q), ~call[q].pooled PROVE o # call[q].entry.obj
  BY <1>2 DEF GetInv, CleanAt, Unused, Source, Looking
<1>. QED  BY <1>1, <1>2

LEMMA GetInvPut ==
    ASSUME GetInv, NEW K \in SUBSET Keys, PutAndRemove(K), UNCHANGED content,
           NEW p \in Procs
    PROVE  CleanAt(p)' /\ FaithfulAt(p)'
<1> DEFINE put == {entries[k].obj : k \in K \cap Cached}
<1>1. /\ \A q \in Procs : /\ call'[q].at = call[q].at
                          /\ call[q].at \in {"idle", "store"} => call'[q] = call[q]
                          /\ Holds(q)' = Holds(q)
  BY PutKeeps DEF GetInv
<1>2. TypeOK /\ CleanAt(p) /\ FaithfulAt(p)
  BY DEF GetInv, CacheInv
<1>3. CleanAt(p)'
  <2>. SUFFICES ASSUME Looking(p), ~call'[p].pooled PROVE CleanAt(p)'
    BY <1>1 DEF CleanAt, Looking
  <2>1. call[p] \in Getting \cup Copying
    BY <1>2, CallTypes DEF Looking
  <2>2. [call[p] EXCEPT !.pooled = TRUE].pooled
    BY <2>1 DEF Getting, Copying
  <2>3. call[p].entry.obj \notin put /\ call'[p] = call[p]
    BY <2>2 DEF PutAndRemove, Looking
  <2>4. call[p].entry.obj \notin pool'
    BY <1>2, <2>3 DEF CleanAt, PutAndRemove, Looking
  <2>. QED  BY <1>1, <1>2, <2>3, <2>4 DEF CleanAt, Looking
<1>4. FaithfulAt(p)'
  BY <1>1, <1>2 DEF FaithfulAt
<1>. QED  BY <1>3, <1>4

LEMMA GetInvSteps ==
    ASSUME GetInv, [Next]_vars
    PROVE  GetInv'
<1>0. CacheInv' /\ TypeOK
  BY CacheSteps DEF GetInv, CacheInv
<1>. SUFFICES ASSUME NEW q \in Procs PROVE CleanAt(q)' /\ FaithfulAt(q)'
  BY <1>0 DEF GetInv
<1>1. \A r \in Procs : Holds(r) \subseteq Objects
  BY DEF Holds
<1>2. None \notin Holds(q) /\ (Looking(q) => None # call[q].entry.obj)
  BY <1>0, <1>1, CacheAssumption, CallTypes, Referred DEF Looking
\* Steps that write to no object: None stands for the object.
<1>3. ASSUME UNCHANGED content, pool' \subseteq pool, call'[q] = call[q],
             \A r \in Procs : call'[r] = call[r] \/ Holds(r)' = {}
      PROVE  CleanAt(q)' /\ FaithfulAt(q)'
  <2>1. \A r \in Procs : Holds(r)' \subseteq Holds(r) \cup {None}
    BY <1>3 DEF Holds, Result
  <2>. QED  BY <1>2, <1>3, <2>1, Unconcerned
<1>4. ASSUME NEW p \in Procs, NEW k \in Keys, Look(p, k)
      PROVE  CleanAt(q)' /\ FaithfulAt(q)'
  <2>1. /\ UNCHANGED <<content, pool>>
        /\ Holds(p)' = {} /\ \A r \in Procs \ {p} : call'[r] = call[r]
    BY <1>0, <1>4, CacheAssumption DEF Look, TypeOK, Holds, Result, Idle
  <2>2. CASE q # p
    BY <1>3, <2>1, <2>2
  <2>3. CASE q = p
    <3>1. CASE k \in Cached
      <4>1. call'[p] = [at |-> "found", key |-> k, entry |-> entries[k],
                        pooled |-> FALSE]
        BY <1>0, <1>4, <3>1 DEF Look, TypeOK
      <4>2. \A r \in Procs : entries[k].obj \notin Holds(r)'
        BY <2>1, <3>1 DEF GetInv, CacheInv, Apart, Holds, Result
      <4>3. entries[k].obj \notin pool /\ content[entries[k].obj] = entries[k].val
        BY <3>1 DEF GetInv, CacheInv, Apart, Intact
      <4>. QED  BY <2>1, <2>3, <4>1, <4>2, <4>3 DEF CleanAt, FaithfulAt, Looking
    <3>2. CASE k \notin Cached
      BY <1>0, <1>4, <2>3, <3>2 DEF Look, TypeOK, CleanAt, FaithfulAt, Looking, Idle
    <3>. QED  BY <3>1, <3>2
  <2>. QED  BY <2>2, <2>3
<1>5. ASSUME NEW p \in Procs, MissExpired(p) \/ Store(p)
      PROVE  CleanAt(q)' /\ FaithfulAt(q)'
  <2>1. /\ UNCHANGED <<content, pool>> /\ call'[p] = Idle
        /\ Holds(p)' = {} /\ \A r \in Procs \ {p} : call'[r] = call[r]
    <3>1. UNCHANGED <<content, pool>> /\ call' = [call EXCEPT ![p] = Idle]
      BY <1>5 DEF MissExpired, Store
    <3>. QED  BY <1>0, <3>1, CacheAssumption DEF TypeOK, Holds, Result, Idle
  <2>2. CASE q # p
    BY <1>3, <2>1, <2>2
  <2>3. CASE q = p
    BY <2>1, <2>3 DEF CleanAt, FaithfulAt, Looking, Idle
  <2>. QED  BY <2>2, <2>3
<1>6. ASSUME NEW p \in Procs, BeginCopy(p)
      PROVE  CleanAt(q)' /\ FaithfulAt(q)'
  <2>1. call[p] \in Getting
    BY <1>0, <1>6, CallTypes DEF BeginCopy
  <2>2. PICK o \in Objects :
           /\ o \in pool \/ Unused(o)
           /\ pool' = pool \ {o}
           /\ content' = IF o = call[p].entry.obj THEN content
                         ELSE [content EXCEPT ![o] = Torn]
           /\ call' = [call EXCEPT ![p] =
                  [at |-> "copying", entry |-> call[p].entry, result |-> o,
                   pooled |-> call[p].pooled]]
    BY <1>6 DEF BeginCopy
  <2>3. /\ call'[p] = [at |-> "copying", entry |-> call[p].entry, result |-> o,
                       pooled |-> call[p].pooled]
        /\ Holds(p)' = {o}
        /\ \A r \in Procs \ {p} : call'[r] = call[r] /\ Holds(r)' = Holds(r)
    BY <1>0, <2>2 DEF TypeOK, Holds, Result
  <2>4. \A x \in Objects \ {o} : content'[x] = content[x]
    BY <1>0, <2>2 DEF TypeOK
  <2>5. o \notin Holds(q) /\ (Looking(q) /\ ~call[q].pooled => o # call[q].entry.obj)
    BY <2>2, NotReliedOn
  <2>6. CASE q # p
    BY <2>2, <2>3, <2>4, <2>5, <2>6, Unconcerned
  <2>7. CASE q = p
    <3>1. FaithfulAt(q)'
      BY <2>3, <2>7 DEF FaithfulAt
    <3>2. ASSUME ~call[p].pooled PROVE CleanAt(q)'
      <4>1. Looking(p) /\ CleanAt(p) /\ call[p].entry.obj \in Objects
        BY <1>0, <1>6, Referred DEF BeginCopy, Looking, GetInv
      <4>. QED  BY <2>2, <2>3, <2>4, <2>5, <2>7, <3>2, <4>1 DEF CleanAt
    <3>. QED  BY <2>3, <2>7, <3>1, <3>2 DEF CleanAt
  <2>. QED  BY <2>6, <2>7
<1>7. ASSUME NEW p \in Procs, EndCopy(p)
      PROVE  CleanAt(q)' /\ FaithfulAt(q)'
  <2> DEFINE o == call[p].result
             s == call[p].entry.obj
  <2>1. /\ call[p] \in Copying /\ o \in Objects /\ s \in Objects /\ Holds(p) = {o}
        /\ Looking(p) /\ pool' = pool
    BY <1>0, <1>7, CallTypes, Referred DEF EndCopy, Copying, Looking
  <2>2. /\ call'[p] = [at |-> "idle", result |-> o, val |-> call[p].entry.val,
                       pooled |-> call[p].pooled]
        /\ content' = [content EXCEPT ![o] = content[s]]
        /\ \A r \in Procs \ {p} : call'[r] = call[r]
    BY <1>0, <1>7 DEF EndCopy, TypeOK
  <2>. HIDE DEF o, s
  <2>3. Holds(p)' = {o} /\ \A r \in Procs \ {p} : Holds(r)' = Holds(r)
    BY <2>1, <2>2 DEF Holds, Result
  <2>4. content'[o] = content[s] /\ \A x \in Objects \ {o} : content'[x] = content[x]
    BY <1>0, <2>1, <2>2 DEF TypeOK
  <2>5. CASE q # p
    <3>1. o \notin Holds(q)
      BY <2>1, <2>5 DEF GetInv, CacheInv, Apart
    <3>2. Looking(q) /\ ~call[q].pooled => o # call[q].entry.obj
      BY <2>1 DEF GetInv, CleanAt
    <3>. QED  BY <2>1, <2>2, <2>3, <2>4, <2>5, <3>1, <3>2, Unconcerned
  <2>6. CASE q = p
    <3>1. ~call[p].pooled => content[s] = call[p].entry.val
      BY <2>1 DEF GetInv, CleanAt, s
    <3>. QED  BY <2>2, <2>4, <2>6, <3>1 DEF CleanAt, FaithfulAt, Looking
  <2>. QED  BY <2>5, <2>6
<1>8. ASSUME NEW p \in Procs, NEW k \in Keys, NEW v \in Values, NEW ttl \in TTLs,
             Stamp(p, k, v, ttl)
      PROVE  CleanAt(q)' /\ FaithfulAt(q)'
  <2>1. PICK o \in Objects : Unused(o) /\ content' = [content EXCEPT ![o] = v]
    BY <1>8 DEF Stamp
  <2>2. /\ call'[p].at = "store" /\ Holds(p)' = {} /\ pool' = pool
        /\ \A r \in Procs \ {p} : call'[r] = call[r] /\ Holds(r)' = Holds(r)
    BY <1>0, <1>8 DEF Stamp, TypeOK, Holds, Result
  <2>3. o \notin Holds(q) /\ (Looking(q) /\ ~call[q].pooled => o # call[q].entry.obj)
    BY <2>1, NotReliedOn
  <2>4. \A x \in Objects \ {o} : content'[x] = content[x]
    BY <1>0, <2>1 DEF TypeOK
  <2>5. CASE q # p
    BY <2>2, <2>3, <2>4, <2>5, Unconcerned
  <2>6. CASE q = p
    BY <2>2, <2>6 DEF CleanAt, FaithfulAt, Looking
  <2>. QED  BY <2>5, <2>6
<1>9. ASSUME NEW k \in Keys, Delete(k) \/ Purge(k)
      PROVE  CleanAt(q)' /\ FaithfulAt(q)'
  <2>1. {k} \in SUBSET Keys /\ PutAndRemove({k}) /\ UNCHANGED content
    BY <1>9 DEF Delete, Purge
  <2>. QED  BY <2>1, GetInvPut
<1>10. CASE Clear
  BY <1>10, GetInvPut DEF Clear
<1>11. CASE DeleteExpired
  <2> DEFINE K == {k \in janitor.keys \cap Cached : After(janitor.now, entries[k])}
  <2>1. PutAndRemove(K) /\ UNCHANGED content /\ K \in SUBSET Keys
    BY <1>11 DEF DeleteExpired, Cached
  <2>. HIDE DEF K
  <2>. QED  BY <2>1, GetInvPut
<1>12. CASE CleanExpired \/ FindExpired \/ Close \/ (\E o \in pool : Drop(o)) \/ Tick
            \/ UNCHANGED vars
  BY <1>3, <1>12 DEF CleanExpired, FindExpired, Close, Drop, Tick, vars
<1>. QED  BY <1>4, <1>5, <1>6, <1>7, <1>8, <1>9, <1>10, <1>11, <1>12
          DEF Next, JanitorStep

\* A Get whose entry kept its object until it was copied returns what was set,
\* and the caller keeps that until its next call.
THEOREM FaithfulGets == Spec => []FaithfulUnlessPooled
<1>1. Init => GetInv
  BY InitInv DEF Init, GetInv, CleanAt, FaithfulAt, Looking, Idle
<1>2. GetInv => FaithfulUnlessPooled
  BY DEF GetInv, FaithfulAt, FaithfulUnlessPooled
<1>. QED  BY <1>1, <1>2, GetInvSteps, PTL DEF Spec

-----------------------------------------------------------------------------
(***************************************************************************)
(* The refinement.                                                         *)
(***************************************************************************)

\* What is found is what was set: the objects may be left out.
FoundValue(k) == IF k \in Live THEN entries[k].val ELSE None

LEMMA FoundIs ==
    ASSUME CacheInv
    PROVE  /\ Found = [k \in Keys |-> FoundValue(k)]
           /\ \A k \in Keys : Found[k] = FoundValue(k)
           /\ \A k \in Live : entries[k] \in Entry /\ entries[k].val # None
BY CacheAssumption DEF Found, FoundValue, CacheInv, Intact, Live, TypeOK, Cached, Entry

LEMMA FoundNow == ASSUME CacheInv' PROVE (Found = [k \in Keys |-> FoundValue(k)])'
BY DEF Found, FoundValue, CacheInv, Intact, Live

\* Time passes and entries go, and what is found only becomes less.
LEMMA Forgotten ==
    ASSUME CacheInv, CacheInv', clock' >= clock,
           \A k \in Keys : entries'[k] \in {entries[k], None}
    PROVE  Promised!Lose
<1> DEFINE K == {k \in Keys : FoundValue(k)' = None}
<1>1. \A k \in Keys \ K : k \in Live /\ entries'[k] = entries[k]
  <2>. SUFFICES ASSUME NEW k \in Keys, FoundValue(k)' # None
                PROVE  k \in Live /\ entries'[k] = entries[k]
    OBVIOUS
  <2>1. k \in Live'
    BY DEF FoundValue
  <2>2. entries'[k] # None /\ ~(clock' > entries'[k].expiry)
    BY <2>1 DEF Live, Cached, After
  <2>3. entries'[k] = entries[k] /\ k \in Cached
    BY <2>2 DEF Cached
  <2>4. clock \in Nat /\ clock' \in Nat /\ entries[k].expiry \in Int
    BY <2>3 DEF CacheInv, TypeOK, Cached, Entry
  <2>. QED  BY <2>2, <2>3, <2>4 DEF Live, After
<1>2. \A k \in Keys : FoundValue(k)' = IF k \in K THEN None ELSE FoundValue(k)
  BY <1>1 DEF FoundValue
<1>3. Found' = [j \in Keys |-> IF j \in K THEN None ELSE Found[j]]
  BY <1>2, FoundIs, FoundNow
<1>4. Promised!Forget(K) /\ K \in SUBSET Keys
  BY <1>3 DEF Promised!Forget
<1>. QED  BY <1>4 DEF Promised!Lose

\* What p asks for.
AskOf(p) == [caller |-> p, key |-> call[p].key, value |-> call[p].entry.val]

LEMMA AskedIs ==
    /\ Asked = {AskOf(p) : p \in {q \in Procs : Stored(q)}}
    /\ \A p : AskOf(p).caller = p
BY DEF Asked, AskOf

\* A Store takes p's call from those under way, and no other.
LEMMA StoreTakes ==
    ASSUME TypeOK, NEW p \in Procs, Store(p)
    PROVE  AskOf(p) \in Asked /\ Asked' = Asked \ {AskOf(p)}
<1>1. Stored(p) /\ ~Stored(p)' /\ \A q \in Procs \ {p} : call'[q] = call[q]
  BY DEF Store, Stored, TypeOK, Idle
<1>2. \A q \in Procs \ {p} : (Stored(q)' <=> Stored(q)) /\ AskOf(q)' = AskOf(q)
  BY <1>1 DEF Stored, AskOf
<1>3. Asked' = {AskOf(q)' : q \in {r \in Procs : Stored(r)'}}
  BY DEF Asked, AskOf
<1>4. \A q \in Procs \ {p} : AskOf(q) # AskOf(p)
  BY AskedIs
<1>. QED  BY <1>1, <1>2, <1>3, <1>4, AskedIs

\* A Stamp is a new call of p's, which has no other.
LEMMA StampAsks ==
    ASSUME CacheInv, NEW p \in Procs, NEW k \in Keys, NEW v \in Values,
           NEW ttl \in TTLs, Stamp(p, k, v, ttl)
    PROVE  \E c \in Promised!SetCall : /\ \A d \in Asked : d.caller # c.caller
                                      /\ Asked' = Asked \cup {c}
<1> DEFINE c == [caller |-> p, key |-> k, value |-> v]
<1>1. call'[p].key = k /\ call'[p].entry.val = v
  BY DEF Stamp, CacheInv, TypeOK
<1>2. AskOf(p)' = c
  BY <1>1 DEF AskOf
<1>3. ~Stored(p) /\ Stored(p)' /\ \A q \in Procs \ {p} : call'[q] = call[q]
  BY DEF Stamp, Stored, CacheInv, TypeOK
<1>4. \A q \in Procs \ {p} : (Stored(q)' <=> Stored(q)) /\ AskOf(q)' = AskOf(q)
  BY <1>3 DEF Stored, AskOf
<1>5. Asked' = {AskOf(q)' : q \in {r \in Procs : Stored(r)'}}
  BY DEF Asked, AskOf
<1>6. c \in Promised!SetCall /\ c.caller = p
  BY DEF Promised!SetCall
<1>. HIDE DEF c
<1>7. Asked' = Asked \cup {c}
  BY <1>2, <1>3, <1>4, <1>5, AskedIs
<1>8. \A d \in Asked : d.caller # c.caller
  BY <1>3, <1>6, AskedIs
<1>. QED  BY <1>6, <1>7, <1>8

\* A Store is a Set, unless the entry expired while its caller waited for the lock.
LEMMA StoreIsSet ==
    ASSUME CacheInv, CacheInv', NEW p \in Procs, Store(p)
    PROVE  Promised!Take(AskOf(p))
<1>1. PICK k \in Keys, e \in Entry :
         /\ entries'[k] = e
         /\ call[p].key = k /\ call[p].entry = e
         /\ \A j \in Keys \ {k} : entries'[j] \in {entries[j], None}
  BY StoreEffect DEF CacheInv, Setting
<1>2. e.val \in Values /\ clock' = clock
  BY DEF Entry, Store
<1>7. AskOf(p).key = k /\ AskOf(p).value = e.val
  BY <1>1 DEF AskOf
<1>8. Asked' = Asked \ {AskOf(p)}
  BY StoreTakes DEF CacheInv
<1> DEFINE K == {j \in Keys : FoundValue(j)' = None}
<1>3. \A j \in Keys \ {k} : FoundValue(j)' \in {FoundValue(j), None}
  BY <1>1, <1>2 DEF FoundValue, Live, Cached, After
<1>4. FoundValue(k)' \in {e.val, None}
  BY <1>1 DEF FoundValue
<1>5. CASE FoundValue(k)' = None
  <2>1. Found' = [j \in Keys |-> IF j \in K THEN None ELSE Found[j]]
    BY <1>3, <1>5, FoundIs, FoundNow
  <2>2. Promised!Forget(K) /\ K \in SUBSET Keys /\ k \in K
    BY <1>5, <2>1 DEF Promised!Forget
  <2>. QED  BY <1>7, <1>8, <2>2 DEF Promised!Take
<1>6. CASE FoundValue(k)' # None
  <2>1. Found' = [j \in Keys |-> IF j = k THEN e.val
                                 ELSE IF j \in K THEN None ELSE Found[j]]
    BY <1>3, <1>4, <1>6, FoundIs, FoundNow
  <2>2. K \in SUBSET (Keys \ {k})
    BY <1>6
  <2>3. Promised!Set(k, e.val)
    BY <2>1, <2>2 DEF Promised!Set
  <2>. QED  BY <1>7, <1>8, <2>3 DEF Promised!Take
<1>. QED  BY <1>5, <1>6

\* No step but a Store gives a key an entry, and only a Stamp makes one.
LEMMA OnlyStoreAdds ==
    ASSUME CacheInv, [Next]_vars, \A p \in Procs : ~Store(p)
    PROVE  /\ \A k \in Keys : entries'[k] \in {entries[k], None}
           /\ clock' \in {clock, clock + 1}
           /\ \A p \in Procs : Stored(p)' =>
                 \/ Stored(p) /\ call'[p] = call[p]
                 \/ call'[p].entry.updated = clock /\ clock' = clock + 1
           /\ \/ \E p \in Procs, k \in Keys, v \in Values, ttl \in TTLs :
                    Stamp(p, k, v, ttl)
              \/ \A p \in Procs : /\ Stored(p)' <=> Stored(p)
                                  /\ Stored(p) => call'[p] = call[p]
<1> DEFINE Adds ==
    /\ \A k \in Keys : entries'[k] \in {entries[k], None}
    /\ clock' \in {clock, clock + 1}
    /\ \A p \in Procs : Stored(p)' =>
          \/ Stored(p) /\ call'[p] = call[p]
          \/ call'[p].entry.updated = clock /\ clock' = clock + 1
    /\ \/ \E p \in Procs, k \in Keys, v \in Values, ttl \in TTLs : Stamp(p, k, v, ttl)
       \/ \A p \in Procs : /\ Stored(p)' <=> Stored(p)
                           /\ Stored(p) => call'[p] = call[p]
<1>. SUFFICES Adds
  OBVIOUS
<1>0. TypeOK
  BY DEF CacheInv
<1>1. ASSUME UNCHANGED <<entries, call>>, clock' \in {clock, clock + 1} PROVE Adds
  BY <1>1 DEF Stored
<1>2. ASSUME NEW p \in Procs, UNCHANGED <<entries, clock>>, ~Stored(p),
             call'[p].at # "store" /\ \A q \in Procs \ {p} : call'[q] = call[q]
      PROVE  Adds
  BY <1>2 DEF Stored
<1>3. ASSUME NEW K \in SUBSET Keys, PutAndRemove(K), UNCHANGED <<clock, content>>
      PROVE  Adds
  BY <1>3, PutKeeps DEF Stored
<1>4. ASSUME NEW p \in Procs, NEW k \in Keys, Look(p, k) PROVE Adds
  <2>1. call'[p].at # "store"
    BY <1>0, <1>4 DEF Look, TypeOK, Idle
  <2>. QED  BY <1>0, <1>2, <1>4, <2>1 DEF Look, TypeOK, Stored
<1>5. ASSUME NEW p \in Procs, MissExpired(p) \/ BeginCopy(p) \/ EndCopy(p)
      PROVE  Adds
  <2>0. ~Stored(p)
    BY <1>5 DEF MissExpired, BeginCopy, EndCopy, Stored
  <2>1. UNCHANGED <<entries, clock>> /\ \E c : call' = [call EXCEPT ![p] = c] /\ c.at # "store"
    BY <1>5 DEF MissExpired, BeginCopy, EndCopy, Idle
  <2>. QED  BY <1>0, <1>2, <2>0, <2>1 DEF TypeOK
<1>6. ASSUME NEW p \in Procs, NEW k \in Keys, NEW v \in Values, NEW ttl \in TTLs,
             Stamp(p, k, v, ttl)
      PROVE  Adds
  <2>1. call'[p].entry.updated = clock /\ \A q \in Procs \ {p} : call'[q] = call[q]
    BY <1>0, <1>6 DEF Stamp, TypeOK
  <2>2. /\ entries' = entries /\ clock' = clock + 1
        /\ \A q \in Procs : Stored(q)' =>
              \/ Stored(q) /\ call'[q] = call[q]
              \/ call'[q].entry.updated = clock
    BY <1>6, <2>1 DEF Stamp, Stored
  <2>3. \E q \in Procs, j \in Keys, w \in Values, t \in TTLs : Stamp(q, j, w, t)
    BY <1>6
  <2>. QED  BY <2>2, <2>3
<1>. HIDE DEF Adds
<1>7. ASSUME NEW k \in Keys, Delete(k) \/ Purge(k) PROVE Adds
  <2>1. {k} \in SUBSET Keys /\ PutAndRemove({k}) /\ UNCHANGED <<clock, content>>
    BY <1>7 DEF Delete, Purge
  <2>. QED  BY <1>3, <2>1
<1>8. CASE Clear
  BY <1>3, <1>8 DEF Clear
<1>9. CASE DeleteExpired
  <2> DEFINE K == {k \in janitor.keys \cap Cached : After(janitor.now, entries[k])}
  <2>1. PutAndRemove(K) /\ UNCHANGED <<clock, content>> /\ K \in SUBSET Keys
    BY <1>9 DEF DeleteExpired, Cached
  <2>. HIDE DEF K
  <2>. QED  BY <1>3, <2>1
<1>10. CASE CleanExpired \/ FindExpired \/ Close \/ (\E o \in pool : Drop(o)) \/ Tick
            \/ UNCHANGED vars
  BY <1>1, <1>10 DEF CleanExpired, FindExpired, Close, Drop, Tick, vars
<1>. QED  BY <1>4, <1>5, <1>6, <1>7, <1>8, <1>9, <1>10 DEF Next, JanitorStep

LEMMA StepsImplement ==
    ASSUME CacheInv, CacheInv', [Next]_vars
    PROVE  [Promised!SharedNext]_<<Found, Asked>>
<1>1. ASSUME NEW p \in Procs, Store(p) PROVE Promised!SharedNext
  <2>1. AskOf(p) \in Asked
    BY <1>1, StoreTakes DEF CacheInv
  <2>. QED  BY <1>1, <2>1, StoreIsSet DEF Promised!SharedNext
<1>2. CASE \A p \in Procs : ~Store(p)
  <2>1. clock \in Nat
    BY DEF CacheInv, TypeOK
  <2>2. Promised!Lose
    BY <1>2, <2>1, OnlyStoreAdds, Forgotten
  <2>3. CASE \A p \in Procs : /\ Stored(p)' <=> Stored(p)
                              /\ Stored(p) => call'[p] = call[p]
    <3>1. \A p \in Procs : Stored(p) => AskOf(p)' = AskOf(p)
      BY <2>3 DEF AskOf
    <3>2. Asked' = {AskOf(p)' : p \in {q \in Procs : Stored(q)'}}
      BY DEF Asked, AskOf
    <3>3. Asked' = Asked
      BY <2>3, <3>1, <3>2, AskedIs
    <3>. QED  BY <2>2, <3>3 DEF Promised!SharedNext
  <2>4. ASSUME NEW p \in Procs, NEW k \in Keys, NEW v \in Values, NEW ttl \in TTLs,
               Stamp(p, k, v, ttl)
        PROVE  Promised!SharedNext
    <3>1. PICK c \in Promised!SetCall : /\ \A d \in Asked : d.caller # c.caller
                                       /\ Asked' = Asked \cup {c}
      BY <2>4, StampAsks
    <3>. QED  BY <2>2, <3>1 DEF Promised!SharedNext, Promised!Ask
  <2>. QED  BY <1>2, <2>3, <2>4, OnlyStoreAdds
<1>. QED  BY <1>1, <1>2

\* LocalCache implements the abstract cache: a key's result in memory changes only
\* when a call of Set stores its value there, or when the value goes for good.
THEOREM Implements == Spec => Refinement
<1>1. Init => Promised!SharedInit
  <2>. SUFFICES ASSUME Init PROVE Promised!SharedInit
    OBVIOUS
  <2>1. Live = {} /\ Asked = {}
    BY DEF Init, Live, Cached, Asked, Stored, Idle
  <2>. QED  BY <2>1 DEF Promised!SharedInit, Promised!Init, Found
<1>. QED  BY <1>1, StepsImplement, CacheInvariant, PTL
          DEF Spec, Refinement, Promised!SharedSpec

-----------------------------------------------------------------------------
(***************************************************************************)
(* The janitor.                                                            *)
(***************************************************************************)
Punctual == janitor.at \in {"scan", "delete"} => janitor.now <= clock

\* The janitor deletes what is expired when it deletes, not when it looked.
THEOREM SparedByJanitor == Spec => JanitorSpares
<1>1. Init => Punctual
  BY DEF Init, Punctual
<1>2. CacheInv /\ Punctual /\ [Next]_vars => Punctual'
  <2>. SUFFICES ASSUME CacheInv, Punctual, [Next]_vars PROVE Punctual'
    OBVIOUS
  <2>1. clock \in Nat /\ (janitor.at \in {"scan", "delete"} => janitor.now \in Nat)
    BY DEF CacheInv, TypeOK, Janitor
  <2>2. ASSUME UNCHANGED janitor, clock' \in {clock, clock + 1} PROVE Punctual'
    BY <2>1, <2>2 DEF Punctual
  <2>3. CASE CleanExpired
    BY <2>1, <2>3 DEF CleanExpired, Punctual
  <2>4. CASE FindExpired
    BY <2>4, FindTyped DEF CacheInv, Punctual
  <2>5. CASE DeleteExpired \/ Close
    BY <2>5 DEF DeleteExpired, Close, Punctual
  <2>6. CASE (\E p \in Procs : Store(p)) \/ UNCHANGED vars
    BY <2>2, <2>6 DEF Store, vars
  <2>7. CASE /\ \A p \in Procs : ~Store(p)
             /\ UNCHANGED janitor
    BY <2>2, <2>7, OnlyStoreAdds
  <2>8. \/ CleanExpired \/ FindExpired \/ DeleteExpired \/ Close
        \/ UNCHANGED janitor
    BY DEF Next, JanitorStep, Look, MissExpired, BeginCopy, EndCopy, Stamp, Store,
           Delete, Purge, Clear, Drop, Tick, vars
  <2>. QED  BY <2>3, <2>4, <2>5, <2>6, <2>7, <2>8
<1>3. CacheInv /\ Punctual /\ [Next]_vars =>
          [janitor.at = "delete" /\ janitor'.at = "idle" =>
              \A k \in Cached : entries'[k] = None => After(clock, entries[k])]_vars
  <2>. SUFFICES ASSUME CacheInv, Punctual, Next, janitor.at = "delete",
                       janitor'.at = "idle", NEW k \in Cached, entries'[k] = None
                PROVE  After(clock, entries[k])
    OBVIOUS
  <2>1. DeleteExpired
    BY DEF Next, JanitorStep, Look, MissExpired, BeginCopy, EndCopy, Stamp, Store,
           Delete, Purge, Clear, CleanExpired, FindExpired, Close, Drop, Tick
  <2>2. After(janitor.now, entries[k])
    BY <2>1 DEF DeleteExpired, PutAndRemove, Cached
  <2>3. clock \in Nat /\ janitor.now \in Nat /\ entries[k].expiry \in Int
    BY DEF CacheInv, TypeOK, Janitor, Cached, Entry
  <2>. QED  BY <2>2, <2>3 DEF Punctual, After
<1>. QED  BY <1>1, <1>2, <1>3, CacheInvariant, PTL DEF Spec, JanitorSpares

-----------------------------------------------------------------------------
(***************************************************************************)
(* The size.                                                               *)
(***************************************************************************)

\* An entry is older than the clock, stored or not, so that a full cache has one
\* to evict.
Stamped ==
    /\ \A k \in Cached : entries[k].updated < clock
    /\ \A p \in Procs : Stored(p) => call[p].entry.updated < clock

LEMMA SomeOldest ==
    ASSUME TypeOK, Stamped, Cached # {}
    PROVE  Oldest # {}
\* The entries at most as old as k; a least such set belongs to an oldest entry.
<1> DEFINE Upto(k) == {j \in Cached : entries[j].updated <= entries[k].updated}
           T == {Upto(k) : k \in Cached}
<1>1. \A k \in Cached : entries[k].updated \in Nat /\ k \in Upto(k)
  BY DEF TypeOK, Cached, Entry
<1>2. T \subseteq SUBSET Cached /\ T # {}
  OBVIOUS
<1>3. IsFiniteSet(Cached)
  BY CacheAssumption, FS_Subset DEF Cached
<1>4. PICK U \in T : \A V \in T : <<V, U>> \notin StrictSubsetOrdering(Cached)
  <2>1. IsWellFoundedOn(StrictSubsetOrdering(Cached), SUBSET Cached)
    BY <1>3, FS_StrictSubsetOrderingWellFounded, FS_FiniteSubsetsOfFinite
  <2>. HIDE DEF T
  <2>. QED  BY <1>2, <2>1, WFMin
<1>5. PICK k \in Cached : U = Upto(k)
  OBVIOUS
<1>6. ASSUME NEW j \in Cached PROVE entries[k].updated <= entries[j].updated
  <2>1. Upto(j) \in T /\ Upto(j) \in SUBSET Cached /\ Upto(k) \in SUBSET Cached
    OBVIOUS
  <2>2. ~(Upto(j) \subseteq Upto(k) /\ Upto(j) # Upto(k))
    <3>1. <<Upto(j), Upto(k)>> \notin StrictSubsetOrdering(Cached)
      BY <1>4, <1>5, <2>1
    <3>. HIDE DEF Upto
    <3>. QED  BY <2>1, <3>1 DEF StrictSubsetOrdering
  <2>3. CASE entries[j].updated < entries[k].updated
    <3>1. Upto(j) \subseteq Upto(k) /\ k \notin Upto(j)
      BY <1>1, <2>3
    <3>. QED  BY <1>1, <2>2, <3>1
  <2>. QED  BY <1>1, <2>3
<1>. QED  BY <1>6 DEF Oldest, Stamped

\* The cache keeps to its size if the empty string is no key.
THEOREM SizeBounded == Spec => []SizeBound
<1> DEFINE Inv == CacheInv /\ Stamped /\ SizeBound
<1>1. Init => Inv
  <2>. SUFFICES ASSUME Init PROVE Inv
    OBVIOUS
  <2>1. Cached = {} /\ \A p \in Procs : ~Stored(p)
    BY DEF Init, Cached, Stored, Idle
  <2>2. Cardinality(Cached) = 0
    BY <2>1, FS_EmptySet
  <2>. QED  BY <2>1, <2>2, InitInv, CacheAssumption DEF Stamped, SizeBound
<1>2. Inv /\ [Next]_vars => Inv'
  <2>. SUFFICES ASSUME Inv, [Next]_vars PROVE Inv'
    OBVIOUS
  <2>1. CacheInv' /\ TypeOK /\ clock \in Nat
    BY CacheSteps DEF CacheInv, TypeOK
  <2>2. IsFiniteSet(Cached) /\ Cardinality(Cached) \in Nat
    BY CacheAssumption, FS_Subset, FS_CardinalityType DEF Cached
  <2>3. CASE \A p \in Procs : ~Store(p)
    <3>1. Cached' \subseteq Cached
      BY <2>3, OnlyStoreAdds DEF Cached
    <3>2. Cardinality(Cached') <= Cardinality(Cached) /\ Cardinality(Cached') \in Nat
      BY <2>2, <3>1, FS_Subset, FS_CardinalityType
    <3>3. SizeBound'
      BY <2>2, <3>2, CacheAssumption DEF SizeBound
    <3>4. ASSUME NEW k \in Cached' PROVE entries'[k].updated < clock'
      <4>1. k \in Cached /\ entries'[k] = entries[k] /\ clock' \in {clock, clock + 1}
        BY <2>3, <3>1, OnlyStoreAdds DEF Cached
      <4>2. entries[k].updated \in Nat /\ entries[k].updated < clock
        BY <2>1, <4>1 DEF TypeOK, Cached, Entry, Stamped
      <4>. QED  BY <2>1, <4>1, <4>2
    <3>5. ASSUME NEW p \in Procs, Stored(p)' PROVE call'[p].entry.updated < clock'
      <4>1. CASE call'[p].entry.updated = clock /\ clock' = clock + 1
        BY <2>1, <4>1
      <4>2. CASE Stored(p) /\ call'[p] = call[p] /\ clock' \in {clock, clock + 1}
        <5>1. call[p].entry.updated \in Nat
          BY <2>1, <4>2, CallTypes DEF Stored, Setting, Entry
        <5>. QED  BY <2>1, <4>2, <5>1 DEF Stamped
      <4>. QED  BY <2>3, <3>5, <4>1, <4>2, OnlyStoreAdds
    <3>. QED  BY <2>1, <3>3, <3>4, <3>5 DEF Stamped
  <2>4. ASSUME NEW p \in Procs, Store(p) PROVE Inv'
    <3>1. PICK k \in Keys, e \in Entry :
             /\ call[p].key = k /\ call[p].entry = e /\ Stored(p)
             /\ entries'[k] = e
             /\ \A j \in Keys \ {k} : entries'[j] \in {entries[j], None}
      BY <2>1, <2>4, StoreEffect DEF Setting
    <3>2. Stamped'
      <4>1. clock' = clock /\ call' = [call EXCEPT ![p] = Idle]
        BY <2>4 DEF Store
      <4>. QED  BY <2>1, <3>1, <4>1 DEF Stamped, Cached, TypeOK, Stored, Idle
    <3>3. SizeBound'
      <4>. SUFFICES ASSUME NoKey \notin Keys PROVE Cardinality(Cached') <= MaxSize
        BY DEF SizeBound
      <4>0. Cardinality(Cached) <= MaxSize /\ MaxSize \in Nat \ {0}
        BY CacheAssumption DEF SizeBound
      <4>1. CASE MustEvict(k)
        <5>1. Cached # {} /\ Cardinality(Cached) = MaxSize /\ k \notin Cached
          BY <2>2, <4>0, <4>1, FS_EmptySet DEF MustEvict
        <5>2. Oldest # {}
          BY <2>1, <5>1, SomeOldest
        <5>3. PICK j \in Oldest : entries' =
                 [i \in Keys |-> IF i = k THEN e
                                 ELSE IF i \in {j} \ {NoKey} THEN None ELSE entries[i]]
          BY <2>4, <3>1, <4>1, <5>2 DEF Store
        <5>4. j \in Cached /\ j \in Keys /\ j # NoKey
          BY DEF Oldest, Cached
        <5>5. Cached' \subseteq (Cached \ {j}) \cup {k}
          BY <5>3, <5>4 DEF Cached
        <5>6. /\ IsFiniteSet((Cached \ {j}) \cup {k})
              /\ Cardinality((Cached \ {j}) \cup {k}) = MaxSize
          <6>1. IsFiniteSet(Cached \ {j}) /\ Cardinality(Cached \ {j}) = MaxSize - 1
            BY <2>2, <5>1, <5>4, FS_RemoveElement
          <6>2. k \notin Cached \ {j}
            BY <5>1
          <6>. QED  BY <4>0, <6>1, <6>2, FS_AddElement
        <5>. QED  BY <5>5, <5>6, FS_Subset
      <4>2. CASE ~MustEvict(k)
        <5>1. Cached' \subseteq Cached \cup {k}
          BY <3>1 DEF Cached
        <5>2. /\ IsFiniteSet(Cached \cup {k})
              /\ Cardinality(Cached \cup {k}) <= MaxSize
          <6>1. /\ IsFiniteSet(Cached \cup {k})
                /\ Cardinality(Cached \cup {k}) =
                      IF k \in Cached THEN Cardinality(Cached)
                      ELSE Cardinality(Cached) + 1
            BY <2>2, FS_AddElement
          <6>2. CASE k \in Cached
            BY <4>0, <6>1, <6>2
          <6>3. CASE k \notin Cached
            <7>1. Cardinality(Cached) < MaxSize
              BY <2>2, <4>0, <4>2, <6>3 DEF MustEvict
            <7>. QED  BY <2>2, <4>0, <6>1, <6>3, <7>1
          <6>. QED  BY <6>2, <6>3
        <5>3. Cardinality(Cached') <= Cardinality(Cached \cup {k})
              /\ Cardinality(Cached') \in Nat /\ Cardinality(Cached \cup {k}) \in Nat
          BY <5>1, <5>2, FS_Subset, FS_CardinalityType
        <5>. QED  BY <4>0, <5>2, <5>3
      <4>. QED  BY <4>1, <4>2
    <3>. QED  BY <2>1, <3>2, <3>3
  <2>. QED  BY <2>3, <2>4
<1>. QED  BY <1>1, <1>2, PTL DEF Spec
=============================================================================
