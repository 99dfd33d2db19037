----------------------- MODULE MultiLevelCacheProofs -----------------------
(***************************************************************************)
(* MultiLevelInv is inductive, for any number of goroutines and any keys.  *)
(***************************************************************************)
EXTENDS MultiLevelCache, TLAPS

\* What each operation does to a layer, key by key.
LEMMA LocalSet ==
    ASSUME NEW k \in Keys, NEW v \in Values, L!TypeOK, L!Set(k, v)
    PROVE  /\ L!TypeOK'
           /\ local'[k] = v
           /\ \A j \in Keys \ {k} : local'[j] \in {local[j], None}
BY DEF L!TypeOK, L!Set

LEMMA LocalForget ==
    ASSUME NEW K \in SUBSET Keys, L!TypeOK, L!Forget(K)
    PROVE  /\ L!TypeOK'
           /\ \A j \in K : local'[j] = None
           /\ \A j \in Keys \ K : local'[j] = local[j]
BY DEF L!TypeOK, L!Forget

LEMMA RemoteSet ==
    ASSUME NEW k \in Keys, NEW v \in Values, R!TypeOK, R!Set(k, v)
    PROVE  /\ R!TypeOK'
           /\ remote'[k] = v
           /\ \A j \in Keys \ {k} : remote'[j] \in {remote[j], None}
BY DEF R!TypeOK, R!Set

LEMMA RemoteForget ==
    ASSUME NEW K \in SUBSET Keys, R!TypeOK, R!Forget(K)
    PROVE  /\ R!TypeOK'
           /\ \A j \in K : remote'[j] = None
           /\ \A j \in Keys \ K : remote'[j] = remote[j]
BY DEF R!TypeOK, R!Forget

LEMMA Types == TypeOK <=> /\ L!TypeOK /\ R!TypeOK
                          /\ call \in [Procs -> {Idle} \cup Get \cup Change]
                          /\ settled \in [Keys -> Values \cup {None, Unknown}]
BY DEF TypeOK, L!TypeOK, R!TypeOK

\* A change has its keys' new value in its layer, and other keys keep theirs or
\* lose them.
LEMMA ChangesLocal ==
    ASSUME NEW p \in Procs, call[p] \in Change, L!TypeOK, ChangeLocal(p)
    PROVE  /\ L!TypeOK'
           /\ \A j \in Keys \cap call[p].keys : local'[j] = call[p].val
           /\ \A j \in Keys \ call[p].keys : local'[j] \in {local[j], None}
<1>1. CASE call[p].val = None
  <2>1. L!Forget(call[p].keys)
    BY <1>1 DEF ChangeLocal
  <2>2. call[p].keys \in SUBSET Keys
    BY DEF Change, ChangeOf
  <2>. QED  BY <1>1, <2>1, <2>2, LocalForget
<1>2. CASE call[p].val # None
  <2>1. PICK k \in Keys : call[p].keys = {k}
    BY <1>2 DEF Change, ChangeOf
  <2>2. call[p].val \in Values
    BY <1>2 DEF Change, ChangeOf
  <2>3. L!Set(k, call[p].val)
    BY <1>2, <2>1 DEF ChangeLocal
  <2>. QED  BY <2>1, <2>2, <2>3, LocalSet
<1>. QED  BY <1>1, <1>2

LEMMA ChangesRemote ==
    ASSUME NEW p \in Procs, call[p] \in Change, R!TypeOK, ChangeRemote(p)
    PROVE  /\ R!TypeOK'
           /\ \A j \in Keys \cap call[p].keys : remote'[j] = call[p].val
           /\ \A j \in Keys \ call[p].keys : remote'[j] \in {remote[j], None}
<1>1. CASE call[p].val = None
  <2>1. R!Forget(call[p].keys)
    BY <1>1 DEF ChangeRemote
  <2>2. call[p].keys \in SUBSET Keys
    BY DEF Change, ChangeOf
  <2>. QED  BY <1>1, <2>1, <2>2, RemoteForget
<1>2. CASE call[p].val # None
  <2>1. PICK k \in Keys : call[p].keys = {k}
    BY <1>2 DEF Change, ChangeOf
  <2>2. call[p].val \in Values
    BY <1>2 DEF Change, ChangeOf
  <2>3. R!Set(k, call[p].val)
    BY <1>2, <2>1 DEF ChangeRemote
  <2>. QED  BY <2>1, <2>2, <2>3, RemoteSet
<1>. QED  BY <1>1, <1>2

\* Crossing marks calls and changes nothing else of them.
LEMMA Crossing ==
    ASSUME NEW f \in [Procs -> {Idle} \cup Get \cup Change],
           NEW p \in Procs, NEW K \in SUBSET Keys,
           \A q \in Procs \ {p} : f[q] = call[q],
           call' = Cross(f, p, K)
    PROVE  /\ call' \in [Procs -> {Idle} \cup Get \cup Change]
           /\ call'[p] = f[p]
           /\ \A q \in Procs \ {p} :
                 IF Changing(q) /\ call[q].keys \cap K # {}
                 THEN /\ call'[q].crossed
                      /\ call'[q].at = call[q].at
                      /\ call'[q].keys = call[q].keys
                      /\ call'[q].val = call[q].val
                      /\ call'[q].failed = call[q].failed
                 ELSE call'[q] = call[q]
<1>1. \A q \in Procs \ {p} : Changing(q) => call[q] \in Change
  BY DEF Changing, Idle, Get
<1>2. ASSUME NEW c \in Change
      PROVE  /\ [c EXCEPT !.crossed = TRUE] \in Change
             /\ [c EXCEPT !.crossed = TRUE].crossed
             /\ [c EXCEPT !.crossed = TRUE].at = c.at
             /\ [c EXCEPT !.crossed = TRUE].keys = c.keys
             /\ [c EXCEPT !.crossed = TRUE].val = c.val
             /\ [c EXCEPT !.crossed = TRUE].failed = c.failed
  BY DEF Change, ChangeOf
<1>. QED  BY <1>1, <1>2 DEF Cross

-----------------------------------------------------------------------------
(***************************************************************************)
(* The steps.                                                              *)
(***************************************************************************)

\* A step in which the layers at most forget and settled and the calls stay keeps
\* the invariant.
LEMMA Forgets ==
    ASSUME MultiLevelInv, UNCHANGED <<call, settled>>, L!TypeOK', R!TypeOK',
           \A j \in Keys : /\ local'[j] \in {local[j], None}
                          /\ remote'[j] \in {remote[j], None}
    PROVE  MultiLevelInv'
<1>1. TypeOK'
  BY Types DEF MultiLevelInv, TypeOK, L!TypeOK, R!TypeOK
<1>2. Uncrossed'
  BY DEF MultiLevelInv, Uncrossed, Changing, Refilling
<1>3. HalfDone'
  <2>1. \A p \in Procs : call[p].at = "far" => call[p] \in Change
    BY DEF MultiLevelInv, TypeOK, Idle, Get
  <2>2. \A p \in Procs : call[p].at = "far" => call[p].keys \subseteq Keys
    BY <2>1 DEF Change, ChangeOf
  <2>. QED  BY <2>2 DEF MultiLevelInv, HalfDone
<1>4. Agreement'
  BY DEF MultiLevelInv, Agreement, Changing, Refilling
<1>. QED  BY <1>1, <1>2, <1>3, <1>4 DEF MultiLevelInv

LEMMA GetLocalKeeps ==
    ASSUME NEW p \in Procs, NEW k \in Keys, MultiLevelInv, GetLocal(p, k)
    PROVE  MultiLevelInv'
<1>1. /\ call' \in [Procs -> {Idle} \cup Get \cup Change]
      /\ call'[p].at \in {"idle", "remote"}
      /\ \A q \in Procs \ {p} : call'[q] = call[q]
  BY DEF MultiLevelInv, TypeOK, GetLocal, Idle, Get
<1>2. TypeOK'
  BY <1>1 DEF MultiLevelInv, TypeOK, GetLocal
<1>3. Uncrossed'
  BY <1>1 DEF MultiLevelInv, Uncrossed, Changing, Refilling
<1>4. HalfDone'
  BY <1>1 DEF MultiLevelInv, HalfDone, GetLocal
<1>5. Agreement'
  BY <1>1 DEF MultiLevelInv, Agreement, Changing, Refilling, GetLocal
<1>. QED  BY <1>2, <1>3, <1>4, <1>5 DEF MultiLevelInv

\* A refill is of the value that is agreed upon, and the changes that it crosses
\* know of it.
LEMMA GetRemoteKeeps ==
    ASSUME NEW p \in Procs, MultiLevelInv, GetRemote(p)
    PROVE  MultiLevelInv'
<1>1. call[p] \in Get /\ call[p].at = "remote" /\ call[p].key \in Keys
  BY DEF MultiLevelInv, TypeOK, GetRemote, Idle, Get, Change, ChangeOf
<1>2. UNCHANGED <<local, remote, settled>>
  BY DEF GetRemote
<1>3. CASE call' = [call EXCEPT ![p] = Idle]
  <2>1. /\ call' \in [Procs -> {Idle} \cup Get \cup Change]
        /\ call'[p].at = "idle"
        /\ \A q \in Procs \ {p} : call'[q] = call[q]
    BY <1>3 DEF MultiLevelInv, TypeOK, Idle
  <2>2. TypeOK'
    BY <1>2, <2>1 DEF MultiLevelInv, TypeOK
  <2>3. Uncrossed'
    BY <2>1 DEF MultiLevelInv, Uncrossed, Changing, Refilling
  <2>4. HalfDone'
    BY <1>2, <2>1 DEF MultiLevelInv, HalfDone
  <2>5. Agreement'
    BY <1>2, <2>1 DEF MultiLevelInv, Agreement, Changing, Refilling
  <2>. QED  BY <2>2, <2>3, <2>4, <2>5 DEF MultiLevelInv
<1>4. ASSUME remote[call[p].key] # None,
             call' = Cross([call EXCEPT ![p] =
                        [at |-> "refill", key |-> call[p].key,
                         val |-> remote[call[p].key]]],
                     p, {call[p].key})
      PROVE  MultiLevelInv'
  <2> DEFINE k == call[p].key
             f == [call EXCEPT ![p] =
                      [at |-> "refill", key |-> k, val |-> remote[k]]]
  <2>0. remote[k] \in Values
    BY <1>1, <1>4 DEF MultiLevelInv, TypeOK
  <2>1. /\ f \in [Procs -> {Idle} \cup Get \cup Change]
        /\ \A q \in Procs \ {p} : f[q] = call[q]
        /\ f[p] = [at |-> "refill", key |-> k, val |-> remote[k]]
    BY <1>1, <2>0 DEF MultiLevelInv, TypeOK, Get
  <2>2. call' = Cross(f, p, {k}) /\ {k} \in SUBSET Keys
    BY <1>1, <1>4
  <2>3. /\ call' \in [Procs -> {Idle} \cup Get \cup Change]
        /\ call'[p] = [at |-> "refill", key |-> k, val |-> remote[k]]
        /\ \A q \in Procs \ {p} :
              IF Changing(q) /\ call[q].keys \cap {k} # {}
              THEN /\ call'[q].crossed
                   /\ call'[q].at = call[q].at
                   /\ call'[q].keys = call[q].keys
                   /\ call'[q].val = call[q].val
                   /\ call'[q].failed = call[q].failed
              ELSE call'[q] = call[q]
    <3> DEFINE g == f
               K == {k}
    <3>1. g \in [Procs -> {Idle} \cup Get \cup Change] /\ K \in SUBSET Keys
      BY <2>1, <2>2
    <3>2. \A q \in Procs \ {p} : g[q] = call[q]
      BY <2>1
    <3>3. call' = Cross(g, p, K)
      BY <2>2
    <3>4. g[p] = [at |-> "refill", key |-> k, val |-> remote[k]]
      BY <2>1
    <3>. HIDE DEF g, K
    <3>5. /\ call' \in [Procs -> {Idle} \cup Get \cup Change]
          /\ call'[p] = g[p]
          /\ \A q \in Procs \ {p} :
                IF Changing(q) /\ call[q].keys \cap K # {}
                THEN /\ call'[q].crossed
                     /\ call'[q].at = call[q].at
                     /\ call'[q].keys = call[q].keys
                     /\ call'[q].val = call[q].val
                     /\ call'[q].failed = call[q].failed
                ELSE call'[q] = call[q]
      BY <3>1, <3>2, <3>3, Crossing
    <3>. QED  BY <3>4, <3>5 DEF K
  <2>. HIDE DEF f
  <2>4. TypeOK'
    BY <1>2, <2>3 DEF MultiLevelInv, TypeOK
  <2>5. Uncrossed'
    <3>. SUFFICES ASSUME NEW q \in Procs, Changing(q)', ~call'[q].crossed,
                         NEW r \in Procs \ {q}
                  PROVE  /\ Changing(r)' => call'[r].keys \cap call'[q].keys = {}
                         /\ ~Refilling(r, call[q].keys)'
      BY DEF Uncrossed, Refilling
    <3>1. q # p /\ call'[q] = call[q] /\ k \notin call[q].keys /\ Changing(q)
      BY <2>3 DEF Changing
    <3>2. CASE r = p
      BY <2>3, <3>1, <3>2 DEF Changing, Refilling
    <3>3. CASE r # p
      BY <2>3, <3>1, <3>3 DEF Changing, Refilling, MultiLevelInv, Uncrossed
    <3>. QED  BY <3>2, <3>3
  <2>6. HalfDone'
    BY <1>2, <2>3 DEF MultiLevelInv, HalfDone, Changing
  <2>7. Agreement'
    <3>. SUFFICES ASSUME NEW j \in Keys, settled[j] # Unknown
                  PROVE  /\ \A q \in Procs : Changing(q)' => j \notin call'[q].keys
                         /\ \A q \in Procs :
                               Refilling(q, {j})' => call'[q].val = settled[j]
      BY <1>2 DEF Agreement, MultiLevelInv
    <3>1. \A q \in Procs : Changing(q)' => j \notin call'[q].keys
      <4>. SUFFICES ASSUME NEW q \in Procs, Changing(q)'
                    PROVE  j \notin call'[q].keys
        OBVIOUS
      <4>1. q # p /\ Changing(q) /\ call'[q].keys = call[q].keys
        BY <2>3 DEF Changing
      <4>. QED  BY <4>1 DEF MultiLevelInv, Agreement
    <3>2. ASSUME NEW q \in Procs, Refilling(q, {j})'
          PROVE  call'[q].val = settled[j]
      <4>1. CASE q = p
        BY <1>4, <2>3, <3>2, <4>1 DEF Refilling, MultiLevelInv, Agreement
      <4>2. CASE q # p
        BY <2>3, <3>2, <4>2 DEF Refilling, Changing, MultiLevelInv, Agreement
      <4>. QED  BY <4>1, <4>2
    <3>. QED  BY <3>1, <3>2
  <2>. QED  BY <2>4, <2>5, <2>6, <2>7 DEF MultiLevelInv
<1>. QED  BY <1>3, <1>4 DEF GetRemote

\* A refill puts the agreed value into the local layer, and no change whose keys
\* it would disturb is uncrossed.
LEMMA RefillKeeps ==
    ASSUME NEW p \in Procs, MultiLevelInv, Refill(p)
    PROVE  MultiLevelInv'
<1> DEFINE k == call[p].key
<1>1. /\ call[p].at = "refill" /\ k \in Keys /\ call[p].val \in Values
      /\ UNCHANGED <<remote, settled>>
      /\ call' = [call EXCEPT ![p] = Idle]
  BY DEF MultiLevelInv, TypeOK, Refill, Idle, Get, Change, ChangeOf
<1>2. /\ call' \in [Procs -> {Idle} \cup Get \cup Change]
      /\ call'[p].at = "idle"
      /\ \A q \in Procs \ {p} : call'[q] = call[q]
  BY <1>1 DEF MultiLevelInv, TypeOK, Idle
<1>3. /\ L!TypeOK'
      /\ local'[k] \in {call[p].val, local[k]}
      /\ \A j \in Keys \ {k} : local'[j] \in {local[j], None}
  <2>1. CASE L!Set(k, call[p].val)
    BY <1>1, <2>1, LocalSet, Types DEF MultiLevelInv
  <2>2. CASE UNCHANGED local
    BY <1>1, <2>2, Types DEF MultiLevelInv, L!TypeOK
  <2>. QED  BY <2>1, <2>2 DEF Refill
<1>. HIDE DEF k
<1>4. TypeOK'
  BY <1>1, <1>2, <1>3, Types DEF MultiLevelInv, TypeOK, L!TypeOK
<1>5. Uncrossed'
  BY <1>2 DEF MultiLevelInv, Uncrossed, Changing, Refilling
<1>6. HalfDone'
  <2>. SUFFICES ASSUME NEW q \in Procs, call[q].at = "far", q # p,
                       ~call[q].failed, ~call[q].crossed,
                       NEW j \in call[q].keys
                PROVE  local'[j] \in {call[q].val, None}
    BY <1>2 DEF HalfDone
  <2>1. j \in Keys
    BY DEF MultiLevelInv, TypeOK, Idle, Get, Change, ChangeOf
  <2>2. j # k
    BY <1>1 DEF MultiLevelInv, Uncrossed, Changing, Refilling, k
  <2>. QED  BY <1>3, <2>1, <2>2 DEF MultiLevelInv, HalfDone
<1>7. Agreement'
  <2>. SUFFICES ASSUME NEW j \in Keys, settled[j] # Unknown
                PROVE  /\ local'[j] \in {settled[j], None}
                       /\ remote[j] \in {settled[j], None}
                       /\ \A q \in Procs : Changing(q)' => j \notin call'[q].keys
                       /\ \A q \in Procs :
                             Refilling(q, {j})' => call'[q].val = settled[j]
    BY <1>1 DEF Agreement
  <2>1. local'[j] \in {settled[j], None}
    <3>1. CASE j = k
      BY <1>1, <1>3, <3>1 DEF MultiLevelInv, Agreement, Refilling, k
    <3>2. CASE j # k
      BY <1>3, <3>2 DEF MultiLevelInv, Agreement
    <3>. QED  BY <3>1, <3>2
  <2>. QED  BY <1>2, <2>1 DEF MultiLevelInv, Agreement, Changing, Refilling
<1>. QED  BY <1>4, <1>5, <1>6, <1>7 DEF MultiLevelInv

\* A change that begins unsettles its keys and knows of all that it crosses.
LEMMA BeginKeeps ==
    ASSUME NEW p \in Procs, NEW K, NEW v, MultiLevelInv, Begin(p, K, v),
           \/ v \in Values /\ \E k \in Keys : K = {k}
           \/ v = None /\ K \in SUBSET Keys
    PROVE  MultiLevelInv'
<1> DEFINE others == {q \in Procs \ {p} : Changing(q) /\ call[q].keys \cap K # {}}
           fills == {q \in Procs : Refilling(q, K)}
           c == [at |-> "local", keys |-> K, val |-> v, failed |-> FALSE,
                 crossed |-> others \cup fills # {}]
           f == [call EXCEPT ![p] = c]
<1>1. call[p].at = "idle" /\ K \in SUBSET Keys /\ UNCHANGED <<local, remote>>
  BY DEF Begin
<1>2. settled' = [k \in Keys |-> IF k \in K THEN Unknown ELSE settled[k]]
  BY DEF Begin
<1>3. c \in Change
  BY DEF Change, ChangeOf
<1>4. /\ f \in [Procs -> {Idle} \cup Get \cup Change]
      /\ \A q \in Procs \ {p} : f[q] = call[q]
      /\ f[p] = c
  <2>. HIDE DEF c
  <2>. QED  BY <1>3 DEF MultiLevelInv, TypeOK
<1>5. call' = Cross(f, p, K)
  BY DEF Begin
<1>6. /\ call' \in [Procs -> {Idle} \cup Get \cup Change]
      /\ call'[p] = c
      /\ \A q \in Procs \ {p} :
            IF Changing(q) /\ call[q].keys \cap K # {}
            THEN /\ call'[q].crossed
                 /\ call'[q].at = call[q].at
                 /\ call'[q].keys = call[q].keys
                 /\ call'[q].val = call[q].val
                 /\ call'[q].failed = call[q].failed
            ELSE call'[q] = call[q]
  <2>. HIDE DEF f, c
  <2>. QED  BY <1>1, <1>4, <1>5, Crossing
<1>7. /\ call'[p].at = "local" /\ call'[p].keys = K /\ call'[p].val = v
      /\ ~call'[p].crossed => others = {} /\ fills = {}
  <2>. HIDE DEF others, fills
  <2>1. /\ call'[p].at = "local" /\ call'[p].keys = K /\ call'[p].val = v
        /\ call'[p].crossed = (others \cup fills # {})
    BY <1>6
  <2>. QED  BY <2>1
<1>8. TypeOK'
  BY <1>1, <1>2, <1>6 DEF MultiLevelInv, TypeOK
<1>. HIDE DEF c, f
<1>9. Uncrossed'
  <2>. SUFFICES ASSUME NEW q \in Procs, Changing(q)', ~call'[q].crossed,
                       NEW r \in Procs \ {q}
                PROVE  /\ Changing(r)' => call'[r].keys \cap call'[q].keys = {}
                       /\ ~Refilling(r, call[q].keys)'
    BY DEF Uncrossed, Refilling
  <2>1. CASE q = p
    <3>1. others = {} /\ fills = {}
      BY <1>7, <2>1
    <3>2. call'[r] = call[r]
      BY <1>6, <2>1, <3>1
    <3>. QED  BY <1>7, <2>1, <3>1, <3>2 DEF Changing, Refilling
  <2>2. CASE q # p
    <3>1. Changing(q) /\ call[q].keys \cap K = {} /\ call'[q] = call[q]
      BY <1>6, <2>2 DEF Changing
    <3>2. CASE r = p
      BY <1>7, <2>2, <3>1, <3>2 DEF Changing, Refilling
    <3>3. CASE r # p
      BY <1>6, <2>2, <3>1, <3>3 DEF Changing, Refilling, MultiLevelInv, Uncrossed
    <3>. QED  BY <3>2, <3>3
  <2>. QED  BY <2>1, <2>2
<1>10. HalfDone'
  BY <1>1, <1>6, <1>7 DEF MultiLevelInv, HalfDone, Changing
<1>11. Agreement'
  <2>. SUFFICES ASSUME NEW j \in Keys, settled'[j] # Unknown
                PROVE  /\ {local[j], remote[j]} \subseteq {settled'[j], None}
                       /\ \A q \in Procs : Changing(q)' => j \notin call'[q].keys
                       /\ \A q \in Procs :
                             Refilling(q, {j})' => call'[q].val = settled'[j]
    BY <1>1 DEF Agreement
  <2>1. j \notin K /\ settled'[j] = settled[j]
    BY <1>2
  <2>2. ASSUME NEW q \in Procs
        PROVE  /\ Changing(q)' => j \notin call'[q].keys
               /\ Refilling(q, {j})' => call'[q].val = settled[j]
    <3>1. CASE q = p
      BY <1>7, <2>1, <3>1 DEF Refilling
    <3>2. CASE q # p
      BY <1>6, <2>1, <3>2 DEF Changing, Refilling, MultiLevelInv, Agreement
    <3>. QED  BY <3>1, <3>2
  <2>. QED  BY <2>1, <2>2 DEF MultiLevelInv, Agreement
<1>. QED  BY <1>8, <1>9, <1>10, <1>11 DEF MultiLevelInv

\* A change of the local layer finds its own value there afterwards; for a key
\* that is agreed upon it has nothing to say.
LEMMA AtLocalKeeps ==
    ASSUME NEW p \in Procs, MultiLevelInv, AtLocal(p)
    PROVE  MultiLevelInv'
<1>1. /\ call[p].at = "local" /\ call[p] \in Change /\ Changing(p)
      /\ UNCHANGED <<remote, settled>>
  BY DEF AtLocal, MultiLevelInv, TypeOK, Idle, Get, Changing
<1>2. ASSUME NEW c \in Change
      PROVE  /\ \A d \in {[c EXCEPT !.at = "far"],
                          [c EXCEPT !.at = "far", !.failed = TRUE]} :
                    /\ d \in Change /\ d.at = "far"
                    /\ d.keys = c.keys /\ d.val = c.val /\ d.crossed = c.crossed
             /\ [c EXCEPT !.at = "far", !.failed = TRUE].failed
  BY DEF Change, ChangeOf
<1>3. /\ call' \in [Procs -> {Idle} \cup Get \cup Change]
      /\ \A q \in Procs \ {p} : call'[q] = call[q]
      /\ call'[p].at = "far" /\ call'[p].keys = call[p].keys
      /\ call'[p].val = call[p].val /\ call'[p].crossed = call[p].crossed
  <2>1. CASE call' = [call EXCEPT ![p].at = "far"]
    BY <1>1, <1>2, <2>1 DEF MultiLevelInv, TypeOK
  <2>2. CASE call' = [call EXCEPT ![p].at = "far", ![p].failed = TRUE]
    <3>1. call' = [call EXCEPT ![p] = [call[p] EXCEPT !.at = "far", !.failed = TRUE]]
      BY <2>2 DEF MultiLevelInv, TypeOK
    <3>. QED  BY <1>1, <1>2, <3>1 DEF MultiLevelInv, TypeOK
  <2>. QED  BY <2>1, <2>2 DEF AtLocal
<1>4. /\ L!TypeOK'
      /\ \A j \in Keys \ call[p].keys : local'[j] \in {local[j], None}
      /\ \/ call'[p].failed
         \/ \A j \in Keys \cap call[p].keys : local'[j] = call[p].val
  <2>0. L!TypeOK
    BY Types DEF MultiLevelInv
  <2>1. CASE ChangeLocal(p)
    BY <1>1, <2>0, <2>1, ChangesLocal
  <2>2. CASE UNCHANGED local /\ call' = [call EXCEPT ![p].at = "far",
                                                   ![p].failed = TRUE]
    BY <1>1, <1>2, <2>0, <2>2 DEF MultiLevelInv, TypeOK, L!TypeOK
  <2>. QED  BY <2>1, <2>2 DEF AtLocal
<1>5. TypeOK'
  BY <1>1, <1>3, <1>4, Types DEF MultiLevelInv, TypeOK, L!TypeOK
<1>6. Uncrossed'
  BY <1>1, <1>3 DEF MultiLevelInv, Uncrossed, Changing, Refilling
<1>7. \A q \in Procs : Changing(q) => call[q].keys \subseteq Keys
  BY DEF MultiLevelInv, TypeOK, Idle, Get, Change, ChangeOf, Changing
<1>8. HalfDone'
  <2>. SUFFICES ASSUME NEW q \in Procs, call'[q].at = "far", ~call'[q].failed,
                       ~call'[q].crossed, NEW j \in call'[q].keys
                PROVE  local'[j] \in {call'[q].val, None}
    BY DEF HalfDone
  <2>1. CASE q = p
    BY <1>1, <1>3, <1>4, <1>7, <2>1
  <2>2. CASE q # p
    <3>1. call'[q] = call[q] /\ Changing(q)
      BY <1>3, <2>2 DEF Changing
    <3>2. j \in Keys \ call[p].keys
      BY <1>1, <1>7, <2>2, <3>1 DEF MultiLevelInv, Uncrossed
    <3>. QED  BY <1>4, <3>1, <3>2 DEF MultiLevelInv, HalfDone
  <2>. QED  BY <2>1, <2>2
<1>9. Agreement'
  BY <1>1, <1>3, <1>4 DEF MultiLevelInv, Agreement, Changing, Refilling
<1>. QED  BY <1>5, <1>6, <1>8, <1>9 DEF MultiLevelInv

\* A change that returns settles its keys if nothing crossed it and neither layer
\* failed.
LEMMA AtRemoteKeeps ==
    ASSUME NEW p \in Procs, MultiLevelInv, AtRemote(p)
    PROVE  MultiLevelInv'
<1>1. /\ call[p].at = "far" /\ call[p] \in Change /\ Changing(p)
      /\ call' = [call EXCEPT ![p] = Idle] /\ UNCHANGED local
  BY DEF AtRemote, MultiLevelInv, TypeOK, Idle, Get, Changing
<1>2. /\ call' \in [Procs -> {Idle} \cup Get \cup Change]
      /\ call'[p].at = "idle"
      /\ \A q \in Procs \ {p} : call'[q] = call[q]
  BY <1>1 DEF MultiLevelInv, TypeOK, Idle
<1>3. /\ R!TypeOK'
      /\ \A j \in Keys \ call[p].keys : remote'[j] \in {remote[j], None}
      /\ ChangeRemote(p) =>
             \A j \in Keys \cap call[p].keys : remote'[j] = call[p].val
  <2>0. R!TypeOK
    BY Types DEF MultiLevelInv
  <2>1. CASE ChangeRemote(p)
    BY <1>1, <2>0, <2>1, ChangesRemote
  <2>2. CASE UNCHANGED remote /\ ~ChangeRemote(p)
    BY <2>0, <2>2 DEF R!TypeOK
  <2>. QED  BY <2>1, <2>2 DEF AtRemote
<1>4. \/ UNCHANGED settled
      \/ ChangeRemote(p) /\ ~call[p].failed /\ Settle(p)
  BY DEF AtRemote
<1>5. call[p].val \in Values \cup {None} /\ call[p].keys \subseteq Keys
  BY <1>1 DEF Change, ChangeOf
<1>6. settled' \in [Keys -> Values \cup {None, Unknown}]
  BY <1>4, <1>5 DEF MultiLevelInv, TypeOK, Settle
<1>7. TypeOK'
  BY <1>1, <1>2, <1>3, <1>6, Types DEF MultiLevelInv, TypeOK, R!TypeOK
<1>8. Uncrossed'
  BY <1>2 DEF MultiLevelInv, Uncrossed, Changing, Refilling
<1>9. HalfDone'
  BY <1>1, <1>2 DEF MultiLevelInv, HalfDone
<1>10. Agreement'
  <2>. SUFFICES ASSUME NEW j \in Keys, settled'[j] # Unknown
                PROVE  /\ {local[j], remote'[j]} \subseteq {settled'[j], None}
                       /\ \A q \in Procs : Changing(q)' => j \notin call'[q].keys
                       /\ \A q \in Procs :
                             Refilling(q, {j})' => call'[q].val = settled'[j]
    BY <1>1 DEF Agreement
  <2>1. CASE settled'[j] = settled[j] /\ settled[j] # Unknown
    <3>1. j \notin call[p].keys
      BY <1>1, <2>1 DEF MultiLevelInv, Agreement
    <3>. QED  BY <1>2, <1>3, <2>1, <3>1
              DEF MultiLevelInv, Agreement, Changing, Refilling
  <2>2. CASE /\ ChangeRemote(p) /\ ~call[p].failed /\ ~call[p].crossed
             /\ j \in call[p].keys /\ settled'[j] = call[p].val
    <3>1. {local[j], remote'[j]} \subseteq {call[p].val, None}
      BY <1>1, <1>3, <2>2 DEF MultiLevelInv, HalfDone
    <3>2. \A q \in Procs \ {p} : /\ Changing(q) => j \notin call[q].keys
                                 /\ ~Refilling(q, {j})
      BY <1>1, <2>2 DEF MultiLevelInv, Uncrossed, Refilling
    <3>. QED  BY <1>2, <2>2, <3>1, <3>2 DEF Changing, Refilling
  <2>. QED  BY <1>4, <2>1, <2>2 DEF Settle
<1>. QED  BY <1>7, <1>8, <1>9, <1>10 DEF MultiLevelInv

\* Another process unsettles the key and is known to the changes it crosses.
LEMMA OtherProcessKeeps ==
    ASSUME NEW k \in Keys, MultiLevelInv, OtherProcess(k)
    PROVE  MultiLevelInv'
<1>1. /\ R!TypeOK'
      /\ \A j \in Keys \ {k} : remote'[j] \in {remote[j], None}
  <2>0. R!TypeOK /\ {k} \in SUBSET Keys
    BY Types DEF MultiLevelInv
  <2>1. CASE \E v \in Values : R!Set(k, v)
    BY <2>0, <2>1, RemoteSet
  <2>2. CASE R!Forget({k})
    BY <2>0, <2>2, RemoteForget
  <2>. QED  BY <2>1, <2>2 DEF OtherProcess
<1>2. ASSUME NEW c \in Change
      PROVE  /\ [c EXCEPT !.crossed = TRUE] \in Change
             /\ [c EXCEPT !.crossed = TRUE].crossed
             /\ [c EXCEPT !.crossed = TRUE].at = c.at
             /\ [c EXCEPT !.crossed = TRUE].keys = c.keys
             /\ [c EXCEPT !.crossed = TRUE].val = c.val
             /\ [c EXCEPT !.crossed = TRUE].failed = c.failed
  BY DEF Change, ChangeOf
<1>3. \A q \in Procs : Changing(q) => call[q] \in Change
  BY DEF MultiLevelInv, TypeOK, Changing, Idle, Get
<1>4. /\ call' \in [Procs -> {Idle} \cup Get \cup Change]
      /\ \A q \in Procs :
            IF Changing(q) /\ k \in call[q].keys
            THEN /\ call'[q].crossed
                 /\ call'[q].at = call[q].at
                 /\ call'[q].keys = call[q].keys
                 /\ call'[q].val = call[q].val
                 /\ call'[q].failed = call[q].failed
            ELSE call'[q] = call[q]
  BY <1>2, <1>3 DEF MultiLevelInv, TypeOK, OtherProcess
<1>5. UNCHANGED local /\ settled' = [settled EXCEPT ![k] = Unknown]
  BY DEF OtherProcess
<1>6. TypeOK'
  BY <1>1, <1>4, <1>5, Types DEF MultiLevelInv, TypeOK, R!TypeOK
<1>7. Uncrossed'
  <2>. SUFFICES ASSUME NEW q \in Procs, Changing(q)', ~call'[q].crossed,
                       NEW r \in Procs \ {q}
                PROVE  /\ Changing(r)' => call'[r].keys \cap call'[q].keys = {}
                       /\ ~Refilling(r, call[q].keys)'
    BY DEF Uncrossed, Refilling
  <2>1. Changing(q) /\ call'[q] = call[q]
    BY <1>4 DEF Changing
  <2>2. /\ Changing(r)' => Changing(r) /\ call'[r].keys = call[r].keys
        /\ Refilling(r, call[q].keys)' => Refilling(r, call[q].keys)
    BY <1>4, <2>1 DEF Changing, Refilling
  <2>. QED  BY <2>1, <2>2 DEF MultiLevelInv, Uncrossed
<1>8. HalfDone'
  BY <1>4, <1>5 DEF MultiLevelInv, HalfDone, Changing
<1>9. Agreement'
  <2>. SUFFICES ASSUME NEW j \in Keys \ {k}, settled[j] # Unknown
                PROVE  /\ {local[j], remote'[j]} \subseteq {settled[j], None}
                       /\ \A q \in Procs : Changing(q)' => j \notin call'[q].keys
                       /\ \A q \in Procs :
                             Refilling(q, {j})' => call'[q].val = settled[j]
    BY <1>5 DEF Agreement, MultiLevelInv, TypeOK
  <2>1. ASSUME NEW q \in Procs
        PROVE  /\ Changing(q)' => Changing(q) /\ call'[q].keys = call[q].keys
               /\ Refilling(q, {j})' => Refilling(q, {j}) /\ call'[q] = call[q]
    BY <1>4 DEF Changing, Refilling
  <2>. QED  BY <1>1, <2>1 DEF MultiLevelInv, Agreement
<1>. QED  BY <1>6, <1>7, <1>8, <1>9 DEF MultiLevelInv

-----------------------------------------------------------------------------
\* Once a change has returned without an error and uncrossed, both layers have
\* what was set or nothing, whatever later Gets, refills and losses do.
THEOREM Agreed == Spec => []MultiLevelInv
<1>1. Init => MultiLevelInv
  BY MultiLevelAssumption
     DEF Init, L!Init, R!Init, MultiLevelInv, TypeOK, Uncrossed, HalfDone,
         Agreement, Changing, Refilling, Idle
<1>2. MultiLevelInv /\ [Next]_vars => MultiLevelInv'
  <2>. SUFFICES ASSUME MultiLevelInv, [Next]_vars PROVE MultiLevelInv'
    OBVIOUS
  <2>0. L!TypeOK /\ R!TypeOK
    BY Types DEF MultiLevelInv
  <2>1. ASSUME NEW p \in Procs, NEW k \in Keys, GetLocal(p, k)
        PROVE  MultiLevelInv'
    BY <2>1, GetLocalKeeps
  <2>2. ASSUME NEW p \in Procs, Set(p) \/ Delete(p) \/ Clear(p)
        PROVE  MultiLevelInv'
    <3>1. ASSUME NEW k \in Keys, NEW v \in Values, Begin(p, {k}, v)
          PROVE  MultiLevelInv'
      BY <3>1, BeginKeeps
    <3>2. ASSUME NEW K \in SUBSET Keys, Begin(p, K, None)
          PROVE  MultiLevelInv'
      BY <3>2, BeginKeeps
    <3>. QED  BY <2>2, <3>1, <3>2 DEF Set, Delete, Clear
  <2>3. ASSUME NEW p \in Procs, Step(p) PROVE MultiLevelInv'
    BY <2>3, GetRemoteKeeps, RefillKeeps, AtLocalKeeps, AtRemoteKeeps DEF Step
  <2>4. ASSUME NEW k \in Keys, LocalForgets(k) PROVE MultiLevelInv'
    <3>1. L!Forget({k}) /\ UNCHANGED <<remote, call, settled>>
      BY <2>4 DEF LocalForgets
    <3>2. {k} \in SUBSET Keys
      OBVIOUS
    <3>3. L!TypeOK' /\ \A j \in Keys : local'[j] \in {local[j], None}
      BY <2>0, <3>1, <3>2, LocalForget
    <3>4. R!TypeOK'
      BY <2>0, <3>1 DEF R!TypeOK
    <3>. QED  BY <3>1, <3>3, <3>4, Forgets
  <2>5. ASSUME NEW k \in Keys, RemoteForgets(k) PROVE MultiLevelInv'
    <3>1. R!Forget({k}) /\ UNCHANGED <<local, call, settled>>
      BY <2>5 DEF RemoteForgets
    <3>2. {k} \in SUBSET Keys
      OBVIOUS
    <3>3. R!TypeOK' /\ \A j \in Keys : remote'[j] \in {remote[j], None}
      BY <2>0, <3>1, <3>2, RemoteForget
    <3>4. L!TypeOK'
      BY <2>0, <3>1 DEF L!TypeOK
    <3>. QED  BY <3>1, <3>3, <3>4, Forgets
  <2>6. ASSUME NEW k \in Keys, OtherProcess(k) PROVE MultiLevelInv'
    BY <2>6, OtherProcessKeeps
  <2>7. CASE UNCHANGED vars
    <3>1. L!TypeOK' /\ R!TypeOK'
      BY <2>0, <2>7 DEF vars, L!TypeOK, R!TypeOK
    <3>. QED  BY <2>7, <3>1, Forgets DEF vars
  <2>. QED  BY <2>1, <2>2, <2>3, <2>4, <2>5, <2>6, <2>7 DEF Next
<1>. QED  BY <1>1, <1>2, PTL DEF Spec
=============================================================================
