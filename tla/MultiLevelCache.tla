-------------------------- MODULE MultiLevelCache --------------------------
(***************************************************************************)
(* MultiLevelCache of internal/cache/cache.go: a local cache in front of a *)
(* remote one.  Every operation calls the layers one after the other, and  *)
(* a Get that finds a value in the remote layer puts it into the local one.*)
(* Both layers are present.                                                *)
(*                                                                         *)
(* The local layer changes as in SharedCache, which LocalCache is shown to *)
(* implement: by the Sets under way here, or by losing values; the remote  *)
(* one is any Cache, whose calls may fail, and which other processes may   *)
(* use too.                                                                *)
(***************************************************************************)
EXTENDS FiniteSets

CONSTANTS
    Procs,     \* the goroutines that call the cache
    Keys,
    Values,
    None,      \* no value
    Unknown    \* no value is agreed upon

ASSUME MultiLevelAssumption ==
    None \notin Values /\ Unknown \notin Values \cup {None}

VARIABLES
    local,     \* local[k]: the value of k in the local layer, or None
    remote,    \* remote[k]: the same of the remote layer
    call,      \* call[p]: the operation that p is in
    settled    \* history: what k was last set to, None if it was deleted

vars == <<local, remote, call, settled>>

L == INSTANCE ValueCache WITH cached <- local
R == INSTANCE ValueCache WITH cached <- remote

Idle == [at |-> "idle"]
Get == [at : {"remote"}, key : Keys]
       \cup [at : {"refill"}, key : Keys, val : Values]

\* Set gives a key a value, Delete and Clear give keys None.  failed: the local
\* layer returned an error.  crossed is history: a refill or another change of
\* one of these keys was under way at the same time.
ChangeOf(KK, V) == [at : {"local", "far"}, keys : KK, val : V,
                    failed : BOOLEAN, crossed : BOOLEAN]
Change == ChangeOf({{k} : k \in Keys}, Values) \cup ChangeOf(SUBSET Keys, {None})

TypeOK ==
    /\ local \in [Keys -> Values \cup {None}]
    /\ remote \in [Keys -> Values \cup {None}]
    /\ call \in [Procs -> {Idle} \cup Get \cup Change]
    /\ settled \in [Keys -> Values \cup {None, Unknown}]

Init ==
    /\ L!Init /\ R!Init
    /\ call = [p \in Procs |-> Idle]
    /\ settled = [k \in Keys |-> None]

Changing(p) == call[p].at \in {"local", "far"}
Refilling(p, K) == call[p].at = "refill" /\ call[p].key \in K

\* The calls f, with it noted that p crosses the others' changes of keys of K.
Cross(f, p, K) ==
    [q \in Procs |-> IF q # p /\ Changing(q) /\ call[q].keys \cap K # {}
                     THEN [f[q] EXCEPT !.crossed = TRUE] ELSE f[q]]

-----------------------------------------------------------------------------
(***************************************************************************)
(* Get.                                                                    *)
(***************************************************************************)

\* A value in the local layer ends the Get.
GetLocal(p, k) ==
    /\ call[p].at = "idle"
    /\ call' = IF local[k] # None THEN [call EXCEPT ![p] = Idle]
               ELSE [call EXCEPT ![p] = [at |-> "remote", key |-> k]]
    /\ UNCHANGED <<local, remote, settled>>

\* The remote layer has a value, or none; an error is the same to Get as none.
GetRemote(p) ==
    /\ call[p].at = "remote"
    /\ LET k == call[p].key
       IN  \/ call' = [call EXCEPT ![p] = Idle]
           \/ /\ remote[k] # None
              /\ call' = Cross([call EXCEPT ![p] =
                                  [at |-> "refill", key |-> k, val |-> remote[k]]],
                               p, {k})
    /\ UNCHANGED <<local, remote, settled>>

\* The result of local.Set is ignored: it fails if the context is done.
Refill(p) ==
    /\ call[p].at = "refill"
    /\ L!Set(call[p].key, call[p].val) \/ UNCHANGED local
    /\ call' = [call EXCEPT ![p] = Idle]
    /\ UNCHANGED <<remote, settled>>

-----------------------------------------------------------------------------
(***************************************************************************)
(* Set, Delete and Clear.                                                  *)
(***************************************************************************)

\* From the moment a change of a key is begun nothing is agreed upon.
Begin(p, K, v) ==
    /\ call[p].at = "idle"
    /\ LET others == {q \in Procs \ {p} : Changing(q) /\ call[q].keys \cap K # {}}
           fills == {q \in Procs : Refilling(q, K)}
       IN  call' = Cross([call EXCEPT ![p] =
                              [at |-> "local", keys |-> K, val |-> v,
                               failed |-> FALSE,
                               crossed |-> others \cup fills # {}]],
                         p, K)
    /\ settled' = [k \in Keys |-> IF k \in K THEN Unknown ELSE settled[k]]
    /\ UNCHANGED <<local, remote>>

Set(p) == \E k \in Keys, v \in Values : Begin(p, {k}, v)
Delete(p) == \E k \in Keys : Begin(p, {k}, None)
Clear(p) == Begin(p, Keys, None)

\* The operation of each layer for the change of p.
ChangeLocal(p) ==
    IF call[p].val = None THEN L!Forget(call[p].keys)
    ELSE \E k \in call[p].keys : L!Set(k, call[p].val)
ChangeRemote(p) ==
    IF call[p].val = None THEN R!Forget(call[p].keys)
    ELSE \E k \in call[p].keys : R!Set(k, call[p].val)

\* An error of the local layer, when the context is done, does not keep the
\* remote one from being tried.
AtLocal(p) ==
    /\ call[p].at = "local"
    /\ \/ ChangeLocal(p) /\ call' = [call EXCEPT ![p].at = "far"]
       \/ /\ UNCHANGED local
          /\ call' = [call EXCEPT ![p].at = "far", ![p].failed = TRUE]
    /\ UNCHANGED <<remote, settled>>

\* The keys of p's change are agreed upon, unless something crossed it.
Settle(p) == settled' =
    [k \in Keys |-> IF k \in call[p].keys /\ ~call[p].crossed
                    THEN call[p].val ELSE settled[k]]

\* Mutant of AtRemote: the error of the local layer is forgotten.
LocalErrorLost(p) ==
    /\ call[p].at = "far"
    /\ \/ ChangeRemote(p) /\ Settle(p)
       \/ (ChangeRemote(p) \/ UNCHANGED remote) /\ UNCHANGED settled
    /\ call' = [call EXCEPT ![p] = Idle]
    /\ UNCHANGED local

\* The operation returns, without an error if neither layer had one.  A remote
\* layer that had one may have made the change all the same.
AtRemote(p) ==
    /\ call[p].at = "far"
    /\ \/ /\ ChangeRemote(p)
          /\ IF call[p].failed THEN UNCHANGED settled ELSE Settle(p)
       \/ (ChangeRemote(p) \/ UNCHANGED remote) /\ UNCHANGED settled
    /\ call' = [call EXCEPT ![p] = Idle]
    /\ UNCHANGED local

-----------------------------------------------------------------------------
(***************************************************************************)
(* The environment.                                                        *)
(***************************************************************************)

\* Entries expire, are evicted, or are deleted by the goroutines of Get.
LocalForgets(k) ==
    /\ L!Forget({k})
    /\ UNCHANGED <<remote, call, settled>>

RemoteForgets(k) ==
    /\ R!Forget({k})
    /\ UNCHANGED <<local, call, settled>>

\* Another process changes the remote layer.
OtherProcess(k) ==
    /\ (\E v \in Values : R!Set(k, v)) \/ R!Forget({k})
    /\ call' = [q \in Procs |-> IF Changing(q) /\ k \in call[q].keys
                    THEN [call[q] EXCEPT !.crossed = TRUE]
                    ELSE call[q]]
    /\ settled' = [settled EXCEPT ![k] = Unknown]
    /\ UNCHANGED local

Step(p) == GetRemote(p) \/ Refill(p) \/ AtLocal(p) \/ AtRemote(p)

Next ==
    \/ \E p \in Procs :
          \/ \E k \in Keys : GetLocal(p, k)
          \/ Set(p) \/ Delete(p) \/ Clear(p)
          \/ Step(p)
    \/ \E k \in Keys : LocalForgets(k) \/ RemoteForgets(k) \/ OtherProcess(k)

Spec == Init /\ [][Next]_vars

-----------------------------------------------------------------------------
(***************************************************************************)
(* Properties.                                                             *)
(***************************************************************************)

\* Once a change has returned without an error, and no refill or other change
\* crossed it, a Get finds what was set or nothing, in whichever layer it looks
\* and however the layers forget: the layers never disagree, no refill under
\* way brings back an old value, and what was deleted stays deleted.
Agreement ==
    \A k \in Keys : settled[k] # Unknown =>
        /\ {local[k], remote[k]} \subseteq {settled[k], None}
        /\ \A p \in Procs : Changing(p) => k \notin call[p].keys
        /\ \A p \in Procs : Refilling(p, {k}) => call[p].val = settled[k]

\* What the change of a key finds when it is at the remote layer, unless it was
\* crossed: its own value or nothing in the local layer.
HalfDone ==
    \A p \in Procs : call[p].at = "far" /\ ~call[p].failed /\ ~call[p].crossed =>
        \A k \in call[p].keys : local[k] \in {call[p].val, None}

\* Why an uncrossed change settles its keys: nobody else is about to change them
\* or to refill them.
Uncrossed ==
    \A p \in Procs : Changing(p) /\ ~call[p].crossed =>
        \A q \in Procs \ {p} :
            /\ Changing(q) => call[q].keys \cap call[p].keys = {}
            /\ ~Refilling(q, call[p].keys)

MultiLevelInv == TypeOK /\ Uncrossed /\ HalfDone /\ Agreement
=============================================================================
