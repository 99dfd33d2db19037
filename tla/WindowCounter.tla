--------------------------- MODULE WindowCounter ---------------------------
(***************************************************************************)
(* What the storage layer promises its caller, without Redis, retries,     *)
(* expiry or clocks.  Every key has a log of the millisecond ticks at      *)
(* which it was hit.  A hit at tick t, over a window w, is answered with a *)
(* count that                                                              *)
(*   - is at least the number of logged ticks that are Recent, that is     *)
(*     less than one Shortest window behind every other logged tick, and   *)
(*   - is at most the number of logged ticks later than t - w.             *)
(* A store may also forget everything it knows about some keys.            *)
(*                                                                         *)
(* The lower bound speaks of the shortest window only, because all the     *)
(* windows of a key share one sorted set in the code.                      *)
(***************************************************************************)
EXTENDS Integers, FiniteSets

CONSTANTS
    Keys,       \* the full keys that are counted
    Windows,    \* the window lengths in use, in milliseconds
    Shortest,   \* the smallest of them
    Ticks,      \* the millisecond time stamps
    Limits      \* the limits that callers compare a count with

VARIABLES
    log,        \* log[k]: the ticks at which k was hit
    answers     \* answers[k]: the answers given about k

vars == <<log, answers>>

Answer == [tick : Ticks, window : Windows, count : Nat]

TypeOK ==
    /\ log \in [Keys -> SUBSET Ticks]
    /\ answers \in [Keys -> SUBSET Answer]

-----------------------------------------------------------------------------

\* The ticks of S that no tick of S is a Shortest window or more ahead of.
RecentOf(S) == {t \in S : \A u \in S : u - Shortest < t}

\* The ticks of S that a hit at tick t over window w may count.
Visible(S, t, w) == {s \in S : s > t - w}

Init ==
    /\ log = [k \in Keys |-> {}]
    /\ answers = [k \in Keys |-> {}]

Hit(k, a) ==
    /\ log' = [log EXCEPT ![k] = @ \cup {a.tick}]
    /\ answers' = [answers EXCEPT ![k] = @ \cup {a}]
    /\ Cardinality(RecentOf(log'[k])) <= a.count
    /\ a.count <= Cardinality(Visible(log'[k], a.tick, a.window))

Forget(K) ==
    /\ log' = [k \in Keys |-> IF k \in K THEN {} ELSE log[k]]
    /\ answers' = [k \in Keys |-> IF k \in K THEN {} ELSE answers[k]]

Next ==
    \/ \E k \in Keys, t \in Ticks, w \in Windows, n \in 0 .. Cardinality(Ticks) :
          Hit(k, [tick |-> t, window |-> w, count |-> n])
    \/ \E K \in SUBSET Keys : Forget(K)

Spec == Init /\ [][Next]_vars

-----------------------------------------------------------------------------

\* The ticks of k admitted by a caller that allows a hit when its count is
\* at most limit.
Admitted(k, limit) ==
    {t \in log[k] : \E a \in answers[k] : a.tick = t /\ a.count <= limit}

\* In any Shortest window that ends at the latest hit of a key, hits at no more
\* than limit ticks are answered with a count within the limit, whatever the
\* limit and whatever other windows the key is also counted over.
ShortestWindowBound ==
    \A k \in Keys : \A limit \in Limits :
        Cardinality(RecentOf(log[k]) \cap Admitted(k, limit)) <= limit

\* No answer exceeds the number of distinct ticks at which the key was hit
\* since the start of the window that was asked about.
NeverOvercounts ==
    \A k \in Keys : \A a \in answers[k] :
        a.count <= Cardinality(Visible(log[k], a.tick, a.window))
=============================================================================
