----------------------------- MODULE ValueCache -----------------------------
(***************************************************************************)
(* What a cache may do to its values, without objects, pools, locks or     *)
(* clocks: a key gets a value, or values go.  Expiry, eviction and         *)
(* deletion are the same to a reader: a value is gone.                     *)
(***************************************************************************)
CONSTANTS Keys, Values, None

VARIABLE cached    \* cached[k]: the value that a Get of k finds, or None

TypeOK == cached \in [Keys -> Values \cup {None}]

Init == cached = [k \in Keys |-> None]

\* A Set may cost other keys their values.
Set(k, v) == \E K \in SUBSET (Keys \ {k}) :
    cached' = [j \in Keys |-> IF j = k THEN v
                              ELSE IF j \in K THEN None ELSE cached[j]]

Forget(K) == cached' = [j \in Keys |-> IF j \in K THEN None ELSE cached[j]]
=============================================================================
