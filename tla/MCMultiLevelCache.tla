------------------------- MODULE MCMultiLevelCache -------------------------
(***************************************************************************)
(* Instances of MultiLevelCache for TLC.                                   *)
(***************************************************************************)
EXTENDS MultiLevelCache, TLC

CONSTANTS p1, p2, p3, k1, k2, v1, v2

Symmetry == Permutations({p1, p2, p3}) \cup Permutations({k1, k2})
            \cup Permutations({v1, v2})
=============================================================================
