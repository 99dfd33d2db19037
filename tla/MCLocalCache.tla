---------------------------- MODULE MCLocalCache ----------------------------
(***************************************************************************)
(* Instances of LocalCache for TLC.                                        *)
(***************************************************************************)
EXTENDS LocalCache, TLC

CONSTANTS p1, p2, o1, o2, o3, v1, v2

Symmetry == Permutations({p1, p2}) \cup Permutations({o1, o2, o3})
            \cup Permutations({v1, v2})
=============================================================================
