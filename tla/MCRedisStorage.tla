--------------------------- MODULE MCRedisStorage ---------------------------
(***************************************************************************)
(* Instances of RedisStorage for TLC.                                      *)
(***************************************************************************)
EXTENDS RedisStorage, TLC

CONSTANTS c1, c2, k1, n1

\* One key on one node.
OneKey == k1 :> n1
=============================================================================
