-------------------------- MODULE MCServiceBreaker --------------------------
(***************************************************************************)
(* Instances of ServiceBreaker for TLC.                                    *)
(***************************************************************************)
EXTENDS ServiceBreaker

CONSTANTS p1, p2
=============================================================================
