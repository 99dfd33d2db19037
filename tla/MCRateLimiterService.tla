------------------------ MODULE MCRateLimiterService ------------------------
(***************************************************************************)
(* Instances of RateLimiterService for TLC: a configured window, with a    *)
(* limit of 2, and a window name that is not configured.                   *)
(***************************************************************************)
EXTENDS RateLimiterService, TLC

CONSTANTS p1, p2

OneWindow == "minute" :> 2
=============================================================================
