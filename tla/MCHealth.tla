------------------------------ MODULE MCHealth ------------------------------
(***************************************************************************)
(* An instance of Health for TLC.  The checkers of DefaultServiceHealth-   *)
(* Check find two of the three statuses, so one checker of either kind is  *)
(* enough to tell the kinds apart, and two names to tell the orders apart. *)
(***************************************************************************)
EXTENDS Health

CONSTANTS p1, p2, p3, n1, n2, own, default

\* p1 and p2 inquire, p2 registers as well, and p3 replaces what it has registered.
Inquirers ==
    [p \in Threads |-> CASE p = p1 -> {"check", "readiness"}
                         [] p = p2 -> {"check", "readiness"}
                         [] p = p3 -> {}]

OneReplaced ==
    [p \in Threads |-> CASE p = p1 -> {}
                         [] p = p2 -> {<<n1, default>>}
                         [] p = p3 -> {<<n2, default>>, <<n2, own>>}]
=============================================================================
