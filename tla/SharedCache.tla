---------------------------- MODULE SharedCache ----------------------------
(***************************************************************************)
(* What a cache promises to the goroutines that share it: a value comes    *)
(* only from a call of Set that is under way, once, to the key that the    *)
(* call names, in the place of what was there.  At any time values may go, *)
(* but none comes back.                                                    *)
(***************************************************************************)
EXTENDS ValueCache

CONSTANT Procs

VARIABLE asked    \* the calls of Set that are under way

SetCall == [caller : Procs, key : Keys, value : Values]

SharedTypeOK == TypeOK /\ asked \subseteq SetCall

SharedInit == Init /\ asked = {}

Lose == \E K \in SUBSET Keys : Forget(K)

\* A goroutine has one call under way.
Ask(c) ==
    /\ \A d \in asked : d.caller # c.caller
    /\ asked' = asked \cup {c}
    /\ Lose

\* The Set takes effect; its value may be too old already to be found.
Take(c) ==
    /\ asked' = asked \ {c}
    /\ \/ Set(c.key, c.value)
       \/ \E K \in SUBSET Keys : c.key \in K /\ Forget(K)

SharedNext ==
    \/ \E c \in SetCall : Ask(c)
    \/ \E c \in asked : Take(c)
    \/ Lose /\ UNCHANGED asked

SharedSpec == SharedInit /\ [][SharedNext]_<<cached, asked>>
=============================================================================
