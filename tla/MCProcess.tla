----------------------------- MODULE MCProcess ------------------------------
(***************************************************************************)
(* An instance of Process, and with it of Server, for TLC.  Between them   *)
(* the chains have every middleware and every handler: the management of   *)
(* the whitelist asks for an administrator's key, the other routes are as  *)
(* short as their functions allow.  There is a request of each kind that   *)
(* a function tells apart.                                                 *)
(***************************************************************************)
EXTENDS Process, TLC

CONSTANTS p1, p2, k1

OneAdmin == [k \in APIKeys |-> [role |-> "admin", active |-> TRUE]]

Chains ==
    [check |-> <<"validation", "corsSecurity", "checkRateLimit">>,
     whitelist |-> <<"apiKeyAuth", "roleAuth", "updateWhitelist">>,
     limit |-> <<"setLimit">>,
     protected |-> <<"basicAuth", "securityHeaders", "authRateLimit",
                     "rateLimitMiddleware", "resource">>,
     rpcCheck |-> <<"CheckRateLimit">>,
     rpcWhitelist |-> <<"UpdateWhitelist">>,
     rpcLimit |-> <<"SetLimit">>]

\* The requests: with or without what the chain's functions ask for.
ManyInputs == [r \in Routes |->
    CASE r \in {"check", "protected"} ->
           [apiKey : {NoKey}, complete : BOOLEAN, value : {0}]
      [] r = "whitelist" -> [apiKey : {k1}, complete : {TRUE}, value : {1}]
      [] r = "limit" ->
           [apiKey : {NoKey}, complete : {TRUE}, value : {0, 1}]
      [] r = "rpcLimit" -> [apiKey : {NoKey}, complete : {TRUE}, value : {1}]
      [] OTHER -> [apiKey : {NoKey}, complete : {TRUE}, value : {0}]]
=============================================================================
