------------------------------- MODULE Server -------------------------------
(***************************************************************************)
(* internal/handler and the middlewares of internal/auth: what happens to  *)
(* a request before and after the service.  A route is a chain of handler  *)
(* functions, run in order as gin does, until one of them answers; a gRPC  *)
(* method is a chain of one.  Which middlewares stand before which handler *)
(* is up to the constant Chain: http.go puts rateLimitMiddleware before    *)
(* the protected resource, the repository's README presents API keys to    *)
(* the other routes.                                                       *)
(*                                                                         *)
(* The service is known here by what it lets happen: a rate limiting       *)
(* middleware lets a request pass or not, at any time, as an open breaker  *)
(* lets everybody pass and Redis may not answer before the deadline.  What *)
(* a handler of changes asks for is a command to Redis, which outlives the *)
(* request and even the process: it may be executed after an error was     *)
(* answered, or never.  How a request is answered plays no part here.      *)
(***************************************************************************)
EXTENDS APIKeyStore, Integers, Sequences

CONSTANTS
    Routes,        \* the routes and RPC methods
    Chain,         \* Chain[r]: the names of the functions that serve route r
    Inputs,        \* Inputs[r]: what requests of r may carry
    RequiredRoles, \* the argument of RoleAuthMiddleware
    Admin,         \* RoleAdmin
    NoKey,         \* a request without an API key
    NoRole         \* a context without a role

\* `complete' says that the fields are given, or valid, as the function at hand
\* requires; `value' is the `whitelisted' or the `limit' of a change.
Input == [apiKey : APIKeys \cup {NoKey}, complete : BOOLEAN, value : Int]

ASSUME ServerAssumption ==
    /\ Chain \in [Routes -> Seq(STRING)]
    /\ Inputs \in [Routes -> SUBSET Input]
    /\ RequiredRoles \subseteq Roles
    /\ Admin \in Roles
    /\ NoKey \notin APIKeys
    /\ NoRole \notin Roles

VARIABLES
    call,      \* call[p]: the request that p serves
    commands,  \* the changes that Redis may still execute
    seen       \* seen[p]: history, the roles that the request's API key has had
               \* since the request arrived

vars == <<store, call, commands, seen>>

\* step is the place in the chain, role that of the request's context; sent says
\* that the service was asked for a change.
Call == [route : Routes, input : Input, step : Nat \ {0},
         role : Roles \cup {NoRole}, sent : BOOLEAN]
Idle == [step |-> 0]

\* Of a command it is remembered whether RoleAuthMiddleware had let its request
\* pass, and whether the request's key had had a required role by then.
Command == [guarded : BOOLEAN, allowed : BOOLEAN]

TypeOK ==
    /\ StoreTypeOK
    /\ call \in [Procs -> Call \cup {Idle}]
    /\ commands \subseteq Command
    /\ seen \in [Procs -> SUBSET Roles]

Init ==
    /\ StoreInit
    /\ call = [p \in Procs |-> Idle]
    /\ commands = {}
    /\ seen = [p \in Procs |-> {}]

Busy(p) == call[p] # Idle

\* Goroutine p's request is at this function of its chain.
At(p, function) ==
    /\ Busy(p)
    /\ call[p].step <= Len(Chain[call[p].route])
    /\ Chain[call[p].route][call[p].step] = function

\* c.Next
Continue(p) ==
    /\ call' = [call EXCEPT ![p].step = @ + 1]
    /\ UNCHANGED <<commands, seen>>

\* The function of the chain at hand has let p's request pass.
Passed(p, function) ==
    \E i \in DOMAIN Chain[call[p].route] :
        i < call[p].step /\ Chain[call[p].route][i] = function

\* c.JSON or c.AbortWithStatusJSON, and return.
Answer(p) ==
    /\ call' = [call EXCEPT ![p] = Idle]
    /\ seen' = [seen EXCEPT ![p] = {}]
    /\ UNCHANGED commands

\* The role that key k gives in a table.
RolesOf(table, k) ==
    IF k \in APIKeys /\ Active(table[k]) THEN {table[k].role} ELSE {}

\* The loop over the required roles, in which an administrator is always found.
Allowed(role) == \E required \in RequiredRoles : role \in {Admin, required}

\* What the requests under way see of a change of the table.
Observe ==
    seen' = [p \in Procs |-> IF Busy(p)
                             THEN seen[p] \cup RolesOf(keys', call[p].input.apiKey)
                             ELSE seen[p]]

Request(p) ==
    /\ ~Busy(p)
    /\ \E r \in Routes : \E input \in Inputs[r] :
          /\ call' = [call EXCEPT ![p] =
                 [route |-> r, input |-> input, step |-> 1, role |-> NoRole,
                  sent |-> FALSE]]
          /\ seen' = [seen EXCEPT ![p] = RolesOf(keys, input.apiKey)]
    /\ UNCHANGED <<store, commands>>

-----------------------------------------------------------------------------
(***************************************************************************)
(* The middlewares.                                                        *)
(***************************************************************************)

\* APIKeyAuthMiddleware, up to and including GetKey's first critical section.
\* A key that is not presented, not in the table or not active is refused.
APIKeyAuth(p) ==
    /\ At(p, "apiKeyAuth")
    /\ copy[p] = NoCopy
    /\ LET k == call[p].input.apiKey
       IN  \/ k \in APIKeys /\ Find(p, k) /\ UNCHANGED <<call, commands, seen>>
           \/ /\ k \in APIKeys => ~Active(keys[k])
              /\ Answer(p)
              /\ UNCHANGED store

\* GetKey's second critical section; the entry's role goes into the context.
KeepRole(p) ==
    /\ At(p, "apiKeyAuth")
    /\ WriteBack(p)
    /\ call' = [call EXCEPT ![p].step = @ + 1, ![p].role = copy[p].entry.role]
    /\ Observe
    /\ UNCHANGED commands

\* RoleAuthMiddleware
RoleAuth(p) ==
    /\ At(p, "roleAuth")
    /\ \/ call[p].role = NoRole /\ Answer(p)
       \/ call[p].role # NoRole /\ Allowed(call[p].role) /\ Continue(p)
       \/ call[p].role # NoRole /\ ~Allowed(call[p].role) /\ Answer(p)
    /\ UNCHANGED store

\* SecurityHeadersMiddleware sets headers only.
SecurityHeaders(p) ==
    /\ At(p, "securityHeaders")
    /\ Continue(p)
    /\ UNCHANGED store

\* CORSSecurityMiddleware answers a preflight request itself.
CORSSecurity(p) ==
    /\ At(p, "corsSecurity")
    /\ Continue(p) \/ Answer(p)
    /\ UNCHANGED store

\* BasicAuthMiddleware: the header has to be `Basic username:password' with the
\* configured two; it is taken apart as it is, without base64.
BasicAuth(p) ==
    /\ At(p, "basicAuth")
    /\ IF call[p].input.complete THEN Continue(p) ELSE Answer(p)
    /\ UNCHANGED store

\* RateLimitMiddleware of internal/auth: an error lets the request pass.
AuthRateLimit(p) ==
    /\ At(p, "authRateLimit")
    /\ Continue(p) \/ Answer(p)
    /\ UNCHANGED store

\* rateLimitMiddleware of internal/handler: the same, after 100 ms at the latest.
RateLimitMiddleware(p) ==
    /\ At(p, "rateLimitMiddleware")
    /\ Continue(p) \/ Answer(p)
    /\ UNCHANGED store

\* ValidationMiddleware
Validation(p) ==
    /\ At(p, "validation")
    /\ IF call[p].input.complete THEN Continue(p) ELSE Answer(p)
    /\ UNCHANGED store

-----------------------------------------------------------------------------
(***************************************************************************)
(* The handlers at the end of a chain.                                     *)
(***************************************************************************)

Resource(p) == At(p, "resource") /\ Answer(p) /\ UNCHANGED store

CheckHTTP(p) == At(p, "checkRateLimit") /\ Answer(p) /\ UNCHANGED store

CheckRPC(p) == At(p, "CheckRateLimit") /\ Answer(p) /\ UNCHANGED store

\* The service is asked for the change, and with it Redis.
Send(p) ==
    /\ call' = [call EXCEPT ![p].sent = TRUE]
    /\ commands' = commands \cup
           {[guarded |-> Passed(p, "roleAuth"),
             allowed |-> \E role \in seen[p] : Allowed(role)]}
    /\ UNCHANGED seen

\* A handler of changes refuses what is not acceptable, calls the service, and
\* answers as the service does: with success when the command was executed, with
\* an error, whether or not it was or will be, at any time; an open breaker's
\* error, like a command that gets lost, is a command never executed.
ChangeHandler(p, acceptable) ==
    /\ \/ ~call[p].sent /\ acceptable /\ Send(p)
       \/ ~call[p].sent /\ ~acceptable /\ Answer(p)
       \/ call[p].sent /\ Answer(p)
    /\ UNCHANGED store

\* The binding's `required' refuses a field that has its zero value: false
\* cannot be sent over HTTP, so nobody leaves the whitelist this way.
WhitelistHTTP(p) ==
    /\ At(p, "updateWhitelist")
    /\ ChangeHandler(p, call[p].input.complete /\ call[p].input.value # 0)

LimitHTTP(p) ==
    /\ At(p, "setLimit")
    /\ ChangeHandler(p, call[p].input.complete /\ call[p].input.value # 0)

WhitelistRPC(p) ==
    /\ At(p, "UpdateWhitelist")
    /\ ChangeHandler(p, call[p].input.complete)

LimitRPC(p) ==
    /\ At(p, "SetLimit")
    /\ ChangeHandler(p, call[p].input.complete /\ call[p].input.value > 0)

-----------------------------------------------------------------------------
(***************************************************************************)
(* The service, the administration of keys, and the process.               *)
(***************************************************************************)

\* Redis executes a command, or it gets lost: while its request waits, after
\* the request was answered, or after the process has ended.
Change(m) ==
    /\ commands' = commands \ {m}
    /\ UNCHANGED <<store, call, seen>>

Administer ==
    /\ \E k \in APIKeys : DeleteKey(k) \/ \E entry \in Entry : AddKey(k, entry)
    /\ Observe
    /\ UNCHANGED <<call, commands>>

\* The process is started again, with the configured keys.  Commands that it has
\* sent may still arrive.
Restart ==
    /\ keys' = Configured
    /\ copy' = [p \in Procs |-> NoCopy]
    /\ settled' = Configured
    /\ call' = [p \in Procs |-> Idle]
    /\ seen' = [p \in Procs |-> {}]
    /\ UNCHANGED commands

Middleware(p) ==
    \/ APIKeyAuth(p) \/ KeepRole(p) \/ RoleAuth(p)
    \/ SecurityHeaders(p) \/ CORSSecurity(p) \/ BasicAuth(p)
    \/ AuthRateLimit(p) \/ RateLimitMiddleware(p) \/ Validation(p)

Handler(p) ==
    \/ Resource(p) \/ CheckHTTP(p) \/ CheckRPC(p)
    \/ WhitelistHTTP(p) \/ LimitHTTP(p) \/ WhitelistRPC(p) \/ LimitRPC(p)

Next ==
    \/ \E p \in Procs : Request(p) \/ Middleware(p) \/ Handler(p)
    \/ \E m \in commands : Change(m)
    \/ Administer
    \/ Restart

Spec == Init /\ [][Next]_vars

-----------------------------------------------------------------------------
(***************************************************************************)
(* Properties.                                                             *)
(***************************************************************************)

\* GetKey holds a copy for the request that p serves, and the table had it.
CopiesFit == \A p \in Procs : copy[p] # NoCopy =>
    /\ At(p, "apiKeyAuth")
    /\ copy[p].key = call[p].input.apiKey
    /\ copy[p].entry.role \in seen[p]

\* The role in a request's context is one that its key had meanwhile, and so is
\* the one for which RoleAuthMiddleware has let the request pass.
ContextFits == \A p \in Procs : Busy(p) =>
    /\ call[p].role # NoRole => call[p].role \in seen[p]
    /\ Passed(p, "roleAuth") => \E role \in seen[p] : Allowed(role)

\* What the key is in the table as has been seen.
UpToDate == \A p \in Procs : Busy(p) =>
    RolesOf(keys, call[p].input.apiKey) \subseteq seen[p]

ServerInv == TypeOK /\ Settled /\ CopiesFit /\ UpToDate /\ ContextFits

\* Whenever Redis executes the command of a request that RoleAuthMiddleware has
\* let pass, the request's key was active with a required role at some time
\* between the request's arrival and the sending of the command, however keys are
\* added, deleted and written back meanwhile, and also when it is executed only
\* after the request was answered or the process has ended.
Authorised == \A m \in commands : m.guarded => m.allowed
=============================================================================
