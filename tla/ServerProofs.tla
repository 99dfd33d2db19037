---------------------------- MODULE ServerProofs ----------------------------
(***************************************************************************)
(* What Server promises of keys, roles and commands, for every value of    *)
(* its constants: any chains, any goroutines, any table of keys; and what  *)
(* the process around it promises of its shutdown, for any choice of RPCs. *)
(***************************************************************************)
EXTENDS Process, TLAPS

USE StoreAssumption, ServerAssumption

\* A request is at one function only, and GetKey's copy is held at apiKeyAuth.
LEMMA NoCopyElsewhere ==
    ASSUME ServerInv, NEW p \in Procs, NEW f, At(p, f), f # "apiKeyAuth"
    PROVE  copy[p] = NoCopy
BY DEF ServerInv, CopiesFit, At

LEMMA BusyType ==
    ASSUME TypeOK, NEW p \in Procs, Busy(p)
    PROVE  call[p] \in Call
BY DEF TypeOK, Busy

LEMMA NextStep ==
    ASSUME NEW c \in Call
    PROVE  [c EXCEPT !.step = c.step + 1] \in Call
<1>1. c.step + 1 \in Nat \ {0}
    BY DEF Call
<1> QED  BY <1>1 DEF Call

\* An answer ends the request and leaves the others alone.
LEMMA AnswerKeeps ==
    ASSUME ServerInv, NEW p \in Procs,
           copy[p] = NoCopy, Answer(p), UNCHANGED store
    PROVE  ServerInv'
<1> USE DEF ServerInv, Answer, store
<1>1. TypeOK'
    BY DEF TypeOK, StoreTypeOK
<1>2. Settled'
    BY DEF Settled, InHand
<1>3. \A q \in Procs : q # p => call'[q] = call[q] /\ seen'[q] = seen[q]
    BY DEF TypeOK
<1>4. call'[p] = Idle
    BY DEF TypeOK
<1>5. CopiesFit'
    BY <1>3 DEF CopiesFit, At, Busy
<1>6. ContextFits'
    BY <1>3, <1>4 DEF ContextFits, Passed, Busy
<1>7. UpToDate'
    <2>1. ASSUME NEW q \in Procs, Busy(q)'
          PROVE  RolesOf(keys, call[q].input.apiKey)' \subseteq seen'[q]
        <3>1. q # p /\ Busy(q)
            BY <2>1, <1>3, <1>4 DEF Busy
        <3> QED  BY <3>1, <1>3 DEF UpToDate, RolesOf
    <2> QED  BY <2>1 DEF UpToDate
<1> QED  BY <1>1, <1>2, <1>5, <1>6, <1>7

\* One step further in the chain, the function at hand has let pass.
LEMMA PassedOn ==
    ASSUME TypeOK, NEW p \in Procs, Busy(p),
           call'[p].route = call[p].route, call'[p].step = call[p].step + 1
    PROVE  Passed(p, "roleAuth")' => Passed(p, "roleAuth") \/ At(p, "roleAuth")
<1>1. SUFFICES ASSUME NEW i \in DOMAIN Chain[call[p].route],
                      i < call[p].step + 1,
                      Chain[call[p].route][i] = "roleAuth"
               PROVE  Passed(p, "roleAuth") \/ At(p, "roleAuth")
    BY DEF Passed
<1>2. call[p].step \in Nat /\ Chain[call[p].route] \in Seq(STRING)
    BY BusyType DEF Call
<1>3. i \in 1 .. Len(Chain[call[p].route])
    BY <1>2
<1>4. CASE i < call[p].step
    BY <1>4, <1>1 DEF Passed
<1>5. CASE i = call[p].step
    BY <1>5, <1>1, <1>3 DEF At
<1> QED  BY <1>1, <1>2, <1>3, <1>4, <1>5

\* A request that goes on has passed one function more.
LEMMA ContinueKeeps ==
    ASSUME ServerInv, NEW p \in Procs, Busy(p), copy[p] = NoCopy,
           At(p, "roleAuth") => Allowed(call[p].role) /\ call[p].role # NoRole,
           Continue(p), UNCHANGED store
    PROVE  ServerInv'
<1> USE DEF ServerInv, Continue, store
<1>1. call[p] \in Call
    BY BusyType
<1>2. call' = [call EXCEPT ![p] = [call[p] EXCEPT !.step = call[p].step + 1]]
    OBVIOUS
<1>3. [call[p] EXCEPT !.step = call[p].step + 1] \in Call
    BY <1>1, NextStep
<1>4. TypeOK'
    BY <1>2, <1>3 DEF TypeOK, StoreTypeOK
<1>5. Settled'
    BY DEF Settled, InHand
<1>6. \A q \in Procs : q # p => call'[q] = call[q]
    BY DEF TypeOK
<1>7. call'[p] = [call[p] EXCEPT !.step = call[p].step + 1]
    BY <1>2 DEF TypeOK
<1>8. CopiesFit'
    BY <1>6 DEF CopiesFit, At, Busy
<1>9. ContextFits'
    <2>1. ASSUME NEW q \in Procs, Busy(q)', q # p
          PROVE  /\ call'[q].role # NoRole => call'[q].role \in seen'[q]
                 /\ Passed(q, "roleAuth")' => \E role \in seen'[q] : Allowed(role)
        BY <2>1, <1>6 DEF ContextFits, Passed, Busy
    <2>2. call'[p].role = call[p].role /\ call'[p].route = call[p].route
          /\ call'[p].step = call[p].step + 1
        BY <1>1, <1>7 DEF Call
    <2>3. Passed(p, "roleAuth")' => Passed(p, "roleAuth") \/ At(p, "roleAuth")
        BY <2>2, PassedOn
    <2>4. /\ call'[p].role # NoRole => call'[p].role \in seen'[p]
          /\ Passed(p, "roleAuth")' => \E role \in seen'[p] : Allowed(role)
        BY <2>2, <2>3 DEF ContextFits
    <2> QED  BY <2>1, <2>4 DEF ContextFits, Allowed
<1>10. UpToDate'
    <2>1. call'[p].input = call[p].input
        BY <1>1, <1>7 DEF Call
    <2> QED  BY <1>6, <2>1 DEF UpToDate, RolesOf, Busy
<1> QED  BY <1>4, <1>5, <1>8, <1>9, <1>10

\* What has been sent plays no part in the invariant.
LEMMA SendKeeps ==
    ASSUME ServerInv, NEW p \in Procs, Busy(p), Send(p), UNCHANGED store
    PROVE  ServerInv'
<1> USE DEF ServerInv, store
<1>1. call[p] \in Call
    BY BusyType
<1> DEFINE c == [call[p] EXCEPT !.sent = TRUE]
<1>2. /\ c \in Call /\ call' = [call EXCEPT ![p] = c]
      /\ c.step = call[p].step /\ c.role = call[p].role
      /\ c.route = call[p].route /\ c.input = call[p].input
    BY <1>1 DEF Call, Send
<1> HIDE DEF c
<1>3. TypeOK'
    <2>1. ASSUME NEW g \in BOOLEAN, NEW a \in BOOLEAN
          PROVE  [guarded |-> g, allowed |-> a] \in Command
        BY DEF Command
    <2>2. /\ Passed(p, "roleAuth") \in BOOLEAN
          /\ (\E role \in seen[p] : Allowed(role)) \in BOOLEAN
        BY DEF Passed
    <2>3. commands' \subseteq Command /\ seen' = seen
        BY <2>1, <2>2 DEF TypeOK, Send
    <2> QED  BY <1>2, <2>3 DEF TypeOK, StoreTypeOK
<1>4. Settled'
    BY DEF Settled, InHand
<1>5. c # Idle
    BY <1>2 DEF Call, Idle
<1>6. \A q \in Procs : /\ Busy(q)' <=> Busy(q)
                       /\ Busy(q) => /\ call'[q].step = call[q].step
                                     /\ call'[q].role = call[q].role
                                     /\ call'[q].route = call[q].route
                                     /\ call'[q].input = call[q].input
    BY <1>2, <1>5 DEF TypeOK, Busy
<1>7. CopiesFit'
    BY <1>6 DEF CopiesFit, At, Send
<1>8. ContextFits'
    BY <1>6 DEF ContextFits, Passed, Allowed, Send
<1>9. UpToDate'
    BY <1>6 DEF UpToDate, RolesOf, Send
<1> QED  BY <1>3, <1>4, <1>7, <1>8, <1>9

-----------------------------------------------------------------------------
(***************************************************************************)
(* The table of keys.                                                      *)
(***************************************************************************)

\* A change of the table keeps the types and what is settled.
LEMMA PutKeeps ==
    ASSUME StoreTypeOK, Settled, NEW k \in APIKeys,
           NEW entry \in Entry \cup {NoEntry}, Put(k, entry)
    PROVE  StoreTypeOK' /\ Settled'
<1>1. StoreTypeOK'
    BY DEF StoreTypeOK, Put
<1>2. ASSUME NEW j \in APIKeys, settled'[j] # Unknown
      PROVE  keys'[j] = settled'[j] /\ InHand(j)' \subseteq {settled'[j]}
    <2>1. InHand(j)' = InHand(j)
        BY DEF InHand, Put
    <2>2. CASE j = k
        BY <1>2, <2>1, <2>2 DEF Put, StoreTypeOK
    <2>3. CASE j # k
        BY <1>2, <2>1, <2>3 DEF Put, StoreTypeOK, Settled
    <2> QED  BY <2>2, <2>3
<1> QED  BY <1>1, <1>2 DEF Settled

\* A Find takes what is in the table, so what is settled is in hand at most.
LEMMA FindKeeps ==
    ASSUME StoreTypeOK, Settled, NEW p \in Procs, NEW k \in APIKeys, Find(p, k)
    PROVE  StoreTypeOK' /\ Settled'
<1>1. keys[k] \in Entry
    BY DEF StoreTypeOK, Find, Active
<1>2. [key |-> k, entry |-> keys[k]] \in Copy
    BY <1>1 DEF Copy
<1>3. StoreTypeOK'
    BY <1>2 DEF StoreTypeOK, Find
<1>4. ASSUME NEW j \in APIKeys, settled'[j] # Unknown
      PROVE  keys'[j] = settled'[j] /\ InHand(j)' \subseteq {settled'[j]}
    <2>1. InHand(j)' \subseteq InHand(j) \cup {keys[j]}
        BY DEF InHand, Find, StoreTypeOK
    <2> QED  BY <1>4, <2>1 DEF Find, Settled
<1> QED  BY <1>3, <1>4 DEF Settled

\* A copy that is written back over a settled entry is equal to it.
LEMMA WriteBackKeeps ==
    ASSUME StoreTypeOK, Settled, NEW p \in Procs, WriteBack(p)
    PROVE  StoreTypeOK' /\ Settled'
<1>1. copy[p] \in Copy /\ copy[p].key \in APIKeys /\ copy[p].entry \in Entry
    BY DEF StoreTypeOK, WriteBack, Copy
<1>2. StoreTypeOK'
    BY <1>1 DEF StoreTypeOK, WriteBack
<1>3. ASSUME NEW j \in APIKeys, settled'[j] # Unknown
      PROVE  keys'[j] = settled'[j] /\ InHand(j)' \subseteq {settled'[j]}
    <2>1. InHand(j)' \subseteq InHand(j)
        BY DEF InHand, WriteBack, StoreTypeOK
    <2>2. copy[p].key = j => copy[p].entry \in InHand(j)
        BY DEF InHand, WriteBack
    <2>3. keys'[j] = IF copy[p].key = j THEN copy[p].entry ELSE keys[j]
        BY <1>1 DEF WriteBack, StoreTypeOK
    <2>4. keys[j] = settled[j] /\ InHand(j) \subseteq {settled[j]} /\ settled' = settled
        BY <1>3 DEF Settled, WriteBack
    <2> QED  BY <2>1, <2>2, <2>3, <2>4
<1> QED  BY <1>2, <1>3 DEF Settled

LEMMA RolesType ==
    ASSUME NEW table \in [APIKeys -> Entry \cup {NoEntry}], NEW k
    PROVE  RolesOf(table, k) \subseteq Roles
BY DEF RolesOf, Active, Entry

\* What requests have seen only grows while they are under way.
LEMMA ObserveKeeps ==
    ASSUME TypeOK, StoreTypeOK', Observe
    PROVE  /\ seen' \in [Procs -> SUBSET Roles]
           /\ \A q \in Procs : seen[q] \subseteq seen'[q]
<1>1. \A k : RolesOf(keys', k) \subseteq Roles
    <2>1. keys' \in [APIKeys -> Entry \cup {NoEntry}]
        BY DEF StoreTypeOK
    <2>2. PICK table \in [APIKeys -> Entry \cup {NoEntry}] : table = keys'
        BY <2>1
    <2> QED  BY <2>2, RolesType
<1>2. \A q \in Procs : seen[q] \in SUBSET Roles
    BY DEF TypeOK
<1> QED  BY <1>1, <1>2 DEF Observe

-----------------------------------------------------------------------------
(***************************************************************************)
(* The steps.                                                              *)
(***************************************************************************)

LEMMA RequestKeeps ==
    ASSUME ServerInv, NEW p \in Procs, Request(p)
    PROVE  ServerInv'
<1> USE DEF ServerInv, store
<1>1. PICK r \in Routes : \E input \in Inputs[r] :
          /\ call' = [call EXCEPT ![p] =
                 [route |-> r, input |-> input, step |-> 1, role |-> NoRole,
                  sent |-> FALSE]]
          /\ seen' = [seen EXCEPT ![p] = RolesOf(keys, input.apiKey)]
    BY DEF Request
<1>2. PICK input \in Inputs[r] :
          /\ call' = [call EXCEPT ![p] =
                 [route |-> r, input |-> input, step |-> 1, role |-> NoRole,
                  sent |-> FALSE]]
          /\ seen' = [seen EXCEPT ![p] = RolesOf(keys, input.apiKey)]
    BY <1>1
<1> DEFINE c == [route |-> r, input |-> input, step |-> 1, role |-> NoRole,
                 sent |-> FALSE]
<1>3. input \in Input /\ c \in Call /\ c.step = 1 /\ c.role = NoRole
    BY DEF Call
<1>4. RolesOf(keys, input.apiKey) \subseteq Roles
    BY RolesType DEF TypeOK, StoreTypeOK
<1>5. call' = [call EXCEPT ![p] = c]
    BY <1>2
<1> HIDE DEF c
<1>6. TypeOK'
    <2>1. call' \in [Procs -> Call \cup {Idle}]
        BY <1>3, <1>5 DEF TypeOK
    <2>2. seen' \in [Procs -> SUBSET Roles]
        BY <1>2, <1>4 DEF TypeOK
    <2>3. commands' \subseteq Command
        BY DEF TypeOK, Request
    <2>4. StoreTypeOK'
        BY DEF TypeOK, StoreTypeOK, Request
    <2> QED  BY <2>1, <2>2, <2>3, <2>4 DEF TypeOK
<1>7. Settled'
    BY DEF Settled, InHand, Request
<1>8. \A q \in Procs : q # p => call'[q] = call[q] /\ seen'[q] = seen[q]
    BY <1>2, <1>5 DEF TypeOK
<1>9. copy[p] = NoCopy
    BY DEF CopiesFit, At, Request
<1>10. CopiesFit'
    BY <1>8, <1>9 DEF CopiesFit, At, Busy, Request
<1>11. call'[p].role = NoRole /\ ~Passed(p, "roleAuth")'
    <2>1. call'[p] = c
        BY <1>5 DEF TypeOK
    <2>2. Chain[c.route] \in Seq(STRING)
        BY <1>3 DEF Call
    <2>3. \A i \in DOMAIN Chain[c.route] : ~(i < 1)
        BY <2>2
    <2> QED  BY <2>1, <2>3, <1>3 DEF Passed
<1>12. ContextFits'
    BY <1>8, <1>11 DEF ContextFits, Passed, Busy, Allowed
<1>13. UpToDate'
    <2>1. call'[p] = c /\ c.input = input /\ seen'[p] = RolesOf(keys, input.apiKey)
        BY <1>2, <1>5 DEF TypeOK, c
    <2> QED  BY <2>1, <1>8 DEF UpToDate, RolesOf, Busy, Request
<1> QED  BY <1>6, <1>7, <1>10, <1>12, <1>13

\* The role that GetKey has found is one that the request has seen.
LEMMA APIKeyAuthKeeps ==
    ASSUME ServerInv, NEW p \in Procs, APIKeyAuth(p)
    PROVE  ServerInv'
<1> DEFINE k == call[p].input.apiKey
<1>1. ASSUME k \in APIKeys, Find(p, k), UNCHANGED <<call, commands, seen>>
      PROVE  ServerInv'
    <2>1. StoreTypeOK' /\ Settled'
        BY <1>1, FindKeeps DEF ServerInv, TypeOK
    <2>2. TypeOK' /\ ContextFits'
        BY <1>1, <2>1 DEF ServerInv, TypeOK, ContextFits, Passed, Busy, Allowed
    <2>3. UpToDate'
        BY <1>1 DEF ServerInv, UpToDate, RolesOf, Busy, Find
    <2>4. keys[k].role \in seen[p]
        BY <1>1 DEF ServerInv, UpToDate, RolesOf, Find, APIKeyAuth, At
    <2>5. /\ copy'[p] = [key |-> k, entry |-> keys[k]]
          /\ \A q \in Procs : q # p => copy'[q] = copy[q]
        BY <1>1 DEF ServerInv, TypeOK, StoreTypeOK, Find
    <2>6. CopiesFit'
        BY <1>1, <2>4, <2>5 DEF ServerInv, CopiesFit, At, Busy, APIKeyAuth
    <2> QED  BY <2>1, <2>2, <2>3, <2>6 DEF ServerInv
<1>2. CASE Answer(p) /\ UNCHANGED store
    BY <1>2, AnswerKeeps DEF APIKeyAuth
<1> QED  BY <1>1, <1>2 DEF APIKeyAuth

LEMMA KeepRoleKeeps ==
    ASSUME ServerInv, NEW p \in Procs, KeepRole(p)
    PROVE  ServerInv'
<1>0. At(p, "apiKeyAuth") /\ WriteBack(p) /\ Observe /\ UNCHANGED commands
    BY DEF KeepRole
<1>1. StoreTypeOK' /\ Settled'
    BY <1>0, WriteBackKeeps DEF ServerInv, TypeOK
<1>2. /\ seen' \in [Procs -> SUBSET Roles]
      /\ \A q \in Procs : seen[q] \subseteq seen'[q]
    BY <1>0, <1>1, ObserveKeeps DEF ServerInv
<1>3. call[p] \in Call /\ Busy(p)
    BY <1>0, BusyType DEF ServerInv, At
<1>4. copy[p].entry.role \in Roles
    BY <1>0 DEF ServerInv, TypeOK, StoreTypeOK, WriteBack, Copy, Entry
<1> DEFINE c == [call[p] EXCEPT !.step = call[p].step + 1,
                                !.role = copy[p].entry.role]
<1>5. /\ c \in Call /\ c.step = call[p].step + 1 /\ c.role = copy[p].entry.role
      /\ c.route = call[p].route /\ c.input = call[p].input
    <2>1. call[p].step + 1 \in Nat \ {0}
        BY <1>3 DEF Call
    <2> QED  BY <1>3, <1>4, <2>1 DEF Call
<1>6. call' = [call EXCEPT ![p] = c]
    BY DEF KeepRole
<1> HIDE DEF c
<1>7. TypeOK'
    <2>1. call' \in [Procs -> Call \cup {Idle}]
        BY <1>5, <1>6 DEF ServerInv, TypeOK
    <2> QED  BY <1>0, <1>1, <1>2, <2>1 DEF ServerInv, TypeOK
<1>8. \A q \in Procs : q # p => call'[q] = call[q]
    BY <1>6 DEF ServerInv, TypeOK
<1>9. call'[p] = c
    BY <1>6 DEF ServerInv, TypeOK
<1>10. /\ copy'[p] = NoCopy
       /\ \A q \in Procs : q # p => copy'[q] = copy[q]
    BY <1>0 DEF ServerInv, TypeOK, StoreTypeOK, WriteBack
<1>11. CopiesFit'
    BY <1>2, <1>8, <1>10 DEF ServerInv, CopiesFit, At, Busy
<1>12. UpToDate'
    <2>1. ASSUME NEW q \in Procs, Busy(q)'
          PROVE  RolesOf(keys, call[q].input.apiKey)' \subseteq seen'[q]
        <3>1. Busy(q) /\ call'[q].input = call[q].input
            BY <2>1, <1>3, <1>5, <1>8, <1>9 DEF Busy
        <3>2. seen'[q] = seen[q] \cup RolesOf(keys', call[q].input.apiKey)
            BY <1>0, <3>1 DEF Observe
        <3> QED  BY <3>1, <3>2 DEF RolesOf
    <2> QED  BY <2>1 DEF UpToDate
<1>13. ContextFits'
    <2>1. ASSUME NEW q \in Procs, Busy(q)', q # p
          PROVE  /\ call'[q].role # NoRole => call'[q].role \in seen'[q]
                 /\ Passed(q, "roleAuth")' => \E role \in seen'[q] : Allowed(role)
        BY <2>1, <1>2, <1>8 DEF ServerInv, ContextFits, Passed, Busy
    <2>2. call'[p].role \in seen'[p]
        BY <1>0, <1>2, <1>5, <1>9 DEF ServerInv, CopiesFit, WriteBack
    <2>3. Passed(p, "roleAuth")' => Passed(p, "roleAuth")
        BY <1>0, <1>3, <1>5, <1>9, PassedOn DEF ServerInv, At
    <2>4. Passed(p, "roleAuth") => \E role \in seen'[p] : Allowed(role)
        BY <1>2, <1>3 DEF ServerInv, ContextFits
    <2> QED  BY <2>1, <2>2, <2>3, <2>4 DEF ContextFits, Allowed
<1> QED  BY <1>1, <1>7, <1>11, <1>12, <1>13 DEF ServerInv

LEMMA MiddlewareKeeps ==
    ASSUME ServerInv, NEW p \in Procs, Middleware(p)
    PROVE  ServerInv'
<1>1. CASE APIKeyAuth(p)
    BY <1>1, APIKeyAuthKeeps
<1>2. CASE KeepRole(p)
    BY <1>2, KeepRoleKeeps
<1>3. CASE RoleAuth(p)
    <2>1. copy[p] = NoCopy /\ Busy(p)
        BY <1>3, NoCopyElsewhere DEF RoleAuth, At
    <2>2. CASE Continue(p) /\ Allowed(call[p].role) /\ call[p].role # NoRole
        BY <1>3, <2>1, <2>2, ContinueKeeps DEF RoleAuth
    <2>3. CASE Answer(p)
        BY <1>3, <2>1, <2>3, AnswerKeeps DEF RoleAuth
    <2> QED  BY <1>3, <2>2, <2>3 DEF RoleAuth
<1>4. CASE \/ SecurityHeaders(p) \/ CORSSecurity(p) \/ BasicAuth(p)
           \/ AuthRateLimit(p) \/ RateLimitMiddleware(p) \/ Validation(p)
    <2>1. /\ copy[p] = NoCopy /\ Busy(p)
          /\ ~At(p, "roleAuth")
        BY <1>4, NoCopyElsewhere
        DEF SecurityHeaders, CORSSecurity, BasicAuth, AuthRateLimit,
            RateLimitMiddleware, Validation, At
    <2>2. UNCHANGED store
        BY <1>4 DEF SecurityHeaders, CORSSecurity, BasicAuth, AuthRateLimit,
                    RateLimitMiddleware, Validation
    <2>3. CASE Continue(p)
        BY <2>1, <2>2, <2>3, ContinueKeeps
    <2>4. CASE Answer(p)
        BY <2>1, <2>2, <2>4, AnswerKeeps
    <2> QED  BY <1>4, <2>3, <2>4
        DEF SecurityHeaders, CORSSecurity, BasicAuth, AuthRateLimit,
            RateLimitMiddleware, Validation
<1> QED  BY <1>1, <1>2, <1>3, <1>4 DEF Middleware

LEMMA ChangeHandlerKeeps ==
    ASSUME ServerInv, NEW p \in Procs, Busy(p), copy[p] = NoCopy,
           NEW acceptable \in BOOLEAN, ChangeHandler(p, acceptable)
    PROVE  ServerInv'
<1>1. CASE Send(p)
    BY <1>1, SendKeeps DEF ChangeHandler
<1>2. CASE Answer(p)
    BY <1>2, AnswerKeeps DEF ChangeHandler
<1> QED  BY <1>1, <1>2 DEF ChangeHandler

LEMMA HandlerKeeps ==
    ASSUME ServerInv, NEW p \in Procs, Handler(p)
    PROVE  ServerInv'
<1>1. copy[p] = NoCopy /\ Busy(p)
    <2>1. PICK f \in {"resource", "checkRateLimit", "CheckRateLimit",
                      "updateWhitelist", "setLimit", "UpdateWhitelist",
                      "SetLimit"} : At(p, f)
        BY DEF Handler, Resource, CheckHTTP, CheckRPC, WhitelistHTTP, LimitHTTP,
               WhitelistRPC, LimitRPC
    <2> QED  BY <2>1, NoCopyElsewhere DEF At
<1>2. CASE Resource(p) \/ CheckHTTP(p) \/ CheckRPC(p)
    <2>1. /\ UNCHANGED store
          /\ Answer(p)
        BY <1>2 DEF Resource, CheckHTTP, CheckRPC
    <2> QED  BY <1>1, <2>1, AnswerKeeps
<1>3. CASE \/ WhitelistHTTP(p) \/ LimitHTTP(p) \/ WhitelistRPC(p) \/ LimitRPC(p)
    <2>1. \E acceptable \in BOOLEAN : ChangeHandler(p, acceptable)
        BY <1>3 DEF WhitelistHTTP, LimitHTTP, WhitelistRPC, LimitRPC, ChangeHandler
    <2> QED  BY <1>1, <2>1, ChangeHandlerKeeps
<1> QED  BY <1>2, <1>3 DEF Handler

LEMMA AdministerKeeps ==
    ASSUME ServerInv, Administer
    PROVE  ServerInv'
<1>1. PICK k \in APIKeys, entry \in Entry \cup {NoEntry} : Put(k, entry)
    BY DEF Administer, AddKey, DeleteKey
<1>2. StoreTypeOK' /\ Settled'
    BY <1>1, PutKeeps DEF ServerInv, TypeOK
<1>3. /\ seen' \in [Procs -> SUBSET Roles]
      /\ \A q \in Procs : seen[q] \subseteq seen'[q]
    BY <1>2, ObserveKeeps DEF ServerInv, Administer
<1>4. UNCHANGED <<call, commands, copy>>
    BY <1>1 DEF Administer, Put
<1>5. TypeOK'
    BY <1>2, <1>3, <1>4 DEF ServerInv, TypeOK
<1>6. CopiesFit'
    BY <1>3, <1>4 DEF ServerInv, CopiesFit, At, Busy
<1>7. UpToDate'
    <2>1. ASSUME NEW q \in Procs, Busy(q)'
          PROVE  RolesOf(keys, call[q].input.apiKey)' \subseteq seen'[q]
        <3>1. Busy(q)
            BY <2>1, <1>4 DEF Busy
        <3>2. seen'[q] = seen[q] \cup RolesOf(keys', call[q].input.apiKey)
            BY <3>1 DEF Administer, Observe
        <3> QED  BY <3>2, <1>4 DEF RolesOf
    <2> QED  BY <2>1 DEF UpToDate
<1>8. ContextFits'
    BY <1>3, <1>4 DEF ServerInv, ContextFits, Passed, Busy, Allowed
<1> QED  BY <1>2, <1>5, <1>6, <1>7, <1>8 DEF ServerInv

LEMMA InitFits == Init => ServerInv
<1> SUFFICES ASSUME Init PROVE ServerInv
    OBVIOUS
<1> USE DEF Init, StoreInit
<1>1. TypeOK
    BY DEF TypeOK, StoreTypeOK
<1>2. Settled
    BY DEF Settled, InHand
<1>3. CopiesFit
    BY DEF CopiesFit
<1>4. UpToDate /\ ContextFits
    BY DEF UpToDate, ContextFits, Busy
<1> QED  BY <1>1, <1>2, <1>3, <1>4 DEF ServerInv

LEMMA RestartFits ==
    ASSUME ServerInv, Restart
    PROVE  ServerInv'
<1> USE DEF Restart
<1>1. TypeOK'
    BY DEF ServerInv, TypeOK, StoreTypeOK
<1>2. Settled'
    BY DEF Settled, InHand
<1>3. CopiesFit'
    BY DEF CopiesFit
<1>4. UpToDate' /\ ContextFits'
    BY DEF UpToDate, ContextFits, Busy
<1> QED  BY <1>1, <1>2, <1>3, <1>4 DEF ServerInv

-----------------------------------------------------------------------------
(***************************************************************************)
(* Theorems.                                                               *)
(***************************************************************************)

\* Every step keeps the invariant.
LEMMA Inductive == ServerInv /\ [Next]_vars => ServerInv'
<1> SUFFICES ASSUME ServerInv, [Next]_vars PROVE ServerInv'
    OBVIOUS
<1>1. ASSUME NEW p \in Procs, Request(p) PROVE ServerInv'
    BY <1>1, RequestKeeps
<1>2. ASSUME NEW p \in Procs, Middleware(p) PROVE ServerInv'
    BY <1>2, MiddlewareKeeps
<1>3. ASSUME NEW p \in Procs, Handler(p) PROVE ServerInv'
    BY <1>3, HandlerKeeps
<1>4. ASSUME NEW m \in commands, Change(m) PROVE ServerInv'
    <2>1. TypeOK' /\ Settled'
        BY <1>4 DEF Change, store, ServerInv, TypeOK, StoreTypeOK, Settled, InHand
    <2>2. CopiesFit' /\ UpToDate'
        BY <1>4 DEF Change, store, ServerInv, CopiesFit, At, Busy, UpToDate, RolesOf
    <2>3. ContextFits'
        BY <1>4 DEF Change, store, ServerInv, ContextFits, Passed, Busy, Allowed
    <2> QED  BY <2>1, <2>2, <2>3 DEF ServerInv
<1>5. CASE Administer
    BY <1>5, AdministerKeeps
<1>6. CASE Restart
    BY <1>6, RestartFits
<1>7. CASE UNCHANGED vars
    <2>1. TypeOK' /\ Settled'
        BY <1>7 DEF vars, store, ServerInv, TypeOK, StoreTypeOK, Settled, InHand
    <2>2. CopiesFit' /\ UpToDate'
        BY <1>7 DEF vars, store, ServerInv, CopiesFit, At, Busy, UpToDate, RolesOf
    <2>3. ContextFits'
        BY <1>7 DEF vars, store, ServerInv, ContextFits, Passed, Busy, Allowed
    <2> QED  BY <2>1, <2>2, <2>3 DEF ServerInv
<1> QED  BY <1>1, <1>2, <1>3, <1>4, <1>5, <1>6, <1>7 DEF Next

\* What GetKey, AddKey and DeleteKey make of the table, and what the requests in
\* the chains of APIKeyAuthMiddleware and RoleAuthMiddleware know of it, fit.
THEOREM ServerInvariant == Spec => []ServerInv
BY InitFits, Inductive, PTL DEF Spec

\* A step that sends nothing leaves no new command.
LEMMA NoNewCommand ==
    ASSUME [Next]_vars, ~\E p \in Procs : Busy(p) /\ Send(p)
    PROVE  commands' \subseteq commands
BY DEF Next, vars, Request, Administer, Restart, Change, Middleware, APIKeyAuth,
       KeepRole, RoleAuth, SecurityHeaders, CORSSecurity, BasicAuth, AuthRateLimit,
       RateLimitMiddleware, Validation, Handler, Resource, CheckHTTP, CheckRPC,
       WhitelistHTTP, LimitHTTP, WhitelistRPC, LimitRPC, ChangeHandler, Continue,
       Answer, At

\* Commands that come through RoleAuthMiddleware are sent for keys that had a
\* sufficient role since their request arrived, whenever they are executed.
THEOREM OnlyAuthorised == Spec => []Authorised
<1>1. Init => Authorised
    BY DEF Init, Authorised
<1>2. ServerInv /\ Authorised /\ [Next]_vars => Authorised'
    <2> SUFFICES ASSUME ServerInv, Authorised, [Next]_vars PROVE Authorised'
        OBVIOUS
    <2>1. ASSUME NEW p \in Procs, Busy(p), Send(p) PROVE Authorised'
        <3>1. Passed(p, "roleAuth") => \E role \in seen[p] : Allowed(role)
            BY <2>1 DEF ServerInv, ContextFits
        <3> QED  BY <2>1, <3>1 DEF Send, Authorised
    <2>2. CASE ~\E p \in Procs : Busy(p) /\ Send(p)
        BY <2>2, NoNewCommand DEF Authorised
    <2> QED  BY <2>1, <2>2
<1> QED  BY <1>1, <1>2, ServerInvariant, PTL DEF Spec

-----------------------------------------------------------------------------
(***************************************************************************)
(* The process.                                                            *)
(***************************************************************************)

\* An end of the process is Server's Restart, and every other step of the process
\* leaves Server alone or is one of Server's.
LEMMA ProcessStep == [ProcessNext]_procVars => [Next]_vars
<1> SUFFICES ASSUME ProcessNext PROVE [Next]_vars
    BY DEF procVars
<1>1. CASE MainStep
    BY <1>1 DEF MainStep, Boot, Notify, Shutdown, Drained, FindBusy, TimeOut,
                GracefulStop, Exit, Next
<1>2. CASE ListenAndServe \/ Serve \/ ServerFails \/ GoAway
    BY <1>2 DEF ListenAndServe, Serve, ServerFails, GoAway, Exit, Next
<1>3. CASE Signal \/ Crash \/ StartAgain
    BY <1>3 DEF Signal, Deliver, Crash, StartAgain, Exit, Next
<1>4. CASE \/ \E p \in Procs : Arrive(p) \/ Work(p)
           \/ \E m \in commands : MakeChange(m)
    BY <1>4 DEF Arrive, Work, MakeChange, Next
<1>5. CASE ManageKeys
    BY <1>5 DEF ManageKeys, Next
<1> QED  BY <1>1, <1>2, <1>3, <1>4, <1>5 DEF ProcessNext

\* Whatever Server promises, the process keeps, from its start to its end and
\* over all restarts.
THEOREM ProcessImplementsServer == ProcessSpec => Spec
<1>1. ProcessInit => Init
    BY DEF ProcessInit
<1> QED  BY <1>1, ProcessStep, PTL DEF ProcessSpec, Spec

\* No request under way begins, or changes its route, but by arriving.
LEMMA NoneBegins ==
    ASSUME TypeOK, NEW p \in Procs,
           \/ Middleware(p) \/ Handler(p)
    PROVE  \A q \in Procs : Busy(q)' => Busy(q) /\ call'[q].route = call[q].route
<1>1. Busy(p)
    BY DEF Middleware, APIKeyAuth, KeepRole, RoleAuth, SecurityHeaders, CORSSecurity,
           BasicAuth, AuthRateLimit, RateLimitMiddleware, Validation, Handler,
           Resource, CheckHTTP, CheckRPC, WhitelistHTTP, LimitHTTP, WhitelistRPC,
           LimitRPC, At
<1>2. call[p] \in Call
    BY <1>1, BusyType
<1>3. \/ Answer(p)
      \/ UNCHANGED call
      \/ Continue(p) \/ Send(p)
      \/ call' = [call EXCEPT ![p].step = @ + 1, ![p].role = copy[p].entry.role]
    BY DEF Middleware, APIKeyAuth, KeepRole, RoleAuth, SecurityHeaders, CORSSecurity,
           BasicAuth, AuthRateLimit, RateLimitMiddleware, Validation, Handler,
           Resource, CheckHTTP, CheckRPC, WhitelistHTTP, LimitHTTP, WhitelistRPC,
           LimitRPC, ChangeHandler
<1>4. \A q \in Procs : q # p => call'[q] = call[q]
    BY <1>3 DEF Answer, Continue, Send, TypeOK
<1>5. call'[p] = Idle \/ call'[p].route = call[p].route
    BY <1>2, <1>3 DEF Answer, Continue, Send, TypeOK, Call
<1> QED  BY <1>1, <1>4, <1>5 DEF Busy

\* Then no kind of request comes to be under way.
LEMMA NoneBusier ==
    ASSUME \A q \in Procs : Busy(q)' => Busy(q) /\ call'[q].route = call[q].route,
           UNCHANGED process, ProcessInv
    PROVE  ProcessInv'
BY DEF ProcessInv, ProcessTypeOK, process, HTTPBusy, RPCBusy, Shutting, Ended

LEMMA ExitKeeps ==
    ASSUME NEW how \in Ended, Exit(how)
    PROVE  ProcessInv'
<1>1. \A p \in Procs : ~Busy(p)'
    BY DEF Exit, Restart, Busy
<1>2. ProcessTypeOK'
    BY DEF Exit, ProcessTypeOK
<1> QED  BY <1>1, <1>2 DEF Exit, ProcessInv, HTTPBusy, RPCBusy, Ended, Shutting

\* A request arrives at a server that takes it up.
LEMMA ArriveKeeps ==
    ASSUME TypeOK, ProcessInv, NEW p \in Procs, Arrive(p)
    PROVE  ProcessInv'
<1>1. \A q \in Procs : q # p => call'[q] = call[q]
    BY DEF Arrive, Request, TypeOK
<1>2. CASE call'[p].route \in RPCs
    <2>1. grpc \in {"serving", "stopping"} /\ UNCHANGED process
        BY <1>2 DEF Arrive, Accepts
    <2>2. HTTPBusy' => HTTPBusy
        BY <1>1, <1>2 DEF HTTPBusy, Busy
    <2> QED  BY <2>1, <2>2 DEF ProcessInv, ProcessTypeOK, process, Ended, Shutting
<1>3. CASE call'[p].route \notin RPCs
    <2>1. http \in {"serving", "closing"} /\ UNCHANGED process
        BY <1>3 DEF Arrive, Accepts
    <2>2. RPCBusy' => RPCBusy
        BY <1>1, <1>3 DEF RPCBusy, Busy
    <2> QED  BY <2>1, <2>2 DEF ProcessInv, ProcessTypeOK, process, Ended, Shutting
<1> QED  BY <1>2, <1>3

\* A step of main that is not the end of the process leaves the requests alone.
LEMMA MainKeeps ==
    ASSUME ProcessInv, UNCHANGED vars, ProcessTypeOK',
           \/ /\ main = "booting" /\ main' = "launched"
              /\ UNCHANGED <<http, grpc>>
           \/ /\ main = "launched" /\ main' = "notified"
              /\ UNCHANGED <<http, grpc>>
           \/ Shutdown \/ Drained \/ FindBusy
    PROVE  ProcessInv'
<1>1. HTTPBusy' = HTTPBusy /\ RPCBusy' = RPCBusy
    BY DEF HTTPBusy, RPCBusy, Busy, vars
<1>2. CASE UNCHANGED <<http, grpc>> /\ main # main' /\ ~Shutdown /\ ~Drained
    BY <1>1, <1>2 DEF ProcessInv, FindBusy, Ended, Shutting
<1>3. CASE Shutdown
    BY <1>1, <1>3 DEF ProcessInv, ProcessTypeOK, Shutdown, Ended, Shutting
<1>4. CASE Drained
    BY <1>1, <1>4 DEF ProcessInv, ProcessTypeOK, Drained, Ended, Shutting
<1> QED  BY <1>2, <1>3, <1>4 DEF FindBusy

\* So does a step of the servers, and a signal.
LEMMA ServersKeep ==
    ASSUME ProcessInv, UNCHANGED vars,
           \/ ListenAndServe \/ GoAway \/ StartAgain \/ Deliver
           \/ /\ Launched /\ grpc = "unstarted" /\ grpc' = "serving"
              /\ UNCHANGED <<main, http, quit, signalled>>
    PROVE  ProcessInv'
<1>1. HTTPBusy' = HTTPBusy /\ RPCBusy' = RPCBusy
    BY DEF HTTPBusy, RPCBusy, Busy, vars
<1>2. ProcessTypeOK'
    BY DEF ProcessInv, ProcessTypeOK, ListenAndServe, GoAway, StartAgain, Deliver
<1> QED  BY <1>1, <1>2 DEF ProcessInv, ListenAndServe, GoAway, StartAgain, Deliver,
                     Launched, Running, Ended, Shutting

LEMMA ProcessInductive ==
    ServerInv /\ ProcessInv /\ [ProcessNext]_procVars => ProcessInv'
<1> SUFFICES ASSUME ServerInv, ProcessInv, [ProcessNext]_procVars PROVE ProcessInv'
    OBVIOUS
<1>1. TypeOK
    BY DEF ServerInv
<1>2. CASE \E how \in Ended : Exit(how)
    BY <1>2, ExitKeeps
<1>3. CASE MainStep /\ ~\E how \in Ended : Exit(how)
    <2>1. Boot \/ Notify \/ Shutdown \/ Drained \/ FindBusy
        BY <1>3 DEF MainStep, TimeOut, GracefulStop, Ended
    <2>2. UNCHANGED vars
        BY <1>3, <2>1 DEF Boot, Notify, Shutdown, Drained, FindBusy, Ended
    <2>3. ProcessTypeOK'
        BY <1>3, <2>1 DEF Boot, Notify, Shutdown, Drained, FindBusy, ProcessInv,
                          ProcessTypeOK, Ended, Shutting
    <2> QED  BY <1>3, <2>1, <2>2, <2>3, MainKeeps DEF Boot, Notify, Ended
<1>4. CASE /\ ListenAndServe \/ Serve \/ ServerFails \/ GoAway
           /\ ~\E how \in Ended : Exit(how)
    BY <1>4, ServersKeep DEF ListenAndServe, Serve, ServerFails, GoAway, Ended
<1>5. CASE (Signal \/ Crash \/ StartAgain) /\ ~\E how \in Ended : Exit(how)
    BY <1>5, ServersKeep DEF Signal, Deliver, Crash, StartAgain, Ended
<1>6. ASSUME NEW p \in Procs, Arrive(p) PROVE ProcessInv'
    BY <1>1, <1>6, ArriveKeeps
<1>7. ASSUME NEW p \in Procs, Work(p) PROVE ProcessInv'
    BY <1>1, <1>7, NoneBegins, NoneBusier DEF Work
<1>8. CASE ManageKeys \/ \E m \in commands : MakeChange(m)
    BY <1>8, NoneBusier DEF ManageKeys, Administer, MakeChange, Change, Busy
<1>9. CASE UNCHANGED procVars
    BY <1>9, NoneBusier DEF procVars, vars, Busy
<1> QED  BY <1>2, <1>3, <1>4, <1>5, <1>6, <1>7, <1>8, <1>9 DEF ProcessNext

LEMMA ProcessInitFits == ProcessInit => ProcessInv
BY DEF ProcessInit, Init, Busy, ProcessInv, ProcessTypeOK, HTTPBusy, RPCBusy, Ended,
       Shutting

\* The servers run while main wants them to, and what main waits for at each
\* stage of the shutdown has happened when it goes on.
THEOREM ProcessInvariant == ProcessSpec => []ProcessInv
BY ProcessInitFits, ProcessInductive, ProcessImplementsServer, ServerInvariant, PTL
   DEF ProcessSpec

\* The only way to the clean end is GracefulStop, which main reaches when HTTP has
\* nothing under way.
THEOREM CleanEnd == ProcessSpec => NothingCutOff
<1>1. ProcessInv /\ [ProcessNext]_procVars =>
          [main' = "clean" /\ Running => \A p \in Procs : ~Busy(p)]_procVars
    <2> SUFFICES ASSUME ProcessInv, [ProcessNext]_procVars, main' = "clean", Running
                 PROVE  \A p \in Procs : ~Busy(p)
        OBVIOUS
    <2>1. GracefulStop
        BY DEF ProcessNext, MainStep, Boot, Notify, Shutdown, Drained, FindBusy,
               TimeOut, ListenAndServe, Serve, ServerFails, GoAway, Signal, Deliver,
               Crash, StartAgain, Arrive, Work, MakeChange, ManageKeys, Exit,
               procVars, process, Running, Ended
    <2>2. ~HTTPBusy /\ ~RPCBusy
        BY <2>1 DEF GracefulStop, ProcessInv
    <2> QED  BY <2>2 DEF HTTPBusy, RPCBusy
<1> QED  BY <1>1, ProcessInvariant, PTL DEF ProcessSpec, NothingCutOff
=============================================================================
