---------------------- MODULE RateLimiterServiceProofs ----------------------
(***************************************************************************)
(* Theorems about RateLimiterService, for every number of goroutines,      *)
(* every set of keys, windows and limits, and every threshold.             *)
(***************************************************************************)
EXTENDS RateLimiterService, FiniteSetTheorems, TLAPS

-----------------------------------------------------------------------------
(***************************************************************************)
(* Types.                                                                  *)
(***************************************************************************)

Calls == Check \cup Change \cup Report \cup {Idle}

\* What a goroutine's place says of its request.
LEMMA CallKinds ==
    ASSUME NEW c \in Calls
    PROVE  /\ c.at \in {"whitelist", "limit", "count"} => c \in Check
           /\ c.at = "write" => c \in Change
           /\ c.at = "breaker" /\ c.op = "check" => c \in Check
           /\ c.at = "breaker" /\ c.op # "check" => c \in Change
BY DEF Calls, Check, Change, Report, Idle

LEMMA SettingsOK ==
    /\ \A k \in Keys : Whitelist(k) \in Settings
    /\ \A k \in Keys, w \in Windows : LimitOf(k, w) \in Settings
BY DEF Settings

BreakerOK ==
    /\ circuitBreaker \in BOOLEAN
    /\ failureCount \in Nat
    /\ age \in 0 .. (ResetTimeout + 1)

SettingsTyped ==
    /\ setting \in [Settings -> Int]
    /\ late \subseteq Command
    /\ inForce \in [Settings -> SUBSET Int]

LEMMA TypeParts ==
    TypeOK <=> /\ BreakerOK /\ SettingsTyped
               /\ trouble \in BOOLEAN /\ call \in [Procs -> Calls]
BY DEF TypeOK, BreakerOK, SettingsTyped, Calls

LEMMA BreakerSteps ==
    ASSUME BreakerOK,
           \/ B!Failure \/ B!Success \/ B!Close \/ B!Tick \/ B!Restart
           \/ UNCHANGED breaker
    PROVE  BreakerOK'
<1> USE ServiceAssumption
<1>1. circuitBreaker' \in BOOLEAN
  BY DEF BreakerOK, B!Failure, B!Success, B!Close, B!Tick, B!Restart, breaker
<1>2. failureCount' \in Nat
  BY DEF BreakerOK, B!Failure, B!Success, B!Close, B!Tick, B!Restart, breaker
<1>3. age' \in 0 .. (ResetTimeout + 1)
  BY DEF BreakerOK, B!Failure, B!Success, B!Close, B!Tick, B!Restart, breaker,
         B!Older, B!LongAgo
<1> QED  BY <1>1, <1>2, <1>3 DEF BreakerOK

LEMMA BreakerTyped == TypeOK /\ [Next]_vars => BreakerOK'
BY BreakerSteps, TypeParts
   DEF Next, Request, CheckRateLimit, UpdateWhitelist, SetLimit, Begin, Step,
       IsCircuitBreakerOpen, IsWhitelisted, GetLimit, IncrementAndCount, Write,
       StoreFails, IncrementFailure, ResetFailure, LateCommand, LostCommand,
       Expire, RedisRestart, Environment, Restart, Tick, vars

LEMMA CallsTyped ==
    ASSUME TypeOK, Configured, [Next]_vars
    PROVE  call' \in [Procs -> Calls] /\ Configured'
<1> DEFINE Fits(c) == c \in Calls /\ (c.at \in {"limit", "count"} =>
                                        c.window \in DOMAIN DefaultLimits)
           Goal == call' \in [Procs -> Calls] /\ Configured'
<1> SUFFICES Goal
  OBVIOUS
<1>0. /\ call \in [Procs -> Calls] /\ setting \in [Settings -> Int]
      /\ \A p \in Procs : Fits(call[p])
  BY TypeParts DEF SettingsTyped, Configured
<1>1. ASSUME NEW p \in Procs, NEW c, Fits(c), call' = [call EXCEPT ![p] = c]
      PROVE  Goal
  BY <1>0, <1>1 DEF Configured
<1>2. Fits(Idle) /\ \A how \in {"ok", "failed"} :
          Fits([op |-> "report", at |-> how])
  BY DEF Calls, Idle, Report
<1> HIDE DEF Goal
<1>3. ASSUME NEW p \in Procs, Request(p) PROVE Goal
  <2>1. CASE CheckRateLimit(p)
    <3>1. PICK k \in Keys, w \in Windows :
              Begin(p, [op |-> "check", key |-> k, window |-> w, limit |-> 0,
                        at |-> "breaker"])
      BY <2>1 DEF CheckRateLimit
    <3>2. Fits([op |-> "check", key |-> k, window |-> w, limit |-> 0,
                at |-> "breaker"])
      BY DEF Calls, Check
    <3> QED  BY <1>1, <3>1, <3>2 DEF Begin
  <2>2. ASSUME NEW x \in Settings, NEW v \in Int,
               Begin(p, [op |-> "change", on |-> x, value |-> v, at |-> "breaker"])
        PROVE  Goal
    <3>1. Fits([op |-> "change", on |-> x, value |-> v, at |-> "breaker"])
      BY DEF Calls, Change
    <3> QED  BY <1>1, <2>2, <3>1 DEF Begin
  <2>3. CASE UpdateWhitelist(p)
    <3>1. PICK k \in Keys, v \in {0, 1} :
              Begin(p, [op |-> "change", on |-> Whitelist(k), value |-> v,
                        at |-> "breaker"])
      BY <2>3 DEF UpdateWhitelist
    <3> QED  BY <2>2, <3>1, SettingsOK
  <2>4. CASE SetLimit(p)
    <3>1. PICK k \in Keys, w \in Windows, v \in Limits :
              Begin(p, [op |-> "change", on |-> LimitOf(k, w), value |-> v,
                        at |-> "breaker"])
      BY <2>4 DEF SetLimit
    <3>2. v \in Int
      BY ServiceAssumption
    <3> QED  BY <2>2, <3>1, <3>2, SettingsOK
  <2> QED  BY <1>3, <2>1, <2>3, <2>4 DEF Request
<1>4. ASSUME NEW p \in Procs, IsCircuitBreakerOpen(p) PROVE Goal
  <2>1. CASE Answer(p)
    BY <1>1, <1>2, <2>1 DEF Answer
  <2>2. CASE GoOn(p)
    <3>1. call[p] \in Calls /\ call[p].at = "breaker"
      BY <1>0, <1>4 DEF IsCircuitBreakerOpen, At
    <3>2. CASE call[p].op = "check"
      <4>1. call[p] \in Check
        BY <3>1, <3>2, CallKinds
      <4>2. Fits([call[p] EXCEPT !.at = "whitelist"])
        BY <4>1 DEF Calls, Check
      <4> QED  BY <1>1, <2>2, <3>2, <4>2 DEF GoOn, Go
    <3>3. CASE call[p].op # "check"
      <4>1. call[p] \in Change
        BY <3>1, <3>3, CallKinds
      <4>2. Fits([call[p] EXCEPT !.at = "write"])
        BY <4>1 DEF Calls, Change
      <4> QED  BY <1>1, <2>2, <3>3, <4>2 DEF GoOn, Go
    <3> QED  BY <3>2, <3>3
  <2> QED  BY <1>4, <2>1, <2>2 DEF IsCircuitBreakerOpen
<1>5. ASSUME NEW p \in Procs, IsWhitelisted(p) PROVE Goal
  <2>1. CASE Answer(p)
    BY <1>1, <1>2, <2>1 DEF Answer
  <2>2. CASE Go(p, "limit") /\ call[p].window \in DOMAIN DefaultLimits
    <3>1. call[p] \in Check
      BY <1>0, <1>5, CallKinds DEF IsWhitelisted, At
    <3>2. Fits([call[p] EXCEPT !.at = "limit"])
      BY <2>2, <3>1 DEF Calls, Check
    <3> QED  BY <1>1, <2>2, <3>2 DEF Go
  <2> QED  BY <1>5, <2>1, <2>2 DEF IsWhitelisted
<1>6. ASSUME NEW p \in Procs, GetLimit(p) PROVE Goal
  <2> DEFINE custom == setting[LimitOf(call[p].key, call[p].window)]
             n == Effective(custom, call[p].window)
  <2>1. call[p] \in Check /\ call[p].window \in DOMAIN DefaultLimits
    BY <1>0, <1>6, CallKinds DEF GetLimit, At
  <2>2. custom \in Int
    BY <1>0, <2>1, SettingsOK DEF Check
  <2>3. n \in Int
    BY <2>1, <2>2, ServiceAssumption DEF Effective
  <2>4. call' = [call EXCEPT ![p] = [call[p] EXCEPT !.at = "count", !.limit = n]]
    BY <1>0, <1>6 DEF GetLimit
  <2> HIDE DEF n
  <2>5. Fits([call[p] EXCEPT !.at = "count", !.limit = n])
    BY <2>1, <2>3 DEF Calls, Check
  <2> QED  BY <1>1, <2>4, <2>5
<1>7. ASSUME NEW p \in Procs, IncrementAndCount(p) \/ Write(p) \/ StoreFails(p)
      PROVE  Goal
  <2>1. PICK how \in {"ok", "failed"} : Tell(p, how)
    BY <1>7 DEF IncrementAndCount, Write, StoreFails
  <2> QED  BY <1>1, <1>2, <2>1 DEF Tell
<1>8. ASSUME NEW p \in Procs, IncrementFailure(p) \/ ResetFailure(p) PROVE Goal
  BY <1>1, <1>2, <1>8 DEF IncrementFailure, ResetFailure, Answer
<1>9. CASE Restart
  BY <1>2, <1>9 DEF Goal, Restart, Configured
<1>10. ASSUME call' = call PROVE Goal
  BY <1>0, <1>10 DEF Goal, Configured
<1> QED
  <2>1. CASE \/ \E m \in late : LateCommand(m) \/ LostCommand(m)
             \/ \E x \in Settings : Expire(x)
             \/ RedisRestart \/ Environment \/ Tick \/ UNCHANGED vars
    BY <1>10, <2>1 DEF LateCommand, LostCommand, Expire, RedisRestart,
                       Environment, Tick, vars
  <2> QED  BY <1>3, <1>4, <1>5, <1>6, <1>7, <1>8, <1>9, <2>1
              DEF Next, Step

LEMMA ComingTyped == TypeOK => \A x : Coming(x) \subseteq Int
<1> SUFFICES ASSUME TypeOK, NEW x PROVE Coming(x) \subseteq Int
  OBVIOUS
<1>1. \A m \in late : m.value \in Int
  BY TypeParts DEF SettingsTyped, Command
<1>2. \A q \in Procs : At(q, "write") => call[q].value \in Int
  BY TypeParts, CallKinds DEF At, Change
<1> QED  BY <1>1, <1>2 DEF Coming

LEMMA SettingsStep ==
    ASSUME TypeOK, [Next]_vars
    PROVE  SettingsTyped'
<1>0. SettingsTyped /\ call \in [Procs -> Calls]
  BY TypeParts
<1>1. ASSUME NEW p \in Procs, call[p].at = "write"
      PROVE  CommandOf(p) \in Command /\ call[p].on \in Settings
             /\ call[p].value \in Int
  BY <1>0, <1>1, CallKinds DEF Change, CommandOf, Command
<1>2. ASSUME NEW p \in Procs, Request(p) PROVE SettingsTyped'
  BY <1>0, <1>2 DEF Request, CheckRateLimit, UpdateWhitelist, SetLimit, Begin,
                    SettingsTyped
<1>3. ASSUME NEW p \in Procs, IsCircuitBreakerOpen(p) PROVE SettingsTyped'
  <2>1. setting' = setting /\ late' = late
    BY <1>3 DEF IsCircuitBreakerOpen
  <2>2. CASE inForce' = inForce
    BY <1>0, <2>1, <2>2 DEF SettingsTyped
  <2>3. CASE call[p].op # "check" /\ GoOn(p)
    <3>1. call[p] \in Change
      BY <1>0, <1>3, <2>3, CallKinds DEF IsCircuitBreakerOpen, At
    <3>2. inForce' = [inForce EXCEPT ![call[p].on] = @ \cup {call[p].value}]
      BY <2>3 DEF GoOn
    <3> QED  BY <1>0, <2>1, <3>1, <3>2 DEF SettingsTyped, Change
  <2> QED  BY <1>3, <2>2, <2>3 DEF IsCircuitBreakerOpen, GoOn
<1>4. ASSUME NEW p \in Procs, Write(p) PROVE SettingsTyped'
  <2>1. /\ call[p].on \in Settings /\ call[p].value \in Int
        /\ late' \subseteq Command
    BY <1>0, <1>1, <1>4 DEF Write, At, MayLinger, SettingsTyped
  <2>2. /\ inForce' = [inForce EXCEPT ![call[p].on] =
                            {call[p].value} \cup ComingBut(p, call[p].on)]
        /\ setting' = [setting EXCEPT ![call[p].on] = call[p].value]
    BY <1>4 DEF Write
  <2>3. ComingBut(p, call[p].on) \subseteq Int
    <3>1. \A m \in late' : m.value \in Int
      BY <2>1 DEF Command
    <3>2. \A q \in Procs : At(q, "write") => call[q].value \in Int
      BY <1>1 DEF At
    <3>3. \A q \in Procs \ {p} : At(q, "write")' => call'[q].value \in Int
      BY <1>0, <1>4, <3>2 DEF Write, Tell, At
    <3> QED  BY <3>1, <3>2, <3>3 DEF ComingBut
  <2> QED  BY <1>0, <2>1, <2>2, <2>3 DEF SettingsTyped
<1>5. ASSUME NEW p \in Procs, StoreFails(p) PROVE SettingsTyped'
  <2>1. late' \subseteq Command
    BY <1>0, <1>1, <1>5 DEF StoreFails, At, MayLinger, SettingsTyped
  <2> QED  BY <1>0, <1>5, <2>1 DEF StoreFails, SettingsTyped
<1>6. ASSUME NEW p \in Procs,
             IsWhitelisted(p) \/ GetLimit(p) \/ IncrementAndCount(p)
             \/ IncrementFailure(p) \/ ResetFailure(p)
      PROVE  SettingsTyped'
  BY <1>0, <1>6 DEF IsWhitelisted, GetLimit, IncrementAndCount, IncrementFailure,
                    ResetFailure, SettingsTyped
<1>7. ASSUME NEW m \in late, LateCommand(m) \/ LostCommand(m)
      PROVE  SettingsTyped'
  BY <1>0, <1>7 DEF LateCommand, LostCommand, SettingsTyped, Command
<1>8. ASSUME NEW x \in Settings, Expire(x) PROVE SettingsTyped'
  BY <1>0, <1>8, ComingTyped DEF Expire, SettingsTyped
<1>9. CASE RedisRestart
  BY <1>9, <1>0, ComingTyped DEF RedisRestart, SettingsTyped
<1>10. CASE Restart
  <2>1. PICK W \in SUBSET {p \in Procs : At(p, "write")} :
            late' = late \cup {CommandOf(p) : p \in W}
    BY <1>10 DEF Restart
  <2>2. \A p \in W : CommandOf(p) \in Command
    BY <1>1 DEF At
  <2> QED  BY <1>0, <1>10, <2>1, <2>2 DEF Restart, SettingsTyped
<1>11. CASE Environment \/ Tick \/ UNCHANGED vars
  BY <1>0, <1>11 DEF Environment, Tick, vars, SettingsTyped
<1> QED  BY <1>2, <1>3, <1>4, <1>5, <1>6, <1>7, <1>8, <1>9, <1>10, <1>11
            DEF Next, Step

LEMMA TypeNext == TypeOK /\ Configured /\ [Next]_vars => TypeOK' /\ Configured'
<1> SUFFICES ASSUME TypeOK, Configured, [Next]_vars PROVE TypeOK' /\ Configured'
  OBVIOUS
<1>1. trouble' \in BOOLEAN
  BY TypeParts
     DEF Next, Request, CheckRateLimit, UpdateWhitelist, SetLimit, Begin, Step,
         IsCircuitBreakerOpen, IsWhitelisted, GetLimit, IncrementAndCount, Write,
         StoreFails, IncrementFailure, ResetFailure, LateCommand, LostCommand,
         Expire, RedisRestart, Environment, Restart, Tick, vars
<1> QED  BY <1>1, BreakerTyped, CallsTyped, SettingsStep, TypeParts
            DEF BreakerOK, SettingsTyped, TypeOK, Calls

LEMMA TypeInit == Init => TypeOK /\ Configured
<1> SUFFICES ASSUME Init PROVE TypeOK /\ Configured
  OBVIOUS
<1>1. BreakerOK
  <2>1. circuitBreaker \in BOOLEAN
    BY Zenon DEF Init, B!Init
  <2>2. failureCount = 0 /\ age = ResetTimeout + 1
    BY DEF Init, B!Init, B!LongAgo
  <2> QED  BY <2>1, <2>2, ServiceAssumption DEF BreakerOK
<1>2. SettingsTyped
  BY DEF Init, SettingsTyped
<1>3. call \in [Procs -> Calls] /\ trouble \in BOOLEAN
  BY DEF Init, Calls
<1>4. Configured
  BY DEF Init, Idle, Configured
<1> QED  BY <1>1, <1>2, <1>3, <1>4, TypeParts

-----------------------------------------------------------------------------
(***************************************************************************)
(* Agreement.                                                              *)
(***************************************************************************)

LEMMA ComingIs ==
    ASSUME NEW x, NEW v
    PROVE  v \in Coming(x) <=>
              \/ \E m \in late : m.on = x /\ m.value = v
              \/ \E q \in Procs : /\ call[q].at = "write"
                                  /\ call[q].on = x /\ call[q].value = v
BY DEF Coming, At

LEMMA ComingIsAfter ==
    ASSUME NEW x, NEW v
    PROVE  v \in Coming(x)' <=>
              \/ \E m \in late' : m.on = x /\ m.value = v
              \/ \E q \in Procs : /\ call'[q].at = "write"
                                  /\ call'[q].on = x /\ call'[q].value = v
BY DEF Coming, At

\* A step that sends no new change leaves no more changes to come.
LEMMA NoNewChange ==
    ASSUME \A m \in late' : \/ m \in late
                            \/ \E q \in Procs : call[q].at = "write" /\ m = CommandOf(q),
           \A q \in Procs : call'[q].at = "write" => call'[q] = call[q]
    PROVE  \A x : Coming(x)' \subseteq Coming(x)
<1> SUFFICES ASSUME NEW x, NEW v, v \in Coming(x)' PROVE v \in Coming(x)
  OBVIOUS
<1>1. ASSUME NEW m \in late', m.on = x, m.value = v PROVE v \in Coming(x)
  <2>1. CASE m \in late
    BY <1>1, <2>1, ComingIs
  <2>2. ASSUME NEW q \in Procs, call[q].at = "write", m = CommandOf(q)
        PROVE  v \in Coming(x)
    <3>1. call[q].on = x /\ call[q].value = v
      BY <1>1, <2>2 DEF CommandOf
    <3> QED  BY <2>2, <3>1, ComingIs
  <2> QED  BY <2>1, <2>2
<1>2. CASE \E q \in Procs : /\ call'[q].at = "write"
                            /\ call'[q].on = x /\ call'[q].value = v
  BY <1>2, ComingIs
<1> QED  BY <1>1, <1>2, ComingIsAfter

LEMMA StaysAgreed ==
    ASSUME Agreement, \A x : Coming(x)' \subseteq Coming(x),
           setting' = setting, inForce' = inForce
    PROVE  Agreement'
BY DEF Agreement

LEMMA AgreementNext ==
    ASSUME TypeOK, Agreement, [Next]_vars
    PROVE  Agreement'
<1>0. SettingsTyped /\ call \in [Procs -> Calls]
  BY TypeParts
<1>1. ASSUME NEW p \in Procs, NEW c, call' = [call EXCEPT ![p] = c],
             c.at = "write" => c = call[p]
      PROVE  \A q \in Procs : call'[q].at = "write" => call'[q] = call[q]
  BY <1>0, <1>1
<1>2. \A how \in {"ok", "failed"} : [op |-> "report", at |-> how].at # "write"
  OBVIOUS
<1>3. Idle.at # "write"
  BY DEF Idle
<1>4. ASSUME NEW p \in Procs, Request(p) PROVE Agreement'
  <2>1. PICK c : Begin(p, c) /\ c.at = "breaker"
    <3>1. CASE CheckRateLimit(p)
      BY <3>1 DEF CheckRateLimit
    <3>2. CASE UpdateWhitelist(p)
      BY <3>2 DEF UpdateWhitelist
    <3>3. CASE SetLimit(p)
      BY <3>3 DEF SetLimit
    <3> QED  BY <1>4, <3>1, <3>2, <3>3 DEF Request
  <2>2. \A x : Coming(x)' \subseteq Coming(x)
    BY <1>1, <2>1, NoNewChange DEF Begin
  <2> QED  BY <2>1, <2>2, StaysAgreed DEF Begin
<1>5. ASSUME NEW p \in Procs, IsCircuitBreakerOpen(p) PROVE Agreement'
  <2>1. setting' = setting /\ late' = late /\ call[p].at = "breaker"
    BY <1>5 DEF IsCircuitBreakerOpen, At
  <2>2. CASE Answer(p) /\ inForce' = inForce
    <3>1. \A x : Coming(x)' \subseteq Coming(x)
      BY <1>1, <1>3, <2>1, <2>2, NoNewChange DEF Answer
    <3> QED  BY <2>1, <2>2, <3>1, StaysAgreed
  <2>3. CASE GoOn(p) /\ call[p].op = "check"
    <3>1. [call[p] EXCEPT !.at = "whitelist"].at # "write"
      BY <1>0, <2>1, <2>3, CallKinds DEF Check
    <3>2. \A x : Coming(x)' \subseteq Coming(x)
      BY <1>1, <2>1, <2>3, <3>1, NoNewChange DEF GoOn, Go
    <3> QED  BY <2>1, <2>3, <3>2, StaysAgreed DEF GoOn
  <2>4. CASE GoOn(p) /\ call[p].op # "check"
    <3> DEFINE on == call[p].on
               value == call[p].value
    <3>1. call[p] \in Change
      BY <1>0, <2>1, <2>4, CallKinds
    <3>2. call' = [call EXCEPT ![p] = [call[p] EXCEPT !.at = "write"]]
      BY <2>4 DEF GoOn, Go
    <3>3. call'[p].on = on /\ call'[p].value = value
      BY <1>0, <3>1, <3>2 DEF Change
    <3>4. \A q \in Procs : q # p => call'[q] = call[q]
      BY <1>0, <3>2
    <3>5. inForce' = [inForce EXCEPT ![on] = @ \cup {value}]
      BY <2>4 DEF GoOn
    <3> SUFFICES ASSUME NEW x \in Settings
                 PROVE  setting'[x] \in inForce'[x] /\ Coming(x)' \subseteq inForce'[x]
      BY DEF Agreement
    <3>6. inForce[x] \subseteq inForce'[x] /\ (x = on => value \in inForce'[x])
      BY <1>0, <3>5 DEF SettingsTyped
    <3>7. setting[x] \in inForce[x] /\ Coming(x) \subseteq inForce[x]
      BY DEF Agreement
    <3>8. ASSUME NEW v, v \in Coming(x)' PROVE v \in inForce'[x]
      <4>1. CASE \E m \in late' : m.on = x /\ m.value = v
        BY <2>1, <3>6, <3>7, <4>1, ComingIs
      <4>2. ASSUME NEW q \in Procs, call'[q].at = "write", call'[q].on = x,
                   call'[q].value = v
            PROVE  v \in inForce'[x]
        <5>1. CASE q = p
          BY <3>3, <3>6, <4>2, <5>1
        <5>2. CASE q # p
          BY <3>4, <3>6, <3>7, <4>2, <5>2, ComingIs
        <5> QED  BY <5>1, <5>2
      <4> QED  BY <3>8, <4>1, <4>2, ComingIsAfter
    <3> QED  BY <2>1, <3>6, <3>7, <3>8
  <2> QED  BY <1>5, <2>2, <2>3, <2>4 DEF IsCircuitBreakerOpen
<1>6. ASSUME NEW p \in Procs,
             IsWhitelisted(p) \/ GetLimit(p) \/ IncrementAndCount(p)
             \/ IncrementFailure(p) \/ ResetFailure(p)
      PROVE  Agreement'
  <2>1. setting' = setting /\ late' = late /\ inForce' = inForce
    BY <1>6 DEF IsWhitelisted, GetLimit, IncrementAndCount, IncrementFailure,
                ResetFailure
  <2>2. \A q \in Procs : call'[q].at = "write" => call'[q] = call[q]
    <3>1. CASE Answer(p)
      BY <1>1, <1>3, <3>1 DEF Answer
    <3>2. CASE Tell(p, "ok")
      BY <1>1, <1>2, <3>2 DEF Tell
    <3>3. CASE IsWhitelisted(p) /\ Go(p, "limit")
      <4>1. call[p] \in Check
        BY <1>0, <3>3, CallKinds DEF IsWhitelisted, At
      <4>2. [call[p] EXCEPT !.at = "limit"].at # "write"
        BY <4>1 DEF Check
      <4> QED  BY <1>1, <3>3, <4>2 DEF Go
    <3>4. CASE GetLimit(p)
      <4> DEFINE n == Effective(setting[LimitOf(call[p].key, call[p].window)],
                                call[p].window)
      <4>1. call[p] \in Check
        BY <1>0, <3>4, CallKinds DEF GetLimit, At
      <4>2. call' = [call EXCEPT ![p] = [call[p] EXCEPT !.at = "count", !.limit = n]]
        BY <3>4 DEF GetLimit
      <4> HIDE DEF n
      <4>3. [call[p] EXCEPT !.at = "count", !.limit = n].at # "write"
        BY <4>1 DEF Check
      <4> QED  BY <1>1, <4>2, <4>3
    <3> QED  BY <1>6, <3>1, <3>2, <3>3, <3>4
                DEF IsWhitelisted, IncrementAndCount, IncrementFailure, ResetFailure
  <2> QED  BY <2>1, <2>2, NoNewChange, StaysAgreed
<1>7. ASSUME NEW p \in Procs, Write(p) PROVE Agreement'
  <2> DEFINE on == call[p].on
             value == call[p].value
  <2>1. call[p] \in Change /\ call[p].at = "write"
    BY <1>0, <1>7, CallKinds DEF Write, At
  <2>2. /\ setting' = [setting EXCEPT ![on] = value]
        /\ inForce' = [inForce EXCEPT ![on] = {value} \cup ComingBut(p, on)]
        /\ \A m \in late' : m \in late \/ m = CommandOf(p)
        /\ call' = [call EXCEPT ![p] = [op |-> "report", at |-> "ok"]]
    BY <1>7 DEF Write, MayLinger, Tell
  <2>3. \A x : Coming(x)' \subseteq Coming(x)
    BY <1>1, <1>2, <2>1, <2>2, NoNewChange
  <2>4. on \in Settings
    BY <2>1 DEF Change
  <2> SUFFICES ASSUME NEW x \in Settings
               PROVE  setting'[x] \in inForce'[x] /\ Coming(x)' \subseteq inForce'[x]
    BY DEF Agreement
  <2>5. CASE x # on
    BY <1>0, <2>2, <2>3, <2>5 DEF Agreement, SettingsTyped
  <2>6. CASE x = on
    <3>1. inForce'[x] = {value} \cup ComingBut(p, on)
      BY <1>0, <2>2, <2>4, <2>6 DEF SettingsTyped
    <3>2. setting'[x] = value
      BY <1>0, <2>2, <2>6 DEF SettingsTyped
    <3>3. call'[p].at # "write" /\ \A q \in Procs : q # p => call'[q] = call[q]
      BY <1>0, <2>2
    <3>4. ASSUME NEW v, v \in Coming(x)' PROVE v \in ComingBut(p, on)
      <4>1. CASE \E m \in late' : m.on = x /\ m.value = v
        BY <2>6, <4>1 DEF ComingBut
      <4>2. CASE \E q \in Procs : /\ call'[q].at = "write"
                                  /\ call'[q].on = x /\ call'[q].value = v
        BY <2>6, <3>3, <4>2 DEF ComingBut, At
      <4> QED  BY <3>4, <4>1, <4>2, ComingIsAfter
    <3> QED  BY <3>1, <3>2, <3>4
  <2> QED  BY <2>5, <2>6
<1>8. ASSUME NEW p \in Procs, StoreFails(p) PROVE Agreement'
  <2>1. /\ setting' = setting /\ inForce' = inForce
        /\ call' = [call EXCEPT ![p] = [op |-> "report", at |-> "failed"]]
        /\ \A m \in late' : m \in late \/ (call[p].at = "write" /\ m = CommandOf(p))
    BY <1>8 DEF StoreFails, MayLinger, Tell, At
  <2>2. \A x : Coming(x)' \subseteq Coming(x)
    BY <1>1, <1>2, <2>1, NoNewChange
  <2> QED  BY <2>1, <2>2, StaysAgreed
<1>9. ASSUME NEW m \in late, LateCommand(m) PROVE Agreement'
  <2>1. setting' = [setting EXCEPT ![m.on] = m.value]
        /\ inForce' = inForce /\ call' = call /\ late' \subseteq late
    BY <1>9 DEF LateCommand
  <2>2. \A x : Coming(x)' \subseteq Coming(x)
    BY <2>1, NoNewChange
  <2> SUFFICES ASSUME NEW x \in Settings
               PROVE  setting'[x] \in inForce'[x] /\ Coming(x)' \subseteq inForce'[x]
    BY DEF Agreement
  <2>3. setting[x] \in inForce[x] /\ Coming(x) \subseteq inForce[x]
    BY DEF Agreement
  <2>4. m.on = x => m.value \in inForce[x]
    BY <2>3, ComingIs
  <2> QED  BY <1>0, <2>1, <2>2, <2>3, <2>4 DEF SettingsTyped
<1>10. ASSUME NEW m \in late, LostCommand(m) PROVE Agreement'
  BY <1>10, NoNewChange, StaysAgreed DEF LostCommand
<1>11. ASSUME NEW x \in Settings, Expire(x) PROVE Agreement'
  <2>1. \A y : Coming(y)' \subseteq Coming(y)
    BY <1>11, NoNewChange DEF Expire
  <2>2. ASSUME NEW y \in Settings
        PROVE  setting'[y] \in inForce'[y] /\ Coming(y)' \subseteq inForce'[y]
    <3>1. setting[y] \in inForce[y] /\ Coming(y) \subseteq inForce[y]
      BY DEF Agreement
    <3>2. CASE y = x
      <4>1. setting'[y] = 0 /\ inForce'[y] = {0} \cup Coming(y)
        BY <1>0, <1>11, <3>2 DEF Expire, SettingsTyped
      <4> QED  BY <2>1, <4>1
    <3>3. CASE y # x
      <4>1. setting'[y] = setting[y] /\ inForce'[y] = inForce[y]
        BY <1>0, <1>11, <3>3 DEF Expire, SettingsTyped
      <4> QED  BY <2>1, <3>1, <4>1
    <3> QED  BY <3>2, <3>3
  <2> QED  BY <2>2 DEF Agreement
<1>12. CASE RedisRestart
  <2>1. \A y : Coming(y)' \subseteq Coming(y)
    BY <1>12, NoNewChange DEF RedisRestart
  <2>2. \A y \in Settings : setting'[y] = 0 /\ inForce'[y] = {0} \cup Coming(y)
    BY <1>12 DEF RedisRestart
  <2> QED  BY <2>1, <2>2 DEF Agreement
<1>13. CASE Restart
  <2>1. PICK W \in SUBSET {p \in Procs : At(p, "write")} :
            late' = late \cup {CommandOf(p) : p \in W}
    BY <1>13 DEF Restart
  <2>2. call' = [p \in Procs |-> Idle] /\ setting' = setting /\ inForce' = inForce
    BY <1>13 DEF Restart
  <2>3. \A x : Coming(x)' \subseteq Coming(x)
    BY <1>3, <2>1, <2>2, NoNewChange DEF At
  <2> QED  BY <2>2, <2>3, StaysAgreed
<1>14. CASE Environment \/ Tick \/ UNCHANGED vars
  BY <1>14, NoNewChange, StaysAgreed DEF Environment, Tick, vars
<1> QED  BY <1>4, <1>5, <1>6, <1>7, <1>8, <1>9, <1>10, <1>11, <1>12, <1>13,
            <1>14 DEF Next, Step

\* After an answered change, a setting has that value or one whose command was
\* under way then or came later, and only checks of configured windows are
\* counted.
THEOREM ServiceInvariant == Spec => []ServiceInv
<1>1. Init => Agreement
  BY ServiceAssumption DEF Init, Agreement, Coming, At, Idle
<1>2. Init => ServiceInv
  BY <1>1, TypeInit DEF ServiceInv
<1>3. ServiceInv /\ [Next]_vars => ServiceInv'
  BY TypeNext, AgreementNext DEF ServiceInv
<1> QED  BY <1>2, <1>3, PTL DEF Spec

\* Every check acts on a setting that may be in force, both ways: it passes
\* nobody who cannot be whitelisted and counts nobody who must be.
THEOREM ObeyedChecks == Spec => ChecksObey
<1>1. ASSUME ServiceInv, NEW p \in Procs, NEW x, IsWhitelisted(p),
             call[p].window \in DOMAIN DefaultLimits, x = Whitelist(call[p].key)
      PROVE  IF call'[p] = Idle THEN inForce[x] # {0} ELSE 0 \in inForce[x]
  <2>0. call \in [Procs -> Calls] /\ Agreement
    BY <1>1, TypeParts DEF ServiceInv
  <2>1. call[p] \in Check
    BY <2>0, <1>1, CallKinds DEF IsWhitelisted, At
  <2>2. setting[x] \in inForce[x]
    BY <2>0, <2>1, <1>1, SettingsOK DEF Agreement, Check
  <2>3. CASE setting[x] # 0
    <3>1. call'[p] = Idle
      BY <2>0, <2>3, <1>1 DEF IsWhitelisted, Answer
    <3> QED  BY <2>2, <2>3, <3>1
  <2>4. CASE setting[x] = 0
    <3>1. call' = [call EXCEPT ![p] = [call[p] EXCEPT !.at = "limit"]]
      BY <2>4, <1>1 DEF IsWhitelisted, Go
    <3>2. call'[p].at = "limit" /\ Idle.at = "idle"
      BY <2>0, <2>1, <3>1 DEF Check, Idle
    <3>3. call'[p] # Idle
      BY <3>2
    <3> QED  BY <2>2, <2>4, <3>3
  <2> QED  BY <2>3, <2>4
<1>2. ASSUME ServiceInv, NEW p \in Procs, GetLimit(p)
      PROVE  \E v \in inForce[LimitOf(call[p].key, call[p].window)] :
                 call'[p].limit = Effective(v, call[p].window)
  <2> DEFINE x == LimitOf(call[p].key, call[p].window)
  <2>0. call \in [Procs -> Calls] /\ Agreement
    BY <1>2, TypeParts DEF ServiceInv
  <2>1. call[p] \in Check
    BY <2>0, <1>2, CallKinds DEF GetLimit, At
  <2>2. setting[x] \in inForce[x]
    BY <2>0, <2>1, SettingsOK DEF Agreement, Check
  <2>3. PICK n : n = Effective(setting[x], call[p].window)
    OBVIOUS
  <2>4. call' = [call EXCEPT ![p] = [call[p] EXCEPT !.at = "count", !.limit = n]]
    BY <1>2, <2>3 DEF GetLimit
  <2>5. call'[p].limit = n
    BY <2>0, <2>1, <2>4 DEF Check
  <2> QED  BY <2>2, <2>3, <2>5
<1>3. ServiceInv /\ [Next]_vars =>
      [\A p \in Procs :
          /\ IsWhitelisted(p) /\ call[p].window \in DOMAIN DefaultLimits =>
                LET x == Whitelist(call[p].key)
                IN  IF call'[p] = Idle THEN inForce[x] # {0} ELSE 0 \in inForce[x]
          /\ GetLimit(p) =>
                \E v \in inForce[LimitOf(call[p].key, call[p].window)] :
                    call'[p].limit = Effective(v, call[p].window)]_vars
  BY <1>1, <1>2
<1> QED  BY <1>3, ServiceInvariant, PTL DEF Spec, ChecksObey

-----------------------------------------------------------------------------
(***************************************************************************)
(* The bound on failures.                                                  *)
(***************************************************************************)

LEMMA UnderWayOK ==
    /\ IsFiniteSet(UnderWay) /\ UnderWay \subseteq Procs
    /\ Cardinality(UnderWay) \in Nat /\ Cardinality(Procs) \in Nat
    /\ Cardinality(Procs) > 0
    /\ Cardinality(UnderWay) <= Cardinality(Procs)
<1>1. UnderWay \subseteq Procs
  BY DEF UnderWay
<1>2. Cardinality(Procs) # 0
  BY ServiceAssumption, FS_EmptySet
<1> QED  BY <1>1, <1>2, ServiceAssumption, FS_Subset, FS_CardinalityType

\* A goroutine that reports is under way no more.
LEMMA Reported ==
    ASSUME TypeOK, NEW p \in Procs, p \in UnderWay, Answer(p)
    PROVE  Cardinality(UnderWay') = Cardinality(UnderWay) - 1
<1>1. UnderWay' = UnderWay \ {p}
  BY TypeParts DEF UnderWay, Answer, Idle
<1> QED  BY <1>1, UnderWayOK, FS_RemoveElement

LEMMA Fewer ==
    ASSUME UnderWay' \subseteq UnderWay
    PROVE  Cardinality(UnderWay') <= Cardinality(UnderWay) /\ Cardinality(UnderWay') \in Nat
BY UnderWayOK, FS_Subset, FS_CardinalityType

LEMMA SameBound ==
    ASSUME TypeOK, OutageBound, UnderWay' \subseteq UnderWay,
           circuitBreaker' = circuitBreaker, failureCount' = failureCount
    PROVE  OutageBound'
<1>1. failureCount \in Nat
  BY TypeParts DEF BreakerOK
<1>2. /\ Cardinality(UnderWay') \in Nat /\ Cardinality(UnderWay) \in Nat
      /\ Cardinality(UnderWay') <= Cardinality(UnderWay)
      /\ Cardinality(Procs) \in Nat
  BY Fewer, UnderWayOK
<1> QED  BY <1>1, <1>2, ServiceAssumption DEF OutageBound

LEMMA BoundNext ==
    ASSUME TypeOK, OutageBound, [Next]_vars
    PROVE  OutageBound'
<1>0. /\ BreakerOK /\ SettingsTyped /\ call \in [Procs -> Calls]
      /\ failureCount \in Nat /\ FailureThreshold \in Nat \ {0}
  BY TypeParts, ServiceAssumption DEF BreakerOK
<1>1. ASSUME NEW p \in Procs, NEW c, call' = [call EXCEPT ![p] = c],
             c.at \in {"idle", "breaker"} \/ p \in UnderWay
      PROVE  UnderWay' \subseteq UnderWay
  BY <1>0, <1>1 DEF UnderWay
<1>2. Idle.at = "idle"
  BY DEF Idle
<1>3. ASSUME NEW p \in Procs, Request(p) PROVE OutageBound'
  <2>1. PICK c : Begin(p, c) /\ c.at = "breaker"
    <3>1. CASE CheckRateLimit(p)
      BY <3>1 DEF CheckRateLimit
    <3>2. CASE UpdateWhitelist(p)
      BY <3>2 DEF UpdateWhitelist
    <3>3. CASE SetLimit(p)
      BY <3>3 DEF SetLimit
    <3> QED  BY <1>3, <3>1, <3>2, <3>3 DEF Request
  <2> QED  BY <1>1, <2>1, SameBound DEF Begin, breaker
<1>4. ASSUME NEW p \in Procs, IsCircuitBreakerOpen(p) PROVE OutageBound'
  <2>1. CASE Answer(p) /\ UNCHANGED breaker
    BY <1>1, <1>2, <2>1, SameBound DEF Answer, breaker
  <2>2. CASE ~circuitBreaker /\ UNCHANGED breaker
    BY <2>2 DEF OutageBound, breaker
  <2>3. CASE B!Close
    BY <1>0, <2>3 DEF OutageBound, B!Close
  <2> QED  BY <1>4, <2>1, <2>2, <2>3 DEF IsCircuitBreakerOpen
<1>5. ASSUME NEW p \in Procs,
             IsWhitelisted(p) \/ GetLimit(p) \/ IncrementAndCount(p)
             \/ Write(p) \/ StoreFails(p)
      PROVE  OutageBound'
  <2>1. p \in UnderWay
    BY <1>5 DEF IsWhitelisted, GetLimit, IncrementAndCount, Write, StoreFails,
                UnderWay, At
  <2>2. UNCHANGED breaker
    BY <1>5 DEF IsWhitelisted, GetLimit, IncrementAndCount, Write, StoreFails
  <2>3. \A q \in Procs : q # p => call'[q] = call[q]
    BY <1>0, <1>5 DEF IsWhitelisted, GetLimit, IncrementAndCount, Write,
                      StoreFails, Answer, Go, Tell
  <2>4. UnderWay' \subseteq UnderWay
    BY <2>1, <2>3 DEF UnderWay
  <2> QED  BY <2>2, <2>4, SameBound DEF breaker
<1>6. ASSUME NEW p \in Procs, IncrementFailure(p) PROVE OutageBound'
  <2>1. /\ Cardinality(UnderWay') = Cardinality(UnderWay) - 1
        /\ Cardinality(UnderWay) \in Nat
        /\ Cardinality(UnderWay) <= Cardinality(Procs) /\ Cardinality(Procs) \in Nat
    BY <1>6, Reported, UnderWayOK DEF IncrementFailure, UnderWay, At
  <2>2. failureCount' = failureCount + 1
        /\ circuitBreaker' = (circuitBreaker \/ failureCount' >= FailureThreshold)
    BY <1>6 DEF IncrementFailure, B!Failure
  <2>3. CASE circuitBreaker
    <3>1. circuitBreaker'
      BY <2>2, <2>3
    <3> QED  BY <1>0, <2>1, <2>2, <2>3, <3>1 DEF OutageBound
  <2>4. CASE ~circuitBreaker
    <3>1. circuitBreaker' <=> failureCount' >= FailureThreshold
      BY <2>2, <2>4
    <3> QED  BY <1>0, <2>1, <2>2, <2>4, <3>1 DEF OutageBound
  <2> QED  BY <2>3, <2>4
<1>7. ASSUME NEW p \in Procs, ResetFailure(p) PROVE OutageBound'
  <2>1. /\ Cardinality(UnderWay') = Cardinality(UnderWay) - 1
        /\ Cardinality(UnderWay) \in Nat
        /\ Cardinality(UnderWay) <= Cardinality(Procs) /\ Cardinality(Procs) \in Nat
    BY <1>7, Reported, UnderWayOK DEF ResetFailure, UnderWay, At
  <2>2. failureCount' = 0
    BY <1>7 DEF ResetFailure, B!Success
  <2> QED  BY <1>0, <2>1, <2>2 DEF OutageBound
<1>8. CASE Restart
  BY <1>0, <1>8 DEF Restart, B!Restart, OutageBound
<1>9. ASSUME UNCHANGED <<call, circuitBreaker, failureCount>> PROVE OutageBound'
  BY <1>9, SameBound DEF UnderWay
<1>10. ASSUME NEW m \in late, LateCommand(m) \/ LostCommand(m) PROVE OutageBound'
  BY <1>9, <1>10 DEF LateCommand, LostCommand, breaker
<1>11. ASSUME NEW x \in Settings, Expire(x) PROVE OutageBound'
  BY <1>9, <1>11 DEF Expire, breaker
<1>12. CASE RedisRestart \/ Environment \/ Tick \/ UNCHANGED vars
  BY <1>9, <1>12 DEF RedisRestart, Environment, Tick, B!Tick, vars, breaker
<1> QED  BY <1>3, <1>4, <1>5, <1>6, <1>7, <1>8, <1>10, <1>11, <1>12
            DEF Next, Step

\* However many requests run concurrently, an outage of Redis makes fewer than
\* the threshold plus their number fail before the breaker shields the rest.
THEOREM BoundedOutage == Spec => []OutageBound
<1>1. Init => OutageBound
  <2> SUFFICES ASSUME Init PROVE OutageBound
    OBVIOUS
  <2>1. ~circuitBreaker /\ failureCount = 0
    BY DEF Init, B!Init
  <2> QED  BY <2>1, ServiceAssumption DEF OutageBound
<1>2. ServiceInv => TypeOK
  BY DEF ServiceInv
<1> QED  BY <1>1, <1>2, BoundNext, ServiceInvariant, PTL DEF Spec
=============================================================================
