# Verification of the distributed rate limiter

TLA+ models of the Go service in `rate-limiter/`, TLC configurations that check
them on small instances, and TLAPS proofs of their main invariants for every
value of the constants. `PROJECT.json` lists components, runs, mutants, the map
from definitions to source lines, findings, hazards and theorems.

    tlc -config redis_storage.cfg MCRedisStorage      # any run: cfg and MC module
    tlapm RedisStorageProofs.tla                      # any *Proofs module

Source paths below are relative to `src/rate-limiter/`.

## 1. Inventory

| part | state it keeps | operations | what is hard | what makes it correct |
|---|---|---|---|---|
| Sliding window counter, `internal/storage/redis.go` | one sorted set per key in Redis, its expiry, the nodes' script caches | IncrementAndCount, BatchIncrementAndCount, FlushAll | the clock is the client's; scripts are delayed, reordered, retried, abandoned; keys expire; nodes restart; all windows of a key share a set | nobody gets more hits admitted than the limit in the shortest window; nobody is denied for hits outside the window; a call counts at most once |
| Settings, same file | whitelist and limit keys with 24 h to live | IsWhitelisted, UpdateWhitelist, GetLimit, SetLimit | commands that are executed after the caller gave up, or twice | a setting has the value of its last answered change or of one whose command was under way at that answer or begun since, until its expiry or a loss of data |
| Service, `internal/service/ratelimiter.go` | none of its own but the breaker | CheckRateLimit, UpdateWhitelist, SetLimit | three Redis calls per check, interleaved with changes and failures | checks obey the settings that may be in force; outages cost a bounded number of failed requests |
| Breaker in the service, same file | circuitBreaker, failureCount, lastFailure, an RWMutex | isCircuitBreakerOpen, incrementFailure, resetFailure | the reset branch releases the read lock twice; late reports after opening | critical sections are atomic; it opens at the threshold, closes only after resetTimeout and always closes |
| Three-state breaker, `internal/circuitbreaker` | state, generation, counts, expiry | Execute, State, Reset, ForceOpen, ForceClose | writes under the read lock; requests that outlive a generation; panics; the half-open quota | stale requests have no effect; half-open is never stuck; an open breaker stays open for its timeout |
| Cache, `internal/cache` | entries, a pool of results; hit counters | Get, Set, Delete, Clear, janitor; the same over two levels | results return to the pool while others read them; asynchronous deletes; refills that race with deletes | a key's value changes only by a Set of that key, and what is gone stays gone; a Get returns what was set for its key; the size bound |
| Handlers, `internal/handler` | none | HTTP and gRPC entry points, rate limiting and validation middlewares | deadlines of 100 and 500 ms, fail-open, changes made after an error was answered, narrowing conversions | a command that Redis executes after the answer undoes no more than its own setting, and is sent only for those who may send it |
| API keys, `internal/auth` | the key table | AddKey, GetKey, DeleteKey, six middlewares | GetKey writes back a copy it read before it gave up the lock; the role in a request's context ages | a change of a key stays; settings change only for keys that may change them |
| Fallbacks, `internal/fallback` | limits, priorities, schedules | Handle, SetLimit, SetPriority, SetSchedule | little: one lock each | - |
| Health, `internal/health` | registered checkers, an RWMutex | Check, Readiness, RegisterServiceChecker | foreign code runs under the read lock, in the map's random order, and may panic | a report is of the registered checkers and as bad as the worst of them; calls return |
| Process, `cmd/server/main.go` | two servers, a channel for signals | start, shutdown, log.Fatalf | three goroutines and signals in any order; requests under way at the end; all memory is lost | a clean end cuts nobody off; a signal ends the process unless an RPC never ends |
| Metrics, logging, tracing, configuration | counters, values | - | - | - |

How they interact: a handler calls the service with a context that carries its
deadline; the service asks its breaker, then calls the storage up to three
times, then reports to the breaker; the storage sends commands through go-redis
to Redis, which other processes of the same service use too. The three-state
breaker, the cache, the fallbacks and the API keys are libraries that
`cmd/server/main.go` does not connect to the request path (and which does not
compile against them at this commit), and neither is the health checker, as
`/health` has a handler of its own: each is verified as a component of its own.
In the cache, a multi-level cache calls a local one and any other `Cache`.

## 2. Plan

1. Done: `WindowCounter` (abstract), `RedisStorage` (detailed, shown to
implement it), `Breaker` (abstract), `ServiceBreaker` (detailed, shown to
implement it), `RateLimiterService` (composes the atomic breaker with the
settings), `CircuitBreaker`, `ValueCache` and `SharedCache` (abstract),
`LocalCache` (detailed, shown to implement the latter), `MultiLevelCache`
(composes two abstract caches), `APIKeyStore`, `Server` (composes the keys with
the handlers and middlewares) and `Process` (composes the requests of `Server`
with the start and the end of their process), `Health`; a proof module for each
detailed one (`RedisStorageProofs` also has the proofs about the counter,
`ServerProofs` those about `Process`). Every safety and action property of a
passing run is a theorem.
2. Stronger forms of what is proved now, such as those that section 5 lists for
   the storage.
3. `Server` over `RateLimiterService`, whose answers it now takes as given.
4. A finding each for a `DeleteKey` that a GetKey undoes, for a Delete that a
   refill of the multi-level cache undoes, for the lock that a panicking checker
   loses, and for the result that is both cached and returned. Until then these
   are exempted by name in the properties (`Settled`, `crossed`, `lost`) and listed
   as hazards with what the code does.

The abstract specifications worth stating are the counter, the atomic breaker
and the cache. Runs are kept few: each asks one question, and an abstract
module has no run of its own, since the detailed one's run checks it through the
refinement.

## 3. The modules and the code

### WindowCounter and RedisStorage

`RedisStorage` models the script as one atomic step (`Record`), because Redis
executes it so, and everything around it as steps of its own. A sorted set is a
set of ticks, since the script uses `now` as member and score.

* `Begin` is a client up to the send: it reads its own clock (`ClientNow`,
  which may be `MaxLead` ahead of Redis or `MaxLag` behind), once per call and
  for all keys of a batch.
* `Reply` is one command executed and answered; the call returns with the last
  answer. In cluster mode a batch has commands on several nodes, which is why
  its keys are answered one by one; `Home` places keys on nodes.
* `Retry` and `Fail` end an attempt without an answer. Its commands become
  `late` and may still be executed (`LateCommand`), in any order, as long as
  they are not older than `MaxLag`. A retry repeats the same arguments.
* `Script` distinguishes the pipeline, where `Script.Run` can queue only the
  EVALSHA and a node without the script answers NOSCRIPT, from the single call,
  which falls back to EVAL.
* Keys expire by Redis's clock (`Live`, `Expiry`); `Restart` empties a node and
  its script cache; `FlushAll` empties all nodes and keeps the script caches.

`log` and `answers` are history: the ticks recorded at a key and the answers
given about it since its node last lost its data. They are the variables of
`WindowCounter`, which says what a caller may rely on and nothing about Redis:
an answer is at least the number of logged ticks within one *shortest* window
of the latest, and at most the number of logged ticks since the start of the
caller's window. The lower bound cannot be stronger, as the sorted set is shared
by all windows and a call over the shortest one trims it.

Assumed of the constants: `MaxLag + MaxLead <= Grace`, the script's extra second
must cover skew and delay. Without it the key may expire while it counts.

### Breaker and ServiceBreaker

`ServiceBreaker` is `isCircuitBreakerOpen`, `incrementFailure` and
`resetFailure` at the granularity of lock operations, each critical section in
two steps, so that a second goroutine inside would show. `sync.RWMutex` is
external and modelled with the counters of Go's implementation (readerCount,
readerWait, the two semaphores), because the reset branch uses the mutex outside
its contract: it releases its read lock by hand, takes the write lock, and the
deferred `RUnlock` releases a read lock once more, after the deferred `Unlock`.
What that does depends on the moment:

* with no reader counted, the runtime ends the process (`dead`), which
  `Restart` then starts anew;
* with another reader inside or waiting, that reader's lock is taken (`surplus`
  counts these), a writer may come in beside it, and a wake-up may be lost.

A reader that is inside with a writer may read half of `lastFailure` (`Torn`):
the comparison then goes either way. The plain `circuitBreaker` flag is read as
whatever the interleaving of two-step sections offers.

`Breaker` is the same breaker with atomic reports, no locks and no goroutines.
The refinement (`Atomicity`) counts a section whose second step is still to come
as done. It holds even after the lock was broken, since sections still exclude
each other: only readers get in beside them.

### RateLimiterService

The three operations call by call on top of `Breaker`. That abstraction is
justified by `Atomicity`; the fatal end of the reset branch is covered by
`Restart`, which may happen at any time. A check reads the whitelist, then its
custom limit, then counts; what the count is belongs to `RedisStorage`, so it
decides nothing here. A change sends SET or DEL; its attempts may linger
(`late`), be executed twice or after the caller has its error, or get lost.
`Expire` ends a setting after its 24 hours, `RedisRestart` loses all of them.
`trouble` holds while calls may fail: Redis does not answer, or clients give up,
which the code cannot tell from a failure of Redis.

`inForce` is history: the values that a setting may have. A change adds its
value when it begins, and one that is answered with success leaves its own value
and those of the commands still on their way (`Coming`), its own retries and
changes by others included; expiry and a loss of data remove the setting. So an
older command that was under way at the answer may still undo an answered change
(the code does that, and `Agreement` says so), but one answered before, or no
longer under way, may not.

### CircuitBreaker

`beforeRequest` and `afterRequest` are atomic under the write lock; `State` runs
`currentState` under the read lock, so it is split into looking (`SeeExpiry`),
setState's own look (`CheckState`) and writing (`HalfOpen`, `Renew`), and
several goroutines may be between these. The generation is only ever compared
with the current one, so a request is "current" or "stale". `Requests` and
`ConsecutiveSuccesses` saturate at `MaxRequests`, which only the half-open state
reads and never exceeds. A panic skips `afterRequest`. Time does not advance
while a goroutine is inside `State`.

### ValueCache, SharedCache and LocalCache

`ValueCache` has what may happen to the values of a cache: a key gets one (`Set`),
or values go (`Forget`). `SharedCache` says when it may, and is what goroutines
that share a cache may rely on: a value comes only from a call of Set that is
under way (`asked`), once, to the key and with the value of that call, in the
place of what was there (`Take`); values may go at any time (`Lose`) and none comes
back. `LocalCache` has what the code has in addition: result objects with an
identity and a content, the pool, entries with expiry and stamp, and the janitor.

* Get is `Look` under the read lock, then, without any lock, `MissExpired`, which
  starts a goroutine that deletes the key (`Purge`, at any later time), or
  `BeginCopy` and `EndCopy`: an object is taken from the pool, or a new one, and
  overwritten with the entry's result. Between the two its content is `Torn`.
* Set is `Stamp`, before the lock, and `Store`, which evicts one of the `Oldest`
  first when the cache is full (`MustEvict`). The loop of the eviction ends at an
  oldest entry whatever the order of the map; the empty string (`NoKey`) is never
  evicted.
* `Delete`, `Clear` and the janitor's `DeleteExpired` put results into the pool
  (`PutAndRemove`); an eviction and an overwriting Set do not, as in the code.
* `Drop` is the garbage collector, which empties a `sync.Pool` as it likes. An
  object that nothing refers to (`Unused`) is as good as a new one.

Each Set has an instant of its own: Go's clock has nanoseconds and the stamp is
taken at least one earlier than the next critical section reads the clock.
Callers of Set give their object away, as the callers of the interface must.
`pooled` and `val` are history: whether the object of the entry that a Get found
has been pooled since, and what that entry was made with.

The refinement maps what a Get would find, in the memory of the results
themselves (`Found`), to the abstract cache, and the calls between `Stamp` and
`Store` to those under way (`Asked`): a pooled object that was still in an entry
would change a key's value without a Set, a store that kept the old value or went
to another key would not be its call's `Take`, and a late delete that left an
older value behind would bring one back. That a late delete (`Purge`) may remove a
value that was set anew is allowed: the code does it, and a cache may forget.

### MultiLevelCache

Every operation calls the local layer, then the remote one; `Refill` is the
local Set of a Get that found its value in the remote layer. Both layers are
instances of `ValueCache`'s operators, as `SharedCache` allows them: values come from
the Sets and refills under way, and the layers forget whenever they like, by expiry,
eviction or a delete that a Get has started; calls fail, and the remote layer
may have been changed all the same; `OtherProcess` changes the remote layer.

`settled` is history: the value that a change of the key left behind when it
returned without an error. A change is `crossed` when another change of one of
its keys, or a refill, is under way at the same time; then the order in the two
layers may differ and nothing is settled. This is not for the model's
convenience: a refill that crosses a Delete does put the deleted value back into
the local layer, and two Sets may leave the layers with different values.
Results are values here, not objects: that a refilled object is also returned to
the caller (`cache.go:273`) is outside the model.

### APIKeyStore and Server

`APIKeyStore` is the table of keys. GetKey is two steps, `Find` under the read
lock and `WriteBack` under the write lock, with the copy in the caller's hands
in between. `settled` is history: the entry that the last change of a key left
for good, or `Unknown` when a GetKey with another entry was under way, because
that GetKey then undoes the change, a deletion included.

`Server` lets a request run through the functions of its route one by one, as
gin does (`Continue` is `c.Next`, `Answer` any of the replies that end it). The
route's chain is a constant: `internal/handler/http.go` puts only
`rateLimitMiddleware` before the protected resource, the README at the top of
the repository presents an `X-API-Key` to the other routes, and
`cmd/server/main.go` installs none of the middlewares of `internal/auth`. The
theorems hold for any chains. Basic auth and CORS may end a request, the
security headers never do. A handler of changes asks the service, and with it
Redis, for the change (`Send`) and answers at any time after that, with success
or an error, which the deadline of 500 ms alone can cause. The command is
Redis's from then on (`commands`): it is executed or lost (`Change`) before the
answer, after it, or after the process has ended. What the setting is then
belongs to `RateLimiterService`. `seen` is history: the roles that a request's
key has had, while active, since the request arrived; a command remembers
whether one of them sufficed when it was sent, and whether its chain asked for
that.

An input is what a handler tells apart: the key, whether the required fields are
there and valid, and the number or flag to be set. JSON binding's `required`
refuses zero values, so `whitelisted: false` is refused over HTTP and accepted
over gRPC.

### Process

`Process` extends `Server` by `cmd/server/main.go`: `main` is where main is
(`Boot`, `Notify`, `Shutdown`, `Drained` or `FindBusy`, `TimeOut`,
`GracefulStop`), `http` and `grpc` are the two servers, each started by a
goroutine of its own (`ListenAndServe`, `Serve`), and `quit` is the channel of
length 1. A request arrives only at a server that takes it up (`Accepts`), and
which routes are RPCs is a constant. The libraries are external: Shutdown closes
the listener, and over connections that are open requests may come until it has
found none in use (`closing`); GracefulStop announces the end, and its clients may
send RPCs until they have heard of it (`GoAway`).

`Exit` is every end of the process, by return, `log.Fatalf` on any goroutine or a
kill, and `Server`'s `Restart` is part of it: the keys are the configured ones
again and no request is left. Two orders deserve a look. A Shutdown that comes
before ListenAndServe, and a GracefulStop that comes before Serve, are not lost:
the first makes ListenAndServe return at once, the second makes Serve return an
error that is fatal. And an HTTP request that outlasts the 5 s ends the process
by `log.Fatalf` before GracefulStop is called, RPCs under way included; that is
the end `forced`, about which `NothingCutOff` promises nothing.

### Health

`Health` has Check and Readiness as one chain of steps: `Ping`, `RLock`, one
`RunChecker` for each registered name in any order, and `RUnlock`, or `NotReady`,
the early way out of Readiness. `sync.RWMutex` is modelled by its documented
behaviour: `Announce` is a writer's Lock, from which on readers are `queued`, and
`Write` waits until `readers` is 0, writes, and lets the queue in. `degraded`
stands for any status other than the two that the code knows.

`Panic` is a checker that panics, which whoever called recovers from: Readiness
gives its lock back by its defer, Check does not, and the lock is `lost`. Inquiries
go on unhindered then, but the next registration waits for ever, and every
inquiry behind it: that is how the whole model can stop, and why the run does not
check for deadlock; `CallsReturn` says that nothing else can. A checker that calls
the HealthChecker itself is left out, as the repository has none.

## 4. The runs

| run | instance | what it shows |
|---|---|---|
| `redis_storage` | 2 clients, 1 key, windows 2 and 3, skew and lag 1, 1 retry, clock from 1 to 6, 2 calls | invariant, bound, no overcounting, one tick per call however often it ran, the refinement, and that every call returns |
| `service_breaker` | 2 goroutines, threshold 2, timeout 1 | sections stay atomic, closing needs quiet, the lock is sound and lets requests through until the reset branch; an open breaker closes |
| `rate_limiter` | 2 goroutines, a configured and an unknown window, limit 1, threshold 1, failing calls, 1 late command | settings change by commands on their way only and are obeyed in both directions, an outage is bounded, enforcement resumes |
| `circuit_breaker` | 3 goroutines, quota 2, 1 tolerated failure, timeout and interval 1, 1 operation by hand | quota, timers, generations; it recovers; one that lost its quota to panics is left by hand only |
| `local_cache` | 2 goroutines, 2 keys, 3 objects, 2 values, size 1, 4 instants, 1 delete under way per key | objects are never shared, what is cached is what was set, and changes by calls of Set under way only; the size; the janitor |
| `multi_level` | 3 goroutines, 2 keys, 2 values | uncrossed changes leave the layers agreed |
| `process` | 2 goroutines, 1 key, 2 roles, 4 routes and 3 RPCs, any number of signals, crashes and restarts | the key table and the requests fit; commands behind a role are sent for keys with the role only, whenever they are executed; a clean end has answered everybody; a signal ends the process unless an RPC never ends |
| `health` | 2 goroutines that inquire, 2 that register, 2 names, 2 checkers, 1 panic | locks are accounted for; the status is the worst of what was found; reports are of the registered checkers; calls return |

Four runs show where the code does not do what the repository says:

| run | shows | said in |
|---|---|---|
| `redis_same_millisecond` | the second of two calls in a millisecond is not counted | `test/integration/redis_test.go:298`, `:64` |
| `redis_two_windows` | more hits than the limit of the longer window are admitted | `README.md:9`, `:7` |
| `service_breaker_fatal` | the first request after resetTimeout ends the process | `internal/service/ratelimiter_test.go:230` |
| `local_cache_copies` | a Get returns a result that was pooled and overwritten before it was copied | comment at `internal/cache/cache.go:87` |

### Bounds

* Clocks. `redis_storage` has windows of 2 and 3 ticks and a clock from 1 to 6:
  enough for a tick to leave both windows, for a key that was counted over the
  window of 2 at instant 1 to expire (its life ends with 1 + 2 + 2 = 5, so a
  script at 6 finds it gone), and for two clients to disagree by 2. A key
  counted over the window of 3 outlives the run; its expiry is left to the
  proofs. A call is repeated once, and either attempt may run late, after the
  other one or not at all.
* Two calls about a key can be reordered across a trim and an expiry, and two
  clients suffice to interleave, as a client's abandoned commands are actors of
  their own. Batches over several keys and nodes are left to the proofs, which
  are about any number of both.
* Two goroutines at the breaker: while the second holds a read lock or waits for
  one, the double RUnlock of the first takes it, and the first may then come back
  as a writer beside it.
  What more goroutines could do to the safety properties is left to the proofs,
  which are about any number of them. With the reset branch taken, a reader may
  lose its wake-up and wait for ever, which is why `RequestsReturn` speaks of
  the time before it.
* `rate_limiter` checks liveness with all the environment's freedom, so it has
  the least threshold, timeout and limits for which the breaker opens, closes and
  opens again; the theorems are about any.
* `local_cache` needs an object each for an entry, for the Get that is reading it
  and for the one that overwrites it; two keys with size 1, so that every store
  of the other key evicts; four instants for an entry to be set, to expire, to be
  set again and to be found by the janitor of the first expiry.
* `multi_level` needs two goroutines that change and one that refills, and two
  keys for Clear to differ from Delete.
* `process` needs a request that holds a copy of the key and one that arrives
  after the change of it, and an HTTP request beside an RPC when the shutdown
  begins; keys do not affect one another, and one role that may and one that may
  not tell the middleware's outcomes apart. Its chains have every middleware and
  handler once; its environment, signals and restarts included, is not bounded.
* `health` needs a reader that is in its loop, a writer that waits for it and a
  reader that queues behind the writer; two names tell the orders apart, and a
  name that is registered anew tells a replaced checker from the first.
* Ages and expiries saturate one past the timeout, so these models need no last
  instant. `MaxForced`, `MaxCalls`, `MaxClock`, `MaxLate`, `MaxPurges` and
  `MaxPanics` are bounds of the models and marked as such.
* Symmetry is used in runs without liveness properties only.

### Fairness

* `RedisStorage`: an attempt ends, since go-redis has dial, read and write
  timeouts. Redis need not answer and time need not pass.
* `ServiceBreaker`: the scheduler runs every goroutine; `sync.Mutex` (starvation
  mode) and the semaphores serve every waiter, hence strong fairness for `Lock`
  and `WakeReader`; time passes; a dead process is started again, as the
  deployment manifests say. That requests keep coming is an assumption about
  the callers, and needed: only a request closes an open breaker.
* `RateLimiterService` and `CircuitBreaker`: the same, without the locks; in the
  latter writers are served although readers come and go, as Go's RWMutex does.
* `Process`: main's goroutine runs, Shutdown has its deadline of 5 s, gRPC takes
  clients to have heard of the end after a limited time. Handlers may take for
  ever: the service's calls of Redis have deadlines, but its wait for the breaker's
  lock has none, and after the reset branch was taken a goroutine may wait there
  for ever. HTTP handlers that do are cut off by Shutdown's deadline; for RPCs
  GracefulStop has none, so `SignalEnds` supposes that there are always moments
  without an RPC under way. Commands, signals and clients come as they like.
* `Health`: goroutines run, pings have a deadline of 1 s, and checkers return or
  panic; the mutex that orders the writers of an RWMutex serves each of them.
* The properties of the caches are safety properties and need none.
* No fairness is assumed of outages, retries, late commands, operators, signals,
  crashes or restarts.

## 5. The proofs

Each holds for every value of the constants that satisfies the named ASSUMEs.

* `RedisStorageProofs`, of the counter as the storage instantiates it: its bound
  is proved with its types alone, since an admitted hit has at most `limit` recent
  ticks in the log, and any other hit only ages the ticks that were admitted
  before (`HitBound`). `CounterBounded`, `CounterNeverOvercounts`.
* `RedisStorageProofs`, of the storage: `StorageInv` is inductive: the set
  retains every recent tick (`Retained`), the key outlives its ticks by the
  grace (`Fresh`), nothing lies too far ahead of the clock (`NotAhead`), Redis
  holds recorded ticks only. With it every script is a `Hit`, every loss a
  `Forget`, and everything else a stutter (`Implements`); the two bounds are
  carried over from the counter. `SingleWindow` shows that the bound which
  `redis_two_windows` refutes holds of a storage whose callers all use one
  window: sharing the sorted set is all that breaks it. `ExactAnswers` shows
  what becomes of the two bounds when a call's tick is the latest of its key:
  the reply is exact. `OneTick` counts the ticks that are recorded at a key or
  may still be, by a call under way or a late attempt of one (`TicksOf`): there
  are never more than calls begun (`CallsInv`), as only the begin of a call adds
  one and a retry repeats it.
* `ServiceBreakerProofs`: `BreakerInv` (one writer, the timer of an open breaker
  counts from the last recorded failure, the count fits) needs nothing of the
  readers, so it holds through the broken lock as well; from it
  `ClosesAfterQuiet` and `Atomicity`. `LocksFit` relates all five counters of
  the mutex to the places of the goroutines and is what makes
  `SafeUntilReset` inductive; `LockAccounting` holds without that condition.
  With `WakeUpsFit` (under a writer no more wake-ups are under way than readers
  wait) it also excludes deadlock: `NoDeadlock` is the part of `RequestsReturn`
  that needs no fairness.
* `RateLimiterServiceProofs`: `Agreement` is inductive together with the types
  and `Configured`; `ChecksObey` follows, and `OutageBound` by counting the
  requests under way at each report.
* `CircuitBreakerProofs`: `CircuitInv` relates the half-open quota to the
  requests under way, the successes and the panics; `NeverStuck`, `OpenLasts` and
  `OnlyByHand` follow. The last one includes `MaxRequests = 0`, which no run has:
  such a breaker is exhausted as soon as it is half-open.
* `HealthProofs`: `HealthInv` is inductive together with `CallsFit`, which ties a
  call's report to what it has still to ask: while the loop runs no registration
  can come, so what has been asked and what is left are the registered checkers,
  and the status is the worst so far. `WorstStatus` and `AskedTheRegistered`
  follow, and `NoDeadlock`, the part of `CallsReturn` that needs no fairness: some
  goroutine meets a guard of its `Step` (`CanMove`, written out because ENABLED is
  out of the prover's reach) unless a lost lock is waited for.
* `LocalCacheProofs`: `CacheInv` is inductive: because no object is at two of
  the places pool, entry, entry to be stored, caller's result (`Apart`), nobody
  is given an entry's object to overwrite (`Intact`). `FaithfulGets` adds that a
  Get's source stays out of everybody's hands until it is pooled (`GetInv`).
  With `CacheInv`, a `Stamp` is an `Ask` of the abstract cache, a `Store` the
  `Take` of that call, and every other step loses values at most (`Implements`).
  `SizeBounded` needs that stamps are older than the clock and that a finite set
  of entries has an oldest one.
* `MultiLevelCacheProofs`: `MultiLevelInv` is inductive: that an uncrossed change
  is alone with its keys (`Uncrossed`) and has done its work in the local layer
  (`HalfDone`) makes what it leaves behind agreed (`Agreement`).
* `ServerProofs`: `ServerInv` is inductive: a copy in GetKey's hands is an entry
  that its request has seen (`CopiesFit`), what is in the table has been seen
  (`UpToDate`), so is the role in a context and the one that RoleAuth let pass
  (`ContextFits`); `Settled` needs that all copies of a settled key are the
  settled entry. `OnlyAuthorised` follows, as only `Send` adds a command
  (`NoNewCommand`). `ProcessImplementsServer` carries these over to `Process`:
  each of its steps is one of `Server` or none. `ProcessInv` is inductive with
  `TypeOK`: where main is determines in which state the servers are, a server
  that has not been started or is closed has no request, and only an arrival
  adds one (`NoneBegins`); `CleanEnd` follows, as GracefulStop finds both kinds
  answered.

Only model-checked: the liveness properties (`CallsReturn` of the storage and of
the health checker, `BreakerRecovers`, `RequestsReturn`, `EnforcementResumes`,
`Recovers`, `SignalEnds`), since fairness is out of the prover's reach.

## 6. Not modelled

* `internal/fallback`. It is connected to nothing and does not compile at this
  commit: an unused variable at `fallback.go:51`, and int64 values for the int
  fields of `service.LimitResult`. Each strategy is a map under one lock and a
  choice between two answers; none keeps a count, so there is no limit to hold.
* Metrics, logs and traces decide nothing. The configuration is read once, with
  defaults and without checks; its values are the CONSTANTS, and what the modules
  assume of them (such as a positive size of the cache) nothing in `config.go`
  ensures.
* Of the storage and the service: the join of key and identifier, the arithmetic
  of `Remaining`, `Ping`, `Close`, the constructors' connection test. Redis's own
  replication and failover are part of `Restart` in so far as they lose data; a
  failover that loses part of it is not modelled.
* Of the three-state breaker: the totals of its counts, its callback, which runs
  with the mutex held and must not call the breaker, and its gauge.
* Of the caches: the hit counters, and calls with a context that is done, which
  change nothing. A missing layer is one that forgets at once, as `ValueCache` may.
* Of the handlers: the contents of answers and headers, the identity of clients,
  the narrowing of limits to 32 bits in gRPC answers, `healthCheck`, which always
  says healthy, and the keys' LastUsed, which nothing reads. The manifests in
  `deployment/` probe `/health/live` and `/health/ready`, which no code serves.
* Of the health checker: the statistics, `Liveness`, which is always true, and
  checkers that call it back.
