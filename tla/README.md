# Verification of sluice

TLA+ models, model-checking runs and machine-checked proofs for sluice, the
L4/L7 proxy of this repository (`cmd/`, `internal/`). Every part of it that keeps
state or decides something is modelled, from its Go source. The TLC runs check the
models on small instances; the `*Proofs` modules prove the safety of thirteen of them
for every number of goroutines, connections, requests, services and backends, and
for every configuration.

Contents: [the system](#the-system) · [modules and code](#modules-and-code) · [runs](#runs) · [proofs](#proofs) ·
[disagreements](#disagreements-with-the-documentation) ·
[not modelled](#what-is-not-modelled) · [running it](#running-it).

## The system

A client connection enters through the L4 listener (`proxy/tcp.go`) or a request
through the L7 listener (`proxy/http.go`). Both ask the shared load balancer for a
backend, pass that backend's circuit breaker, talk to the backend and report the
result to the breaker. The health checker marks `Backend` objects unhealthy; the
balancers skip those. The registry and the config file each change the list of
backends while traffic flows.

| Part | Source | State | Operations that change it |
|---|---|---|---|
| Circuit breaker | `circuitbreaker/circuitbreaker.go` | state, failures, successes, half-open slots, two instants, totals | `Allow`, `RecordResult`, `Reset` |
| Backend, pool | `backend/backend.go` | idle channel, `returned`, `halfClosed`, ages, `activeConns`, metrics, health | `Dial`, `get`, `put`, `Close`, `CloseWrite`, `SetHealthy` |
| L4 proxy | `proxy/tcp.go` | running, stopped, listener, ready, done, two wait groups, counters, breakers | `Start`, accept loop, `handleConnection`, `Stop` |
| L7 proxy | `proxy/http.go` | active requests, breakers, transport | `ServeHTTP` |
| Load balancers | `loadbalancer/loadbalancer.go` | list, counter, weights | `Next`, `AddBackend`, `RemoveBackend`, `UpdateBackends` |
| Health checker | `health/checker.go` | list, success and failure counts, running, done | `Start`, `Stop`, `checkOne`, `UpdateBackends` |
| Rate limiter | `ratelimiter/ratelimiter.go` | tokens, last fill, rate | `AllowN`, `SetRate`, `Reset` |
| Service registry | `registry/registry.go` | services, subscribers, context | `Register`, `Deregister`, `Heartbeat`, cleanup, `Subscribe`, `Unsubscribe`, `Stop` |
| Registry HTTP interface | `registry/handler.go` | none | one registry call per request |
| Discovery, hot reload | `cmd/sluice/main.go` | the two lists in use, current config, debounce timer | `watchRegistryChanges`, `reloadBackends`, file events |
| Start-up, shutdown, admin | `cmd/sluice/main.go` | servers, contexts | `main`, `startAdminServer` |
| Middleware | `middleware/` | none of its own | wraps `ServeHTTP` |
| Metrics | `metrics/` | counters per backend, histogram | `Record*`, `Reset` |
| Router, splitter | `router/`, `splitter/` | routes; targets and a counter | `AddRoute`, `Match`; `Select`, `Route`, `UpdateTargets` |
| Auth, config, observability | `auth/`, `config/`, `observability/` | none | parsing, validation, formatting |

Where it is hard, and what correctness means there:

- **Late results.** A request admitted by the breaker reports whenever it ends, by
  then perhaps in another state or another half-open period. No slot may stay
  taken for ever, and the open period must not move.
- **Two closers.** `Close` and `CloseWrite` of one backend connection run in
  different goroutines. A half-closed connection must not be pooled, no
  connection may have two users, no socket may leak.
- **Shutdown against accept.** `Stop` may be called by several goroutines, before
  `Start`, and while a connection is being accepted. It must return, and a `Stop`
  that reports a complete shutdown must be right.
- **Notification without the lock.** The registry notifies subscribers that come
  and go meanwhile, over channels that may be full or about to be closed.
- **Two writers of one list.** The registry watcher and the config reload update
  the load balancer and the health checker, without a common lock.
- **A list that changes under its readers.** A health round reads the list without
  a lock, counters belong to addresses and the health flag to objects.
- **Panics and early returns.** A request may leave `ServeHTTP` early, by an error or by
  a panic. The breaker, the gauges and the client must each be told once.
- **Proportions.** Weighted balancing and splitting must be exact although the list,
  the health flags and a wrapping counter change below them.
- **Time.** Breaker timeouts and windows, connection lifetimes, service TTLs, token
  refills, and the one deadline that all of shutdown shares.

| Module | Models | Uses | Run | Proofs |
|---|---|---|---|---|
| `CircuitBreaker` | circuit breaker | implements `BreakerGate` | `l4` | `CircuitBreakerProofs` |
| `BreakerGate` | what a breaker promises | | through the two that use it | |
| `ConnPool` | backend connections, pool | | `backends` | `ConnPoolProofs` |
| `TCPProxy` | L4 proxy | | `l4` | `TCPProxyProofs` |
| `HTTPProxy` | L7 proxy behind its middlewares | `BreakerGate`, `TokenBudget` | `blocks` | `HTTPProxyProofs` |
| `Router` | routing | | `blocks` | `HTTPProxyProofs` |
| `Registry` | service registry | | `registry_safety` | `RegistryProofs` |
| `Discovery` | watcher, hot reload | extends and implements `Registry` | `backends` | `RegistryProofs` |
| `RegistryAPI` | HTTP interface of the registry | | `blocks` | `BackendProofs` |
| `LoadBalancer` | three balancers | | `blocks` | `BackendProofs`, in part |
| `HealthChecker` | health checker | | `health_rounds` | `HealthCheckerProofs` |
| `TokenBucket` | rate limiter | implements `TokenBudget` | `blocks` | `ProcessProofs` |
| `TokenBudget` | what a rate limiter promises | | through the two that use it | |
| `Access` | JWT, CORS, auth middlewares | | `blocks` | `ProcessProofs` |
| `Lifecycle` | configuration, start-up, shutdown | | `blocks` | `ProcessProofs` |
| `Splitter` | traffic splitting | | `blocks` | |
| `Collector` | metrics and their export | | `blocks` | |

## Modules and code

All modules follow these conventions. A step is one critical section, channel
operation, wait-group or atomic operation of the code, or several if no other
goroutine can see the difference. An instant `t` is represented by the age
`now - t`, which grows with `Tick` and saturates just past the largest value it is
compared with, so that time never ends. Variables under "History" are read only by
properties. An operator introduced by "Mutant of X" is a plausible fault of `X`,
which at least one property must expose; no specification uses it.

**CircuitBreaker.** `Admit(c)` and `Reject(c)` are the two outcomes of `Allow`;
`AllowClosed`, `AllowPromoted` and `AllowProbe` are its branches for a closed, an
expired open and a half-open circuit. `RecordSuccess(c)` and `RecordFailure(c)` are
`RecordResult`, with one disjunct per branch; `ReleaseProbe` is `releaseProbe`.
`cb.mu` covers every body, so each call is one step. `pending` holds the callers
between `Allow` and `RecordResult`, as in `tcp.go:407-427` and
`http.go:166-201`. The total counters wrap at `CounterMod`. `up` is the
environment: while it holds, requests succeed. `round`, `sinceOpen` and `recent`
are history.

**ConnPool.** A user goes through `Dial`: `get` from the channel (`GetHit`,
`GetDrop`, `GetMiss`), `Reuse`, or `DialOK`/`DialFail`, then `Checkout`; and through
`Close`: its critical section (`Close`), the counter (`CloseRelease`) and the end
(`CloseReturn`, `CloseDrop`, `CloseSocket`). Its copy goroutine calls `CloseWrite`
at any time after the checkout. Whether the peer of an idle connection is still
there (`usable`) is a free choice. Each checkout is closed once, as
all callers do, so the early return of a second `Close` (`backend.go:474-477`) is never
taken. In the behaviours with `halfCloseFirst` the users
are those of the L4 proxy, where `Close` comes after both copies have ended.

**TCPProxy.** The accept loop, a handler per client with its two copy
directions, and any number of `Stop` calls. A breaker is named by the handler that
created it, which makes double creation visible. The answers of the rate limiter,
the balancer, the breaker and the dialler are free, so that every early return of
`handleConnection` is taken.

**Registry.** The events of one change are `pending` while its author, `holder`,
keeps `r.mu`; `Notify` sends one of them. `Subscribe`, `Receive` and the two steps
of `Unsubscribe` fall between. `Stop` is `StopCancel`, the cleanup goroutine's
`CleanerExit`, and `StopClose`. A service is its address and TTL. A negative TTL,
which the HTTP interface accepts, is not distinguished from the shortest one.

**Discovery** extends `Registry`: its steps are those of `Registry` with the watcher
as the subscriber, plus the steps of the watcher's loop body (`WatchBuild`,
`WatchUpdateLB`, `WatchUpdateChecker`) and of a reload (`ReloadLoad`, `ReloadSwap`,
`ReloadUpdateLB`, `ReloadUpdateChecker`). A list of backends is the identity of its
objects, the configuration and the services it was built from. `behind` and
`raced` are history: they record that the watcher could not know of a change, and
that two updates overlapped.

**HTTPProxy** is the chain that `buildHTTPServer` assembles. A request is a goroutine
of `net/http`: `Arrive` is Tracing and Metrics on the way in, `RateLimit` the limiter,
`Pick` the balancer, `Lookup` and `Create` the double-checked `getCircuitBreaker`,
then `Allow`, `Forward` (round trip and result), `Copy` and `Record` (Metrics on
the way out). `Panic` unwinds a handler at the two places where it runs code of
others. The breaker is `BreakerGate` and the bucket `TokenBudget`, from which the L4
listener draws as well (`L4Accept`).

**BreakerGate** and **TokenBudget** are abstract. The gate says who is let through,
who still owes a result and when the mode may change; the budget is a bucket
filled in every unit of time. `CircuitBreaker.ImplementsGate` and
`TokenBucket.ImplementsBudget` are refinements by `INSTANCE ... WITH`: the gate's
`wait` is the age of the last trip, the budget's `level` is what a refill would
find now (`Filled`).

**HealthChecker.** `Start`, rounds (`ReadList`, `BeginRound`, `CheckOne` in its two
steps, `EndRound`), `Tick`, `Exit`, `Stop`, and `UpdateBackends` at any moment. The
unlocked read of the list in `checkAll` is a data race on the words of a slice: a
round may get the array of one list and the length of another, and a length past
the end of the array ends the process.

**TokenBucket** has one action per method, each under its mutex. **LoadBalancer** splits
`Next` into its reads of health and of connection counts, so that flags change while
a caller scans; `current` are the running weights of smooth weighted round robin.
**Splitter** and **Router** have one action per method; `Match` is compared with the most
specific route defined without any order. **Collector** adds to its atomics one by
one while a scrape loads them one by one, and builds the exported histogram through
the label text and its parsing as `prometheus.go` does; a latency is a number of
fractions of a millisecond, which `RecordLatency` truncates. A `Reset` that overlaps
another call (`raced`) ends the behaviour. **Access** follows one token
through time and the checks of `Validate` in their order. **RegistryAPI** is `ServeHTTP`
with its five handlers, paths and IDs as sequences of segments; a generated ID may be
one that exists. **Lifecycle** is `Load`, `applyDefaults` with each setting that has a
default (`Fields`), `Validate` and `main` up to the exit code, with servers, handlers,
the checker's loop, the registry's watcher and the signal beside it. The watcher's
panic (`WatcherPanics`) ends the process with Go's exit code 2.

## Runs

`PROJECT.json` lists the runs with their properties; the comment above each
property says what it means and which code it is about. "States" are distinct
states found by TLC.

| Run | Shows | Bounds | States |
|---|---|---|---|
| `l4`, breaker | slots are never orphaned; totals balance; the circuit opens only on a burst and closes for good once the backend recovers; it implements `BreakerGate`, which stays open for its timeout from the trip | 3 callers, thresholds 2 and 3, one probe, timeout and window 2 ticks | 126,016 in all |
| `l4`, proxy | complete drain, exact counters, shared breakers, no misuse of wait groups, every `Stop` returns | 2 clients, 2 `Stop` calls, 1 backend | |
| `registry_safety` | no send on a closed channel, complete events, no expired service stays for ever | 3 services, limit 2, explicit and default TTL, 1 subscriber, buffer 1 | 465,496 |
| `backends`, pool | clean pool, an active counter that follows use, each drop counted once, no leaked socket, with `CloseWrite` racing `Close`; used as the L4 proxy uses it, the pool is never filled | 2 users, 2 connections, pool of 1, 3 dials | 785,189 in all |
| `backends`, discovery | at rest the load balancer has the registered services, and the checker the same list, with the stated exceptions | 1 service, buffer 1, 2 configurations, 1 reload | |
| `health_rounds` | ejection only on consecutive failures, nothing after `Stop`, dead backends ejected, live ones taken back, `Stop` returns | 2 addresses, lists of up to 2, one list update, thresholds 2 and 1 | 204,840 |
| `blocks` | the nine remaining components, see below | in `MCBlocks` | 253,607 |
| `breaker_probe_cap`, `pool_dial_count`, `discovery_reverts`, `discovery_objects`, `discovery_shutdown`, `health_reinstate`, `l7_gauge` | a counterexample to what the documentation says | | |

`l4`, `backends` and `blocks` are sums, not products: `focus` names the component a
behaviour is about, and the others stay in one initial state. Their modules extend the
components that have theorems, so that the runs and the theorems speak of the same definitions;
`MCBlocks` instantiates `Splitter` and `Collector`. The properties of `blocks`, by
component:

- rate limiter: `ImplementsBudget`;
- L7 path: `ReportsOwed` (the breaker waits for exactly the requests at the backend
  and those lost there in a panic), `CountersSound` (nothing but a panic parts the
  counters from the requests), `WithinBudget` (both listeners together);
- balancers: `NoFalseAlarm` (`Next` fails only if no backend stayed healthy), and
  `FairChoice`, which joins `EvenTurns`, `WeightConserved`, `WeightBounded`,
  `CycleExact` and `LeastChosen`;
- splitters: `SplitByWeight` (`DrawnByWeight`, `DealtExactly`, `SelectionsCounted`);
  router: `BestRoute`;
- metrics: `MetricsTrue` (`NothingLost`, `HistogramTrue`, and `PartsWithinWhole` for a
  scrape between two increments);
- access: `ValidIffGenuine`, and `MiddlewareSound` (`ClaimsVouchedFor`, `CORSWellFormed`);
- registry interface: `EndpointsTrue` (`StoredIsUsable`, `AddressedByURL`);
- life cycle: `LoadedIsServable`, `ShutdownClean` (`DrainsInOrder`, `CleanExit`),
  `Terminates`.

Where a property joins several, its parts are defined in the component's module, and
`PROJECT.json` lists mutants that break different parts. `HealthChecker` likewise
joins `Detects` and `Recovers` in `FollowsBackends`. Type invariants, and six safety
properties of which the proofs leave nothing to a run (`TimeoutFromTrip`,
`NoTruncation`, `ChannelsClosedOnce`, `Capacity`, `OneHolder`, `OneStatus`), are proved and not
run.

Why the bounds are enough. Every fault looked for needs at most two parties at one
object: two probes and one late caller; two users, or a closer and a writer, of
one connection; an accept and a `Stop`, or two `Stop` calls; one cleanup of two
services against one new service; one reload against the watcher; a round against
one update of the list; two requests that both find no breaker; two recorders
against one scrape. Thresholds of 2 separate "one" from "several", a pool, buffer or
burst of 1 is full quickly, and TTLs and timeouts of 1 or 2 ticks are below, at and
past each comparison. The balancers' lists shrink, reorder and empty, and their
counter wraps away from a multiple of the list's length, as 2^64 does of 3.
`MaxDials`, `MaxUpdates`, `MaxChanges`, `MaxSelects`, `MaxPools`, `MaxAdds`,
`MaxRequests`, `MaxClock`, `MaxTicks` and `MaxInFlight` bound what is unbounded in
the program. Symmetry is used only in runs without liveness, over sets whose members
the specification does not tell apart. Deadlock is checked except where a behaviour
may end: the pool after its last dial, the proxy and the health checker once stopped,
and the components of `backends` and `blocks`. For the components with a `*Proofs` module the
theorems take over beyond these bounds.

Fairness.

- Breaker: the clock runs; callers keep asking, and are admitted when `Allow` admits;
  every admitted request ends and reports. The code does not guarantee the last
  part for a backend that neither answers nor closes; `Recovers` is about
  backends that do. Nothing is assumed of `Reject`, `Reset` or the backend's health
  before it stays up.
- L4 proxy: each goroutine that can run does, and a `Stop` context expires. The
  copies are not assumed to end: clients may stay for ever, and `Stop` must still return.
- Registry: the clock runs, and an author of a change sends its events. The cleanup
  goroutine is given strong fairness, because its ticker keeps firing and a writer
  waiting for `sync.RWMutex` is let in although other callers keep taking the lock.
- Health checker: goroutines run, checks end (each has a timeout), the ticker ticks,
  and the loop's `select` does not prefer the ticker to a closed `done` for ever,
  which Go's random choice gives (strong fairness of `Exit`).
- Life cycle: `main` runs where it can, and time passes. Requests and connections are
  not assumed to end.

## Proofs

TLAPS proves the following for all values of the constants allowed by the named
`ASSUME` of each module: finite sets of goroutines and connections, positive
thresholds and limits as the constructors ensure, and "none" values outside the sets
they extend. Two assumptions restrict what comes from outside. The `Origin` of a
request is never `*`, which is not an origin (`AccessAssumption`). Times, weights and
settings are numbers. A host is any sequence of parts between colons
(`RouterAssumption`), IPv6 addresses included. The proofs are inductive; the invariant of each module
is checked step by step, one lemma per action.

- **CircuitBreakerProofs** (`TypeCorrect`, `SlotsAccountedFor`, `TimeoutExact`,
  `OpensOnBurst`, `GateImplemented`, `NoResultLost`). The invariant adds
  `CountedInWindow`: while closed, each failure in the count is younger than the
  window. That is what makes the trip condition about failures of one window.
  `GateImplemented` maps every branch of `Allow` and `RecordResult` to a step of
  `BreakerGate` or to none. `NoResultLost` is arithmetic modulo the counter's width:
  a wrap on either side of the balance leaves it true.
- **ConnPoolProofs** (`TypeCorrect`, `PoolIsClean`, `ExclusiveUse`,
  `ActiveCountTracks`, `NoLeak`, `DropsCountedOnce`, `L4NeverPools`). `PoolClean` alone
  says nothing about the connection that is about to be pooled. `HolderView` ties
  `returned`, `halfClosed` and the socket to the program point of the user, in
  particular that the copy of `halfClosed` taken in `Close` stays right because
  `CloseWrite` respects `returned`. `LateWriters` covers a `CloseWrite` after the end.
  `FinFirst` is the order the L4 proxy keeps (`halfCloseFirst`), from which
  `L4NeverPools` follows: every connection is half-closed by the time it is returned.
  `ActiveCountTracks` rests on the exact count at each program point (`ActiveExact`),
  in which a dialling user does not count.
- **TCPProxyProofs** (`TypeCorrect`, `DrainIsComplete`, `CountersAlwaysExact`,
  `SharedBreaker`, `CopiesFinish`, `WaitGroupDiscipline`, `ChannelDiscipline`).
  `LoopPhase` says that there is one accept loop and how far it is, `StopPhase` what a
  `Stop` call past each wait may rely on, `BreakerPhase` which handlers have a breaker.
  Counters are handled by one lemma on moving a handler from one set of program
  points to another.
- **HTTPProxyProofs** (`TypeCorrect`, `BreakerSlotsReturned`, `FirstStatusStays`,
  `CountersAreSound`, `OneBudget`, `BestRouteFirst`). `NobodyEarly` says that no request is past a
  breaker that has not been made: creating it a second time would forget whom the
  first had admitted, which the second look under the write lock prevents.
  `StatusByStage` ties what was sent to the stage of the request. `Spent` is the
  bucket's balance, granted plus left against burst plus earned; the counters follow
  from the number of requests in a set of stages when one of them moves, with one more
  on the gauge for each panic (`CountersExact`). For the
  router, `RoutesOrdered` says that every earlier route of the list is more specific than
  every later one, or equally specific and older. Insertion before the first less
  specific route keeps that because `isMoreSpecific` compares ranks
  (`SpecificityOrder`); the first match is then the best one. What `matches` computes
  with the last colon of the host is shown to be what a reader of the route expects
  (`IsFor`, by `HostWithoutPort`), with one exception below.
- **ProcessProofs**, on the parts around the proxies.
  - Rate limiter (`TypeCorrect`, `LazyIsEager`). What a refill would find is the eager
    bucket's level; the cases that matter are `BucketTick`, where the age since the last
    fill may have saturated (`OneTick`), and `SetRate`, which must settle what the old
    rate earned.
  - Access (`GenuineTokensOnly`, `MiddlewareIsSound`). The checks of `Validate` in their
    order decide exactly what `Genuine` states at once, for every combination of defects.
    A response keeps its claims only while its token is genuine: `Advance` clears it.
  - Configuration (`ServesItsFile`). `Configured` says that what `main` goes on with was
    loaded from the file. `applyDefaults`, `Validate` and the fallbacks of `Build` then
    agree on weights and pool settings, and `SettingsKept` says of each setting that it is
    kept if given and filled in if it is in use.
  - Shutdown (`ShutsDownInOrder`). `Stages` says, for each place of `main`, which
    servers are untouched or down, and when the L4 listener and the watcher's channel may
    be closed. The order of shutdown and the meaning of the exit codes follow from it.
- **BackendProofs**, on who the backends are and which is next.
  - Registry interface (`EndpointsAreTrue`). `Registered` adds that the table is finite,
    on which the limit rests. The rest is a case split on the last segment of the path.
  - Balancers (`NoAlarmIsFalse`, `LeastIsChosen`). Neither is inductive. `CallsSound`
    says that a scan that has found nothing has passed no backend that was healthy all
    along. For round robin, which starts anywhere and wraps, `RoundCovers` shows that a
    full round reads every backend. `LeastSoFar` says that the candidate of a calm scan
    of least connections is the least loaded of the healthy backends read so far.
- **HealthCheckerProofs** (`TypeCorrect`, `StopIsFinal`, `EjectionsEarned`).
  `CountersEarned` says that a failure count never exceeds the failures seen in a row
  at that address, also when a late check recreates the counters of an address
  that left the list and came back. `Confined` keeps checks inside a round.
- **RegistryProofs** (`TypeCorrect`, `LimitKept`, `NoSendOnClosed`,
  `EventsAreComplete`, and on `Discovery` `DiscoveryTypes`, `ImplementsRegistry`,
  `WatcherKeepsUp`, `PairsStayTogether`). `EventsComplete` fails between a change and its notification;
  the invariant says that a subscriber lags behind by pending events only (`Lag`),
  that these tell the truth (`PendingTrue`) and that `r.mu` is kept while there are
  any (`LockHeld`). Every step of the composition is a step of the registry or
  none, so the registry's theorems hold in it. A dropped event is harmless to the
  watcher: it is dropped only when the channel holds another one, after which the
  whole list is read. The two updates stay paired while no other update falls
  between them.

Only model-checked:

- the liveness properties (`Recovers`, `StopReturns`, `ExpiredIsRemoved`,
  `FollowsBackends`, `Terminates`), as TLAPS has no backend for fairness;
- of `FairChoice`, the parts `EvenTurns`, `WeightConserved`, `WeightBounded` and `CycleExact`,
  and all of `SplitByWeight` and `MetricsTrue`. They speak of sums over lists, of what a walk over
  cumulative weights selects and of what a sort returns. What a sum or a fold computes
  for every input needs induction over data, which the provers cannot do.

## Disagreements with the documentation

Seven are kept as runs whose property fails; `findings` in `PROJECT.json` quotes the
lines.

- `ProbesCapped`: the late success of a request from before the trip frees a
  half-open slot that a probe still uses, so one more probe than
  `MaxHalfOpenRequests` can be out (`circuitbreaker.go:212`).
- `ConfigApplied`: the watcher rebuilds from the start-up configuration, which
  undoes a reload (`main.go:545`).
- `SharedBackends`: a reload and the watcher can leave the checker with other objects
  than the load balancer (`main.go:203`).
- `ClosedOnce`: on shutdown the watcher's channel is closed by `Stop` and again by the
  deferred `Unsubscribe` (`main.go:534`).
- `ReinstatementEarned`: one successful check takes a backend back, whatever
  `HealthyThreshold` says (`checker.go:230`).
- `CountedWhileDialing`: the active counter is raised after a successful dial, not
  "before dial" (`backend.go:172`, `206`), so that least connections does not see the
  callers that are dialling.
- `GaugeTrue`: the gauge of "currently active connections" stays one too high after
  each handler that panics (`middleware/metrics.go:43`).

Others were met while the models were written and are recorded here only, because
they are variations of the above or matter little to callers today:

- the failure window is a tumbling one that starts at a failure, not the "rolling
  window" of `DESIGN-DECISIONS.md:118`;
- a `CloseWrite` that outlives its checkout sends FIN in the next one
  (`backend.go:503-505` excludes only the pooled state); no caller is that late;
- time in use counts as idle time (`backend.go:213` says idle);
- a request that a backend answers is counted twice in `requests_total`, "Total requests
  processed" (`prometheus.go:118`), once by the proxy under the backend's address and once
  by Metrics under its path (`http.go:215`, `middleware/metrics.go:42`), and one whose
  handler panics may not be counted at all;
- the histogram's `le="0.5"` includes latencies of less than a millisecond above the
  boundary, because `RecordLatency` truncates (`metrics/metrics.go:109`);
- the host of a request without a port is cut at its last colon, so a route for an IPv6
  address matches only requests that name a port (`router.go:131`);
- `Collector.Reset` is not synchronised with recorders and scrapes
  (`metrics/metrics.go:223`): counts of a call in progress are cleared in part;
- the panic of `ClosedOnce` ends the process with exit code 2, before or during the L4
  drain, if the watcher runs before `main` is done (`main.go:352-356`); `CleanExit` says
  what had been drained by then;
- `Done` is closed when the accept loop ends, before the handlers do (`tcp.go:336`),
  and never if `Stop` precedes `Start` (`tcp.go:340-341`);
- cancelling the context leaves the listener open until `Stop` (`tcp.go:169`);
- a service registered before the watcher subscribes is unused until the next event
  (`main.go:293`, `531`); a reload drops the registry's services until the next event
  (`main.go:202`); overlapping reload callbacks can leave the older file in force
  (`main.go:594`);
- `Stop` decides by `activeConns` whether its deadline passed with connections left,
  and does not count a handler that has not reached its first statement
  (`tcp.go:316`); `CleanExit` allows for it;
- an accept error other than a timeout ends the accept loop while the process looks
  alive (`tcp.go:249`);
- comments name SIGTERM, but only `os.Interrupt` is asked for, so a SIGTERM drains
  nothing (`main.go:174-178`);
- no timeout bounds a backend that takes a request and never answers
  (`http.go:177`).

## What is not modelled

`PROJECT.json` lists every component with its status. Three are left out: the admin
server, which reads counters and lists and changes nothing (what a concurrent read
shows is in `Collector`, its start and stop in `Lifecycle`); observability, which
formats logs and trace identifiers; load generators, echo servers and deployment
files. Two are modelled in part: of the middlewares, those that only rewrite headers
or write log lines are left out; of the metrics, bytes, latency sums and the text of
everything but the histogram.

Within the modelled parts: cryptography, Base64, JSON and YAML are the libraries', and
a token or a file records only which of its parts are good; the kernel and the
HTTP transport answer freely; bytes copied, names, tags and metadata of services,
config files that do not load in a reload (they change nothing) and read-only
queries are left out.

## Running it

    tlc -workers 2 -config Registry_safety.cfg MCRegistry
    tlapm RegistryProofs.tla
