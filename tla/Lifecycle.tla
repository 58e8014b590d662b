----------------------------- MODULE Lifecycle -----------------------------
(***************************************************************************)
(* One life of the process: config.Load, applyDefaults and Validate, then  *)
(* main (cmd/sluice/main.go) from building the backends to its exit.  Main *)
(* is one goroutine; the HTTP servers, the accept loop, the health         *)
(* checker, the registry's watcher and the signal handler run beside it,   *)
(* and requests come and go.                                               *)
(*                                                                         *)
(* A setting is a number, 0 when the file leaves it out (words are         *)
(* numbered).  The servers are net/http's: Shutdown closes the listener    *)
(* and returns when no request is in progress or the context is done.      *)
(***************************************************************************)
EXTENDS Integers, Sequences

CONSTANTS
  Files,        \* configuration files: [readable, listen, http, backends, enabled, value]
  Default,      \* what applyDefaults puts for 0, per setting
  Grace,        \* the 30 seconds of shutdownCtx, in units
  MaxInFlight   \* bound: requests per server, and L4 connections, at a time

VARIABLES
  pc,           \* where main is
  file, cfg,    \* the file, and the configuration main goes on with
  built,        \* the Backend objects: their weight and pool size
  cancelled,    \* ctx is done
  server,       \* the HTTP servers
  inflight,     \* requests in progress at each of them
  tcp,          \* the L4 accept loop
  conns,        \* L4 handlers: started, counted in activeConns, and ending
  checker,      \* the health checker's loop
  watcher,      \* watchRegistryChanges
  left,         \* what remains of shutdownCtx
  exitCode

lifeVars ==
  <<pc, file, cfg, built, cancelled, server, inflight, tcp, conns, checker, watcher, left, exitCode>>
env  == <<cancelled, server, inflight, tcp, conns>>
aside == <<checker, watcher>>

\* The settings with a default, by section.
Fields ==
  [server          |-> {"load_balancer"},
   health          |-> {"interval", "timeout", "unhealthy_threshold", "healthy_threshold",
                        "check_type", "http_path"},
   http_transport  |-> {"max_idle_conns", "max_idle_conns_per_host", "idle_conn_timeout",
                        "tls_handshake_timeout", "expect_continue_timeout", "dial_timeout",
                        "dial_keepalive"},
   logging         |-> {"level", "format"},
   rate_limit      |-> {"rate", "burst"},
   circuit_breaker |-> {"failure_threshold", "success_threshold", "timeout", "window"},
   admin           |-> {"listen"},
   tcp_pool        |-> {"max_idle", "idle_timeout", "max_lifetime"},
   registry        |-> {"listen", "default_ttl", "cleanup_interval"},
   metrics         |-> {"path"}]

Setting     == UNION {{<<s, f>> : f \in Fields[s]} : s \in DOMAIN Fields}
PoolSetting == {x \in Setting : x[1] = "tcp_pool"}

\* The sections that count only if they are enabled.
Optional == {"rate_limit", "circuit_breaker", "admin", "tcp_pool", "registry", "metrics"}

\* Defaults are positive; a weight and a setting in a file are any numbers.
ASSUME LifecycleAssumption ==
  /\ Grace \in Nat
  /\ Default \in [Setting -> Nat \ {0}]
  /\ \A f \in Files : f.value \in [Setting -> Int]
  /\ \A f \in Files : \A i \in DOMAIN f.backends : f.backends[i].weight \in Int

Server  == {"http", "admin", "registry"}
NoCfg   == [backends |-> <<>>]
Running == -1   \* no exit code yet
Alive   == exitCode = Running
Open    == conns.starting + conns.active + conns.ending   \* what connWg counts

LifeInit ==
  /\ pc = "load"
  /\ file \in Files
  /\ cfg = NoCfg
  /\ built = <<>>
  /\ cancelled = FALSE
  /\ server = [s \in Server |-> "none"]
  /\ inflight = [s \in Server |-> 0]
  /\ tcp = "off"
  /\ conns = [starting |-> 0, active |-> 0, ending |-> 0]
  /\ checker = "new"
  /\ watcher = "none"
  /\ left = Grace
  /\ exitCode = Running

Proceed(from, to) == Alive /\ pc = from /\ pc' = to
Exit(code) == pc' = "exited" /\ exitCode' = code
-----------------------------------------------------------------------------
(* Configuration *)

\* Mutant of Weighed: a weight of zero is left alone.
WeighedNot(w) == w

Weighed(w) == IF w = 0 THEN 1 ELSE w

\* The settings that take effect: those of the sections that are always in use and
\* of the optional ones that are enabled.
InUse(c) == {x \in Setting : x[1] \in Optional => x[1] \in c.enabled}

\* Mutant of Defaulted: one of the tests is missing.
DefaultedButWindow(c) == InUse(c) \ {<<"circuit_breaker", "window">>}

\* The settings applyDefaults tests, one by one.
Defaulted(c) == InUse(c)

applyDefaults(c) ==
  [listen |-> c.listen, http |-> c.http, enabled |-> c.enabled,
   backends |-> [i \in DOMAIN c.backends |->
                   [addr |-> c.backends[i].addr, weight |-> Weighed(c.backends[i].weight)]],
   value |-> [x \in Setting |-> IF c.value[x] = 0 /\ x \in Defaulted(c) THEN Default[x] ELSE c.value[x]]]

ValidConfig(c) ==
  /\ c.listen # ""
  /\ c.backends # <<>>
  /\ \A i \in DOMAIN c.backends : c.backends[i].addr # "" /\ c.backends[i].weight >= 0

\* Load makes the checks of Validate itself, after the defaults.
Loads(f) == f.readable /\ ValidConfig(applyDefaults(f))

LoadConfig ==
  /\ \/ /\ Proceed("load", "build") /\ Loads(file)
        /\ cfg' = applyDefaults(file)
        /\ ValidConfig(cfg')
        /\ UNCHANGED exitCode
     \/ /\ Alive /\ pc = "load" /\ ~Loads(file)
        /\ Exit(1)
        /\ UNCHANGED cfg
  /\ UNCHANGED <<file, built, env, aside, left>>
-----------------------------------------------------------------------------
(* Start-up *)

\* NewBackendWithWeight above 1, NewBackend otherwise; pooling is opt-in, and each
\* of its settings counts only if it is positive (DefaultPoolConfig has the values
\* of applyDefaults).
Build ==
  /\ Proceed("build", "servers")
  /\ built' = [i \in DOMAIN cfg.backends |->
                 [addr   |-> cfg.backends[i].addr,
                  weight |-> IF cfg.backends[i].weight > 1 THEN cfg.backends[i].weight ELSE 1,
                  pool   |-> [x \in PoolSetting \cap InUse(cfg) |->
                                IF cfg.value[x] > 0 THEN cfg.value[x] ELSE Default[x]]]]
  /\ UNCHANGED <<file, cfg, env, aside, left, exitCode>>

\* startAdminServer and startRegistryServer: a goroutine each, and one more for the
\* registry's watcher.
StartServers ==
  /\ Proceed("servers", "checker")
  /\ server' = [s \in Server |-> IF s # "http" /\ s \in cfg.enabled THEN "starting" ELSE server[s]]
  /\ watcher' = IF "registry" \in cfg.enabled THEN "starting" ELSE watcher
  /\ UNCHANGED <<file, cfg, built, cancelled, inflight, tcp, conns, checker, left, exitCode>>

\* A first Start returns no error.
StartChecker ==
  /\ Proceed("checker", "proxy")
  /\ checker' = "running"
  /\ UNCHANGED <<file, cfg, built, env, watcher, left, exitCode>>

\* The L4 listener may fail to bind, which ends the process.  The accept loop
\* reports ready first thing.
StartProxy ==
  /\ \/ /\ Proceed("proxy", "l7")
        /\ tcp' = "accepting"
        /\ UNCHANGED exitCode
     \/ /\ Alive /\ pc = "proxy"
        /\ Exit(1)
        /\ UNCHANGED tcp
  /\ UNCHANGED <<file, cfg, built, cancelled, server, inflight, conns, aside, left>>

StartHTTP ==
  /\ Proceed("l7", "wait")
  /\ server' = [server EXCEPT !["http"] = IF cfg.http THEN "starting" ELSE @]
  /\ UNCHANGED <<file, cfg, built, cancelled, inflight, tcp, conns, aside, left, exitCode>>
-----------------------------------------------------------------------------
(* Shutdown *)

Wait ==
  /\ cancelled
  /\ Proceed("wait", "http")
  /\ UNCHANGED <<file, cfg, built, env, aside, left, exitCode>>

After == [http |-> "admin", admin |-> "registry", registry |-> "services"]

\* Mutant of Expired: the context has no deadline.
ExpiredNever == FALSE

Expired == left = 0

\* Shutdown of one server: called ...
BeginShutdown(s) ==
  /\ Alive /\ pc = s /\ server[s] \notin {"none", "draining"}
  /\ server' = [server EXCEPT ![s] = "draining"]
  /\ UNCHANGED <<pc, file, cfg, built, cancelled, inflight, tcp, conns, aside, left, exitCode>>

\* Mutant of Drained: requests in progress are not waited for.
DrainedAtOnce(s) == TRUE

Drained(s) == inflight[s] = 0 \/ Expired

\* ... and returned, its error only logged; a server that was not configured is
\* passed over.
EndShutdown(s) ==
  /\ server[s] = "none" \/ (server[s] = "draining" /\ Drained(s))
  /\ Proceed(s, After[s])
  /\ server' = [server EXCEPT ![s] = IF @ = "none" THEN @ ELSE "closed"]
  /\ UNCHANGED <<file, cfg, built, cancelled, inflight, tcp, conns, aside, left, exitCode>>

\* serviceRegistry.Stop closes the channel of a watcher that has subscribed.
StopRegistry ==
  /\ Proceed("services", "l4")
  /\ watcher' = IF watcher = "watching" THEN "closed" ELSE watcher
  /\ UNCHANGED <<file, cfg, built, env, checker, left, exitCode>>

\* tcpProxy.Stop closes the listener and waits for the accept loop ...
CloseProxy ==
  /\ Alive /\ pc = "l4" /\ tcp # "closed"
  /\ tcp' = "closed"
  /\ UNCHANGED <<pc, file, cfg, built, cancelled, server, inflight, conns, aside, left, exitCode>>

\* ... then for the handlers.  At the deadline it is an error only if activeConns
\* says so, and the error exits at once.
StopProxy ==
  /\ tcp = "closed"
  /\ \/ /\ Open = 0 \/ (Expired /\ conns.active = 0)
        /\ Proceed("l4", "health")
        /\ UNCHANGED exitCode
     \/ /\ Alive /\ pc = "l4" /\ Expired /\ conns.active > 0
        /\ Exit(1)
  /\ UNCHANGED <<file, cfg, built, env, aside, left>>

\* checker.Stop waits for the loop, which has mostly ended long before.
StopChecker ==
  /\ Alive /\ pc = "health"
  /\ checker' = "stopped"
  /\ Exit(0)
  /\ UNCHANGED <<file, cfg, built, env, watcher, left>>

Main ==
  \/ LoadConfig \/ Build \/ StartServers \/ StartChecker \/ StartProxy \/ StartHTTP \/ Wait
  \/ \E s \in Server : BeginShutdown(s) \/ EndShutdown(s)
  \/ StopRegistry \/ CloseProxy \/ StopProxy \/ StopChecker
-----------------------------------------------------------------------------
(* What runs beside main *)

main == <<pc, file, cfg, built, exitCode>>

\* os.Interrupt, the one signal main asks for.  The handler exists once the
\* backends are built; a second signal is ignored.
Signal ==
  /\ Alive /\ pc \notin {"load", "build"} /\ ~cancelled
  /\ cancelled' = TRUE
  /\ UNCHANGED <<main, aside, server, inflight, tcp, conns, left>>

\* ListenAndServe in its goroutine.  If the address is taken, only the L7 server
\* takes the process down.
Listen(s) ==
  /\ Alive /\ server[s] = "starting"
  /\ \/ server' = [server EXCEPT ![s] = "up"] /\ UNCHANGED cancelled
     \/ server' = [server EXCEPT ![s] = "failed"] /\ cancelled' = (cancelled \/ s = "http")
  /\ UNCHANGED <<main, aside, inflight, tcp, conns, left>>

ArriveAt(s) ==
  /\ Alive /\ server[s] = "up" /\ inflight[s] < MaxInFlight
  /\ inflight' = [inflight EXCEPT ![s] = @ + 1]
  /\ UNCHANGED <<main, aside, cancelled, server, tcp, conns, left>>

Finish(s) ==
  /\ Alive /\ inflight[s] > 0
  /\ inflight' = [inflight EXCEPT ![s] = @ - 1]
  /\ UNCHANGED <<main, aside, cancelled, server, tcp, conns, left>>

\* The accept loop looks at ctx before each Accept, so it takes at most one
\* connection after ctx is done.
Accept ==
  /\ Alive /\ tcp = "accepting" /\ Open < MaxInFlight
  /\ conns' = [conns EXCEPT !.starting = @ + 1]
  /\ tcp' = IF cancelled THEN "left" ELSE tcp
  /\ UNCHANGED <<main, aside, cancelled, server, inflight, left>>

LeaveLoop ==
  /\ Alive /\ tcp = "accepting" /\ cancelled
  /\ tcp' = "left"
  /\ UNCHANGED <<main, aside, cancelled, server, inflight, conns, left>>

\* A handler counts itself first thing in its goroutine, and its deferred calls
\* take it out of activeConns before connWg.
HandleConn ==
  /\ Alive
  /\ \/ conns.starting > 0 /\ conns' = [conns EXCEPT !.starting = @ - 1, !.active = @ + 1]
     \/ conns.active > 0 /\ conns' = [conns EXCEPT !.active = @ - 1, !.ending = @ + 1]
     \/ conns.ending > 0 /\ conns' = [conns EXCEPT !.ending = @ - 1]
  /\ UNCHANGED <<main, aside, cancelled, server, inflight, tcp, left>>

\* The checker's loop ends by itself once ctx is done.
CheckerEnds ==
  /\ Alive /\ cancelled /\ checker = "running"
  /\ checker' = "ended"
  /\ UNCHANGED <<main, env, watcher, left>>

\* The watcher subscribes when its goroutine gets to run.
Watch ==
  /\ Alive /\ watcher = "starting"
  /\ watcher' = "watching"
  /\ UNCHANGED <<main, env, checker, left>>

\* Its channel closed, the watcher leaves its loop, and the deferred Unsubscribe
\* closes the channel again: a panic, which ends the process.
WatcherPanics ==
  /\ Alive /\ watcher = "closed"
  /\ Exit(2)
  /\ UNCHANGED <<file, cfg, built, env, aside, left>>

Countdown ==
  /\ Alive /\ pc \in Server \cup {"services", "l4"} /\ left > 0
  /\ left' = left - 1
  /\ UNCHANGED <<main, aside, env>>

LifeNext ==
  \/ Main
  \/ Signal
  \/ \E s \in Server : Listen(s) \/ ArriveAt(s) \/ Finish(s)
  \/ Accept \/ LeaveLoop \/ HandleConn
  \/ CheckerEnds \/ Watch \/ WatcherPanics
  \/ Countdown

LifeSpec == LifeInit /\ [][LifeNext]_lifeVars

\* Main runs on whenever it can, and time passes.
LifeFairness == WF_lifeVars(Main) /\ WF_lifeVars(Countdown)
-----------------------------------------------------------------------------
(* Properties *)

\* A process that gets past its configuration has exactly the file's backends, at
\* least one, each with an address, the weight the file gives (1 if it gives none)
\* and a pool of positive settings if and only if pooling is enabled; no setting in
\* use is zero, and none that the file gives is replaced: Load, applyDefaults and
\* main's own handling of weights and pool settings agree.
LoadedIsServable ==
  pc \notin {"load", "build"} /\ cfg # NoCfg =>
    /\ file.listen # "" /\ built # <<>> /\ DOMAIN built = DOMAIN file.backends
    /\ \A i \in DOMAIN built :
         /\ built[i].addr # "" /\ built[i].addr = file.backends[i].addr
         /\ cfg.backends[i].weight = built[i].weight
         /\ file.backends[i].weight \in {0, built[i].weight}
         /\ DOMAIN built[i].pool = IF "tcp_pool" \in file.enabled THEN PoolSetting ELSE {}
         /\ \A x \in DOMAIN built[i].pool : built[i].pool[x] > 0
    /\ \A x \in InUse(file) : cfg.value[x] # 0
    /\ \A x \in Setting : file.value[x] # 0 => cfg.value[x] = file.value[x]

\* Main shuts down from the front: while time remains, no later part is touched
\* before the requests of the earlier servers are done ("drains in-flight ones
\* before the backends underneath it go away"); the registry is stopped and the L4
\* listener closed after that.
DrainsInOrder ==
  /\ \A s \in Server : server[s] = "closed" => inflight[s] = 0 \/ left = 0
  /\ server["admin"] \in {"draining", "closed"} => server["http"] \in {"none", "closed"}
  /\ server["registry"] \in {"draining", "closed"} => server["admin"] \in {"none", "closed"}
  /\ tcp = "closed" \/ watcher = "closed" => \A s \in Server : server[s] \in {"none", "closed"}

\* Exit code 0 means that main stopped everything and, unless the 30 seconds had
\* run out, that no request and no connection was cut off.  Once the proxy has
\* served, only those 30 seconds lead to exit code 1, and only the watcher's panic
\* to exit code 2: that one may cut off L4 connections, but comes after the
\* requests of all HTTP servers.
CleanExit ==
  /\ exitCode = 0 =>
       /\ checker = "stopped"
       /\ left > 0 => Open = 0 /\ \A s \in Server : inflight[s] = 0
  /\ exitCode = 1 /\ tcp # "off" => left = 0
  /\ exitCode = 2 => watcher = "closed" /\ \A s \in Server : inflight[s] = 0 \/ left = 0

\* Shutdown goes from the front to the back, and an exit code means what it says.
ShutdownClean == DrainsInOrder /\ CleanExit

\* Once ctx is done the process ends, whatever its clients and servers do: a
\* server that is still starting, requests that never end, a failed listener, or
\* the watcher's panic.
Terminates == cancelled ~> ~Alive
=============================================================================
