----------------------------- MODULE Discovery -----------------------------
(***************************************************************************)
(* Who decides which backends the proxy uses (cmd/sluice/main.go): the     *)
(* goroutine watchRegistryChanges, which follows the registry, and the     *)
(* reload callbacks of startConfigWatcher, which follow the config file.   *)
(* Both build new Backend objects and hand them first to the load balancer *)
(* and then to the health checker, with no lock over the two calls.        *)
(*                                                                         *)
(* A list of backends is a record: the objects' identity (build), the      *)
(* configuration and the registry services it was built from.  A           *)
(* configuration stands for its list of backends.                          *)
(***************************************************************************)
EXTENDS Registry

CONSTANTS
  Cfg,      \* configurations
  Startup,  \* the configuration main started with
  Reload,   \* goroutines of reload timers
  Build     \* identities of sets of Backend objects, reused once forgotten

ASSUME DiscoveryAssumption == Startup \in Cfg /\ Sub # {}

VARIABLES
  lb,       \* the list the load balancer uses
  checker,  \* the list the health checker probes
  watch,    \* where the watcher is in its loop body
  built,    \* the list the watcher has built
  file,     \* the config file
  timer,    \* the debounce timer is armed
  config,   \* currentConfig
  reload,   \* where each reload is
  loaded,   \* the list each reload builds, its configuration first
  \* History, read by properties only.
  behind,   \* a change was notified to no one, or a reload replaced the list,
            \* and the watcher has built none since
  raced     \* someone updated the load balancer while another one was between
            \* its two updates

discovery == <<lb, checker, watch, built, file, timer, config, reload, loaded, behind, raced>>
reloads   == <<file, timer, config, reload, loaded>>
allVars   == <<vars, discovery>>

Services == [ID -> Addr \cup {None}]
List     == [build : Build \cup {None}, cfg : Cfg, services : Services]
NoServices == [i \in ID |-> None]
Forgotten  == [build |-> None, cfg |-> Startup, services |-> NoServices]
W == CHOOSE s \in Sub : TRUE

\* A build no one has a reference to.
Fresh ==
  Build \ ({lb.build, checker.build, built.build} \cup {loaded[r].build : r \in Reload})

DInit ==
  /\ Init
  /\ \E b \in Build : lb = [build |-> b, cfg |-> Startup, services |-> NoServices]
  /\ checker = lb
  /\ built = Forgotten
  /\ watch = "recv"
  /\ file = Startup
  /\ timer = FALSE
  /\ config = Startup
  /\ reload = [r \in Reload |-> "idle"]
  /\ loaded = [r \in Reload |-> Forgotten]
  /\ behind = FALSE
  /\ raced = FALSE
-----------------------------------------------------------------------------
(* watchRegistryChanges                                                    *)

WatchSubscribe ==
  /\ Subscribe(W)
  /\ UNCHANGED discovery

WatchReceive ==
  /\ watch = "recv"
  /\ Receive(W)
  /\ watch' = "list"
  /\ UNCHANGED <<lb, checker, built, reloads, behind, raced>>

\* Mutant of Combine: the services in use before the event.
CombineStale(b) == [build |-> b, cfg |-> Startup, services |-> lb.services]

\* buildBackendsFromRegistry, with the configuration main passed to the watcher.
Combine(b) == [build |-> b, cfg |-> Startup, services |-> services]

\* reg.List takes r.mu.
WatchBuild ==
  /\ watch = "list"
  /\ holder = "free"
  /\ \E b \in Fresh : built' = Combine(b)
  /\ watch' = "lb"
  /\ behind' = FALSE
  /\ UNCHANGED <<vars, lb, checker, reloads, raced>>

\* Someone is between the updates of the load balancer and of the checker.
Between == watch = "checker" \/ \E r \in Reload : reload[r] = "checker"

WatchUpdateLB ==
  /\ watch = "lb"
  /\ lb' = built
  /\ watch' = "checker"
  /\ raced' = (raced \/ Between)
  /\ UNCHANGED <<vars, checker, built, reloads, behind>>

\* Mutant of WatchUpdateChecker: the checker is not told.
WatchForgetChecker ==
  /\ watch = "checker"
  /\ built' = Forgotten
  /\ watch' = "recv"
  /\ UNCHANGED <<vars, lb, checker, reloads, behind, raced>>

WatchUpdateChecker ==
  /\ watch = "checker"
  /\ checker' = built
  /\ built' = Forgotten
  /\ watch' = "recv"
  /\ UNCHANGED <<vars, lb, reloads, behind, raced>>

\* The range loop ends when the channel is closed and empty; then the deferred
\* Unsubscribe runs.
WatchLeave ==
  /\ watch = "recv"
  /\ channel[W] = << >>
  /\ closes[W] > 0
  /\ UnsubscribeDelete(W)
  /\ UNCHANGED discovery

WatchUnsubscribed ==
  /\ UnsubscribeClose(W)
  /\ UNCHANGED discovery
-----------------------------------------------------------------------------
(* startConfigWatcher and reloadBackends                                   *)

\* Someone saves a valid config file; trigger arms the timer, or arms it again.
EditFile(c) ==
  /\ Reload # {}
  /\ file' = c
  /\ timer' = TRUE
  /\ UNCHANGED <<vars, lb, checker, watch, built, config, reload, loaded, behind, raced>>

\* The timer fires: a goroutine of its own loads the file.  timer.Stop does not
\* wait for an earlier one.
ReloadLoad(r) ==
  /\ timer
  /\ reload[r] = "idle"
  /\ timer' = FALSE
  /\ loaded' = [loaded EXCEPT ![r].cfg = file]
  /\ reload' = [reload EXCEPT ![r] = "loaded"]
  /\ UNCHANGED <<vars, lb, checker, watch, built, file, config, behind, raced>>

BackendsChanged(old, new) == old # new

\* currentConfig is swapped under configMu, then the two are compared.
ReloadSwap(r) ==
  /\ reload[r] = "loaded"
  /\ config' = loaded[r].cfg
  /\ reload' = [reload EXCEPT
       ![r] = IF BackendsChanged(config, loaded[r].cfg) THEN "lb" ELSE "idle"]
  /\ loaded' = [loaded EXCEPT
       ![r] = IF BackendsChanged(config, loaded[r].cfg) THEN @ ELSE Forgotten]
  /\ UNCHANGED <<vars, lb, checker, watch, built, file, timer, behind, raced>>

\* buildBackends and lb.UpdateBackends.
ReloadUpdateLB(r) ==
  /\ reload[r] = "lb"
  /\ \E b \in Fresh :
       lb' = [build |-> b, cfg |-> loaded[r].cfg, services |-> NoServices]
  /\ loaded' = [loaded EXCEPT ![r] = lb']
  /\ reload' = [reload EXCEPT ![r] = "checker"]
  /\ behind' = TRUE
  /\ raced' = (raced \/ Between)
  /\ UNCHANGED <<vars, checker, watch, built, file, timer, config>>

ReloadUpdateChecker(r) ==
  /\ reload[r] = "checker"
  /\ checker' = loaded[r]
  /\ loaded' = [loaded EXCEPT ![r] = Forgotten]
  /\ reload' = [reload EXCEPT ![r] = "idle"]
  /\ UNCHANGED <<vars, lb, watch, built, file, timer, config, behind, raced>>
-----------------------------------------------------------------------------
(* The registry's clients, its cleanup goroutine and main's shutdown       *)

RegistryStep ==
  /\ \/ \E i \in ID, a \in Addr, t \in TTL : Register(i, a, t)
     \/ \E i \in ID : Deregister(i) \/ Heartbeat(i)
     \/ CleanupExpired
     \/ StopCancel \/ CleanerExit \/ StopClose
     \/ Tick
  /\ UNCHANGED discovery

NotifyWatcher ==
  /\ \E e \in pending : Notify(e)
  /\ behind' = (behind \/ W \notin subscribers)
  /\ UNCHANGED <<lb, checker, watch, built, reloads, raced>>

DNext ==
  \/ RegistryStep
  \/ NotifyWatcher
  \/ WatchSubscribe \/ WatchReceive \/ WatchBuild
  \/ WatchUpdateLB \/ WatchUpdateChecker
  \/ WatchLeave \/ WatchUnsubscribed
  \/ \E c \in Cfg : EditFile(c)
  \/ \E r \in Reload : \/ ReloadLoad(r) \/ ReloadSwap(r)
                       \/ ReloadUpdateLB(r) \/ ReloadUpdateChecker(r)

DSpec == DInit /\ [][DNext]_allVars
-----------------------------------------------------------------------------
(* Properties                                                              *)

\* The registry's variables have their types, and so have the lists.
DTypeOK ==
  /\ TypeOK
  /\ lb \in List /\ checker \in List /\ built \in List
  /\ watch \in {"recv", "list", "lb", "checker"}
  /\ file \in Cfg /\ config \in Cfg
  /\ timer \in BOOLEAN /\ behind \in BOOLEAN /\ raced \in BOOLEAN
  /\ reload \in [Reload -> {"idle", "loaded", "lb", "checker"}]
  /\ loaded \in [Reload -> List]

\* No change of the registry or of the file is on its way.
Quiescent ==
  /\ pending = {} /\ channel[W] = << >> /\ watch = "recv"
  /\ ~timer /\ \A r \in Reload : reload[r] = "idle"

\* config.example.yaml: registrations "that stop heartbeating expire and are removed
\* from the load balancer", the others are not.  At rest the load balancer uses
\* exactly the registered services, although events may have been dropped,
\* unless it is behind: a change was notified before the watcher subscribed, or
\* a reload came last.
ServicesInUse == Quiescent /\ ~behind => lb.services = services

\* The watcher and the reloads pass one list to the load balancer and to the
\* checker: at rest both have it, unless two of them raced.
UpdatesPaired == Quiescent /\ ~raced => lb = checker

\* "Pass the same backends slice used by the load balancer" (NewChecker): at rest
\* the checker probes the objects the load balancer picks from.
SharedBackends == Quiescent => lb.build = checker.build

\* "Hot config reload via fsnotify" (README): at rest the load balancer uses the
\* backends of the config file.
ConfigApplied == Quiescent => lb.cfg = file
=============================================================================
