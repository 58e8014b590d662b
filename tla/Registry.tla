------------------------------ MODULE Registry ------------------------------
(***************************************************************************)
(* The service registry (internal/registry/registry.go) and its            *)
(* subscribers.                                                            *)
(*                                                                         *)
(* Register, Deregister and cleanupExpired change the map and then, still  *)
(* holding r.mu, notify the subscribers event by event.  notify takes only *)
(* subMu, so subscribers come, go and receive between the change and its   *)
(* notification, and between two notifications of one cleanup.  A channel  *)
(* is identified with the goroutine that subscribed.  An event is reduced  *)
(* to the service and the address it now has, None when it was removed.    *)
(*                                                                         *)
(* Heartbeat times are modelled as the age of the last heartbeat,          *)
(* saturated past the largest TTL.                                         *)
(***************************************************************************)
EXTENDS Integers, Sequences, FiniteSets

CONSTANTS
  ID,           \* service identifiers
  Addr,         \* service addresses
  None,         \* not registered
  TTL,          \* the TTLs services ask for, in ticks; 0 asks for the default
  DefaultTTL,   \* Config.DefaultTTL
  MaxTTL,       \* an upper bound of all TTLs
  MaxServices,  \* Config.MaxServices, 0 for no limit
  Sub,          \* goroutines that subscribe, once each
  Buffer        \* capacity of a subscriber's channel (16 in the code)

ASSUME RegistryAssumption ==
  /\ IsFiniteSet(ID)
  /\ None \notin Addr
  /\ MaxTTL \in Nat
  /\ TTL \subseteq 0..MaxTTL
  /\ DefaultTTL \in 0..MaxTTL
  /\ MaxServices \in Nat
  /\ Buffer \in Nat \ {0}

VARIABLES
  services,     \* r.services: the address each service registered
  ttl,          \* Service.TTL
  age,          \* now - Service.LastHeartbeat
  holder,       \* who holds r.mu between its change and its notifications
  pending,      \* the events the holder of r.mu has yet to send
  subscribers,  \* r.subscribers
  channel,      \* the buffer of each channel
  closes,       \* how often each channel was closed
  subPC,        \* where each subscriber is
  cleaner,      \* the cleanup goroutine is running
  cancelled,    \* r.ctx is done
  stop,         \* where Stop is
  \* History, read by properties only.
  mirror,       \* the registry as a subscriber knows it from its events
  missed        \* subscribers that an event was dropped for

table   == <<services, ttl, age, holder, pending>>
subs    == <<subscribers, channel, closes, subPC>>
lifetime == <<cleaner, cancelled, stop>>
history == <<mirror, missed>>
vars    == <<table, subs, lifetime, history>>

Event      == [id : ID, addr : Addr \cup {None}]
Registered == {i \in ID : services[i] # None}

\* New.
Init ==
  /\ services = [i \in ID |-> None]
  /\ ttl = [i \in ID |-> 0]
  /\ age = [i \in ID |-> 0]
  /\ holder = "free"
  /\ pending = {}
  /\ subscribers = {}
  /\ channel = [s \in Sub |-> << >>]
  /\ closes = [s \in Sub |-> 0]
  /\ subPC = [s \in Sub |-> "out"]
  /\ cleaner = TRUE
  /\ cancelled = FALSE
  /\ stop = "idle"
  /\ mirror = [s \in Sub |-> [i \in ID |-> None]]
  /\ missed = {}
-----------------------------------------------------------------------------
(* Changes of the table                                                    *)

\* The limit applies to new services only.
HasRoom(i) ==
  \/ MaxServices = 0
  \/ Cardinality(Registered) < MaxServices
  \/ services[i] # None

\* Register, when it returns nil: a new service, or an update.
Register(i, a, t) ==
  /\ holder = "free"
  /\ HasRoom(i)
  /\ services' = [services EXCEPT ![i] = a]
  /\ ttl' = [ttl EXCEPT ![i] = t]
  /\ age' = [age EXCEPT ![i] = 0]
  /\ holder' = "caller"
  /\ pending' = {[id |-> i, addr |-> a]}
  /\ UNCHANGED <<subs, lifetime, history>>

Deregister(i) ==
  /\ holder = "free"
  /\ services[i] # None
  /\ services' = [services EXCEPT ![i] = None]
  /\ ttl' = [ttl EXCEPT ![i] = 0]
  /\ age' = [age EXCEPT ![i] = 0]
  /\ holder' = "caller"
  /\ pending' = {[id |-> i, addr |-> None]}
  /\ UNCHANGED <<subs, lifetime, history>>

Heartbeat(i) ==
  /\ holder = "free"
  /\ services[i] # None
  /\ age' = [age EXCEPT ![i] = 0]
  /\ UNCHANGED <<services, ttl, holder, pending, subs, lifetime, history>>

\* Mutant of IsExpired: a TTL of zero means no expiry.
NeverByDefault(i) == ttl[i] # 0 /\ age[i] > ttl[i]

IsExpired(i) == age[i] > (IF ttl[i] = 0 THEN DefaultTTL ELSE ttl[i])

Expired == {i \in Registered : IsExpired(i)}

\* Mutant of Removals: one event for the whole cleanup.
OneRemoval(gone) == {[id |-> CHOOSE i \in gone : TRUE, addr |-> None]}

Removals(gone) == {[id |-> i, addr |-> None] : i \in gone}

\* cleanupExpired, in the cleanup goroutine.
CleanupExpired ==
  /\ cleaner
  /\ holder = "free"
  /\ Expired # {}
  /\ services' = [i \in ID |-> IF i \in Expired THEN None ELSE services[i]]
  /\ ttl' = [i \in ID |-> IF i \in Expired THEN 0 ELSE ttl[i]]
  /\ age' = [i \in ID |-> IF i \in Expired THEN 0 ELSE age[i]]
  /\ holder' = "cleaner"
  /\ pending' = Removals(Expired)
  /\ UNCHANGED <<subs, lifetime, history>>

HasSpace(s) == Len(channel[s]) < Buffer

\* notify: the event goes to every subscriber whose channel has room.  After the
\* last event the holder releases r.mu.
Notify(e) ==
  LET takers == {s \in subscribers : HasSpace(s)} IN
  /\ e \in pending
  /\ pending' = pending \ {e}
  /\ holder' = IF pending = {e} THEN "free" ELSE holder
  /\ channel' = [s \in Sub |-> IF s \in takers THEN Append(channel[s], e) ELSE channel[s]]
  /\ missed' = missed \cup (subscribers \ takers)
  /\ UNCHANGED <<services, ttl, age, subscribers, closes, subPC, lifetime, mirror>>
-----------------------------------------------------------------------------
(* Subscribers                                                             *)

Subscribe(s) ==
  /\ subPC[s] = "out"
  /\ subscribers' = subscribers \cup {s}
  /\ subPC' = [subPC EXCEPT ![s] = "in"]
  /\ mirror' = [mirror EXCEPT ![s] = services]
  /\ UNCHANGED <<table, channel, closes, lifetime, missed>>

Receive(s) ==
  LET e == Head(channel[s]) IN
  /\ subPC[s] = "in"
  /\ channel[s] # << >>
  /\ channel' = [channel EXCEPT ![s] = Tail(@)]
  /\ mirror' = [mirror EXCEPT ![s][e.id] = e.addr]
  /\ UNCHANGED <<table, subscribers, closes, subPC, lifetime, missed>>

\* Mutant of UnsubscribeDelete: the channel is closed before it is removed.
UnsubscribeCloseFirst(s) ==
  /\ subPC[s] = "in"
  /\ subPC' = [subPC EXCEPT ![s] = "closing"]
  /\ closes' = [closes EXCEPT ![s] = @ + 1]
  /\ UNCHANGED <<table, subscribers, channel, lifetime, history>>

\* Unsubscribe: the removal, under subMu, and the close, after it.
UnsubscribeDelete(s) ==
  /\ subPC[s] = "in"
  /\ subscribers' = subscribers \ {s}
  /\ subPC' = [subPC EXCEPT ![s] = "closing"]
  /\ UNCHANGED <<table, channel, closes, lifetime, history>>

UnsubscribeClose(s) ==
  /\ subPC[s] = "closing"
  /\ closes' = [closes EXCEPT ![s] = @ + 1]
  /\ subPC' = [subPC EXCEPT ![s] = "gone"]
  /\ UNCHANGED <<table, subscribers, channel, lifetime, history>>
-----------------------------------------------------------------------------
(* Stop and the cleanup goroutine                                          *)

StopCancel ==
  /\ stop = "idle"
  /\ cancelled' = TRUE
  /\ stop' = "waiting"
  /\ UNCHANGED <<table, subs, cleaner, history>>

\* The cleanup goroutine is not in cleanupExpired and takes the other branch.
CleanerExit ==
  /\ cleaner
  /\ cancelled
  /\ holder # "cleaner"
  /\ cleaner' = FALSE
  /\ UNCHANGED <<table, subs, cancelled, stop, history>>

StopClose ==
  /\ stop = "waiting"
  /\ ~cleaner
  /\ closes' = [s \in Sub |-> closes[s] + (IF s \in subscribers THEN 1 ELSE 0)]
  /\ subscribers' = {}
  /\ stop' = "stopped"
  /\ UNCHANGED <<table, channel, subPC, cleaner, cancelled, history>>

Tick ==
  /\ age' = [i \in ID |-> IF i \in Registered /\ age[i] <= MaxTTL THEN age[i] + 1 ELSE age[i]]
  /\ UNCHANGED <<services, ttl, holder, pending, subs, lifetime, history>>

Next ==
  \/ \E i \in ID, a \in Addr, t \in TTL : Register(i, a, t)
  \/ \E i \in ID : Deregister(i) \/ Heartbeat(i)
  \/ CleanupExpired
  \/ \E e \in pending : Notify(e)
  \/ \E s \in Sub : \/ Subscribe(s) \/ Receive(s)
                    \/ UnsubscribeDelete(s) \/ UnsubscribeClose(s)
  \/ StopCancel \/ CleanerExit \/ StopClose
  \/ Tick

Spec == Init /\ [][Next]_vars

\* The clock runs, r.mu is released, and the ticker of the cleanup goroutine
\* keeps firing; sync.RWMutex lets a waiting writer in.
Fairness ==
  /\ WF_vars(Tick)
  /\ WF_vars(\E e \in pending : Notify(e))
  /\ SF_vars(CleanupExpired)

FairSpec == Spec /\ Fairness
-----------------------------------------------------------------------------
(* Properties                                                              *)

\* Every field has its type and a channel never exceeds its buffer.
TypeOK ==
  /\ services \in [ID -> Addr \cup {None}]
  /\ ttl \in [ID -> 0..MaxTTL]
  /\ age \in [ID -> 0..(MaxTTL + 1)]
  /\ holder \in {"free", "caller", "cleaner"}
  /\ pending \in SUBSET Event
  /\ subscribers \in SUBSET Sub
  /\ channel \in [Sub -> Seq(Event)]
  /\ \A s \in Sub : Len(channel[s]) <= Buffer
  /\ closes \in [Sub -> Nat]
  /\ subPC \in [Sub -> {"out", "in", "closing", "gone"}]
  /\ cleaner \in BOOLEAN /\ cancelled \in BOOLEAN
  /\ stop \in {"idle", "waiting", "stopped"}
  /\ mirror \in [Sub -> [ID -> Addr \cup {None}]]
  /\ missed \in SUBSET Sub

\* "registry full" (Register): updates are always accepted, and still the limit
\* is never exceeded.
Capacity == MaxServices > 0 => Cardinality(Registered) <= MaxServices

\* notify never sends on a closed channel, which would panic while r.mu is held:
\* Unsubscribe and Stop take a channel out of the map before or while closing it.
SendsOnOpen == \A s \in subscribers : closes[s] = 0

\* Subscriber s has learnt address a of service i, or will from its channel.
Learns(s, i, a) ==
  LET about == {n \in 1..Len(channel[s]) : channel[s][n].id = i} IN
  \/ about = {} /\ mirror[s][i] = a
  \/ \E n \in about : channel[s][n].addr = a /\ \A m \in about : m <= n

\* "The registry notifies subscribers of changes via watch channels": when r.mu is
\* free, a subscriber that no event was dropped for has in its channel all it
\* needs to know every service's present address, in the right order.
EventsComplete ==
  holder = "free" =>
    \A s \in subscribers \ missed : \A i \in ID : Learns(s, i, services[i])

\* config.example.yaml: "Registrations that stop heartbeating expire": until the
\* registry is stopped, no service stays registered past its TTL for ever.
ExpiredIsRemoved ==
  LET allowed(i) == IF ttl[i] = 0 THEN DefaultTTL ELSE ttl[i] IN
  [](stop = "idle") => \A i \in ID : []<>(services[i] = None \/ age[i] <= allowed(i))

\* "Call Unsubscribe to clean up when done" (Subscribe): no channel is closed
\* twice, which would panic, when its reader follows that advice.
ClosedOnce == \A s \in Sub : closes[s] <= 1
=============================================================================
