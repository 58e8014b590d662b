------------------------------ MODULE TCPProxy ------------------------------
(***************************************************************************)
(* The L4 proxy (internal/proxy/tcp.go): its lifecycle (Start, the accept  *)
(* loop, Stop), the connection handlers, and the lazily created breakers   *)
(* that the handlers share.                                                *)
(*                                                                         *)
(* The processes are the accept loop, one handler per client connection    *)
(* with its two copy goroutines, and any number of goroutines calling      *)
(* Stop.  A step ends where another process can see or change what it did: *)
(* at a mutex, a wait group, an atomic counter, a channel, or the network. *)
(* What the rate limiter, the load balancer, the breaker and the dialler   *)
(* answer is left open here.                                               *)
(***************************************************************************)
EXTENDS Integers, FiniteSets

CONSTANTS
  Client,        \* client connections, each made at most once
  Stopper,       \* goroutines that call Stop, once each
  Addr,          \* backend addresses
  None,          \* no address, no breaker
  WithBreakers   \* the WithCircuitBreaker option was given

ASSUME ProxyAssumption ==
  /\ IsFiniteSet(Client)
  /\ None \notin Client
  /\ None \notin Addr
  /\ WithBreakers \in BOOLEAN

VARIABLES
  running,          \* p.running
  stopped,          \* p.stopped
  listener,         \* p.listener: "nil", "open" or "closed"
  ready, done,      \* whether the channel is closed
  ctxDone,          \* the context given to Start is cancelled
  loop,             \* where the accept loop is
  activeConns,      \* p.activeConns
  connWg,           \* the counter of p.connWg
  gauge,            \* the collector's active connections
  circuitBreakers,  \* p.circuitBreakers: a breaker is named by its creator
  pc,               \* where each client connection or its handler is
  addr,             \* the backend a handler selected
  cb,               \* the breaker a handler uses
  copying,          \* the copy directions of a handler that have not ended
  stop,             \* where each Stop call is
  expired           \* the Stop calls whose context is done

lifecycle == <<running, stopped, listener, ready, done, ctxDone, loop>>
counters  == <<activeConns, connWg, gauge>>
handlers  == <<circuitBreakers, addr, cb, copying>>
stops     == <<stop, expired>>
vars      == <<lifecycle, counters, handlers, pc, stops>>

Goto(c, l) == pc' = [pc EXCEPT ![c] = l]

\* The accept loop: not started; before close(ready); at the top of its body;
\* in Accept; holding an accepted connection; past close(done); finished.
LoopPC == {"none", "starting", "check", "accept", "spawn", "closing", "exited"}

\* A connection: not made; queued by the kernel; returned by Accept; its handler
\* started; counted; looking up, creating and asking the breaker; dialling;
\* copying; running its deferred calls; gone.
HandlerPC == {"spawned", "counted", "lookup", "create", "allow", "dial", "copy",
              "closing", "uncount", "release"}
ConnPC    == {"new", "backlog", "accepted", "gone"} \cup HandlerPC

StopPC == {"idle", "waitAccept", "drain", "noop", "drained", "timeout", "gaveUp"}

\* The connections that are at one of these points.
At(points) == {c \in Client : pc[c] \in points}

\* NewTCPProxy.
Init ==
  /\ running = FALSE /\ stopped = FALSE
  /\ listener = "nil"
  /\ ready = FALSE /\ done = FALSE
  /\ ctxDone = FALSE
  /\ loop = "none"
  /\ activeConns = 0 /\ connWg = 0 /\ gauge = 0
  /\ circuitBreakers = [a \in Addr |-> None]
  /\ pc = [c \in Client |-> "new"]
  /\ addr = [c \in Client |-> None]
  /\ cb = [c \in Client |-> None]
  /\ copying = [c \in Client |-> {}]
  /\ stop = [s \in Stopper |-> "idle"]
  /\ expired = {}
-----------------------------------------------------------------------------
(* Start and the accept loop                                               *)

MayStart == ~stopped /\ ~running

\* Start, when it returns nil: refused calls and a failed Listen change nothing.
Start ==
  /\ MayStart
  /\ listener' = "open"
  /\ running' = TRUE
  /\ loop' = "starting"
  /\ UNCHANGED <<stopped, ready, done, ctxDone, counters, handlers, pc, stops>>

LoopReady ==
  /\ loop = "starting"
  /\ ready' = TRUE
  /\ loop' = "check"
  /\ UNCHANGED <<running, stopped, listener, done, ctxDone, counters, handlers,
                 pc, stops>>

\* The check of the context, and the deadline, which a closed listener refuses.
LoopCheck ==
  /\ loop = "check"
  /\ IF ctxDone \/ listener = "closed"
     THEN done' = TRUE /\ loop' = "closing"
     ELSE loop' = "accept" /\ UNCHANGED done
  /\ UNCHANGED <<running, stopped, listener, ready, ctxDone, counters, handlers,
                 pc, stops>>

Accept(c) ==
  /\ loop = "accept"
  /\ listener = "open"
  /\ pc[c] = "backlog"
  /\ Goto(c, "accepted")
  /\ loop' = "spawn"
  /\ UNCHANGED <<running, stopped, listener, ready, done, ctxDone, counters,
                 handlers, stops>>

\* Accept times out.
AcceptTimeout ==
  /\ loop = "accept"
  /\ loop' = "check"
  /\ UNCHANGED <<running, stopped, listener, ready, done, ctxDone, counters,
                 handlers, pc, stops>>

\* Accept fails: the listener is closed, or the error is fatal.
AcceptError ==
  /\ loop = "accept"
  /\ done' = TRUE
  /\ loop' = "closing"
  /\ UNCHANGED <<running, stopped, listener, ready, ctxDone, counters, handlers,
                 pc, stops>>

Spawn(c) ==
  /\ loop = "spawn"
  /\ pc[c] = "accepted"
  /\ connWg' = connWg + 1
  /\ Goto(c, "spawned")
  /\ loop' = "check"
  /\ UNCHANGED <<running, stopped, listener, ready, done, ctxDone, activeConns,
                 gauge, handlers, stops>>

\* acceptWg.Done, after close(done).
LoopExit ==
  /\ loop = "closing"
  /\ loop' = "exited"
  /\ UNCHANGED <<running, stopped, listener, ready, done, ctxDone, counters,
                 handlers, pc, stops>>
-----------------------------------------------------------------------------
(* Stop                                                                    *)

\* Mutant of CloseListener: Stop relies on the context to end the loop.
KeepListener == UNCHANGED listener

CloseListener == listener' = "closed"

\* The part of Stop that holds p.mu.
StopCall(s) ==
  /\ stop[s] = "idle"
  /\ IF stopped \/ ~running
     THEN /\ stop' = [stop EXCEPT ![s] = "noop"]
          /\ stopped' = TRUE
          /\ UNCHANGED <<running, listener>>
     ELSE /\ stop' = [stop EXCEPT ![s] = "waitAccept"]
          /\ stopped' = TRUE
          /\ running' = FALSE
          /\ CloseListener
  /\ UNCHANGED <<ready, done, ctxDone, loop, counters, handlers, pc, expired>>

\* Mutant of LoopGone: Stop does not wait for the accept loop.
LoopIgnored == TRUE

LoopGone == loop = "exited"

\* acceptWg.Wait returns.
StopAccepting(s) ==
  /\ stop[s] = "waitAccept"
  /\ LoopGone
  /\ stop' = [stop EXCEPT ![s] = "drain"]
  /\ UNCHANGED <<lifecycle, counters, handlers, pc, expired>>

\* connWg.Wait returned and the select takes that branch.
StopDrained(s) ==
  /\ stop[s] = "drain"
  /\ connWg = 0
  /\ stop' = [stop EXCEPT ![s] = "drained"]
  /\ UNCHANGED <<lifecycle, counters, handlers, pc, expired>>

\* The select takes the branch of the context: an error if the counter of active
\* connections is positive, nil otherwise.
StopTimeout(s) ==
  /\ stop[s] = "drain"
  /\ s \in expired
  /\ stop' = [stop EXCEPT ![s] = IF activeConns > 0 THEN "timeout" ELSE "gaveUp"]
  /\ UNCHANGED <<lifecycle, counters, handlers, pc, expired>>
-----------------------------------------------------------------------------
(* handleConnection                                                        *)

\* The handler's first statements: activeConns, then the collector.
Begin(c) ==
  /\ pc[c] = "spawned"
  /\ activeConns' = activeConns + 1
  /\ gauge' = gauge + 1
  /\ Goto(c, "counted")
  /\ UNCHANGED <<lifecycle, connWg, handlers, stops>>

\* Mutant of TurnAway: the return skips the deferred calls of the counters.
TurnAwayUncounted(c) ==
  /\ pc[c] = "counted"
  /\ Goto(c, "release")
  /\ UNCHANGED <<lifecycle, counters, handlers, stops>>

\* The connection is rate limited, or the load balancer has no backend.
TurnAway(c) ==
  /\ pc[c] = "counted"
  /\ Goto(c, "closing")
  /\ UNCHANGED <<lifecycle, counters, handlers, stops>>

\* The load balancer returns a backend.
Select(c, a) ==
  /\ pc[c] = "counted"
  /\ addr' = [addr EXCEPT ![c] = a]
  /\ Goto(c, IF WithBreakers THEN "lookup" ELSE "dial")
  /\ UNCHANGED <<lifecycle, counters, circuitBreakers, cb, copying, stops>>

\* getCircuitBreaker: the lookup under the read lock.
Lookup(c) ==
  /\ pc[c] = "lookup"
  /\ IF circuitBreakers[addr[c]] # None
     THEN Goto(c, "allow") /\ cb' = [cb EXCEPT ![c] = circuitBreakers[addr[c]]]
     ELSE Goto(c, "create") /\ UNCHANGED cb
  /\ UNCHANGED <<lifecycle, counters, circuitBreakers, addr, copying, stops>>

\* Mutant of Present: no second look after the write lock is taken.
NeverPresent(a) == FALSE

Present(a) == circuitBreakers[a] # None

\* getCircuitBreaker: the second look, and the creation, under the write lock.
Create(c) ==
  /\ pc[c] = "create"
  /\ circuitBreakers' = IF Present(addr[c]) THEN circuitBreakers
                        ELSE [circuitBreakers EXCEPT ![addr[c]] = c]
  /\ cb' = [cb EXCEPT ![c] = circuitBreakers'[addr[c]]]
  /\ Goto(c, "allow")
  /\ UNCHANGED <<lifecycle, counters, addr, copying, stops>>

\* The breaker admits or refuses the connection.
Allow(c) ==
  /\ pc[c] = "allow"
  /\ \/ Goto(c, "dial")
     \/ Goto(c, "closing")
  /\ UNCHANGED <<lifecycle, counters, handlers, stops>>

\* Dial fails: the breaker is told and the handler returns.
DialFail(c) ==
  /\ pc[c] = "dial"
  /\ Goto(c, "closing")
  /\ UNCHANGED <<lifecycle, counters, handlers, stops>>

\* Dial succeeds: the breaker is told and both copy goroutines start.
DialOK(c) ==
  /\ pc[c] = "dial"
  /\ copying' = [copying EXCEPT ![c] = {"up", "down"}]
  /\ Goto(c, "copy")
  /\ UNCHANGED <<lifecycle, counters, circuitBreakers, addr, cb, stops>>

\* One direction ends, by EOF or by an error, and half-closes its destination.
CopyEnd(c, d) ==
  /\ d \in copying[c]
  /\ copying' = [copying EXCEPT ![c] = @ \ {d}]
  /\ UNCHANGED <<lifecycle, counters, circuitBreakers, addr, cb, pc, stops>>

BothEnded(c) == copying[c] = {}

CopyDone(c) ==
  /\ pc[c] = "copy"
  /\ BothEnded(c)
  /\ Goto(c, "closing")
  /\ UNCHANGED <<lifecycle, counters, handlers, stops>>

\* The deferred calls, last one first: the backend connection, the collector and
\* the client connection; then activeConns; then connWg.
CloseConns(c) ==
  /\ pc[c] = "closing"
  /\ gauge' = gauge - 1
  /\ Goto(c, "uncount")
  /\ UNCHANGED <<lifecycle, activeConns, connWg, handlers, stops>>

Uncount(c) ==
  /\ pc[c] = "uncount"
  /\ activeConns' = activeConns - 1
  /\ Goto(c, "release")
  /\ UNCHANGED <<lifecycle, connWg, gauge, handlers, stops>>

Release(c) ==
  /\ pc[c] = "release"
  /\ connWg' = connWg - 1
  /\ Goto(c, "gone")
  /\ UNCHANGED <<lifecycle, activeConns, gauge, handlers, stops>>
-----------------------------------------------------------------------------
(* The surroundings                                                        *)

Connect(c) ==
  /\ listener = "open"
  /\ pc[c] = "new"
  /\ Goto(c, "backlog")
  /\ UNCHANGED <<lifecycle, counters, handlers, stops>>

Cancel ==
  /\ ~ctxDone
  /\ ctxDone' = TRUE
  /\ UNCHANGED <<running, stopped, listener, ready, done, loop, counters,
                 handlers, pc, stops>>

\* The deadline of a Stop call passes.
Expire(s) ==
  /\ s \notin expired
  /\ expired' = expired \cup {s}
  /\ UNCHANGED <<lifecycle, counters, handlers, pc, stop>>

AcceptLoop ==
  \/ LoopReady \/ LoopCheck \/ AcceptTimeout \/ AcceptError \/ LoopExit
  \/ \E c \in Client : Accept(c) \/ Spawn(c)

Handler(c) ==
  \/ Begin(c) \/ TurnAway(c) \/ Lookup(c) \/ Create(c) \/ Allow(c)
  \/ DialFail(c) \/ DialOK(c) \/ CopyDone(c)
  \/ CloseConns(c) \/ Uncount(c) \/ Release(c)
  \/ \E a \in Addr : Select(c, a)

Stopping(s) == StopAccepting(s) \/ StopDrained(s) \/ StopTimeout(s)

Next ==
  \/ Start
  \/ AcceptLoop
  \/ \E c \in Client : Handler(c) \/ Connect(c) \/ \E d \in copying[c] : CopyEnd(c, d)
  \/ \E s \in Stopper : StopCall(s) \/ Stopping(s) \/ Expire(s)
  \/ Cancel

Spec == Init /\ [][Next]_vars

\* Goroutines are scheduled, an Accept has a deadline of one second, and so has
\* every Stop.  Nothing says that a client ever ends its connection, that Start or
\* Stop is called, or that the context is cancelled.
Fairness ==
  /\ WF_vars(AcceptLoop)
  /\ \A c \in Client : WF_vars(Handler(c))
  /\ \A s \in Stopper : WF_vars(Stopping(s)) /\ WF_vars(Expire(s))

FairSpec == Spec /\ Fairness
-----------------------------------------------------------------------------
(* Properties                                                              *)

\* Every field has its type; no counter is ever negative, which for the wait
\* group would be a panic.
TypeOK ==
  /\ running \in BOOLEAN /\ stopped \in BOOLEAN
  /\ listener \in {"nil", "open", "closed"}
  /\ ready \in BOOLEAN /\ done \in BOOLEAN /\ ctxDone \in BOOLEAN
  /\ loop \in LoopPC
  /\ activeConns \in Nat /\ connWg \in Nat /\ gauge \in Nat
  /\ circuitBreakers \in [Addr -> Client \cup {None}]
  /\ pc \in [Client -> ConnPC]
  /\ addr \in [Client -> Addr \cup {None}]
  /\ cb \in [Client -> Client \cup {None}]
  /\ copying \in [Client -> SUBSET {"up", "down"}]
  /\ stop \in [Stopper -> StopPC]
  /\ expired \subseteq Stopper

\* "TCP proxy shutdown complete: all connections closed" (Stop): when Stop's wait
\* for the connections succeeded there is no handler and no accepted connection
\* without one, and there will be none.
DrainedIsIdle ==
  (\E s \in Stopper : stop[s] = "drained") =>
    /\ loop = "exited" /\ listener = "closed"
    /\ \A c \in Client : pc[c] \in {"new", "backlog", "gone"}

\* The wait group is never raised from zero while Stop waits on it, which
\* sync.WaitGroup forbids.
NoAddDuringWait ==
  [][connWg' > connWg => \A s \in Stopper : stop[s] # "drain"]_vars

\* Start, the accept loop and Stop close each channel once, in any order of
\* calls: a second close of ready or done would be a panic.
ChannelsClosedOnce ==
  [][/\ loop = "starting" /\ loop' = "check" => ~ready
     /\ loop' = "closing" /\ loop # "closing" => ~done]_vars

\* The wait group counts the handlers; the active counter and the collector's
\* gauge count those between their first and their deferred statements, so that
\* all three return to zero whatever way the handlers end.
CountersExact ==
  /\ connWg = Cardinality(At(HandlerPC))
  /\ activeConns = Cardinality(At(HandlerPC \ {"spawned", "release"}))
  /\ gauge = Cardinality(At(HandlerPC \ {"spawned", "uncount", "release"}))

\* One breaker per backend address (getCircuitBreaker's second look): handlers of
\* one backend always share the breaker in the map, so no failure is lost in a
\* discarded one.
OneBreaker ==
  \A c \in Client : cb[c] # None => cb[c] = circuitBreakers[addr[c]]

\* The end of one direction does not cut the other: the sockets are closed only
\* when neither copy goroutine uses them any more.
NoTruncation ==
  \A c \in Client : pc[c] # "copy" => copying[c] = {}

\* Every Stop returns, even if connections stay open for ever, because the accept
\* loop notices the closed listener and the wait has a deadline.
StopReturns ==
  \A s \in Stopper :
    stop[s] # "idle" ~> stop[s] \in {"noop", "drained", "timeout", "gaveUp"}
=============================================================================
