------------------------------ MODULE ConnPool ------------------------------
(***************************************************************************)
(* A backend's connections (internal/backend/backend.go): Backend.Dial,    *)
(* the channel-backed idle pool, and pooledConn.Close / CloseWrite, used   *)
(* by concurrent goroutines.                                               *)
(*                                                                         *)
(* A user is a goroutine that dials, uses and closes connections.  It may  *)
(* have one copy goroutine (its writer) that ends by calling CloseWrite on *)
(* the connection.  Each user and each writer moves one atomic operation   *)
(* of the code at a time: a channel operation, a critical section of the   *)
(* connection's mutex, or an atomic counter update.  A metric is updated   *)
(* together with the pool operation it counts.                             *)
(*                                                                         *)
(* halfCloseFirst says how the connections are used throughout:            *)
(*   TRUE   as TCPProxy.handleConnection does: every connection gets a     *)
(*          writer, and Close waits for it;                                *)
(*   FALSE  with or without a writer, and with CloseWrite racing Close or  *)
(*          coming after it, which no caller in the repository does.       *)
(* Every checkout is closed once, as all callers do, so that the early     *)
(* return of Close is not taken.                                           *)
(***************************************************************************)
EXTENDS Integers, Sequences, FiniteSets

CONSTANTS
  User,            \* goroutines that use the backend
  Conn,            \* connections that may ever be dialled
  NoConn,          \* no connection
  MaxIdle,         \* PoolConfig.MaxIdle, the capacity of the idle channel
  IdleTimeout,     \* PoolConfig.IdleTimeout, in ticks
  MaxLifetime,     \* PoolConfig.MaxLifetime, in ticks
  PoolEnabled,     \* EnablePooling was called
  MaxDials         \* bound on the number of Dial calls

ASSUME PoolAssumption ==
  /\ IsFiniteSet(User)
  /\ IsFiniteSet(Conn)
  /\ NoConn \notin Conn
  /\ MaxIdle \in Nat \ {0}
  /\ IdleTimeout \in Nat \ {0}
  /\ MaxLifetime \in Nat \ {0}
  /\ PoolEnabled \in BOOLEAN
  /\ MaxDials \in Nat

VARIABLES
  sock,        \* the socket of each connection
  returned,    \* pooledConn.returned
  halfClosed,  \* pooledConn.halfClosed
  connAge,         \* now - createdAt, saturated past MaxLifetime
  useAge,      \* now - lastUsed, saturated past IdleTimeout
  idle,        \* connPool.idle
  activeConns, \* Backend.activeConns
  metrics,     \* hits, misses, returned, dropped, totalConns, failures
  pc,          \* where each user is
  handle,      \* the connection a user's current call or checkout is about
  snapshot,    \* Close's local copy of halfClosed
  writer,      \* the connection a user's copy goroutine will CloseWrite
  halfCloseFirst  \* see above

conns == <<sock, returned, halfClosed, connAge, useAge>>
users == <<pc, handle, snapshot, writer>>
poolVars  == <<conns, idle, activeConns, metrics, users, halfCloseFirst>>

Metric == {"hits", "misses", "returned", "dropped", "totalConns", "failures"}
Count(field) == metrics' = [metrics EXCEPT ![field] = @ + 1]

\* Program points of a user: outside; in connPool.get; holding a connection
\* received from the channel; dialling; about to count the checkout; using it;
\* past the critical section of Close; past Close's counter update.
PC == {"out", "get", "reuse", "dialing", "count", "held", "closing", "putting"}

Goto(u, l) == pc' = [pc EXCEPT ![u] = l]

\* expired: strictly older than its lifetime, or unused for too long.
expired(c) == connAge[c] > MaxLifetime \/ useAge[c] > IdleTimeout

PoolInit ==
  /\ sock = [c \in Conn |-> "none"]
  /\ returned = [c \in Conn |-> FALSE]
  /\ halfClosed = [c \in Conn |-> FALSE]
  /\ connAge = [c \in Conn |-> 0]
  /\ useAge = [c \in Conn |-> 0]
  /\ idle = << >>
  /\ activeConns = 0
  /\ metrics = [m \in Metric |-> 0]
  /\ pc = [u \in User |-> "out"]
  /\ handle = [u \in User |-> NoConn]
  /\ snapshot = [u \in User |-> FALSE]
  /\ writer = [u \in User |-> NoConn]
  /\ halfCloseFirst \in BOOLEAN
-----------------------------------------------------------------------------
(* Backend.Dial                                                            *)

\* Dial is called; without a pool it goes straight to the dialler.
Dial(u) ==
  /\ pc[u] = "out"
  /\ metrics["hits"] + metrics["totalConns"] < MaxDials
  /\ IF PoolEnabled
     THEN Goto(u, "get") /\ UNCHANGED metrics
     ELSE Goto(u, "dialing") /\ Count("totalConns")
  /\ UNCHANGED <<conns, idle, activeConns, handle, snapshot, writer>>

Received == idle' = Tail(idle)

\* get: one turn of the loop discards an expired connection, or one that
\* usable() rejects.
GetDrop(u) ==
  /\ pc[u] = "get"
  /\ idle # << >>
  /\ Count("dropped")
  /\ sock' = [sock EXCEPT ![Head(idle)] = "closed"]
  /\ Received
  /\ UNCHANGED <<returned, halfClosed, connAge, useAge, activeConns, users>>

\* get: the head of the channel is neither expired nor unusable.
GetHit(u) ==
  /\ pc[u] = "get"
  /\ idle # << >>
  /\ ~expired(Head(idle))
  /\ Count("hits")
  /\ handle' = [handle EXCEPT ![u] = Head(idle)]
  /\ Received
  /\ Goto(u, "reuse")
  /\ UNCHANGED <<conns, activeConns, snapshot, writer>>

\* get: the channel is empty, and Dial goes on to dial.
GetMiss(u) ==
  /\ pc[u] = "get"
  /\ idle = << >>
  /\ metrics' = [metrics EXCEPT !["misses"] = @ + 1, !["totalConns"] = @ + 1]
  /\ Goto(u, "dialing")
  /\ UNCHANGED <<conns, idle, activeConns, handle, snapshot, writer>>

Reuse(u) ==
  /\ pc[u] = "reuse"
  /\ useAge' = [useAge EXCEPT ![handle[u]] = 0]
  /\ returned' = [returned EXCEPT ![handle[u]] = FALSE]
  /\ Goto(u, "count")
  /\ UNCHANGED <<sock, halfClosed, connAge, idle, activeConns, metrics, handle,
                 snapshot, writer>>

DialFail(u) ==
  /\ pc[u] = "dialing"
  /\ Count("failures")
  /\ Goto(u, "out")
  /\ UNCHANGED <<conns, idle, activeConns, handle, snapshot, writer>>

\* A new pooledConn (Conn bounds how many there can be); touch() resets lastUsed and returned.
DialOK(u, c) ==
  /\ pc[u] = "dialing"
  /\ sock[c] = "none"
  /\ sock' = [sock EXCEPT ![c] = "open"]
  /\ handle' = [handle EXCEPT ![u] = c]
  /\ Goto(u, "count")
  /\ UNCHANGED <<returned, halfClosed, connAge, useAge, idle, activeConns, metrics,
                 snapshot, writer>>

\* Dial returns; the user may start its copy goroutine.
Checkout(u) ==
  /\ pc[u] = "count"
  /\ activeConns' = activeConns + 1
  /\ Goto(u, "held")
  /\ \/ writer[u] = NoConn /\ writer' = [writer EXCEPT ![u] = handle[u]]
     \/ ~halfCloseFirst /\ UNCHANGED writer
  /\ UNCHANGED <<conns, idle, metrics, handle, snapshot>>
-----------------------------------------------------------------------------
(* pooledConn.Close                                                        *)

\* The critical section.  A second Close of the same checkout would do nothing.
Close(u) ==
  LET c == handle[u] IN
  /\ pc[u] = "held"
  /\ halfCloseFirst => writer[u] = NoConn
  /\ IF returned[c]
     THEN Goto(u, "out") /\ handle' = [handle EXCEPT ![u] = NoConn]
                         /\ UNCHANGED <<returned, snapshot>>
     ELSE Goto(u, "closing") /\ returned' = [returned EXCEPT ![c] = TRUE]
                             /\ snapshot' = [snapshot EXCEPT ![u] = halfClosed[c]]
                             /\ UNCHANGED handle
  /\ UNCHANGED <<sock, halfClosed, connAge, useAge, idle, activeConns, metrics, writer>>

\* Mutant of Release: the counter is left alone when FIN has been sent.
ReleaseUnlessHalfClosed(u) ==
  activeConns' = activeConns - (IF snapshot[u] THEN 0 ELSE 1)

Release(u) == activeConns' = activeConns - 1

CloseRelease(u) ==
  /\ pc[u] = "closing"
  /\ Release(u)
  /\ Goto(u, "putting")
  /\ UNCHANGED <<conns, idle, metrics, handle, snapshot, writer>>

\* Mutant of Poolable: FIN is forgotten.
PoolableAlways(u) == PoolEnabled

Poolable(u) == PoolEnabled /\ ~snapshot[u]
PoolHasRoom     == Len(idle) < MaxIdle

\* put: accepted by the channel.
CloseReturn(u) ==
  /\ Poolable(u)
  /\ ~expired(handle[u])
  /\ PoolHasRoom
  /\ idle' = Append(idle, handle[u])
  /\ Count("returned")
  /\ UNCHANGED sock

\* Mutant of CloseDrop: the discarded connection is not closed.
CloseDropLeaks(u) ==
  /\ Poolable(u)
  /\ expired(handle[u]) \/ ~PoolHasRoom
  /\ Count("dropped")
  /\ UNCHANGED <<idle, sock>>

\* put: expired, or the channel is full.
CloseDrop(u) ==
  /\ Poolable(u)
  /\ expired(handle[u]) \/ ~PoolHasRoom
  /\ Count("dropped")
  /\ sock' = [sock EXCEPT ![handle[u]] = "closed"]
  /\ UNCHANGED idle

\* Mutant of CloseSocket: it counts as dropped.
CloseSocketDrops(u) ==
  /\ ~Poolable(u)
  /\ Count("dropped")
  /\ sock' = [sock EXCEPT ![handle[u]] = "closed"]
  /\ UNCHANGED idle

\* No pool, or FIN was sent: the socket is closed for good.
CloseSocket(u) ==
  /\ ~Poolable(u)
  /\ sock' = [sock EXCEPT ![handle[u]] = "closed"]
  /\ UNCHANGED <<idle, metrics>>

CloseFinish(u) ==
  /\ pc[u] = "putting"
  /\ CloseReturn(u) \/ CloseDrop(u) \/ CloseSocket(u)
  /\ Goto(u, "out")
  /\ handle' = [handle EXCEPT ![u] = NoConn]
  /\ UNCHANGED <<returned, halfClosed, connAge, useAge, activeConns, snapshot, writer>>
-----------------------------------------------------------------------------
\* Mutant of CheckedOut: CloseWrite does not look at returned.
CheckedOutAlways(c) == TRUE

CheckedOut(c) == ~returned[c]

\* pooledConn.CloseWrite, called by the copy goroutine of user u when its copy
\* ends.  The whole body holds the connection's mutex.
CloseWrite(u) ==
  LET c == writer[u] IN
  /\ c # NoConn
  /\ writer' = [writer EXCEPT ![u] = NoConn]
  /\ IF CheckedOut(c)
     THEN /\ halfClosed' = [halfClosed EXCEPT ![c] = TRUE]
          /\ sock' = [sock EXCEPT ![c] = "fin"]
     ELSE UNCHANGED <<halfClosed, sock>>
  /\ UNCHANGED <<returned, connAge, useAge, idle, activeConns, metrics, pc, handle,
                 snapshot>>

Older(a, cap) == IF a < cap THEN a + 1 ELSE cap

\* Time passes for the connections that are open.
PoolTick ==
  LET live == {c \in Conn : sock[c] \in {"open", "fin"}} IN
  /\ live # {}
  /\ connAge' = [c \in Conn |-> IF c \in live THEN Older(connAge[c], MaxLifetime + 1)
                                          ELSE connAge[c]]
  /\ useAge' = [c \in Conn |-> IF c \in live THEN Older(useAge[c], IdleTimeout + 1)
                                             ELSE useAge[c]]
  /\ UNCHANGED <<sock, returned, halfClosed, idle, activeConns, metrics, users>>

PoolNext ==
  /\ \/ \E u \in User :
          \/ Dial(u) \/ GetDrop(u) \/ GetHit(u) \/ GetMiss(u) \/ Reuse(u)
          \/ DialFail(u) \/ Checkout(u)
          \/ Close(u) \/ CloseRelease(u) \/ CloseFinish(u) \/ CloseWrite(u)
     \/ \E u \in User, c \in Conn : DialOK(u, c)
     \/ PoolTick
  /\ UNCHANGED halfCloseFirst

PoolSpec == PoolInit /\ [][PoolNext]_poolVars
-----------------------------------------------------------------------------
(* Properties                                                              *)

\* Every field has its type and the channel never exceeds its capacity.
PoolTypeOK ==
  /\ sock \in [Conn -> {"none", "open", "fin", "closed"}]
  /\ returned \in [Conn -> BOOLEAN]
  /\ halfClosed \in [Conn -> BOOLEAN]
  /\ connAge \in [Conn -> 0..(MaxLifetime + 1)]
  /\ useAge \in [Conn -> 0..(IdleTimeout + 1)]
  /\ idle \in Seq(Conn) /\ Len(idle) <= MaxIdle
  /\ activeConns \in Int
  /\ metrics \in [Metric -> Nat]
  /\ pc \in [User -> PC]
  /\ handle \in [User -> Conn \cup {NoConn}]
  /\ snapshot \in [User -> BOOLEAN]
  /\ writer \in [User -> Conn \cup {NoConn}]
  /\ halfCloseFirst \in BOOLEAN

\* Close and CloseWrite "can never interleave into 'pooled but half-closed'"
\* (CloseWrite): whatever the two do concurrently, a connection waiting in the
\* pool is open in both directions, is marked returned, is in the pool once, and
\* nobody else still has it checked out.
PoolClean ==
  /\ \A i \in 1..Len(idle) :
       /\ sock[idle[i]] = "open"
       /\ returned[idle[i]]
       /\ ~halfClosed[idle[i]]
       /\ \A u \in User : handle[u] # idle[i]
  /\ \A i, j \in 1..Len(idle) : idle[i] = idle[j] => i = j

\* The users at one of the points S.
UsersAt(S) == {u \in User : pc[u] \in S}

\* activeConns, which least-connections balancing reads, counts every user that has
\* a connection and nobody that has not asked for one or is done with it, on every
\* path out of Dial and through Close.
ActiveTracksUse ==
  /\ Cardinality(UsersAt({"held"})) <= activeConns
  /\ activeConns <= Cardinality(UsersAt(PC \ {"out", "putting"}))

\* "increment before dial, decrement on close" (Dial, backend.go:172): a user that
\* is dialling is counted, so that the next choice of a backend sees it.
CountedWhileDialing == Cardinality(UsersAt({"dialing", "held"})) <= activeConns

\* No socket is leaked: one that is still open is in the pool or belongs to a
\* user that will close or return it.
NoSocketLeak ==
  \A c \in Conn : sock[c] \in {"open", "fin"} =>
    \/ \E i \in 1..Len(idle) : idle[i] = c
    \/ \E u \in User : handle[u] = c

\* The dropped metric counts each connection the pool discarded exactly once,
\* although put closes the socket and Close closes it again, and never counts
\* one that was closed because it had sent FIN.
DroppedExact ==
  PoolEnabled => metrics["dropped"] =
    Cardinality({c \in Conn : sock[c] = "closed" /\ ~halfClosed[c]})

\* README, "the L4 pool hit counter stays at zero": a proxied connection is
\* always half-closed before it is closed, so it never enters the pool.
NeverPooled == idle = << >> /\ metrics["hits"] = 0
L4NeverPooled == halfCloseFirst => NeverPooled
=============================================================================
