----------------------------- MODULE HTTPProxy -----------------------------
(***************************************************************************)
(* The L7 path as main assembles it (buildHTTPServer): Recovery, Tracing,  *)
(* Metrics, RateLimit, then HTTPProxy (internal/proxy/http.go) in front of *)
(* one backend.  Each request is a goroutine of net/http; they share the   *)
(* token bucket (which the L4 listener draws from as well), the backend's  *)
(* circuit breaker and the collector's counters.                           *)
(*                                                                         *)
(* The bucket and the breaker are their abstract specifications,           *)
(* TokenBudget and BreakerGate, which TokenBucket and CircuitBreaker       *)
(* implement.  Breakers of different backends share nothing, so one        *)
(* backend stands for each of them.                                        *)
(*                                                                         *)
(* A handler may panic where it runs code it does not own: the             *)
(* RoundTripper, which WithHTTPTransport replaces, and the response        *)
(* writer.                                                                 *)
(***************************************************************************)
EXTENDS Integers, FiniteSets

CONSTANTS
  Request,                 \* the requests that may arrive
  Timeout,                 \* breaker: see BreakerGate
  Burst, FillRates,        \* bucket: its capacity, and the rates it may have
  MaxTicks                 \* bound: units of time that pass

ASSUME HTTPAssumption ==
  IsFiniteSet(Request) /\ Timeout \in Nat /\ Burst \in Nat /\ FillRates \subseteq Nat

VARIABLES
  at,                \* where each request is
  status,            \* the status code sent, 0 before WriteHeader
  options,           \* is there a limiter, are there breakers: buildHTTPServer
  made,              \* the backend's breaker is in p.circuitBreakers
  mode, out, wait,   \* that breaker
  level, perTick,    \* the bucket
  activeRequests,    \* p.activeRequests
  connectionsActive, \* collector.connectionsActive
  requestsTotal,     \* collector.requestsTotal
  granted, elapsed   \* tokens granted and units passed so far (history)

counters == <<activeRequests, connectionsActive, requestsTotal>>
breaker  == <<made, mode, out, wait>>
bucket   == <<level, perTick, granted, elapsed>>
vars     == <<at, status, options, breaker, bucket, counters>>

Gate   == INSTANCE BreakerGate WITH Caller <- Request
Budget == INSTANCE TokenBudget WITH Capacity <- Burst, Rates <- FillRates, Costs <- {1}

\* Outside; in the rate limiter; in ServeHTTP before, while looking up and while
\* creating the breaker, and at Allow; at the backend; copying the body; back in
\* the Metrics middleware; done; unwound by a panic at the backend, or later.
InProxy == {"pick", "lookup", "create", "allow", "forward", "copy"}
Chain   == {"limit", "record"} \cup InProxy
Stage   == {"outside", "done", "lost", "aborted"} \cup Chain

Init ==
  /\ at = [q \in Request |-> "outside"]
  /\ status = [q \in Request |-> 0]
  /\ options \in [limiter : BOOLEAN, breakers : BOOLEAN]
  /\ made = FALSE
  /\ Gate!Init
  /\ Budget!Init
  /\ granted = 0 /\ elapsed = 0
  /\ activeRequests = 0 /\ connectionsActive = 0 /\ requestsTotal = 0

Goto(q, from, to) == at[q] \in from /\ at' = [at EXCEPT ![q] = to]

\* responseWriter.WriteHeader: the first status wins.
Sent(q, code) == IF status[q] = 0 THEN code ELSE status[q]

Answer(q, code) == status' = [status EXCEPT ![q] = Sent(q, code)]

\* Tracing and Metrics on the way in.
Arrive(q) ==
  /\ Goto(q, {"outside"}, "limit")
  /\ connectionsActive' = connectionsActive + 1
  /\ UNCHANGED <<status, options, breaker, bucket, activeRequests, requestsTotal>>

\* Mutant of Pass: the bucket is asked, its answer ignored.
PassAlways == \/ Budget!Grant(1) /\ granted' = granted + 1
              \/ Budget!Refuse(1) /\ granted' = granted + 1

Pass == Budget!Grant(1) /\ granted' = granted + 1

\* RateLimit, and the entry of ServeHTTP behind it.
RateLimit(q) ==
  /\ \/ /\ IF options.limiter THEN Pass /\ UNCHANGED elapsed ELSE UNCHANGED bucket
        /\ Goto(q, {"limit"}, "pick")
        /\ activeRequests' = activeRequests + 1
        /\ UNCHANGED status
     \/ /\ options.limiter /\ Budget!Refuse(1) /\ UNCHANGED <<granted, elapsed>>
        /\ Goto(q, {"limit"}, "record")
        /\ Answer(q, 429)
        /\ UNCHANGED activeRequests
  /\ UNCHANGED <<options, breaker, connectionsActive, requestsTotal>>

\* ServeHTTP returns: its deferred decrement runs.
Leave(q, from, code) ==
  /\ Goto(q, from, "record")
  /\ Answer(q, code)
  /\ activeRequests' = activeRequests - 1
  /\ UNCHANGED connectionsActive

\* lb.Next.
Pick(q) ==
  /\ \/ Leave(q, {"pick"}, 503) /\ UNCHANGED requestsTotal
     \/ /\ Goto(q, {"pick"}, IF options.breakers THEN "lookup" ELSE "forward")
        /\ UNCHANGED <<status, counters>>
  /\ UNCHANGED <<options, breaker, bucket>>

\* getCircuitBreaker under the read lock.
Lookup(q) ==
  /\ Goto(q, {"lookup"}, IF made THEN "allow" ELSE "create")
  /\ UNCHANGED <<status, options, breaker, bucket, counters>>

\* Mutant of Absent: no second look under the write lock.
AbsentUnchecked == TRUE

\* The second look of the double-checked lookup.
Absent == ~made

\* getCircuitBreaker under the write lock: a new breaker is closed and empty.
Create(q) ==
  /\ Goto(q, {"create"}, "allow")
  /\ IF Absent THEN made' = TRUE /\ mode' = "closed" /\ out' = {} /\ wait' = Timeout
               ELSE UNCHANGED breaker
  /\ UNCHANGED <<status, options, bucket, counters>>

Allow(q) ==
  /\ \/ Gate!Admit(q) /\ Goto(q, {"allow"}, "forward") /\ UNCHANGED <<status, counters>>
     \/ Gate!Refuse(q) /\ Leave(q, {"allow"}, 503) /\ UNCHANGED requestsTotal
  /\ UNCHANGED <<options, made, bucket>>

Report(q) == IF options.breakers THEN Gate!Report(q) ELSE UNCHANGED <<mode, out, wait>>

\* Mutant of FailureReport: the error path returns without RecordResult.
FailureUnreported(q) == UNCHANGED <<mode, out, wait>>

FailureReport(q) == Report(q)

\* cloneRequest and RoundTrip.  An error is answered 504 or 502; a response has
\* its status and headers copied.
Forward(q) ==
  /\ \/ /\ FailureReport(q)
        /\ \E code \in {502, 504} : Leave(q, {"forward"}, code)
        /\ UNCHANGED requestsTotal
     \/ /\ Report(q)
        /\ Goto(q, {"forward"}, "copy")
        /\ \E code \in {200, 500} : Answer(q, code)
        /\ UNCHANGED counters
  /\ UNCHANGED <<options, made, bucket>>

\* The body, whose copy errors are ignored, and the per-backend metrics.
Copy(q) ==
  /\ Leave(q, {"copy"}, 200)
  /\ requestsTotal' = requestsTotal + 1
  /\ UNCHANGED <<options, breaker, bucket>>

\* Metrics on the way out: RecordRequest and RecordConnectionClosed.
Record(q) ==
  /\ Goto(q, {"record"}, "done")
  /\ requestsTotal' = requestsTotal + 1
  /\ connectionsActive' = connectionsActive - 1
  /\ UNCHANGED <<status, options, breaker, bucket, activeRequests>>

\* Mutant of Unwound: the decrement is not deferred.
UnwoundNot == 0

\* What the deferred calls of ServeHTTP subtract from activeRequests.
Unwound == 1

\* A panic: the deferred calls run, and Recovery answers 500 if nothing was sent.
Panic(q) ==
  /\ \/ Goto(q, {"forward"}, "lost")
     \/ Goto(q, {"copy"}, "aborted")
  /\ Answer(q, 500)
  /\ activeRequests' = activeRequests - Unwound
  /\ UNCHANGED <<options, breaker, bucket, connectionsActive, requestsTotal>>

\* The L4 listener asks the same bucket for each connection it accepts.
L4Accept ==
  /\ options.limiter
  /\ Pass
  /\ UNCHANGED <<at, status, options, breaker, elapsed, counters>>

Tick ==
  /\ elapsed < MaxTicks
  /\ elapsed' = elapsed + 1
  /\ Gate!Tick
  /\ Budget!Tick
  /\ UNCHANGED <<at, status, options, made, granted, counters>>

\* The steps of a request in the chain, up to a panic.
Handle(q) ==
  \/ RateLimit(q) \/ Pick(q) \/ Lookup(q) \/ Create(q) \/ Allow(q)
  \/ Forward(q) \/ Copy(q) \/ Record(q)

Next ==
  \/ \E q \in Request : Arrive(q) \/ Handle(q) \/ Panic(q)
  \/ L4Accept
  \/ Tick

Spec == Init /\ [][Next]_vars
-----------------------------------------------------------------------------
(* Properties                                                              *)

\* Every variable has its type.
TypeOK ==
  /\ at \in [Request -> Stage]
  /\ status \in [Request -> {0, 200, 429, 500, 502, 503, 504}]
  /\ made \in BOOLEAN
  /\ mode \in {"closed", "open", "half-open"} /\ out \subseteq Request /\ wait \in 0..Timeout
  /\ level \in 0..Burst

\* The requests in the stages S.
In(S) == {q \in Request : at[q] \in S}

\* The breaker waits for a result from exactly the requests that are at the
\* backend, and from those a panic took from there: no early return of
\* ServeHTTP keeps a slot, and no result goes to a breaker that did not admit
\* its request, however many requests create the breaker at once.
ReportsOwed == options.breakers => out = In({"forward", "lost"})

\* activeRequests is the number of requests inside ServeHTTP, panics included;
\* connectionsActive counts every request in the chain, and nothing else as long
\* as no handler has panicked; no request that went through the chain is missing
\* from requestsTotal.
CountersSound ==
  /\ activeRequests = Cardinality(In(InProxy))
  /\ connectionsActive >= Cardinality(In(Chain))
  /\ In({"lost", "aborted"}) = {} => connectionsActive = Cardinality(In(Chain))
  /\ requestsTotal >= Cardinality(In({"done"}))

\* connectionsActive is what internal/metrics/metrics.go:27 calls it, "Currently
\* active connections": it counts the requests in the chain and no others, also after a
\* handler has panicked.
GaugeTrue == connectionsActive = Cardinality(In(Chain))

\* The two listeners together never pass more than the burst and what the rate
\* has earned since the start.
WithinBudget == granted <= Burst + perTick * elapsed

\* A request has one status: what was sent first stays, and a request leaves the
\* chain with one.
OneStatus ==
  [][\A q \in Request : /\ status[q] # 0 => status'[q] = status[q]
                        /\ at'[q] \in {"record", "done", "lost", "aborted"} => status'[q] # 0]_vars
=============================================================================
