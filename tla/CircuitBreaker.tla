--------------------------- MODULE CircuitBreaker ---------------------------
(***************************************************************************)
(* One circuit breaker (internal/circuitbreaker/circuitbreaker.go) and the *)
(* callers that share it.  Allow and RecordResult hold cb.mu for their     *)
(* whole body, so each is one atomic step; what interleaves are the steps  *)
(* of different callers, the passage of time, and Reset.                   *)
(*                                                                         *)
(* Time.  The code stores instants and only ever compares "now - instant"  *)
(* with Timeout or Window.  The model stores the elapsed times themselves, *)
(* each saturated just past the largest value it is compared with, so that *)
(* time can run forever in a finite model.                                 *)
(*                                                                         *)
(* A caller does what both proxies do: Allow, then, if admitted, the       *)
(* request, then RecordResult exactly once (proxy/tcp.go:407-427,          *)
(* proxy/http.go:166-201).                                                 *)
(***************************************************************************)
EXTENDS Integers, FiniteSets

CONSTANTS
  Caller,               \* goroutines that use the breaker
  FailureThreshold,     \* Config.FailureThreshold
  SuccessThreshold,     \* Config.SuccessThreshold
  MaxHalfOpenRequests,  \* Config.MaxHalfOpenRequests, before New defaults it
  Timeout,              \* Config.Timeout, in ticks
  Window,               \* Config.Window, in ticks
  CounterMod            \* modulus of the total* counters (2^64 in the code)

ASSUME ConfigAssumption ==
  /\ IsFiniteSet(Caller)
  /\ FailureThreshold \in Nat \ {0}
  /\ SuccessThreshold \in Nat \ {0}
  /\ MaxHalfOpenRequests \in Int
  /\ Timeout \in Nat \ {0}
  /\ Window \in Nat \ {0}
  /\ CounterMod \in Nat \ {0}

VARIABLES
  state,             \* cb.state
  failures,          \* cb.failures
  successes,         \* cb.successes
  halfOpenInFlight,  \* cb.halfOpenInFlight
  sinceFailure,      \* now - cb.lastFailure, saturated at Timeout
  windowAge,         \* now - cb.windowStart, saturated at Window + 1
  totals,            \* totalRequests, totalSuccess, totalFailures, totalRejected
  pending,           \* callers admitted and not yet reported
  up,                \* environment: while TRUE every request succeeds
  \* History, read by properties only.
  round,             \* pending probes of the current half-open period
  sinceOpen,         \* time since the circuit last opened, saturated at Timeout
  recent             \* ages of the last FailureThreshold uninterrupted failures

code    == <<state, failures, successes, halfOpenInFlight, sinceFailure,
             windowAge, totals>>
history == <<round, sinceOpen, recent>>
cbVars    == <<code, pending, up, history>>

StateClosed   == "closed"
StateOpen     == "open"
StateHalfOpen == "half-open"

\* New: zero or less means "derive from SuccessThreshold".
MaxHalfOpen == IF MaxHalfOpenRequests <= 0 THEN SuccessThreshold
                                           ELSE MaxHalfOpenRequests

\* The age of an instant that is "never, or longer ago than Window".
Old   == Window + 1
Never == [i \in 1..FailureThreshold |-> Old]

\* The atomic counters of the breaker.
TotalField == {"requests", "success", "failures", "rejected"}

Older(age, cap) == IF age < cap THEN age + 1 ELSE cap
Count(t, field) == [t EXCEPT ![field] = (@ + 1) % CounterMod]

\* New.  The zero time.Time in lastFailure is older than any Timeout.
CBInit ==
  /\ state = StateClosed
  /\ failures = 0
  /\ successes = 0
  /\ halfOpenInFlight = 0
  /\ sinceFailure = Timeout
  /\ windowAge = 0
  /\ totals = [f \in TotalField |-> 0]
  /\ pending = {}
  /\ up = TRUE
  /\ round = {}
  /\ sinceOpen = Timeout
  /\ recent = Never
-----------------------------------------------------------------------------
(* Allow                                                                   *)

Expired == sinceFailure >= Timeout
HasSlot == halfOpenInFlight < MaxHalfOpen

AllowClosed(c) ==
  /\ state = StateClosed
  /\ UNCHANGED <<state, successes, halfOpenInFlight, round>>

AllowPromoted(c) ==
  /\ state = StateOpen
  /\ Expired
  /\ state' = StateHalfOpen
  /\ successes' = 0
  /\ halfOpenInFlight' = 1
  /\ round' = {c}

AllowProbe(c) ==
  /\ state = StateHalfOpen
  /\ HasSlot
  /\ halfOpenInFlight' = halfOpenInFlight + 1
  /\ round' = round \cup {c}
  /\ UNCHANGED <<state, successes>>

\* Allow returns nil.
Admit(c) ==
  /\ c \notin pending
  /\ AllowClosed(c) \/ AllowPromoted(c) \/ AllowProbe(c)
  /\ pending' = pending \cup {c}
  /\ totals' = Count(totals, "requests")
  /\ UNCHANGED <<failures, sinceFailure, windowAge, up, sinceOpen, recent>>

\* Mutant of Reject: totalRejected is left alone when the cap is reached.
RejectUncounted(c) ==
  /\ c \notin pending
  /\ \/ /\ state = StateOpen /\ ~Expired
        /\ totals' = Count(Count(totals, "requests"), "rejected")
     \/ /\ state = StateHalfOpen /\ ~HasSlot
        /\ totals' = Count(totals, "requests")
  /\ UNCHANGED <<state, failures, successes, halfOpenInFlight, sinceFailure,
                 windowAge, pending, up, history>>

\* Allow returns ErrCircuitOpen.
Reject(c) ==
  /\ c \notin pending
  /\ \/ state = StateOpen /\ ~Expired
     \/ state = StateHalfOpen /\ ~HasSlot
  /\ totals' = Count(Count(totals, "requests"), "rejected")
  /\ UNCHANGED <<state, failures, successes, halfOpenInFlight, sinceFailure,
                 windowAge, pending, up, history>>
-----------------------------------------------------------------------------
(* RecordResult(nil)                                                       *)

\* Mutant of ReleaseProbe: the slot is never freed.
NeverReleaseProbe == halfOpenInFlight

ReleaseProbe == IF halfOpenInFlight > 0 THEN halfOpenInFlight - 1 ELSE 0

\* Half-open, and this success is not the last one needed.
SuccessProbe(c) ==
  /\ state = StateHalfOpen
  /\ successes + 1 < SuccessThreshold
  /\ halfOpenInFlight' = ReleaseProbe
  /\ successes' = successes + 1
  /\ round' = round \ {c}
  /\ UNCHANGED <<state, failures, windowAge, recent>>

\* Half-open, and the circuit closes.
SuccessCloses ==
  /\ state = StateHalfOpen
  /\ successes + 1 >= SuccessThreshold
  /\ state' = StateClosed
  /\ failures' = 0
  /\ successes' = 0
  /\ halfOpenInFlight' = 0
  /\ windowAge' = 0
  /\ round' = {}
  /\ recent' = Never

SuccessClosed ==
  /\ state = StateClosed
  /\ failures' = 0
  /\ recent' = Never
  /\ UNCHANGED <<state, successes, halfOpenInFlight, windowAge, round>>

SuccessOpen ==
  /\ state = StateOpen
  /\ UNCHANGED <<state, failures, successes, halfOpenInFlight, windowAge,
                 round, recent>>

RecordSuccess(c) ==
  /\ c \in pending
  /\ SuccessProbe(c) \/ SuccessCloses \/ SuccessClosed \/ SuccessOpen
  /\ pending' = pending \ {c}
  /\ totals' = Count(totals, "success")
  /\ UNCHANGED <<sinceFailure, up, sinceOpen>>
-----------------------------------------------------------------------------
(* RecordResult(err)                                                       *)

\* Mutant of FailureReopens: lastFailure keeps the instant of the first trip.
FailureReopensKeepsClock ==
  /\ state = StateHalfOpen
  /\ state' = StateOpen
  /\ successes' = 0
  /\ halfOpenInFlight' = 0
  /\ sinceOpen' = 0
  /\ round' = {}
  /\ UNCHANGED <<failures, sinceFailure, windowAge, recent>>

FailureReopens ==
  /\ state = StateHalfOpen
  /\ state' = StateOpen
  /\ sinceFailure' = 0
  /\ successes' = 0
  /\ halfOpenInFlight' = 0
  /\ sinceOpen' = 0
  /\ round' = {}
  /\ UNCHANGED <<failures, windowAge, recent>>

\* Mutant of NewWindow: the failure count never starts over.
NeverNewWindow == FALSE

NewWindow == windowAge > Window

FailureClosed ==
  LET counted == (IF NewWindow THEN 0 ELSE failures) + 1
      trips   == counted >= FailureThreshold
  IN  /\ state = StateClosed
      /\ windowAge' = IF NewWindow THEN 0 ELSE windowAge
      /\ failures' = counted
      /\ sinceFailure' = 0
      /\ state' = IF trips THEN StateOpen ELSE StateClosed
      /\ sinceOpen' = IF trips THEN 0 ELSE sinceOpen
      /\ recent' = [i \in 1..FailureThreshold |->
                      IF i = FailureThreshold THEN 0 ELSE recent[i + 1]]
      /\ UNCHANGED <<successes, halfOpenInFlight, round>>

FailureOpen ==
  /\ state = StateOpen
  /\ UNCHANGED <<state, failures, successes, halfOpenInFlight, sinceFailure,
                 windowAge, history>>

RecordFailure(c) ==
  /\ c \in pending
  /\ ~up
  /\ FailureReopens \/ FailureClosed \/ FailureOpen
  /\ pending' = pending \ {c}
  /\ totals' = Count(totals, "failures")
  /\ UNCHANGED up
-----------------------------------------------------------------------------
\* Reset leaves lastFailure, the totals and the callers alone.
Reset ==
  /\ state' = StateClosed
  /\ failures' = 0
  /\ successes' = 0
  /\ halfOpenInFlight' = 0
  /\ windowAge' = 0
  /\ round' = {}
  /\ recent' = Never
  /\ UNCHANGED <<sinceFailure, totals, pending, up, sinceOpen>>

\* One unit of time passes.
Tick ==
  /\ sinceFailure' = Older(sinceFailure, Timeout)
  /\ windowAge' = Older(windowAge, Old)
  /\ sinceOpen' = Older(sinceOpen, Timeout)
  /\ recent' = [i \in 1..FailureThreshold |-> Older(recent[i], Old)]
  /\ UNCHANGED <<state, failures, successes, halfOpenInFlight, totals, pending,
                 up, round>>

\* The backend starts or stops failing requests.
Toggle ==
  /\ up' = ~up
  /\ UNCHANGED <<code, pending, history>>

CBNext ==
  \/ \E c \in Caller : Admit(c) \/ Reject(c) \/ RecordSuccess(c) \/ RecordFailure(c)
  \/ Reset
  \/ Tick
  \/ Toggle

CBSpec == CBInit /\ [][CBNext]_cbVars

\* The clock runs, every admitted request is reported (a dial has a timeout,
\* a round trip ends with its client), and requests keep arriving.
CBFairness ==
  /\ WF_cbVars(Tick)
  /\ WF_cbVars(\E c \in Caller : Admit(c))
  /\ \A c \in Caller : WF_cbVars(RecordSuccess(c) \/ RecordFailure(c))

CBFairSpec == CBSpec /\ CBFairness
-----------------------------------------------------------------------------
(* Properties                                                              *)

\* Every field has its type; the slot count is never negative and never above
\* MaxHalfOpen, the failure count never above the threshold, and the success
\* count never reaches its threshold without closing the circuit.
CBTypeOK ==
  /\ state \in {StateClosed, StateOpen, StateHalfOpen}
  /\ failures \in 0..FailureThreshold
  /\ successes \in 0..(SuccessThreshold - 1)
  /\ halfOpenInFlight \in 0..MaxHalfOpen
  /\ sinceFailure \in 0..Timeout
  /\ windowAge \in 0..Old
  /\ totals \in [TotalField -> 0..(CounterMod - 1)]
  /\ pending \subseteq Caller
  /\ up \in BOOLEAN
  /\ round \subseteq pending
  /\ sinceOpen \in 0..Timeout
  /\ recent \in [1..FailureThreshold -> 0..Old]

\* An abandoned probe cannot wedge the breaker shut (docs/DESIGN-DECISIONS.md,
\* "Circuit breaker"): every occupied half-open slot belongs to a probe of the
\* current half-open period that has yet to report, and no slot is occupied in
\* any other state.  Late results of older requests may free a slot but never
\* leave one behind.
NoOrphanSlot ==
  IF state = StateHalfOpen THEN halfOpenInFlight <= Cardinality(round)
                           ELSE halfOpenInFlight = 0 /\ round = {}

\* The circuit leaves closed only on a burst: the last FailureThreshold results
\* were failures, with no success between them, none older than Window
\* ("failures >= threshold in window", RecordResult).
OpensOnlyOnBurst ==
  [][state = StateClosed /\ state' = StateOpen => recent'[1] <= Window]_cbVars

\* While the circuit is open its timeout runs from the moment it opened: results
\* that arrive late neither shorten nor extend the time the backend is left alone.
TimeoutFromTrip == state = StateOpen => sinceFailure = sinceOpen

\* No result is lost or counted twice: the requests that were neither rejected
\* nor reported are exactly the callers between Allow and RecordResult.
TotalsBalance ==
  (totals["requests"] - totals["rejected"] - totals["success"] - totals["failures"]
     - Cardinality(pending)) % CounterMod = 0

\* Once the backend stops failing, the circuit ends up closed for good, whatever
\* state it is in and whatever late results it still receives.
Recovers == <>[]up => <>[](state = StateClosed)

\* "MaxHalfOpenRequests caps the number of probes in flight" (line 33): the
\* probes of the current half-open period that are still out.
ProbesCapped == Cardinality(round) <= MaxHalfOpen

\* The abstract breaker, read off the concrete one.
Gate == INSTANCE BreakerGate WITH mode <- state, out <- pending, wait <- sinceOpen

\* The breaker keeps the promise the proxies rely on: it opens only on a result,
\* lets nobody through until its whole timeout since that result has passed,
\* takes one result per caller, and lets no late result move an open circuit.
ImplementsGate == Gate!Spec
=============================================================================
