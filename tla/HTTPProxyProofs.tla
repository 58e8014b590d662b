-------------------------- MODULE HTTPProxyProofs --------------------------
(***************************************************************************)
(* The L7 path for any number of concurrent requests, any bucket and any   *)
(* breaker timeout; and the router, for any routes and requests, in        *)
(* whatever order routes come and go.                                      *)
(***************************************************************************)
EXTENDS HTTPProxy, Router, FiniteSetTheorems, SequenceTheorems, WellFoundedInduction, TLAPS

\* The stages in which nothing has been sent yet.
Unanswered == {"outside", "limit"} \cup (InProxy \ {"copy"})
\* The stages behind ServeHTTP.
Left == {"record", "done", "lost", "aborted"}

Types ==
  /\ at \in [Request -> Stage]
  /\ status \in [Request -> {0, 200, 429, 500, 502, 503, 504}]
  /\ options \in [limiter : BOOLEAN, breakers : BOOLEAN]
  /\ made \in BOOLEAN
  /\ out \subseteq Request

\* What has been sent follows from where the request is.
StatusByStage ==
  \A q \in Request :
    /\ at[q] \in Unanswered => status[q] = 0
    /\ at[q] = "copy" => status[q] \in {200, 500}
    /\ at[q] \in Left => status[q] # 0

\* Nobody is past a breaker that has not been made: this is what the second look
\* under the write lock is for, since making it forgets who was let through.
NobodyEarly ==
  options.breakers /\ ~made => \A q \in Request : at[q] \notin {"allow", "forward", "lost"}

IndInv == Types /\ StatusByStage /\ NobodyEarly /\ ReportsOwed
-----------------------------------------------------------------------------
\* No request has arrived.
LEMMA InitInd == Init => IndInv
<1> SUFFICES ASSUME Init PROVE IndInv
  OBVIOUS
<1>1. Types
  <2>1. at \in [Request -> Stage]
    BY DEF Init, Stage
  <2>2. status \in [Request -> {0, 200, 429, 500, 502, 503, 504}]
    BY DEF Init
  <2>3. options \in [limiter : BOOLEAN, breakers : BOOLEAN] /\ made \in BOOLEAN /\ out \subseteq Request
    BY Zenon DEF Init, Gate!Init
  <2> QED BY <2>1, <2>2, <2>3, Zenon DEF Types
<1>2. StatusByStage /\ NobodyEarly
  BY DEF Init, StatusByStage, NobodyEarly, Left
<1>3. In({"forward", "lost"}) = {} /\ out = {}
  BY DEF Init, Gate!Init, In
<1> QED BY <1>1, <1>2, <1>3 DEF IndInv, ReportsOwed

\* The steps on the way to the breaker, and the way out.
LEMMA WayInd ==
  ASSUME IndInv, NEW q \in Request,
         Arrive(q) \/ RateLimit(q) \/ Pick(q) \/ Lookup(q) \/ Copy(q) \/ Record(q)
  PROVE  IndInv'
<1> USE DEF IndInv, Types, Goto, Answer, Sent, Leave, breaker, counters,
            Stage, Chain, InProxy, Unanswered, Left
<1>1. CASE Arrive(q)
  BY <1>1 DEF Arrive, StatusByStage, NobodyEarly, ReportsOwed, In
<1>2. CASE RateLimit(q)
  BY <1>2 DEF RateLimit, StatusByStage, NobodyEarly, ReportsOwed, In
<1>3. CASE Pick(q)
  BY <1>3 DEF Pick, StatusByStage, NobodyEarly, ReportsOwed, In
<1>4. CASE Lookup(q)
  BY <1>4 DEF Lookup, StatusByStage, NobodyEarly, ReportsOwed, In
<1>5. CASE Copy(q)
  BY <1>5 DEF Copy, StatusByStage, NobodyEarly, ReportsOwed, In
<1>6. CASE Record(q)
  BY <1>6 DEF Record, StatusByStage, NobodyEarly, ReportsOwed, In
<1> QED BY <1>1, <1>2, <1>3, <1>4, <1>5, <1>6

\* The steps at the breaker and at the backend.
LEMMA BreakerInd ==
  ASSUME IndInv, NEW q \in Request,
         Create(q) \/ Allow(q) \/ Forward(q) \/ Panic(q)
  PROVE  IndInv'
<1> USE DEF IndInv, Types, Goto, Answer, Sent, Leave, breaker, counters,
            Stage, Chain, InProxy, Unanswered, Left
<1>1. CASE Create(q)
  <2>0. made' = TRUE /\ out' \subseteq Request
    BY <1>1 DEF Create, Absent
  <2>1. Types' /\ StatusByStage' /\ NobodyEarly'
    BY <1>1, <2>0 DEF Create, StatusByStage, NobodyEarly
  <2>2. In({"forward", "lost"})' = In({"forward", "lost"})
    BY <1>1 DEF Create, In
  <2>3. CASE made
    BY <1>1, <2>1, <2>2, <2>3 DEF Create, Absent, ReportsOwed
  <2>4. CASE ~made
    <3>1. options.breakers => In({"forward", "lost"}) = {}
      BY <2>4 DEF NobodyEarly, In
    <3>2. out' = {} /\ UNCHANGED options
      BY <1>1, <2>4 DEF Create, Absent
    <3> QED BY <2>1, <2>2, <3>1, <3>2 DEF ReportsOwed
  <2> QED BY <2>3, <2>4
<1>2. CASE Allow(q)
  BY <1>2 DEF Allow, Gate!Admit, Gate!Refuse, Gate!gate,
              StatusByStage, NobodyEarly, ReportsOwed, In
<1>3. CASE Forward(q)
  BY <1>3 DEF Forward, FailureReport, Report, Gate!Report,
              StatusByStage, NobodyEarly, ReportsOwed, In
<1>4. CASE Panic(q)
  BY <1>4 DEF Panic, StatusByStage, NobodyEarly, ReportsOwed, In
<1> QED BY <1>1, <1>2, <1>3, <1>4

\* Every step keeps the invariant.
LEMMA NextInd == IndInv /\ [Next]_vars => IndInv'
<1> SUFFICES ASSUME IndInv, [Next]_vars PROVE IndInv'
  OBVIOUS
<1>1. CASE L4Accept \/ Tick \/ UNCHANGED vars
  <2>1. UNCHANGED <<at, status, options, made, out>>
    BY <1>1 DEF L4Accept, Tick, Gate!Tick, vars, breaker
  <2> QED BY <2>1 DEF IndInv, Types, StatusByStage, NobodyEarly, ReportsOwed, In
<1> QED BY <1>1, WayInd, BreakerInd DEF Next, Handle

\* The invariant holds throughout.
LEMMA Invariance == Spec => []IndInv
BY InitInd, NextInd, PTL DEF Spec

\* The breaker waits for exactly the requests at the backend and those a panic
\* took from there, for any number of requests that find it missing at once.
THEOREM BreakerSlotsReturned == Spec => []ReportsOwed
<1>1. IndInv => ReportsOwed
  BY DEF IndInv
<1> QED BY <1>1, Invariance, PTL

\* What was sent first stays, and a request leaves the chain with a status.
THEOREM FirstStatusStays == Spec => OneStatus
<1> DEFINE A == \A q \in Request :
                  /\ status[q] # 0 => status'[q] = status[q]
                  /\ at'[q] \in {"record", "done", "lost", "aborted"} => status'[q] # 0
<1>1. ASSUME IndInv, IndInv', [Next]_vars PROVE A
  <2>1. ASSUME NEW q \in Request PROVE at'[q] \in Left => status'[q] # 0
    BY <1>1 DEF IndInv, StatusByStage
  <2>2. ASSUME NEW q \in Request, status[q] # 0 PROVE status'[q] = status[q]
    <3>1. CASE UNCHANGED status
      BY <3>1
    <3>2. CASE \E p \in Request, code \in {200, 429, 500, 502, 503, 504} : Answer(p, code)
      BY <1>1, <2>2, <3>2 DEF Answer, Sent, IndInv, Types
    <3>3. UNCHANGED status \/ \E p \in Request, code \in {200, 429, 500, 502, 503, 504} : Answer(p, code)
      <4>1. ASSUME NEW p \in Request, \/ Arrive(p) \/ RateLimit(p) \/ Pick(p) \/ Lookup(p) \/ Create(p)
                                      \/ Allow(p) \/ Record(p)
            PROVE  UNCHANGED status \/ \E code \in {429, 503} : Answer(p, code)
        BY <4>1 DEF Arrive, RateLimit, Pick, Lookup, Create, Allow, Record, Leave
      <4>2. ASSUME NEW p \in Request, Forward(p) \/ Copy(p) \/ Panic(p)
            PROVE  \E code \in {200, 500, 502, 504} : Answer(p, code)
        BY <4>2 DEF Forward, Copy, Panic, Leave
      <4>3. CASE L4Accept \/ Tick \/ UNCHANGED vars
        BY <4>3 DEF L4Accept, Tick, vars
      <4> QED BY <1>1, <4>1, <4>2, <4>3 DEF Next, Handle
    <3> QED BY <3>1, <3>2, <3>3
  <2> QED BY <2>1, <2>2 DEF Left
<1>2. ASSUME IndInv, IndInv', [Next]_vars PROVE [A]_vars
  BY <1>1, <1>2
<1> QED BY <1>2, Invariance, PTL DEF Spec, OneStatus
-----------------------------------------------------------------------------
(* The shared bucket                                                       *)

\* What was granted and what is left never exceed the burst and the refills.
Spent ==
  /\ level \in 0..Burst /\ perTick \in Nat /\ granted \in Nat /\ elapsed \in Nat
  /\ granted + level <= Burst + perTick * elapsed

\* A unit of time earns at least what it adds to the bucket.
LEMMA Earned ==
  ASSUME NEW c \in Nat, NEW g \in Nat, NEW l \in Nat, NEW m \in 0..c, NEW r \in Nat,
         NEW e \in Nat, g + l <= c + r * e, m <= l + r
  PROVE  g + m <= c + r * (e + 1)
<1>1. r * e \in Nat /\ r * (e + 1) = r * e + r
  OBVIOUS
<1>2. ASSUME NEW p \in Nat, g + l <= c + p PROVE g + m <= c + (p + r)
  BY <1>2
<1> QED BY <1>1, <1>2

\* Only passing a request takes a token, and only time adds tokens.
LEMMA SpentInd ==
  ASSUME Burst \in Nat, Spent, [Next]_vars
  PROVE  Spent'
<1>1. CASE UNCHANGED bucket
  BY <1>1 DEF bucket, Spent
<1>2. CASE Pass /\ UNCHANGED elapsed
  BY <1>2 DEF Pass, Budget!Grant, Spent
<1>3. CASE Tick
  <2>1. /\ level' \in 0..Burst /\ level' <= level + perTick
        /\ elapsed' = elapsed + 1 /\ UNCHANGED <<perTick, granted>>
    BY <1>3 DEF Tick, Budget!Tick, Budget!Least, Spent
  <2>2. /\ perTick \in Nat /\ granted \in Nat /\ elapsed \in Nat
        /\ level \in Nat /\ granted + level <= Burst + perTick * elapsed
    BY DEF Spent
  <2>3. granted + level' <= Burst + perTick * (elapsed + 1)
    BY <2>1, <2>2, Earned
  <2>4. granted' = granted /\ perTick' = perTick /\ elapsed' \in Nat
    BY <2>1, <2>2
  <2> QED BY <2>1, <2>2, <2>3, <2>4, Zenon DEF Spent
<1>4. ASSUME NEW q \in Request, RateLimit(q)
      PROVE  UNCHANGED bucket \/ (Pass /\ UNCHANGED elapsed)
  BY <1>4 DEF RateLimit, Budget!Refuse, Budget!budget, bucket
<1>5. ASSUME NEW q \in Request,
             \/ Arrive(q) \/ Pick(q) \/ Lookup(q) \/ Create(q) \/ Allow(q)
             \/ Forward(q) \/ Copy(q) \/ Record(q) \/ Panic(q)
      PROVE  UNCHANGED bucket
  BY <1>5 DEF Arrive, Pick, Lookup, Create, Allow, Forward, Copy, Record, Panic
<1>6. CASE L4Accept \/ UNCHANGED vars
  BY <1>1, <1>2, <1>6 DEF L4Accept, vars
<1> QED BY <1>1, <1>2, <1>3, <1>4, <1>5, <1>6 DEF Next, Handle

\* The L4 and the L7 listener together stay within one budget.
THEOREM OneBudget == Spec => []WithinBudget
<1>1. Init => Spent
  BY HTTPAssumption DEF Init, Budget!Init, Spent
<1>2. Spent /\ [Next]_vars => Spent'
  BY SpentInd, HTTPAssumption
<1>3. Spent => WithinBudget
  <2> SUFFICES ASSUME Spent PROVE WithinBudget
    OBVIOUS
  <2>1. perTick * elapsed \in Nat
    BY DEF Spent
  <2> QED BY <2>1, HTTPAssumption DEF Spent, WithinBudget
<1> QED BY <1>1, <1>2, <1>3, PTL DEF Spec

GateOK == mode \in {"closed", "open", "half-open"} /\ wait \in 0..Timeout

\* The breaker's state and clock stay in range.
LEMMA GateInd ==
  ASSUME Timeout \in Nat, GateOK, [Next]_vars
  PROVE  GateOK'
<1>1. CASE UNCHANGED <<mode, wait>>
  BY <1>1 DEF GateOK
<1>2. CASE Tick
  BY <1>2 DEF Tick, Gate!Tick, GateOK
<1>3. ASSUME NEW q \in Request, Create(q) \/ Allow(q) \/ Forward(q) PROVE GateOK'
  <2>1. CASE Create(q)
    BY <2>1 DEF Create, breaker, GateOK
  <2>2. CASE Allow(q)
    BY <2>2 DEF Allow, Gate!Admit, Gate!Refuse, Gate!gate, GateOK
  <2>3. CASE Forward(q)
    BY <2>3 DEF Forward, FailureReport, Report, Gate!Report, GateOK
  <2> QED BY <1>3, <2>1, <2>2, <2>3
<1>4. ASSUME NEW q \in Request,
             \/ Arrive(q) \/ RateLimit(q) \/ Pick(q) \/ Lookup(q)
             \/ Copy(q) \/ Record(q) \/ Panic(q)
      PROVE  UNCHANGED <<mode, wait>>
  BY <1>4 DEF Arrive, RateLimit, Pick, Lookup, Copy, Record, Panic, breaker
<1>5. CASE L4Accept \/ UNCHANGED vars
  BY <1>1, <1>5 DEF L4Accept, vars, breaker
<1> QED BY <1>1, <1>2, <1>3, <1>4, <1>5 DEF Next, Handle

\* Every variable keeps its type; the bucket never holds more than its capacity,
\* and only the codes this code sends are sent.
THEOREM TypeCorrect == Spec => []TypeOK
<1>1. Init => Spent /\ GateOK
  BY HTTPAssumption DEF Init, Budget!Init, Gate!Init, Spent, GateOK
<1>2. Spent /\ GateOK /\ [Next]_vars => Spent' /\ GateOK'
  BY SpentInd, GateInd, HTTPAssumption
<1>3. IndInv /\ Spent /\ GateOK => TypeOK
  BY DEF IndInv, Types, Spent, GateOK, TypeOK
<1> QED BY <1>1, <1>2, <1>3, Invariance, PTL DEF Spec
-----------------------------------------------------------------------------
(* The counters                                                            *)

\* One request moves: the number in a set of stages follows.
LEMMA Moved ==
  ASSUME IsFiniteSet(Request), at \in [Request -> Stage], NEW S,
         NEW q \in Request, NEW b, at' = [at EXCEPT ![q] = b]
  PROVE  /\ Cardinality(In(S)) \in Int
         /\ at[q] \in S /\ b \in S       => Cardinality(In(S)') = Cardinality(In(S))
         /\ at[q] \notin S /\ b \notin S => Cardinality(In(S)') = Cardinality(In(S))
         /\ at[q] \notin S /\ b \in S    => Cardinality(In(S)') = Cardinality(In(S)) + 1
         /\ at[q] \in S /\ b \notin S    => Cardinality(In(S)') = Cardinality(In(S)) - 1
<1>1. IsFiniteSet(In(S)) /\ Cardinality(In(S)) \in Nat
  BY FS_Subset, FS_CardinalityType DEF In
<1>2. at[q] \in S /\ b \in S => In(S)' = In(S)
  BY DEF In
<1>3. at[q] \notin S /\ b \notin S => In(S)' = In(S)
  BY DEF In
<1>4. at[q] \notin S /\ b \in S => In(S)' = In(S) \cup {q} /\ q \notin In(S)
  BY DEF In
<1>5. at[q] \in S /\ b \notin S => In(S)' = In(S) \ {q} /\ q \in In(S)
  BY DEF In
<1> QED BY <1>1, <1>2, <1>3, <1>4, <1>5, FS_AddElement, FS_RemoveElement

\* What a step from at[q] to b adds to the number of requests in S.
Net(q, b, S) == IF at[q] \in S THEN IF b \in S THEN 0 ELSE -1
                               ELSE IF b \in S THEN 1 ELSE 0

\* The same, in one equation.
LEMMA MovedNet ==
  ASSUME IsFiniteSet(Request), at \in [Request -> Stage], NEW S,
         NEW q \in Request, NEW b, at' = [at EXCEPT ![q] = b]
  PROVE  Cardinality(In(S)) \in Int /\ Cardinality(In(S)') = Cardinality(In(S)) + Net(q, b, S)
<1> DEFINE n == Cardinality(In(S))
           m == Cardinality(In(S)')
<1>1. /\ n \in Int
      /\ at[q] \in S /\ b \in S       => m = n
      /\ at[q] \notin S /\ b \notin S => m = n
      /\ at[q] \notin S /\ b \in S    => m = n + 1
      /\ at[q] \in S /\ b \notin S    => m = n - 1
  BY Moved, Zenon
<1> HIDE DEF n, m
<1>2. n \in Int /\ m = n + Net(q, b, S)
  BY ONLY <1>1 DEF Net
<1> QED BY <1>2 DEF n, m

\* The requests the backend answered that have left ServeHTTP.
Served == {q \in In({"record", "done"}) : status[q] \in {200, 500}}

\* Where one request may go, what it may be sent on the way, and what the three
\* counters do then.
Step(q, b, from, to, active, conns, total) ==
  /\ at[q] = from /\ b = to
  /\ at' = [at EXCEPT ![q] = b]
  /\ activeRequests' = activeRequests + active
  /\ connectionsActive' = connectionsActive + conns
  /\ requestsTotal' = requestsTotal + total

\* The steps that enter or leave the chain or ServeHTTP, and those inside it.
Effects(q, b) ==
  \/ Step(q, b, "outside", "limit", 0, 1, 0) /\ UNCHANGED status
  \/ Step(q, b, "limit", "pick", 1, 0, 0) /\ UNCHANGED status
  \/ Step(q, b, "limit", "record", 0, 0, 0) /\ Answer(q, 429)
  \/ /\ \E from \in {"pick", "allow", "forward"} : Step(q, b, from, "record", -1, 0, 0)
     /\ \E code \in {502, 503, 504} : Answer(q, code)
  \/ /\ \E from, to \in InProxy \ {"copy"} : Step(q, b, from, to, 0, 0, 0)
     /\ UNCHANGED status
  \/ /\ Step(q, b, "forward", "copy", 0, 0, 0)
     /\ \E code \in {200, 500} : Answer(q, code)
  \/ Step(q, b, "copy", "record", -1, 0, 1) /\ Answer(q, 200)
  \/ Step(q, b, "record", "done", 0, -1, 1) /\ UNCHANGED status
  \/ Step(q, b, "forward", "lost", -1, 0, 0) /\ Answer(q, 500)
  \/ Step(q, b, "copy", "aborted", -1, 0, 0) /\ Answer(q, 500)

\* These are all the steps of a request.
LEMMA EffectsOf ==
  ASSUME activeRequests \in Int, connectionsActive \in Int, requestsTotal \in Int,
         NEW q \in Request, Arrive(q) \/ Handle(q) \/ Panic(q)
  PROVE  \E b \in Stage : Effects(q, b)
<1> USE DEF Effects, Step, Goto, Leave, counters, InProxy, Chain, Stage
<1>1. CASE Arrive(q)
  BY <1>1 DEF Arrive
<1>2. CASE RateLimit(q)
  BY <1>2 DEF RateLimit
<1>3. CASE Pick(q)
  BY <1>3 DEF Pick
<1>4. CASE Lookup(q) \/ Create(q)
  BY <1>4 DEF Lookup, Create
<1>5. CASE Allow(q)
  BY <1>5 DEF Allow
<1>6. CASE Forward(q)
  BY <1>6 DEF Forward
<1>7. CASE Copy(q)
  BY <1>7 DEF Copy
<1>8. CASE Record(q)
  BY <1>8 DEF Record
<1>9. CASE Panic(q)
  BY <1>9 DEF Panic, Unwound
<1> QED BY <1>1, <1>2, <1>3, <1>4, <1>5, <1>6, <1>7, <1>8, <1>9, Zenon DEF Handle

\* The code adds to each counter what the step adds to the set it counts.
LEMMA CounterSteps ==
  ASSUME activeRequests \in Int, connectionsActive \in Int, requestsTotal \in Int,
         NEW q \in Request, NEW b \in Stage, Effects(q, b)
  PROVE  /\ activeRequests' = activeRequests + Net(q, b, InProxy)
         /\ connectionsActive' = connectionsActive + Net(q, b, Chain \cup {"lost", "aborted"})
         /\ requestsTotal' = requestsTotal + Net(q, b, {"done"})
                              + (IF at[q] = "copy" /\ b = "record" THEN 1 ELSE 0)
<1>1. activeRequests' = activeRequests + Net(q, b, InProxy)
  BY DEF Effects, Step, Net, InProxy
<1>2. connectionsActive' = connectionsActive + Net(q, b, Chain \cup {"lost", "aborted"})
  BY DEF Effects, Step, Net, Chain, InProxy
<1>3. requestsTotal' = requestsTotal + Net(q, b, {"done"})
                       + (IF at[q] = "copy" /\ b = "record" THEN 1 ELSE 0)
  BY DEF Effects, Step, Net, InProxy
<1> QED BY <1>1, <1>2, <1>3

\* The counters as functions of where the requests are: Metrics does not defer its
\* decrement, so that connectionsActive keeps the requests that panicked, and
\* a request the backend answered is recorded by ServeHTTP and by Metrics.
CountersExact ==
  /\ activeRequests = Cardinality(In(InProxy))
  /\ connectionsActive = Cardinality(In(Chain \cup {"lost", "aborted"}))
  /\ requestsTotal = Cardinality(In({"done"})) + Cardinality(Served)

\* The gauges count the requests in their stages.
Gauges ==
  /\ activeRequests \in Int /\ connectionsActive \in Int /\ requestsTotal \in Int
  /\ CountersExact

\* A step of one request changes the set Served as it says.
LEMMA ServedStep ==
  ASSUME IsFiniteSet(Request), IndInv, NEW q \in Request, NEW b \in Stage, Effects(q, b)
  PROVE  /\ Cardinality(Served) \in Int
         /\ Cardinality(Served') = Cardinality(Served) +
              (IF at[q] = "copy" /\ b = "record" THEN 1 ELSE 0)
<1>1. /\ IsFiniteSet(Served) /\ Cardinality(Served) \in Nat
      /\ q \notin Served => Cardinality(Served \cup {q}) = Cardinality(Served) + 1
  <2>1. IsFiniteSet(Served)
    BY FS_Subset DEF Served, In
  <2> QED BY <2>1, FS_AddElement, FS_CardinalityType
<1> USE DEF IndInv, Types
<1>2. /\ at' = [at EXCEPT ![q] = b]
      /\ UNCHANGED status \/ \E code : Answer(q, code)
  BY DEF Effects, Step
<1>3. \A p \in Request \ {q} : at'[p] = at[p] /\ status'[p] = status[p]
  BY <1>2 DEF Answer
<1>4. CASE at[q] = "copy" /\ b = "record"
  <2>1. q \notin Served /\ status'[q] \in {200, 500} /\ at'[q] = "record"
    BY <1>2, <1>4 DEF Served, In, StatusByStage, Effects, Step, Answer, Sent, InProxy
  <2>2. Served' = Served \cup {q}
    BY <1>3, <2>1 DEF Served, In
  <2>3. Cardinality(Served \cup {q}) = Cardinality(Served) + 1
    BY <1>1, <2>1
  <2> QED BY <1>1, <1>4, <2>2, <2>3
<1>5. CASE ~(at[q] = "copy" /\ b = "record")
  <2>1. (at'[q] \in {"record", "done"} /\ status'[q] \in {200, 500})
          <=> (at[q] \in {"record", "done"} /\ status[q] \in {200, 500})
    BY <1>2, <1>5
    DEF StatusByStage, Unanswered, Effects, Step, Answer, Sent, InProxy
  <2>2. Served' = Served
    BY <1>3, <2>1 DEF Served, In
  <2> QED BY <1>1, <1>5, <2>2
<1> QED BY <1>4, <1>5

\* Every step keeps the gauges.
LEMMA GaugesInd ==
  ASSUME IsFiniteSet(Request), IndInv, Gauges, [Next]_vars
  PROVE  Gauges'
<1>1. CASE UNCHANGED <<at, status, counters>>
  BY <1>1 DEF counters, Gauges, CountersExact, Served, In
<1>2. CASE L4Accept \/ Tick \/ UNCHANGED vars
  BY <1>1, <1>2 DEF L4Accept, Tick, vars
<1>3. ASSUME NEW q \in Request, Arrive(q) \/ Handle(q) \/ Panic(q)
      PROVE  Gauges'
  <2>1. PICK b \in Stage : Effects(q, b)
    BY <1>3, EffectsOf DEF Gauges
  <2>2. at \in [Request -> Stage] /\ at' = [at EXCEPT ![q] = b]
    BY <2>1 DEF IndInv, Types, Effects, Step
  <2> DEFINE Within(S) == Cardinality(In(S))
             Follows(S) == Within(S) \in Int /\ Within(S)' = Within(S) + Net(q, b, S)
  <2>3. /\ Follows(InProxy) /\ Follows(Chain \cup {"lost", "aborted"})
        /\ Follows({"done"})
    <3>1. ASSUME NEW S PROVE Follows(S)
      BY <2>2, MovedNet, Zenon
    <3> QED BY <3>1
  <2> DEFINE a == Within(InProxy)
             k == Within(Chain \cup {"lost", "aborted"})
             d == Within({"done"})
             n == Cardinality(Served)
             answered == IF at[q] = "copy" /\ b = "record" THEN 1 ELSE 0
  <2>4. n \in Int /\ n' = n + answered /\ answered \in Int
    BY <2>1, ServedStep
  <2>5. /\ activeRequests = a /\ connectionsActive = k /\ requestsTotal = d + n
        /\ a \in Int /\ k \in Int /\ d \in Int /\ n \in Int
    BY <2>3, <2>4 DEF Gauges, CountersExact, Served
  <2>6. /\ activeRequests' = activeRequests + Net(q, b, InProxy)
        /\ connectionsActive' = connectionsActive + Net(q, b, Chain \cup {"lost", "aborted"})
        /\ requestsTotal' = requestsTotal + Net(q, b, {"done"}) + answered
    BY <2>1, CounterSteps DEF Gauges
  <2>7. \A S : Net(q, b, S) \in Int
    BY DEF Net
  <2>8. activeRequests' = a' /\ connectionsActive' = k' /\ a' \in Int /\ k' \in Int
    BY ONLY <2>3, <2>5, <2>6, <2>7
  <2>9. requestsTotal' = d' + n' /\ d' + n' \in Int
    BY ONLY <2>3, <2>4, <2>5, <2>6, <2>7
  <2> QED BY <2>8, <2>9 DEF Gauges, CountersExact, Served
<1> QED BY <1>2, <1>3 DEF Next

\* From the exact values: the chain is part of what connectionsActive counts.
LEMMA SoundIfExact ==
  ASSUME IsFiniteSet(Request), CountersExact
  PROVE  CountersSound
<1>1. \A S : IsFiniteSet(In(S)) /\ Cardinality(In(S)) \in Nat
  BY FS_Subset, FS_CardinalityType DEF In
<1>2. IsFiniteSet(Served) /\ Cardinality(Served) \in Nat
  BY <1>1, FS_Subset, FS_CardinalityType DEF Served
<1>3. In(Chain) \subseteq In(Chain \cup {"lost", "aborted"})
  BY DEF In
<1>4. Cardinality(In(Chain)) <= Cardinality(In(Chain \cup {"lost", "aborted"}))
  BY <1>1, <1>3, FS_Subset
<1>5. In({"lost", "aborted"}) = {} => In(Chain \cup {"lost", "aborted"}) = In(Chain)
  BY DEF In
<1>6. requestsTotal >= Cardinality(In({"done"}))
  <2>1. \A d, n \in Nat : d + n >= d
    OBVIOUS
  <2> QED BY <1>1, <1>2, <2>1 DEF CountersExact
<1> QED BY <1>4, <1>5, <1>6 DEF CountersExact, CountersSound

\* activeRequests is exact, no request in the chain is missing from
\* connectionsActive and none that left it from requestsTotal, for any number of
\* concurrent requests and panics; and connectionsActive is exact until a handler
\* panics.
THEOREM CountersAreSound == Spec => []CountersSound
<1>1. Init => Gauges
  <2> SUFFICES ASSUME Init PROVE Gauges
    OBVIOUS
  <2>1. /\ In(InProxy) = {} /\ In(Chain \cup {"lost", "aborted"}) = {}
        /\ In({"done"}) = {} /\ In({"record", "done"}) = {}
    BY DEF Init, In, InProxy, Chain
  <2>2. {q \in In({"record", "done"}) : status[q] \in {200, 500}} = {}
    BY <2>1
  <2>3. activeRequests = 0 /\ connectionsActive = 0 /\ requestsTotal = 0
    BY DEF Init
  <2>4. CountersExact
    BY <2>1, <2>2, <2>3, FS_EmptySet DEF CountersExact, Served
  <2> QED BY <2>3, <2>4 DEF Gauges
<1>2. IndInv /\ Gauges /\ [Next]_vars => Gauges'
  BY GaugesInd, HTTPAssumption
<1>3. Gauges => CountersSound
  BY SoundIfExact, HTTPAssumption DEF Gauges
<1> QED BY <1>1, <1>2, <1>3, Invariance, PTL DEF Spec
-----------------------------------------------------------------------------
(* The router                                                              *)

\* A set of positions that is not empty has a first one.
LEMMA Least ==
  ASSUME NEW T \in SUBSET Nat, T # {}
  PROVE  Min(T) \in T /\ \A y \in T : Min(T) <= y
<1> DEFINE R == OpToRel(<, Nat)
<1>1. IsWellFoundedOn(R, Nat)
  BY NatLessThanWellFounded
<1>2. \A x \in Nat, y \in Nat : y < x => <<y, x>> \in R
  BY DEF OpToRel
<1> HIDE DEF R
<1>3. PICK x \in T : \A y \in T : ~(<<y, x>> \in R)
  BY <1>1, WFMin
<1>4. \A y \in T : x <= y
  <2> SUFFICES ASSUME NEW y \in T PROVE x <= y
    OBVIOUS
  <2>1. x \in Nat /\ y \in Nat
    BY <1>3
  <2>2. ~(<<y, x>> \in R)
    BY <1>3
  <2>3. ~(y < x)
    BY <1>2, <2>1, <2>2, Zenon
  <2> QED BY <2>1, <2>3
<1>5. \E z \in T : \A y \in T : z <= y
  BY <1>3, <1>4
<1> QED BY <1>5 DEF Min

\* Insertion at a position, element by element.
IsInsertion(new, s, k, e) ==
  /\ Len(new) = Len(s) + 1
  /\ \A i \in 1..(Len(s) + 1) : new[i] = IF i < k THEN s[i] ELSE IF i = k THEN e ELSE s[i - 1]

\* The slices put together insert.
LEMMA InsertedAt ==
  ASSUME NEW S, NEW s \in Seq(S), NEW e \in S, NEW k \in 1..Len(s)
  PROVE  InsertedBefore(s, k, e) \in Seq(S) /\ IsInsertion(InsertedBefore(s, k, e), s, k, e)
<1> DEFINE a == SubSeq(s, 1, k - 1)
           c == SubSeq(s, k, Len(s))
<1>0. Len(s) \in Nat /\ k \in Nat /\ k >= 1 /\ k <= Len(s) /\ \A i \in 1..Len(s) : s[i] \in S
  BY LenProperties
<1>1. a \in Seq(S) /\ Len(a) = k - 1 /\ \A i \in 1..(k - 1) : a[i] = s[i]
  BY <1>0, SubSeqProperties
<1>2. c \in Seq(S) /\ Len(c) = Len(s) - k + 1 /\ \A i \in 1..(Len(s) - k + 1) : c[i] = s[k + i - 1]
  BY <1>0, SubSeqProperties
<1> HIDE DEF a, c
<1>3. <<e>> \in Seq(S) /\ Len(<<e>>) = 1 /\ <<e>>[1] = e
  OBVIOUS
<1>4. /\ a \o <<e>> \in Seq(S) /\ Len(a \o <<e>>) = k
      /\ \A i \in 1..k : (a \o <<e>>)[i] = IF i < k THEN s[i] ELSE e
  BY <1>0, <1>1, <1>3, ConcatProperties
<1> DEFINE b == a \o <<e>>
<1> HIDE DEF b
<1>5. b \in Seq(S) /\ Len(b) = k /\ \A i \in 1..k : b[i] = IF i < k THEN s[i] ELSE e
  BY <1>4 DEF b
<1>6. /\ b \o c \in Seq(S) /\ Len(b \o c) = Len(b) + Len(c)
      /\ \A i \in 1..(Len(b) + Len(c)) : (b \o c)[i] = IF i <= Len(b) THEN b[i] ELSE c[i - Len(b)]
  BY <1>2, <1>5, ConcatProperties
<1>7. Len(b) + Len(c) = Len(s) + 1
  BY <1>0, <1>2, <1>5
<1>8. \A i \in 1..(Len(s) + 1) : (b \o c)[i] = IF i < k THEN s[i] ELSE IF i = k THEN e ELSE s[i - 1]
  <2> SUFFICES ASSUME NEW i \in 1..(Len(s) + 1)
               PROVE  (b \o c)[i] = IF i < k THEN s[i] ELSE IF i = k THEN e ELSE s[i - 1]
    OBVIOUS
  <2>1. (b \o c)[i] = IF i <= k THEN b[i] ELSE c[i - k]
    BY <1>5, <1>6, <1>7
  <2>2. CASE i <= k
    BY <1>0, <1>5, <2>1, <2>2
  <2>3. CASE i > k
    <3>1. i - k \in 1..(Len(s) - k + 1) /\ k + (i - k) - 1 = i - 1
      BY <1>0, <2>3
    <3>2. (b \o c)[i] = c[i - k]
      BY <1>0, <2>1, <2>3
    <3>3. c[i - k] = s[k + (i - k) - 1]
      BY <1>2, <3>1
    <3>4. (b \o c)[i] = s[i - 1]
      BY <3>1, <3>2, <3>3
    <3> QED BY <1>0, <2>3, <3>4
  <2>4. i <= k \/ i > k
    BY <1>0
  <2> QED BY <2>2, <2>3, <2>4
<1> QED BY <1>6, <1>7, <1>8 DEF InsertedBefore, IsInsertion, a, b, c

\* Removal at a position, element by element.
LEMMA RemovedAt ==
  ASSUME NEW S, NEW s \in Seq(S), NEW k \in 1..Len(s)
  PROVE  /\ Without(s, k) \in Seq(S) /\ Len(Without(s, k)) = Len(s) - 1
         /\ \A i \in 1..(Len(s) - 1) : Without(s, k)[i] = IF i < k THEN s[i] ELSE s[i + 1]
<1> DEFINE a == SubSeq(s, 1, k - 1)
           c == SubSeq(s, k + 1, Len(s))
<1>0. Len(s) \in Nat /\ k \in Nat /\ k >= 1 /\ k <= Len(s) /\ \A i \in 1..Len(s) : s[i] \in S
  BY LenProperties
<1>1. a \in Seq(S) /\ Len(a) = k - 1 /\ \A i \in 1..(k - 1) : a[i] = s[i]
  BY <1>0, SubSeqProperties
<1>2. c \in Seq(S) /\ Len(c) = Len(s) - k /\ \A i \in 1..(Len(s) - k) : c[i] = s[k + i]
  BY <1>0, SubSeqProperties
<1> HIDE DEF a, c
<1>3. /\ a \o c \in Seq(S) /\ Len(a \o c) = Len(a) + Len(c)
      /\ \A i \in 1..(Len(a) + Len(c)) : (a \o c)[i] = IF i <= Len(a) THEN a[i] ELSE c[i - Len(a)]
  BY <1>1, <1>2, ConcatProperties
<1>4. ASSUME NEW i \in 1..(Len(s) - 1)
      PROVE  (a \o c)[i] = IF i < k THEN s[i] ELSE s[i + 1]
  <2>1. i \in 1..(Len(a) + Len(c))
    BY <1>0, <1>1, <1>2
  <2>2. CASE i < k
    BY <1>0, <1>1, <1>3, <2>1, <2>2
  <2>3. CASE i >= k
    <3> DEFINE d == i - (k - 1)
    <3>1. (a \o c)[i] = c[d]
      BY <1>0, <1>1, <1>3, <2>1, <2>3
    <3>2. d \in 1..(Len(s) - k) /\ k + d = i + 1
      BY <1>0, <2>3
    <3> HIDE DEF d
    <3>3. c[d] = s[k + d]
      BY <1>2, <3>2
    <3> QED BY <1>0, <2>3, <3>1, <3>2, <3>3
  <2>4. i < k \/ i >= k
    BY <1>0
  <2> QED BY <2>2, <2>3, <2>4
<1>5. Len(a) + Len(c) = Len(s) - 1
  BY <1>0, <1>1, <1>2
<1> QED BY <1>3, <1>4, <1>5 DEF Without, a, c

\* What the router holds: routes made from templates, numbered by their call.
Route == {NewRoute(t, n) : t \in Templates, n \in Nat}

Before(a, b) == isMoreSpecific(a, b) \/ (~isMoreSpecific(b, a) /\ a.call < b.call)

\* Routes in order of specificity, and of equal ones the older first; n is the
\* number of calls so far.
InOrder(rs, n) ==
  /\ rs \in Seq(Route)
  /\ \A i \in 1..Len(rs) : rs[i].call <= n
  /\ \A i, j \in 1..Len(rs) : i < j => Before(rs[i], rs[j])

RoutesOrdered == adds \in Nat /\ InOrder(routes, adds)

\* The routes of the table are typed, and its lengths are numbers.
LEMMA RouteTypes ==
  ASSUME NEW r \in Route
  PROVE  /\ r.call \in Nat /\ r.prefix \in Seq(Symbol) /\ Len(r.prefix) \in Nat
         /\ r.host \in Seq(Symbol) /\ Len(r.host) \in Nat
<1>1. PICK t \in Templates, n \in Nat : r = NewRoute(t, n)
  BY DEF Route
<1>2. r.call = n /\ r.prefix = t.prefix /\ r.host = t.host
  BY <1>1 DEF NewRoute
<1> QED BY <1>2, RouterAssumption, LenProperties

\* isMoreSpecific compares ranks: it is asymmetric, and what is not behind b is
\* ahead of whatever b is ahead of.
LEMMA SpecificityOrder ==
  ASSUME NEW a \in Route, NEW b \in Route, NEW c \in Route
  PROVE  /\ isMoreSpecific(a, b) => ~isMoreSpecific(b, a)
         /\ isMoreSpecific(a, b) /\ ~isMoreSpecific(c, b) => isMoreSpecific(a, c)
  BY RouteTypes DEF isMoreSpecific

\* A new route between those it is not ahead of and those it is ahead of keeps
\* the order.
LEMMA InsertionOrdered ==
  ASSUME NEW n \in Nat, NEW rs, InOrder(rs, n), NEW route \in Route, route.call = n + 1,
         NEW k \in 1..(Len(rs) + 1),
         \A i \in 1..Len(rs) : i < k => ~isMoreSpecific(route, rs[i]),
         k <= Len(rs) => isMoreSpecific(route, rs[k]),
         NEW new \in Seq(Route), IsInsertion(new, rs, k, route)
  PROVE  InOrder(new, n + 1)
<1> DEFINE N == Len(rs)
<1>0. /\ Len(new) = N + 1
      /\ \A i \in 1..(N + 1) : new[i] = IF i < k THEN rs[i] ELSE IF i = k THEN route ELSE rs[i - 1]
  BY DEF IsInsertion
<1>1. N \in Nat /\ k \in 1..(N + 1) /\ k \in Nat
  BY LenProperties DEF InOrder
<1>2. ASSUME NEW i \in 1..N PROVE rs[i] \in Route /\ rs[i].call \in Nat /\ rs[i].call < n + 1
  BY <1>1, RouteTypes DEF InOrder
<1>3. ASSUME NEW i \in 1..N, i < k PROVE Before(rs[i], route)
  BY <1>2, <1>3 DEF Before
<1>4. ASSUME NEW i \in 1..N, i >= k PROVE Before(route, rs[i])
  <2>1. k \in 1..N /\ isMoreSpecific(route, rs[k])
    BY <1>1, <1>4
  <2>2. ~isMoreSpecific(rs[i], rs[k])
    <3>1. CASE i = k
      BY <3>1 DEF isMoreSpecific
    <3>2. CASE i > k
      <4>1. Before(rs[k], rs[i])
        BY <2>1, <3>2 DEF InOrder
      <4> QED BY <1>2, <2>1, <4>1, SpecificityOrder DEF Before
    <3> QED BY <1>1, <1>4, <3>1, <3>2
  <2> QED BY <1>2, <2>1, <2>2, SpecificityOrder DEF Before
<1>5. \A i \in 1..(N + 1) : new[i].call <= n + 1
  <2> SUFFICES ASSUME NEW i \in 1..(N + 1) PROVE new[i].call <= n + 1
    OBVIOUS
  <2>1. CASE i < k
    BY <1>0, <1>1, <1>2, <2>1
  <2>2. CASE i = k
    BY <1>0, <1>1, <2>2
  <2>3. CASE i > k
    <3>1. i - 1 \in 1..N /\ new[i] = rs[i - 1]
      BY <1>0, <1>1, <2>3
    <3> QED BY <1>2, <3>1
  <2> QED BY <1>1, <2>1, <2>2, <2>3
<1>6. ASSUME NEW i \in 1..(N + 1), NEW j \in 1..(N + 1), i < j
      PROVE  Before(new[i], new[j])
  <2>1. ASSUME NEW x \in 1..N, NEW y \in 1..N, x < y PROVE Before(rs[x], rs[y])
    BY <2>1 DEF InOrder
  <2>2. CASE j < k
    <3>1. i \in 1..N /\ j \in 1..N /\ new[i] = rs[i] /\ new[j] = rs[j]
      BY <1>0, <1>1, <1>6, <2>2
    <3> QED BY <1>6, <2>1, <3>1
  <2>3. CASE j = k
    <3>1. i \in 1..N /\ i < k /\ new[i] = rs[i] /\ new[j] = route
      BY <1>0, <1>1, <1>6, <2>3
    <3> QED BY <1>3, <3>1
  <2>4. CASE j > k /\ i = k
    <3>1. j - 1 \in 1..N /\ j - 1 >= k /\ new[i] = route /\ new[j] = rs[j - 1]
      BY <1>0, <1>1, <1>6, <2>4
    <3> QED BY <1>4, <3>1
  <2>5. CASE j > k /\ i < k
    <3>1. i \in 1..N /\ j - 1 \in 1..N /\ i < j - 1 /\ new[i] = rs[i] /\ new[j] = rs[j - 1]
      BY <1>0, <1>1, <1>6, <2>5
    <3> QED BY <2>1, <3>1
  <2>6. CASE i > k
    <3>1. /\ i - 1 \in 1..N /\ j - 1 \in 1..N /\ i - 1 < j - 1
          /\ new[i] = rs[i - 1] /\ new[j] = rs[j - 1]
      BY <1>0, <1>1, <1>6, <2>6
    <3> QED BY <2>1, <3>1
  <2> QED BY <1>1, <1>6, <2>2, <2>3, <2>4, <2>5, <2>6
<1> QED BY <1>0, <1>5, <1>6 DEF InOrder

\* AddRoute puts a route where it belongs.
LEMMA AddOrdered ==
  ASSUME RoutesOrdered, NEW t \in Templates, AddRoute(t)
  PROVE  RoutesOrdered'
<1> DEFINE route == NewRoute(t, adds + 1)
           less  == {i \in DOMAIN routes : isMoreSpecific(route, routes[i])}
           N     == Len(routes)
<1>1. /\ adds \in Nat /\ adds' = adds + 1 /\ InOrder(routes, adds)
      /\ routes' = IF less = {} THEN Append(routes, route) ELSE InsertedBefore(routes, Min(less), route)
  BY DEF AddRoute, RoutesOrdered
<1>2. route \in Route /\ route.call = adds + 1
  BY <1>1 DEF Route, NewRoute
<1>3. routes \in Seq(Route) /\ N \in Nat /\ DOMAIN routes = 1..N
  BY <1>1, LenProperties DEF InOrder
<1> HIDE DEF route
<1>4. CASE less = {}
  <2>1. /\ routes' \in Seq(Route) /\ Len(routes') = N + 1
        /\ \A i \in 1..N : routes'[i] = routes[i]
        /\ routes'[N + 1] = route
    BY <1>1, <1>2, <1>3, <1>4
  <2>2. IsInsertion(routes', routes, N + 1, route)
    BY <1>3, <2>1 DEF IsInsertion
  <2>3. \A i \in 1..N : ~isMoreSpecific(route, routes[i])
    BY <1>3, <1>4
  <2>4. N + 1 \in 1..(N + 1) /\ ~(N + 1 <= N)
    BY <1>3
  <2> DEFINE k == N + 1
  <2> HIDE DEF k, N
  <2>5. InOrder(routes', adds + 1)
    BY <1>1, <1>2, <2>1, <2>2, <2>3, <2>4, InsertionOrdered DEF k, N
  <2> QED BY <1>1, <2>5 DEF RoutesOrdered
<1>5. CASE less # {}
  <2> DEFINE k == Min(less)
  <2>1. less \in SUBSET Nat
    BY <1>3
  <2>2. k \in less /\ \A i \in less : k <= i
    <3> HIDE DEF less
    <3> QED BY <1>5, <2>1, Least
  <2>3. k \in 1..N /\ isMoreSpecific(route, routes[k])
    BY <1>3, <2>2
  <2>4. ASSUME NEW i \in 1..N, i < k PROVE ~isMoreSpecific(route, routes[i])
    <3>1. i \notin less
      BY <1>3, <2>2, <2>3, <2>4
    <3> QED BY <1>3, <3>1
  <2>5. routes' = InsertedBefore(routes, k, route)
    BY <1>1, <1>5
  <2> HIDE DEF k, less
  <2>6. routes' \in Seq(Route) /\ IsInsertion(routes', routes, k, route)
    BY <1>2, <1>3, <2>3, <2>5, InsertedAt
  <2>7. k \in 1..(N + 1)
    BY <1>3, <2>3
  <2>8. InOrder(routes', adds + 1)
    BY <1>1, <1>2, <2>3, <2>4, <2>6, <2>7, InsertionOrdered
  <2> QED BY <1>1, <2>8 DEF RoutesOrdered
<1> QED BY <1>4, <1>5

\* RemoveRoute leaves the others as they are.
LEMMA RemoveOrdered ==
  ASSUME RoutesOrdered, NEW name, RemoveRoute(name)
  PROVE  RoutesOrdered'
<1> DEFINE named == {i \in DOMAIN routes : routes[i].name = name}
           k == Min(named)
           N == Len(routes)
<1>1. /\ adds \in Nat /\ adds' = adds /\ InOrder(routes, adds)
      /\ named # {} /\ routes' = Without(routes, k)
  BY DEF RemoveRoute, RoutesOrdered
<1>2. routes \in Seq(Route) /\ N \in Nat /\ DOMAIN routes = 1..N
  BY <1>1, LenProperties DEF InOrder
<1>3. k \in 1..N
  <2>1. named \in SUBSET Nat /\ named \subseteq 1..N
    BY <1>2
  <2> HIDE DEF named
  <2> QED BY <1>1, <2>1, Least
<1> HIDE DEF k, named
<1> DEFINE from(i) == IF i < k THEN i ELSE i + 1
<1>4. /\ routes' \in Seq(Route) /\ Len(routes') = N - 1
      /\ \A i \in 1..(N - 1) : routes'[i] = IF i < k THEN routes[i] ELSE routes[i + 1]
  BY <1>1, <1>2, <1>3, RemovedAt
<1>5. ASSUME NEW i \in 1..(N - 1)
      PROVE  from(i) \in 1..N /\ routes'[i] = routes[from(i)]
  BY <1>2, <1>3, <1>4
<1>6. \A i, j \in 1..(N - 1) : i < j => from(i) < from(j)
  BY <1>2, <1>3
<1> HIDE DEF from
<1>7. \A i \in 1..(N - 1) : routes'[i].call <= adds
  BY <1>1, <1>5 DEF InOrder
<1>8. \A i, j \in 1..(N - 1) : i < j => Before(routes'[i], routes'[j])
  <2> SUFFICES ASSUME NEW i \in 1..(N - 1), NEW j \in 1..(N - 1), i < j
               PROVE  Before(routes'[i], routes'[j])
    OBVIOUS
  <2>1. Before(routes[from(i)], routes[from(j)])
    BY <1>1, <1>5, <1>6 DEF InOrder
  <2> QED BY <1>5, <2>1
<1>9. InOrder(routes', adds)
  BY <1>4, <1>7, <1>8 DEF InOrder
<1> QED BY <1>1, <1>9 DEF RoutesOrdered

\* In whatever order routes are added and removed.
LEMMA RoutesOrderedInv == RouterSpec => []RoutesOrdered
<1>1. RouterInit => RoutesOrdered
  <2> SUFFICES ASSUME routes = <<>>, adds = 0 PROVE RoutesOrdered
    BY DEF RouterInit
  <2>1. routes \in Seq(Route) /\ Len(routes) = 0
    OBVIOUS
  <2> QED BY <2>1 DEF RoutesOrdered, InOrder
<1>2. RoutesOrdered /\ [RouterNext]_routerVars => RoutesOrdered'
  <2> SUFFICES ASSUME RoutesOrdered, [RouterNext]_routerVars PROVE RoutesOrdered'
    OBVIOUS
  <2>1. CASE RouterNext
    BY <2>1, AddOrdered, RemoveOrdered DEF RouterNext
  <2>2. CASE UNCHANGED routerVars
    BY <2>2 DEF routerVars, RoutesOrdered
  <2> QED BY <2>1, <2>2
<1> QED BY <1>1, <1>2, PTL DEF RouterSpec

\* What precedes the last colon is the host just if the request is for that host.
LEMMA HostWithoutPort ==
  ASSUME NEW h \in Seq(Symbol), NEW n \in Nat, Len(h) = n + 1, n > 0, NEW g \in Seq(Symbol)
  PROVE  SubSeq(h, 1, n) = g <=> \E port \in Symbol : h = Append(g, port)
<1> DEFINE a == SubSeq(h, 1, n)
<1>1. a \in Seq(Symbol) /\ Len(a) = n /\ \A i \in 1..n : a[i] = h[i]
  BY SubSeqProperties
<1>2. h[n + 1] \in Symbol
  OBVIOUS
<1> HIDE DEF a
<1>3. ASSUME a = g PROVE h = Append(g, h[n + 1])
  <2> DEFINE b == Append(g, h[n + 1])
  <2>1. b \in Seq(Symbol) /\ Len(b) = n + 1 /\ b[n + 1] = h[n + 1] /\ \A i \in 1..n : b[i] = g[i]
    BY <1>1, <1>2, <1>3, AppendProperties
  <2> HIDE DEF b
  <2>2. \A i \in 1..(n + 1) : h[i] = b[i]
    BY <1>1, <1>3, <2>1
  <2>3. h = b
    BY <2>1, <2>2, SeqEqual
  <2> QED BY <2>3 DEF b
<1>4. ASSUME NEW port \in Symbol, h = Append(g, port) PROVE a = g
  <2>1. Len(g) = n /\ \A i \in 1..n : h[i] = g[i]
    BY <1>4, AppendProperties
  <2>2. \A i \in 1..n : a[i] = g[i]
    BY <1>1, <2>1
  <2> QED BY <1>1, <2>1, <2>2, SeqEqual
<1> QED BY <1>2, <1>3, <1>4 DEF a

\* matches (router.go) accepts the requests that satisfy each criterion of a route.
LEMMA MatchesByCriterion ==
  ASSUME NEW r \in Route, NEW req \in Requests
  PROVE  matches(r, req) <=>
           /\ r.host = <<>> \/ IsFor(req, r.host)
           /\ Len(r.prefix) <= Len(req.path)
           /\ r.prefix = SubSeq(req.path, 1, Len(r.prefix))
           /\ r.methods = {} \/ req.method \in r.methods
<1> DEFINE h == req.host
           g == r.host
<1>1. h \in Seq(Symbol) /\ h # <<>> /\ Len(h) \in Nat /\ Len(h) > 0
  BY RouterAssumption, LenProperties, EmptySeq
<1>2. g \in Seq(Symbol) /\ Len(g) \in Nat
  BY RouteTypes
<1> HIDE DEF h, g
<1>3. ASSUME g # <<>>
      PROVE  (IF Len(h) > 1 THEN SubSeq(h, 1, Len(h) - 1) ELSE h) = g
               <=> (h = g /\ Len(g) = 1) \/ \E port \in Symbol : h = Append(g, port)
  <2>1. CASE Len(h) = 1
    <3>1. Len(g) > 0
      BY <1>2, <1>3, EmptySeq
    <3>2. \A port \in Symbol : Len(Append(g, port)) > 1
      BY <1>2, <3>1, AppendProperties
    <3> QED BY <2>1, <3>2
  <2>2. CASE Len(h) > 1
    <3> DEFINE n == Len(h) - 1
    <3>1. n \in Nat /\ Len(h) = n + 1 /\ n > 0
      BY <1>1, <2>2
    <3>2. SubSeq(h, 1, n) = g <=> \E port \in Symbol : h = Append(g, port)
      <4> HIDE DEF n
      <4> QED BY <1>1, <1>2, <3>1, HostWithoutPort
    <3>3. ~(h = g /\ Len(g) = 1)
      <4>1. \A x \in Nat : x > 1 => x # 1
        OBVIOUS
      <4> QED BY <1>1, <2>2, <4>1, Zenon
    <3> QED BY <2>2, <3>2, <3>3
  <2>3. Len(h) = 1 \/ Len(h) > 1
    <3>1. \A x \in Nat : x > 0 => x = 1 \/ x > 1
      OBVIOUS
    <3> QED BY <1>1, <3>1, Zenon
  <2> QED BY <2>1, <2>2, <2>3
<1>4. Len(r.prefix) <= Len(req.path) /\ SubSeq(req.path, 1, Len(r.prefix)) = r.prefix <=>
        Len(r.prefix) <= Len(req.path) /\ r.prefix = SubSeq(req.path, 1, Len(r.prefix))
  BY RouteTypes
<1>5. (g # <<>> => HostOf(req) = g) <=> (g = <<>> \/ IsFor(req, g))
  BY <1>3, Zenon DEF HostOf, IsFor, h
<1> QED BY <1>4, <1>5 DEF matches, g

\* Match (router.go) returns the best of the routes that accept a request.
THEOREM BestRouteFirst == RouterSpec => []BestRoute
<1>1. RoutesOrdered => BestRoute
  <2> SUFFICES ASSUME RoutesOrdered, NEW req \in Requests
               PROVE  LET best == Match(req) IN
                      IF Candidates(req) = {} THEN best = NotFound
                      ELSE /\ best \in Candidates(req)
                           /\ \A r \in Candidates(req) \ {best} :
                                \/ best.host # <<>> /\ r.host = <<>>
                                \/ /\ best.host = <<>> <=> r.host = <<>>
                                   /\ \/ Len(best.prefix) > Len(r.prefix)
                                      \/ Len(best.prefix) = Len(r.prefix) /\ best.call < r.call
    BY DEF BestRoute
  <2> DEFINE hits == {i \in DOMAIN routes : matches(routes[i], req)}
             k == Min(hits)
             N == Len(routes)
  <2>1. /\ InOrder(routes, adds) /\ N \in Nat /\ DOMAIN routes = 1..N
        /\ \A i \in 1..N : routes[i] \in Route
    BY LenProperties DEF RoutesOrdered, InOrder
  <2>2. Candidates(req) = {routes[i] : i \in hits}
    BY <2>1, MatchesByCriterion DEF Candidates, Range
  <2>3. CASE hits = {}
    BY <2>2, <2>3 DEF Match
  <2>4. CASE hits # {}
    <3>1. k \in hits /\ \A i \in hits : k <= i
      <4>1. hits \in SUBSET Nat
        BY <2>1
      <4> HIDE DEF hits
      <4> QED BY <2>4, <4>1, Least
    <3>2. Match(req) = routes[k] /\ routes[k] \in Candidates(req)
      BY <2>2, <2>4, <3>1 DEF Match
    <3>3. ASSUME NEW r \in Candidates(req) \ {routes[k]}
          PROVE  \/ routes[k].host # <<>> /\ r.host = <<>>
                 \/ /\ routes[k].host = <<>> <=> r.host = <<>>
                    /\ \/ Len(routes[k].prefix) > Len(r.prefix)
                       \/ Len(routes[k].prefix) = Len(r.prefix) /\ routes[k].call < r.call
      <4>1. PICK j \in hits : r = routes[j]
        BY <2>2
      <4>2. k \in 1..N /\ j \in 1..N /\ k < j
        <5>1. k \in 1..N /\ j \in 1..N /\ k <= j
          BY <2>1, <3>1, <4>1
        <5>2. k # j
          BY <3>3, <4>1
        <5> HIDE DEF k, hits
        <5> QED BY <2>1, <5>1, <5>2
      <4>3. Before(routes[k], r)
        BY <2>1, <4>1, <4>2 DEF InOrder
      <4>4. Len(routes[k].prefix) \in Nat /\ Len(r.prefix) \in Nat
        BY <2>1, <4>1, <4>2, RouteTypes
      <4> HIDE DEF k, hits
      <4> QED BY <4>3, <4>4 DEF Before, isMoreSpecific
    <3> HIDE DEF k, hits
    <3> QED BY <3>2, <3>3, Zenon
  <2> QED BY <2>3, <2>4
<1> QED BY <1>1, RoutesOrderedInv, PTL
=============================================================================
