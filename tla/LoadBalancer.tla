---------------------------- MODULE LoadBalancer ----------------------------
(***************************************************************************)
(* The three load balancers (internal/loadbalancer/loadbalancer.go).       *)
(* Callers run Next concurrently under a read lock (WeightedRoundRobin:    *)
(* one at a time under a mutex); the list changes under the write lock.    *)
(* Health flags and connection counts are read one backend at a time, and  *)
(* change between two reads.  What a caller does with its backend counts   *)
(* towards ActiveConnections only after the dial.                          *)
(***************************************************************************)
EXTENDS Integers, Sequences, FiniteSetsExt, Functions

CONSTANTS
  Backend,     \* Backend objects
  Caller,      \* goroutines that call Next
  None,        \* no backend
  Weight,      \* Backend.Weight
  Lists,       \* what main configures and reloads
  CounterMod,  \* 2^64 in the code: counter wraps
  MaxChanges   \* bound: health and list changes

ASSUME LBAssumption ==
  /\ IsFiniteSet(Caller) /\ None \notin Backend
  /\ Lists \subseteq Seq(Backend) /\ Weight \in [Backend -> Int]
  /\ CounterMod \in Nat \ {0}

VARIABLES
  lbKind,      \* "round-robin", "least-conn" or "weighted"
  list,        \* backends
  counter,     \* RoundRobin.counter
  current,     \* weightedBackend.currentWeight
  healthy,     \* the backends whose IsHealthy is true
  scan,        \* each caller's Next call
  changes,     \* health and list changes so far
  fresh,       \* all healthy since the list was installed (history)
  removed,     \* weight that RemoveBackend took along (history)
  turns        \* picks of each backend since the last change (history)

lbVars == <<lbKind, list, counter, current, healthy, scan, changes, fresh, removed, turns>>

\* A call of Next: its place, how many backends it has read, its candidate, its
\* running value (startIdx, minConns or totalWeight), the backends that have been
\* healthy throughout, and whether nothing has changed meanwhile (history).
Called(at, best, acc, alive) ==
  [at |-> at, i |-> 0, best |-> best, acc |-> acc, alive |-> alive, calm |-> TRUE]
Idle == Called("idle", None, 0, {})
Place == {"idle", "scan", "picked", "using", "error"}

Listed == Range(list)
Conns(b) == Cardinality({c \in Caller : scan[c].at = "using" /\ scan[c].best = b})
Scanning == {c \in Caller : scan[c].at = "scan"}
MaxInt == Cardinality(Caller) + 1   \* math.MaxInt64: above any count
Zero == [b \in Backend |-> 0]
Sum(f) == SumFunctionOnSet(f, Listed)

LBInit ==
  /\ lbKind \in {"round-robin", "least-conn", "weighted"}
  /\ list \in Lists
  /\ counter = 0
  /\ current = Zero
  /\ healthy = Backend
  /\ scan = [c \in Caller |-> Idle]
  /\ changes = 0
  /\ fresh = TRUE
  /\ removed = 0
  /\ turns = Zero

Step(c, s) == scan' = [scan EXCEPT ![c] = s]

\* The scans in progress see that something changed.
Disturbed(dead) ==
  [c \in Caller |-> IF scan[c].at = "scan"
                    THEN [scan[c] EXCEPT !.alive = @ \ dead, !.calm = FALSE] ELSE scan[c]]
-----------------------------------------------------------------------------
(* Next *)

\* Mutant of Start: the counter is not used.
StartFixed(count) == 0

Start(count) == count % Len(list)

\* The lock, the empty list, and what is set up before the loop.
Begin(c) ==
  /\ scan[c].at = "idle"
  /\ lbKind = "weighted" => Scanning = {}
  /\ IF list = <<>>
     THEN Step(c, Called("error", None, 0, {})) /\ UNCHANGED <<counter, turns>>
     ELSE /\ counter' = IF lbKind = "round-robin" THEN (counter + 1) % CounterMod ELSE 0
          /\ scan' = [(IF counter' < counter THEN Disturbed({}) ELSE scan) EXCEPT ![c] =
                       Called("scan", None,
                              CASE lbKind = "round-robin" -> Start(counter')
                                [] lbKind = "least-conn"  -> MaxInt
                                [] lbKind = "weighted"    -> 0,
                              Listed \cap healthy)]
          /\ turns' = IF counter' < counter THEN Zero ELSE turns
  /\ UNCHANGED <<lbKind, list, current, healthy, changes, fresh, removed>>

\* One turn of RoundRobin's loop: the first healthy backend is returned.
ReadRoundRobin(c) ==
  LET s == scan[c]
      b == list[((s.acc + s.i) % Len(list)) + 1]
  IN  /\ lbKind = "round-robin" /\ s.best = None
      /\ Step(c, [s EXCEPT !.i = @ + 1, !.best = IF b \in healthy THEN b ELSE None])
      /\ UNCHANGED current

\* Mutant of Fewer: the busiest backend wins.
FewerNot(conns, min) == min = MaxInt \/ conns > min

Fewer(conns, min) == conns < min

ReadLeastConn(c) ==
  LET s == scan[c]
      b == list[s.i + 1]
  IN  /\ lbKind = "least-conn"
      /\ Step(c, IF b \in healthy /\ Fewer(Conns(b), s.acc)
                 THEN [s EXCEPT !.i = @ + 1, !.best = b, !.acc = Conns(b)]
                 ELSE [s EXCEPT !.i = @ + 1])
      /\ UNCHANGED current

ReadWeighted(c) ==
  LET s == scan[c]
      b == list[s.i + 1]
  IN  /\ lbKind = "weighted"
      /\ IF b \in healthy
         THEN /\ current' = [current EXCEPT ![b] = @ + Weight[b]]
              /\ Step(c, [s EXCEPT !.i = @ + 1, !.acc = @ + Weight[b],
                            !.best = IF @ = None \/ current'[b] > current[@] THEN b ELSE @])
         ELSE Step(c, [s EXCEPT !.i = @ + 1]) /\ UNCHANGED current

\* Mutant of LoopEnd: the last backend is not looked at.
LoopEndEarly == Len(list) - 1

LoopEnd == Len(list)

Read(c) ==
  /\ scan[c].at = "scan" /\ scan[c].i < LoopEnd
  /\ ReadRoundRobin(c) \/ ReadLeastConn(c) \/ ReadWeighted(c)
  /\ UNCHANGED <<lbKind, list, counter, healthy, changes, fresh, removed, turns>>

\* Mutant of Deduct: the selected backend pays its own weight only.
DeductOwn(b, total) == current[b] - Weight[b]

Deduct(b, total) == current[b] - total

\* The picks since the last change, less the complete rounds (or cycles).
Counted(b) ==
  LET t == [turns EXCEPT ![b] = @ + 1]
  IN  CASE lbKind = "round-robin" /\ Listed \subseteq healthy ->
             [x \in Backend |-> IF x \in Listed THEN t[x] - Min({t[y] : y \in Listed}) ELSE 0]
        [] lbKind = "weighted" ->
             IF Sum(turns) = Sum(Weight) THEN [Zero EXCEPT ![b] = 1] ELSE t
        [] OTHER -> Zero

\* Next returns its candidate or ErrNoHealthyBackends.
Return(c) ==
  LET s == scan[c] IN
  /\ s.at = "scan"
  /\ s.i >= LoopEnd \/ (lbKind = "round-robin" /\ s.best # None)
  /\ IF s.best = None
     THEN Step(c, [s EXCEPT !.at = "error", !.i = 0, !.acc = 0]) /\ UNCHANGED <<current, turns>>
     ELSE /\ Step(c, Called("picked", s.best, 0, {}))
          /\ current' = IF lbKind = "weighted"
                        THEN [current EXCEPT ![s.best] = Deduct(s.best, s.acc)] ELSE current
          /\ turns' = IF s.calm THEN Counted(s.best) ELSE turns
  /\ UNCHANGED <<lbKind, list, counter, healthy, changes, fresh, removed>>

\* The caller dials, which counts a connection (of interest to LeastConnections
\* only), and later closes it; or the dial fails, or it has no backend to dial.
Dial(c) ==
  /\ scan[c].at = "picked"
  /\ \/ lbKind = "least-conn" /\ scan' = [Disturbed({}) EXCEPT ![c].at = "using"]
     \/ scan' = [scan EXCEPT ![c] = Idle]
  /\ UNCHANGED <<lbKind, list, counter, current, healthy, changes, fresh, removed, turns>>

Hangup(c) ==
  /\ scan[c].at \in {"using", "error"}
  /\ scan' = [(IF scan[c].at = "using" THEN Disturbed({}) ELSE scan) EXCEPT ![c] = Idle]
  /\ UNCHANGED <<lbKind, list, counter, current, healthy, changes, fresh, removed, turns>>
-----------------------------------------------------------------------------
(* Changes of the list, under the write lock, and of a health flag *)

Change(clean) ==
  /\ changes < MaxChanges
  /\ changes' = changes + 1
  /\ fresh' = clean
  /\ turns' = Zero

AddBackend(b) ==
  /\ Change(FALSE) /\ Scanning = {} /\ b \notin Listed
  /\ list' = Append(list, b)
  /\ UNCHANGED <<lbKind, counter, current, healthy, scan, removed>>

\* The last backend takes the place of the removed one.
RemoveBackend(b) ==
  /\ Change(FALSE) /\ Scanning = {}
  /\ \E i \in DOMAIN list :
       list[i] = b /\ list' = SubSeq([list EXCEPT ![i] = list[Len(list)]], 1, Len(list) - 1)
  /\ removed' = removed + current[b]
  /\ current' = [current EXCEPT ![b] = 0]
  /\ UNCHANGED <<lbKind, counter, healthy, scan>>

\* Mutant of FreshWeights: backends keep the weights of the old list.
FreshWeightsKept == current

FreshWeights == Zero

UpdateBackends(l) ==
  /\ Change(Range(l) \subseteq healthy) /\ Scanning = {}
  /\ list' = l
  /\ current' = FreshWeights
  /\ removed' = 0
  /\ UNCHANGED <<lbKind, counter, healthy, scan>>

\* The health checker: not under the balancer's lock.
SetHealthy(b, up) ==
  /\ Change(FALSE) /\ (b \in healthy) # up
  /\ healthy' = IF up THEN healthy \cup {b} ELSE healthy \ {b}
  /\ scan' = Disturbed(IF up THEN {} ELSE {b})
  /\ UNCHANGED <<lbKind, list, counter, current, removed>>

LBNext ==
  \/ \E c \in Caller : Begin(c) \/ Read(c) \/ Return(c) \/ Dial(c) \/ Hangup(c)
  \/ \E b \in Backend : AddBackend(b) \/ RemoveBackend(b)
  \/ \E b \in Backend, up \in BOOLEAN : SetHealthy(b, up)
  \/ \E l \in Lists : UpdateBackends(l)

LBSpec == LBInit /\ [][LBNext]_lbVars
-----------------------------------------------------------------------------
(* Properties *)

\* Next fails only if no listed backend was healthy for the whole of the call
\* (ErrNoHealthyBackends), although it reads the flags one by one.
NoFalseAlarm == \A c \in Caller : scan[c].at = "error" => scan[c].alive = {}

\* While all backends are healthy and the list stays, round robin gives them
\* turns that differ by at most one, plus one for each Next still in progress
\* (counting from the last change or wrap of the counter).
EvenTurns ==
  lbKind = "round-robin" =>
    \A a, b \in Listed : turns[a] <= turns[b] + 1 + Cardinality(Scanning)

\* The smooth weighted algorithm moves weight around and creates none: between
\* calls the running weights add up to zero, but for what removed backends took
\* along, whatever is ejected or reinstated between the reads.
WeightConserved == Scanning = {} => Sum(current) + removed = 0

\* Nor does it pile up: backends that are skipped as unhealthy and come back, in
\* any order, are never further ahead or behind than one cycle of all weights.
WeightBounded ==
  LET cycle == SumFunction(Weight)
  IN  Scanning = {} /\ removed = 0 => \A b \in Listed : current[b] \in -cycle..cycle

\* From a fresh list and with every backend healthy, each cycle of as many calls
\* as the weights add up to serves every backend exactly its weight.
CycleExact ==
  lbKind = "weighted" /\ fresh /\ Scanning = {} /\ Sum(turns) = Sum(Weight) =>
    \A b \in Listed : turns[b] = Weight[b] /\ current[b] = 0

\* LeastConnections returns a healthy backend with the fewest connections, if
\* nothing changed since the call began.
LeastChosen ==
  [][\A c \in Caller :
       lbKind = "least-conn" /\ scan[c].at = "scan" /\ scan[c].calm /\ scan'[c].at = "picked" =>
         \A b \in Listed \cap healthy :
           scan'[c].best \in healthy /\ Conns(scan'[c].best) <= Conns(b)]_lbVars
=============================================================================
