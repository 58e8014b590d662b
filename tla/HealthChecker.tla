--------------------------- MODULE HealthChecker ---------------------------
(* The active health checker (internal/health/checker.go) and the health     *)
(* flag of a Backend (internal/backend/backend.go).                          *)
(*                                                                           *)
(* One loop runs rounds; a round starts one checkOne per backend and waits   *)
(* for all of them.  UpdateBackends replaces the list at any moment, a round *)
(* in progress included.  Counters belong to addresses, the health flag to   *)
(* Backend objects: every list that main builds consists of new, healthy     *)
(* objects, and one list may name an address twice (a configured backend     *)
(* that also registers itself).                                              *)
(*                                                                           *)
(* checkAll reads c.backends without the lock.  The two words of the slice   *)
(* are two loads, so a round may see the array of one list and the length    *)
(* of another; a length past the end of the array is a wild read, which ends *)
(* the process (crashed).                                                    *)
(*                                                                           *)
(* main calls Start once, and Stop after the context is cancelled.           *)
EXTENDS Integers, Sequences, FiniteSets

CONSTANTS Addr, MaxList, MaxUpdates, UnhealthyThreshold, HealthyThreshold

ASSUME ThresholdAssumption ==
    /\ UnhealthyThreshold \in Nat \ {0}
    /\ HealthyThreshold \in Nat \ {0}
    /\ MaxList \in Nat \ {0} /\ MaxUpdates \in Nat

VARIABLES
    backends,      \* c.backends
    build,         \* lists built so far (history; names the objects)
    ejected,       \* the objects whose healthy flag is false
    failureCount,  \* c.failureCount, an absent key being 0
    successCount,  \* c.successCount
    seen,          \* the first load of c.backends by checkAll
    probe,         \* the checkOne calls in progress: object -> stage
    loop,          \* where checkLoop is
    main,          \* where main is: "new", "started", "stopping", "stopped"
    ctxDone,       \* the context is cancelled
    crashed,       \* checkAll read past the end of an array
    up,            \* does the address answer checks (environment)
    fails, passes  \* consecutive recorded results of an address (history)

counters == <<failureCount, successCount, fails, passes>>
control == <<seen, loop, main, ctxDone, crashed>>
vars == <<backends, build, ejected, counters, probe, control, up>>

\* A Backend: its address, the list it was built for and its place there.
Object == Addr \X (0..MaxUpdates) \X (1..MaxList)
AddrOf(o) == o[1]
Elements(s) == {s[i] : i \in DOMAIN s}
Lists == UNION {[1..n -> Addr] : n \in 1..MaxList}

\* buildBackends: one new object per entry, healthy (NewBackend).
NewBackends(list, g) == [i \in DOMAIN list |-> <<list[i], g, i>>]

\* Counting stops at the threshold, beyond which the code compares alike.
Count(n, threshold) == IF n < threshold THEN n + 1 ELSE n

TypeOK ==
    /\ backends \in Seq(Object) /\ backends # <<>>
    /\ build \in 0..MaxUpdates
    /\ ejected \subseteq Object
    /\ failureCount \in [Addr -> 0..UnhealthyThreshold]
    /\ successCount \in [Addr -> 0..HealthyThreshold]
    /\ fails \in [Addr -> 0..UnhealthyThreshold]
    /\ passes \in [Addr -> 0..HealthyThreshold]
    /\ DOMAIN probe \subseteq Object
    /\ \A o \in DOMAIN probe : probe[o] \in {"probing", "failed", "passed", "eject", "admit"}
    /\ loop \in {"none", "begin", "reading", "round", "waiting", "exited"}
    /\ seen \in Seq(Object)
    /\ main \in {"new", "started", "stopping", "stopped"}
    /\ ctxDone \in BOOLEAN /\ crashed \in BOOLEAN /\ up \in [Addr -> BOOLEAN]

Init ==
    /\ \E list \in Lists : backends = NewBackends(list, 0)
    /\ build = 0
    /\ ejected = {}
    /\ failureCount = [a \in Addr |-> 0] /\ successCount = [a \in Addr |-> 0]
    /\ fails = [a \in Addr |-> 0] /\ passes = [a \in Addr |-> 0]
    /\ seen = <<>> /\ probe = <<>>
    /\ loop = "none" /\ main = "new"
    /\ ctxDone = FALSE /\ crashed = FALSE
    /\ up \in [Addr -> BOOLEAN]

-----------------------------------------------------------------------------
(* Start and Stop, as main calls them *)

Start ==
    /\ main = "new"
    /\ main' = "started" /\ loop' = "begin"
    /\ UNCHANGED <<backends, build, ejected, counters, probe, seen, ctxDone, crashed, up>>

\* The shutdown signal: main cancels the context all checks derive from.
Cancel ==
    /\ ~ctxDone
    /\ ctxDone' = TRUE
    /\ UNCHANGED <<backends, build, ejected, counters, probe, seen, loop, main, crashed, up>>

\* Stop closes done and waits for the loop.
Stop ==
    /\ main = "started" /\ ctxDone
    /\ main' = "stopping"
    /\ UNCHANGED <<backends, build, ejected, counters, probe, seen, loop, ctxDone, crashed, up>>

\* Mutant of StopWaits: Stop does not wait for the loop.
StopWaitsNot(exited) == TRUE
StopWaits(exited) == exited

StopReturn ==
    /\ main = "stopping" /\ StopWaits(loop = "exited")
    /\ main' = "stopped"
    /\ UNCHANGED <<backends, build, ejected, counters, probe, seen, loop, ctxDone, crashed, up>>

-----------------------------------------------------------------------------
(* checkLoop and checkAll *)

\* The first of the two loads of c.backends.
ReadList ==
    /\ loop = "begin"
    /\ seen' = backends /\ loop' = "reading"
    /\ UNCHANGED <<backends, build, ejected, counters, probe, main, ctxDone, crashed, up>>

\* Mutant of Ranged: the last backend is never checked.
RangedShort(list, n) == Elements(SubSeq(list, 1, IF n > 1 THEN n - 1 ELSE n))
Ranged(list, n) == Elements(SubSeq(list, 1, n))

\* The second load: the array of one list and the length of the other, in
\* either order.  One checkOne starts for every element.
BeginRound ==
    /\ loop = "reading"
    /\ \E read \in {<<seen, Len(backends)>>, <<backends, Len(seen)>>} :
          IF read[2] > Len(read[1])
          THEN crashed' = TRUE /\ UNCHANGED <<probe, loop, seen>>
          ELSE /\ probe' = [o \in Ranged(read[1], read[2]) |-> "probing"]
               /\ loop' = "round" /\ seen' = <<>>
               /\ UNCHANGED crashed
    /\ UNCHANGED <<backends, build, ejected, counters, main, ctxDone, up>>

\* checkAll's wait group: the round ends when no checkOne is left.  An object
\* that is not listed any more is garbage from here on.
EndRound ==
    /\ loop = "round" /\ probe = <<>>
    /\ loop' = "waiting"
    /\ ejected' = ejected \cap Elements(backends)
    /\ UNCHANGED <<backends, build, counters, probe, seen, main, ctxDone, crashed, up>>

Tick ==
    /\ loop = "waiting"
    /\ loop' = "begin"
    /\ UNCHANGED <<backends, build, ejected, counters, probe, seen, main, ctxDone, crashed, up>>

\* Mutant of StopSignal: done is closed after the wait.
StopSignalLate == main = "stopped"
StopSignal == ctxDone \/ main = "stopping"

\* The select takes ctx.Done() or done when it is ready (and may as well take
\* the ticker when that is ready too).
Exit ==
    /\ loop = "waiting" /\ StopSignal
    /\ loop' = "exited"
    /\ UNCHANGED <<backends, build, ejected, counters, probe, seen, main, ctxDone, crashed, up>>

-----------------------------------------------------------------------------
(* checkOne *)

Without(f, o) == [x \in DOMAIN f \ {o} |-> f[x]]

\* tcpCheck or httpCheck returns.  The checks run under the context, so a
\* cancelled one makes a check of a live backend fail.
Probe(o) ==
    /\ o \in DOMAIN probe /\ probe[o] = "probing"
    /\ \E ok \in {up[AddrOf(o)], up[AddrOf(o)] /\ ~ctxDone} :
          probe' = [probe EXCEPT ![o] = IF ok THEN "passed" ELSE "failed"]
    /\ UNCHANGED <<backends, build, ejected, counters, control, up>>

AtThreshold(n) == n >= UnhealthyThreshold

\* The failure path under c.mu; SetHealthy(false) follows after the unlock.
RecordFailure(o) ==
    LET a == AddrOf(o) IN
    /\ o \in DOMAIN probe /\ probe[o] = "failed"
    /\ failureCount' = [failureCount EXCEPT ![a] = Count(@, UnhealthyThreshold)]
    /\ successCount' = [successCount EXCEPT ![a] = 0]
    /\ fails' = [fails EXCEPT ![a] = Count(@, UnhealthyThreshold)]
    /\ passes' = [passes EXCEPT ![a] = 0]
    /\ probe' = IF AtThreshold(failureCount'[a])
                THEN [probe EXCEPT ![o] = "eject"] ELSE Without(probe, o)
    /\ UNCHANGED <<backends, build, ejected, control, up>>

\* Mutant of FailuresAfterSuccess: failures need not be consecutive.
FailuresKept(n) == n
FailuresAfterSuccess(n) == 0

\* The success path: the flag is set under c.mu whatever successCount is, and
\* set again after the unlock when HealthyThreshold is reached.
RecordSuccess(o) ==
    LET a == AddrOf(o) IN
    /\ o \in DOMAIN probe /\ probe[o] = "passed"
    /\ failureCount' = [failureCount EXCEPT ![a] = FailuresAfterSuccess(@)]
    /\ successCount' = [successCount EXCEPT ![a] = Count(@, HealthyThreshold)]
    /\ fails' = [fails EXCEPT ![a] = 0]
    /\ passes' = [passes EXCEPT ![a] = Count(@, HealthyThreshold)]
    /\ ejected' = ejected \ {o}
    /\ probe' = IF successCount'[a] >= HealthyThreshold /\ o \in ejected
                THEN [probe EXCEPT ![o] = "admit"] ELSE Without(probe, o)
    /\ UNCHANGED <<backends, build, control, up>>

\* Mutant of Flag: the flag is only ever cleared.
FlagAlwaysDown(o, stage) == ejected \cup {o}
Flag(o, stage) == IF stage = "eject" THEN ejected \cup {o} ELSE ejected \ {o}

\* SetHealthy after the unlock.
SetHealthy(o) ==
    /\ o \in DOMAIN probe /\ probe[o] \in {"eject", "admit"}
    /\ ejected' = Flag(o, probe[o])
    /\ probe' = Without(probe, o)
    /\ UNCHANGED <<backends, build, counters, control, up>>

-----------------------------------------------------------------------------
(* UpdateBackends, called by a reload and by the registry watcher *)

\* Counters of addresses that are no longer listed are dropped.
Kept(count, list) == [a \in Addr |-> IF a \in Elements(list) THEN count[a] ELSE 0]

UpdateBackends(list) ==
    /\ build < MaxUpdates
    /\ build' = build + 1
    /\ backends' = NewBackends(list, build')
    /\ failureCount' = Kept(failureCount, list)
    /\ successCount' = Kept(successCount, list)
    /\ UNCHANGED <<ejected, fails, passes, probe, control, up>>

\* The backend behind an address starts or stops answering.
Flip(a) ==
    /\ up' = [up EXCEPT ![a] = ~@]
    /\ UNCHANGED <<backends, build, ejected, counters, probe, control>>

CheckOne(o) == Probe(o) \/ RecordFailure(o) \/ RecordSuccess(o) \/ SetHealthy(o)

Next ==
    /\ ~crashed
    /\ \/ Start \/ Cancel \/ Stop \/ StopReturn
       \/ ReadList \/ BeginRound \/ EndRound \/ Tick \/ Exit
       \/ \E o \in Object : CheckOne(o)
       \/ \E list \in Lists : UpdateBackends(list)
       \/ \E a \in Addr : Flip(a)

\* The goroutines run, checks end (each has a timeout), the ticker ticks, and
\* a select with a closed channel does not prefer the ticker for ever.  A
\* round has finitely many steps, so fairness to the checks as a whole is
\* fairness to each.
Fairness ==
    /\ WF_vars(~crashed /\ (Start \/ ReadList \/ BeginRound \/ EndRound \/ Tick))
    /\ WF_vars(~crashed /\ (Stop \/ StopReturn))
    /\ SF_vars(~crashed /\ Exit)
    /\ WF_vars(~crashed /\ \E o \in Object : CheckOne(o))

Spec == Init /\ [][Next]_vars
FairSpec == Spec /\ Fairness

-----------------------------------------------------------------------------
(* Properties *)

\* A backend is about to be marked unhealthy only when the last
\* UnhealthyThreshold results recorded for its address were failures, whatever
\* list updates came between and however stale the round was (checkOne,
\* UpdateBackends).
EjectionEarned ==
    [][\A o \in Object :
          (o \in DOMAIN probe' /\ probe'[o] = "eject") /\ ~(o \in DOMAIN probe /\ probe[o] = "eject")
             => fails'[AddrOf(o)] >= UnhealthyThreshold]_vars

\* The counter checkOne compares never runs ahead of the results: it is at
\* most the number of consecutive failures, so dropping and recreating keys
\* while a stale round still writes them cannot eject a backend early.
CountersEarned ==
    \A a \in Addr : /\ failureCount[a] <= fails[a]
                    /\ successCount[a] <= passes[a]
                    /\ failureCount[a] = 0 \/ successCount[a] = 0

\* Once Stop has returned no check is running and none will: the flags stay as
\* they are (Stop: "Blocks until checker goroutine exits").
QuietAfterStop ==
    main = "stopped" => loop = "exited" /\ probe = <<>>

\* A backend that stays dead is taken out of rotation and stays out, in the
\* list in use then, however often the list was replaced, as long as the
\* checker keeps running.
Detects ==
    \A a \in Addr :
        <>[](~up[a] /\ ~ctxDone /\ ~crashed)
            => <>[](\A o \in Elements(backends) : AddrOf(o) = a => o \in ejected)

\* A backend that stays alive is put back and stays in.
Recovers ==
    \A a \in Addr :
        <>[](up[a] /\ ~ctxDone /\ ~crashed)
            => <>[](\A o \in Elements(backends) : AddrOf(o) = a => o \notin ejected)

\* The load balancer's view follows the backends, in both directions.
FollowsBackends == Detects /\ Recovers

\* After the shutdown signal the loop leaves its select and Stop returns.
StopReturns == ctxDone ~> (main = "stopped" \/ crashed)

\* What the documentation says of reinstatement: an ejected backend comes back
\* only after HealthyThreshold consecutive successes.  checkOne sets the flag
\* on the first one.
ReinstatementEarned ==
    [][\A o \in Object :
          o \in ejected \ ejected' /\ o \in Elements(backends) => passes'[AddrOf(o)] >= HealthyThreshold]_vars

=============================================================================
