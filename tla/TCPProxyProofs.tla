--------------------------- MODULE TCPProxyProofs ---------------------------
(***************************************************************************)
(* The safety of the L4 proxy's lifecycle for any number of client         *)
(* connections, concurrent Stop calls and backends.                        *)
(***************************************************************************)
EXTENDS TCPProxy, FiniteSetTheorems, TLAPS

\* One accept loop per proxy: only a proxy never started may start, and the loop
\* closes each channel on its way.
LoopPhase ==
  /\ MayStart => loop = "none"
  /\ loop \in {"none", "starting"} => ~ready
  /\ loop \notin {"closing", "exited"} => ~done
  /\ \A c \in Client : pc[c] = "accepted" => loop = "spawn"
  /\ \A c, d \in Client : pc[c] = "accepted" /\ pc[d] = "accepted" => c = d

\* A Stop call that got past p.mu has closed the listener for good, and one that
\* got past acceptWg leaves no accept loop behind.
StopPhase ==
  \A s \in Stopper :
    /\ stop[s] # "idle" => stopped
    /\ stop[s] \in {"waitAccept", "drain", "drained", "timeout", "gaveUp"}
         => listener = "closed"
    /\ stop[s] \in {"drain", "drained", "timeout", "gaveUp"} => loop = "exited"

\* What a handler knows when it deals with its breaker.
BreakerPhase ==
  \A c \in Client :
    /\ pc[c] \in {"new", "backlog", "accepted", "spawned", "counted", "lookup",
                  "create"} => cb[c] = None
    /\ pc[c] \in {"lookup", "create"} \/ cb[c] # None => addr[c] \in Addr

IndInv ==
  /\ TypeOK
  /\ LoopPhase
  /\ StopPhase
  /\ BreakerPhase
  /\ DrainedIsIdle
  /\ CountersExact
  /\ OneBreaker
  /\ NoTruncation

-----------------------------------------------------------------------------
\* By how much moving connection c to a point changes the number at points S.
Delta(c, l, S) == (IF l \in S THEN 1 ELSE 0) - (IF pc[c] \in S THEN 1 ELSE 0)

\* Moving one connection from a point to another changes the number of
\* connections at a set of points by what it enters less what it leaves.
LEMMA MoveCount ==
  ASSUME pc \in [Client -> ConnPC], NEW c \in Client, NEW l \in ConnPC,
         Goto(c, l), NEW S
  PROVE  /\ Cardinality(At(S)') \in Nat
         /\ Cardinality(At(S)') = Cardinality(At(S)) + Delta(c, l, S)
<1> DEFINE A == At(S)
           B == {d \in Client : pc'[d] \in S}
<1>0. B = At(S)'
  BY DEF At
<1>1. pc' = [pc EXCEPT ![c] = l]
  BY DEF Goto
<1>2. IsFiniteSet(A) /\ Cardinality(A) \in Nat
  BY ProxyAssumption, FS_Subset, FS_CardinalityType DEF At
<1>3. IsFiniteSet(B) /\ Cardinality(B) \in Nat
  BY ProxyAssumption, FS_Subset, FS_CardinalityType
<1>4. Cardinality(B) = Cardinality(A) + Delta(c, l, S)
  <2>1. CASE l \in S /\ pc[c] \notin S
    <3>1. B = A \cup {c} /\ c \notin A
      BY <1>1, <2>1 DEF At
    <3>2. Cardinality(B) = Cardinality(A) + 1
      BY <1>2, <3>1, FS_AddElement
    <3> QED
      BY <1>2, <2>1, <3>2 DEF Delta
  <2>2. CASE l \notin S /\ pc[c] \in S
    <3>1. B = A \ {c} /\ c \in A
      BY <1>1, <2>2 DEF At
    <3>2. Cardinality(B) = Cardinality(A) - 1
      BY <1>2, <3>1, FS_RemoveElement
    <3> QED
      BY <1>2, <2>2, <3>2 DEF Delta
  <2>3. CASE (l \in S /\ pc[c] \in S) \/ (l \notin S /\ pc[c] \notin S)
    <3>1. B = A
      BY <1>1, <2>3 DEF At
    <3>2. Delta(c, l, S) = 0
      BY <2>3 DEF Delta
    <3> HIDE DEF A, B
    <3> QED
      BY <1>2, <3>1, <3>2
  <2> QED
    BY <2>1, <2>2, <2>3
<1> QED
  BY <1>0, <1>3, <1>4

\* The points that activeConns and the gauge count.
ActivePC == HandlerPC \ {"spawned", "release"}
GaugePC  == HandlerPC \ {"spawned", "uncount", "release"}

\* A handler step keeps the counters exact if it changes each one by what the
\* move calls for.
LEMMA MoveCounters ==
  ASSUME TypeOK, CountersExact, NEW c \in Client, NEW l \in ConnPC, Goto(c, l),
         connWg' = connWg + Delta(c, l, HandlerPC),
         activeConns' = activeConns + Delta(c, l, ActivePC),
         gauge' = gauge + Delta(c, l, GaugePC)
  PROVE  CountersExact' /\ connWg' \in Nat /\ activeConns' \in Nat /\ gauge' \in Nat
<1>0. pc \in [Client -> ConnPC]
  BY DEF TypeOK
<1>1. /\ Cardinality(At(HandlerPC)') \in Nat
      /\ Cardinality(At(HandlerPC)') = Cardinality(At(HandlerPC)) + Delta(c, l, HandlerPC)
  BY <1>0, MoveCount
<1>2. /\ Cardinality(At(ActivePC)') \in Nat
      /\ Cardinality(At(ActivePC)') = Cardinality(At(ActivePC)) + Delta(c, l, ActivePC)
  BY <1>0, MoveCount
<1>3. /\ Cardinality(At(GaugePC)') \in Nat
      /\ Cardinality(At(GaugePC)') = Cardinality(At(GaugePC)) + Delta(c, l, GaugePC)
  BY <1>0, MoveCount
<1> QED
  BY <1>1, <1>2, <1>3 DEF CountersExact, ActivePC, GaugePC

\* Steps that move no connection leave the counted connections alone.
LEMMA StayCount ==
  ASSUME CountersExact, UNCHANGED <<pc, activeConns, connWg, gauge>>
  PROVE  CountersExact'
BY DEF CountersExact, At

\* When no handler is counted there is none.
LEMMA NoneLive ==
  ASSUME TypeOK, CountersExact, connWg = 0
  PROVE  \A c \in Client : pc[c] \notin HandlerPC
<1>1. IsFiniteSet(At(HandlerPC))
  BY ProxyAssumption, FS_Subset DEF At
<1>2. At(HandlerPC) = {}
  BY <1>1, FS_EmptySet DEF CountersExact
<1> QED
  BY <1>2 DEF At
-----------------------------------------------------------------------------
(* The steps preserve the invariant                                        *)

\* A new proxy satisfies the invariant.
LEMMA InitInd == Init => IndInv
<1> SUFFICES ASSUME Init PROVE IndInv
  OBVIOUS
<1> USE DEF Init
<1>1. TypeOK
  BY DEF TypeOK, LoopPC, ConnPC, StopPC
<1>2. CountersExact
  <2>1. At(HandlerPC) = {} /\ At(ActivePC) = {} /\ At(GaugePC) = {}
    BY DEF At, HandlerPC, ActivePC, GaugePC
  <2> QED
    BY <2>1, FS_EmptySet DEF CountersExact, ActivePC, GaugePC
<1> QED
  BY <1>1, <1>2 DEF IndInv, LoopPhase, StopPhase, BreakerPhase, DrainedIsIdle,
     OneBreaker, NoTruncation

\* A proxy is started.
LEMMA StartInd ==
  ASSUME IndInv, Start
  PROVE  IndInv'
<1> USE ProxyAssumption DEF IndInv, Start, MayStart, lifecycle, counters, handlers, stops
<1>1. CountersExact'
  BY StayCount
<1>2. TypeOK'
  BY <1>1 DEF TypeOK, LoopPC, ConnPC, HandlerPC, StopPC
<1>3. LoopPhase'
  BY DEF TypeOK, LoopPhase, MayStart
<1>4. StopPhase'
  BY DEF TypeOK, StopPhase
<1>5. BreakerPhase'
  BY DEF TypeOK, BreakerPhase
<1>6. DrainedIsIdle'
  BY DEF TypeOK, LoopPhase, StopPhase, DrainedIsIdle
<1>7. OneBreaker'
  BY DEF TypeOK, OneBreaker, BreakerPhase
<1>8. NoTruncation'
  BY DEF TypeOK, NoTruncation
<1> QED
  BY <1>1, <1>2, <1>3, <1>4, <1>5, <1>6, <1>7, <1>8

\* The accept loop announces itself.
LEMMA LoopReadyInd ==
  ASSUME IndInv, LoopReady
  PROVE  IndInv'
<1> USE ProxyAssumption DEF IndInv, LoopReady, lifecycle, counters, handlers, stops
<1>1. CountersExact'
  BY StayCount
<1>2. TypeOK'
  BY <1>1 DEF TypeOK, LoopPC, ConnPC, HandlerPC, StopPC
<1>3. LoopPhase'
  BY DEF TypeOK, LoopPhase, MayStart
<1>4. StopPhase'
  BY DEF TypeOK, StopPhase
<1>5. BreakerPhase'
  BY DEF TypeOK, BreakerPhase
<1>6. DrainedIsIdle'
  BY DEF TypeOK, LoopPhase, StopPhase, DrainedIsIdle
<1>7. OneBreaker'
  BY DEF TypeOK, OneBreaker, BreakerPhase
<1>8. NoTruncation'
  BY DEF TypeOK, NoTruncation
<1> QED
  BY <1>1, <1>2, <1>3, <1>4, <1>5, <1>6, <1>7, <1>8

\* The top of the accept loop.
LEMMA LoopCheckInd ==
  ASSUME IndInv, LoopCheck
  PROVE  IndInv'
<1> USE ProxyAssumption DEF IndInv, LoopCheck, lifecycle, counters, handlers, stops
<1>1. CountersExact'
  BY StayCount
<1>2. TypeOK'
  BY <1>1 DEF TypeOK, LoopPC, ConnPC, HandlerPC, StopPC
<1>3. LoopPhase'
  BY DEF TypeOK, LoopPhase, MayStart
<1>4. StopPhase'
  BY DEF TypeOK, StopPhase
<1>5. BreakerPhase'
  BY DEF TypeOK, BreakerPhase
<1>6. DrainedIsIdle'
  BY DEF TypeOK, LoopPhase, StopPhase, DrainedIsIdle
<1>7. OneBreaker'
  BY DEF TypeOK, OneBreaker, BreakerPhase
<1>8. NoTruncation'
  BY DEF TypeOK, NoTruncation
<1> QED
  BY <1>1, <1>2, <1>3, <1>4, <1>5, <1>6, <1>7, <1>8

\* Accept times out.
LEMMA AcceptTimeoutInd ==
  ASSUME IndInv, AcceptTimeout
  PROVE  IndInv'
<1> USE ProxyAssumption DEF IndInv, AcceptTimeout, lifecycle, counters, handlers, stops
<1>1. CountersExact'
  BY StayCount
<1>2. TypeOK'
  BY <1>1 DEF TypeOK, LoopPC, ConnPC, HandlerPC, StopPC
<1>3. LoopPhase'
  BY DEF TypeOK, LoopPhase, MayStart
<1>4. StopPhase'
  BY DEF TypeOK, StopPhase
<1>5. BreakerPhase'
  BY DEF TypeOK, BreakerPhase
<1>6. DrainedIsIdle'
  BY DEF TypeOK, LoopPhase, StopPhase, DrainedIsIdle
<1>7. OneBreaker'
  BY DEF TypeOK, OneBreaker, BreakerPhase
<1>8. NoTruncation'
  BY DEF TypeOK, NoTruncation
<1> QED
  BY <1>1, <1>2, <1>3, <1>4, <1>5, <1>6, <1>7, <1>8

\* Accept fails.
LEMMA AcceptErrorInd ==
  ASSUME IndInv, AcceptError
  PROVE  IndInv'
<1> USE ProxyAssumption DEF IndInv, AcceptError, lifecycle, counters, handlers, stops
<1>1. CountersExact'
  BY StayCount
<1>2. TypeOK'
  BY <1>1 DEF TypeOK, LoopPC, ConnPC, HandlerPC, StopPC
<1>3. LoopPhase'
  BY DEF TypeOK, LoopPhase, MayStart
<1>4. StopPhase'
  BY DEF TypeOK, StopPhase
<1>5. BreakerPhase'
  BY DEF TypeOK, BreakerPhase
<1>6. DrainedIsIdle'
  BY DEF TypeOK, LoopPhase, StopPhase, DrainedIsIdle
<1>7. OneBreaker'
  BY DEF TypeOK, OneBreaker, BreakerPhase
<1>8. NoTruncation'
  BY DEF TypeOK, NoTruncation
<1> QED
  BY <1>1, <1>2, <1>3, <1>4, <1>5, <1>6, <1>7, <1>8

\* The accept loop is gone.
LEMMA LoopExitInd ==
  ASSUME IndInv, LoopExit
  PROVE  IndInv'
<1> USE ProxyAssumption DEF IndInv, LoopExit, lifecycle, counters, handlers, stops
<1>1. CountersExact'
  BY StayCount
<1>2. TypeOK'
  BY <1>1 DEF TypeOK, LoopPC, ConnPC, HandlerPC, StopPC
<1>3. LoopPhase'
  BY DEF TypeOK, LoopPhase, MayStart
<1>4. StopPhase'
  BY DEF TypeOK, StopPhase
<1>5. BreakerPhase'
  BY DEF TypeOK, BreakerPhase
<1>6. DrainedIsIdle'
  BY DEF TypeOK, LoopPhase, StopPhase, DrainedIsIdle
<1>7. OneBreaker'
  BY DEF TypeOK, OneBreaker, BreakerPhase
<1>8. NoTruncation'
  BY DEF TypeOK, NoTruncation
<1> QED
  BY <1>1, <1>2, <1>3, <1>4, <1>5, <1>6, <1>7, <1>8

\* The context is cancelled.
LEMMA CancelInd ==
  ASSUME IndInv, Cancel
  PROVE  IndInv'
<1> USE ProxyAssumption DEF IndInv, Cancel, lifecycle, counters, handlers, stops
<1>1. CountersExact'
  BY StayCount
<1>2. TypeOK'
  BY <1>1 DEF TypeOK, LoopPC, ConnPC, HandlerPC, StopPC
<1>3. LoopPhase'
  BY DEF TypeOK, LoopPhase, MayStart
<1>4. StopPhase'
  BY DEF TypeOK, StopPhase
<1>5. BreakerPhase'
  BY DEF TypeOK, BreakerPhase
<1>6. DrainedIsIdle'
  BY DEF TypeOK, LoopPhase, StopPhase, DrainedIsIdle
<1>7. OneBreaker'
  BY DEF TypeOK, OneBreaker, BreakerPhase
<1>8. NoTruncation'
  BY DEF TypeOK, NoTruncation
<1> QED
  BY <1>1, <1>2, <1>3, <1>4, <1>5, <1>6, <1>7, <1>8

\* Stop, under the mutex.
LEMMA StopCallInd ==
  ASSUME IndInv, NEW s \in Stopper, StopCall(s)
  PROVE  IndInv'
<1> USE ProxyAssumption DEF IndInv, StopCall, CloseListener, lifecycle, counters, handlers, stops
<1>1. CountersExact'
  BY StayCount
<1>2. TypeOK'
  BY <1>1, ZenonT(40) DEF TypeOK, LoopPC, ConnPC, HandlerPC, StopPC
<1>3. LoopPhase'
  BY DEF TypeOK, LoopPhase, MayStart
<1>4. StopPhase'
  BY DEF TypeOK, StopPhase
<1>5. BreakerPhase'
  BY DEF TypeOK, BreakerPhase
<1>6. DrainedIsIdle'
  BY DEF TypeOK, LoopPhase, StopPhase, DrainedIsIdle
<1>7. OneBreaker'
  BY DEF TypeOK, OneBreaker, BreakerPhase
<1>8. NoTruncation'
  BY DEF TypeOK, NoTruncation
<1> QED
  BY <1>1, <1>2, <1>3, <1>4, <1>5, <1>6, <1>7, <1>8

\* Stop outlives the accept loop.
LEMMA StopAcceptingInd ==
  ASSUME IndInv, NEW s \in Stopper, StopAccepting(s)
  PROVE  IndInv'
<1> USE ProxyAssumption DEF IndInv, StopAccepting, LoopGone, lifecycle, counters, handlers, stops
<1>1. CountersExact'
  BY StayCount
<1>2. TypeOK'
  BY <1>1 DEF TypeOK, LoopPC, ConnPC, HandlerPC, StopPC
<1>3. LoopPhase'
  BY DEF TypeOK, LoopPhase, MayStart
<1>4. StopPhase'
  BY DEF TypeOK, StopPhase
<1>5. BreakerPhase'
  BY DEF TypeOK, BreakerPhase
<1>6. DrainedIsIdle'
  BY DEF TypeOK, LoopPhase, StopPhase, DrainedIsIdle
<1>7. OneBreaker'
  BY DEF TypeOK, OneBreaker, BreakerPhase
<1>8. NoTruncation'
  BY DEF TypeOK, NoTruncation
<1> QED
  BY <1>1, <1>2, <1>3, <1>4, <1>5, <1>6, <1>7, <1>8

\* Stop outlives the handlers.
LEMMA StopDrainedInd ==
  ASSUME IndInv, NEW s \in Stopper, StopDrained(s)
  PROVE  IndInv'
<1> USE ProxyAssumption DEF IndInv, StopDrained, lifecycle, counters, handlers, stops
<1>1. CountersExact'
  BY StayCount
<1>2. TypeOK'
  BY <1>1 DEF TypeOK, LoopPC, ConnPC, HandlerPC, StopPC
<1>3. LoopPhase'
  BY DEF TypeOK, LoopPhase, MayStart
<1>4. StopPhase'
  BY DEF TypeOK, StopPhase
<1>5. BreakerPhase'
  BY DEF TypeOK, BreakerPhase
<1>6. DrainedIsIdle'
  BY NoneLive DEF TypeOK, LoopPhase, StopPhase, DrainedIsIdle, HandlerPC, ConnPC
<1>7. OneBreaker'
  BY DEF TypeOK, OneBreaker, BreakerPhase
<1>8. NoTruncation'
  BY DEF TypeOK, NoTruncation
<1> QED
  BY <1>1, <1>2, <1>3, <1>4, <1>5, <1>6, <1>7, <1>8

\* Stop gives up.
LEMMA StopTimeoutInd ==
  ASSUME IndInv, NEW s \in Stopper, StopTimeout(s)
  PROVE  IndInv'
<1> USE ProxyAssumption DEF IndInv, StopTimeout, lifecycle, counters, handlers, stops
<1>1. CountersExact'
  BY StayCount
<1>2. TypeOK'
  BY <1>1 DEF TypeOK, LoopPC, ConnPC, HandlerPC, StopPC
<1>3. LoopPhase'
  BY DEF TypeOK, LoopPhase, MayStart
<1>4. StopPhase'
  BY DEF TypeOK, StopPhase
<1>5. BreakerPhase'
  BY DEF TypeOK, BreakerPhase
<1>6. DrainedIsIdle'
  BY DEF TypeOK, LoopPhase, StopPhase, DrainedIsIdle
<1>7. OneBreaker'
  BY DEF TypeOK, OneBreaker, BreakerPhase
<1>8. NoTruncation'
  BY DEF TypeOK, NoTruncation
<1> QED
  BY <1>1, <1>2, <1>3, <1>4, <1>5, <1>6, <1>7, <1>8

\* A deadline passes.
LEMMA ExpireInd ==
  ASSUME IndInv, NEW s \in Stopper, Expire(s)
  PROVE  IndInv'
<1> USE ProxyAssumption DEF IndInv, Expire, lifecycle, counters, handlers, stops
<1>1. CountersExact'
  BY StayCount
<1>2. TypeOK'
  BY <1>1 DEF TypeOK, LoopPC, ConnPC, HandlerPC, StopPC
<1>3. LoopPhase'
  BY DEF TypeOK, LoopPhase, MayStart
<1>4. StopPhase'
  BY DEF TypeOK, StopPhase
<1>5. BreakerPhase'
  BY DEF TypeOK, BreakerPhase
<1>6. DrainedIsIdle'
  BY DEF TypeOK, LoopPhase, StopPhase, DrainedIsIdle
<1>7. OneBreaker'
  BY DEF TypeOK, OneBreaker, BreakerPhase
<1>8. NoTruncation'
  BY DEF TypeOK, NoTruncation
<1> QED
  BY <1>1, <1>2, <1>3, <1>4, <1>5, <1>6, <1>7, <1>8

\* One copy direction ends.
LEMMA CopyEndInd ==
  ASSUME IndInv, NEW c \in Client, NEW d \in copying[c], CopyEnd(c, d)
  PROVE  IndInv'
<1> USE ProxyAssumption DEF IndInv, CopyEnd, lifecycle, counters, handlers, stops
<1>1. CountersExact'
  BY StayCount
<1>2. TypeOK'
  BY <1>1 DEF TypeOK, LoopPC, ConnPC, HandlerPC, StopPC
<1>3. LoopPhase'
  BY DEF TypeOK, LoopPhase, MayStart
<1>4. StopPhase'
  BY DEF TypeOK, StopPhase
<1>5. BreakerPhase'
  BY DEF TypeOK, BreakerPhase
<1>6. DrainedIsIdle'
  BY DEF TypeOK, LoopPhase, StopPhase, DrainedIsIdle
<1>7. OneBreaker'
  BY DEF TypeOK, OneBreaker, BreakerPhase
<1>8. NoTruncation'
  BY DEF TypeOK, NoTruncation
<1> QED
  BY <1>1, <1>2, <1>3, <1>4, <1>5, <1>6, <1>7, <1>8

\* A connection is accepted.
LEMMA AcceptInd ==
  ASSUME IndInv, NEW c \in Client, Accept(c)
  PROVE  IndInv'
<1> USE ProxyAssumption DEF IndInv, Accept, lifecycle, counters, handlers, stops
<1>1. CountersExact' /\ connWg' \in Nat /\ activeConns' \in Nat /\ gauge' \in Nat
  <2>1. /\ connWg' = connWg + Delta(c, "accepted", HandlerPC)
        /\ activeConns' = activeConns + Delta(c, "accepted", ActivePC)
        /\ gauge' = gauge + Delta(c, "accepted", GaugePC)
    BY DEF TypeOK, Delta, HandlerPC, ActivePC, GaugePC
  <2>2. "accepted" \in ConnPC /\ Goto(c, "accepted")
    BY DEF ConnPC, HandlerPC
  <2> QED
    BY <2>1, <2>2, MoveCounters
<1>2. TypeOK'
  BY <1>1 DEF TypeOK, LoopPC, ConnPC, HandlerPC, StopPC, Goto
<1>3. LoopPhase'
  BY DEF TypeOK, LoopPhase, MayStart, Goto
<1>4. StopPhase'
  BY DEF TypeOK, StopPhase
<1>5. BreakerPhase'
  BY DEF TypeOK, BreakerPhase, Goto
<1>6. DrainedIsIdle'
  BY DEF TypeOK, LoopPhase, StopPhase, DrainedIsIdle, Goto
<1>7. OneBreaker'
  BY DEF TypeOK, OneBreaker, BreakerPhase
<1>8. NoTruncation'
  BY DEF TypeOK, NoTruncation, Goto
<1> QED
  BY <1>1, <1>2, <1>3, <1>4, <1>5, <1>6, <1>7, <1>8

\* Its handler is started.
LEMMA SpawnInd ==
  ASSUME IndInv, NEW c \in Client, Spawn(c)
  PROVE  IndInv'
<1> USE ProxyAssumption DEF IndInv, Spawn, lifecycle, counters, handlers, stops
<1>1. CountersExact' /\ connWg' \in Nat /\ activeConns' \in Nat /\ gauge' \in Nat
  <2>1. /\ connWg' = connWg + Delta(c, "spawned", HandlerPC)
        /\ activeConns' = activeConns + Delta(c, "spawned", ActivePC)
        /\ gauge' = gauge + Delta(c, "spawned", GaugePC)
    BY DEF TypeOK, Delta, HandlerPC, ActivePC, GaugePC
  <2>2. "spawned" \in ConnPC /\ Goto(c, "spawned")
    BY DEF ConnPC, HandlerPC
  <2> QED
    BY <2>1, <2>2, MoveCounters
<1>2. TypeOK'
  BY <1>1 DEF TypeOK, LoopPC, ConnPC, HandlerPC, StopPC, Goto
<1>3. LoopPhase'
  BY DEF TypeOK, LoopPhase, MayStart, Goto
<1>4. StopPhase'
  BY DEF TypeOK, StopPhase
<1>5. BreakerPhase'
  BY DEF TypeOK, BreakerPhase, Goto
<1>6. DrainedIsIdle'
  BY DEF TypeOK, LoopPhase, StopPhase, DrainedIsIdle, Goto
<1>7. OneBreaker'
  BY DEF TypeOK, OneBreaker, BreakerPhase
<1>8. NoTruncation'
  BY DEF TypeOK, NoTruncation, Goto
<1> QED
  BY <1>1, <1>2, <1>3, <1>4, <1>5, <1>6, <1>7, <1>8

\* The handler counts itself.
LEMMA BeginInd ==
  ASSUME IndInv, NEW c \in Client, Begin(c)
  PROVE  IndInv'
<1> USE ProxyAssumption DEF IndInv, Begin, lifecycle, counters, handlers, stops
<1>1. CountersExact' /\ connWg' \in Nat /\ activeConns' \in Nat /\ gauge' \in Nat
  <2>1. /\ connWg' = connWg + Delta(c, "counted", HandlerPC)
        /\ activeConns' = activeConns + Delta(c, "counted", ActivePC)
        /\ gauge' = gauge + Delta(c, "counted", GaugePC)
    BY DEF TypeOK, Delta, HandlerPC, ActivePC, GaugePC
  <2>2. "counted" \in ConnPC /\ Goto(c, "counted")
    BY DEF ConnPC, HandlerPC
  <2> QED
    BY <2>1, <2>2, MoveCounters
<1>2. TypeOK'
  BY <1>1 DEF TypeOK, LoopPC, ConnPC, HandlerPC, StopPC, Goto
<1>3. LoopPhase'
  BY DEF TypeOK, LoopPhase, MayStart, Goto
<1>4. StopPhase'
  BY DEF TypeOK, StopPhase
<1>5. BreakerPhase'
  BY DEF TypeOK, BreakerPhase, Goto
<1>6. DrainedIsIdle'
  BY DEF TypeOK, LoopPhase, StopPhase, DrainedIsIdle, Goto
<1>7. OneBreaker'
  BY DEF TypeOK, OneBreaker, BreakerPhase
<1>8. NoTruncation'
  BY DEF TypeOK, NoTruncation, Goto
<1> QED
  BY <1>1, <1>2, <1>3, <1>4, <1>5, <1>6, <1>7, <1>8

\* The connection is turned away.
LEMMA TurnAwayInd ==
  ASSUME IndInv, NEW c \in Client, TurnAway(c)
  PROVE  IndInv'
<1> USE ProxyAssumption DEF IndInv, TurnAway, lifecycle, counters, handlers, stops
<1>1. CountersExact' /\ connWg' \in Nat /\ activeConns' \in Nat /\ gauge' \in Nat
  <2>1. /\ connWg' = connWg + Delta(c, "closing", HandlerPC)
        /\ activeConns' = activeConns + Delta(c, "closing", ActivePC)
        /\ gauge' = gauge + Delta(c, "closing", GaugePC)
    BY DEF TypeOK, Delta, HandlerPC, ActivePC, GaugePC
  <2>2. "closing" \in ConnPC /\ Goto(c, "closing")
    BY DEF ConnPC, HandlerPC
  <2> QED
    BY <2>1, <2>2, MoveCounters
<1>2. TypeOK'
  BY <1>1 DEF TypeOK, LoopPC, ConnPC, HandlerPC, StopPC, Goto
<1>3. LoopPhase'
  BY DEF TypeOK, LoopPhase, MayStart, Goto
<1>4. StopPhase'
  BY DEF TypeOK, StopPhase
<1>5. BreakerPhase'
  BY DEF TypeOK, BreakerPhase, Goto
<1>6. DrainedIsIdle'
  BY DEF TypeOK, LoopPhase, StopPhase, DrainedIsIdle, Goto
<1>7. OneBreaker'
  BY DEF TypeOK, OneBreaker, BreakerPhase
<1>8. NoTruncation'
  BY DEF TypeOK, NoTruncation, Goto
<1> QED
  BY <1>1, <1>2, <1>3, <1>4, <1>5, <1>6, <1>7, <1>8

\* The breaker is looked up.
LEMMA LookupInd ==
  ASSUME IndInv, NEW c \in Client, Lookup(c)
  PROVE  IndInv'
<1> USE ProxyAssumption DEF IndInv, Lookup, lifecycle, counters, handlers, stops
<1>1. CountersExact' /\ connWg' \in Nat /\ activeConns' \in Nat /\ gauge' \in Nat
  <2>1. PICK l \in {"allow", "create"} : Goto(c, l)
    OBVIOUS
  <2>2. /\ connWg' = connWg + Delta(c, l, HandlerPC)
        /\ activeConns' = activeConns + Delta(c, l, ActivePC)
        /\ gauge' = gauge + Delta(c, l, GaugePC)
    BY DEF TypeOK, Delta, HandlerPC, ActivePC, GaugePC
  <2>3. l \in ConnPC
    BY DEF ConnPC, HandlerPC
  <2> QED
    BY <2>1, <2>2, <2>3, MoveCounters
<1>2. TypeOK'
  <2>1. addr[c] \in Addr /\ circuitBreakers[addr[c]] \in Client \cup {None}
    BY DEF TypeOK, BreakerPhase
  <2>2. /\ circuitBreakers' \in [Addr -> Client \cup {None}]
        /\ cb' \in [Client -> Client \cup {None}]
    BY <2>1 DEF TypeOK
  <2> QED
    BY <1>1, <2>2 DEF TypeOK, Goto, ConnPC, HandlerPC
<1>3. LoopPhase'
  BY DEF TypeOK, LoopPhase, MayStart, Goto
<1>4. StopPhase'
  BY DEF TypeOK, StopPhase
<1>5. BreakerPhase'
  BY DEF TypeOK, BreakerPhase, Goto
<1>6. DrainedIsIdle'
  BY DEF TypeOK, LoopPhase, StopPhase, DrainedIsIdle, Goto
<1>7. OneBreaker'
  BY DEF TypeOK, OneBreaker, BreakerPhase
<1>8. NoTruncation'
  BY DEF TypeOK, NoTruncation, Goto
<1> QED
  BY <1>1, <1>2, <1>3, <1>4, <1>5, <1>6, <1>7, <1>8

\* The breaker is created, unless another handler was faster.
LEMMA CreateInd ==
  ASSUME IndInv, NEW c \in Client, Create(c)
  PROVE  IndInv'
<1> USE ProxyAssumption DEF IndInv, Create, Present, lifecycle, counters, handlers, stops
<1>1. CountersExact' /\ connWg' \in Nat /\ activeConns' \in Nat /\ gauge' \in Nat
  <2>1. /\ connWg' = connWg + Delta(c, "allow", HandlerPC)
        /\ activeConns' = activeConns + Delta(c, "allow", ActivePC)
        /\ gauge' = gauge + Delta(c, "allow", GaugePC)
    BY DEF TypeOK, Delta, HandlerPC, ActivePC, GaugePC
  <2>2. "allow" \in ConnPC /\ Goto(c, "allow")
    BY DEF ConnPC, HandlerPC
  <2> QED
    BY <2>1, <2>2, MoveCounters
<1>2. TypeOK'
  <2>1. addr[c] \in Addr /\ circuitBreakers[addr[c]] \in Client \cup {None}
    BY DEF TypeOK, BreakerPhase
  <2>2. /\ circuitBreakers' \in [Addr -> Client \cup {None}]
        /\ cb' \in [Client -> Client \cup {None}]
    BY <2>1 DEF TypeOK
  <2> QED
    BY <1>1, <2>2 DEF TypeOK, Goto, ConnPC, HandlerPC
<1>3. LoopPhase'
  BY DEF TypeOK, LoopPhase, MayStart, Goto
<1>4. StopPhase'
  BY DEF TypeOK, StopPhase
<1>5. BreakerPhase'
  BY DEF TypeOK, BreakerPhase, Goto
<1>6. DrainedIsIdle'
  BY DEF TypeOK, LoopPhase, StopPhase, DrainedIsIdle, Goto
<1>7. OneBreaker'
  BY DEF TypeOK, OneBreaker, BreakerPhase
<1>8. NoTruncation'
  BY DEF TypeOK, NoTruncation, Goto
<1> QED
  BY <1>1, <1>2, <1>3, <1>4, <1>5, <1>6, <1>7, <1>8

\* The breaker answers.
LEMMA AllowInd ==
  ASSUME IndInv, NEW c \in Client, Allow(c)
  PROVE  IndInv'
<1> USE ProxyAssumption DEF IndInv, Allow, lifecycle, counters, handlers, stops
<1>1. CountersExact' /\ connWg' \in Nat /\ activeConns' \in Nat /\ gauge' \in Nat
  <2>1. PICK l \in {"dial", "closing"} : Goto(c, l)
    OBVIOUS
  <2>2. /\ connWg' = connWg + Delta(c, l, HandlerPC)
        /\ activeConns' = activeConns + Delta(c, l, ActivePC)
        /\ gauge' = gauge + Delta(c, l, GaugePC)
    BY DEF TypeOK, Delta, HandlerPC, ActivePC, GaugePC
  <2>3. l \in ConnPC
    BY DEF ConnPC, HandlerPC
  <2> QED
    BY <2>1, <2>2, <2>3, MoveCounters
<1>2. TypeOK'
  BY <1>1 DEF TypeOK, LoopPC, ConnPC, HandlerPC, StopPC, Goto
<1>3. LoopPhase'
  BY DEF TypeOK, LoopPhase, MayStart, Goto
<1>4. StopPhase'
  BY DEF TypeOK, StopPhase
<1>5. BreakerPhase'
  BY DEF TypeOK, BreakerPhase, Goto
<1>6. DrainedIsIdle'
  BY DEF TypeOK, LoopPhase, StopPhase, DrainedIsIdle, Goto
<1>7. OneBreaker'
  BY DEF TypeOK, OneBreaker, BreakerPhase
<1>8. NoTruncation'
  BY DEF TypeOK, NoTruncation, Goto
<1> QED
  BY <1>1, <1>2, <1>3, <1>4, <1>5, <1>6, <1>7, <1>8

\* The dial fails.
LEMMA DialFailInd ==
  ASSUME IndInv, NEW c \in Client, DialFail(c)
  PROVE  IndInv'
<1> USE ProxyAssumption DEF IndInv, DialFail, lifecycle, counters, handlers, stops
<1>1. CountersExact' /\ connWg' \in Nat /\ activeConns' \in Nat /\ gauge' \in Nat
  <2>1. /\ connWg' = connWg + Delta(c, "closing", HandlerPC)
        /\ activeConns' = activeConns + Delta(c, "closing", ActivePC)
        /\ gauge' = gauge + Delta(c, "closing", GaugePC)
    BY DEF TypeOK, Delta, HandlerPC, ActivePC, GaugePC
  <2>2. "closing" \in ConnPC /\ Goto(c, "closing")
    BY DEF ConnPC, HandlerPC
  <2> QED
    BY <2>1, <2>2, MoveCounters
<1>2. TypeOK'
  BY <1>1 DEF TypeOK, LoopPC, ConnPC, HandlerPC, StopPC, Goto
<1>3. LoopPhase'
  BY DEF TypeOK, LoopPhase, MayStart, Goto
<1>4. StopPhase'
  BY DEF TypeOK, StopPhase
<1>5. BreakerPhase'
  BY DEF TypeOK, BreakerPhase, Goto
<1>6. DrainedIsIdle'
  BY DEF TypeOK, LoopPhase, StopPhase, DrainedIsIdle, Goto
<1>7. OneBreaker'
  BY DEF TypeOK, OneBreaker, BreakerPhase
<1>8. NoTruncation'
  BY DEF TypeOK, NoTruncation, Goto
<1> QED
  BY <1>1, <1>2, <1>3, <1>4, <1>5, <1>6, <1>7, <1>8

\* The dial succeeds.
LEMMA DialOKInd ==
  ASSUME IndInv, NEW c \in Client, DialOK(c)
  PROVE  IndInv'
<1> USE ProxyAssumption DEF IndInv, DialOK, lifecycle, counters, handlers, stops
<1>1. CountersExact' /\ connWg' \in Nat /\ activeConns' \in Nat /\ gauge' \in Nat
  <2>1. /\ connWg' = connWg + Delta(c, "copy", HandlerPC)
        /\ activeConns' = activeConns + Delta(c, "copy", ActivePC)
        /\ gauge' = gauge + Delta(c, "copy", GaugePC)
    BY DEF TypeOK, Delta, HandlerPC, ActivePC, GaugePC
  <2>2. "copy" \in ConnPC /\ Goto(c, "copy")
    BY DEF ConnPC, HandlerPC
  <2> QED
    BY <2>1, <2>2, MoveCounters
<1>2. TypeOK'
  BY <1>1 DEF TypeOK, LoopPC, ConnPC, HandlerPC, StopPC, Goto
<1>3. LoopPhase'
  BY DEF TypeOK, LoopPhase, MayStart, Goto
<1>4. StopPhase'
  BY DEF TypeOK, StopPhase
<1>5. BreakerPhase'
  BY DEF TypeOK, BreakerPhase, Goto
<1>6. DrainedIsIdle'
  BY DEF TypeOK, LoopPhase, StopPhase, DrainedIsIdle, Goto
<1>7. OneBreaker'
  BY DEF TypeOK, OneBreaker, BreakerPhase
<1>8. NoTruncation'
  BY DEF TypeOK, NoTruncation, Goto
<1> QED
  BY <1>1, <1>2, <1>3, <1>4, <1>5, <1>6, <1>7, <1>8

\* Both directions have ended.
LEMMA CopyDoneInd ==
  ASSUME IndInv, NEW c \in Client, CopyDone(c)
  PROVE  IndInv'
<1> USE ProxyAssumption DEF IndInv, CopyDone, BothEnded, lifecycle, counters, handlers, stops
<1>1. CountersExact' /\ connWg' \in Nat /\ activeConns' \in Nat /\ gauge' \in Nat
  <2>1. /\ connWg' = connWg + Delta(c, "closing", HandlerPC)
        /\ activeConns' = activeConns + Delta(c, "closing", ActivePC)
        /\ gauge' = gauge + Delta(c, "closing", GaugePC)
    BY DEF TypeOK, Delta, HandlerPC, ActivePC, GaugePC
  <2>2. "closing" \in ConnPC /\ Goto(c, "closing")
    BY DEF ConnPC, HandlerPC
  <2> QED
    BY <2>1, <2>2, MoveCounters
<1>2. TypeOK'
  BY <1>1 DEF TypeOK, LoopPC, ConnPC, HandlerPC, StopPC, Goto
<1>3. LoopPhase'
  BY DEF TypeOK, LoopPhase, MayStart, Goto
<1>4. StopPhase'
  BY DEF TypeOK, StopPhase
<1>5. BreakerPhase'
  BY DEF TypeOK, BreakerPhase, Goto
<1>6. DrainedIsIdle'
  BY DEF TypeOK, LoopPhase, StopPhase, DrainedIsIdle, Goto
<1>7. OneBreaker'
  BY DEF TypeOK, OneBreaker, BreakerPhase
<1>8. NoTruncation'
  BY DEF TypeOK, NoTruncation, Goto
<1> QED
  BY <1>1, <1>2, <1>3, <1>4, <1>5, <1>6, <1>7, <1>8

\* The sockets are closed.
LEMMA CloseConnsInd ==
  ASSUME IndInv, NEW c \in Client, CloseConns(c)
  PROVE  IndInv'
<1> USE ProxyAssumption DEF IndInv, CloseConns, lifecycle, counters, handlers, stops
<1>1. CountersExact' /\ connWg' \in Nat /\ activeConns' \in Nat /\ gauge' \in Nat
  <2>1. /\ connWg' = connWg + Delta(c, "uncount", HandlerPC)
        /\ activeConns' = activeConns + Delta(c, "uncount", ActivePC)
        /\ gauge' = gauge + Delta(c, "uncount", GaugePC)
    BY DEF TypeOK, Delta, HandlerPC, ActivePC, GaugePC
  <2>2. "uncount" \in ConnPC /\ Goto(c, "uncount")
    BY DEF ConnPC, HandlerPC
  <2> QED
    BY <2>1, <2>2, MoveCounters
<1>2. TypeOK'
  BY <1>1 DEF TypeOK, LoopPC, ConnPC, HandlerPC, StopPC, Goto
<1>3. LoopPhase'
  BY DEF TypeOK, LoopPhase, MayStart, Goto
<1>4. StopPhase'
  BY DEF TypeOK, StopPhase
<1>5. BreakerPhase'
  BY DEF TypeOK, BreakerPhase, Goto
<1>6. DrainedIsIdle'
  BY DEF TypeOK, LoopPhase, StopPhase, DrainedIsIdle, Goto
<1>7. OneBreaker'
  BY DEF TypeOK, OneBreaker, BreakerPhase
<1>8. NoTruncation'
  BY DEF TypeOK, NoTruncation, Goto
<1> QED
  BY <1>1, <1>2, <1>3, <1>4, <1>5, <1>6, <1>7, <1>8

\* The active counter is lowered.
LEMMA UncountInd ==
  ASSUME IndInv, NEW c \in Client, Uncount(c)
  PROVE  IndInv'
<1> USE ProxyAssumption DEF IndInv, Uncount, lifecycle, counters, handlers, stops
<1>1. CountersExact' /\ connWg' \in Nat /\ activeConns' \in Nat /\ gauge' \in Nat
  <2>1. /\ connWg' = connWg + Delta(c, "release", HandlerPC)
        /\ activeConns' = activeConns + Delta(c, "release", ActivePC)
        /\ gauge' = gauge + Delta(c, "release", GaugePC)
    BY DEF TypeOK, Delta, HandlerPC, ActivePC, GaugePC
  <2>2. "release" \in ConnPC /\ Goto(c, "release")
    BY DEF ConnPC, HandlerPC
  <2> QED
    BY <2>1, <2>2, MoveCounters
<1>2. TypeOK'
  BY <1>1 DEF TypeOK, LoopPC, ConnPC, HandlerPC, StopPC, Goto
<1>3. LoopPhase'
  BY DEF TypeOK, LoopPhase, MayStart, Goto
<1>4. StopPhase'
  BY DEF TypeOK, StopPhase
<1>5. BreakerPhase'
  BY DEF TypeOK, BreakerPhase, Goto
<1>6. DrainedIsIdle'
  BY DEF TypeOK, LoopPhase, StopPhase, DrainedIsIdle, Goto
<1>7. OneBreaker'
  BY DEF TypeOK, OneBreaker, BreakerPhase
<1>8. NoTruncation'
  BY DEF TypeOK, NoTruncation, Goto
<1> QED
  BY <1>1, <1>2, <1>3, <1>4, <1>5, <1>6, <1>7, <1>8

\* The wait group is lowered.
LEMMA ReleaseInd ==
  ASSUME IndInv, NEW c \in Client, Release(c)
  PROVE  IndInv'
<1> USE ProxyAssumption DEF IndInv, Release, lifecycle, counters, handlers, stops
<1>1. CountersExact' /\ connWg' \in Nat /\ activeConns' \in Nat /\ gauge' \in Nat
  <2>1. /\ connWg' = connWg + Delta(c, "gone", HandlerPC)
        /\ activeConns' = activeConns + Delta(c, "gone", ActivePC)
        /\ gauge' = gauge + Delta(c, "gone", GaugePC)
    BY DEF TypeOK, Delta, HandlerPC, ActivePC, GaugePC
  <2>2. "gone" \in ConnPC /\ Goto(c, "gone")
    BY DEF ConnPC, HandlerPC
  <2> QED
    BY <2>1, <2>2, MoveCounters
<1>2. TypeOK'
  BY <1>1 DEF TypeOK, LoopPC, ConnPC, HandlerPC, StopPC, Goto
<1>3. LoopPhase'
  BY DEF TypeOK, LoopPhase, MayStart, Goto
<1>4. StopPhase'
  BY DEF TypeOK, StopPhase
<1>5. BreakerPhase'
  BY DEF TypeOK, BreakerPhase, Goto
<1>6. DrainedIsIdle'
  BY DEF TypeOK, LoopPhase, StopPhase, DrainedIsIdle, Goto
<1>7. OneBreaker'
  BY DEF TypeOK, OneBreaker, BreakerPhase
<1>8. NoTruncation'
  BY DEF TypeOK, NoTruncation, Goto
<1> QED
  BY <1>1, <1>2, <1>3, <1>4, <1>5, <1>6, <1>7, <1>8

\* A client connects.
LEMMA ConnectInd ==
  ASSUME IndInv, NEW c \in Client, Connect(c)
  PROVE  IndInv'
<1> USE ProxyAssumption DEF IndInv, Connect, lifecycle, counters, handlers, stops
<1>1. CountersExact' /\ connWg' \in Nat /\ activeConns' \in Nat /\ gauge' \in Nat
  <2>1. /\ connWg' = connWg + Delta(c, "backlog", HandlerPC)
        /\ activeConns' = activeConns + Delta(c, "backlog", ActivePC)
        /\ gauge' = gauge + Delta(c, "backlog", GaugePC)
    BY DEF TypeOK, Delta, HandlerPC, ActivePC, GaugePC
  <2>2. "backlog" \in ConnPC /\ Goto(c, "backlog")
    BY DEF ConnPC, HandlerPC
  <2> QED
    BY <2>1, <2>2, MoveCounters
<1>2. TypeOK'
  BY <1>1 DEF TypeOK, LoopPC, ConnPC, HandlerPC, StopPC, Goto
<1>3. LoopPhase'
  BY DEF TypeOK, LoopPhase, MayStart, Goto
<1>4. StopPhase'
  BY DEF TypeOK, StopPhase
<1>5. BreakerPhase'
  BY DEF TypeOK, BreakerPhase, Goto
<1>6. DrainedIsIdle'
  BY DEF TypeOK, LoopPhase, StopPhase, DrainedIsIdle, Goto
<1>7. OneBreaker'
  BY DEF TypeOK, OneBreaker, BreakerPhase
<1>8. NoTruncation'
  BY DEF TypeOK, NoTruncation, Goto
<1> QED
  BY <1>1, <1>2, <1>3, <1>4, <1>5, <1>6, <1>7, <1>8

\* The load balancer chooses.
LEMMA SelectInd ==
  ASSUME IndInv, NEW c \in Client, NEW a \in Addr, Select(c, a)
  PROVE  IndInv'
<1> USE ProxyAssumption DEF IndInv, Select, lifecycle, counters, handlers, stops
<1>1. CountersExact' /\ connWg' \in Nat /\ activeConns' \in Nat /\ gauge' \in Nat
  <2> DEFINE l == IF WithBreakers THEN "lookup" ELSE "dial"
  <2>1. /\ connWg' = connWg + Delta(c, l, HandlerPC)
        /\ activeConns' = activeConns + Delta(c, l, ActivePC)
        /\ gauge' = gauge + Delta(c, l, GaugePC)
    BY DEF TypeOK, Delta, HandlerPC, ActivePC, GaugePC
  <2>2. l \in ConnPC /\ Goto(c, l)
    BY DEF ConnPC, HandlerPC
  <2> QED
    BY <2>1, <2>2, MoveCounters
<1>2. TypeOK'
  BY <1>1 DEF TypeOK, LoopPC, ConnPC, HandlerPC, StopPC, Goto
<1>3. LoopPhase'
  BY DEF TypeOK, LoopPhase, MayStart, Goto
<1>4. StopPhase'
  BY DEF TypeOK, StopPhase
<1>5. BreakerPhase'
  BY DEF TypeOK, BreakerPhase, Goto
<1>6. DrainedIsIdle'
  BY DEF TypeOK, LoopPhase, StopPhase, DrainedIsIdle, Goto
<1>7. OneBreaker'
  BY DEF TypeOK, OneBreaker, BreakerPhase
<1>8. NoTruncation'
  BY DEF TypeOK, NoTruncation, Goto
<1> QED
  BY <1>1, <1>2, <1>3, <1>4, <1>5, <1>6, <1>7, <1>8

\* Every step preserves the invariant.
LEMMA NextInd == IndInv /\ [Next]_vars => IndInv'
<1> SUFFICES ASSUME IndInv, [Next]_vars PROVE IndInv'
  OBVIOUS
<1>1. CASE UNCHANGED vars
  BY <1>1 DEF IndInv, vars, lifecycle, counters, handlers, stops, TypeOK,
     LoopPhase, MayStart, StopPhase, BreakerPhase, DrainedIsIdle, CountersExact,
     At, OneBreaker, NoTruncation
<1>2. CASE Start \/ Cancel
  BY <1>2, StartInd, CancelInd
<1>3. CASE AcceptLoop
  BY <1>3, LoopReadyInd, LoopCheckInd, AcceptTimeoutInd, AcceptErrorInd,
     LoopExitInd, AcceptInd, SpawnInd DEF AcceptLoop
<1>4. ASSUME NEW c \in Client, Handler(c) PROVE IndInv'
  BY <1>4, BeginInd, TurnAwayInd, LookupInd, CreateInd, AllowInd, DialFailInd,
     DialOKInd, CopyDoneInd, CloseConnsInd, UncountInd, ReleaseInd, SelectInd
     DEF Handler
<1>5. ASSUME NEW c \in Client, Connect(c) PROVE IndInv'
  BY <1>5, ConnectInd
<1>6. ASSUME NEW c \in Client, NEW d \in copying[c], CopyEnd(c, d) PROVE IndInv'
  BY <1>6, CopyEndInd
<1>7. ASSUME NEW s \in Stopper, StopCall(s) \/ Stopping(s) \/ Expire(s) PROVE IndInv'
  BY <1>7, StopCallInd, StopAcceptingInd, StopDrainedInd, StopTimeoutInd, ExpireInd
     DEF Stopping
<1> QED
  BY <1>1, <1>2, <1>3, <1>4, <1>5, <1>6, <1>7 DEF Next

\* The invariant holds throughout.
LEMMA Invariance == Spec => []IndInv
BY InitInd, NextInd, PTL DEF Spec

\* Only Spawn raises the wait group, and it is a step of the accept loop.
LEMMA OnlySpawnAdds ==
  ASSUME TypeOK, [Next]_vars, connWg' > connWg
  PROVE  loop = "spawn"
<1>1. connWg' # connWg /\ connWg' # connWg - 1
  BY DEF TypeOK
<1>2. ASSUME NEW c \in Client, Handler(c) PROVE FALSE
  BY <1>1, <1>2 DEF Handler, Begin, TurnAway, Select, Lookup, Create, Allow,
     DialFail, DialOK, CopyDone, CloseConns, Uncount, Release, counters
<1>3. CASE AcceptLoop
  BY <1>1, <1>3 DEF AcceptLoop, LoopReady, LoopCheck, AcceptTimeout, AcceptError,
     LoopExit, Accept, Spawn, counters
<1>4. ASSUME NEW s \in Stopper, StopCall(s) \/ Stopping(s) \/ Expire(s) PROVE FALSE
  BY <1>1, <1>4 DEF StopCall, Stopping, StopAccepting, StopDrained, StopTimeout,
     Expire, counters
<1> QED
  BY <1>1, <1>2, <1>3, <1>4 DEF Next, vars, Start, Cancel, Connect, CopyEnd, counters

\* Only the accept loop's own steps move it, and each passes a point once.
LEMMA LoopSteps ==
  ASSUME [Next]_vars, loop' # loop
  PROVE  \/ loop' \notin {"check", "closing"}
         \/ loop = "starting" /\ loop' = "check"
         \/ loop \in {"accept", "spawn"} /\ loop' = "check"
         \/ loop \in {"check", "accept"} /\ loop' = "closing"
<1>1. ASSUME NEW c \in Client, Handler(c) PROVE FALSE
  BY <1>1 DEF Handler, Begin, TurnAway, Select, Lookup, Create, Allow,
     DialFail, DialOK, CopyDone, CloseConns, Uncount, Release, lifecycle
<1>2. ASSUME NEW s \in Stopper, StopCall(s) \/ Stopping(s) \/ Expire(s) PROVE FALSE
  BY <1>2 DEF StopCall, Stopping, StopAccepting, StopDrained, StopTimeout,
     Expire, lifecycle
<1>3. CASE AcceptLoop
  BY <1>3 DEF AcceptLoop, LoopReady, LoopCheck, AcceptTimeout, AcceptError,
     LoopExit, Accept, Spawn
<1> QED
  BY <1>1, <1>2, <1>3 DEF Next, vars, Start, Cancel, Connect, CopyEnd, lifecycle
-----------------------------------------------------------------------------
\* The counters of tcp.go are never negative; sync.WaitGroup panics on that.
THEOREM TypeCorrect == Spec => []TypeOK
BY Invariance, PTL DEF IndInv

\* When Stop reports that all connections are closed, they are, however accepts,
\* handlers and other Stop calls interleave with it.
THEOREM DrainIsComplete == Spec => []DrainedIsIdle
BY Invariance, PTL DEF IndInv

\* connWg, activeConns and the collector's gauge are exact on every path through
\* handleConnection.
THEOREM CountersAlwaysExact == Spec => []CountersExact
BY Invariance, PTL DEF IndInv

\* getCircuitBreaker gives all handlers of an address the same breaker.
THEOREM SharedBreaker == Spec => []OneBreaker
BY Invariance, PTL DEF IndInv

\* handleConnection closes no socket that a copy still uses.
THEOREM CopiesFinish == Spec => []NoTruncation
BY Invariance, PTL DEF IndInv

\* connWg.Add never runs concurrently with connWg.Wait.
THEOREM WaitGroupDiscipline == Spec => NoAddDuringWait
<1>1. IndInv /\ [Next]_vars
      => [connWg' > connWg => \A s \in Stopper : stop[s] # "drain"]_vars
  BY OnlySpawnAdds DEF IndInv, StopPhase
<1> QED
  BY <1>1, Invariance, PTL DEF Spec, NoAddDuringWait

\* ready and done are closed once, whatever sequence of Start and Stop is called.
THEOREM ChannelDiscipline == Spec => ChannelsClosedOnce
<1>1. IndInv /\ [Next]_vars
      => [/\ loop = "starting" /\ loop' = "check" => ~ready
          /\ loop' = "closing" /\ loop # "closing" => ~done]_vars
  BY LoopSteps DEF IndInv, LoopPhase
<1> QED
  BY <1>1, Invariance, PTL DEF Spec, ChannelsClosedOnce
=============================================================================
