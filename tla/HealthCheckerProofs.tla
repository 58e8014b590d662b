------------------------ MODULE HealthCheckerProofs ------------------------
(* Proofs about HealthChecker, for any addresses, lists and thresholds.      *)
EXTENDS HealthChecker, SequenceTheorems, TLAPS

\* Checks run only inside a round, and Stop returns only after the loop.
Confined ==
    /\ loop # "round" => probe = <<>>
    /\ main = "stopped" => loop = "exited"
    /\ main = "new" => loop = "none"

\* The inductive invariant.
IndInv == TypeOK /\ CountersEarned /\ Confined
-----------------------------------------------------------------------------
\* A list that main builds is a sequence of Backend objects, never empty.
LEMMA BuiltList ==
    ASSUME NEW list \in Lists, NEW g \in 0..MaxUpdates
    PROVE  NewBackends(list, g) \in Seq(Object) /\ NewBackends(list, g) # <<>>
<1>1. PICK n \in 1..MaxList : list \in [1..n -> Addr]
  BY DEF Lists
<1>2. n \in Nat /\ n >= 1
  BY <1>1, ThresholdAssumption
<1>3. NewBackends(list, g) \in [1..n -> Object]
  BY <1>1, <1>2, ThresholdAssumption DEF NewBackends, Object
<1>4. NewBackends(list, g) \in Seq(Object) /\ Len(NewBackends(list, g)) = n
  BY <1>2, <1>3
<1> QED  BY <1>2, <1>4

\* A round that does not read past the end of an array checks Backend objects.
LEMMA RangedObjects ==
    ASSUME NEW list \in Seq(Object), NEW n \in 0..Len(list)
    PROVE  Ranged(list, n) \subseteq Object
<1>1. SubSeq(list, 1, n) \in Seq(Object)
  OBVIOUS
<1> QED  BY <1>1 DEF Ranged, Elements

\* Counting up to a threshold stays within it and keeps the order of two counts.
LEMMA CountFacts ==
    ASSUME NEW t \in Nat, NEW m \in 0..t, NEW n \in 0..t
    PROVE  /\ Count(n, t) \in 0..t
           /\ m <= n => Count(m, t) <= Count(n, t)
  BY DEF Count

\* Before Start there is a list, and nothing has been counted.
LEMMA InitInd == Init => IndInv
<1> SUFFICES ASSUME Init PROVE IndInv
  OBVIOUS
<1>1. backends \in Seq(Object) /\ backends # <<>>
  BY BuiltList, ThresholdAssumption DEF Init
<1>2. DOMAIN probe = {} /\ seen \in Seq(Object)
  BY DEF Init
<1>3. /\ build \in 0..MaxUpdates /\ ejected \subseteq Object
      /\ failureCount \in [Addr -> 0..UnhealthyThreshold]
      /\ fails \in [Addr -> 0..UnhealthyThreshold]
      /\ successCount \in [Addr -> 0..HealthyThreshold]
      /\ passes \in [Addr -> 0..HealthyThreshold]
  BY ThresholdAssumption DEF Init
<1>4. TypeOK
  BY <1>1, <1>2, <1>3 DEF Init, TypeOK
<1> QED
  BY <1>4 DEF Init, IndInv, CountersEarned, Confined

\* The steps that touch neither list, counters nor checks.
LEMMA ControlInd ==
    ASSUME IndInv, Start \/ Cancel \/ Stop \/ StopReturn \/ ReadList \/ EndRound \/ Tick \/ Exit
    PROVE  IndInv'
<1>1. TypeOK'
  BY DEF IndInv, TypeOK, Start, Cancel, Stop, StopReturn, ReadList, EndRound, Tick, Exit, counters
<1>2. CountersEarned'
  BY DEF IndInv, CountersEarned, Start, Cancel, Stop, StopReturn, ReadList, EndRound, Tick, Exit, counters
<1>3. Confined'
  BY DEF IndInv, Confined, Start, Cancel, Stop, StopReturn, StopWaits, ReadList, EndRound, Tick, Exit
<1> QED  BY <1>1, <1>2, <1>3 DEF IndInv

\* A round checks objects of the array it read, or ends the process.
LEMMA BeginRoundInd == IndInv /\ BeginRound => IndInv'
<1> SUFFICES ASSUME IndInv, BeginRound PROVE IndInv'
  OBVIOUS
<1>0. seen \in Seq(Object) /\ backends \in Seq(Object) /\ <<>> \in Seq(Object)
  BY DEF IndInv, TypeOK
<1>1. PICK list \in {seen, backends}, n \in {Len(seen), Len(backends)} :
         IF n > Len(list)
         THEN crashed' = TRUE /\ UNCHANGED <<probe, loop, seen>>
         ELSE /\ probe' = [o \in Ranged(list, n) |-> "probing"]
              /\ loop' = "round" /\ seen' = <<>>
              /\ UNCHANGED crashed
  <2>1. PICK read \in {<<seen, Len(backends)>>, <<backends, Len(seen)>>} :
          IF read[2] > Len(read[1])
          THEN crashed' = TRUE /\ UNCHANGED <<probe, loop, seen>>
          ELSE /\ probe' = [o \in Ranged(read[1], read[2]) |-> "probing"]
               /\ loop' = "round" /\ seen' = <<>>
               /\ UNCHANGED crashed
    BY DEF BeginRound
  <2>2. read[1] \in {seen, backends} /\ read[2] \in {Len(seen), Len(backends)}
    BY <2>1
  <2> QED  BY <2>1, <2>2
<1>2. n <= Len(list) => Ranged(list, n) \subseteq Object
  BY <1>0, RangedObjects
<1>3. n \in Nat /\ Len(list) \in Nat
  BY <1>0
<1>4. TypeOK'
  <2>1. CASE n > Len(list)
    BY <1>1, <2>1 DEF BeginRound, IndInv, TypeOK, counters
  <2>2. CASE n <= Len(list)
    <3>1. /\ probe' = [o \in Ranged(list, n) |-> "probing"]
          /\ loop' = "round" /\ seen' = <<>> /\ crashed' = crashed
      BY <1>1, <1>3, <2>2
    <3> QED  BY <3>1, <1>0, <1>2, <2>2 DEF BeginRound, IndInv, TypeOK, counters
  <2> QED  BY <1>3, <2>1, <2>2
<1>5. CountersEarned'
  BY DEF BeginRound, IndInv, CountersEarned, counters
<1>6. Confined'
  BY <1>1 DEF BeginRound, IndInv, Confined
<1> QED  BY <1>4, <1>5, <1>6 DEF IndInv

\* A step of one check leaves the loop in its round.
LEMMA CheckOneInd ==
    ASSUME IndInv, NEW o \in Object, CheckOne(o)
    PROVE  IndInv'
<1> USE ThresholdAssumption
<1>0. AddrOf(o) \in Addr
  BY DEF Object, AddrOf
<1>1. CountersEarned' /\ UNCHANGED <<backends, build, control, up>>
      /\ failureCount' \in [Addr -> 0..UnhealthyThreshold]
      /\ successCount' \in [Addr -> 0..HealthyThreshold]
      /\ fails' \in [Addr -> 0..UnhealthyThreshold]
      /\ passes' \in [Addr -> 0..HealthyThreshold]
  <2>1. CASE Probe(o) \/ SetHealthy(o)
    BY <2>1 DEF Probe, SetHealthy, IndInv, TypeOK, CountersEarned, counters
  <2>2. CASE RecordFailure(o)
    <3>1. failureCount[AddrOf(o)] <= fails[AddrOf(o)]
      BY <1>0 DEF IndInv, CountersEarned
    <3>2. Count(failureCount[AddrOf(o)], UnhealthyThreshold)
             <= Count(fails[AddrOf(o)], UnhealthyThreshold)
          /\ Count(failureCount[AddrOf(o)], UnhealthyThreshold) \in 0..UnhealthyThreshold
          /\ Count(fails[AddrOf(o)], UnhealthyThreshold) \in 0..UnhealthyThreshold
      BY <3>1, <1>0, CountFacts DEF IndInv, TypeOK
    <3>3. UNCHANGED <<backends, build, control, up>>
          /\ failureCount' \in [Addr -> 0..UnhealthyThreshold]
          /\ successCount' \in [Addr -> 0..HealthyThreshold]
          /\ fails' \in [Addr -> 0..UnhealthyThreshold]
          /\ passes' \in [Addr -> 0..HealthyThreshold]
      BY <2>2, <3>2, <1>0 DEF RecordFailure, IndInv, TypeOK
    <3>4. CountersEarned'
      BY <2>2, <3>2, <1>0 DEF RecordFailure, IndInv, TypeOK, CountersEarned
    <3> QED  BY <3>3, <3>4
  <2>3. CASE RecordSuccess(o)
    <3>1. successCount[AddrOf(o)] <= passes[AddrOf(o)]
      BY <1>0 DEF IndInv, CountersEarned
    <3>2. Count(successCount[AddrOf(o)], HealthyThreshold)
             <= Count(passes[AddrOf(o)], HealthyThreshold)
          /\ Count(successCount[AddrOf(o)], HealthyThreshold) \in 0..HealthyThreshold
          /\ Count(passes[AddrOf(o)], HealthyThreshold) \in 0..HealthyThreshold
      BY <3>1, <1>0, CountFacts DEF IndInv, TypeOK
    <3>3. UNCHANGED <<backends, build, control, up>>
          /\ failureCount' \in [Addr -> 0..UnhealthyThreshold]
          /\ successCount' \in [Addr -> 0..HealthyThreshold]
          /\ fails' \in [Addr -> 0..UnhealthyThreshold]
          /\ passes' \in [Addr -> 0..HealthyThreshold]
      BY <2>3, <3>2, <1>0 DEF RecordSuccess, FailuresAfterSuccess, IndInv, TypeOK
    <3>4. CountersEarned'
      BY <2>3, <3>2, <1>0
      DEF RecordSuccess, FailuresAfterSuccess, IndInv, TypeOK, CountersEarned
    <3> QED  BY <3>3, <3>4
  <2> QED  BY <2>1, <2>2, <2>3 DEF CheckOne
<1>2. ejected' \subseteq Object /\ DOMAIN probe' \subseteq Object
      /\ \A x \in DOMAIN probe' : probe'[x] \in {"probing", "failed", "passed", "eject", "admit"}
  <2>1. CASE Probe(o)
    BY <2>1 DEF Probe, IndInv, TypeOK
  <2>2. CASE SetHealthy(o)
    BY <2>2 DEF SetHealthy, Flag, Without, IndInv, TypeOK
  <2>3. CASE RecordFailure(o)
    BY <2>3 DEF RecordFailure, Without, IndInv, TypeOK
  <2>4. CASE RecordSuccess(o)
    BY <2>4 DEF RecordSuccess, Without, IndInv, TypeOK
  <2> QED  BY <2>1, <2>2, <2>3, <2>4 DEF CheckOne
<1>3. TypeOK'
  BY <1>1, <1>2 DEF IndInv, TypeOK, control
<1>4. o \in DOMAIN probe
  BY DEF CheckOne, Probe, RecordFailure, RecordSuccess, SetHealthy
<1>5. loop = "round"
  BY <1>4 DEF IndInv, Confined
<1>6. Confined'
  BY <1>1, <1>5 DEF IndInv, Confined, control
<1> QED  BY <1>1, <1>3, <1>6 DEF IndInv

\* UpdateBackends drops counters but invents none.
LEMMA UpdateInd ==
    ASSUME IndInv, NEW list \in Lists, UpdateBackends(list)
    PROVE  IndInv'
<1>1. build' \in 0..MaxUpdates
  BY ThresholdAssumption DEF UpdateBackends, IndInv, TypeOK
<1>2. backends' \in Seq(Object) /\ backends' # <<>>
  BY <1>1, BuiltList DEF UpdateBackends
<1>3. TypeOK'
  BY <1>1, <1>2, ThresholdAssumption DEF UpdateBackends, Kept, IndInv, TypeOK, control
<1>4. CountersEarned'
  BY ThresholdAssumption DEF UpdateBackends, Kept, IndInv, TypeOK, CountersEarned
<1>5. Confined'
  BY DEF UpdateBackends, IndInv, Confined, control
<1> QED  BY <1>3, <1>4, <1>5 DEF IndInv

\* Every step keeps the invariant.
LEMMA NextInd == IndInv /\ [Next]_vars => IndInv'
<1> SUFFICES ASSUME IndInv, [Next]_vars PROVE IndInv'
  OBVIOUS
<1>1. CASE \E a \in Addr : Flip(a)
  BY <1>1 DEF Flip, IndInv, TypeOK, CountersEarned, Confined, counters, control
<1>2. CASE UNCHANGED vars
  BY <1>2 DEF vars, IndInv, TypeOK, CountersEarned, Confined, counters, control
<1> QED
  BY <1>1, <1>2, ControlInd, BeginRoundInd, CheckOneInd, UpdateInd DEF Next

\* The invariant holds throughout.
LEMMA Invariance == Spec => []IndInv
  BY InitInd, NextInd, PTL DEF Spec
-----------------------------------------------------------------------------
\* The checker's fields keep their types; the list in use is never empty.
THEOREM TypeCorrect == Spec => []TypeOK
<1>1. IndInv => TypeOK
  BY DEF IndInv
<1> QED  BY <1>1, Invariance, PTL

\* Once Stop has returned no check runs.
THEOREM StopIsFinal == Spec => []QuietAfterStop
<1>1. IndInv => QuietAfterStop
  BY DEF IndInv, Confined, QuietAfterStop
<1> QED  BY <1>1, Invariance, PTL

\* A backend is marked unhealthy only on UnhealthyThreshold consecutive failures
\* of its address, across list updates and stale rounds.
THEOREM EjectionsEarned == Spec => EjectionEarned
<1>1. IndInv /\ [Next]_vars =>
        [\A o \in Object :
          (o \in DOMAIN probe' /\ probe'[o] = "eject") /\ ~(o \in DOMAIN probe /\ probe[o] = "eject")
             => fails'[AddrOf(o)] >= UnhealthyThreshold]_vars
  <2> SUFFICES ASSUME IndInv, Next, NEW o \in Object,
                      o \in DOMAIN probe', probe'[o] = "eject",
                      ~(o \in DOMAIN probe /\ probe[o] = "eject")
               PROVE  fails'[AddrOf(o)] >= UnhealthyThreshold
    OBVIOUS
  <2>1. PICK x \in Object : RecordFailure(x)
    BY DEF Next, CheckOne, Start, Cancel, Stop, StopReturn, ReadList, BeginRound, EndRound, Tick, Exit,
           Probe, RecordSuccess, SetHealthy, Without, UpdateBackends, Flip, control
  <2>2. x = o
    BY <2>1 DEF RecordFailure, Without
  <2>3. AddrOf(o) \in Addr
    BY DEF AddrOf, Object
  <2> QED
    BY <2>1, <2>2, <2>3, ThresholdAssumption
    DEF RecordFailure, AtThreshold, Count, Without, IndInv, TypeOK, CountersEarned
<1> QED  BY <1>1, Invariance, PTL DEF Spec, EjectionEarned
=============================================================================
