------------------------ MODULE CircuitBreakerProofs ------------------------
(***************************************************************************)
(* Proofs that the safety properties of CircuitBreaker hold for every      *)
(* number of callers, every threshold, every timeout and every window.     *)
(***************************************************************************)
EXTENDS CircuitBreaker, FiniteSetTheorems, TLAPS

\* While closed, the threshold has not been reached, and every failure counted
\* in "failures" was reported after windowStart.
CountedInWindow ==
  state = StateClosed =>
    /\ failures < FailureThreshold
    /\ \A i \in 1..FailureThreshold :
         i > FailureThreshold - failures => recent[i] <= windowAge

\* The inductive invariant.
IndInv == CBTypeOK /\ NoOrphanSlot /\ TimeoutFromTrip /\ CountedInWindow
-----------------------------------------------------------------------------
\* At least one probe may be out: New never leaves MaxHalfOpenRequests at zero.
LEMMA MaxHalfOpenPositive == MaxHalfOpen \in Nat \ {0}
  BY ConfigAssumption DEF MaxHalfOpen

\* A counter increment keeps the shape of the totals.
LEMMA CountType ==
  ASSUME NEW t \in [TotalField -> 0..(CounterMod - 1)], NEW f \in TotalField
  PROVE  Count(t, f) \in [TotalField -> 0..(CounterMod - 1)]
  <1>1. \A n \in Nat : n % CounterMod \in 0..(CounterMod - 1)
    BY ConfigAssumption
  <1> QED  BY <1>1, ConfigAssumption DEF Count

\* Saturated ageing stays within its cap and keeps the order of two ages.
LEMMA OlderFacts ==
  ASSUME NEW cap \in Nat, NEW a \in 0..cap, NEW b \in 0..cap
  PROVE  /\ Older(a, cap) \in 0..cap
         /\ a <= b => Older(a, cap) <= Older(b, cap)
  BY DEF Older

\* The callers of the current half-open period form a finite set.
LEMMA RoundFinite == CBTypeOK => IsFiniteSet(round) /\ Cardinality(round) \in Nat
  BY ConfigAssumption, FS_Subset, FS_CardinalityType DEF CBTypeOK

\* A new breaker satisfies the invariant.
LEMMA InitInd == CBInit => IndInv
  BY ConfigAssumption, MaxHalfOpenPositive, FS_EmptySet
  DEF CBInit, IndInv, CBTypeOK, NoOrphanSlot, TimeoutFromTrip, CountedInWindow, Never,
      Old, StateClosed, StateOpen, StateHalfOpen

\* Allow, when it admits the caller: a new probe takes exactly one slot, and it
\* is not already among the pending callers.
LEMMA AdmitInd ==
  ASSUME IndInv, NEW c \in Caller, Admit(c)
  PROVE  IndInv'
  <1> USE DEF StateClosed, StateOpen, StateHalfOpen
  <1>1. IsFiniteSet(round) /\ Cardinality(round) \in Nat
    BY RoundFinite DEF IndInv
  <1>2. CBTypeOK'
    <2>1. totals' \in [TotalField -> 0..(CounterMod - 1)]
      BY CountType DEF Admit, IndInv, CBTypeOK, TotalField
    <2> QED
      BY <2>1, ConfigAssumption, MaxHalfOpenPositive
      DEF IndInv, CBTypeOK, Admit, AllowClosed, AllowPromoted, AllowProbe, HasSlot
  <1>3. NoOrphanSlot'
    <2>1. CASE AllowClosed(c)
      BY <2>1 DEF IndInv, NoOrphanSlot, AllowClosed
    <2>2. CASE AllowPromoted(c)
      BY <2>2, FS_Singleton DEF NoOrphanSlot, AllowPromoted
    <2>3. CASE AllowProbe(c)
      <3>1. Cardinality(round') = Cardinality(round) + 1
        BY <2>3, <1>1, FS_AddElement DEF AllowProbe, Admit, IndInv, CBTypeOK
      <3> QED
        BY <3>1, <2>3, <1>1 DEF AllowProbe, IndInv, NoOrphanSlot, CBTypeOK
    <2> QED  BY <2>1, <2>2, <2>3 DEF Admit
  <1>4. TimeoutFromTrip'
    BY DEF IndInv, TimeoutFromTrip, Admit, AllowClosed, AllowPromoted, AllowProbe
  <1>5. CountedInWindow'
    BY DEF IndInv, CountedInWindow, Admit, AllowClosed, AllowPromoted, AllowProbe
  <1> QED  BY <1>2, <1>3, <1>4, <1>5 DEF IndInv

\* A rejected call changes the totals only.
LEMMA RejectInd ==
  ASSUME IndInv, NEW c \in Caller, Reject(c)
  PROVE  IndInv'
  <1>1. totals' \in [TotalField -> 0..(CounterMod - 1)]
    BY CountType DEF Reject, IndInv, CBTypeOK, TotalField
  <1> QED
    BY <1>1 DEF IndInv, CBTypeOK, NoOrphanSlot, TimeoutFromTrip, CountedInWindow,
                Reject, history

\* RecordResult(nil).  A success of the current round returns the slot its probe
\* took; a late success of an older request may free one slot too many, which
\* only lowers the count.
LEMMA RecordSuccessInd ==
  ASSUME IndInv, NEW c \in Caller, RecordSuccess(c)
  PROVE  IndInv'
  <1> USE DEF StateClosed, StateOpen, StateHalfOpen
  <1>1. IsFiniteSet(round) /\ Cardinality(round) \in Nat
    BY RoundFinite DEF IndInv
  <1>2. totals' \in [TotalField -> 0..(CounterMod - 1)]
    BY CountType DEF RecordSuccess, IndInv, CBTypeOK, TotalField
  <1>3. CASE SuccessProbe(c)
    <2>1. CBTypeOK'
      BY <1>2, <1>3, ConfigAssumption, MaxHalfOpenPositive
      DEF IndInv, CBTypeOK, RecordSuccess, SuccessProbe, ReleaseProbe
    <2>2. NoOrphanSlot'
      <3>0. round' = round \ {c}
        BY <1>3 DEF SuccessProbe
      <3>1. /\ Cardinality(round') \in Nat
            /\ Cardinality(round') >= Cardinality(round) - 1
        <4>1. IsFiniteSet(round \ {c})
          BY <1>1, FS_RemoveElement
        <4>2. Cardinality(round \ {c}) \in Nat
          BY <4>1, FS_CardinalityType
        <4>3. Cardinality(round \ {c}) =
                IF c \in round THEN Cardinality(round) - 1 ELSE Cardinality(round)
          BY <1>1, FS_RemoveElement
        <4> QED  BY <3>0, <4>2, <4>3, <1>1
      <3> QED
        BY <3>1, <1>1, <1>3
        DEF IndInv, CBTypeOK, NoOrphanSlot, SuccessProbe, ReleaseProbe
    <2>3. TimeoutFromTrip' /\ CountedInWindow'
      BY <1>3 DEF TimeoutFromTrip, CountedInWindow, SuccessProbe
    <2> QED  BY <2>1, <2>2, <2>3 DEF IndInv
  <1>4. CASE SuccessCloses
    <2>1. CBTypeOK'
      BY <1>2, <1>4, ConfigAssumption, MaxHalfOpenPositive
      DEF IndInv, CBTypeOK, RecordSuccess, SuccessCloses, Never, Old
    <2>2. NoOrphanSlot' /\ TimeoutFromTrip' /\ CountedInWindow'
      BY <1>4, ConfigAssumption
      DEF NoOrphanSlot, TimeoutFromTrip, CountedInWindow, SuccessCloses
    <2> QED  BY <2>1, <2>2 DEF IndInv
  <1>5. CASE SuccessClosed
    <2>1. CBTypeOK'
      <3>1. round' \subseteq pending'
        BY <1>5 DEF IndInv, NoOrphanSlot, RecordSuccess, SuccessClosed
      <3> QED
        BY <3>1, <1>2, <1>5, ConfigAssumption
        DEF IndInv, CBTypeOK, RecordSuccess, SuccessClosed, Never, Old
    <2>2. NoOrphanSlot' /\ TimeoutFromTrip' /\ CountedInWindow'
      BY <1>5, ConfigAssumption
      DEF IndInv, NoOrphanSlot, TimeoutFromTrip, CountedInWindow, SuccessClosed
    <2> QED  BY <2>1, <2>2 DEF IndInv
  <1>6. CASE SuccessOpen
    BY <1>2, <1>6
    DEF IndInv, CBTypeOK, NoOrphanSlot, TimeoutFromTrip, CountedInWindow,
        RecordSuccess, SuccessOpen
  <1> QED  BY <1>3, <1>4, <1>5, <1>6 DEF RecordSuccess

\* RecordResult(err).  Reopening abandons the round; in the closed state the
\* failure joins those of the window, or starts a new window.
LEMMA RecordFailureInd ==
  ASSUME IndInv, NEW c \in Caller, RecordFailure(c)
  PROVE  IndInv'
  <1> USE DEF StateClosed, StateOpen, StateHalfOpen
  <1>1. totals' \in [TotalField -> 0..(CounterMod - 1)]
    BY CountType DEF RecordFailure, IndInv, CBTypeOK, TotalField
  <1>2. CASE FailureReopens
    <2>1. CBTypeOK'
      BY <1>1, <1>2, ConfigAssumption, MaxHalfOpenPositive
      DEF IndInv, CBTypeOK, RecordFailure, FailureReopens
    <2>2. NoOrphanSlot' /\ TimeoutFromTrip' /\ CountedInWindow'
      BY <1>2 DEF NoOrphanSlot, TimeoutFromTrip, CountedInWindow, FailureReopens
    <2> QED  BY <2>1, <2>2 DEF IndInv
  <1>3. CASE FailureClosed
    <2>1. failures \in Nat /\ failures < FailureThreshold /\ windowAge \in 0..Old
      BY <1>3 DEF IndInv, CBTypeOK, CountedInWindow, FailureClosed
    <2>2. recent' \in [1..FailureThreshold -> 0..Old]
      BY <1>3, ConfigAssumption DEF IndInv, CBTypeOK, FailureClosed, Old
    <2>3. round' = {} /\ halfOpenInFlight' = 0 /\ state' # StateHalfOpen
      BY <1>3 DEF IndInv, NoOrphanSlot, FailureClosed
    <2>4. CBTypeOK'
      BY <1>1, <1>3, <2>1, <2>2, <2>3, ConfigAssumption, MaxHalfOpenPositive
      DEF IndInv, CBTypeOK, RecordFailure, FailureClosed, Old
    <2>5. NoOrphanSlot' /\ TimeoutFromTrip'
      BY <1>3, <2>3 DEF NoOrphanSlot, TimeoutFromTrip, FailureClosed
    <2>6. CountedInWindow'
      BY <1>3, <2>1, ConfigAssumption
      DEF IndInv, CBTypeOK, CountedInWindow, FailureClosed, NewWindow, Old
    <2> QED  BY <2>4, <2>5, <2>6 DEF IndInv
  <1>4. CASE FailureOpen
    <2>1. round' \subseteq pending'
      BY <1>4 DEF IndInv, NoOrphanSlot, RecordFailure, FailureOpen, history
    <2> QED
      BY <1>1, <1>4, <2>1
      DEF IndInv, CBTypeOK, NoOrphanSlot, TimeoutFromTrip, CountedInWindow,
          RecordFailure, FailureOpen, history
  <1> QED  BY <1>2, <1>3, <1>4 DEF RecordFailure

\* Reset returns to the state of a new breaker, with requests still out.
LEMMA ResetInd == IndInv /\ Reset => IndInv'
  BY ConfigAssumption, MaxHalfOpenPositive
  DEF IndInv, CBTypeOK, NoOrphanSlot, TimeoutFromTrip, CountedInWindow, Reset, Never,
      Old, StateClosed, StateOpen, StateHalfOpen

\* Time passes: all ages grow together, so their order is kept.
LEMMA TickInd == IndInv /\ Tick => IndInv'
  <1> SUFFICES ASSUME IndInv, Tick PROVE IndInv'
    OBVIOUS
  <1>1. Timeout \in Nat /\ Old \in Nat
    BY ConfigAssumption DEF Old
  <1>2. CBTypeOK'
    BY <1>1, OlderFacts DEF IndInv, CBTypeOK, Tick
  <1>3. NoOrphanSlot' /\ TimeoutFromTrip'
    BY DEF IndInv, NoOrphanSlot, TimeoutFromTrip, Tick
  <1>4. CountedInWindow'
    <2> SUFFICES ASSUME state = StateClosed, NEW i \in 1..FailureThreshold,
                        i > FailureThreshold - failures
                 PROVE  recent'[i] <= windowAge'
      BY DEF IndInv, CountedInWindow, Tick
    <2>1. recent[i] \in 0..Old /\ windowAge \in 0..Old /\ recent[i] <= windowAge
      BY DEF IndInv, CBTypeOK, CountedInWindow
    <2>2. Older(recent[i], Old) <= Older(windowAge, Old)
      BY <1>1, <2>1, OlderFacts
    <2> QED  BY <2>2 DEF Tick
  <1> QED  BY <1>2, <1>3, <1>4 DEF IndInv

\* Every step keeps the invariant.
LEMMA NextInd == IndInv /\ [CBNext]_cbVars => IndInv'
  <1> SUFFICES ASSUME IndInv, [CBNext]_cbVars PROVE IndInv'
    OBVIOUS
  <1>1. CASE Toggle
    BY <1>1 DEF IndInv, CBTypeOK, NoOrphanSlot, TimeoutFromTrip, CountedInWindow,
                Toggle, code, history
  <1>2. CASE UNCHANGED cbVars
    BY <1>2 DEF IndInv, CBTypeOK, NoOrphanSlot, TimeoutFromTrip, CountedInWindow,
                cbVars, code, history
  <1> QED
    BY <1>1, <1>2, AdmitInd, RejectInd, RecordSuccessInd, RecordFailureInd, ResetInd,
       TickInd DEF CBNext

\* The invariant holds in every reachable state.
LEMMA Invariance == CBSpec => []IndInv
  BY InitInd, NextInd, PTL DEF CBSpec
-----------------------------------------------------------------------------
\* The breaker's fields keep their types and bounds.
THEOREM TypeCorrect == CBSpec => []CBTypeOK
  <1>1. IndInv => CBTypeOK
    BY DEF IndInv
  <1> QED  BY <1>1, Invariance, PTL

\* No late, duplicate or abandoned result can leave a half-open slot occupied
\* by nobody, so the breaker is never wedged.
THEOREM SlotsAccountedFor == CBSpec => []NoOrphanSlot
  <1>1. IndInv => NoOrphanSlot
    BY DEF IndInv
  <1> QED  BY <1>1, Invariance, PTL

\* The open timeout always runs from the moment the circuit opened.
THEOREM TimeoutExact == CBSpec => []TimeoutFromTrip
  <1>1. IndInv => TimeoutFromTrip
    BY DEF IndInv
  <1> QED  BY <1>1, Invariance, PTL

\* The circuit opens from closed only on FailureThreshold uninterrupted failures
\* no older than Window.
THEOREM OpensOnBurst == CBSpec => OpensOnlyOnBurst
  <1>1. IndInv /\ [CBNext]_cbVars =>
          [state = StateClosed /\ state' = StateOpen => recent'[1] <= Window]_cbVars
    <2> SUFFICES ASSUME IndInv, CBNext, state = StateClosed, state' = StateOpen
                 PROVE  recent'[1] <= Window
      OBVIOUS
    <2> USE DEF StateClosed, StateOpen, StateHalfOpen
    <2>1. FailureClosed
      BY DEF CBNext, Admit, AllowClosed, AllowPromoted, AllowProbe, Reject,
             RecordSuccess, SuccessProbe, SuccessCloses, SuccessClosed, SuccessOpen,
             RecordFailure, FailureReopens, FailureOpen, Reset, Tick, Toggle, code
    <2> QED
      BY <2>1, ConfigAssumption
      DEF IndInv, CBTypeOK, CountedInWindow, FailureClosed, NewWindow, Old
  <1> QED  BY <1>1, Invariance, PTL DEF CBSpec, OpensOnlyOnBurst

\* Every step of the breaker is a step of the gate or leaves the gate alone.  The
\* open timeout is the delicate part: Allow looks at the last failure, the gate at
\* the moment of opening, and TimeoutFromTrip makes them agree.
LEMMA GateStep == IndInv /\ [CBNext]_cbVars => [Gate!Next]_(Gate!gate)
  <1> SUFFICES ASSUME IndInv, [CBNext]_cbVars PROVE [Gate!Next]_(Gate!gate)
    OBVIOUS
  <1> USE DEF StateClosed, StateOpen, StateHalfOpen, Gate!Next, Gate!gate
  <1>1. ASSUME NEW c \in Caller, Admit(c) PROVE Gate!Admit(c)
    <2>1. state = StateOpen /\ Expired => sinceOpen = Timeout
      BY ConfigAssumption DEF IndInv, CBTypeOK, TimeoutFromTrip, Expired
    <2> QED
      BY <1>1, <2>1 DEF Admit, AllowClosed, AllowPromoted, AllowProbe, Gate!Admit
  <1>2. ASSUME NEW c \in Caller, RecordSuccess(c) PROVE Gate!Report(c)
    BY <1>2 DEF RecordSuccess, SuccessProbe, SuccessCloses, SuccessClosed, SuccessOpen,
                Gate!Report
  <1>3. ASSUME NEW c \in Caller, RecordFailure(c) PROVE Gate!Report(c)
    BY <1>3 DEF RecordFailure, FailureReopens, FailureClosed, FailureOpen, history,
                Gate!Report
  <1>4. CASE Reset
    BY <1>4 DEF Reset, Gate!Reset
  <1>5. CASE Tick
    BY <1>5, ConfigAssumption DEF Tick, Older, Gate!Tick, IndInv, CBTypeOK
  <1>6. ASSUME NEW c \in Caller, Reject(c) PROVE UNCHANGED <<state, pending, sinceOpen>>
    BY <1>6 DEF Reject, history
  <1>7. CASE Toggle \/ UNCHANGED cbVars
    BY <1>7 DEF Toggle, cbVars, code, history
  <1> QED  BY <1>1, <1>2, <1>3, <1>4, <1>5, <1>6, <1>7 DEF CBNext

\* The circuit breaker implements BreakerGate, for any thresholds and any number
\* of callers.
THEOREM GateImplemented == CBSpec => ImplementsGate
  <1>1. CBInit => Gate!Init
    BY DEF CBInit, Gate!Init, StateClosed
  <1> QED  BY <1>1, Invariance, GateStep, PTL DEF CBSpec, ImplementsGate, Gate!Spec
-----------------------------------------------------------------------------
\* A whole turn of a counter does not show in the remainder.
LEMMA Turn ==
  ASSUME NEW m \in Nat \ {0}, NEW x \in Int
  PROVE  (x + m) % m = x % m /\ (x - m) % m = x % m
  <1> DEFINE q == x \div m
             r == x % m
  <1>1. q \in Int /\ r \in 0..(m - 1) /\ x = q * m + r
    OBVIOUS
  <1>2. ASSUME NEW y \in Int, NEW k \in Int, NEW s \in 0..(m - 1), y = k * m + s
        PROVE  y % m = s
    BY <1>2
  <1> HIDE DEF q, r
  <1>3. x + m = (q + 1) * m + r /\ x - m = (q - 1) * m + r
    BY <1>1
  <1>4. (x + m) % m = r /\ (x - m) % m = r
    BY <1>1, <1>2, <1>3
  <1> QED  BY <1>4 DEF r

\* A counter either goes up by one or starts its next turn; the others stay.
LEMMA CountStep ==
  ASSUME NEW t \in [TotalField -> 0..(CounterMod - 1)], NEW f \in TotalField
  PROVE  /\ Count(t, f)[f] \in {t[f] + 1, t[f] + 1 - CounterMod}
         /\ \A g \in TotalField \ {f} : Count(t, f)[g] = t[g]
  <1>1. ASSUME NEW x \in 0..(CounterMod - 1)
        PROVE  (x + 1) % CounterMod \in {x + 1, x + 1 - CounterMod}
    BY ConfigAssumption
  <1> QED  BY <1>1 DEF Count

\* What TotalsBalance says is a multiple of CounterMod.
Outstanding ==
  totals["requests"] - totals["rejected"] - totals["success"] - totals["failures"]
    - Cardinality(pending)

\* Every Allow and every RecordResult moves the totals and the pending callers
\* together, also when a counter wraps.
LEMMA BalanceInd == IndInv /\ TotalsBalance /\ [CBNext]_cbVars => TotalsBalance'
  <1> SUFFICES ASSUME IndInv, TotalsBalance, [CBNext]_cbVars
               PROVE  TotalsBalance'
    OBVIOUS
  <1> DEFINE m == CounterMod
  <1>1. /\ IsFiniteSet(pending) /\ Cardinality(pending) \in Nat
        /\ totals \in [TotalField -> 0..(m - 1)] /\ m \in Nat \ {0}
        /\ {"requests", "rejected", "success", "failures"} \subseteq TotalField
    BY ConfigAssumption, FS_Subset, FS_CardinalityType DEF IndInv, CBTypeOK, TotalField
  <1>2. Outstanding \in Int /\ Outstanding % m = 0
    BY <1>1 DEF TotalsBalance, Outstanding
  <1>3. ASSUME Outstanding' \in {Outstanding, Outstanding + m, Outstanding - m}
        PROVE  TotalsBalance'
    BY <1>1, <1>2, <1>3, Turn DEF TotalsBalance, Outstanding
  <1>4. CASE UNCHANGED <<totals, pending>>
    BY <1>3, <1>4 DEF Outstanding
  <1>5. ASSUME NEW c \in Caller, Admit(c) PROVE TotalsBalance'
    <2>1. Cardinality(pending') = Cardinality(pending) + 1
      BY <1>1, <1>5, FS_AddElement DEF Admit
    <2> QED  BY <1>1, <1>3, <1>5, <2>1, CountStep DEF Admit, Outstanding
  <1>6. ASSUME NEW c \in Caller, Reject(c) PROVE TotalsBalance'
    <2> DEFINE one == Count(totals, "requests")
    <2>1. one \in [TotalField -> 0..(m - 1)]
      BY <1>1, CountType
    <2>2. /\ one["requests"] \in {totals["requests"] + 1, totals["requests"] + 1 - m}
          /\ \A g \in TotalField \ {"requests"} : one[g] = totals[g]
      BY <1>1, CountStep
    <2>3. /\ totals' = Count(one, "rejected") /\ UNCHANGED pending
          /\ totals'["rejected"] \in {one["rejected"] + 1, one["rejected"] + 1 - m}
          /\ \A g \in TotalField \ {"rejected"} : totals'[g] = one[g]
      BY <1>1, <1>6, <2>1, CountStep DEF Reject
    <2> HIDE DEF one
    <2> QED  BY <1>1, <1>3, <2>2, <2>3 DEF Outstanding
  <1>7. ASSUME NEW c \in Caller, RecordSuccess(c) \/ RecordFailure(c) PROVE TotalsBalance'
    <2>1. Cardinality(pending') = Cardinality(pending) - 1
      BY <1>1, <1>7, FS_RemoveElement DEF RecordSuccess, RecordFailure
    <2>2. \/ totals' = Count(totals, "success")
          \/ totals' = Count(totals, "failures")
      BY <1>7 DEF RecordSuccess, RecordFailure
    <2> QED  BY <1>1, <1>3, <2>1, <2>2, CountStep DEF Outstanding
  <1>8. CASE Reset \/ Tick \/ Toggle \/ UNCHANGED cbVars
    BY <1>4, <1>8 DEF Reset, Tick, Toggle, cbVars, code
  <1> QED  BY <1>5, <1>6, <1>7, <1>8 DEF CBNext

\* The totals balance for every counter width, number of callers and schedule.
THEOREM NoResultLost == CBSpec => []TotalsBalance
  <1>1. CBInit => TotalsBalance
    BY ConfigAssumption, FS_EmptySet DEF CBInit, TotalsBalance, TotalField
  <1>2. IndInv /\ TotalsBalance /\ [CBNext]_cbVars => TotalsBalance'
    BY BalanceInd
  <1> QED  BY <1>1, <1>2, Invariance, PTL DEF CBSpec
=============================================================================
