---------------------------- MODULE TokenBucket ----------------------------
(***************************************************************************)
(* The rate limiter (internal/ratelimiter/ratelimiter.go).  Tokens are     *)
(* added lazily: every call first refills for the time since lastFill.     *)
(* Each call holds the mutex throughout, so it is one step.                *)
(*                                                                         *)
(* Time is counted in units of sinceFill and rates in tokens per unit; the *)
(* units may be as small as one likes, which is how fractions of a token   *)
(* appear here.  totalAllowed and totalDenied are only reported.           *)
(***************************************************************************)
EXTENDS Integers

CONSTANTS
  Capacity,  \* capacity, at least one token
  Rates,     \* the positive rates in use
  Costs      \* the values of n in AllowN

ASSUME BucketAssumption ==
  /\ Capacity \in Nat \ {0}
  /\ Rates \subseteq Nat \ {0}
  /\ Costs \subseteq Nat

VARIABLES
  tokens,    \* tb.tokens
  rate,      \* tb.rate
  sinceFill  \* now - tb.lastFill, saturated at Capacity: a rate of one token
             \* per unit has filled the bucket by then

bucketVars == <<tokens, rate, sinceFill>>

\* NewTokenBucket: the bucket starts full.
BucketInit == tokens = Capacity /\ rate \in Rates /\ sinceFill = 0

\* refill: the tokens after it, capped at the capacity.
Filled == IF tokens + rate * sinceFill > Capacity THEN Capacity ELSE tokens + rate * sinceFill

\* AllowN with enough tokens, and without.
AllowN(n) ==
  /\ Filled >= n
  /\ tokens' = Filled - n
  /\ sinceFill' = 0
  /\ UNCHANGED rate

DenyN(n) ==
  /\ Filled < n
  /\ tokens' = Filled
  /\ sinceFill' = 0
  /\ UNCHANGED rate

Stats ==
  /\ tokens' = Filled
  /\ sinceFill' = 0
  /\ UNCHANGED rate

\* Mutant of SetRate: the time before the call is credited at the new rate.
SetRateAtOnce(r) ==
  /\ IF r <= 0 THEN UNCHANGED rate ELSE rate' = r
  /\ UNCHANGED <<tokens, sinceFill>>

\* SetRate: a rate of zero or less is ignored.
SetRate(r) ==
  IF r <= 0
  THEN UNCHANGED bucketVars
  ELSE /\ tokens' = Filled
       /\ sinceFill' = 0
       /\ rate' = r

Reset ==
  /\ tokens' = Capacity
  /\ sinceFill' = 0
  /\ UNCHANGED rate

\* A unit of time passes.
BucketTick ==
  /\ sinceFill' = IF sinceFill < Capacity THEN sinceFill + 1 ELSE Capacity
  /\ UNCHANGED <<tokens, rate>>

BucketNext ==
  \/ \E n \in Costs : AllowN(n) \/ DenyN(n)
  \/ \E r \in Rates \cup {0} : SetRate(r)
  \/ Stats
  \/ Reset
  \/ BucketTick

BucketSpec == BucketInit /\ [][BucketNext]_bucketVars
-----------------------------------------------------------------------------
(* Properties                                                              *)

\* The bucket holds between none and Capacity tokens.
BucketTypeOK == tokens \in 0..Capacity /\ rate \in Rates /\ sinceFill \in 0..Capacity

\* The eager bucket: what the stored tokens are worth now.
Eager == INSTANCE TokenBudget WITH
            level   <- IF tokens + rate * sinceFill > Capacity
                       THEN Capacity ELSE tokens + rate * sinceFill,
            perTick <- rate

\* Lazy refilling is invisible: in whatever order AllowN, Stats, SetRate and
\* Reset refill, the bucket grants and refuses exactly the requests that one
\* refilled in every unit of time would (refill, SetRate).
ImplementsBudget == Eager!Spec
=============================================================================
