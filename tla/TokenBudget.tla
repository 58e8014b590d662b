---------------------------- MODULE TokenBudget ----------------------------
(***************************************************************************)
(* What a rate limiter promises: a bucket that gains rate tokens in every  *)
(* unit of time up to its capacity, and grants a request exactly when the  *)
(* tokens it asks for are there.                                           *)
(*                                                                         *)
(* TokenBucket implements this specification lazily (TokenBucket.Budget);  *)
(* HTTPProxy is written against it.                                        *)
(***************************************************************************)
EXTENDS Integers

CONSTANTS
  Capacity,  \* the burst size
  Rates,     \* the rates SetRate may set, in tokens per unit of time
  Costs      \* how many tokens a request may ask for

VARIABLES level, perTick

budget == <<level, perTick>>

Least(m, n) == IF m <= n THEN m ELSE n

Init == level = Capacity /\ perTick \in Rates

Grant(n) == n <= level /\ level' = level - n /\ UNCHANGED perTick

Refuse(n) == n > level /\ UNCHANGED budget

SetRate(r) == perTick' = r /\ UNCHANGED level

Refill == level' = Capacity /\ UNCHANGED perTick

Tick == level' = Least(Capacity, level + perTick) /\ UNCHANGED perTick

Next ==
  \/ \E n \in Costs : Grant(n) \/ Refuse(n)
  \/ \E r \in Rates : SetRate(r)
  \/ Refill
  \/ Tick

Spec == Init /\ [][Next]_budget
=============================================================================
