-------------------------- MODULE MCCircuitBreaker --------------------------
(* Instances of CircuitBreaker for TLC. *)
EXTENDS CircuitBreaker, TLC

\* Callers are interchangeable in the safety runs.
Symmetry == Permutations(Caller)
=============================================================================
