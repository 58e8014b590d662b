----------------------------- MODULE MCRegistry -----------------------------
(* Instances of Registry for TLC. *)
EXTENDS Registry, TLC

\* Services, addresses and subscribers are interchangeable.
Symmetry == Permutations(ID) \cup Permutations(Addr) \cup Permutations(Sub)
=============================================================================
