---------------------------- MODULE MCDiscovery ----------------------------
(* Instances of Discovery for TLC. *)
EXTENDS Discovery, TLC

\* Services, addresses and builds are interchangeable.
Symmetry == Permutations(ID) \cup Permutations(Addr) \cup Permutations(Build)
=============================================================================
