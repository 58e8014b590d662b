----------------------------- MODULE MCBackends -----------------------------
(***************************************************************************)
(* The watchers that rebuild the backends, and the connection pool of one  *)
(* backend, side by side for TLC: a behaviour is one of the component      *)
(* focus names, while the other stays in an initial state.                 *)
(***************************************************************************)
EXTENDS Discovery, ConnPool, TLC

VARIABLE focus

BackendsInit ==
  /\ focus \in {"discovery", "pool"}
  /\ DInit
  /\ PoolInit /\ (focus # "pool" => halfCloseFirst)

BackendsNext ==
  \/ focus = "discovery" /\ DNext /\ UNCHANGED <<focus, poolVars>>
  \/ focus = "pool" /\ PoolNext /\ UNCHANGED <<focus, allVars>>

BackendsSpec == BackendsInit /\ [][BackendsNext]_<<focus, allVars, poolVars>>

\* Builds are interchangeable.
Symmetry == Permutations(Build)
=============================================================================
