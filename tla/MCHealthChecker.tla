-------------------------- MODULE MCHealthChecker --------------------------
(* Instances of HealthChecker for TLC: two addresses, lists of at most two   *)
(* entries, so that an update can grow, shrink, replace and duplicate.       *)
EXTENDS HealthChecker

=============================================================================
