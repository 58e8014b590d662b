-------------------------------- MODULE MCL4 --------------------------------
(***************************************************************************)
(* The TCP proxy and the circuit breaker it asks, side by side for TLC: a  *)
(* behaviour is one of the component focus names, while the other stays in *)
(* its initial state.                                                      *)
(***************************************************************************)
EXTENDS TCPProxy, CircuitBreaker

VARIABLE focus

L4Init == focus \in {"proxy", "breaker"} /\ Init /\ CBInit

L4Next ==
  \/ focus = "proxy" /\ Next /\ UNCHANGED <<focus, cbVars>>
  \/ focus = "breaker" /\ CBNext /\ UNCHANGED <<focus, vars>>

\* Fairness and CBFairness, each for the behaviours of its own component.
L4Fairness ==
  /\ WF_vars(focus = "proxy" /\ AcceptLoop)
  /\ \A c \in Client : WF_vars(focus = "proxy" /\ Handler(c))
  /\ \A s \in Stopper : /\ WF_vars(focus = "proxy" /\ Stopping(s))
                        /\ WF_vars(focus = "proxy" /\ Expire(s))
  /\ WF_cbVars(focus = "breaker" /\ Tick)
  /\ WF_cbVars(focus = "breaker" /\ \E c \in Caller : Admit(c))
  /\ \A c \in Caller : WF_cbVars(focus = "breaker" /\ (RecordSuccess(c) \/ RecordFailure(c)))

L4Spec == L4Init /\ [][L4Next]_<<focus, vars, cbVars>> /\ L4Fairness
=============================================================================
