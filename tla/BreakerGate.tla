---------------------------- MODULE BreakerGate ----------------------------
(***************************************************************************)
(* What a circuit breaker promises the proxies that share it, without the  *)
(* counters by which it decides: who is let through, who still owes it a   *)
(* result, and when it may change its mind.                                *)
(*                                                                         *)
(* CircuitBreaker implements this specification (CircuitBreaker.Gate);     *)
(* HTTPProxy is written against it.                                        *)
(***************************************************************************)
EXTENDS Integers

CONSTANTS
  Caller,   \* goroutines that use the breaker
  Timeout   \* how long an open breaker leaves its backend alone, in ticks

VARIABLES
  mode,     \* "closed", "open" or "half-open"
  out,      \* callers let through that have yet to report
  wait      \* time since the breaker last opened, saturated at Timeout

gate == <<mode, out, wait>>

Init == mode = "closed" /\ out = {} /\ wait = Timeout

\* Allow returns nil.  An open breaker lets a caller through only after its
\* whole timeout, and becomes half-open by doing so.
Admit(c) ==
  /\ c \notin out
  /\ out' = out \cup {c}
  /\ \/ mode \in {"closed", "half-open"} /\ mode' = mode
     \/ mode = "open" /\ wait = Timeout /\ mode' = "half-open"
  /\ UNCHANGED wait

\* Allow returns ErrCircuitOpen: never from a closed breaker.
Refuse(c) == c \notin out /\ mode # "closed" /\ UNCHANGED gate

\* RecordResult: every caller let through reports once.  A result may open a
\* closed breaker and may settle a half-open one either way; one that comes
\* while the breaker is open changes nothing.
Report(c) ==
  /\ c \in out
  /\ out' = out \ {c}
  /\ mode' \in CASE mode = "closed"    -> {"closed", "open"}
                 [] mode = "open"      -> {"open"}
                 [] mode = "half-open" -> {"half-open", "closed", "open"}
  /\ wait' = IF mode # "open" /\ mode' = "open" THEN 0 ELSE wait

Reset == mode' = "closed" /\ UNCHANGED <<out, wait>>

Tick == wait' = (IF wait < Timeout THEN wait + 1 ELSE Timeout) /\ UNCHANGED <<mode, out>>

Next ==
  \/ \E c \in Caller : Admit(c) \/ Refuse(c) \/ Report(c)
  \/ Reset
  \/ Tick

Spec == Init /\ [][Next]_gate
=============================================================================
