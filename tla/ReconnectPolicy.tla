---------------------------- MODULE ReconnectPolicy ----------------------------
(***************************************************************************)
(* ReconnectPolicy, the state machine of one RTSP stream, as operators on  *)
(* its fields.  The reason and the total of reconnects, which are only     *)
(* reported, are left out.                                                 *)
(***************************************************************************)
EXTENDS Naturals, StreamModes

CONSTANTS
  MaxFailures, \* max_consecutive_failures
  BackoffBase, \* backoff_base_ms
  BackoffMax   \* backoff_max_ms

\* What the constructor's clamps leave.
ASSUME PolicyAssumption ==
  /\ MaxFailures \in Nat \ {0}
  /\ BackoffBase \in Nat \ {0}
  /\ BackoffMax \in Nat /\ BackoffMax >= BackoffBase

Policies == [state : StreamStates, failures : Nat, attempts : Nat]

NewPolicy == [state |-> "OFFLINE", failures |-> 0, attempts |-> 0]

MarkConnect(p) ==
  [state |-> "CONNECTING", failures |-> p.failures, attempts |-> p.attempts + 1]

\* Faulty: the attempts of the last outage are not forgotten.
MarkRunningKeepsAttempts(p) == [p EXCEPT !.state = "RUNNING", !.failures = 0]

MarkRunning(p) == [state |-> "RUNNING", failures |-> 0, attempts |-> 0]

MarkDegraded(p) == IF p.state = "RUNNING" THEN [p EXCEPT !.state = "DEGRADED"] ELSE p

\* Faulty: the failures are counted for ever.
MarkFailureForever(p) == [p EXCEPT !.failures = @ + 1, !.state = "RECONNECTING"]

MarkFailure(p) ==
  [state |-> IF p.failures + 1 > MaxFailures THEN "FAILED" ELSE "RECONNECTING",
   failures |-> p.failures + 1,
   attempts |-> p.attempts]

\* base << n
Shifted[n \in Nat] == IF n = 0 THEN BackoffBase ELSE 2 * Shifted[n - 1]

\* base, 2 base, 4 base, ... up to the cap.
Backoff(p) ==
  IF p.state # "RECONNECTING" THEN 0
  ELSE LET wait == Shifted[p.failures - 1]
       IN  IF wait > BackoffMax THEN BackoffMax ELSE wait
=============================================================================
