---------------------------- MODULE CircuitBreaker ----------------------------
(***************************************************************************)
(* CircuitBreaker (one per cloud provider) as operators on its fields.     *)
(* Every method holds the breaker's mutex from its first line to its last, *)
(* so a call is one step of the thread that makes it.                      *)
(*                                                                         *)
(* opened_at_ is replaced by the time since then, which saturates at the   *)
(* reset timeout and is kept at 0 where nothing reads it.                  *)
(***************************************************************************)
EXTENDS Naturals

CONSTANTS
  FailureThreshold, \* failure_threshold
  ProbeThreshold,   \* half_open_success_threshold: probes allowed and successes needed
  ResetTimeout      \* reset_timeout_sec

ASSUME BreakerAssumption ==
  /\ FailureThreshold \in Nat \ {0}
  /\ ProbeThreshold \in Nat \ {0}
  /\ ResetTimeout \in Nat

Breakers ==
  [state : {"CLOSED", "OPEN", "HALF_OPEN"}, failures : Nat, successes : Nat,
   used : Nat, age : 0..ResetTimeout]

NewBreaker ==
  [state |-> "CLOSED", failures |-> 0, successes |-> 0, used |-> 0, age |-> 0]

Opened == [NewBreaker EXCEPT !.state = "OPEN"]
Closed == NewBreaker
\* The failure count is carried over, and read again only if the circuit closes.
HalfOpened(b) ==
  [state |-> "HALF_OPEN", failures |-> b.failures, successes |-> 0, used |-> 0, age |-> 0]

TimedOut(b) == b.state = "OPEN" /\ b.age >= ResetTimeout
HasProbeLeft(b) == b.state = "HALF_OPEN" /\ b.used < ProbeThreshold

(* allow_request: its answer, and the breaker it leaves. *)

Allows(b) == b.state = "CLOSED" \/ TimedOut(b) \/ HasProbeLeft(b)

AfterAsked(b) ==
  CASE TimedOut(b)     -> [HalfOpened(b) EXCEPT !.used = 1]
    [] HasProbeLeft(b) -> [b EXCEPT !.used = @ + 1]
    [] OTHER           -> b

(* record_success and record_failure. *)

\* Faulty: waits for one success more than there are probes.
RecordSuccessOffByOne(b) ==
  IF b.state # "HALF_OPEN" THEN [b EXCEPT !.failures = 0]
  ELSE IF b.successes + 1 > ProbeThreshold THEN Closed
  ELSE [b EXCEPT !.successes = @ + 1]

RecordSuccess(b) ==
  IF b.state # "HALF_OPEN" THEN [b EXCEPT !.failures = 0]
  ELSE IF b.successes + 1 >= ProbeThreshold THEN Closed
  ELSE [b EXCEPT !.successes = @ + 1]

\* Faulty: only the failures of probes count.
RecordFailureOfProbes(b) == IF b.state = "HALF_OPEN" THEN Opened ELSE b

\* Faulty: a failed probe only counts, as a failure does while closed.
RecordFailureKeepsProbing(b) ==
  IF b.failures + 1 >= FailureThreshold THEN Opened ELSE [b EXCEPT !.failures = @ + 1]

RecordFailure(b) ==
  IF b.state = "HALF_OPEN" \/ b.failures + 1 >= FailureThreshold
    THEN Opened
    ELSE [b EXCEPT !.failures = @ + 1]

\* One unit of time passes.
Aged(b) ==
  IF b.state = "OPEN" /\ b.age < ResetTimeout THEN [b EXCEPT !.age = @ + 1] ELSE b
=============================================================================
