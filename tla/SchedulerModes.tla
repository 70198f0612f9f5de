----------------------------- MODULE SchedulerModes -----------------------------
(***************************************************************************)
(* What the rest of the pipeline may rely on of the scheduler: which state *)
(* can follow which, without the samples, holds, cooldown and budget that  *)
(* decide when.  SchedulerPolicy implements this specification, and        *)
(* ControlPlane builds on it.                                              *)
(***************************************************************************)
EXTENDS SchedulerTables

VARIABLES state, recoveryStep

ToState(from, to) ==
  /\ state \in from
  /\ state' = to
  /\ recoveryStep' = 0

StepDown ==
  /\ state = "RECOVERY" /\ recoveryStep < LastRecoveryStep
  /\ recoveryStep' = recoveryStep + 1
  /\ UNCHANGED state

Recovered ==
  /\ state = "RECOVERY" /\ recoveryStep = LastRecoveryStep
  /\ state' = "NORMAL" /\ recoveryStep' = 0

Init == state = "NORMAL" /\ recoveryStep = 0

Next ==
  \/ ToState(States \ {"CRITICAL"}, "CRITICAL")
  \/ ToState({"NORMAL", "PRESSURE", "RECOVERY"}, "THERMAL")
  \/ ToState({"NORMAL", "RECOVERY"}, "PRESSURE")
  \/ ToState(Escalated, "RECOVERY")
  \/ StepDown \/ Recovered

Spec == Init /\ [][Next]_<<state, recoveryStep>>
=============================================================================
