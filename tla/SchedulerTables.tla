---------------------------- MODULE SchedulerTables ----------------------------
(***************************************************************************)
(* The states of the scheduler and what each of them asks for: one         *)
(* inference interval per priority tier.                                   *)
(***************************************************************************)
EXTENDS Naturals

States == {"NORMAL", "PRESSURE", "THERMAL", "CRITICAL", "RECOVERY"}
Escalated == {"PRESSURE", "THERMAL", "CRITICAL"}

LastRecoveryStep == 2

RecoveryTable(step) ==
  CASE step = 0 -> [high |-> 0, normal |-> 1, low |-> 2]
    [] step = 1 -> [high |-> 0, normal |-> 0, low |-> 1]
    [] OTHER    -> [high |-> 0, normal |-> 0, low |-> 0]

TableFor(st, step) ==
  CASE st = "NORMAL"   -> [high |-> 0, normal |-> 0, low |-> 0]
    [] st = "PRESSURE" -> [high |-> 0, normal |-> 1, low |-> 2]
    [] st = "THERMAL"  -> [high |-> 0, normal |-> 2, low |-> 3]
    [] st = "CRITICAL" -> [high |-> 1, normal |-> 3, low |-> 15]
    [] OTHER           -> RecoveryTable(step)
=============================================================================
