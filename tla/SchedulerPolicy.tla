--------------------------- MODULE SchedulerPolicy ---------------------------
(***************************************************************************)
(* The runtime scheduler (SchedulerPolicy::update) together with the timer *)
(* that feeds it (Pipeline::tick_scheduler).                               *)
(*                                                                         *)
(* The code compares a monotonic clock with three stamps.  Here a stamp is *)
(* replaced by the time that separates it from the last tick: the age of   *)
(* the state (heldFor) and of the budget window (windowAge), and the rest  *)
(* of the cooldown (cooldownLeft).  Nothing the code compares tells apart  *)
(* two ages past the limit they are compared with, so ages saturate there  *)
(* and the abstraction is exact.  The unit of time is free.                *)
(***************************************************************************)
EXTENDS Integers, SchedulerTables

CONSTANTS
  Temps, Cpus,               \* the readings a sample may hold, NoReading included
  CpuEnter, CpuExit,         \* pressure_cpu_enter, pressure_cpu_exit
  ThermalEnter, ThermalExit, \* thermal_temp_enter, thermal_temp_exit
  CriticalEnter, CriticalExit, \* critical_temp_enter, critical_temp_exit
  MinHold,                   \* min_hold_ms
  Cooldown,                  \* cooldown_ms
  AdjustWindow,              \* adjust_window_ms
  MaxAdjustments,            \* max_adjustments_per_window
  Gaps                       \* the possible delays between two timer ticks

\* What config_loader accepts.  It does not order critical_temp_exit and the
\* thermal thresholds, and neither does this assumption.
ASSUME ThresholdAssumption ==
  /\ {CpuEnter, CpuExit, ThermalEnter, ThermalExit, CriticalEnter, CriticalExit}
       \subseteq Nat
  /\ CpuExit < CpuEnter
  /\ ThermalExit < ThermalEnter
  /\ CriticalExit < CriticalEnter
  /\ ThermalEnter < CriticalEnter

ASSUME TimingAssumption ==
  /\ MinHold \in Nat
  /\ Cooldown \in Nat
  /\ AdjustWindow \in Nat \ {0}
  /\ MaxAdjustments \in Nat
  /\ Gaps \subseteq Nat \ {0}

NoReading == -1

ASSUME ReadingAssumption ==
  /\ Temps \subseteq Nat \union {NoReading}
  /\ Cpus \subseteq Nat \union {NoReading}

VARIABLES
  state,         \* state_
  recoveryStep,  \* recovery_step_
  heldFor,       \* now - state_since_ms_, saturating at MinHold
  cooldownLeft,  \* cooldown_until_ms_ - now, never below 0
  windowAge,     \* now - window_start_ms_, saturating at AdjustWindow
  adjustments,   \* adjustments_
  sample         \* the pipeline's scheduler_last_sample_

vars == <<state, recoveryStep, heldFor, cooldownLeft, windowAge, adjustments, sample>>

Samples == [temp : Temps \union {NoReading}, cpu : Cpus \union {NoReading}]

------------------------------------------------------------------------------
\* The output.
Table == TableFor(state, recoveryStep)

------------------------------------------------------------------------------
(* The signals of a sample.  A missing reading never presses and always cools. *)

HotCritical(s) == s.temp # NoReading /\ s.temp >= CriticalEnter
Hot(s) == s.temp # NoReading /\ s.temp >= ThermalEnter
Cooled(s) == s.temp = NoReading \/ s.temp <= ThermalExit
CooledCritical(s) == s.temp = NoReading \/ s.temp <= CriticalExit
CpuHigh(s) == s.cpu # NoReading /\ s.cpu >= CpuEnter
CpuLow(s) == s.cpu = NoReading \/ s.cpu <= CpuExit

(* The timers as an update finds them dt after the previous one. *)

Capped(age, limit) == IF age < limit THEN age ELSE limit
CooldownAfter(dt) == IF dt < cooldownLeft THEN cooldownLeft - dt ELSE 0
WindowRolls(dt) == windowAge + dt >= AdjustWindow
Spent(dt) == IF WindowRolls(dt) THEN 0 ELSE adjustments

\* Faulty: one escalation more than the budget.
BudgetOffByOne(dt) == Spent(dt) <= MaxAdjustments

HoldElapsed(dt) == heldFor + dt >= MinHold
BudgetOk(dt) == Spent(dt) < MaxAdjustments

\* Faulty: NORMAL forgets the cooldown.
MayEscalateDuringCooldown(dt) == HoldElapsed(dt) /\ BudgetOk(dt)

\* What every non-critical escalation needs; NORMAL alone looks at the cooldown.
MayEscalate(dt) ==
  /\ HoldElapsed(dt)
  /\ BudgetOk(dt)
  /\ state = "NORMAL" => CooldownAfter(dt) = 0

------------------------------------------------------------------------------
RollWindow(dt) == windowAge' = IF WindowRolls(dt) THEN 0 ELSE windowAge + dt

Enter(st, dt) ==
  /\ state' = st
  /\ recoveryStep' = 0
  /\ heldFor' = 0
  /\ adjustments' = Spent(dt) + (IF st \in Escalated THEN 1 ELSE 0)
  /\ cooldownLeft' = IF st = "NORMAL" THEN Cooldown ELSE CooldownAfter(dt)
  /\ RollWindow(dt)

(* The guards, in the order the code tries them.  The definitions marked     *)
(* Faulty are not part of the model: each is a plausible bug in the          *)
(* definition after it, kept to show that the properties below notice it.    *)

EntersCritical(s) == state # "CRITICAL" /\ HotCritical(s)

\* Faulty: PRESSURE only watches the CPU.
EntersThermalButNotFromPressure(s, dt) ==
  /\ state \in {"NORMAL", "RECOVERY"}
  /\ ~HotCritical(s) /\ Hot(s)
  /\ MayEscalate(dt)

EntersThermal(s, dt) ==
  /\ state \in {"NORMAL", "PRESSURE", "RECOVERY"}
  /\ ~HotCritical(s) /\ Hot(s)
  /\ MayEscalate(dt)

EntersPressure(s, dt) ==
  /\ state \in {"NORMAL", "RECOVERY"}
  /\ ~Hot(s) /\ CpuHigh(s)
  /\ MayEscalate(dt)

EntersRecovery(s, dt) ==
  /\ HoldElapsed(dt)
  /\ ~EntersCritical(s)
  /\ \/ state = "PRESSURE" /\ CpuLow(s) /\ ~EntersThermal(s, dt)
     \/ state = "THERMAL" /\ Cooled(s)
     \/ state = "CRITICAL" /\ CooledCritical(s)

\* Faulty: a step down only on a CPU reading that is there.
StepsDownIfMeasured(s, dt) ==
  state = "RECOVERY" /\ HoldElapsed(dt) /\ Cooled(s) /\ CpuLow(s) /\ s.cpu # NoReading

\* Cooled and CpuLow exclude every escalation guard of RECOVERY.
StepsDown(s, dt) == state = "RECOVERY" /\ HoldElapsed(dt) /\ Cooled(s) /\ CpuLow(s)

\* Faulty: one stage past the last one.
HasStageLeftOffByOne == recoveryStep <= LastRecoveryStep

HasStageLeft == recoveryStep < LastRecoveryStep

ToCritical(s, dt) == EntersCritical(s) /\ Enter("CRITICAL", dt)
ToThermal(s, dt) == EntersThermal(s, dt) /\ Enter("THERMAL", dt)
ToPressure(s, dt) == EntersPressure(s, dt) /\ Enter("PRESSURE", dt)
ToRecovery(s, dt) == EntersRecovery(s, dt) /\ Enter("RECOVERY", dt)

ToNormal(s, dt) ==
  /\ StepsDown(s, dt)
  /\ ~HasStageLeft
  /\ Enter("NORMAL", dt)

StepDown(s, dt) ==
  /\ StepsDown(s, dt)
  /\ HasStageLeft
  /\ recoveryStep' = recoveryStep + 1
  /\ heldFor' = 0
  /\ adjustments' = Spent(dt)
  /\ cooldownLeft' = CooldownAfter(dt)
  /\ RollWindow(dt)
  /\ UNCHANGED state

Stay(s, dt) ==
  /\ ~EntersCritical(s)
  /\ ~EntersThermal(s, dt)
  /\ ~EntersPressure(s, dt)
  /\ ~EntersRecovery(s, dt)
  /\ ~StepsDown(s, dt)
  /\ heldFor' = Capped(heldFor + dt, MinHold)
  /\ adjustments' = Spent(dt)
  /\ cooldownLeft' = CooldownAfter(dt)
  /\ RollWindow(dt)
  /\ UNCHANGED <<state, recoveryStep>>

\* SchedulerPolicy::update.
Update(s, dt) ==
  \/ ToCritical(s, dt)
  \/ ToThermal(s, dt)
  \/ ToPressure(s, dt)
  \/ ToRecovery(s, dt)
  \/ ToNormal(s, dt)
  \/ StepDown(s, dt)
  \/ Stay(s, dt)

\* Pipeline::tick_scheduler: sample, update.
Tick == \E s \in Samples, dt \in Gaps : sample' = s /\ Update(s, dt)

\* The clock is the host's uptime, so the zero stamps of a new policy have an
\* arbitrary, common age.
Init ==
  /\ state = "NORMAL"
  /\ recoveryStep = 0
  /\ \E uptime \in 0..(MinHold + AdjustWindow) :
       /\ heldFor = Capped(uptime, MinHold)
       /\ windowAge = Capped(uptime, AdjustWindow)
  /\ cooldownLeft = 0
  /\ adjustments = 0
  /\ sample = [temp |-> NoReading, cpu |-> NoReading]

Next == Tick

\* The timer is a GLib source that always answers G_SOURCE_CONTINUE.
Fairness == WF_vars(Tick)

Spec == Init /\ [][Next]_vars /\ Fairness

------------------------------------------------------------------------------
(* Properties *)

Modes == INSTANCE SchedulerModes

\* The policy moves between its states as SchedulerModes allows, which is what
\* the control plane is built on: only RECOVERY leads back to NORMAL, and only
\* through its stages; THERMAL and CRITICAL are never left for PRESSURE.
ImplementsModes == Modes!Spec

\* The variables stay in their types; in particular the recovery step always
\* indexes kRecoveryStages, which update() never relies on the clamp for.
TypeOK ==
  /\ state \in States
  /\ recoveryStep \in 0..LastRecoveryStep
  /\ heldFor \in 0..MinHold
  /\ cooldownLeft \in 0..Cooldown
  /\ windowAge \in 0..AdjustWindow
  /\ adjustments \in Nat
  /\ sample \in Samples

\* No hold, cooldown, budget or other state delays CRITICAL: once the sample
\* the policy acted on is critically hot, the policy is in CRITICAL
\* ("never blocked by cooldown or budget", scheduler_policy.cpp).
HotCriticalMeansCritical == HotCritical(sample) => state = "CRITICAL"

\* The condition on the configuration under which the cooldown, which only
\* NORMAL looks at, cannot be bypassed through CRITICAL and RECOVERY.
HoldCoversCooldown == 2 * MinHold >= Cooldown

\* After a return to NORMAL the policy is not in a throttling state, other
\* than CRITICAL, before the cooldown is over, whatever path led there.
CooldownHonoured ==
  (HoldCoversCooldown /\ state \in {"PRESSURE", "THERMAL"}) => cooldownLeft = 0

\* Why that holds: a hold in CRITICAL and one in RECOVERY run the cooldown off.
CooldownMargin ==
  HoldCoversCooldown =>
    /\ state \in {"PRESSURE", "THERMAL"} => cooldownLeft = 0
    /\ state = "CRITICAL" => cooldownLeft = 0 \/ cooldownLeft + heldFor <= Cooldown
    /\ state = "RECOVERY" =>
         cooldownLeft = 0 \/ cooldownLeft + MinHold + heldFor <= Cooldown

\* Some tier infers more often after the step than before it.
LoadRises ==
  \/ Table'.high < Table.high
  \/ Table'.normal < Table.normal
  \/ Table'.low < Table.low

\* The policy gives load back only on a sample that cooled below the exit
\* threshold of the state it leaves, and never as part of an escalation: every
\* escalation keeps or widens the interval of every tier.
LoadRisesOnlyWhenCooled ==
  [][LoadRises => /\ state' \notin Escalated
                  /\ \/ Cooled(sample')
                     \/ state = "CRITICAL" /\ CooledCritical(sample')]_vars

\* Nothing in the sample holds the policy back from NORMAL.
Healthy == Cooled(sample) /\ CooledCritical(sample) /\ CpuLow(sample)

\* Once every sample is healthy, or missing, the policy returns to NORMAL for
\* good: no state traps it.
HealthyReturnsToNormal == <>[]Healthy => <>[](state = "NORMAL")

\* Under sustained heat the policy throttles again and again, however the
\* budget was spent when the heat began and whatever the CPU does.
HeatIsThrottled ==
  (MaxAdjustments > 0 /\ <>[]Hot(sample)) => []<>(state \in {"THERMAL", "CRITICAL"})
=============================================================================
