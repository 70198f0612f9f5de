------------------------ MODULE SchedulerPolicyProofs ------------------------
(***************************************************************************)
(* Proofs about SchedulerPolicy for every configuration config_loader      *)
(* accepts, every delay between ticks and every sequence of samples.       *)
(***************************************************************************)
EXTENDS SchedulerAudit, FiniteSetTheorems, TLAPS

(***************************************************************************)
(* The timers of one update: where each ends up, given where it was.  Every *)
(* action moves them in one of the ways listed here.                       *)
(***************************************************************************)
LEMMA Timers ==
  ASSUME TypeOK, NEW dt \in Gaps
  PROVE  /\ CooldownAfter(dt) \in 0..Cooldown
         /\ CooldownAfter(dt) = 0 \/ CooldownAfter(dt) + dt = cooldownLeft
         /\ Capped(heldFor + dt, MinHold) \in 0..MinHold
         /\ Capped(heldFor + dt, MinHold) <= heldFor + dt
         /\ Spent(dt) \in Nat
         /\ RollWindow(dt) => windowAge' \in 0..AdjustWindow
<1>1. dt \in Nat /\ dt > 0
  BY TimingAssumption
<1>2. /\ CooldownAfter(dt) \in 0..Cooldown
      /\ CooldownAfter(dt) = 0 \/ CooldownAfter(dt) + dt = cooldownLeft
  BY <1>1, TimingAssumption DEF TypeOK, CooldownAfter
<1>3. /\ Capped(heldFor + dt, MinHold) \in 0..MinHold
      /\ Capped(heldFor + dt, MinHold) <= heldFor + dt
  BY <1>1, TimingAssumption DEF TypeOK, Capped
<1>4. Spent(dt) \in Nat
  BY DEF TypeOK, Spent
<1>5. RollWindow(dt) => windowAge' \in 0..AdjustWindow
  BY <1>1, TimingAssumption DEF TypeOK, RollWindow, WindowRolls
<1>. QED
  BY <1>2, <1>3, <1>4, <1>5

(* Every transition between states keeps the types. *)
LEMMA EnterType ==
  ASSUME TypeOK, NEW dt \in Gaps, NEW st \in States, Enter(st, dt), sample' \in Samples
  PROVE  TypeOK'
<1>1. adjustments' \in Nat
  BY Timers DEF Enter
<1>2. cooldownLeft' \in 0..Cooldown
  BY Timers, TimingAssumption DEF Enter
<1>3. heldFor' \in 0..MinHold /\ recoveryStep' \in 0..LastRecoveryStep /\ state' \in States
  BY TimingAssumption DEF Enter, LastRecoveryStep
<1>4. windowAge' \in 0..AdjustWindow
  BY Timers DEF Enter
<1>. QED
  BY <1>1, <1>2, <1>3, <1>4 DEF TypeOK

LEMMA TypeInductive == TypeOK /\ [Next]_vars => TypeOK'
<1>. SUFFICES ASSUME TypeOK, [Next]_vars PROVE TypeOK'
  OBVIOUS
<1>1. CASE UNCHANGED vars
  BY <1>1 DEF vars, TypeOK
<1>2. CASE Next
  <2>. PICK s \in Samples, dt \in Gaps : sample' = s /\ Update(s, dt)
    BY <1>2 DEF Next, Tick
  <2>0. {"NORMAL", "PRESSURE", "THERMAL", "CRITICAL", "RECOVERY"} = States
    BY DEF States
  <2>1. CASE ToCritical(s, dt)
    BY <2>0, <2>1, EnterType DEF ToCritical
  <2>2. CASE ToThermal(s, dt)
    BY <2>0, <2>2, EnterType DEF ToThermal
  <2>3. CASE ToPressure(s, dt)
    BY <2>0, <2>3, EnterType DEF ToPressure
  <2>4. CASE ToRecovery(s, dt)
    BY <2>0, <2>4, EnterType DEF ToRecovery
  <2>5. CASE ToNormal(s, dt)
    BY <2>0, <2>5, EnterType DEF ToNormal
  <2>6. CASE StepDown(s, dt)
    <3>1. recoveryStep' \in 0..LastRecoveryStep
      BY <2>6 DEF StepDown, HasStageLeft, TypeOK, LastRecoveryStep
    <3>2. /\ heldFor' \in 0..MinHold
          /\ cooldownLeft' \in 0..Cooldown
          /\ windowAge' \in 0..AdjustWindow
          /\ adjustments' \in Nat
      BY <2>6, Timers, TimingAssumption DEF StepDown
    <3>. QED
      BY <2>6, <3>1, <3>2 DEF StepDown, TypeOK
  <2>7. CASE Stay(s, dt)
    BY <2>7, Timers DEF Stay, TypeOK
  <2>. QED
    BY <2>1, <2>2, <2>3, <2>4, <2>5, <2>6, <2>7 DEF Update
<1>. QED
  BY <1>1, <1>2

LEMMA TypeInitial == Init => TypeOK
<1>. SUFFICES ASSUME Init PROVE TypeOK
  OBVIOUS
<1>1. PICK uptime \in 0..(MinHold + AdjustWindow) :
        heldFor = Capped(uptime, MinHold) /\ windowAge = Capped(uptime, AdjustWindow)
  BY DEF Init
<1>2. heldFor \in 0..MinHold /\ windowAge \in 0..AdjustWindow
  BY <1>1, TimingAssumption DEF Capped
<1>3. sample \in Samples
  BY DEF Init, Samples
<1>. QED
  BY <1>2, <1>3, TimingAssumption DEF Init, TypeOK, States, LastRecoveryStep

(* Every variable of the scheduler keeps its type, for every configuration. *)
THEOREM TypeCorrect == Spec => []TypeOK
<1>. QED
  BY TypeInitial, TypeInductive, PTL DEF Spec

------------------------------------------------------------------------------
(***************************************************************************)
(* CRITICAL is never delayed.  A critically hot sample leaves exactly two  *)
(* possibilities: enter CRITICAL, or stay there.                           *)
(***************************************************************************)
LEMMA CriticalInductive ==
  ASSUME TypeOK, HotCriticalMeansCritical, [Next]_vars
  PROVE  HotCriticalMeansCritical'
<1>1. CASE UNCHANGED vars
  BY <1>1 DEF vars, HotCriticalMeansCritical, HotCritical
<1>2. CASE Next
  <2>. PICK s \in Samples, dt \in Gaps : sample' = s /\ Update(s, dt)
    BY <1>2 DEF Next, Tick
  <2>1. SUFFICES ASSUME HotCritical(s) PROVE state' = "CRITICAL"
    BY DEF HotCriticalMeansCritical, HotCritical
  <2>2. s.temp \in Nat /\ s.temp >= CriticalEnter
    BY <2>1, ReadingAssumption DEF HotCritical, Samples, NoReading
  <2>3. ~Cooled(s) /\ ~CooledCritical(s) /\ Hot(s)
    BY <2>2, ThresholdAssumption DEF Cooled, CooledCritical, Hot, NoReading
  <2>4. ~StepsDown(s, dt) /\ ~EntersThermal(s, dt) /\ ~EntersPressure(s, dt)
    BY <2>1, <2>3 DEF StepsDown, EntersThermal, EntersPressure
  <2>5. state # "CRITICAL" => EntersCritical(s)
    BY <2>1 DEF EntersCritical
  <2>6. ~EntersRecovery(s, dt)
    BY <2>3, <2>5 DEF EntersRecovery
  <2>7. CASE ToCritical(s, dt)
    BY <2>7 DEF ToCritical, Enter
  <2>8. CASE Stay(s, dt)
    BY <2>5, <2>8 DEF Stay
  <2>. QED
    BY <2>4, <2>6, <2>7, <2>8
       DEF Update, ToThermal, ToPressure, ToRecovery, ToNormal, StepDown
<1>. QED
  BY <1>1, <1>2

(* No hold, cooldown or budget ever delays CRITICAL. *)
THEOREM CriticalIsImmediate == Spec => []HotCriticalMeansCritical
<1>1. Init => HotCriticalMeansCritical
  BY DEF Init, HotCriticalMeansCritical, HotCritical
<1>. QED
  BY <1>1, CriticalInductive, TypeCorrect, PTL DEF Spec

------------------------------------------------------------------------------
(***************************************************************************)
(* The cooldown.  What is left of it when the policy sits in CRITICAL or   *)
(* in RECOVERY is bounded by the holds still ahead, so none is left when   *)
(* RECOVERY may escalate.                                                  *)
(***************************************************************************)
LEMMA MarginInductive ==
  ASSUME TypeOK, CooldownMargin, [Next]_vars
  PROVE  CooldownMargin'
<1>1. CASE UNCHANGED vars
  BY <1>1 DEF vars, CooldownMargin, HoldCoversCooldown
<1>2. CASE Next
  <2>. PICK s \in Samples, dt \in Gaps : sample' = s /\ Update(s, dt)
    BY <1>2 DEF Next, Tick
  <2>1. SUFFICES ASSUME 2 * MinHold >= Cooldown
                 PROVE  /\ state' \in {"PRESSURE", "THERMAL"} => cooldownLeft' = 0
                        /\ state' = "CRITICAL" =>
                             cooldownLeft' = 0 \/ cooldownLeft' + heldFor' <= Cooldown
                        /\ state' = "RECOVERY" =>
                             \/ cooldownLeft' = 0
                             \/ cooldownLeft' + MinHold + heldFor' <= Cooldown
    BY DEF CooldownMargin, HoldCoversCooldown
  <2>2. /\ state \in {"PRESSURE", "THERMAL"} => cooldownLeft = 0
        /\ state = "CRITICAL" => cooldownLeft = 0 \/ cooldownLeft + heldFor <= Cooldown
        /\ state = "RECOVERY" =>
             cooldownLeft = 0 \/ cooldownLeft + MinHold + heldFor <= Cooldown
    BY <2>1 DEF CooldownMargin, HoldCoversCooldown
  <2>3. /\ heldFor \in Nat /\ cooldownLeft \in 0..Cooldown /\ state \in States
        /\ MinHold \in Nat /\ Cooldown \in Nat /\ dt \in Nat
    BY TimingAssumption DEF TypeOK
  <2>4. /\ CooldownAfter(dt) \in 0..Cooldown
        /\ CooldownAfter(dt) = 0 \/ CooldownAfter(dt) + dt = cooldownLeft
        /\ Capped(heldFor + dt, MinHold) \in 0..MinHold
        /\ Capped(heldFor + dt, MinHold) <= heldFor + dt
    BY Timers
  <2>5. CASE ToCritical(s, dt)
    BY <2>3, <2>4, <2>5 DEF ToCritical, Enter
  <2>6. CASE ToThermal(s, dt) \/ ToPressure(s, dt)
    <3>1. CooldownAfter(dt) = 0
      BY <2>1, <2>2, <2>3, <2>4, <2>6
         DEF ToThermal, ToPressure, EntersThermal, EntersPressure, MayEscalate, HoldElapsed
    <3>2. cooldownLeft' = 0 /\ state' \in {"PRESSURE", "THERMAL"}
      BY <2>6, <3>1 DEF ToThermal, ToPressure, Enter
    <3>. QED
      BY <3>2
  <2>7. CASE ToRecovery(s, dt)
    <3>1. heldFor + dt >= MinHold /\ state \in {"PRESSURE", "THERMAL", "CRITICAL"}
      BY <2>7 DEF ToRecovery, EntersRecovery, HoldElapsed
    <3>2. CooldownAfter(dt) = 0 \/ CooldownAfter(dt) + MinHold <= Cooldown
      BY <2>2, <2>3, <2>4, <3>1
    <3>3. state' = "RECOVERY" /\ heldFor' = 0 /\ cooldownLeft' = CooldownAfter(dt)
      BY <2>7 DEF ToRecovery, Enter
    <3>. QED
      BY <2>3, <2>4, <3>2, <3>3
  <2>8. CASE ToNormal(s, dt)
    BY <2>8 DEF ToNormal, Enter
  <2>9. CASE StepDown(s, dt)
    <3>1. heldFor + dt >= MinHold /\ state = "RECOVERY" /\ state' = state
      BY <2>9 DEF StepDown, StepsDown, HoldElapsed
    <3>2. CooldownAfter(dt) = 0
      BY <2>1, <2>2, <2>3, <2>4, <3>1
    <3>3. cooldownLeft' = 0
      BY <2>9, <3>2 DEF StepDown
    <3>. QED
      BY <3>1, <3>3
  <2>10. CASE Stay(s, dt)
    <3>1. /\ state' = state
          /\ cooldownLeft' = CooldownAfter(dt)
          /\ heldFor' = Capped(heldFor + dt, MinHold)
      BY <2>10 DEF Stay
    <3>. QED
      BY <2>2, <2>3, <2>4, <3>1
  <2>. QED
    BY <2>5, <2>6, <2>7, <2>8, <2>9, <2>10 DEF Update
<1>. QED
  BY <1>1, <1>2

(* When two holds cover the cooldown, no path through CRITICAL shortens it. *)
THEOREM CooldownIsHonoured == Spec => []CooldownHonoured
<1>1. Init => CooldownMargin
  BY DEF Init, CooldownMargin
<1>2. CooldownMargin => CooldownHonoured
  BY DEF CooldownMargin, CooldownHonoured
<1>. QED
  BY <1>1, <1>2, MarginInductive, TypeCorrect, PTL DEF Spec

------------------------------------------------------------------------------
(***************************************************************************)
(* The load.                                                               *)
(***************************************************************************)

(* Only a step into RECOVERY or down its stages can raise the load, and it  *)
(* waits for the hold.                                                     *)
LEMMA WhoRaisesLoad ==
  ASSUME TypeOK, NEW s \in Samples, NEW dt \in Gaps, Update(s, dt),
         recoveryStep = 0 \/ state = "RECOVERY", LoadRises
  PROVE  /\ HoldElapsed(dt)
         /\ state' \notin Escalated
         /\ Cooled(s) \/ (state = "CRITICAL" /\ CooledCritical(s))
<1>. USE DEF LoadRises, Table, TableFor, RecoveryTable, Enter, Escalated
<1>1. CASE ToCritical(s, dt)
  BY <1>1 DEF ToCritical, TypeOK, States
<1>2. CASE ToThermal(s, dt)
  BY <1>2 DEF ToThermal, EntersThermal
<1>3. CASE ToPressure(s, dt)
  BY <1>3 DEF ToPressure, EntersPressure
<1>4. CASE ToRecovery(s, dt)
  BY <1>4 DEF ToRecovery, EntersRecovery
<1>5. CASE ToNormal(s, dt)
  BY <1>5 DEF ToNormal, StepsDown
<1>6. CASE StepDown(s, dt)
  BY <1>6 DEF StepDown, StepsDown
<1>7. CASE Stay(s, dt)
  BY <1>7 DEF Stay
<1>. QED
  BY <1>1, <1>2, <1>3, <1>4, <1>5, <1>6, <1>7 DEF Update

\* Outside RECOVERY the recovery step is at rest.
StepAtRest == recoveryStep = 0 \/ state = "RECOVERY"

LEMMA StepAtRestInductive == StepAtRest /\ [Next]_vars => StepAtRest'
  BY DEF StepAtRest, vars, Next, Tick, Update, ToCritical, ToThermal, ToPressure,
         ToRecovery, ToNormal, StepDown, StepsDown, Stay, Enter

(* The policy never gives load back while the sample is too hot for it. *)
THEOREM LoadRisesSafely == Spec => LoadRisesOnlyWhenCooled
<1>1. Init => StepAtRest
  BY DEF Init, StepAtRest
<1>2. ASSUME TypeOK, StepAtRest, [Next]_vars
      PROVE  [LoadRises => /\ state' \notin Escalated
                           /\ \/ Cooled(sample')
                              \/ state = "CRITICAL" /\ CooledCritical(sample')]_vars
  <2>. SUFFICES ASSUME LoadRises, Next
                PROVE  /\ state' \notin Escalated
                       /\ \/ Cooled(sample')
                          \/ state = "CRITICAL" /\ CooledCritical(sample')
    BY <1>2
  <2>. PICK s \in Samples, dt \in Gaps : sample' = s /\ Update(s, dt)
    BY DEF Next, Tick
  <2>. QED
    BY <1>2, WhoRaisesLoad DEF StepAtRest
<1>. QED
  BY <1>1, <1>2, StepAtRestInductive, TypeCorrect, PTL
     DEF Spec, LoadRisesOnlyWhenCooled

------------------------------------------------------------------------------
(***************************************************************************)
(* SchedulerPolicy implements SchedulerModes.                              *)
(***************************************************************************)

LEMMA ModesStep ==
  ASSUME TypeOK, [Next]_vars
  PROVE  [Modes!Next]_<<state, recoveryStep>>
<1>. USE DEF Modes!ToState, Modes!States, Modes!Escalated, Modes!LastRecoveryStep,
           LastRecoveryStep, States, Escalated, Enter
<1>1. CASE UNCHANGED vars
  BY <1>1 DEF vars
<1>2. CASE Next
  <2>. PICK s \in Samples, dt \in Gaps : Update(s, dt)
    BY <1>2 DEF Next, Tick
  <2>1. CASE ToCritical(s, dt)
    BY <2>1 DEF ToCritical, EntersCritical, Modes!Next, TypeOK
  <2>2. CASE ToThermal(s, dt)
    BY <2>2 DEF ToThermal, EntersThermal, Modes!Next
  <2>3. CASE ToPressure(s, dt)
    BY <2>3 DEF ToPressure, EntersPressure, Modes!Next
  <2>4. CASE ToRecovery(s, dt)
    BY <2>4 DEF ToRecovery, EntersRecovery, Modes!Next
  <2>5. CASE ToNormal(s, dt)
    <3>1. state = "RECOVERY" /\ recoveryStep = LastRecoveryStep
      BY <2>5 DEF ToNormal, StepsDown, HasStageLeft, TypeOK, LastRecoveryStep
    <3>. QED
      BY <2>5, <3>1 DEF ToNormal, Modes!Recovered, Modes!Next
  <2>6. CASE StepDown(s, dt)
    BY <2>6 DEF StepDown, StepsDown, HasStageLeft, Modes!StepDown, Modes!Next
  <2>7. CASE Stay(s, dt)
    BY <2>7 DEF Stay
  <2>. QED
    BY <2>1, <2>2, <2>3, <2>4, <2>5, <2>6, <2>7 DEF Update
<1>. QED
  BY <1>1, <1>2

(* What the control plane relies on of the scheduler, the policy does: its  *)
(* states follow one another as SchedulerModes allows.                     *)
THEOREM PolicyKeepsToModes == Spec => ImplementsModes
<1>1. Init => Modes!Init
  BY DEF Init, Modes!Init
<1>. QED
  BY <1>1, ModesStep, TypeCorrect, PTL DEF Spec, ImplementsModes, Modes!Spec

------------------------------------------------------------------------------
(***************************************************************************)
(* The gradual return of the load, on the observed policy.  The table      *)
(* changes only where the age of the state restarts, so it is at least as  *)
(* old as the state; and load rises only after the hold of the state.      *)
(***************************************************************************)
ObserverInv ==
  /\ raisedAfter = MinHold
  /\ tableAge \in 0..MinHold
  /\ heldFor <= tableAge

LEMMA ObserverInductive ==
  ASSUME TypeOK, StepAtRest, ObserverInv, [AuditTick]_<<vars, auditVars>>
  PROVE  ObserverInv'
<1>1. CASE UNCHANGED <<vars, auditVars>>
  BY <1>1 DEF vars, auditVars, ObserverInv
<1>2. CASE AuditTick
  <2>. PICK s \in Samples, dt \in Gaps : Update(s, dt) /\ Observe(dt)
    BY <1>2 DEF AuditTick
  <2>1. dt \in Nat /\ MinHold \in Nat /\ heldFor \in 0..MinHold
    BY TimingAssumption DEF TypeOK
  <2>2. heldFor' = 0 \/ (Table' = Table /\ heldFor' = Capped(heldFor + dt, MinHold))
    BY DEF Update, ToCritical, ToThermal, ToPressure, ToRecovery, ToNormal, StepDown,
           Stay, Enter, Table
  <2>3. tableAge' \in 0..MinHold
    BY <2>1, TimingAssumption DEF Observe, ObserverInv, Capped
  <2>4. heldFor' <= tableAge'
    <3>1. CASE heldFor' = 0
      BY <2>3, <3>1
    <3>2. CASE Table' = Table /\ heldFor' = Capped(heldFor + dt, MinHold)
      BY <2>1, <3>2 DEF Observe, ObserverInv, Capped
    <3>. QED
      BY <2>2, <3>1, <3>2
  <2>5. raisedAfter' = MinHold
    <3>1. CASE LoadRises
      <4>1. heldFor + dt >= MinHold
        BY <3>1, WhoRaisesLoad DEF StepAtRest, HoldElapsed
      <4>. QED
        BY <2>1, <3>1, <4>1 DEF Observe, ObserverInv, Capped
    <3>2. CASE ~LoadRises
      BY <3>2 DEF Observe, ObserverInv
    <3>. QED
      BY <3>1, <3>2
  <2>. QED
    BY <2>3, <2>4, <2>5 DEF ObserverInv
<1>. QED
  BY <1>1, <1>2

(* Every rise of load replaces a table that was in force for min_hold_ms.   *)
THEOREM LoadComesBackGradually == AuditSpec => []LoadRisesGradually
<1>1. AuditInit => TypeOK /\ StepAtRest /\ ObserverInv
  <2>. SUFFICES ASSUME AuditInit PROVE TypeOK /\ StepAtRest /\ ObserverInv
    OBVIOUS
  <2>1. TypeOK
    BY TypeInitial DEF AuditInit
  <2>2. StepAtRest
    BY DEF AuditInit, Init, StepAtRest
  <2>3. ObserverInv
    BY <2>1, TimingAssumption DEF AuditInit, ObserverInv, TypeOK
  <2>. QED
    BY <2>1, <2>2, <2>3
<1>2. [AuditTick]_<<vars, auditVars>> => [Next]_vars
  BY DEF AuditTick, Next, Tick, vars
<1>3. ObserverInv => LoadRisesGradually
  BY DEF ObserverInv, LoadRisesGradually
<1>. QED
  BY <1>1, <1>2, <1>3, TypeInductive, StepAtRestInductive, ObserverInductive, PTL
     DEF AuditSpec

------------------------------------------------------------------------------
(***************************************************************************)
(* The budget of escalations, on the observed policy.  An observed window  *)
(* of adjust_window_ms overlaps two of the policy's own: what it holds of  *)
(* the present one is counted in adjustments, what it holds of the one     *)
(* before was when that was the present one.                               *)
(***************************************************************************)
OfPresentWindow == {age \in recent : age <= windowAge}
OfWindowBefore == {age \in recent : age > windowAge}

BudgetInv ==
  /\ recent \subseteq 0..(AdjustWindow - 1)
  /\ Cardinality(OfPresentWindow) <= adjustments
  /\ Cardinality(OfPresentWindow) <= MaxAdjustments
  /\ Cardinality(OfWindowBefore) <= MaxAdjustments

LEMMA AgesAreFinite ==
  ASSUME NEW S, S \subseteq 0..(AdjustWindow - 1)
  PROVE  /\ IsFiniteSet(S) /\ Cardinality(S) \in Nat
         /\ \A T \in SUBSET S : IsFiniteSet(T) /\ Cardinality(T) \in Nat
                                /\ Cardinality(T) <= Cardinality(S)
<1>1. IsFiniteSet(0..(AdjustWindow - 1))
  BY FS_Interval, TimingAssumption
<1>2. IsFiniteSet(S)
  BY <1>1, FS_Subset
<1> QED
  BY <1>2, FS_Subset, FS_CardinalityType

\* Growing older makes no escalation into two.
LEMMA OlderAreNoMore ==
  ASSUME NEW S, S \subseteq 0..(AdjustWindow - 1), NEW dt \in Nat
  PROVE  LET older == {age + dt : age \in S}
         IN  IsFiniteSet(older) /\ Cardinality(older) <= Cardinality(S)
<1> DEFINE older == {age + dt : age \in S}
           f == [age \in S |-> age + dt]
<1>1. f \in Surjection(S, older)
  BY DEF Surjection
<1> QED
  BY <1>1, AgesAreFinite, FS_Surjection

\* What the set of a window becomes, given the set it comes from.
LEMMA CarriedOver ==
  ASSUME NEW S, S \subseteq 0..(AdjustWindow - 1), NEW dt \in Nat,
         NEW T, T \subseteq {age + dt : age \in S}
  PROVE  IsFiniteSet(T) /\ Cardinality(T) \in Nat /\ Cardinality(T) <= Cardinality(S)
<1> DEFINE older == {age + dt : age \in S}
<1>1. IsFiniteSet(older) /\ Cardinality(older) <= Cardinality(S)
  BY OlderAreNoMore
<1>2. IsFiniteSet(T) /\ Cardinality(T) <= Cardinality(older)
  BY <1>1, FS_Subset
<1>3. Cardinality(T) \in Nat /\ Cardinality(older) \in Nat /\ Cardinality(S) \in Nat
  BY <1>1, <1>2, AgesAreFinite, FS_CardinalityType
<1> QED
  BY <1>1, <1>2, <1>3

LEMMA ThrottlingIsPaid ==
  ASSUME TypeOK, NEW s \in Samples, NEW dt \in Gaps, Update(s, dt)
  PROVE  /\ adjustments' \in Nat /\ adjustments' >= Spent(dt)
         /\ Throttles => Spent(dt) < MaxAdjustments /\ adjustments' = Spent(dt) + 1
         /\ RollWindow(dt)
<1>1. Spent(dt) \in Nat
  BY Timers
<1> USE <1>1 DEF Throttles, Enter, Escalated
<1>2. CASE ToCritical(s, dt)
  BY <1>2 DEF ToCritical
<1>3. CASE ToThermal(s, dt)
  BY <1>3 DEF ToThermal, EntersThermal, MayEscalate, BudgetOk
<1>4. CASE ToPressure(s, dt)
  BY <1>4 DEF ToPressure, EntersPressure, MayEscalate, BudgetOk
<1>5. CASE ToRecovery(s, dt) \/ ToNormal(s, dt)
  BY <1>5 DEF ToRecovery, ToNormal
<1>6. CASE StepDown(s, dt) \/ Stay(s, dt)
  BY <1>6 DEF StepDown, Stay
<1> QED
  BY <1>2, <1>3, <1>4, <1>5, <1>6 DEF Update

LEMMA BudgetInductive ==
  ASSUME TypeOK, BudgetInv, [AuditTick]_<<vars, auditVars>>
  PROVE  BudgetInv'
<1>1. CASE UNCHANGED <<vars, auditVars>>
  BY <1>1 DEF vars, auditVars, BudgetInv, OfPresentWindow, OfWindowBefore
<1>2. CASE AuditTick
  <2>. PICK s \in Samples, dt \in Gaps : Update(s, dt) /\ Observe(dt)
    BY <1>2 DEF AuditTick
  <2>. DEFINE Older(S) == {age + dt : age \in S}
              New == IF Throttles THEN {0} ELSE {}
  <2>1. /\ dt \in Nat /\ dt > 0 /\ AdjustWindow \in Nat /\ AdjustWindow > 0
        /\ windowAge \in Nat /\ adjustments \in Nat /\ MaxAdjustments \in Nat
    BY TimingAssumption DEF TypeOK
  <2>2. recent' = {age + dt : age \in {a \in recent : a + dt < AdjustWindow}} \union New
    BY DEF Observe
  <2>3. /\ adjustments' \in Nat /\ adjustments' >= Spent(dt)
        /\ Throttles => Spent(dt) < MaxAdjustments /\ adjustments' = Spent(dt) + 1
        /\ RollWindow(dt)
    BY ThrottlingIsPaid
  <2>4. recent \subseteq 0..(AdjustWindow - 1)
    BY DEF BudgetInv
  <2>5. recent' \subseteq 0..(AdjustWindow - 1)
    BY <2>1, <2>2, <2>4
  <2>6. /\ OfPresentWindow \subseteq 0..(AdjustWindow - 1)
        /\ OfWindowBefore \subseteq 0..(AdjustWindow - 1)
    BY <2>4 DEF OfPresentWindow, OfWindowBefore
  <2>7. /\ Cardinality(OfPresentWindow) \in Nat /\ Cardinality(OfWindowBefore) \in Nat
        /\ Cardinality(OfPresentWindow) <= adjustments
        /\ Cardinality(OfPresentWindow) <= MaxAdjustments
        /\ Cardinality(OfWindowBefore) <= MaxAdjustments
    BY <2>6, AgesAreFinite DEF BudgetInv
  <2>8. CASE ~WindowRolls(dt)
    <3>1. windowAge' = windowAge + dt /\ Spent(dt) = adjustments
      BY <2>3, <2>8 DEF RollWindow, Spent
    <3>2. OfWindowBefore' \subseteq Older(OfWindowBefore)
      BY <2>1, <2>2, <2>4, <3>1 DEF OfWindowBefore
    <3>3. Cardinality(OfWindowBefore') <= MaxAdjustments
      <4>. PICK T : T = OfWindowBefore'
        OBVIOUS
      <4>1. Cardinality(T) \in Nat /\ Cardinality(T) <= Cardinality(OfWindowBefore)
        BY <2>1, <2>6, <3>2, CarriedOver
      <4>. QED
        BY <2>1, <2>7, <4>1
    <3>4. PICK T : T = OfPresentWindow' \ New
      OBVIOUS
    <3>5. T \subseteq Older(OfPresentWindow)
      BY <2>1, <2>2, <2>4, <3>1, <3>4 DEF OfPresentWindow
    <3>6. /\ IsFiniteSet(T) /\ Cardinality(T) \in Nat
          /\ Cardinality(T) <= Cardinality(OfPresentWindow)
      BY <2>1, <2>6, <3>5, CarriedOver
    <3>7. CASE Throttles
      <4>1. OfPresentWindow' \subseteq T \union {0}
        BY <3>4, <3>7
      <4>2. /\ IsFiniteSet(T \union {0}) /\ Cardinality(T \union {0}) \in Nat
            /\ Cardinality(T \union {0}) <= Cardinality(T) + 1
        <5>1. /\ IsFiniteSet(T \union {0})
              /\ Cardinality(T \union {0}) =
                   IF 0 \in T THEN Cardinality(T) ELSE Cardinality(T) + 1
          BY <3>6, FS_AddElement
        <5>. QED
          BY <3>6, <5>1
      <4>3. /\ Cardinality(OfPresentWindow') <= Cardinality(T \union {0})
            /\ Cardinality(OfPresentWindow') \in Nat
        BY <4>1, <4>2, FS_Subset, FS_CardinalityType
      <4>4. Cardinality(OfPresentWindow') <= adjustments + 1
        BY <2>1, <2>7, <3>6, <4>2, <4>3
      <4>. QED
        BY <2>1, <2>3, <2>5, <3>1, <3>3, <3>7, <4>3, <4>4 DEF BudgetInv
    <3>8. CASE ~Throttles
      <4>1. OfPresentWindow' = T
        BY <3>4, <3>8
      <4>. QED
        BY <2>1, <2>3, <2>5, <2>7, <3>1, <3>3, <3>6, <4>1 DEF BudgetInv
    <3>. QED
      BY <3>7, <3>8
  <2>9. CASE WindowRolls(dt)
    <3>1. windowAge' = 0 /\ Spent(dt) = 0 /\ windowAge + dt >= AdjustWindow
      BY <2>3, <2>9 DEF RollWindow, Spent, WindowRolls
    <3>2. OfWindowBefore' \subseteq Older(OfPresentWindow)
      BY <2>1, <2>2, <2>4, <3>1 DEF OfWindowBefore, OfPresentWindow
    <3>3. Cardinality(OfWindowBefore') <= MaxAdjustments
      <4>. PICK T : T = OfWindowBefore'
        OBVIOUS
      <4>1. Cardinality(T) \in Nat /\ Cardinality(T) <= Cardinality(OfPresentWindow)
        BY <2>1, <2>6, <3>2, CarriedOver
      <4>. QED
        BY <2>1, <2>7, <4>1
    <3>4. OfPresentWindow' \subseteq New
      BY <2>1, <2>2, <2>4, <3>1 DEF OfPresentWindow
    <3>5. CASE Throttles
      <4>1. OfPresentWindow' \subseteq {0}
        BY <3>4, <3>5
      <4>2. IsFiniteSet({0}) /\ Cardinality({0}) = 1
        BY FS_Singleton
      <4>3. Cardinality(OfPresentWindow') <= 1 /\ Cardinality(OfPresentWindow') \in Nat
        BY <4>1, <4>2, FS_Subset, FS_CardinalityType
      <4>. QED
        BY <2>1, <2>3, <2>5, <3>1, <3>3, <3>5, <4>3 DEF BudgetInv
    <3>6. CASE ~Throttles
      <4>1. Cardinality(OfPresentWindow') = 0
        BY <3>4, <3>6, FS_EmptySet
      <4>. QED
        BY <2>1, <2>3, <2>5, <3>3, <4>1 DEF BudgetInv
    <3>. QED
      BY <3>5, <3>6
  <2>. QED
    BY <2>8, <2>9
<1>. QED
  BY <1>1, <1>2

LEMMA BudgetBounds == TypeOK /\ BudgetInv => SlidingBudget
<1> SUFFICES ASSUME TypeOK, BudgetInv PROVE Cardinality(recent) <= 2 * MaxAdjustments
  BY DEF SlidingBudget
<1>1. recent \subseteq 0..(AdjustWindow - 1) /\ windowAge \in Nat
  BY DEF BudgetInv, TypeOK
<1>2. /\ recent = OfPresentWindow \union OfWindowBefore
      /\ OfPresentWindow \intersect OfWindowBefore = {}
  <2>1. \A age \in recent : age \in Int /\ (age <= windowAge \/ age > windowAge)
    BY <1>1
  <2>2. \A age \in recent : ~(age <= windowAge /\ age > windowAge)
    BY <1>1
  <2> QED
    BY <2>1, <2>2, Zenon DEF OfPresentWindow, OfWindowBefore
<1>3. /\ IsFiniteSet(OfPresentWindow) /\ Cardinality(OfPresentWindow) \in Nat
      /\ IsFiniteSet(OfWindowBefore) /\ Cardinality(OfWindowBefore) \in Nat
  BY <1>1, <1>2, AgesAreFinite
<1>4. Cardinality(recent) =
        Cardinality(OfPresentWindow) + Cardinality(OfWindowBefore) - Cardinality({})
  BY <1>2, <1>3, FS_Union
<1>5. Cardinality({}) = 0
  BY FS_EmptySet
<1>6. Cardinality(OfPresentWindow) <= MaxAdjustments
      /\ Cardinality(OfWindowBefore) <= MaxAdjustments
  BY DEF BudgetInv
<1>7. MaxAdjustments \in Nat
  BY TimingAssumption
<1> QED
  BY <1>3, <1>4, <1>5, <1>6, <1>7

(* The policy counts in windows of its own, and starts a new one with the   *)
(* update that finds the old one over; still no stretch of that length      *)
(* holds more non-critical escalations than two budgets.                    *)
THEOREM BudgetHoldsInEveryStretch == AuditSpec => []SlidingBudget
<1>1. AuditInit => TypeOK /\ BudgetInv
  <2>. SUFFICES ASSUME AuditInit PROVE TypeOK /\ BudgetInv
    OBVIOUS
  <2>1. TypeOK /\ recent = {} /\ adjustments = 0
    BY TypeInitial DEF AuditInit, Init
  <2>2. OfPresentWindow = {} /\ OfWindowBefore = {}
    BY <2>1 DEF OfPresentWindow, OfWindowBefore
  <2>. QED
    BY <2>1, <2>2, FS_EmptySet, TimingAssumption DEF BudgetInv
<1>2. [AuditTick]_<<vars, auditVars>> => [Next]_vars
  BY DEF AuditTick, Next, Tick, vars
<1>. QED
  BY <1>1, <1>2, TypeInductive, BudgetInductive, BudgetBounds, PTL DEF AuditSpec
=============================================================================
