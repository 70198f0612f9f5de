---------------------------- MODULE SchedulerAudit ----------------------------
(***************************************************************************)
(* SchedulerPolicy with history: what an observer of the policy's output   *)
(* would write down.  Nothing here restricts the policy.                   *)
(***************************************************************************)
EXTENDS SchedulerPolicy, FiniteSets

VARIABLES
  recent,      \* ages of the PRESSURE and THERMAL escalations of the last AdjustWindow
  tableAge,    \* age of the table now in force, saturating at MinHold
  raisedAfter  \* how long the table before the last rise of load was in force

auditVars == <<recent, tableAge, raisedAfter>>

AuditInit ==
  /\ Init
  /\ recent = {}
  /\ tableAge = MinHold
  /\ raisedAfter = MinHold

Throttles == state' # state /\ state' \in {"PRESSURE", "THERMAL"}

Observe(dt) ==
  /\ recent' = {age + dt : age \in {a \in recent : a + dt < AdjustWindow}}
                 \union (IF Throttles THEN {0} ELSE {})
  /\ tableAge' = IF Table' # Table THEN 0 ELSE Capped(tableAge + dt, MinHold)
  /\ raisedAfter' = IF LoadRises THEN Capped(tableAge + dt, MinHold) ELSE raisedAfter

AuditTick ==
  \E s \in Samples, dt \in Gaps : sample' = s /\ Update(s, dt) /\ Observe(dt)

AuditSpec ==
  /\ AuditInit
  /\ [][AuditTick]_<<vars, auditVars>>
  /\ WF_<<vars, auditVars>>(AuditTick)

------------------------------------------------------------------------------
\* Load comes back gradually: whichever states the policy passed through, the
\* table a rise of load replaces had been in force for min_hold_ms.
LoadRisesGradually == raisedAfter = MinHold

\* The fixed windows of the budget bound every sliding window too, at twice
\* the budget: no stretch of adjust_window_ms holds more non-critical
\* escalations than two neighbouring windows grant.
SlidingBudget == Cardinality(recent) <= 2 * MaxAdjustments
=============================================================================
