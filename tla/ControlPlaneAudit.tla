--------------------------- MODULE ControlPlaneAudit ---------------------------
(***************************************************************************)
(* ControlPlane with history: what clients were told, and what happened    *)
(* under their operations.  Nothing here restricts the control plane.      *)
(***************************************************************************)
EXTENDS ControlPlane, Integers

VARIABLES
  disturbed, \* the main loop moved by itself during the operation under way
  before,    \* the configuration the operation found
  promised   \* what each stream was set to, as far as clients were told

auditVars == <<disturbed, before, promised>>

Free == -1   \* of an interval: the scheduler's to choose

AuditInit ==
  /\ Init
  /\ disturbed = FALSE
  /\ before = Nothing
  /\ promised = [s \in Streams |-> [priority |-> InitialPriority[s], interval |-> Free]]

Begins == op = Idle /\ op' # Idle
RollsBack == ApplyRollback
Acknowledges == VerifyWrite /\ ReadBackOk

\* The scheduler has chosen the stream's interval anew, or a rebuild reset it.
Rechosen(s) ==
  \/ applied'[s] # applied[s]
  \/ mode'[s] = "CONNECTING" /\ mode[s] # "CONNECTING"

Promise(s) ==
  CASE RollsBack -> [priority |-> op.target.priority[s], interval |-> Free]
    [] Acknowledges /\ s = op.request.stream /\ op.request.kind = "interval" ->
         [promised[s] EXCEPT !.interval = op.request.value]
    [] Acknowledges /\ s = op.request.stream /\ op.request.kind = "priority" ->
         [promised[s] EXCEPT !.priority = op.request.value]
    [] Rechosen(s) /\ ~RollsBack -> [promised[s] EXCEPT !.interval = Free]
    [] OTHER -> promised[s]

Observe ==
  /\ disturbed' = (op' # Idle /\ op # Idle /\ (disturbed \/ op' = op))
  /\ before' = IF op' = Idle THEN Nothing ELSE IF Begins THEN Config ELSE before
  /\ promised' = [s \in Streams |-> Promise(s)]

AuditSpec == AuditInit /\ [][Next /\ Observe]_<<vars, auditVars>>

------------------------------------------------------------------------------
(* Properties *)

\* Between operations every stream is what clients were last told: an automatic
\* rollback of one stream's failed write takes back no acknowledged change of
\* another, and an interval a client set stays until the scheduler chooses anew,
\* the stream is rebuilt, or a snapshot is rolled back to.
Acknowledged ==
  op = Idle =>
    \A s \in Streams :
      /\ priority[s] = promised[s].priority
      /\ promised[s].interval \in {Free, interval[s]}

\* In CRITICAL a write that nothing disturbed takes no stream below the interval
\* that CRITICAL asks for, neither when it is applied nor when it is undone.
WritesRespectCritical ==
  [][/\ ApplyInterval \/ ApplyPriority \/ ApplyRestart \/ Undo
     /\ state = "CRITICAL" /\ ~disturbed
     => \A s \in Streams :
          interval'[s] < interval[s] => interval'[s] >= Table[priority'[s]]]_vars

\* A write that is answered with an error, and that nothing disturbed, leaves the
\* configuration it found.
FailedWriteLeavesNoTrace ==
  [][/\ op.step # "idle" /\ op.request # Rollback /\ op' = Idle
     /\ ~Acknowledges /\ ~disturbed
     => Config' = before]_vars

\* A rollback that nothing disturbed is verified, unless it moves a stream to
\* another tier of the table: then the scheduler chooses the stream's interval anew.
RollbackIsVerified ==
  [][/\ VerifyRollback /\ op' = Idle /\ ~disturbed
     /\ \A s \in Streams : Table[before.priority[s]] = Table[op.target.priority[s]]
     => Restored(op.checking)]_vars
=============================================================================
