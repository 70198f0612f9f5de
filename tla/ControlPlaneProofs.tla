--------------------------- MODULE ControlPlaneProofs ---------------------------
(***************************************************************************)
(* Safety of the control plane, for any number of streams and snapshots,   *)
(* any requests, and any behaviour of the scheduler and the reconnects     *)
(* that SchedulerModes and StreamModes allow.                              *)
(***************************************************************************)
EXTENDS ControlPlaneAudit, SequenceTheorems, TLAPS

Tables == [high : Nat, normal : Nat, low : Nat]

LEMMA TablesAreTables == \A st, step : TableFor(st, step) \in Tables
  BY DEF TableFor, RecoveryTable, Tables

LEMMA TierIsInterval == \A t \in Tables, p \in Priorities : t[p] \in Nat
  BY DEF Tables, Priorities

\* What apply_scheduler_intervals leaves, whatever it starts from.
LEMMA Resyncs ==
  ASSUME NEW st, NEW step, NEW tiers \in [Streams -> Priorities],
         NEW running \in [Streams -> Nat],
         ApplySchedulerIntervals(TableFor(st, step), tiers, running)
  PROVE  /\ applied' \in [Streams -> Nat]
         /\ interval' \in [Streams -> Nat]
         /\ \A s \in Streams : applied'[s] = TableFor(st, step)[tiers[s]]
<1>1. \A s \in Streams : TableFor(st, step)[tiers[s]] \in Nat
  BY TablesAreTables, TierIsInterval
<1> QED
  BY <1>1 DEF ApplySchedulerIntervals

\* Saving keeps the newest snapshots, the one just taken among them.
LEMMA SaveKeepsNewest ==
  ASSUME TypeOK, SaveSnapshot
  PROVE  /\ snapshots' \in Seq(Configs)
         /\ Len(snapshots') <= MaxSnapshots
         /\ snapshots' # <<>>
         /\ Head(snapshots') = Config
<1> DEFINE all == <<Config>> \o snapshots
           n == IF Len(all) < MaxSnapshots THEN Len(all) ELSE MaxSnapshots
<1>1. Config \in Configs
  BY DEF TypeOK, Config, Configs
<1>2. /\ all \in Seq(Configs)
      /\ Len(all) = 1 + Len(snapshots)
      /\ all[1] = Config
  BY <1>1 DEF TypeOK
<1>3. n \in 1..Len(all) /\ n <= MaxSnapshots
  BY <1>2, ControlAssumption DEF TypeOK
<1>4. snapshots' = SubSeq(all, 1, n)
  BY DEF SaveSnapshot, Newest
<1>5. /\ SubSeq(all, 1, n) \in Seq(Configs)
      /\ Len(SubSeq(all, 1, n)) = n
      /\ SubSeq(all, 1, n)[1] = all[1]
  BY <1>2, <1>3
<1> HIDE DEF all, n
<1>6. n > 0 /\ n \in Nat
  BY <1>2, <1>3
<1> QED
  BY <1>2, <1>3, <1>4, <1>5, <1>6

------------------------------------------------------------------------------
LEMMA InitHolds == Init => TypeOK /\ CacheFollowsTable
<1> SUFFICES ASSUME Init PROVE TypeOK /\ CacheFollowsTable
  OBVIOUS
<1>1. priority \in [Streams -> Priorities] /\ mode \in [Streams -> StreamStates]
  BY ControlAssumption DEF Init, StreamStates
<1>2. snapshots \in Seq(Configs) /\ Len(snapshots) <= MaxSnapshots
  BY ControlAssumption DEF Init
<1>3. op \in [step : Steps, request : Requests \union {Rollback},
              target : Configs \union {Nothing}, checking : 0..StreamCount]
  BY ControlAssumption DEF Init, Idle, Steps
<1>4. TypeOK
  BY <1>1, <1>2, <1>3 DEF Init, TypeOK, Scheduler!Init, States, LastRecoveryStep, Idle
<1>5. CacheFollowsTable
  BY <1>1 DEF Init, CacheFollowsTable, Scheduler!Init, Table, TableFor, Priorities
<1> QED
  BY <1>4, <1>5

------------------------------------------------------------------------------
(* The main loop *)

Inv == TypeOK /\ CacheFollowsTable

LEMMA ModesType ==
  ASSUME TypeOK, Scheduler!Next
  PROVE  state' \in States /\ recoveryStep' \in 0..LastRecoveryStep
  BY DEF TypeOK, Scheduler!Next, Scheduler!ToState, Scheduler!StepDown,
         Scheduler!Recovered, Scheduler!LastRecoveryStep, Scheduler!Escalated,
         Scheduler!States, States, LastRecoveryStep

LEMMA SchedulerTickKeeps == ASSUME Inv, SchedulerTick PROVE Inv'
<1>1. state' \in States /\ recoveryStep' \in 0..LastRecoveryStep
  BY ModesType DEF SchedulerTick, Inv
<1>2. /\ applied' \in [Streams -> Nat]
      /\ interval' \in [Streams -> Nat]
      /\ \A s \in Streams : applied'[s] = TableFor(state', recoveryStep')[priority[s]]
  <2>1. PICK st, step : st = state' /\ step = recoveryStep'
    OBVIOUS
  <2>2. ApplySchedulerIntervals(TableFor(st, step), priority, interval)
    BY <2>1 DEF SchedulerTick
  <2>3. priority \in [Streams -> Priorities] /\ interval \in [Streams -> Nat]
    BY DEF Inv, TypeOK
  <2> QED
    BY <2>1, <2>2, <2>3, Resyncs
<1> QED
  BY <1>1, <1>2 DEF SchedulerTick, Inv, TypeOK, CacheFollowsTable, Table

LEMMA StreamMovesKeeps == ASSUME Inv, NEW s \in Rtsp, StreamMoves(s) PROVE Inv'
<1>1. s \in Streams
  BY ControlAssumption
<1>2. mode' \in [Streams -> StreamStates] /\ interval' \in [Streams -> Nat]
  BY <1>1 DEF StreamMoves, Inv, TypeOK
<1> QED
  BY <1>2 DEF StreamMoves, Inv, TypeOK, CacheFollowsTable, Table

------------------------------------------------------------------------------
(* The control server *)

\* Restoring a snapshot keeps the scheduler's belief and its table together.
LEMMA RestoreKeeps ==
  ASSUME Inv, NEW c \in Configs, ApplySnapshot(c)
  PROVE  /\ state' \in States
         /\ recoveryStep' \in 0..LastRecoveryStep
         /\ priority' \in [Streams -> Priorities]
         /\ applied' \in [Streams -> Nat]
         /\ interval' \in [Streams -> Nat]
         /\ mode' \in [Streams -> StreamStates]
         /\ snapshots' = snapshots
         /\ CacheFollowsTable'
<1>1. c.priority \in [Streams -> Priorities] /\ c.interval \in [Streams -> Nat]
  BY DEF Configs
<1>2. /\ applied' \in [Streams -> Nat]
      /\ interval' \in [Streams -> Nat]
      /\ \A s \in Streams : applied'[s] = TableFor(state, recoveryStep)[c.priority[s]]
  BY <1>1, Resyncs DEF ApplySnapshot, Table
<1> QED
  BY <1>1, <1>2 DEF ApplySnapshot, Inv, TypeOK, CacheFollowsTable, Table

LEMMA RequestType ==
  ASSUME NEW r \in Requests
  PROVE  /\ r.kind \in {"interval", "priority", "restart"}
         /\ r.stream \in Streams
         /\ r.kind = "interval" => r.value \in Nat
         /\ r.kind = "priority" => r.value \in Priorities
         /\ r # Rollback
<1>1. r \in Writes
  BY ControlAssumption
<1> QED
  BY <1>1 DEF Writes, Rollback

LEMMA WriteUnderWay ==
  ASSUME TypeOK, op.request.kind \in {"interval", "priority", "restart"}
  PROVE  op.request \in Requests
  BY DEF TypeOK, Rollback

\* What an operation may do to itself: go on to a step, or end.
OpType ==
  [step : Steps, request : Requests \union {Rollback},
   target : Configs \union {Nothing}, checking : 0..StreamCount]

LEMMA OpMoves ==
  ASSUME op \in OpType
  PROVE  /\ \A step \in Steps : GoTo(step) =>
              /\ op' \in OpType /\ op'.step = step
              /\ op'.request = op.request /\ op'.target = op.target
         /\ Answer => op' \in OpType /\ op'.step = "idle"
<1>1. Answer => op' \in OpType /\ op'.step = "idle"
  BY ControlAssumption DEF OpType, Answer, Idle, Steps
<1>2. ASSUME NEW step \in Steps, GoTo(step)
      PROVE  /\ op' \in OpType /\ op'.step = step
             /\ op'.request = op.request /\ op'.target = op.target
  BY <1>2 DEF OpType, GoTo
<1> QED
  BY <1>1, <1>2

\* A step that does not visit the main loop need only care for the rest.
LEMMA Unvisited ==
  ASSUME Inv, UNCHANGED loopVars,
         snapshots' \in Seq(Configs), Len(snapshots') <= MaxSnapshots,
         op' \in OpType,
         op'.step \in {"apply", "verify", "undo"} => snapshots' # <<>>,
         op'.step # "idle" /\ op'.request = Rollback => op'.target \in Configs
  PROVE  Inv'
  BY DEF Inv, TypeOK, OpType, CacheFollowsTable, Table, loopVars

LEMMA AskKeeps == ASSUME Inv, NEW r \in Requests, Ask(r) PROVE Inv'
<1> DEFINE step == IF RaisesLoad(r) THEN "safety" ELSE "capture"
<1>1. op' = [step |-> step, request |-> r, target |-> Nothing, checking |-> 0]
  BY DEF Ask, Idle
<1>2. op' \in OpType /\ op'.step \in {"safety", "capture"}
  BY <1>1, ControlAssumption DEF OpType, Steps
<1>3. op'.request # Rollback
  BY <1>1, RequestType
<1> QED
  BY <1>2, <1>3, Unvisited DEF Ask, Inv, TypeOK

LEMMA AskRollbackKeeps == ASSUME Inv, AskRollback PROVE Inv'
<1>1. PICK i \in DOMAIN snapshots :
        op' = [Idle EXCEPT !.step = "capture", !.target = snapshots[i]]
  BY DEF AskRollback
<1>2. snapshots[i] \in Configs
  BY <1>1 DEF Inv, TypeOK
<1>3. op' = [step |-> "capture", request |-> Rollback, target |-> snapshots[i], checking |-> 0]
  BY <1>1 DEF Idle
<1>4. op' \in OpType /\ op'.step = "capture" /\ op'.target \in Configs
  BY <1>2, <1>3, ControlAssumption DEF OpType, Steps
<1> QED
  BY <1>4, Unvisited DEF AskRollback, Inv, TypeOK

\* The other steps either end the operation or take it to its next step.
LEMMA BetweenVisitsKeep ==
  ASSUME Inv, CheckSafety \/ TakeSnapshot \/ Capture \/ VerifyWrite \/ VerifyRollback
  PROVE  Inv'
<1>1. op \in OpType
  BY DEF Inv, TypeOK, OpType
<1>2. CASE TakeSnapshot
  BY <1>1, <1>2, SaveKeepsNewest, Unvisited DEF TakeSnapshot, Inv, TypeOK
<1>3. CASE CheckSafety
  <2>1. (Answer \/ GoTo("capture")) /\ op.step = "safety"
    BY <1>3 DEF CheckSafety
  <2>2. op' \in OpType /\ op'.step \in {"idle", "capture"}
    BY <1>1, <2>1, OpMoves DEF Steps
  <2>3. op'.step # "idle" => op'.request = op.request /\ op'.target = op.target
    BY <1>1, <2>1, OpMoves DEF Steps
  <2> QED
    BY <1>3, <2>1, <2>2, <2>3, Unvisited DEF CheckSafety, Inv, TypeOK
<1>4. CASE Capture
  <2>1. /\ op.step = "capture"
        /\ (SaveSnapshot /\ GoTo("apply")) \/ (UNCHANGED snapshots /\ Answer)
    BY <1>4 DEF Capture
  <2>2. op' \in OpType /\ (op'.step # "idle" => SaveSnapshot)
    BY <1>1, <2>1, OpMoves DEF Steps
  <2>3. op'.step # "idle" => op'.request = op.request /\ op'.target = op.target
    BY <1>1, <2>1, OpMoves DEF Steps
  <2>4. snapshots' \in Seq(Configs) /\ Len(snapshots') <= MaxSnapshots
    BY <2>1, SaveKeepsNewest DEF Inv, TypeOK
  <2>5. op'.step # "idle" => snapshots' # <<>>
    BY <2>2, SaveKeepsNewest DEF Inv
  <2> QED
    BY <1>4, <2>1, <2>2, <2>3, <2>4, <2>5, Unvisited DEF Capture, Inv, TypeOK
<1>5. CASE VerifyWrite
  <2>1. (Answer \/ GoTo("undo")) /\ op.step = "verify"
    BY <1>5 DEF VerifyWrite, At
  <2>2. op' \in OpType
    BY <1>1, <2>1, OpMoves DEF Steps
  <2>3. op'.step # "idle" => op'.request = op.request /\ op'.target = op.target
    BY <1>1, <2>1, OpMoves DEF Steps
  <2> QED
    BY <1>5, <2>1, <2>2, <2>3, Unvisited DEF VerifyWrite, Inv, TypeOK
<1>6. CASE VerifyRollback
  <2>1. CASE Answer
    BY <1>1, <1>6, <2>1, OpMoves, Unvisited DEF VerifyRollback, Inv, TypeOK
  <2>2. CASE op' = [op EXCEPT !.checking = @ + 1] /\ op.checking < StreamCount
    <3>1. op.checking + 1 \in 0..StreamCount
      BY <1>1, <2>2, ControlAssumption DEF OpType
    <3>2. /\ op' \in OpType /\ op'.step = op.step
          /\ op'.request = op.request /\ op'.target = op.target
      BY <1>1, <2>2, <3>1 DEF OpType
    <3> QED
      BY <1>6, <3>2, Unvisited DEF VerifyRollback, Inv, TypeOK
  <2> QED
    BY <1>6, <2>1, <2>2 DEF VerifyRollback
<1> QED
  BY <1>2, <1>3, <1>4, <1>5, <1>6

------------------------------------------------------------------------------
(* The visits that apply or undo something. *)

\* After a visit the operation is at another step, with the same request.
LEMMA VisitKeeps ==
  ASSUME Inv, op.step \in {"apply", "undo"},
         state' \in States, recoveryStep' \in 0..LastRecoveryStep,
         priority' \in [Streams -> Priorities],
         applied' \in [Streams -> Nat], interval' \in [Streams -> Nat],
         mode' \in [Streams -> StreamStates],
         snapshots' = snapshots, CacheFollowsTable',
         op' \in OpType,
         op'.step = "idle" \/ (op'.request = op.request /\ op'.target = op.target)
  PROVE  Inv'
  BY DEF Inv, TypeOK, OpType

LEMMA ApplyIntervalKeeps == ASSUME Inv, ApplyInterval PROVE Inv'
<1>1. op.request \in Requests /\ op.request.kind = "interval"
  BY WriteUnderWay DEF ApplyInterval, At, Inv
<1>2. op.request.stream \in Streams /\ op.request.value \in Nat
  BY <1>1, RequestType
<1>3. interval' \in [Streams -> Nat]
  BY <1>2 DEF ApplyInterval, Inv, TypeOK
<1>4. op' \in OpType /\ op'.request = op.request /\ op'.target = op.target
  BY OpMoves DEF ApplyInterval, Inv, TypeOK, OpType, Steps
<1>5. op.step = "apply" /\ CacheFollowsTable'
  BY DEF ApplyInterval, At, Inv, CacheFollowsTable, Table
<1> QED
  BY <1>3, <1>4, <1>5, VisitKeeps DEF ApplyInterval, Inv, TypeOK

LEMMA ApplyPriorityKeeps == ASSUME Inv, ApplyPriority PROVE Inv'
<1> DEFINE s == op.request.stream
<1>1. op.request \in Requests /\ op.request.kind = "priority"
  BY WriteUnderWay DEF ApplyPriority, At, Inv
<1>2. s \in Streams /\ op.request.value \in Priorities
  BY <1>1, RequestType
<1>3. op.step = "apply" /\ op' \in OpType /\ op'.request = op.request /\ op'.target = op.target
  BY OpMoves DEF ApplyPriority, At, Inv, TypeOK, OpType, Steps
<1>4. /\ priority' \in [Streams -> Priorities]
      /\ applied' \in [Streams -> Nat] /\ interval' \in [Streams -> Nat]
      /\ CacheFollowsTable'
  <2>1. CASE priority[s] = op.request.value
    BY <2>1 DEF ApplyPriority, Inv, TypeOK, CacheFollowsTable, Table
  <2>2. CASE priority[s] # op.request.value
    <3>1. PICK tiers : tiers = [priority EXCEPT ![s] = op.request.value]
      OBVIOUS
    <3>2. priority' = tiers /\ ApplySchedulerIntervals(Table, tiers, interval)
      BY <2>2, <3>1 DEF ApplyPriority
    <3>3. tiers \in [Streams -> Priorities]
      BY <1>2, <3>1 DEF Inv, TypeOK
    <3>4. /\ applied' \in [Streams -> Nat] /\ interval' \in [Streams -> Nat]
          /\ \A t \in Streams : applied'[t] = Table[tiers[t]]
      <4>1. interval \in [Streams -> Nat]
        BY DEF Inv, TypeOK
      <4>2. ApplySchedulerIntervals(TableFor(state, recoveryStep), tiers, interval)
        BY <3>2 DEF Table
      <4> QED
        BY <3>3, <4>1, <4>2, Resyncs DEF Table
    <3>5. Table' = Table
      BY DEF ApplyPriority, Table
    <3> QED
      BY <3>2, <3>3, <3>4, <3>5 DEF CacheFollowsTable
  <2> QED
    BY <2>1, <2>2
<1> QED
  BY <1>3, <1>4, VisitKeeps DEF ApplyPriority, Inv, TypeOK

LEMMA ApplyRestartKeeps == ASSUME Inv, ApplyRestart PROVE Inv'
<1>1. op.step = "apply" /\ (GoTo("undo") \/ GoTo("verify"))
  BY DEF ApplyRestart, At
<1>2. op' \in OpType /\ op'.request = op.request /\ op'.target = op.target
  BY <1>1, OpMoves DEF Inv, TypeOK, OpType, Steps
<1>3. mode' \in [Streams -> StreamStates]
  BY DEF ApplyRestart, Inv, TypeOK, StreamStates
<1>4. CacheFollowsTable'
  BY DEF ApplyRestart, Inv, CacheFollowsTable, Table
<1> QED
  BY <1>1, <1>2, <1>3, <1>4, VisitKeeps DEF ApplyRestart, Inv, TypeOK

LEMMA ApplyRollbackKeeps == ASSUME Inv, ApplyRollback PROVE Inv'
<1>1. op.step = "apply" /\ op.request = Rollback
  <2>1. op.request \notin Requests
    BY RequestType DEF ApplyRollback, At
  <2> QED
    BY <2>1 DEF ApplyRollback, At, Inv, TypeOK
<1>2. op.target \in Configs
  BY <1>1 DEF Inv, TypeOK
<1>3. op' \in OpType /\ op'.request = op.request /\ op'.target = op.target
  <2>1. op' = [op EXCEPT !.step = "verify", !.checking = 1]
    BY DEF ApplyRollback
  <2>2. op \in OpType /\ 1 \in 0..StreamCount /\ "verify" \in Steps
    BY ControlAssumption DEF Inv, TypeOK, OpType, Steps
  <2> QED
    BY <2>1, <2>2 DEF OpType
<1> QED
  BY <1>1, <1>2, <1>3, RestoreKeeps, VisitKeeps DEF ApplyRollback

LEMMA UndoKeeps == ASSUME Inv, Undo PROVE Inv'
<1>1. Head(snapshots) \in Configs
  BY HeadTailProperties DEF Undo, Inv, TypeOK
<1>2. op' \in OpType /\ op'.step = "idle"
  BY OpMoves DEF Undo, Inv, TypeOK, OpType
<1>3. op.step = "undo" /\ ApplySnapshot(Head(snapshots))
  BY DEF Undo
<1> QED
  BY <1>1, <1>2, <1>3, RestoreKeeps, VisitKeeps

------------------------------------------------------------------------------
LEMMA StepKeeps == Inv /\ [Next]_vars => Inv'
<1> SUFFICES ASSUME Inv, [Next]_vars PROVE Inv'
  OBVIOUS
<1>1. CASE UNCHANGED vars
  BY <1>1 DEF vars, loopVars, Inv, TypeOK, CacheFollowsTable, Table
<1>2. CASE Loop
  BY <1>2, SchedulerTickKeeps, StreamMovesKeeps DEF Loop
<1>3. CASE Server
  BY <1>3, AskKeeps, AskRollbackKeeps, BetweenVisitsKeep, ApplyIntervalKeeps,
     ApplyPriorityKeeps, ApplyRestartKeeps, ApplyRollbackKeeps, UndoKeeps DEF Server
<1> QED
  BY <1>1, <1>2, <1>3 DEF Next

\* The types of the control plane; in particular a write that has to be undone
\* finds the snapshot it took.
THEOREM TypeCorrect == Spec => []TypeOK
<1>1. Inv => TypeOK
  BY DEF Inv
<1> QED
  BY <1>1, InitHolds, StepKeeps, PTL DEF Spec, Inv

\* What the scheduler remembers to have applied is what its table asks for, after
\* every tick, priority change, rollback and automatic rollback.
THEOREM SchedulerRemembersItsTable == Spec => []CacheFollowsTable
<1>1. Inv => CacheFollowsTable
  BY DEF Inv
<1> QED
  BY <1>1, InitHolds, StepKeeps, PTL DEF Spec, Inv

------------------------------------------------------------------------------
(* What clients are promised *)

\* The operation may have set this of the stream without having told so.
Open(kind, s) ==
  op.step \in {"verify", "undo"} /\ op.request.kind = kind /\ op.request.stream = s

\* The stream of configuration c is what was promised of it.
Keeps(c, s) ==
  /\ c.priority[s] = promised[s].priority
  /\ promised[s].interval \in {Free, c.interval[s]}

PromiseType == promised \in [Streams -> [priority : Priorities, interval : Nat \union {Free}]]

AtRest == op.step = "idle" => op = Idle

\* All but what is open is as promised, in the middle of an operation too.
Kept ==
  \A s \in Streams :
    /\ ~Open("priority", s) => priority[s] = promised[s].priority
    /\ ~Open("interval", s) => promised[s].interval \in {Free, interval[s]}

\* Only writes are undone, and the snapshot they would go back to is as promised.
WayBack ==
  /\ op.step = "undo" => op.request # Rollback
  /\ op.step \in {"apply", "verify", "undo"} /\ op.request # Rollback =>
       \A s \in Streams : Keeps(Head(snapshots), s)

TierIsSet == At("verify", {"priority"}) => priority[op.request.stream] = op.request.value

Promises == PromiseType /\ AtRest /\ Kept /\ WayBack /\ TierIsSet

\* The types say of a rollback and of a write which of them is under way.
LEMMA KindOfRequest ==
  ASSUME TypeOK
  PROVE  /\ op.request.kind \in {"interval", "priority", "restart", "rollback"}
         /\ op.request.kind = "rollback" <=> op.request = Rollback
         /\ op.request.kind # "rollback" => op.request \in Requests
<1>1. op.request \in Requests \/ op.request = Rollback
  BY DEF TypeOK
<1>2. Rollback.kind = "rollback"
  BY DEF Rollback
<1>3. ASSUME op.request \in Requests
      PROVE  op.request.kind \in {"interval", "priority", "restart"} /\ op.request # Rollback
  BY <1>3, RequestType
<1> QED
  BY <1>1, <1>2, <1>3

\* Unless a rollback is applied or a write acknowledged, promises are only taken back.
LEMMA PromisesAreTakenBack ==
  ASSUME PromiseType, Observe, ~ApplyRollback, ~Acknowledges
  PROVE  /\ PromiseType'
         /\ \A s \in Streams :
              /\ promised'[s].priority = promised[s].priority
              /\ promised'[s].interval \in {Free, promised[s].interval}
              /\ Rechosen(s) => promised'[s].interval = Free
<1>1. \A s \in Streams :
        promised'[s] = IF Rechosen(s) THEN [promised[s] EXCEPT !.interval = Free]
                                      ELSE promised[s]
  BY DEF Observe, Promise, RollsBack
<1>2. \A s \in Streams : promised[s] \in [priority : Priorities, interval : Nat \union {Free}]
  BY DEF PromiseType
<1>3. \A s \in Streams :
        /\ promised'[s] \in [priority : Priorities, interval : Nat \union {Free}]
        /\ promised'[s].priority = promised[s].priority
        /\ promised'[s].interval \in {Free, promised[s].interval}
        /\ Rechosen(s) => promised'[s].interval = Free
  BY <1>1, <1>2
<1>4. promised' = [s \in Streams |-> Promise(s)]
  BY DEF Observe
<1>5. PromiseType'
  BY <1>3, <1>4 DEF PromiseType
<1> QED
  BY <1>3, <1>5

LEMMA AuditInitHolds == AuditInit => Promises
  BY ControlAssumption DEF AuditInit, Init, Promises, PromiseType, AtRest, Kept, WayBack,
     TierIsSet, At, Idle, Open, Free

\* The main loop takes back what it changes.
LEMMA LoopKeepsPromises == ASSUME Inv, Promises, Loop, Observe PROVE Promises'
<1>1. op' = op /\ snapshots' = snapshots /\ priority' = priority
  BY DEF Loop, SchedulerTick, StreamMoves
<1>2. ~ApplyRollback /\ ~Acknowledges
  <2>1. ASSUME ApplyRollback PROVE FALSE
    BY <1>1, <2>1 DEF ApplyRollback, At, Inv, TypeOK
  <2>2. ASSUME Acknowledges PROVE FALSE
    BY <1>1, <2>2 DEF Acknowledges, VerifyWrite, At, Answer, Idle
  <2> QED
    BY <2>1, <2>2
<1>3. \A s \in Streams : Rechosen(s) \/ interval'[s] = interval[s]
  <2>1. CASE SchedulerTick
    BY <2>1 DEF SchedulerTick, ApplySchedulerIntervals, Rechosen
  <2>2. ASSUME NEW r \in Rtsp, StreamMoves(r)
        PROVE  \A s \in Streams : Rechosen(s) \/ interval'[s] = interval[s]
    <3>1. PICK m \in StreamStates :
            /\ <<mode[r], m>> \in Moves
            /\ mode' = [mode EXCEPT ![r] = m]
            /\ interval' = IF m = "CONNECTING" THEN [interval EXCEPT ![r] = 0] ELSE interval
      BY <2>2 DEF StreamMoves
    <3>2. m = "CONNECTING" => mode[r] # "CONNECTING"
      BY <3>1 DEF Moves
    <3>3. mode \in [Streams -> StreamStates] /\ interval \in [Streams -> Nat]
      BY DEF Inv, TypeOK
    <3> QED
      BY <3>1, <3>2, <3>3 DEF Rechosen
  <2> QED
    BY <2>1, <2>2 DEF Loop
<1>4. PromiseType' /\ AtRest'
  BY <1>1, <1>2, PromisesAreTakenBack DEF Promises, AtRest
<1>5. Kept'
  BY <1>1, <1>2, <1>3, PromisesAreTakenBack DEF Promises, Kept, Open
<1>6. WayBack'
  BY <1>1, <1>2, PromisesAreTakenBack DEF Promises, WayBack, Keeps
<1>7. TierIsSet'
  BY <1>1 DEF Promises, TierIsSet, At
<1> QED
  BY <1>4, <1>5, <1>6, <1>7 DEF Promises

\* A step between two visits that tells a client nothing changes no promise.
LEMMA UnvisitedKeepsPromises ==
  ASSUME Promises, Observe, UNCHANGED loopVars, ~ApplyRollback, ~Acknowledges,
         \A kind \in {"interval", "priority"}, s \in Streams : Open(kind, s) => Open(kind, s)',
         AtRest', WayBack', TierIsSet'
  PROVE  Promises'
<1>1. PromiseType'
  BY PromisesAreTakenBack DEF Promises
<1>2. Kept'
  BY PromisesAreTakenBack DEF Promises, Kept, loopVars
<1> QED
  BY <1>1, <1>2 DEF Promises

LEMMA BeginningKeepsPromises ==
  ASSUME Inv, Promises, Observe, (\E r \in Requests : Ask(r)) \/ AskRollback \/ TakeSnapshot
  PROVE  Promises'
<1>1. UNCHANGED loopVars /\ op = Idle
  BY DEF Ask, AskRollback, TakeSnapshot
<1>2. op.step = "idle" /\ ~ApplyRollback /\ ~Acknowledges
  BY <1>1 DEF Idle, ApplyRollback, Acknowledges, VerifyWrite, At
<1>3. op' = Idle \/ op'.step \in {"safety", "capture"}
  BY <1>1 DEF Ask, AskRollback, TakeSnapshot, Idle
<1>4. AtRest' /\ WayBack' /\ TierIsSet'
  BY <1>3 DEF AtRest, WayBack, TierIsSet, At, Idle
<1> QED
  BY <1>1, <1>2, <1>4, UnvisitedKeepsPromises DEF Open

LEMMA ContinuingKeepsPromises ==
  ASSUME Inv, Promises, Observe, CheckSafety \/ Capture \/ VerifyRollback
  PROVE  Promises'
<1>1. op \in OpType /\ UNCHANGED loopVars
  BY DEF Inv, TypeOK, OpType, CheckSafety, Capture, VerifyRollback
<1>2. CASE CheckSafety
  <2>1. op.step = "safety" /\ (Answer \/ GoTo("capture"))
    BY <1>2 DEF CheckSafety
  <2>2. op' = Idle \/ op'.step = "capture"
    BY <1>1, <2>1, OpMoves DEF Steps, Answer
  <2>3. AtRest' /\ WayBack' /\ TierIsSet'
    BY <2>2 DEF AtRest, WayBack, TierIsSet, At, Idle
  <2> QED
    BY <1>1, <2>1, <2>3, UnvisitedKeepsPromises DEF Open, ApplyRollback, Acknowledges,
       VerifyWrite, At
<1>3. CASE Capture
  <2>1. /\ op.step = "capture"
        /\ (SaveSnapshot /\ GoTo("apply")) \/ (UNCHANGED snapshots /\ Answer)
    BY <1>3 DEF Capture
  <2>2. \/ op' = Idle
        \/ op'.step = "apply" /\ Head(snapshots') = Config
    BY <1>1, <2>1, OpMoves, SaveKeepsNewest DEF Steps, Answer, Inv
  <2>3. ~ApplyRollback /\ ~Acknowledges /\ \A kind, s : ~Open(kind, s)
    BY <2>1 DEF ApplyRollback, Acknowledges, VerifyWrite, At, Open
  <2>4. \A s \in Streams : Keeps(Config, s)
    BY <2>3 DEF Promises, Kept, Keeps, Config
  <2>5. \A s \in Streams : Keeps(Config, s)'
    <3>1. Config' = Config
      BY <1>1 DEF loopVars, Config
    <3> QED
      BY <2>3, <2>4, <3>1, PromisesAreTakenBack DEF Keeps, Promises
  <2>6. Head(snapshots') = Config => \A s \in Streams : Keeps(Head(snapshots), s)'
    <3>1. Config' = Config
      BY <1>1 DEF loopVars, Config
    <3> QED
      BY <2>5, <3>1 DEF Keeps
  <2>7. AtRest' /\ WayBack' /\ TierIsSet'
    BY <2>2, <2>6 DEF AtRest, WayBack, TierIsSet, At, Idle
  <2> QED
    BY <1>1, <2>3, <2>7, UnvisitedKeepsPromises
<1>4. CASE VerifyRollback
  <2>1. op.step = "verify" /\ op.request.kind = "rollback"
    BY <1>4 DEF VerifyRollback, At
  <2>2. op' = Idle \/ (op'.step = "verify" /\ op'.request = op.request)
    <3>1. op' = Idle \/ op' = [op EXCEPT !.checking = @ + 1]
      BY <1>4 DEF VerifyRollback, Answer
    <3>2. PICK n : n = op.checking + 1
      OBVIOUS
    <3>3. op' = Idle \/ op' = [op EXCEPT !.checking = n]
      BY <3>1, <3>2
    <3>4. [op EXCEPT !.checking = n].step = op.step
          /\ [op EXCEPT !.checking = n].request = op.request
      BY <1>1 DEF OpType
    <3> QED
      BY <2>1, <3>3, <3>4
  <2>3. AtRest' /\ WayBack' /\ TierIsSet'
    <3>1. op.request = Rollback
      BY <2>1, KindOfRequest DEF Inv
    <3> QED
      BY <2>1, <2>2, <3>1 DEF AtRest, WayBack, TierIsSet, At, Idle
  <2> QED
    BY <1>1, <2>1, <2>3, UnvisitedKeepsPromises DEF Open, ApplyRollback, Acknowledges,
       VerifyWrite, At
<1> QED
  BY <1>2, <1>3, <1>4

\* What is read back is what the client is told.
LEMMA VerifyWriteKeepsPromises ==
  ASSUME Inv, Promises, Observe, VerifyWrite
  PROVE  Promises'
<1> DEFINE r == op.request
<1>1. /\ op.step = "verify" /\ r.kind \in {"interval", "priority", "restart"}
      /\ UNCHANGED <<loopVars, snapshots>>
      /\ IF ReadBackOk THEN Answer ELSE GoTo("undo")
  BY DEF VerifyWrite, At
<1>2. op \in OpType /\ ~ApplyRollback
  BY <1>1 DEF Inv, TypeOK, OpType, ApplyRollback, At
<1>3. r \in Requests
  BY <1>1, KindOfRequest DEF Inv
<1>4. r.stream \in Streams /\ (r.kind = "interval" => r.value \in Nat)
                           /\ (r.kind = "priority" => r.value \in Priorities)
  BY <1>3, RequestType
<1>5. CASE ~ReadBackOk
  <2>1. op'.step = "undo" /\ op'.request = op.request
    BY <1>1, <1>2, <1>5, OpMoves DEF Steps
  <2>2. AtRest' /\ TierIsSet' /\ \A kind, s : Open(kind, s) => Open(kind, s)'
    BY <1>1, <2>1 DEF AtRest, TierIsSet, At, Open
  <2>3. ~Acknowledges
    BY <1>5 DEF Acknowledges
  <2>4. WayBack'
    <3>1. op.request # Rollback
      BY <1>1, KindOfRequest DEF Inv
    <3> QED
      BY <1>1, <1>2, <2>1, <2>3, <3>1, PromisesAreTakenBack DEF Promises, WayBack, Keeps
  <2> QED
    BY <1>1, <1>2, <2>2, <2>3, <2>4, UnvisitedKeepsPromises
<1>6. CASE ReadBackOk
  <2>1. op' = Idle /\ Acknowledges
    BY <1>1, <1>6 DEF Answer, Acknowledges
  <2>2. \A s \in Streams : ~Rechosen(s)
    BY <1>1 DEF Rechosen, loopVars
  <2>3. \A s \in Streams :
          promised'[s] =
            IF s = r.stream /\ r.kind = "interval" THEN [promised[s] EXCEPT !.interval = r.value]
            ELSE IF s = r.stream /\ r.kind = "priority" THEN [promised[s] EXCEPT !.priority = r.value]
            ELSE promised[s]
    BY <1>2, <2>1, <2>2 DEF Observe, Promise, RollsBack
  <2>4. \A s \in Streams : promised[s] \in [priority : Priorities, interval : Nat \union {Free}]
    BY DEF Promises, PromiseType
  <2>5. PromiseType'
    <3>1. \A s \in Streams :
            promised'[s] \in [priority : Priorities, interval : Nat \union {Free}]
      BY <1>4, <2>3, <2>4
    <3> QED
      BY <3>1 DEF Observe, PromiseType
  <2>6. AtRest' /\ WayBack' /\ TierIsSet'
    BY <2>1 DEF AtRest, WayBack, TierIsSet, At, Idle
  <2>7. Kept'
    <3> SUFFICES ASSUME NEW s \in Streams
                 PROVE  priority'[s] = promised'[s].priority
                        /\ promised'[s].interval \in {Free, interval'[s]}
      BY DEF Kept
    <3>1. priority' = priority /\ interval' = interval
      BY <1>1 DEF loopVars
    <3>2. s # r.stream => priority[s] = promised[s].priority
                          /\ promised[s].interval \in {Free, interval[s]}
      BY DEF Promises, Kept, Open
    <3>3. r.kind # "priority" => priority[s] = promised[s].priority
      BY DEF Promises, Kept, Open
    <3>4. r.kind # "interval" => promised[s].interval \in {Free, interval[s]}
      BY DEF Promises, Kept, Open
    <3>5. /\ r.kind = "interval" => interval[r.stream] = r.value
          /\ r.kind = "priority" => priority[r.stream] = r.value
      BY <1>6 DEF ReadBackOk
    <3> QED
      BY <1>1, <2>3, <2>4, <3>1, <3>2, <3>3, <3>4, <3>5
  <2> QED
    BY <2>5, <2>6, <2>7 DEF Promises
<1> QED
  BY <1>5, <1>6

\* A write that is applied opens what it sets, and the rest is as before or chosen anew.
LEMMA AppliedKeepsPromises ==
  ASSUME Inv, Promises, Observe, op.step = "apply", op.request.kind # "rollback",
         op'.step \in {"verify", "undo"}, op'.request = op.request, snapshots' = snapshots,
         \A s \in Streams : Open("priority", s)' \/ priority'[s] = priority[s],
         \A s \in Streams : Open("interval", s)' \/ Rechosen(s) \/ interval'[s] = interval[s],
         TierIsSet'
  PROVE  Promises'
<1>1. ~ApplyRollback /\ ~Acknowledges /\ \A kind, s : ~Open(kind, s)
  BY DEF ApplyRollback, Acknowledges, VerifyWrite, At, Open
<1>2. op.request # Rollback
  BY KindOfRequest DEF Inv
<1>3. PromiseType' /\ AtRest'
  BY <1>1, PromisesAreTakenBack DEF Promises, AtRest
<1>4. Kept'
  BY <1>1, PromisesAreTakenBack DEF Promises, Kept
<1>5. WayBack'
  BY <1>1, <1>2, PromisesAreTakenBack DEF Promises, WayBack, Keeps
<1> QED
  BY <1>3, <1>4, <1>5 DEF Promises

LEMMA ApplyingKeepsPromises ==
  ASSUME Inv, Promises, Observe, ApplyInterval \/ ApplyPriority \/ ApplyRestart
  PROVE  Promises'
<1> DEFINE r == op.request
<1>1. op \in OpType /\ priority \in [Streams -> Priorities] /\ interval \in [Streams -> Nat]
  BY DEF Inv, TypeOK, OpType
<1>2. CASE ApplyInterval
  <2>1. /\ op.step = "apply" /\ r.kind = "interval" /\ snapshots' = snapshots
        /\ op'.step = "verify" /\ op'.request = r
        /\ priority' = priority
    BY <1>1, <1>2, OpMoves DEF ApplyInterval, At, Steps
  <2>2. \A s \in Streams : s = r.stream \/ interval'[s] = interval[s]
    BY <1>1, <1>2 DEF ApplyInterval
  <2>3. \A s \in Streams : Open("interval", s)' \/ interval'[s] = interval[s]
    BY <2>1, <2>2 DEF Open
  <2>4. TierIsSet'
    BY <2>1 DEF TierIsSet, At
  <2> QED
    BY <2>1, <2>3, <2>4, AppliedKeepsPromises
<1>3. CASE ApplyPriority
  <2>1. /\ op.step = "apply" /\ r.kind = "priority" /\ snapshots' = snapshots
        /\ op'.step = "verify" /\ op'.request = r
    BY <1>1, <1>3, OpMoves DEF ApplyPriority, At, Steps
  <2>2. r.stream \in Streams
    BY <2>1, KindOfRequest, RequestType DEF Inv
  <2>3. /\ priority'[r.stream] = r.value
        /\ \A s \in Streams : s = r.stream \/ priority'[s] = priority[s]
    BY <1>1, <1>3, <2>2 DEF ApplyPriority
  <2>4. \A s \in Streams : Rechosen(s) \/ interval'[s] = interval[s]
    <3>1. CASE priority[r.stream] = r.value
      BY <1>3, <3>1 DEF ApplyPriority
    <3>2. CASE priority[r.stream] # r.value
      <4>1. ApplySchedulerIntervals(Table, priority', interval)
        BY <1>3, <3>2 DEF ApplyPriority
      <4> QED
        BY <4>1 DEF ApplySchedulerIntervals, Rechosen
    <3> QED
      BY <3>1, <3>2
  <2>5. TierIsSet'
    BY <2>1, <2>3 DEF TierIsSet, At
  <2>6. \A s \in Streams : Open("priority", s)' \/ priority'[s] = priority[s]
    BY <2>1, <2>3 DEF Open
  <2> QED
    BY <2>1, <2>4, <2>5, <2>6, AppliedKeepsPromises
<1>4. CASE ApplyRestart
  <2>1. /\ op.step = "apply" /\ r.kind = "restart" /\ snapshots' = snapshots
        /\ GoTo("undo") \/ GoTo("verify")
        /\ priority' = priority /\ interval' = interval
    BY <1>4 DEF ApplyRestart, At
  <2>2. op'.step \in {"verify", "undo"} /\ op'.request = r
    BY <1>1, <2>1, OpMoves DEF Steps
  <2>3. TierIsSet'
    BY <2>1, <2>2 DEF TierIsSet, At
  <2> QED
    BY <2>1, <2>2, <2>3, AppliedKeepsPromises
<1> QED
  BY <1>2, <1>3, <1>4

\* After a rollback the snapshot is what was promised, its intervals excepted.
LEMMA ApplyRollbackKeepsPromises ==
  ASSUME Inv, Promises, Observe, ApplyRollback
  PROVE  Promises'
<1>1. op \in OpType /\ op.step = "apply" /\ op.request.kind = "rollback"
  BY DEF Inv, TypeOK, OpType, ApplyRollback, At
<1>2. op.request = Rollback
  BY <1>1, KindOfRequest DEF Inv
<1>3. op.target \in Configs
  BY <1>1, <1>2 DEF Inv, TypeOK
<1>4. op'.step = "verify" /\ op'.request = Rollback
  BY <1>1, <1>2 DEF ApplyRollback, OpType
<1>5. \A s \in Streams :
        promised'[s] = [priority |-> op.target.priority[s], interval |-> Free]
  <2>1. ~Acknowledges
    BY <1>1 DEF Acknowledges, VerifyWrite, At
  <2> QED
    BY <2>1 DEF Observe, Promise, RollsBack
<1>6. PromiseType'
  <2>1. \A s \in Streams : op.target.priority[s] \in Priorities
    BY <1>3 DEF Configs
  <2> QED
    BY <1>5, <2>1 DEF Observe, PromiseType
<1>7. Kept'
  <2>1. priority' = op.target.priority
    BY DEF ApplyRollback, ApplySnapshot
  <2>2. \A s \in Streams :
          promised'[s].priority = op.target.priority[s] /\ promised'[s].interval = Free
    <3> SUFFICES ASSUME NEW s \in Streams
                 PROVE  promised'[s].priority = op.target.priority[s] /\ promised'[s].interval = Free
      OBVIOUS
    <3>1. PICK p : p = op.target.priority[s]
      OBVIOUS
    <3>2. promised'[s] = [priority |-> p, interval |-> Free]
      BY <1>5, <3>1
    <3> QED
      BY <3>1, <3>2
  <2> QED
    BY <2>1, <2>2 DEF Kept
<1>8. AtRest' /\ WayBack' /\ TierIsSet'
  BY <1>4 DEF AtRest, WayBack, TierIsSet, At, Rollback
<1> QED
  BY <1>6, <1>7, <1>8 DEF Promises

\* An automatic rollback restores what was promised, or what the scheduler chooses.
LEMMA UndoKeepsPromises ==
  ASSUME Inv, Promises, Observe, Undo
  PROVE  Promises'
<1>1. op.step = "undo" /\ op' = Idle /\ ApplySnapshot(Head(snapshots))
  BY DEF Undo, Answer
<1>2. ~ApplyRollback /\ ~Acknowledges
  BY <1>1 DEF ApplyRollback, Acknowledges, VerifyWrite, At
<1>3. PICK c : c = Head(snapshots)
  OBVIOUS
<1>4. \A s \in Streams : Keeps(c, s)
  BY <1>1, <1>3 DEF Promises, WayBack
<1>5. /\ priority' = c.priority
      /\ \A s \in Streams : Rechosen(s) \/ interval'[s] = c.interval[s]
  BY <1>1, <1>3 DEF ApplySnapshot, ApplySchedulerIntervals, Rechosen
<1>6. PromiseType'
  BY <1>2, PromisesAreTakenBack DEF Promises
<1>7. Kept'
  BY <1>2, <1>4, <1>5, PromisesAreTakenBack DEF Promises, Kept, Keeps
<1>8. AtRest' /\ WayBack' /\ TierIsSet'
  BY <1>1 DEF AtRest, WayBack, TierIsSet, At, Idle
<1> QED
  BY <1>6, <1>7, <1>8 DEF Promises

LEMMA PromisesStep ==
  ASSUME Inv, Promises, [Next /\ Observe]_<<vars, auditVars>>
  PROVE  Promises'
<1>1. CASE UNCHANGED <<vars, auditVars>>
  BY <1>1 DEF vars, loopVars, auditVars, Promises, PromiseType, AtRest, Kept, WayBack,
     TierIsSet, Open, Keeps, At
<1>2. CASE Loop /\ Observe
  BY <1>2, LoopKeepsPromises
<1>3. CASE Server /\ Observe
  BY <1>3, BeginningKeepsPromises, ContinuingKeepsPromises, VerifyWriteKeepsPromises,
     ApplyingKeepsPromises, ApplyRollbackKeepsPromises, UndoKeepsPromises DEF Server
<1> QED
  BY <1>1, <1>2, <1>3 DEF Next

------------------------------------------------------------------------------
(* Operations that nothing disturbed *)

Alone == op # Idle /\ ~disturbed

\* Until it applies something, and where it has applied nothing, the configuration
\* is the one the operation found.
AsFound ==
  Alone /\ (op.step \in {"safety", "capture", "apply", "undo"} \/ At("verify", {"restart"}))
    => Config = before

\* A write that gets past the safety check may still be applied in the state it met.
Allowed ==
  Alone /\ op.step \in {"capture", "apply"} /\ op.request # Rollback /\ state = "CRITICAL"
    => ~RaisesLoad(op.request)

Saved ==
  Alone /\ op.step \in {"apply", "verify", "undo"} /\ op.request # Rollback
    => Head(snapshots) = before

IntervalIsSet ==
  Alone /\ At("verify", {"interval"}) => interval[op.request.stream] = op.request.value

\* What a rollback has left: its snapshot, but for the streams it moved to another tier.
BackAgain ==
  Alone /\ At("verify", {"rollback"}) =>
    /\ priority = op.target.priority
    /\ \A s \in Streams :
         Table[before.priority[s]] = Table[op.target.priority[s]]
           => interval[s] = op.target.interval[s]

Checking == At("verify", {"rollback"}) => op.checking \in Streams

Undisturbed ==
  AsFound /\ Allowed /\ Saved /\ IntervalIsSet /\ BackAgain /\ Checking

LEMMA EndingLeavesNothing == ASSUME op' = Idle PROVE Undisturbed'
  BY DEF Undisturbed, AsFound, Allowed, Saved, IntervalIsSet, BackAgain, Checking, Alone, At, Idle

\* An operation found alone was alone before, and remembers the same.
LEMMA StaysAlone ==
  ASSUME Observe, Alone', op # Idle
  PROVE  Alone /\ before' = before
  BY DEF Observe, Alone, Begins

LEMMA LoopDisturbs ==
  ASSUME Undisturbed, Loop, Observe
  PROVE  Undisturbed'
<1>1. op' = op
  BY DEF Loop, SchedulerTick, StreamMoves
<1>2. ~Alone'
  BY <1>1 DEF Alone, Observe
<1> QED
  BY <1>1, <1>2 DEF Undisturbed, AsFound, Allowed, Saved, IntervalIsSet, BackAgain, Checking, At

LEMMA BeginningIsAlone ==
  ASSUME Observe, (\E r \in Requests : Ask(r)) \/ AskRollback \/ TakeSnapshot
  PROVE  Undisturbed'
<1>1. CASE TakeSnapshot
  BY <1>1, EndingLeavesNothing DEF TakeSnapshot
<1>2. CASE AskRollback
  <2>1. op = Idle /\ op'.step = "capture" /\ op'.request = Rollback /\ Config' = Config
    BY <1>2 DEF AskRollback, Idle, Config, loopVars
  <2>2. Alone' => before' = Config
    BY <2>1 DEF Observe, Begins, Alone
  <2> QED
    BY <2>1, <2>2 DEF Undisturbed, AsFound, Allowed, Saved, IntervalIsSet, BackAgain,
       Checking, At
<1>3. ASSUME NEW r \in Requests, Ask(r) PROVE Undisturbed'
  <2>1. /\ op = Idle /\ op'.request = r /\ Config' = Config
        /\ op'.step = IF RaisesLoad(r) THEN "safety" ELSE "capture"
    BY <1>3 DEF Ask, Idle, Config, loopVars
  <2>2. Alone' => before' = Config
    BY <2>1 DEF Observe, Begins, Alone
  <2>3. op'.step = "capture" => ~RaisesLoad(r)'
    <3>1. priority' = priority /\ interval' = interval
      BY <1>3 DEF Ask, loopVars
    <3> QED
      BY <2>1, <3>1 DEF RaisesLoad
  <2>4. Allowed'
    BY <2>1, <2>3 DEF Allowed, RaisesLoad
  <2> QED
    BY <2>1, <2>2, <2>4 DEF Undisturbed, AsFound, Saved, IntervalIsSet, BackAgain,
       Checking, At
<1> QED
  BY <1>1, <1>2, <1>3

LEMMA ContinuingStaysUndisturbed ==
  ASSUME Inv, Undisturbed, Observe, CheckSafety \/ Capture \/ VerifyRollback
  PROVE  Undisturbed'
<1>1. op \in OpType /\ UNCHANGED loopVars
  BY DEF Inv, TypeOK, OpType, CheckSafety, Capture, VerifyRollback
<1>2. op.step # "idle" /\ op # Idle
  BY DEF CheckSafety, Capture, VerifyRollback, At, Idle
<1>3. Config' = Config /\ state' = state /\ Table' = Table
  BY <1>1 DEF Config, loopVars, Table
<1>4. CASE CheckSafety
  <2>1. op.step = "safety" /\ IF state = "CRITICAL" THEN Answer ELSE GoTo("capture")
    BY <1>4 DEF CheckSafety
  <2>2. CASE Answer
    BY <2>2, EndingLeavesNothing DEF Answer
  <2>3. CASE state # "CRITICAL"
    <3>1. op'.step = "capture"
      BY <1>1, <2>1, <2>3, OpMoves DEF Steps
    <3>2. AsFound'
      BY <1>2, <1>3, <2>1, StaysAlone DEF Undisturbed, AsFound
    <3> QED
      BY <1>3, <2>3, <3>1, <3>2 DEF Undisturbed, Allowed, Saved, IntervalIsSet, BackAgain,
         Checking, At
  <2> QED
    BY <2>1, <2>2, <2>3
<1>5. CASE Capture
  <2>1. op.step = "capture" /\ (Answer \/ (SaveSnapshot /\ GoTo("apply")))
    BY <1>5 DEF Capture
  <2>2. CASE Answer
    BY <2>2, EndingLeavesNothing DEF Answer
  <2>3. CASE SaveSnapshot /\ GoTo("apply")
    <3>1. op'.step = "apply" /\ op'.request = op.request /\ Head(snapshots') = Config
      BY <1>1, <2>3, OpMoves, SaveKeepsNewest DEF Steps, Inv
    <3>2. AsFound' /\ Saved'
      BY <1>2, <1>3, <2>1, <3>1, StaysAlone DEF Undisturbed, AsFound, Saved
    <3>3. Allowed'
      <4>1. ASSUME Alone', op'.request # Rollback, state = "CRITICAL"
            PROVE  ~RaisesLoad(op.request)
        BY <1>2, <2>1, <3>1, <4>1, StaysAlone DEF Undisturbed, Allowed
      <4>2. priority' = priority /\ interval' = interval
        BY <1>1 DEF loopVars
      <4> QED
        BY <1>3, <3>1, <4>1, <4>2 DEF Allowed, RaisesLoad
    <3> QED
      BY <3>1, <3>2, <3>3 DEF Undisturbed, IntervalIsSet, BackAgain, Checking, At
  <2> QED
    BY <2>1, <2>2, <2>3
<1>6. CASE VerifyRollback
  <2>1. CASE Answer
    BY <2>1, EndingLeavesNothing DEF Answer
  <2>2. CASE ~Answer
    <3>1. /\ op.step = "verify" /\ op.request.kind = "rollback"
          /\ op' = [op EXCEPT !.checking = @ + 1] /\ op.checking < StreamCount
      BY <1>6, <2>2 DEF VerifyRollback, At
    <3>2. PICK n \in Nat : n = op.checking + 1 /\ n \in Streams
      BY <1>1, <3>1, ControlAssumption DEF OpType, Streams
    <3>3. op' = [op EXCEPT !.checking = n]
      BY <3>1, <3>2
    <3>4. /\ op'.step = op.step /\ op'.request = op.request /\ op'.target = op.target
          /\ op'.checking = n
      BY <1>1, <3>3 DEF OpType
    <3>5. BackAgain'
      <4>1. priority' = priority /\ interval' = interval
        BY <1>1 DEF loopVars
      <4> QED
        BY <1>2, <1>3, <3>1, <3>4, <4>1, StaysAlone DEF Undisturbed, BackAgain, At
    <3>6. op'.request = Rollback
      BY <3>1, <3>4, KindOfRequest DEF Inv
    <3> QED
      BY <3>1, <3>2, <3>4, <3>5, <3>6 DEF Undisturbed, AsFound, Allowed, Saved, IntervalIsSet,
         Checking, At
  <2> QED
    BY <2>1, <2>2
<1> QED
  BY <1>4, <1>5, <1>6

LEMMA VerifyWriteStaysUndisturbed ==
  ASSUME Inv, TierIsSet, Undisturbed, Observe, VerifyWrite
  PROVE  Undisturbed'
<1> DEFINE r == op.request
<1>1. /\ op.step = "verify" /\ r.kind \in {"interval", "priority", "restart"}
      /\ UNCHANGED <<loopVars, snapshots>>
      /\ IF ReadBackOk THEN Answer ELSE GoTo("undo")
  BY DEF VerifyWrite, At
<1>2. CASE ReadBackOk
  BY <1>1, <1>2, EndingLeavesNothing DEF Answer
<1>3. CASE ~ReadBackOk
  <2>1. op \in OpType /\ op # Idle /\ r # Rollback
    BY <1>1, KindOfRequest DEF Inv, TypeOK, OpType, Idle
  <2>2. op'.step = "undo" /\ op'.request = r
    BY <1>1, <1>3, <2>1, OpMoves DEF Steps
  <2>3. Config' = Config
    BY <1>1 DEF Config, loopVars
  <2>4. Saved'
    BY <1>1, <2>1, <2>2, StaysAlone DEF Undisturbed, Saved
  <2>5. Alone /\ r.kind = "interval" => ReadBackOk
    BY <1>1 DEF Undisturbed, IntervalIsSet, At, ReadBackOk
  <2>6. r.kind = "priority" => ReadBackOk
    BY <1>1 DEF TierIsSet, At, ReadBackOk
  <2>7. AsFound'
    BY <1>1, <1>3, <2>1, <2>3, <2>5, <2>6, StaysAlone DEF Undisturbed, AsFound, At
  <2> QED
    BY <2>2, <2>4, <2>7 DEF Undisturbed, Allowed, IntervalIsSet, BackAgain, Checking, At
<1> QED
  BY <1>2, <1>3

LEMMA ApplyingStaysUndisturbed ==
  ASSUME Inv, Undisturbed, Observe, ApplyInterval \/ ApplyPriority \/ ApplyRestart
  PROVE  Undisturbed'
<1> DEFINE r == op.request
<1>1. /\ op \in OpType /\ op.step = "apply" /\ op # Idle
      /\ r.kind \in {"interval", "priority", "restart"}
      /\ snapshots' = snapshots
  BY DEF Inv, TypeOK, OpType, ApplyInterval, ApplyPriority, ApplyRestart, At, Idle
<1>2. r # Rollback
  BY <1>1, KindOfRequest DEF Inv
<1>3. op'.step \in {"verify", "undo"} /\ op'.request = r
  BY <1>1, OpMoves DEF ApplyInterval, ApplyPriority, ApplyRestart, Steps
<1>4. Saved'
  BY <1>1, <1>2, <1>3, StaysAlone DEF Undisturbed, Saved
<1>5. r.kind = "restart" => Config' = Config
  BY DEF ApplyInterval, ApplyPriority, ApplyRestart, At, Config
<1>6. op'.step = "undo" => r.kind = "restart"
  <2>1. r.kind # "restart" => GoTo("verify")
    BY DEF ApplyInterval, ApplyPriority, ApplyRestart, At
  <2> QED
    BY <1>1, <2>1, OpMoves DEF Steps
<1>7. AsFound'
  BY <1>1, <1>3, <1>5, <1>6, StaysAlone DEF Undisturbed, AsFound, At
<1>8. IntervalIsSet'
  <2>1. ASSUME r.kind = "interval" PROVE interval'[r.stream] = r.value
    <3>1. r.stream \in Streams /\ interval \in [Streams -> Nat]
      BY <1>1, KindOfRequest, RequestType DEF Inv, TypeOK
    <3> QED
      BY <2>1, <3>1 DEF ApplyInterval, ApplyPriority, ApplyRestart, At
  <2> QED
    BY <1>3, <2>1 DEF IntervalIsSet, At
<1> QED
  BY <1>1, <1>3, <1>4, <1>7, <1>8 DEF Undisturbed, Allowed, BackAgain, Checking, At

LEMMA ApplyRollbackStaysUndisturbed ==
  ASSUME Inv, Undisturbed, Observe, ApplyRollback
  PROVE  Undisturbed'
<1>1. /\ op \in OpType /\ op.step = "apply" /\ op # Idle /\ op.request.kind = "rollback"
      /\ op' = [op EXCEPT !.step = "verify", !.checking = 1]
  BY DEF Inv, TypeOK, OpType, ApplyRollback, At, Idle
<1>2. /\ op'.step = "verify" /\ op'.request = op.request
      /\ op'.target = op.target /\ op'.checking = 1
  BY <1>1 DEF OpType
<1>3. op'.request = Rollback
  BY <1>1, <1>2, KindOfRequest DEF Inv
<1>4. Checking'
  <2>1. 1 \in Streams
    BY ControlAssumption DEF Streams
  <2> QED
    BY <1>2, <2>1 DEF Checking
<1>5. BackAgain'
  <2> SUFFICES ASSUME Alone'
               PROVE  /\ priority' = op.target.priority
                      /\ \A s \in Streams :
                           Table'[before'.priority[s]] = Table'[op.target.priority[s]]
                             => interval'[s] = op.target.interval[s]
    BY <1>2 DEF BackAgain
  <2>1. before' = before /\ Config = before
    BY <1>1, StaysAlone DEF Undisturbed, AsFound
  <2>2. Table' = Table
    BY DEF ApplyRollback, ApplySnapshot, Table
  <2>3. before.priority = priority
    BY <2>1 DEF Config
  <2>4. priority' = op.target.priority
    BY DEF ApplyRollback, ApplySnapshot
  <2>5. \A s \in Streams :
          applied[s] = Table[op.target.priority[s]] => interval'[s] = op.target.interval[s]
    BY DEF ApplyRollback, ApplySnapshot, ApplySchedulerIntervals
  <2>6. \A s \in Streams : applied[s] = Table[priority[s]]
    BY DEF Inv, CacheFollowsTable
  <2> QED
    BY <2>1, <2>2, <2>3, <2>4, <2>5, <2>6
<1> QED
  BY <1>2, <1>3, <1>4, <1>5 DEF Undisturbed, AsFound, Allowed, Saved, IntervalIsSet, At, Rollback

\* Where the scheduler asks of a configuration what it already asked for, restoring
\* the configuration restores its intervals.
LEMMA UndoRestores ==
  ASSUME Inv, WayBack, Undisturbed, Undo, Alone
  PROVE  Config' = Config /\ Config = before
<1>1. op.step = "undo" /\ op.request # Rollback /\ ApplySnapshot(Head(snapshots))
  BY DEF Undo, WayBack
<1>2. Config = before /\ Head(snapshots) = before
  BY <1>1 DEF Undisturbed, AsFound, Saved
<1>3. PICK c : c = Config
  OBVIOUS
<1>4. ApplySnapshot(c) /\ c.priority = priority /\ c.interval = interval
  BY <1>1, <1>2, <1>3 DEF Config
<1>5. priority' = priority
  BY <1>4 DEF ApplySnapshot
<1>6. \A s \in Streams : applied[s] = Table[priority[s]]
  BY DEF Inv, CacheFollowsTable
<1>7. interval' = [s \in Streams |-> interval[s]]
  BY <1>4, <1>6 DEF ApplySnapshot, ApplySchedulerIntervals
<1>8. interval' = interval
  BY <1>7 DEF Inv, TypeOK
<1> QED
  BY <1>2, <1>5, <1>8 DEF Config

AuditInv == Inv /\ Promises /\ Undisturbed

LEMMA AuditInvHolds == AuditSpec => []AuditInv
<1>1. AuditInit => AuditInv
  BY InitHolds, AuditInitHolds
     DEF AuditInit, Init, AuditInv, Inv, Undisturbed, AsFound, Allowed, Saved, IntervalIsSet,
         BackAgain, Checking, Alone, At, Idle
<1>2. AuditInv /\ [Next /\ Observe]_<<vars, auditVars>> => AuditInv'
  <2> SUFFICES ASSUME AuditInv, [Next /\ Observe]_<<vars, auditVars>>
               PROVE  Inv' /\ Promises' /\ Undisturbed'
    BY DEF AuditInv
  <2>1. Inv'
    BY StepKeeps DEF AuditInv
  <2>2. Promises'
    BY PromisesStep DEF AuditInv
  <2>3. Undisturbed'
    <3>1. CASE UNCHANGED <<vars, auditVars>>
      <4>1. Config' = Config /\ Table' = Table
        BY <3>1 DEF vars, loopVars, Config, Table
      <4> QED
        BY <3>1, <4>1 DEF vars, loopVars, auditVars, AuditInv, Undisturbed, AsFound, Allowed, Saved,
           IntervalIsSet, BackAgain, Checking, Alone, At, RaisesLoad
    <3>2. CASE Loop /\ Observe
      BY <3>2, LoopDisturbs DEF AuditInv
    <3>3. CASE Server /\ Observe
      <4>1. CASE Undo
        BY <4>1, EndingLeavesNothing DEF Undo, Answer
      <4> QED
        BY <3>3, <4>1, BeginningIsAlone, ContinuingStaysUndisturbed, VerifyWriteStaysUndisturbed,
           ApplyingStaysUndisturbed, ApplyRollbackStaysUndisturbed
           DEF Server, AuditInv, Promises
    <3> QED
      BY <3>1, <3>2, <3>3 DEF Next
  <2> QED
    BY <2>1, <2>2, <2>3
<1> QED
  BY <1>1, <1>2, PTL DEF AuditSpec

\* Between operations every stream is what clients were last told (write_op,
\* handle_rollback): the invariant carries the promises through the middle of an
\* operation, and through the snapshot that its automatic rollback would go back to.
THEOREM AcknowledgedChangesStay == AuditSpec => []Acknowledged
<1>1. AuditInv => Acknowledged
  BY DEF AuditInv, Promises, Kept, Open, Acknowledged, Idle
<1> QED
  BY <1>1, AuditInvHolds, PTL

\* write_op answers an error only once the configuration it found is back, if neither
\* the scheduler nor a reconnect came in between: by then only a restart can have
\* failed, and its snapshot asks the scheduler for what it has applied.
THEOREM FailedWritesLeaveNoTrace == AuditSpec => FailedWriteLeavesNoTrace
<1>1. ASSUME AuditInv, [Next /\ Observe]_<<vars, auditVars>>,
             op.step # "idle", op.request # Rollback, op' = Idle, ~Acknowledges, ~disturbed
      PROVE  Config' = before
  <2>1. Alone
    BY <1>1 DEF Alone, Idle
  <2>2. op' # op
    BY <1>1 DEF Idle
  <2>3. Next
    BY <1>1, <2>2 DEF vars
  <2>4. ~Loop
    BY <2>2 DEF Loop, SchedulerTick, StreamMoves
  <2>5. CASE op.step \in {"safety", "capture"}
    <3>1. UNCHANGED loopVars
      BY <2>3, <2>4, <2>5 DEF Next, Server, Ask, CheckSafety, TakeSnapshot, AskRollback, Capture,
         ApplyInterval, ApplyPriority, ApplyRestart, ApplyRollback, VerifyWrite, VerifyRollback,
         Undo, At
    <3>2. Config' = Config
      BY <3>1 DEF loopVars, Config
    <3> QED
      BY <1>1, <2>1, <2>5, <3>2 DEF AuditInv, Undisturbed, AsFound
  <2>6. CASE Undo
    BY <1>1, <2>1, <2>6, UndoRestores DEF AuditInv, Promises
  <2>7. op.step \in {"safety", "capture"} \/ Undo
    <3>1. op \in OpType
      BY <1>1 DEF AuditInv, Inv, TypeOK, OpType
    <3>2. op # Idle
      BY <2>1 DEF Alone
    <3>4. ASSUME ApplyInterval \/ ApplyPriority \/ ApplyRestart \/ ApplyRollback PROVE FALSE
      <4>1. op'.step \in {"verify", "undo"}
        BY <3>1, <3>4, OpMoves DEF ApplyInterval, ApplyPriority, ApplyRestart, ApplyRollback,
           Steps, OpType
      <4> QED
        BY <1>1, <4>1 DEF Idle
    <3>5. ASSUME VerifyWrite PROVE FALSE
      <4>1. ~ReadBackOk /\ GoTo("undo")
        BY <1>1, <3>5 DEF VerifyWrite, Acknowledges
      <4>2. op'.step = "undo"
        BY <3>1, <4>1, OpMoves DEF Steps
      <4> QED
        BY <1>1, <4>2 DEF Idle
    <3>6. ~VerifyRollback
      BY <1>1, KindOfRequest DEF VerifyRollback, At, AuditInv, Inv
    <3> QED
      BY <2>3, <2>4, <3>2, <3>4, <3>5, <3>6 DEF Next, Server, Ask, CheckSafety, TakeSnapshot,
         AskRollback, Capture
  <2> QED
    BY <2>5, <2>6, <2>7
<1>2. AuditInv /\ [Next /\ Observe]_<<vars, auditVars>> =>
        [/\ op.step # "idle" /\ op.request # Rollback /\ op' = Idle
         /\ ~Acknowledges /\ ~disturbed
         => Config' = before]_vars
  BY <1>1
<1> QED
  BY <1>2, AuditInvHolds, PTL DEF AuditSpec, FailedWriteLeavesNoTrace

\* In CRITICAL a write that nothing disturbed takes no stream below what CRITICAL asks
\* for: it was checked (safety_state_allows), or it does not raise the load (write_op);
\* and what an automatic rollback changes, the scheduler has chosen.
THEOREM CriticalIsRespected == AuditSpec => WritesRespectCritical
<1>1. ASSUME AuditInv, ApplyInterval \/ ApplyPriority \/ ApplyRestart \/ Undo,
             state = "CRITICAL", ~disturbed,
             NEW s \in Streams, interval'[s] < interval[s]
      PROVE  interval'[s] >= Table[priority'[s]]
  <2>1. /\ op \in OpType /\ interval \in [Streams -> Nat] /\ priority \in [Streams -> Priorities]
        /\ Inv
    BY <1>1 DEF AuditInv, Inv, TypeOK, OpType
  <2>2. op.step \in {"apply", "undo"}
    BY <1>1 DEF ApplyInterval, ApplyPriority, ApplyRestart, Undo, At
  <2>3. Alone
    BY <1>1, <2>2 DEF Alone, Idle
  <2>4. interval[s] \in Nat
    BY <2>1
  <2>5. CASE ApplyInterval
    <3>1. op.step = "apply" /\ op.request.kind = "interval"
      BY <2>5 DEF ApplyInterval, At
    <3>2. op.request \in Requests /\ op.request # Rollback
      BY <2>1, <3>1, KindOfRequest DEF Inv
    <3>3. op.request.stream \in Streams /\ op.request.value \in Nat
      BY <3>1, <3>2, RequestType
    <3>4. ~RaisesLoad(op.request)
      BY <1>1, <2>3, <3>1, <3>2 DEF AuditInv, Undisturbed, Allowed
    <3>5. ~(op.request.value < interval[op.request.stream])
      BY <3>1, <3>4 DEF RaisesLoad
    <3>6. interval' = [interval EXCEPT ![op.request.stream] = op.request.value]
      BY <2>5 DEF ApplyInterval
    <3>7. s = op.request.stream /\ interval'[s] = op.request.value
      BY <1>1, <2>1, <2>4, <3>3, <3>6
    <3> QED
      BY <1>1, <3>5, <3>7
  <2>6. CASE ApplyPriority
    <3>1. ApplySchedulerIntervals(Table, priority', interval)
      BY <1>1, <2>4, <2>6 DEF ApplyPriority
    <3>2. interval'[s] = interval[s] \/ interval'[s] = Table[priority'[s]]
      BY <3>1 DEF ApplySchedulerIntervals
    <3>3. priority' \in [Streams -> Priorities]
      <4>1. Inv'
        BY <2>1, <2>6, ApplyPriorityKeeps
      <4> QED
        BY <4>1 DEF Inv, TypeOK
    <3>4. Table[priority'[s]] \in Nat
      BY <3>3, TablesAreTables, TierIsInterval DEF Table
    <3> QED
      BY <1>1, <2>4, <3>2, <3>4
  <2>7. CASE ApplyRestart
    BY <1>1, <2>4, <2>7 DEF ApplyRestart
  <2>8. CASE Undo
    <3>1. Config' = Config
      BY <1>1, <2>3, <2>8, UndoRestores DEF AuditInv, Promises
    <3> QED
      BY <1>1, <2>4, <3>1 DEF Config
  <2> QED
    BY <1>1, <2>5, <2>6, <2>7, <2>8
<1>2. AuditInv =>
        [/\ ApplyInterval \/ ApplyPriority \/ ApplyRestart \/ Undo
         /\ state = "CRITICAL" /\ ~disturbed
         => \A s \in Streams :
              interval'[s] < interval[s] => interval'[s] >= Table[priority'[s]]]_vars
  BY <1>1
<1> QED
  BY <1>2, AuditInvHolds, PTL DEF WritesRespectCritical

\* A rollback that nothing disturbed reads back what its snapshot says of every stream
\* that it leaves in the same tier of the table (handle_rollback, apply_snapshot).
THEOREM RollbacksAreVerified == AuditSpec => RollbackIsVerified
<1>1. ASSUME AuditInv, VerifyRollback, op' = Idle, ~disturbed,
             \A s \in Streams : Table[before.priority[s]] = Table[op.target.priority[s]]
      PROVE  Restored(op.checking)
  <2>1. Alone /\ At("verify", {"rollback"})
    BY <1>1 DEF VerifyRollback, Alone, At, Idle
  <2> QED
    BY <1>1, <2>1 DEF AuditInv, Undisturbed, BackAgain, Checking, Restored
<1>2. AuditInv =>
        [/\ VerifyRollback /\ op' = Idle /\ ~disturbed
         /\ \A s \in Streams : Table[before.priority[s]] = Table[op.target.priority[s]]
         => Restored(op.checking)]_vars
  BY <1>1
<1> QED
  BY <1>2, AuditInvHolds, PTL DEF RollbackIsVerified
=============================================================================
