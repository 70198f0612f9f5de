------------------------------ MODULE ControlPlane ------------------------------
(***************************************************************************)
(* The write operations of the HTTP control plane and the main loop they   *)
(* work on.                                                                *)
(*                                                                         *)
(* The control server serves one request after another on one thread.  A   *)
(* write takes several visits to the main loop (on_main_loop): it reads    *)
(* the status, checks the safety state, captures a snapshot, applies the   *)
(* change and reads it back.  Between two visits the scheduler may change  *)
(* its table and an RTSP stream may be reconnected; what they may do is    *)
(* taken from SchedulerModes and StreamModes.                              *)
(*                                                                         *)
(* Left out: refusals that change nothing but the restart throttle (a bad  *)
(* parameter, an unknown stream or snapshot, a restart too soon), so any   *)
(* valid request may come at any time; the audit log; a visit that         *)
(* outlasts the five seconds a caller waits for it; and a wall clock that  *)
(* steps back, which would order the snapshots otherwise than by age.      *)
(***************************************************************************)
EXTENDS SchedulerTables, StreamModes, Sequences

CONSTANTS
  StreamCount,     \* number of streams
  Rtsp,            \* those that are RTSP sources
  InitialPriority, \* priority of each stream in the configuration
  Requests,        \* the writes clients ask for
  MaxSnapshots     \* max_snapshots

Streams == 1..StreamCount
Priorities == {"high", "normal", "low"}

Writes ==
  [kind : {"interval"}, stream : Streams, value : Nat]
    \union [kind : {"priority"}, stream : Streams, value : Priorities]
    \union [kind : {"restart"}, stream : Streams, value : {0}]

ASSUME ControlAssumption ==
  /\ StreamCount \in Nat \ {0}
  /\ Rtsp \subseteq Streams
  /\ InitialPriority \in [Streams -> Priorities]
  /\ Requests \subseteq Writes
  /\ MaxSnapshots \in Nat \ {0}

VARIABLES
  state, recoveryStep, \* the scheduler's
  priority,  \* runtime_priorities_
  applied,   \* scheduler_intervals_: what the scheduler last asked for
  interval,  \* the streams' inference intervals
  mode,      \* the streams' reconnect states
  snapshots, \* the saved configurations, newest first
  op         \* the operation under way: its next step and what it remembers

loopVars == <<state, recoveryStep, priority, applied, interval, mode>>
vars == <<loopVars, snapshots, op>>

Config == [priority |-> priority, interval |-> interval]

Rollback == [kind |-> "rollback", stream |-> 0, value |-> 0]
Nothing == [priority |-> <<>>, interval |-> <<>>]
Idle == [step |-> "idle", request |-> Rollback, target |-> Nothing, checking |-> 0]

Table == TableFor(state, recoveryStep)

------------------------------------------------------------------------------
(* The main loop *)

\* apply_scheduler_intervals, for the given table and priorities, on streams that
\* run at the given intervals: only what the scheduler changed its mind about.
ApplySchedulerIntervals(table, tiers, running) ==
  /\ applied' = [s \in Streams |-> table[tiers[s]]]
  /\ interval' = [s \in Streams |->
       IF applied[s] # table[tiers[s]] THEN table[tiers[s]] ELSE running[s]]

Scheduler == INSTANCE SchedulerModes

\* tick_scheduler, when the scheduler changes its state.
SchedulerTick ==
  /\ Scheduler!Next
  /\ ApplySchedulerIntervals(TableFor(state', recoveryStep'), priority, interval)
  /\ UNCHANGED <<priority, mode, snapshots, op>>

\* A stream fails, is rebuilt, or verified.  A rebuild makes a new SourceBin,
\* whose interval is 0.
StreamMoves(s) ==
  /\ \E m \in StreamStates :
       /\ <<mode[s], m>> \in Moves
       /\ mode' = [mode EXCEPT ![s] = m]
       /\ interval' = IF m = "CONNECTING" THEN [interval EXCEPT ![s] = 0] ELSE interval
  /\ UNCHANGED <<state, recoveryStep, priority, applied, snapshots, op>>

------------------------------------------------------------------------------
(* The control server *)

Answer == op' = Idle
GoTo(step) == op' = [op EXCEPT !.step = step]
At(step, kinds) == op.step = step /\ op.request.kind \in kinds

\* A smaller number is a higher rank.
Rank(p) == CASE p = "high" -> 0 [] p = "normal" -> 1 [] p = "low" -> 2

\* Restarts and rollbacks are taken for harmless.
RaisesLoad(r) ==
  CASE r.kind = "interval" -> r.value < interval[r.stream]
    [] r.kind = "priority" -> Rank(r.value) < Rank(priority[r.stream])
    [] r.kind = "restart"  -> FALSE

\* Faulty: what raises the load is not checked.
AskUnchecked(r) ==
  /\ op = Idle
  /\ op' = [Idle EXCEPT !.request = r, !.step = "capture"]
  /\ UNCHANGED <<loopVars, snapshots>>

\* write_op up to the status it reads.
Ask(r) ==
  /\ op = Idle
  /\ op' = [Idle EXCEPT !.request = r,
                        !.step = IF RaisesLoad(r) THEN "safety" ELSE "capture"]
  /\ UNCHANGED <<loopVars, snapshots>>

\* safety_state_allows, or the write is refused.
CheckSafety ==
  /\ op.step = "safety"
  /\ IF state = "CRITICAL" THEN Answer ELSE GoTo("capture")
  /\ UNCHANGED <<loopVars, snapshots>>

\* Faulty: one snapshot too many is kept, or the wrong ones.
NewestOffByOne(n, seq) == SubSeq(seq, 1, IF Len(seq) <= n THEN Len(seq) ELSE n + 1)
Oldest(n, seq) == IF Len(seq) <= n THEN seq ELSE SubSeq(seq, Len(seq) - n + 1, Len(seq))

\* SnapshotStore::save prunes the oldest beyond max_snapshots.
Newest(n, seq) == SubSeq(seq, 1, IF Len(seq) < n THEN Len(seq) ELSE n)

SaveSnapshot == snapshots' = Newest(MaxSnapshots, <<Config>> \o snapshots)

\* handle_snapshot; one that cannot be saved changes nothing.
TakeSnapshot ==
  /\ op = Idle
  /\ SaveSnapshot
  /\ UNCHANGED <<loopVars, op>>

\* handle_rollback up to the snapshot it has loaded.
AskRollback ==
  /\ op = Idle
  /\ \E i \in DOMAIN snapshots :
       op' = [Idle EXCEPT !.step = "capture", !.target = snapshots[i]]
  /\ UNCHANGED <<loopVars, snapshots>>

\* capture_and_save_snapshot: nothing is changed without a way back.
Capture ==
  /\ op.step = "capture"
  /\ \/ SaveSnapshot /\ GoTo("apply")
     \/ UNCHANGED snapshots /\ Answer
  /\ UNCHANGED loopVars

ApplyInterval ==
  /\ At("apply", {"interval"})
  /\ interval' = [interval EXCEPT ![op.request.stream] = op.request.value]
  /\ GoTo("verify")
  /\ UNCHANGED <<state, recoveryStep, priority, applied, mode, snapshots>>

\* Faulty: the new tier waits for the scheduler's next change.
ApplyPriorityLater ==
  /\ At("apply", {"priority"})
  /\ priority' = [priority EXCEPT ![op.request.stream] = op.request.value]
  /\ GoTo("verify")
  /\ UNCHANGED <<state, recoveryStep, applied, interval, mode, snapshots>>

ApplyPriority ==
  /\ At("apply", {"priority"})
  /\ LET s == op.request.stream
     IN  IF priority[s] = op.request.value
           THEN UNCHANGED <<priority, applied, interval>>
           ELSE /\ priority' = [priority EXCEPT ![s] = op.request.value]
                /\ ApplySchedulerIntervals(Table, priority', interval)
  /\ GoTo("verify")
  /\ UNCHANGED <<state, recoveryStep, mode, snapshots>>

\* The restart counts as a failure of the stream, and may be its last.
ApplyRestart ==
  /\ At("apply", {"restart"})
  /\ LET s == op.request.stream
     IN  IF s \notin Rtsp \/ mode[s] = "FAILED"
           THEN GoTo("undo") /\ UNCHANGED mode
           ELSE /\ \E m \in {"RECONNECTING", "FAILED"} : mode' = [mode EXCEPT ![s] = m]
                /\ GoTo("verify")
  /\ UNCHANGED <<state, recoveryStep, priority, applied, interval, snapshots>>

\* Faulty: the scheduler's intervals win, whether it changed its mind or not.
ApplySnapshotForced(c) ==
  /\ priority' = c.priority
  /\ applied' = [s \in Streams |-> Table[c.priority[s]]]
  /\ interval' = applied'
  /\ UNCHANGED <<state, recoveryStep, mode, snapshots>>

\* apply_snapshot: restore, then "resync with the scheduler's table".
ApplySnapshot(c) ==
  /\ priority' = c.priority
  /\ ApplySchedulerIntervals(Table, c.priority, c.interval)
  /\ UNCHANGED <<state, recoveryStep, mode, snapshots>>

ApplyRollback ==
  /\ At("apply", {"rollback"})
  /\ ApplySnapshot(op.target)
  /\ op' = [op EXCEPT !.step = "verify", !.checking = 1]

ReadBackOk ==
  LET r == op.request
  IN  CASE r.kind = "interval" -> interval[r.stream] = r.value
        [] r.kind = "priority" -> priority[r.stream] = r.value
        [] r.kind = "restart"  -> mode[r.stream] \in {"RECONNECTING", "CONNECTING"}

VerifyWrite ==
  /\ At("verify", {"interval", "priority", "restart"})
  /\ IF ReadBackOk THEN Answer ELSE GoTo("undo")
  /\ UNCHANGED <<loopVars, snapshots>>

Restored(s) ==
  priority[s] = op.target.priority[s] /\ interval[s] = op.target.interval[s]

\* One stream after another; the first that differs ends it, and nothing is undone.
VerifyRollback ==
  /\ At("verify", {"rollback"})
  /\ IF Restored(op.checking) /\ op.checking < StreamCount
       THEN op' = [op EXCEPT !.checking = @ + 1]
       ELSE Answer
  /\ UNCHANGED <<loopVars, snapshots>>

\* A write that failed is rolled back to the snapshot it took, the newest one.
Undo ==
  /\ op.step = "undo"
  /\ ApplySnapshot(Head(snapshots))
  /\ Answer

------------------------------------------------------------------------------
Init ==
  /\ Scheduler!Init
  /\ priority = InitialPriority
  /\ applied = [s \in Streams |-> 0]
  /\ interval = [s \in Streams |-> 0]
  /\ mode = [s \in Streams |-> IF s \in Rtsp THEN "CONNECTING" ELSE "RUNNING"]
  /\ snapshots = <<>>
  /\ op = Idle

Loop == SchedulerTick \/ \E s \in Rtsp : StreamMoves(s)

Server ==
  \/ \E r \in Requests : Ask(r)
  \/ CheckSafety \/ TakeSnapshot \/ AskRollback \/ Capture
  \/ ApplyInterval \/ ApplyPriority \/ ApplyRestart \/ ApplyRollback
  \/ VerifyWrite \/ VerifyRollback \/ Undo

Next == Loop \/ Server

Spec == Init /\ [][Next]_vars

------------------------------------------------------------------------------
(* Properties *)

Configs == [priority : [Streams -> Priorities], interval : [Streams -> Nat]]
Steps == {"idle", "safety", "capture", "apply", "verify", "undo"}

\* Types; a pre-change snapshot is there to go back to while a write needs it, and
\* no more snapshots are kept than max_snapshots.
TypeOK ==
  /\ state \in States
  /\ recoveryStep \in 0..LastRecoveryStep
  /\ priority \in [Streams -> Priorities]
  /\ applied \in [Streams -> Nat]
  /\ interval \in [Streams -> Nat]
  /\ mode \in [Streams -> StreamStates]
  /\ snapshots \in Seq(Configs) /\ Len(snapshots) <= MaxSnapshots
  /\ op \in [step : Steps, request : Requests \union {Rollback},
             target : Configs \union {Nothing}, checking : 0..StreamCount]
  /\ op.step \in {"apply", "verify", "undo"} => snapshots # <<>>
  /\ op.step # "idle" /\ op.request = Rollback => op.target \in Configs

\* What the scheduler believes it applied is what its table asks for, whichever
\* priorities the operations set and whatever they restore: otherwise it would
\* leave a stream alone whose interval it ought to change.
CacheFollowsTable == \A s \in Streams : applied[s] = Table[priority[s]]
=============================================================================
