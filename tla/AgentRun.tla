-------------------------------- MODULE AgentRun --------------------------------
(***************************************************************************)
(* One run of the cloud agent (src/agent) against the control API.         *)
(*                                                                         *)
(* The agent is a process of its own: it sends one request, waits for the  *)
(* answer or gives up, and goes on.  The server has one thread, which      *)
(* serves requests in the order they came, the ones their caller gave up   *)
(* on included; it may crash and be restarted, which brings back the       *)
(* configuration it was started with but not the requests under way.       *)
(*                                                                         *)
(* A request is served in one step: what the scheduler and the reconnects  *)
(* do between its visits to the main loop is the subject of ControlPlane,  *)
(* whose CacheFollowsTable is used here: the scheduler last asked for what *)
(* its table says.  Left out: other clients of the API, the start-up check *)
(* of main.py, the reading of the metrics, and a main loop that keeps a    *)
(* caller waiting for more than five seconds.                              *)
(***************************************************************************)
EXTENDS SchedulerTables, SequencesExt, Integers

CONSTANTS
  StreamCount,     \* number of streams
  GoalCamera,      \* the stream the goal is about
  InitialPriority, \* priority of each stream in the configuration
  MaxActions,      \* max_actions_per_round
  MaxInterval,     \* max_infer_interval
  MaxRounds,       \* max_change_rounds
  MaxSnapshots,    \* the server's max_snapshots
  LlmAnswers,      \* sequences of calls the language model may propose
  Transport,       \* the HTTP library found: "urllib" or "requests"
  MaxGiveUps,      \* bound: answers that come too late or never
  MaxCrashes,      \* bound: crashes of the server
  MaxTicks         \* bound: changes of the scheduler's state

Streams == 1..StreamCount
Priorities == {"high", "normal", "low"}

\* What the language model may propose: any interval, and only a priority there is.
\* (A stream there is not is left out: the server changes nothing for it.)
Proposals ==
  [kind : {"interval"}, stream : Streams, value : Int]
    \union [kind : {"priority"}, stream : Streams, value : Priorities]

ASSUME AgentAssumption ==
  /\ StreamCount \in Nat \ {0}
  /\ GoalCamera \in Streams
  /\ InitialPriority \in [Streams -> Priorities]
  /\ {MaxActions, MaxInterval, MaxRounds, MaxSnapshots} \subseteq Nat \ {0}
  /\ LlmAnswers \subseteq Seq(Proposals)
  /\ Transport \in {"urllib", "requests"}
  /\ {MaxGiveUps, MaxCrashes, MaxTicks} \subseteq Nat

VARIABLES
  state, recoveryStep, \* the scheduler's
  priority, interval,  \* the streams' configuration
  file,                \* the baseline snapshot on disk, how many are newer
  inbox,               \* requests the server has not answered, oldest first
  window,              \* the scheduler's state when the benchmark under way began
  reply,               \* the answer the agent has not yet read
  pc,                  \* the call the agent waits for, or how its run ended
  run,                 \* what the agent remembers
  late,                \* the deadline has passed
  giveUps, crashes, ticks,
  mine,                \* history: streams that run at a setting of the agent's
  refused,             \* history: the last rollback served changed nothing
  measured,            \* history: the configuration the last window began with
  disturbed            \* history: scheduler or crash moved something since then

scheduler == <<state, recoveryStep>>
server == <<state, recoveryStep, priority, interval, file, window, refused, mine, measured>>
budget == <<giveUps, crashes, ticks>>
agent == <<pc, run, late>>
vars == <<server, inbox, reply, agent, budget, disturbed>>

Config == [priority |-> priority, interval |-> interval]
InitialConfig == [priority |-> InitialPriority, interval |-> [s \in Streams |-> 0]]

Table == TableFor(state, recoveryStep)

\* A call, and what the answer to it may carry.
Call(kind) == [kind |-> kind, stream |-> 0, value |-> 0]
Answer(is) == [is |-> is, config |-> InitialConfig, from |-> "NORMAL", to |-> "NORMAL"]
NoAnswer == Answer("none")
Lost == Answer("lost")

Ended == {"kept", "gaveUp", "escaped"}

------------------------------------------------------------------------------
(* The server *)

\* Faulty: every request on a thread of its own.
AcceptedAtOnce == {i \in DOMAIN inbox : window = "none" \/ inbox[i].kind # "benchmark"}

\* accept_loop handles a connection before it accepts the next.
Accepted == {i \in DOMAIN inbox : i = 1 /\ window = "none"}

\* Request i leaves the inbox; its answer reaches the agent if that still waits for it.
Respond(i, answer) ==
  /\ inbox' = RemoveAt(inbox, i)
  /\ reply' = IF i = Len(inbox) /\ pc \notin Ended THEN answer ELSE reply

Reads(i) ==
  /\ inbox[i].kind \in {"streams", "scheduler"}
  /\ Respond(i, [Answer("ok") EXCEPT !.config = Config, !.to = state])
  /\ UNCHANGED server

\* A smaller number is a higher rank.
Rank(p) == CASE p = "high" -> 0 [] p = "normal" -> 1 [] p = "low" -> 2

RaisesLoad(r) ==
  IF r.kind = "interval" THEN r.value < interval[r.stream]
                         ELSE Rank(r.value) < Rank(priority[r.stream])

\* SnapshotStore::save, of a snapshot other than the baseline: the newest MaxSnapshots
\* files stay.
SavesAnother ==
  file' = [file EXCEPT !.newer = @ + 1, !.there = @ /\ file.newer + 1 < MaxSnapshots]

\* A save that fails may leave a file that cannot be read, and prunes nothing.
FailsToSave ==
  \/ UNCHANGED file
  \/ file.newer < MaxSnapshots /\ file' = [file EXCEPT !.newer = @ + 1]

Snapshots(i) ==
  /\ inbox[i].kind = "snapshot"
  /\ \/ /\ file' = [there |-> TRUE, newer |-> 0, config |-> Config]
        /\ Respond(i, Answer("ok"))
     \/ Respond(i, Answer("error")) /\ UNCHANGED file
  /\ UNCHANGED <<scheduler, priority, interval, window, refused, mine, measured>>

\* write_op: the safety check, the snapshot of what is, the change.
Refuses(i) ==
  /\ inbox[i].kind \in {"interval", "priority"}
  /\ \/ RaisesLoad(inbox[i]) /\ state = "CRITICAL" /\ UNCHANGED file
     \/ FailsToSave
  /\ Respond(i, Answer("error"))
  /\ UNCHANGED <<scheduler, priority, interval, window, refused, mine, measured>>

Writes(i) ==
  LET r == inbox[i]
  IN  /\ r.kind \in {"interval", "priority"}
      /\ ~(RaisesLoad(r) /\ state = "CRITICAL")
      /\ IF r.kind = "interval"
           THEN interval' = [interval EXCEPT ![r.stream] = r.value] /\ UNCHANGED priority
           ELSE /\ priority' = [priority EXCEPT ![r.stream] = r.value]
                /\ interval' = IF Table[r.value] = Table[priority[r.stream]] THEN interval
                               ELSE [interval EXCEPT ![r.stream] = Table[r.value]]
      /\ SavesAnother
      /\ mine' = mine \union {r.stream}
      /\ Respond(i, Answer("ok"))
      /\ UNCHANGED <<scheduler, window, refused, measured>>

\* handle_rollback, refused: no such snapshot, or none of what is could be saved.
RefusesRollback(i) ==
  /\ inbox[i].kind = "rollback"
  /\ IF file.there THEN FailsToSave ELSE UNCHANGED file
  /\ refused' = TRUE
  /\ Respond(i, Answer("error"))
  /\ UNCHANGED <<scheduler, priority, interval, window, mine, measured>>

\* handle_rollback: the scheduler's table wins where the restored priority is of
\* another interval than the present one, and then the answer is VERIFY_FAILED.
RollsBack(i) ==
  LET c == file.config
  IN  /\ inbox[i].kind = "rollback" /\ file.there
      /\ SavesAnother
      /\ priority' = c.priority
      /\ interval' = [s \in Streams |->
           IF Table[c.priority[s]] = Table[priority[s]] THEN c.interval[s] ELSE Table[c.priority[s]]]
      /\ mine' = {} /\ refused' = FALSE
      /\ Respond(i, Answer(IF interval' = c.interval THEN "ok" ELSE "error"))
      /\ UNCHANGED <<scheduler, window, measured>>

\* handle_benchmark, which keeps the server's thread for the whole window.
BeginWindow(i) ==
  /\ inbox[i].kind = "benchmark"
  /\ window' = state /\ measured' = Config /\ disturbed' = FALSE
  /\ UNCHANGED <<scheduler, priority, interval, file, refused, mine, inbox, reply>>

EndWindow ==
  /\ window # "none"
  /\ \E i \in DOMAIN inbox :
       /\ inbox[i].kind = "benchmark"
       /\ Respond(i, [Answer("ok") EXCEPT !.from = window, !.to = state])
  /\ window' = "none"
  /\ UNCHANGED <<scheduler, priority, interval, file, refused, mine, measured>>

Serve(i) ==
  \/ BeginWindow(i)
  \/ /\ Reads(i) \/ Snapshots(i) \/ Refuses(i) \/ Writes(i) \/ RefusesRollback(i) \/ RollsBack(i)
     /\ UNCHANGED disturbed

Server ==
  /\ \/ \E i \in Accepted : Serve(i)
     \/ EndWindow /\ UNCHANGED disturbed
  /\ UNCHANGED <<agent, budget>>

Scheduler == INSTANCE SchedulerModes

\* A change of the scheduler's state reaches the streams whose table entry changes.
SchedulerTick ==
  /\ ticks < MaxTicks /\ ticks' = ticks + 1
  /\ Scheduler!Next
  /\ LET now == TableFor(state', recoveryStep')
     IN  interval' = [s \in Streams |->
           IF now[priority[s]] = Table[priority[s]] THEN interval[s] ELSE now[priority[s]]]
  /\ disturbed' = TRUE
  /\ UNCHANGED <<priority, file, window, refused, mine, measured, inbox, reply, agent,
                 giveUps, crashes>>

\* A crash in the middle of a save leaves a file that cannot be read.
Crash ==
  /\ crashes < MaxCrashes /\ crashes' = crashes + 1
  /\ state' = "NORMAL" /\ recoveryStep' = 0
  /\ priority' = InitialConfig.priority /\ interval' = InitialConfig.interval
  /\ IF inbox # <<>> /\ Head(inbox).kind \in {"interval", "priority", "rollback"}
       THEN FailsToSave ELSE UNCHANGED file
  /\ inbox' = <<>> /\ window' = "none"
  /\ reply' = IF inbox = <<>> THEN reply ELSE Lost
  /\ mine' = {} /\ disturbed' = TRUE
  /\ UNCHANGED <<refused, measured, agent, giveUps, ticks>>

------------------------------------------------------------------------------
(* The plan *)

Harmless(call) ==
  \/ call.stream # GoalCamera
  \/ IF call.kind = "interval" THEN call.value = 0 ELSE call.value = "high"

Clamped(call) ==
  IF call.kind = "priority" THEN call
  ELSE [call EXCEPT !.value = IF @ < 0 THEN 0 ELSE IF @ < MaxInterval THEN @ ELSE MaxInterval]

\* The members of a finite set, one after another, from the sets of those that come
\* before each of them (with SetToSortSeq instead nothing could be proved of a plan).
InOrder(S, before) ==
  [n \in 1..Cardinality(S) |-> CHOOSE s \in S : Cardinality(before[s]) = n - 1]

AtMost(n) == IF n < MaxActions THEN n ELSE MaxActions

\* Whatever comes after a harmless call about the same stream is dropped.
Fresh(calls, i) ==
  \A j \in 1..(i - 1) : Harmless(Clamped(calls[j])) => calls[j].stream # calls[i].stream

\* clean_llm_candidates
Clean(calls) ==
  LET fit == {i \in DOMAIN calls : Harmless(Clamped(calls[i])) /\ Fresh(calls, i)}
      order == InOrder(fit, [i \in fit |-> {j \in fit : j < i}])
  IN  [n \in 1..AtMost(Cardinality(fit)) |-> Clamped(calls[order[n]])]

\* Faulty: the step is the number of the round.
StepUnclamped(attempt) == attempt

Step(attempt) == IF attempt < MaxInterval THEN attempt ELSE MaxInterval

Before(seen, s, t) ==
  \/ Rank(seen.priority[s]) > Rank(seen.priority[t])
  \/ seen.priority[s] = seen.priority[t] /\ s < t

\* deterministic_plan: the least urgent streams that run at full rate, from the
\* configuration observed.
Deterministic(seen, attempt) ==
  LET candidates == {s \in Streams \ {GoalCamera} : seen.interval[s] = 0}
      order == InOrder(candidates,
                       [s \in candidates |-> {t \in candidates : Before(seen, t, s)}])
  IN  [n \in 1..AtMost(Cardinality(candidates)) |->
         [kind |-> "interval", stream |-> order[n], value |-> Step(attempt)]]

Plan(seen, calls) ==
  IF Clean(calls) # <<>> THEN Clean(calls) ELSE Deterministic(seen, 1)

------------------------------------------------------------------------------
(* The agent.  Each of its steps reads an answer and sends the next call.   *)

\* The calls in front of which _check_deadline stands.
Checked == {"streams", "scheduler", "check", "before", "after"}

Request(step) ==
  CASE step \in {"streams", "readback"} -> Call("streams")
    [] step \in {"scheduler", "check"}  -> Call("scheduler")
    [] step \in {"before", "after"}     -> Call("benchmark")
    [] step = "baseline"                -> Call("snapshot")
    [] step = "restore"                 -> Call("rollback")

Send(step, call, m) == pc' = step /\ inbox' = Append(inbox, call) /\ run' = m

End(how, m) == pc' = how /\ run' = m /\ UNCHANGED inbox

\* Faulty: an abort leaves things as they are.
AbortAtOnce(m) == End("gaveUp", m)

\* The handler of RunAborted: back to the baseline, if there is one.
Abort(m) ==
  IF m.known THEN Send("restore", Request("restore"), [m EXCEPT !.aborting = TRUE])
             ELSE End("gaveUp", m)

Go(step, m) ==
  IF late /\ step \in Checked THEN Abort(m) ELSE Send(step, Request(step), m)

\* _observe also has a time limit of its own.
GoObserve(step, m) == Go(step, m) \/ Abort(m)

\* What remains of the plan, one action after another, then the after window.
Proceed(plan) == Go(IF plan = <<>> THEN "after" ELSE "check", [run EXCEPT !.plan = plan])

\* A round with an empty plan is the last.
BeginRound(round, plan) ==
  LET m == [run EXCEPT !.round = round, !.plan = plan, !.seen = InitialConfig]
  IN  IF plan = <<>> /\ ~late THEN End("gaveUp", m) ELSE Go("check", m)

ReadStreams(a) ==
  /\ pc = "streams"
  /\ IF a.is = "ok" THEN GoObserve("scheduler", [run EXCEPT !.seen = a.config])
                    ELSE GoObserve("streams", run)

\* With the observation complete: the check for CRITICAL and the baseline, or a plan.
ReadScheduler(a) ==
  /\ pc = "scheduler"
  /\ IF a.is # "ok" THEN GoObserve("scheduler", run)
     ELSE CASE run.phase = "start" ->
                 IF a.to = "CRITICAL" THEN Abort(run)
                 ELSE Go("baseline", [run EXCEPT !.baseline = run.seen, !.seen = InitialConfig])
            [] run.phase = "plan" ->
                 \E calls \in LlmAnswers : BeginRound(1, Plan(run.seen, calls))
            [] run.phase = "replan" ->
                 BeginRound(run.round + 1, Deterministic(run.seen, run.round + 1))

\* Nothing catches the failure of the snapshot.
ReadBaseline(a) ==
  /\ pc = "baseline"
  /\ IF a.is = "ok" THEN Go("before", [run EXCEPT !.known = TRUE, !.phase = "plan"])
                    ELSE End("escaped", run)

ReadBefore(a) ==
  /\ pc = "before"
  /\ IF a.is = "ok" THEN Go("streams", [run EXCEPT !.spoilt = (a.to = "CRITICAL")])
                    ELSE Abort(run)

\* Faulty: an action waits until the scheduler has left CRITICAL.
ReadCheckPatiently(a) ==
  /\ pc = "check"
  /\ IF a.is = "ok" /\ a.to # "CRITICAL" THEN Send("write", Head(run.plan), run)
                                         ELSE Send("check", Request("check"), run)

\* _run_bounded_change: an action is skipped in CRITICAL, and when its check fails.
ReadCheck(a) ==
  /\ pc = "check"
  /\ IF a.is = "ok" /\ a.to # "CRITICAL" THEN Send("write", Head(run.plan), run)
                                         ELSE Proceed(Tail(run.plan))

\* A write that failed is not tried again, and does not stop the others.
ReadWrite(a) == pc = "write" /\ Proceed(Tail(run.plan))

\* check_goal_met.  "trivial": the latency was low before anything was changed;
\* "good": latency, rate and drops are as the goal wants them.
ReadAfter(a) ==
  /\ pc = "after"
  /\ \/ Abort(run)   \* no answer, a window in CRITICAL, or no percentile in it
     \/ /\ a.is = "ok" /\ ~run.spoilt /\ a.to # "CRITICAL"
        /\ \E trivial \in {FALSE, run.round = 1}, good \in BOOLEAN :
             IF trivial \/ (good /\ a.from = a.to) THEN End("kept", run) ELSE Go("restore", run)

\* Faulty: a rollback that failed is as good as another.
NotRestoredGoesOn ==
  IF run.aborting \/ run.round = MaxRounds THEN End("gaveUp", run)
  ELSE Go("streams", [run EXCEPT !.phase = "replan"])

\* A failed rollback aborts the run, and that tries once more.
NotRestored == IF run.aborting THEN End("gaveUp", run) ELSE Abort(run)

\* rollback_to: the request, then the comparison with what was observed.
ReadRestore(a) ==
  /\ pc = "restore"
  /\ IF a.is = "ok" THEN Go("readback", run) ELSE NotRestored

ReadBack(a) ==
  /\ pc = "readback"
  /\ IF a.is # "ok" \/ a.config # run.baseline THEN NotRestored
     ELSE IF run.aborting \/ run.round = MaxRounds THEN End("gaveUp", run)
     ELSE Go("streams", [run EXCEPT !.phase = "replan"])

\* "requests" reports a network failure by exceptions of its own, which only
\* rollback_to catches.
Escapes(a) ==
  a.is = "lost" /\ Transport = "requests" /\ pc \notin {"restore", "readback"} \union Ended

Reading(a) ==
  IF Escapes(a) THEN End("escaped", run)
  ELSE \/ ReadStreams(a) \/ ReadScheduler(a) \/ ReadBaseline(a) \/ ReadBefore(a)
       \/ ReadCheck(a) \/ ReadWrite(a) \/ ReadAfter(a) \/ ReadRestore(a) \/ ReadBack(a)

\* The answer has come, or the agent has waited long enough.
Agent ==
  /\ \/ reply # NoAnswer /\ Reading(reply) /\ UNCHANGED giveUps
     \/ /\ reply = NoAnswer /\ giveUps < MaxGiveUps
        /\ Reading(Lost) /\ giveUps' = giveUps + 1
  /\ reply' = NoAnswer
  /\ UNCHANGED <<server, late, crashes, ticks, disturbed>>

Expire ==
  /\ ~late /\ late' = TRUE
  /\ UNCHANGED <<server, inbox, reply, pc, run, budget, disturbed>>

------------------------------------------------------------------------------
Init ==
  /\ Scheduler!Init
  /\ priority = InitialConfig.priority /\ interval = InitialConfig.interval
  /\ file = [there |-> FALSE, newer |-> 0, config |-> InitialConfig]
  /\ inbox = <<Call("streams")>> /\ window = "none" /\ reply = NoAnswer
  /\ pc = "streams"
  /\ run = [phase |-> "start", round |-> 0, plan |-> <<>>, seen |-> InitialConfig,
            baseline |-> InitialConfig, known |-> FALSE, spoilt |-> FALSE, aborting |-> FALSE]
  /\ late = FALSE
  /\ giveUps = 0 /\ crashes = 0 /\ ticks = 0
  /\ mine = {} /\ refused = FALSE /\ measured = InitialConfig /\ disturbed = FALSE

Next == Agent \/ Server \/ SchedulerTick \/ Crash \/ Expire

Spec == Init /\ [][Next]_vars /\ WF_vars(Agent) /\ WF_vars(Server)

------------------------------------------------------------------------------
(* Properties *)

Configs == [priority : [Streams -> Priorities], interval : [Streams -> Nat]]
Changes ==
  [kind : {"interval"}, stream : Streams, value : 0..MaxInterval]
    \union [kind : {"priority"}, stream : Streams, value : Priorities]

\* Types; no planned change asks for more than max_infer_interval, the snapshot a run
\* goes back to survives the snapshots its own writes and rollbacks take, and a run
\* that waits waits for exactly one answer.
TypeOK ==
  /\ state \in States /\ recoveryStep \in 0..LastRecoveryStep
  /\ Config \in Configs
  /\ file \in [there : BOOLEAN, newer : 0..MaxSnapshots, config : Configs]
  /\ window \in States \union {"none"}
  /\ pc \in Checked \union {"baseline", "write", "restore", "readback"} \union Ended
  /\ run \in [phase : {"start", "plan", "replan"}, round : 0..MaxRounds, plan : Seq(Changes),
              seen : Configs, baseline : Configs, known : BOOLEAN, spoilt : BOOLEAN,
              aborting : BOOLEAN]
  /\ run.known => file.there
  /\ pc \notin Ended => (reply = NoAnswer) = (inbox # <<>>)
  /\ mine \subseteq Streams

IsWrite(i) == inbox[i].kind \in {"interval", "priority"}

\* Whatever is lost, late or refused in whichever round, never more than max_actions
\* streams run at a setting of the agent's: a new round starts only from the baseline.
ChangeIsBounded == Cardinality(mine) <= MaxActions

\* A configuration that is kept is the one the last window measured, and no write the
\* agent gave up on can still change it, unless the scheduler or a crash did.
KeptIsMeasured ==
  pc = "kept" /\ ~disturbed =>
    Config = measured /\ \A i \in DOMAIN inbox : ~IsWrite(i)

\* What executor.py says of the deadline and main.py of exit code 1: a run that ended
\* without success is rolled back.  Once the server has answered what was sent, no
\* stream runs at a setting of the agent's, unless the server refused the rollback.
GivenUpLeavesNoTrace ==
  pc \in {"gaveUp", "escaped"} /\ inbox = <<>> => mine = {} \/ refused

\* Every run ends, though calls fail and rounds are repeated.
RunEnds == <>(pc \in Ended)
=============================================================================
