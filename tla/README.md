# Jetedge-Agent in TLA+

Jetedge-Agent is a DeepStream video-analytics server for Jetson boards. One
process (`jetedge_server`, C++) builds a GStreamer pipeline from files and RTSP
cameras, runs a detector, derives events from tracks, asks cloud models about
some of them, throttles itself when the board gets hot, reconnects cameras and
exposes an HTTP control plane. A Python agent drives that control plane.

This directory specifies the parts of it whose correctness depends on order,
time or failure. Paths below are relative to `src/`.

## 1. Inventory

### Threads

| thread | runs |
|---|---|
| GLib main loop | bus messages, the scheduler timer, the RTSP watchdog timer, every closure of `on_main_loop` |
| GStreamer streaming threads (several) | pad probes: end of stream, events, detections, latency, first frames |
| LLM workers (`cloud.workers`) | dequeue, circuit breaker, HTTP call, result file |
| control server thread (one) | accepts a connection, serves it to the end, then the next |
| agent process | plan, apply, validate and roll back over HTTP |

### Components

| component | state | operations | talks to | what makes it correct |
|---|---|---|---|---|
| Runtime scheduler, `src/scheduler/scheduler_policy.cpp` | state, recovery step, time of entry, cooldown deadline, budget window | `update(sample, now)` from a timer of the main loop | gives the pipeline an inference interval per priority tier | critical heat acts at once; load comes back only when cooled and gradually; cooldown and budget hold on every path; no state is a trap |
| Reconnect policy and watchdog, `reconnect_policy.cpp`, `pipeline.cpp` 660-830, 1290-1330 | state, failures and attempts of a stream; deadline; verification window | watchdog tick, bus error, restart, rebuild of the chain | elements of the stream, muxer pads, bus, camera | a watched stream has a live chain; a window vouches for one connection; every attempt is paid for by a failure; stalls are seen; retries end; a good camera ends up running |
| End-of-stream probes, `pipeline.cpp` 589-655, 735-800 | two parallel lists of pads and probe ids | install, clear, remove one, `on_stream_eos` | reconnects on the main loop, streaming threads, the event engine | an end of stream flushes its own stream; only live pads are touched; every pad carries a probe |
| LLM router, `src/llm/llm_router.cpp`, `request_queue.h`, `circuit_breaker.cpp`, `http_client.cpp` | bounded priority queue, two breakers, one HTTP handle | enqueue, dequeue, gate, attempt, retry, record, stop | streaming threads and the main loop submit, the cloud answers | the queue sheds the right request; a breaker follows its provider and never wedges; stop returns |
| Control plane, `src/control/control_server.cpp`, `pipeline.cpp` 895-1220 | write mutex, audit, the pipeline's intervals, priorities and the scheduler's interval cache | `write_op` in eight steps, rollback, snapshot, restart | main loop through `on_main_loop` (with a timeout), snapshot store | a refused or failed write leaves no trace; a rollback restores what was saved; the scheduler and the operator do not undo each other unnoticed |
| HTTP server, `src/control/http_server.cpp` | listening socket, running flag, one thread | accept loop, one connection after the other, stop | control plane, agent | a request is served once, in order, also when its caller has given up; a slow client is bounded; stop ends the thread wherever it is |
| Snapshot, error and audit stores, `src/control/*_store.cpp` | files, a bounded ring | save and prune, list, load, add | control plane | pruning keeps the newest; a torn file does no harm |
| Event engine and probe, `src/events/` | tracks and count latches of each stream | a frame's objects, flush at end of stream | streaming threads, LLM router, key frames | each appearance has one disappearance; a count fires once per crossing |
| Metrics registry, `src/metrics/metrics_registry.cpp` | pending frames, samples of the latency, counters | begin, end, watermark, samples since | probes, control plane, agent | an end meets its own begin, however many frames are dropped; a window reads its own samples and all of them |
| Cloud agent, `agent/` | baseline, plan, round, deadline | observe, snapshot, measure, plan, change, validate, roll back | HTTP server | a run ends, with what it measured kept or with nothing of its own left |
| Configuration, `src/common/config_loader.cpp` | limits, defaults | load | main | numbers that belong together fit, whichever of them is left to its default |
| `main.cpp` with `Pipeline::build`, `run`, `on_main_loop`, `release_resources` | what has been built, the loop flag, closures for the loop | build, play, marshal an operation, stop, tear down | every thread | nothing is taken down under a user; a signal ends the run |
| Parser, samplers, logging, prompts, tools | none that outlives a call, or only set before the start | | | |

### What is hard here

Concurrency: two timers, bus messages and control closures interleave on the
main loop, while streaming threads and workers run beside it; the breaker sees
outcomes of requests it let through in another state; the EOS lists are rebuilt
under the probes that read them. Failure: a rebuild may stop at any step and
leave a torn chain and a muxer pad that no chain holds. Order: errors of a
replaced chain reach the bus after its successor is up. Time: holds,
cooldowns, budget windows, backoff, first-frame and stall timeouts race with
late timers. Distance: the agent's calls are lost, late, or served after it gave
up on them, and the server may restart between two. Ends: a shutdown finds a
request, a probe and a worker wherever they are, and a client that does not read its
answer. `PROJECT.json` lists each hazard at its line with the properties that would
catch it.

## 2. Plan

In order of weight; done means modelled, checked and with its first theorems.

1. `SchedulerPolicy`, with the observer `SchedulerAudit` - done.
2. `CircuitBreaker` and `LlmRouter` composing it with queue, workers and the
   shared handle - done.
3. `ReconnectPolicy` and `RtspWatchdog` composing it with chain, bus and camera
   - done.
4. `EosProbes` - done.
5. `ControlPlane`, with the observer `ControlPlaneAudit`: writes, snapshots and
   rollbacks against scheduler ticks and reconnects. It composes two abstract
   specifications, `SchedulerModes` and `StreamModes`, which `SchedulerPolicy`
   and `RtspWatchdog` are shown to implement - done.
6. `EventEngine` and `EventLog`, which composes it with the three threads that
   write its events - done. Still to come: key frames, and the events' way into
   `LlmRouter`.
7. `LatencyPairs` and `LatencyTracker`, which implements it: pairing with the
   bounded array of pending frames, the ring of samples, a benchmark's window - done.
8. `AgentRun`: the agent's run on top of a server that refuses, fails, answers late
   or crashes - done.
9. `ConfigLoader` and `ServerRun`: the numbers a configuration may give, the build,
   the marshalling of control operations, and the teardown - done.
10. Theorems for every invariant the runs check, with the inductive invariants they
    need, and for the two refinements (section 6) - done.
11. What a further model could add: key frames and the events' way into `LlmRouter`;
    snapshot ids from a wall clock that steps back (a full store then prunes the
    snapshot it has just saved); the operations of two threads at the edges of the
    main loop (section 8).

## 3. Modules

### SchedulerTables, SchedulerPolicy, SchedulerAudit

`Tick` is one call of `Pipeline::tick_scheduler`: any sample, any delay of
`Gaps`, then `Update`, whose seven disjuncts are the seven ways out of
`SchedulerPolicy::update` (to each state, a stage down within RECOVERY, stay).
The order in which the code tries its conditions is in their guards. Stamps of
the monotonic clock become ages, which saturate at the limit they are compared
with; nothing in the code distinguishes two ages beyond it. `Init` lets the
clock, the host's uptime, start anywhere, since the code's stamps start at 0.
`SchedulerAudit` adds what an observer of the output would record and restricts
nothing. `SchedulerTables` holds the states and the interval tables.

`SchedulerModes` is the abstract specification: which state may follow which,
without samples and timers. `ImplementsModes` says that `SchedulerPolicy`
implements it, and run `scheduler` checks it.

Run `scheduler` (13,590 states): five temperatures and four CPU readings are one
per band of the six thresholds with every boundary value and a missing reading;
ticks are late by one or three units against a hold of 2, a cooldown of 4 and a
window of 8, so every timer expires in both orders with respect to the others.
`critical_temp_exit` lies above the thermal entry, which the loader allows.

`SlidingBudget` allows twice the budget, for the windows of the code are fixed and
restart from zero, so that two bursts can meet at an edge. The header's "at most
max_adjustments_per_window escalations per adjust_window_ms" is true of those
windows and of no other stretch of that length.

### CircuitBreaker, LlmRouter

`CircuitBreaker` holds the breaker's methods as operators on its fields; each
holds the mutex throughout, so a call is one step of its thread. In `LlmRouter`
a worker walks `loop`, `dequeue`, `gate`, `lock`, `perform`, `succeeded` or
`failed`, one step for each critical section of the code, and `stop()` is
`Stop`, `ShutDownQueue`, `Join`. A request is its priority, which fixes its
provider. The one HTTP handle of both providers is held during `perform` and
released between retries.

Run `router` (302,784 states): two workers (both can be in flight for one
provider, or one behind the other's retries), a queue of two, one retry,
thresholds of two (one outcome is not enough in either direction), a reset
timeout of one. Run `router_shed` refutes `ShedsLeastUrgent`: a full queue pops
the top of its heap, the most urgent request, where the header promises the
least urgent.

### ReconnectPolicy, RtspWatchdog

`ReconnectPolicy` is the class of that name as operators; `Shifted` is its
`base << shift`, written as repeated doubling. `RtspWatchdog` is one
stream: `WatchTick` is `tick_rtsp_watch` with a disjunct for each branch
(`OpenWindow`, `PassVerify`, `FailVerify`, `NoFirstFrame`, `Stall`,
`DoReconnect`, `NothingDue`), `BusError` and `StaleBusError` are
`on_bus_message`, `Restart` is the control plane's operation, and `DoReconnect`
contains the rebuild, which may fail at building the bin, at requesting the
muxer pad or at linking, the last leaving a pad nobody holds.

The environment is named in the module. A camera is flaky until it settles as
good or dead. A good camera delivers between `MinFps` and `MaxRate` frames per
period, the first within `FirstFrameDelay`, and its rebuild succeeds unless an
earlier failed link leaked the pad: requesting a pad that already exists has no
defined answer, so then every outcome is possible. Nobody restarts a stream
whose camera is good; an operator who keeps doing so exhausts its failures,
which the code counts on purpose.

Run `watchdog` (36,786 states): two failures before FAILED, backoff of one and
two periods (one doubling, and the cap), timers up to two periods late, one
waiting error of each kind, and timeouts that differ from each other.

`StreamModes` is what other components see of a stream: its state and the moves
one handler can make. `KeepsToMoves` says that every step of the watchdog makes
such a move or none, and is proved for every value of the constants
(`StreamsKeepToMoves`); no run repeats it.

### EosProbes

The reconnect step by step - remove the probe at the stream's position, rebuild,
clear, install for each stream - with `Eos` of any stream between any two steps.
Entries are appended and a stream without a decoder pad is skipped, so positions
are streams only while no pad is missing. The rebuild of any RTSP stream may fail.

`OnlyTheEndedAreFlushed` is what the code's comment says, and is false. What remains
true is what `OwnStreamIsFlushed` and `EveryPadIsProbed` say. `InPlace(s)` means that
no stream before `s` lacks its pad; such a stream flushes its own tracks, also in the
middle of a reconnect, and stands in the lists at its own position when the reconnect
is over. The exception is the time between the rebuild of a stream and the clearing of
the lists: the new pad is there, so the streams behind it are in place again, but the
lists are still those of the time when it was missing. That an earlier failure is put
right by the next rebuild that succeeds is part of both.

Run `eos` (17,016 states; it may stop, since rebuilds are bounded by
`MaxRebuilds`): three streams, each rebuilt up to twice, and any of these may fail, so
that lists are one or two entries short, of streams before and behind the one that
ends, and are put right again. Run `eos_wrong_flush`: two streams, and the end of the
second flushes the tracks of the first.

### ControlPlane, ControlPlaneAudit

The control server's one thread takes a request through `Ask`, `CheckSafety`,
`Capture`, an `Apply...` action, `VerifyWrite` or `VerifyRollback`, and `Undo`
if the write failed; each is one visit to the main loop or one access to the
snapshot store, and `op` is where the thread stands. Between any two of them
`SchedulerTick` (any move of `SchedulerModes`, with `apply_scheduler_intervals`)
and `StreamMoves` (any move of `StreamModes`; a rebuild gives the stream a new
`SourceBin` with interval 0) may happen. The scheduler's cache
`scheduler_intervals_` is `applied`, apart from the streams' own `interval`:
most of what can go wrong is a difference between the two. `TakeSnapshot` and
`Capture` may fail, `Newest` is the pruning, and `ApplySnapshot` includes the
resynchronisation with the scheduler's table that ends `apply_snapshot`.

`ControlPlaneAudit` adds history: what clients were told, what the operation
found, whether the main loop moved meanwhile, and which streams something took
from the scheduler. The last three properties are about operations the main
loop did not disturb; for the others they would be false, and the code does not
promise them: an automatic rollback after the scheduler moved puts an older
interval back, which no lock prevents.

Run `control` (1,184,891 states): a file and a camera, of different tiers;
requests that lower and raise a tier, set an interval no table asks for, and
restart the camera, so every kind of write can fail and be undone; one snapshot,
the tightest bound `max_snapshots` can have, so that every write prunes.

Two comments promise more than the module, like the code, does. A rebuild leaves the
stream at interval 0, and the scheduler's cache keeps it from being set again until the
table changes (section 7). A write that lowers an interval is checked before its
snapshot is taken; where the scheduler enters CRITICAL in between, it is applied in
CRITICAL all the same (section 7). `WritesRespectCritical` is what holds: a write that
nothing disturbed takes no stream below the table of CRITICAL.

Two smaller differences: a rollback ends with the scheduler's
resynchronisation, so where a restored priority moves a stream to another tier the
table's interval replaces the restored one and the answer is `VERIFY_FAILED`
(`pipeline.cpp` 1213; `control_backend.h` 126 says "Restore every field from the
snapshot"). A rollback in CRITICAL is not checked and can raise the load: that is
intended (`docs/stage11_control.md` 150).

### EventEngine, EventLog

`EventEngine` holds the engine's methods as operators on the state of one stream:
a track's record keeps the frames it has been unseen for (up to the grace period),
whether it is gone, and the zones it has fired; a class is latched or not. A frame
maps the ids in it to class and zones.

`EventLog` has three threads that call the engine and then write what it returned,
one record at a time: the event probe (`ProcessFrame`, `ProbeWrites`), the
end-of-stream probe on the decoder's pad (`EndOfStream`, `EosWrites`), and the main
thread at the shutdown (`Stop`, `FinalFlush`, `MainWrites`). The engine's mutex
covers the call and not the writes, so writes of different calls interleave; and
as the event probe sits behind the tracker, frames from before the end of a stream
arrive after its flush and bring tracks back. The log is kept as balances, of each
track its appearances less its disappearances, and the same of the counts.

Run `events` (18,466 states; it may stop, since the shutdown ends the program):
two tracks, a watched and an unwatched class, one zone, a grace period of two
frames with gaps of one and two between frames, a threshold of two and a
hysteresis of one: the class that is not watched is not counted.

The latch of a class is looked at only in frames that hold an object of the class
(`event_engine.cpp` 184). So a class whose last object leaves keeps its latch,
`count_exit` is missing, and the next `count_high` with it, against
`event_engine.h` 10-12. The module keeps the latch as the code does, and
`LogAgrees` compares the log with that (section 7). A hysteresis as large as the
threshold, which the loader accepts in one case (section 7), is allowed by `EngineAssumption`, so that the
theorems hold for it too.

### LatencyPairs, LatencyTracker

`LatencyPairs` is what the registry promises: a queue of frames that have begun, in
which the oldest of a number is the one that ended, and the newest samples with their
numbers. `LatencyTracker` is the code: `Entered`, `Without` and `Sampled` are the
array arithmetic of `on_latency_begin` and `on_latency_end` (heads, sizes, wrapping,
eviction by age and by number, moving entries up over the one that is taken out), and
`ImplementsPairs` the refinement. Between the probes frames keep their order, may be
lost, and are numbered from zero again after a rebuild; so `SamplesAreTrue` says
when a sample may be counted from another frame's begin: only if that frame, of the
same number, was lost or is still between the probes, and by no more than the age at
which entries are given up. The benchmark is `OpenWindow`, which
notes the watermark, and `SamplesSince`, which may be read in every later state.

Run `latency` (781,501 states): two streams on one watermark, arrays of two slots
(both wrap with three frames), an age of one, a frame lost and two restarts of the
numbering. The 32 bits in which a sample keeps its number (`SeqRange`) do not run
over within the bound; after 2^32 samples `latency_samples_since` compares a 32-bit
number with a 64-bit watermark (`metrics_registry.cpp` 161, 196) and finds nothing
any more, about a year of eight cameras at fifteen frames.

### AgentRun

One run of `executor.py` against the server. The agent's control point is the call it
waits for (`pc`); each step reads the answer, decides, and sends the next call, so
that everything between two calls is one step. `Reading` has a disjunct for each
call; `Abort` is the handler of `RunAborted`. The server takes the requests of
`inbox` in order, on one thread, which a benchmark keeps for its whole window.
Giving up on an answer leaves the request in the inbox: it is served later, and its
answer goes nowhere. A crash takes the inbox with it, brings back the configured
priorities and intervals, and keeps the snapshot files. The scheduler moves as
`SchedulerModes` allows, and applies its table as `ControlPlane` has it.

`KeptIsMeasured` is where the order of the server's one thread matters: an agent that
gave up on a write and then measured has measured the write too, for the window is
behind it in the same queue. `GivenUpLeavesNoTrace` is about runs without success;
it excuses a rollback that the server refused, since nothing is tried after the
second. It says nothing of the report, which in that case still says that the
configuration was rolled back (`executor.py` 208-215). That no write is made in
CRITICAL (`executor.py` 10) is not a property: the check and the write are two calls,
and the server itself refuses only what raises the load.

Run `agent` (500,768 states; a run ends): the four cameras of the example
configuration, two actions a round, two rounds, two answers that come late or never,
one crash, one move of the scheduler, an interval limit of one (which clamps the second
round's step and the model's proposal of 9; its proposal of -1 is clamped to 0), and
proposals with everything `clean_llm_candidates` removes. Run `agent_escape` replaces urllib by requests, whose
exceptions are not wrapped (finding 3).

### ConfigLoader, ServerRun

`ConfigLoader` is `load_streams_config` as a predicate of a document: the limit of
every number, the comparisons with defaults filled in, the rules for streams.
The hysteresis is compared with the threshold only where the file gives it
(`config_loader.cpp` 101-103), so that a threshold of 1 alone is accepted with the
default hysteresis of 1 (section 7); the default duration of a benchmark is not compared
with its limits; stream ids are not compared with each other.

`ServerRun` is `main` from there on, as stages of the main thread, with the accept
thread, one streaming thread in the event probe, and the workers. `BuildFails` may
leave anything built so far to the destructor. An operation of the control API goes
through `Decide`, `Post` and `Inline` or `Answered`: the flag first, then whether
somebody owns the loop's context, as GLib asks. `TimeOut` leaves the closure in the
loop's queue. `StopHttp` to `Join` is the end of the accept thread, `StopRouter`,
`RemoveProbes`, `StopFlow` and `Free` are `release_resources`.

Every answer is written by one blocking `::write` (`http_server.cpp` 45, 219, 272), and
only reading has a time-out. So `Respond` ends the connection or leaves the accept
thread `blocked`, until `Unblock`, the client's reading on or going away, which need not
happen. In the model any answer may block; in practice a socket's buffers take a short
one, and it needs a key frame or the dashboard. `SignalEndsRun` therefore says what the
code does guarantee, without a condition on clients: after a signal the run ends, or
the main thread stands for ever in the join of an accept thread whose client never
reads. Wherever else the thread is, in an operation, a sleep or a read, and whatever
blocks while the pipeline still runs, the end comes. That it need not come behind such a
client is a defect (section 7).

Run `server` (174,211 states): for every key the values at and beyond its limits, for
each pair of keys that belong together the values around limits and defaults, every
choice of enabled sections and of stream types; two requests of up to two main-loop
operations, a benchmark of two sleeps, one stall of the loop, and a signal at any
time. Numbers are forgotten once loaded, for nothing later depends on them.

## 4. What the runs show

| run | verdict | properties |
|---|---|---|
| `scheduler` | holds | `TypeOK`, `CooldownHonoured`, `SlidingBudget`, `HealthyReturnsToNormal`, `HeatIsThrottled`, `ImplementsModes` |
| `router` | holds | `TypeOK`, `NoProbeLost`, `GoodProviderCloses`, `DeadProviderIsCutOff`, `StopReturns` |
| `router_shed` | violated | `ShedsLeastUrgent` (`request_queue.h` 35-36, 47) |
| `watchdog` | holds | `TypeOK`, `WatchedChainIsLive`, `WindowIsOfThisConnection`, `AttemptsPaidFor`, `DeadCameraIsGivenUp`, `GoodCameraRuns` |
| `eos` | holds | `OwnStreamIsFlushed`, `EveryPadIsProbed` |
| `eos_wrong_flush` | violated | `OnlyTheEndedAreFlushed` (`pipeline.cpp` 299, `pipeline.h` 140-142) |
| `control` | holds | `TypeOK`, `CacheFollowsTable`, `Acknowledged`, `WritesRespectCritical`, `FailedWriteLeavesNoTrace`, `RollbackIsVerified` |
| `events` | holds | `TypeOK`, `LogAgrees`, `LeaversAreReported` |
| `agent` | holds | `TypeOK`, `ChangeIsBounded`, `KeptIsMeasured`, `GivenUpLeavesNoTrace`, `RunEnds` |
| `agent_escape` | violated | `GivenUpLeavesNoTrace` (`http_client.py` 4-5, `executor.py` 13, `main.py` 10) |
| `latency` | holds | `TypeOK`, `WindowIsExact`, `SamplesAreTrue`, `ImplementsPairs` |
| `server` | holds | `UsedThingsExist`, `SignalEndsRun` |

What is proved for every value of the constants is not run again on one
(`HotCriticalMeansCritical`, `LoadRisesOnlyWhenCooled`, `LoadRisesGradually`,
`KeepsToMoves`, `ProbesTypeOK`), where a run has nothing to add.

Definitions marked `Faulty` are not part of a specification. Each is a plausible
mistake in the definition that follows it, and shows that some property notices.

## 5. Fairness

- Scheduler: weak fairness of `Tick`; the GLib source always answers
  `G_SOURCE_CONTINUE`.
- Watchdog: weak fairness of time, of the timer and of dispatching bus messages.
  `PostError`, `Settle` and `Restart` have none.
- Router: weak fairness of each worker's next step (libcurl's timeouts end every
  attempt) and of stop's steps and of time; strong fairness of `Lock`, because
  every release of the handle wakes a waiter while the releasing thread still
  has an outcome to record or a backoff to sleep. `Submit` and `Stop` have none.
- Event log: weak fairness of each thread's writes and of the final flush, since no
  thread stops inside a callback. Nothing says that frames keep coming:
  `LeaversAreReported` assumes it, or that the pipeline stops.
- Agent: weak fairness of the agent, whose calls all have time-outs, and of the
  server's thread. The deadline may or may not come, ticks and crashes need not. Calls
  that are answered late or never are bounded by `MaxGiveUps`: a server that for ever
  fails to answer an observation is not in the model, and there the code has the time
  limit of the observation itself (`executor.py` 73).
- Server: weak fairness of the main thread, the accept thread, the probe and the
  workers; strong fairness of `Halt`, for once the state is set to NULL the pads
  take no further data, and the probe cannot be entered again and again before it.
  Signals, connections, stalls and the end of all streams have none. A silent client
  is turned away by the read timeout, which makes `Handle` fair; and a head or a body
  that arrives byte by byte is bounded, so it ends too. `Respond` is fair in that the
  write is begun, and either finishes or blocks. `Unblock` has no fairness, for nothing
  in the code gives a blocked write up.
- EOS probes, control plane and latency tracker: none; only safety is stated.

## 6. Proofs

The theorems hold for every value of the constants that the modules' assumptions
allow (`ThresholdAssumption`, `TimingAssumption`, `BreakerAssumption`,
`RouterAssumption`, `PolicyAssumption`, `WatchAssumption`, `EosAssumption`,
`ControlAssumption`, `EngineAssumption`, `GapAssumption`, `AgentAssumption`,
`ServerAssumption`, `TrackerAssumption`: what the configuration loader and the constructors enforce, that
frame numbers of a stream grow, that the language model proposes sequences of calls,
and that bounds are numbers). Four have a hypothesis of their own, named below.

- `SchedulerPolicyProofs`. `TypeCorrect` is inductive as it stands.
  `CriticalIsImmediate` and `LoadRisesSafely` follow from one step's case
  split, the latter with the fact that the recovery step is 0 outside RECOVERY.
  `CooldownIsHonoured` needs `CooldownMargin`: CRITICAL may be entered during a
  cooldown, and what makes a later escalation safe is that the holds of CRITICAL
  and of RECOVERY use the cooldown up. `LoadComesBackGradually` needs that the
  observer's table is at least as old as the state's hold.
  `BudgetHoldsInEveryStretch` counts the escalations of the last
  `adjust_window_ms` in two parts, those of the policy's present window and those
  of the one before: each is at most the budget (`BudgetInv`), since a window that
  begins turns the first part into the second and drops the second, and growing
  older makes no escalation into two (`OlderAreNoMore`). `PolicyKeepsToModes`
  is the refinement: each disjunct of `Update` is one of `SchedulerModes`' moves or
  a stutter.
- `LlmRouterProofs`. `TypeCorrect` bounds the queue; its lemmas say what `Push`
  and `Pop` do to the size. `NoProbeIsLost` strengthens the invariant by "a
  request in flight belongs to a provider with a key": otherwise a probe could
  be dropped at the key lookup. The step that needs care is an outcome of a
  request let through while CLOSED that arrives while half-open.
- `ReconnectProofs`, of `RtspWatchdog`. One inductive invariant, `IInv` (the shape of what is
  compared, and states a stream is never left in) with the three properties:
  `WatchedStreamsAreConnected`, `WindowsAreOfOneConnection`,
  `EveryAttemptIsPaidFor`. `StreamsKeepToMoves` uses the same invariant: a
  failure of whatever kind moves the policy through `Schedule` alone
  (`SignalMoves`), which leaves a FAILED stream as it is, and the states the
  invariant names are those from which the diagram has an arrow. `TypeCorrect` bounds
  every timer and counter; it needs that a policy in FAILED is exactly one with a
  failure too many (`PolicyOK`), and that a backoff is between the base and the
  longest. The doubling in it is recursive, so that it has a value at all takes
  induction (`SetInduction`, of a set of numbers; then `SomeDoubles` and
  `DoublesAgree`).
- `ReconnectProofs`, of `EosProbes`. `EosFlushesItsOwnStream` and
  `ReconnectKeepsProbes`, whichever rebuilds fail. The invariant,
  `ProbesInv`, says that an entry never stands behind its stream's position, and stands
  at it where the stream is `Undisturbed`, in the sense of the property; that the lists
  being filled are as long as the streams already gone by, while these are in place; and
  that the streams which are `Settled` at this step of a reconnect have a probe and an
  entry. So the position at which `on_stream_eos` finds the pad of such a stream is the
  stream's (`FoundAtHome`). One lemma for each step of a reconnect says that it keeps
  the invariant. `ProbesTypeCorrect`: the lists are emptied before they are filled, and
  are shorter than the position of the stream that comes next (`ProbesShape`).
- `ControlPlaneProofs`. `TypeCorrect` needs, beyond the types, that a snapshot
  exists while a write may have to be undone, which holds because `Newest` keeps
  the head (`SaveKeepsNewest`). `SchedulerRemembersItsTable` is inductive together
  with it; the lemma `Resyncs` says that `ApplySchedulerIntervals` restores it from
  whatever intervals the streams run at, and the actions that change neither table
  nor priorities keep it. The four about what clients see are of the observed
  specification and share `AuditInv`. Its part `Promises` says that outside what the
  operation has open every stream is as promised, and that the newest snapshot is as
  promised wherever a write may go back to it; this is `AcknowledgedChangesStay`. Its
  part `Undisturbed` says what an operation the main loop left alone knows: the
  configuration is as found until it is applied, the safety check still holds, the
  newest snapshot is what was found, and a rollback under verification has put back
  what its target says. From it follow `FailedWritesLeaveNoTrace`,
  `CriticalIsRespected` and `RollbacksAreVerified`, a step at a time.
- `EventLogProofs`. The invariant is a ledger: what the log says of a track, with
  what each thread still owes it, is whether the engine holds the track present;
  the same for the latches. It needs that the flushing threads owe disappearances
  only, that the probe's pending events are of its last call (`OneCall`), and that
  the main thread flushes when the others have finished (`Stopping`). With nothing
  owed it is `LogAgrees`; with everything owed it bounds the log, which is
  `TypeCorrect`. The lemmas `FrameMovesTracks` and `FlushEmpties` say what a call
  does to the tracks that are present.
- `AgentRunProofs`. The invariant `Safe` rests on the order of the inbox: the agent
  waits for the answer to what it asked last (`Awaits`), and the server answers in
  order, so whatever is answered to the agent leaves an empty inbox behind. `Bounded`
  counts together the streams that run at a setting of the agent's, those a write
  still waiting would add, and those the plan still holds: `NeverMoreThanOnePlan`.
  `Measured` is `OnlyTheMeasuredIsKept`. `Kept` counts the snapshots a run has taken,
  has asked for and may still ask for; `BaselineOutlivesTheRun` assumes that
  `max_snapshots` is more than their number, 7 at the agent's defaults. The loader
  accepts any number from 1, and with too small a one the baseline is pruned and the
  rollback refused; the other theorems hold then too. `AbortedRunsAreUndone`
  assumes urllib (run `agent_escape` refutes it for requests): what is left of the
  agent's once a run has given up has a rollback behind it in the inbox, or the
  server has refused one (`Undone`). The plans come from lemmas about `Clean` and
  `Deterministic`: whatever is proposed, what comes out are at most `MaxActions`
  changes of streams there are, at intervals up to `MaxInterval`.
- `ServerRunProofs`. `NothingGoesWhileUsed` is by stages of the main thread
  (`StageInv`): no accept thread before `Play` and after `Join`, no streaming thread
  before the pipeline plays and after `StopFlow`, no worker after `StopRouter`; and
  `running` tells of the accept thread wherever `StopHttp` asks it.
- `LatencyTrackerProofs`. Lemmas about positions say that two places less than a
  capacity apart in an array used round and round are different slots; from them
  `EnteredQueue`, `WithoutQueue` and `SampledRecent` say of each of the three array
  operations what it does to the sequence the array stands for. `TypeCorrect` comes
  with the invariant `Safe`, in which entries also wait in the order of their begin:
  that is why giving up the entries at the front gives up all that are too old.
  `Implements` is the refinement, an action of the code to an action of `LatencyPairs`
  or a stutter. `WindowsAreExact` says that the numbers in a ring grow, and that those
  above the mark are the last ones, as many as were made in the window (`WindowOf`).
  Both assume that fewer than `SeqRange` samples have been taken, for after that the
  code does find nothing any more (section 3). `SamplesTellTheTruth` does not. Its
  invariant `Honest` gives every waiting entry whose number was not lost a frame
  between the probes that it was begun with, no two of them the same one (`Matched`),
  and says that no frame between the probes began more than the allowed age after an
  entry that still waits (`Near`), since its own begin would have given the entry up.
  Where the frame that comes out was given to another entry than the one taken out, the
  two entries are the same and can change places.

Only model-checked: every liveness property (`HealthyReturnsToNormal`,
`HeatIsThrottled`, `GoodProviderCloses`, `DeadProviderIsCutOff`, `StopReturns`,
`DeadCameraIsGivenUp`, `GoodCameraRuns`, `LeaversAreReported`, `RunEnds`,
`SignalEndsRun`), because the proof system does not reason about what an action needs
to be enabled.

## 7. Findings

1. `request_queue.h:48` against its own lines 35-36 and 47: a full queue gives
   up its most urgent request.
2. `pipeline.cpp:625` against `pipeline.cpp:299` and `pipeline.h:140-142`: after
   a failed rebuild the probe lists shift and an end of stream flushes another
   stream.
3. `agent/http_client.py:80` against its lines 4-5, `agent/executor.py:13` and
   `agent/main.py:10`: with the requests library a lost answer ends the agent by an
   exception nobody catches, and what it has changed stays.

Each of these is a run. The following are differences between the code and its comments
that came up while modelling; the modules do as the code does, and TLC finds each where
one asks for what the comment says.

- `http_server.cpp:272` against its line 155 ("Read timeout bounds the time one slow
  client can block the accept loop"): a client that does not read its answer holds the
  accept thread for as long as it likes, and a signal then does not end the run, for
  `stop()` (124-126) shuts only the listening socket down and joins. Visible in the
  second alternative of `SignalEndsRun`, which does not hold without it.
- `config_loader.cpp:101` against its line 104: a threshold of 1 without a hysteresis is
  accepted with the default of 1; the latch of a class is then never released, for it
  would be at a count of 0 (`ConfigLoader`'s `HysteresisFits`).
- `event_engine.cpp:184` against `event_engine.h:10-12` ("latched until the count falls
  below threshold - hysteresis"): the latch outlives the last object of its class.
- `source_manager.cpp:229` against `source_manager.h:82` ("Survives RTSP rebuilds") and
  `docs/stage9_scheduler.md:37`: a reconnect loses the stream's inference interval.
- `control_server.cpp:685` against `control_backend.h:111-112` ("in CRITICAL neither the
  scheduler nor the Agent may increase load"): a write checked before the scheduler
  entered CRITICAL raises the load in CRITICAL.

## 8. Not modelled

Pixels, tensors, tracking, prompts, response bodies, formatting, logging, files'
contents and statistics carry no ordering or failure logic of their own.
`system_metrics` only supplies the samples, which range over every band. In the
control plane: the restart throttle and other refusals that change nothing, and the
audit log. Of the events: records of 640 bytes and more, which the writer drops without
a word (`event_writer.cpp` 86), so that the log then lacks a record; key frames; frame
numbers that start over when a reconnect replaces the decoder (the unsigned difference
then wraps, and a track that is not in the next frame disappears at once); and the
shutdown after a start of playback that failed, where nothing has set the state to NULL
(`pipeline.cpp` 384-387) and the final flush can come before the last frame. Of the agent: other clients of the API,
its start-up check, and its report. Of the process: that it never ignores SIGPIPE, so
that a client which closes early ends it where no library has installed a handler
(`http_server.cpp` 45 expects EPIPE).

Two threads in the pipeline's main-loop state: the accept thread runs an operation
itself while `loop_running_` is unset (`pipeline.cpp` 962), and the main thread may be
entering the loop, or setting the state to NULL, meanwhile. And a closure that is run
after its caller gave up refers to that caller's locals (`pipeline.cpp` 973).
`ServerRun` shows that both can happen and who waits for whom; what the two threads
then do to each other's data has no defined outcome and is not modelled. GStreamer is
deinitialised before the pipeline object that still holds its elements (`main.cpp` 98,
131); what the library makes of that is outside this code.
