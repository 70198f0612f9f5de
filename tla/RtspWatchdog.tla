----------------------------- MODULE RtspWatchdog -----------------------------
(***************************************************************************)
(* The reconnect driver of one RTSP stream: the watchdog timer             *)
(* (tick_rtsp_watch), the bus errors of the stream's chain, the restart    *)
(* operation of the control plane, and the rebuild of the chain behind the *)
(* muxer.  All of them run on the GLib main loop, one at a time; frames    *)
(* and errors come from the streaming threads in between.                  *)
(*                                                                         *)
(* Streams share the loop but no state, except for the EOS probes (module  *)
(* EosProbes), so one stream is modelled.  Time is counted in periods of   *)
(* the watchdog; a stamp is replaced by its age, which stops where nothing *)
(* compares it any more.                                                   *)
(***************************************************************************)
EXTENDS ReconnectPolicy, Integers

CONSTANTS
  FirstFrameTimeout, \* first_frame_timeout_sec
  WatchTimeout,      \* watch_timeout_sec
  VerifyTime,        \* verify_sec
  MinFps,            \* min_fps, in frames per period
  MaxRate,           \* most frames a camera delivers in a period
  FirstFrameDelay,   \* a good camera's first frame comes within this time (its GOP)
  MaxLag,            \* how many periods late the main loop may run the timer
  MaxErrors          \* bound on the bus messages waiting, of each kind

ASSUME WatchAssumption ==
  /\ {FirstFrameTimeout, WatchTimeout, VerifyTime, MinFps, MaxRate, MaxLag}
       \subseteq Nat \ {0}
  /\ MinFps <= MaxRate
  /\ FirstFrameDelay \in 1..FirstFrameTimeout
  /\ MaxErrors \in Nat

VARIABLES
  policy,       \* RtspWatch::policy
  verifying,    \* RtspWatch::verifying
  window,       \* age of the verification window, and frames counted in it
  connectAge,   \* now - connect_ms
  deadline,     \* deadline_ms - now, never below 0
  chain,        \* the stream's elements: live, or torn down
  pad,          \* its request pad of the muxer: linked, free, or leaked
  lastAge,      \* now - last_frame_ts_ms of the chain; NoFrame before the first
  bus,          \* error messages waiting: of the chain, of replaced chains
  sinceTick,    \* periods since the watchdog last ran
  camera        \* flaky, or settled: good or dead

streamVars == <<policy, verifying, window, connectAge, deadline>>
chainVars == <<chain, pad, lastAge>>
vars == <<streamVars, chainVars, bus, sinceTick, camera>>

Capped(n, limit) == IF n < limit THEN n ELSE limit
NoFrame == -1
NoWindow == [age |-> 0, frames |-> 0]

WindowLimit == VerifyTime + MaxLag
ConnectLimit == FirstFrameTimeout + WindowLimit

\* A stall is seen at the latest this long after the last frame: the stall
\* timeout, or the window of a verification that just passed, and one tick.
DetectionTime ==
  MaxLag + (IF WatchTimeout > WindowLimit THEN WatchTimeout ELSE WindowLimit)

------------------------------------------------------------------------------
(* The environment: time, frames, errors. *)

\* The frames a period may bring.
Deliveries ==
  CASE chain = "torn" \/ camera = "dead" -> {0}
    [] chain = "live" /\ camera = "flaky" -> 0..MaxRate
    [] chain = "live" /\ camera = "good" ->
         IF /\ lastAge = NoFrame /\ policy.state = "CONNECTING"
            /\ connectAge + 1 < FirstFrameDelay
           THEN 0..MaxRate
           ELSE MinFps..MaxRate

Elapse ==
  /\ sinceTick < MaxLag
  /\ sinceTick' = sinceTick + 1
  /\ \E n \in Deliveries :
       /\ lastAge' = IF n > 0 THEN 0
                     ELSE IF lastAge = NoFrame THEN NoFrame
                     ELSE Capped(lastAge + 1, DetectionTime + 1)
       /\ window' = IF verifying
                      THEN [age |-> Capped(window.age + 1, WindowLimit),
                            frames |-> Capped(window.frames + n, MaxRate * WindowLimit)]
                      ELSE window
  /\ connectAge' = IF policy.state = "CONNECTING"
                     THEN Capped(connectAge + 1, ConnectLimit) ELSE connectAge
  /\ deadline' = IF deadline > 0 THEN deadline - 1 ELSE 0
  /\ UNCHANGED <<policy, verifying, chain, pad, bus, camera>>

\* An element of the chain posts an error on the bus.
PostError ==
  /\ chain = "live" /\ camera # "good"
  /\ bus.fresh < MaxErrors
  /\ bus' = [bus EXCEPT !.fresh = @ + 1]
  /\ UNCHANGED <<streamVars, chainVars, sinceTick, camera>>

\* From some moment on the camera is good, or dead, for good.
Settle ==
  /\ camera = "flaky"
  /\ camera' \in {"good", "dead"}
  /\ UNCHANGED <<streamVars, chainVars, bus, sinceTick>>

------------------------------------------------------------------------------
(* schedule_reconnect *)

\* Faulty: the stall that made the stream DEGRADED does not count.
PendingOrDegraded(p) ==
  p.state \in {"FAILED", "DEGRADED"} \/ (p.state = "RECONNECTING" /\ deadline > 0)

\* Such a failure signal is ignored.
Pending(p) == p.state = "FAILED" \/ (p.state = "RECONNECTING" /\ deadline > 0)

\* The next policy after a failure signal that finds the policy p.  The age of
\* the connection is kept at 0 where nothing reads it.
Schedule(p) ==
  IF Pending(p)
    THEN policy' = p /\ UNCHANGED <<deadline, connectAge>>
    ELSE /\ policy' = MarkFailure(p)
         /\ deadline' = Backoff(MarkFailure(p))
         /\ connectAge' = 0

------------------------------------------------------------------------------
(* rebuild_source and do_reconnect *)

\* Faulty: a verification under way survives the rebuild.
KeepWindow == UNCHANGED <<verifying, window>>

CloseWindow == verifying' = FALSE /\ window' = NoWindow

\* The old pad is released with the old chain; one that no chain holds any
\* more cannot be found again.
PadReleased == IF pad = "leaked" THEN "leaked" ELSE "free"

\* Done, or the step that fails.  What a request for a pad that is still there
\* returns is not defined.
RebuildOutcomes ==
  IF camera = "good" /\ pad # "leaked" THEN {"ok"} ELSE {"ok", "build", "pad", "link"}

\* Messages of the torn chain outlive it, and tearing it down posts more.
BusAfterTeardown ==
  bus' \in {[fresh |-> 0, stale |-> n] :
              n \in Capped(bus.fresh + bus.stale, MaxErrors)..MaxErrors}

Rebuilt ==
  /\ chain' = "live"
  /\ pad' = "linked"
  /\ policy' = MarkConnect(policy)
  /\ connectAge' = 0
  /\ CloseWindow
  /\ UNCHANGED deadline

\* Faulty: the connection is marked before the rebuild, whatever becomes of it.
MarkedThenFailed(outcome) ==
  /\ chain' = "torn"
  /\ pad' = IF outcome = "link" THEN "leaked" ELSE PadReleased
  /\ policy' = MarkConnect(policy)
  /\ connectAge' = 0
  /\ UNCHANGED <<deadline, verifying, window>>

\* A pad whose link failed is neither released nor kept.
RebuildFailed(outcome) ==
  /\ chain' = "torn"
  /\ pad' = IF outcome = "link" THEN "leaked" ELSE PadReleased
  /\ Schedule(policy)
  /\ UNCHANGED <<verifying, window>>

RetryDue == policy.state = "RECONNECTING" /\ deadline = 0

DoReconnect ==
  /\ RetryDue
  /\ \E outcome \in RebuildOutcomes :
       IF outcome = "ok" THEN Rebuilt ELSE RebuildFailed(outcome)
  /\ lastAge' = NoFrame
  /\ BusAfterTeardown

------------------------------------------------------------------------------
(* tick_rtsp_watch *)

Verified == window.frames >= MinFps * window.age

FramesCame == policy.state = "CONNECTING" /\ ~verifying /\ lastAge # NoFrame

OpenWindow ==
  /\ FramesCame
  /\ verifying' = TRUE
  /\ window' = NoWindow
  /\ UNCHANGED <<policy, connectAge, deadline, chainVars, bus>>

WindowOver ==
  policy.state = "CONNECTING" /\ verifying /\ window.age >= VerifyTime

PassVerify ==
  /\ WindowOver /\ Verified
  /\ policy' = MarkRunning(policy)
  /\ connectAge' = 0
  /\ CloseWindow
  /\ UNCHANGED <<deadline, chainVars, bus>>

FailVerify ==
  /\ WindowOver /\ ~Verified
  /\ CloseWindow
  /\ Schedule(policy)
  /\ UNCHANGED <<chainVars, bus>>

NoFramesCame ==
  /\ policy.state = "CONNECTING"
  /\ ~verifying /\ lastAge = NoFrame
  /\ connectAge >= FirstFrameTimeout

NoFirstFrame ==
  /\ NoFramesCame
  /\ Schedule(policy)
  /\ UNCHANGED <<verifying, window, chainVars, bus>>

Stalled == policy.state = "RUNNING" /\ lastAge > WatchTimeout

Stall ==
  /\ Stalled
  /\ Schedule(MarkDegraded(policy))
  /\ UNCHANGED <<verifying, window, chainVars, bus>>

NothingDue ==
  /\ ~(FramesCame \/ WindowOver \/ NoFramesCame \/ Stalled \/ RetryDue)
  /\ UNCHANGED <<streamVars, chainVars, bus>>

WatchTick ==
  /\ sinceTick > 0
  /\ sinceTick' = 0
  /\ \/ OpenWindow \/ PassVerify \/ FailVerify \/ NoFirstFrame
     \/ Stall \/ DoReconnect \/ NothingDue
  /\ UNCHANGED camera

------------------------------------------------------------------------------
(* The other handlers of the main loop *)

\* on_bus_message: an error of the chain in use is a failure of the stream.
BusError ==
  /\ bus.fresh > 0
  /\ bus' = [bus EXCEPT !.fresh = @ - 1]
  /\ Schedule(policy)
  /\ UNCHANGED <<verifying, window, chainVars, sinceTick, camera>>

\* Faulty: an error counts whichever chain it comes from.
CountStaleError == Schedule(policy)

IgnoreStaleError == UNCHANGED <<policy, deadline, connectAge>>

\* An error of a replaced chain is ignored.
StaleBusError ==
  /\ bus.stale > 0
  /\ bus' = [bus EXCEPT !.stale = @ - 1]
  /\ IgnoreStaleError
  /\ UNCHANGED <<verifying, window, chainVars, sinceTick, camera>>

\* Pipeline::restart_stream; nobody restarts a stream once its camera is good.
Restart ==
  /\ camera # "good"
  /\ policy.state # "FAILED"
  /\ Schedule(policy)
  /\ UNCHANGED <<verifying, window, chainVars, bus, sinceTick, camera>>

------------------------------------------------------------------------------
\* Pipeline::run has just started the first connection.
Init ==
  /\ policy = MarkConnect(NewPolicy)
  /\ verifying = FALSE
  /\ window = NoWindow
  /\ connectAge = 0
  /\ deadline = 0
  /\ chain = "live"
  /\ pad = "linked"
  /\ lastAge = NoFrame
  /\ bus = [fresh |-> 0, stale |-> 0]
  /\ sinceTick = 0
  /\ camera = "flaky"

Next ==
  \/ Elapse \/ PostError \/ Settle
  \/ WatchTick \/ BusError \/ StaleBusError \/ Restart

\* Time passes and the main loop dispatches its timer and its messages.
Fairness ==
  /\ WF_vars(Elapse) /\ WF_vars(WatchTick)
  /\ WF_vars(BusError) /\ WF_vars(StaleBusError)

Spec == Init /\ [][Next]_vars /\ Fairness

------------------------------------------------------------------------------
(* Properties *)

\* Types, and how many failures each state stands for.
TypeOK ==
  /\ policy \in Policies
  /\ policy.state \notin {"OFFLINE", "DEGRADED"}
  /\ policy.failures <= MaxFailures + 1
  /\ policy.state = "FAILED" <=> policy.failures = MaxFailures + 1
  /\ verifying \in BOOLEAN
  /\ window \in [age : 0..WindowLimit, frames : 0..(MaxRate * WindowLimit)]
  /\ connectAge \in 0..ConnectLimit
  /\ deadline \in 0..BackoffMax
  /\ chain \in {"live", "torn"}
  /\ pad \in {"linked", "free", "leaked"}
  /\ lastAge \in NoFrame..(DetectionTime + 1)
  /\ bus \in [fresh : 0..MaxErrors, stale : 0..MaxErrors]
  /\ sinceTick \in 0..MaxLag
  /\ camera \in {"flaky", "good", "dead"}

\* The watchdog never waits for frames of a chain that is not there: a stream
\* it calls connecting or running has a live chain on a linked muxer pad.
WatchedChainIsLive ==
  policy.state \in {"CONNECTING", "RUNNING"} => chain = "live" /\ pad = "linked"

\* A verification window never spans two connections: frames of the replaced
\* chain do not vouch for its successor.
WindowIsOfThisConnection ==
  policy.state = "CONNECTING" /\ verifying =>
    window.age <= connectAge /\ lastAge # NoFrame

\* No retry storm: every connect attempt after the first since the last success
\* is paid for by a counted failure, however many signals raced with it.
AttemptsPaidFor ==
  policy.attempts <= policy.failures + (IF policy.state = "CONNECTING" THEN 1 ELSE 0)

\* The state that is reported moves as StreamModes says, on which ControlPlane
\* builds: a stream runs only after it was connected anew, is connected only after
\* it waited to be, and is never seen again once FAILED.
KeepsToMoves ==
  [][policy'.state # policy.state => <<policy.state, policy'.state>> \in Moves]_vars

\* A camera that is dead for good is given up for good.
DeadCameraIsGivenUp == (camera = "dead") ~> [](policy.state = "FAILED")

\* Failures a stream can still afford when its camera becomes good: one for the
\* errors that wait, one for a stall or a window that began before.
Affordable ==
  /\ policy.state # "FAILED" /\ pad # "leaked"
  /\ policy.failures + bus.fresh < MaxFailures

\* A camera that becomes good in time gets its stream running for good, whatever
\* errors of replaced chains still wait on the bus.
GoodCameraRuns == (camera = "good" /\ Affordable) ~> [](policy.state = "RUNNING")
=============================================================================
