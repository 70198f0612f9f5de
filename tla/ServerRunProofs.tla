---------------------------- MODULE ServerRunProofs ----------------------------
(***************************************************************************)
(* How far the main thread has come says what the other threads may still  *)
(* do: an operation of the control API needs the pipeline only between     *)
(* Build and Join, the event probe its engine until RemoveProbes and       *)
(* StopFlow, a worker its router until StopRouter.                         *)
(***************************************************************************)
EXTENDS ServerRun, TLAPS

------------------------------------------------------------------------------
(* Nothing is taken down under somebody who uses it *)

Operated == {"pipeline", "sources", "timers"}

\* Before the control API is started, and after the accept thread has been joined.
WithoutApi == {"load", "build", "control", "deinit", "release", "flush", "free", "exited"}

ApiNeedsPipeline ==
  /\ stage \in WithoutApi => http.at \in {"off", "ended"}
  /\ stage \notin WithoutApi \/ stage = "control" => Operated \subseteq parts

\* The accept thread exists where running_ was set, so that StopHttp never leaves it out.
RunningTellsOfThread ==
  /\ stage \in {"load", "build", "control"} => http.at = "off"
  /\ stage \in {"play", "run", "looping", "halt", "stop", "stopHttp"} =>
       running \/ http.at = "off"

ProbeNeedsEngine ==
  /\ flow \in {"none", "idle", "probe"} /\ probed \in BOOLEAN
  /\ probed \/ flow = "probe" => "engine" \in parts
  /\ stage \in {"load", "build", "free", "exited"} => ~probed /\ flow = "none"
  /\ stage = "flush" => ~probed

WorkersNeedRouter ==
  /\ workers # "none" => "router" \in parts
  /\ stage \in {"load", "build", "flush", "free", "exited"} => workers = "none"

StageInv ==
  /\ ApiNeedsPipeline
  /\ RunningTellsOfThread
  /\ ProbeNeedsEngine
  /\ WorkersNeedRouter

LEMMA StartsWithNothing == Init => StageInv
<1> SUFFICES ASSUME Init PROVE StageInv
  OBVIOUS
<1>1. /\ stage = "load" /\ http.at = "off" /\ flow = "none" /\ workers = "none"
      /\ ~probed /\ probed \in BOOLEAN
  BY DEF Init
<1> QED
  BY <1>1 DEF StageInv, ApiNeedsPipeline, RunningTellsOfThread, ProbeNeedsEngine,
              WorkersNeedRouter, WithoutApi

\* The build: whatever is there when it ends, a worker has its router and the probe
\* its engine.
LEMMA BuildingKeeps ==
  ASSUME StageInv, Load \/ BuildFails \/ Build
  PROVE  StageInv'
<1> USE DEF StageInv, ApiNeedsPipeline, RunningTellsOfThread, ProbeNeedsEngine,
            WorkersNeedRouter, WithoutApi, Operated, pipe, stops, loop, api
<1>1. CASE Load
  BY <1>1 DEF Load, Exit
<1>2. CASE BuildFails
  <2>1. PICK made \in Unfinished : parts' = made /\ StartsRouter(made)
    BY <1>2 DEF BuildFails
  <2> QED
    BY <1>2, <2>1 DEF BuildFails, StartsRouter
<1>3. CASE Build
  <2>1. Operated \subseteq parts' /\ (HasEvents => "engine" \in parts')
    BY <1>3 DEF Build, Wanted
  <2>2. workers' # "none" => "router" \in parts'
    BY <1>3 DEF Build, StartsRouter
  <2>3. probed' \in BOOLEAN /\ (probed' => HasEvents)
    BY <1>3 DEF Build, HasEvents, Detects
  <2>4. flow' \in {"none", "idle"} /\ stage' \in {"control", "deinit"}
    BY <1>3 DEF Build
  <2>5. stage = "build" /\ UNCHANGED <<http, running>>
    BY <1>3 DEF Build
  <2> QED
    BY <2>1, <2>2, <2>3, <2>4, <2>5
<1> QED
  BY <1>1, <1>2, <1>3

LEMMA RunningKeeps ==
  ASSUME StageInv,
         \/ StartControl \/ Play \/ PlayFails \/ SetLoopFlag \/ Dispatch \/ Stall
         \/ GoOn \/ LoopEnds \/ ClearLoopFlag \/ Halt
  PROVE  StageInv'
<1> USE DEF StageInv, ApiNeedsPipeline, RunningTellsOfThread, ProbeNeedsEngine,
            WorkersNeedRouter, WithoutApi, Operated, pipe, stops, loop, api
<1>1. CASE StartControl
  BY <1>1 DEF StartControl, At
<1>2. CASE Play \/ PlayFails
  BY <1>2 DEF Play, PlayFails
<1>3. CASE SetLoopFlag \/ Dispatch \/ Stall \/ GoOn
  BY <1>3 DEF SetLoopFlag, Dispatch, Stall, GoOn
<1>4. CASE LoopEnds \/ ClearLoopFlag \/ Halt
  BY <1>4 DEF LoopEnds, ClearLoopFlag, Halt
<1> QED
  BY <1>1, <1>2, <1>3, <1>4

\* The teardown.  Join is where the operations end, RemoveProbes where the workers
\* have, StopFlow where the probe has.
LEMMA EndingKeeps ==
  ASSUME StageInv,
         \/ StopControl \/ StopHttp \/ ShutDownSocket \/ Join \/ Deinit
         \/ StopRouter \/ RemoveProbes \/ StopFlow \/ Free
  PROVE  StageInv'
<1> USE DEF StageInv, ApiNeedsPipeline, RunningTellsOfThread, ProbeNeedsEngine,
            WorkersNeedRouter, WithoutApi, Operated, pipe, stops, loop, api
<1>1. CASE StopControl \/ StopHttp \/ ShutDownSocket
  BY <1>1 DEF StopControl, StopHttp, ShutDownSocket
<1>2. CASE Join
  BY <1>2 DEF Join, Joinable
<1>3. CASE Deinit \/ StopRouter
  BY <1>3 DEF Deinit, StopRouter
<1>4. CASE RemoveProbes
  BY <1>4 DEF RemoveProbes
<1>5. CASE StopFlow
  BY <1>5 DEF StopFlow, FlowHasEnded
<1>6. CASE Free
  BY <1>6 DEF Free, Exit
<1> QED
  BY <1>1, <1>2, <1>3, <1>4, <1>5, <1>6

\* The accept thread does not come back once it has ended, nor without running_.
LEMMA ApiKeeps ==
  ASSUME StageInv, Api \/ Accept \/ Unblock
  PROVE  StageInv'
<1>1. UNCHANGED <<stage, running, parts, flow, probed, workers>>
  BY DEF Api, Accept, LookUp, AcceptFails, Decide, Post, Inline, Answered, TimeOut,
         Sleep, Handle, Respond, Unblock, KeepsMain, pipe, stops
<1>2. http.at \notin {"off", "ended"}
  BY DEF Api, Accept, LookUp, AcceptFails, Decide, Post, Inline, Answered, TimeOut,
         Sleep, Handle, Respond, Unblock
<1> QED
  BY <1>1, <1>2 DEF StageInv, ApiNeedsPipeline, RunningTellsOfThread, ProbeNeedsEngine,
                    WorkersNeedRouter, WithoutApi

LEMMA ElsewhereKeeps ==
  ASSUME StageInv, EnterProbe \/ LeaveProbe \/ Take \/ Done \/ Signal
  PROVE  StageInv'
<1> USE DEF StageInv, ApiNeedsPipeline, RunningTellsOfThread, ProbeNeedsEngine,
            WorkersNeedRouter, WithoutApi, Operated, Elsewhere, pipe, stops
<1>1. CASE EnterProbe \/ LeaveProbe
  BY <1>1 DEF EnterProbe, LeaveProbe
<1>2. CASE Take \/ Done
  BY <1>2 DEF Take, Done
<1>3. CASE Signal
  BY <1>3 DEF Signal
<1> QED
  BY <1>1, <1>2, <1>3

\* Nothing is taken down under somebody who uses it (main.cpp:118, the order of
\* ~Pipeline), for every configuration, however the build and the run end, and however
\* many connections, operations and stalls there are.
THEOREM NothingGoesWhileUsed == Spec => []UsedThingsExist
<1>1. StageInv /\ [Next]_vars => StageInv'
  <2> SUFFICES ASSUME StageInv, [Next]_vars PROVE StageInv'
    OBVIOUS
  <2>1. CASE Main \/ LoopEnds \/ Stall
    BY <2>1, BuildingKeeps, RunningKeeps, EndingKeeps DEF Main, Quit
  <2>2. CASE Api \/ Accept \/ Unblock
    BY <2>2, ApiKeeps
  <2>3. CASE EnterProbe \/ LeaveProbe \/ Take \/ Done \/ Signal
    BY <2>3, ElsewhereKeeps
  <2>4. CASE UNCHANGED vars
    BY <2>4 DEF vars, StageInv, ApiNeedsPipeline, RunningTellsOfThread, ProbeNeedsEngine,
                WorkersNeedRouter, WithoutApi, pipe, stops, loop, api
  <2> QED
    BY <2>1, <2>2, <2>3, <2>4 DEF Next
<1>2. StageInv => UsedThingsExist
  BY DEF StageInv, ApiNeedsPipeline, ProbeNeedsEngine, WorkersNeedRouter,
         UsedThingsExist, WithoutApi, Operated
<1> QED
  BY <1>1, <1>2, StartsWithNothing, PTL DEF Spec
=============================================================================
