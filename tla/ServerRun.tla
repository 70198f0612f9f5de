------------------------------- MODULE ServerRun -------------------------------
(***************************************************************************)
(* One run of jetedge_server, from main to its end: the main thread, which *)
(* builds the pipeline, becomes its main loop and takes everything down    *)
(* again; the thread that accepts control connections and answers them one *)
(* after the other; the streaming threads with their event probe; and the  *)
(* workers of the router.                                                  *)
(*                                                                         *)
(* An operation of the control API is a closure for the main loop.  The    *)
(* thread that wants it runs it itself when it finds the loop not running, *)
(* and GLib lets it do so too when nobody owns the loop's context; else it *)
(* waits, for five seconds at most.  A closure whose caller has given up   *)
(* stays in the loop's queue.                                              *)
(*                                                                         *)
(* What the operations, the workers and the probe do is in ControlPlane,   *)
(* LlmRouter and EventLog.  Left out: logging, statistics, the writers of  *)
(* detections and key frames, which live as long as the event engine, and  *)
(* a signal that arrives before its handler is installed.                  *)
(***************************************************************************)
EXTENDS ConfigLoader, FiniteSets

CONSTANTS
  Documents,  \* the configuration files
  Slices,     \* one-second sleeps of a benchmark
  MaxRequests, MaxHops, MaxStalls  \* bounds

ASSUME ServerAssumption == {Slices, MaxRequests, MaxHops, MaxStalls} \subseteq Nat

VARIABLES
  doc,       \* what main knows of its configuration
  stage,     \* where the main thread is
  parts,     \* what the pipeline object holds
  flow,      \* the streaming threads: "none", "idle" or in the event "probe"
  probed,    \* the event probe is installed
  workers,   \* the router's workers: "none", "idle", "busy" or told to stop
  loopFlag,  \* loop_running_
  stalled,   \* the main loop is in a callback for more than five seconds
  signalled, \* SIGINT or SIGTERM has arrived
  http,      \* the accept thread: step, hops to go, sleeps to go
  posted,    \* its closure waits in the loop's queue
  orphans,   \* closures there whose caller has given up
  running,   \* HttpServer::running_
  listening, \* the listening socket has not been shut down
  stopping,  \* ControlServer::stopping_
  requests, stalls  \* for the bounds

api == <<posted, orphans, requests>>
stops == <<running, listening, stopping>>
pipe == <<parts, flow, probed, workers>>
loop == <<loopFlag, stalled, stalls>>
vars == <<doc, stage, signalled, http, api, stops, pipe, loop>>

HttpSteps ==
  {"off", "loop", "accept", "read", "op", "post", "wait", "inline", "sleep", "write",
   "blocked", "ended"}

At(step) == [http EXCEPT !.at = step]

------------------------------------------------------------------------------
(* The main thread: start *)

NoNumbers == [key \in {} |-> 0]

Detects == "inference" \in doc.enabled
HasEvents == Detects /\ "events" \in doc.enabled
HasRouter == HasEvents /\ "llm" \in doc.enabled

Exit == stage' = "exited"

Load ==
  /\ stage = "load"
  /\ IF Loads(doc) THEN stage' = "build" /\ UNCHANGED doc
                   ELSE Exit /\ doc' = [doc EXCEPT !.numbers = NoNumbers]
  /\ UNCHANGED <<signalled, http, api, stops, pipe, loop>>

Wanted ==
  {"pipeline", "sources", "loop", "timers"}
    \union (IF HasEvents THEN {"engine"} ELSE {})
    \union (IF HasRouter THEN {"router"} ELSE {})

\* What is there when a step of build fails: the pipeline or its sink, the
\* sources, an element or a link, the event log, the event probe.
Unfinished ==
  {{}, {"pipeline"}, {"pipeline", "sources"}}
    \union (IF HasEvents THEN {{"pipeline", "sources", "engine"}} ELSE {})
    \union (IF HasRouter THEN {{"pipeline", "sources", "engine", "router"}} ELSE {})

StartsRouter(made) ==
  IF "router" \in made THEN workers' = "idle" ELSE UNCHANGED workers

BuildFails ==
  /\ stage = "build" /\ stage' = "deinit"
  /\ doc' = [doc EXCEPT !.numbers = NoNumbers]
  /\ \E made \in Unfinished :
       /\ parts' = made /\ StartsRouter(made)
       /\ UNCHANGED <<flow, probed>>
  /\ UNCHANGED <<signalled, http, api, stops, loop>>

\* A router that cannot be set up is left out.  Without RTSP the pipeline prerolls,
\* and that may fail with data under way.
Build ==
  /\ stage = "build"
  /\ doc' = [doc EXCEPT !.numbers = NoNumbers]
  /\ parts' \in {Wanted, Wanted \ {"router"}} /\ StartsRouter(parts')
  /\ probed' = HasEvents
  /\ IF "rtsp" \in doc.enabled
       THEN stage' = "control" /\ UNCHANGED flow
       ELSE stage' \in {"control", "deinit"} /\ flow' = "idle"
  /\ UNCHANGED <<signalled, http, api, stops, loop>>

\* The state directory or the port may be refused: the run goes on without.
StartControl ==
  /\ stage = "control" /\ stage' = "play"
  /\ \/ /\ "control" \in doc.enabled
        /\ running' = TRUE /\ listening' = TRUE /\ http' = At("loop")
     \/ UNCHANGED <<running, listening, http>>
  /\ UNCHANGED <<doc, signalled, stopping, api, pipe, loop>>

Play ==
  /\ stage = "play" /\ stage' = "run"
  /\ flow' = IF flow = "none" THEN "idle" ELSE flow
  /\ UNCHANGED <<doc, signalled, http, parts, probed, workers, api, stops, loop>>

PlayFails ==
  /\ stage = "play" /\ stage' = "stop"
  /\ UNCHANGED <<doc, signalled, http, pipe, api, stops, loop>>

------------------------------------------------------------------------------
(* The main loop *)

SetLoopFlag ==
  /\ stage = "run" /\ stage' = "looping" /\ loopFlag' = TRUE
  /\ UNCHANGED <<doc, signalled, http, pipe, api, stops, stalled, stalls>>

\* One closure of the queue; the caller of the last one may still wait for it.
Dispatch ==
  /\ stage = "looping" /\ ~stalled
  /\ IF orphans > 0 THEN orphans' = orphans - 1 /\ UNCHANGED posted
                    ELSE posted /\ posted' = FALSE /\ UNCHANGED orphans
  /\ UNCHANGED <<doc, stage, signalled, http, pipe, requests, stops, loop>>

Stall ==
  /\ stage = "looping" /\ ~stalled /\ stalls < MaxStalls
  /\ stalled' = TRUE /\ stalls' = stalls + 1
  /\ UNCHANGED <<doc, stage, signalled, http, pipe, api, stops, loopFlag>>

GoOn ==
  /\ stalled /\ stalled' = FALSE
  /\ UNCHANGED <<doc, stage, signalled, http, pipe, api, stops, loopFlag, stalls>>

\* The loop ends for a signal, or when the last stream or the pipeline does.
LoopEnds ==
  /\ stage = "looping" /\ ~stalled /\ stage' = "halt"
  /\ UNCHANGED <<doc, signalled, http, pipe, api, stops, loop>>

Quit == signalled /\ LoopEnds

ClearLoopFlag ==
  /\ stage = "halt" /\ loopFlag /\ loopFlag' = FALSE
  /\ UNCHANGED <<doc, stage, signalled, http, pipe, api, stops, stalled, stalls>>

\* State NULL ends the streaming threads, and waits for a probe that runs.
Halt ==
  /\ stage = "halt" /\ ~loopFlag /\ flow # "probe"
  /\ stage' = "stop" /\ flow' = "none"
  /\ UNCHANGED <<doc, signalled, http, parts, probed, workers, api, stops, loop>>

------------------------------------------------------------------------------
(* The main thread: end *)

StopControl ==
  /\ stage = "stop" /\ stage' = "stopHttp" /\ stopping' = TRUE
  /\ UNCHANGED <<doc, signalled, http, running, listening, pipe, api, loop>>

StopHttp ==
  /\ stage = "stopHttp"
  /\ IF running THEN running' = FALSE /\ stage' = "shutdown"
                ELSE stage' = "deinit" /\ UNCHANGED running
  /\ UNCHANGED <<doc, signalled, http, listening, stopping, pipe, api, loop>>

ShutDownSocket ==
  /\ stage = "shutdown" /\ stage' = "join" /\ listening' = FALSE
  /\ UNCHANGED <<doc, signalled, http, running, stopping, pipe, api, loop>>

\* Faulty: the thread is left to itself.
JoinNothing == stage = "join"

Joinable == stage = "join" /\ http.at = "ended"

Join ==
  /\ Joinable /\ stage' = "deinit"
  /\ UNCHANGED <<doc, signalled, http, pipe, api, stops, loop>>

\* GStreamer goes before the pipeline object, which main holds to its end.
Deinit ==
  /\ stage = "deinit" /\ stage' = "release"
  /\ loopFlag' = FALSE /\ parts' = parts \ {"timers"}
  /\ UNCHANGED <<doc, signalled, http, flow, probed, workers, api, stops, stalled, stalls>>

StopRouter ==
  /\ stage = "release" /\ workers \in {"idle", "busy"}
  /\ workers' = IF workers = "idle" THEN "none" ELSE "last"
  /\ UNCHANGED <<doc, stage, signalled, http, parts, flow, probed, api, stops, loop>>

\* The probes go, then the tracks that are left are flushed.
RemoveProbes ==
  /\ stage = "release" /\ workers = "none"
  /\ stage' = "flush" /\ probed' = FALSE
  /\ UNCHANGED <<doc, signalled, http, parts, flow, workers, api, stops, loop>>

FlowHasEnded == flow # "probe"

StopFlow ==
  /\ stage = "flush" /\ FlowHasEnded /\ stage' = "free"
  /\ flow' = IF flow = "probe" THEN flow ELSE "none"
  /\ UNCHANGED <<doc, signalled, http, parts, probed, workers, api, stops, loop>>

Free ==
  /\ stage = "free" /\ Exit /\ parts' = {}
  /\ UNCHANGED <<doc, signalled, http, flow, probed, workers, api, stops, loop>>

Main ==
  \/ Load \/ BuildFails \/ Build \/ StartControl \/ Play \/ PlayFails
  \/ SetLoopFlag \/ Dispatch \/ GoOn \/ Quit \/ ClearLoopFlag \/ Halt
  \/ StopControl \/ StopHttp \/ ShutDownSocket \/ Join
  \/ Deinit \/ StopRouter \/ RemoveProbes \/ StopFlow \/ Free

------------------------------------------------------------------------------
(* The thread that accepts connections *)

Http(step) == http' = At(step)
KeepsMain == UNCHANGED <<doc, stage, signalled, stops, pipe, loop>>

\* accept_loop looks at running_ before it accepts.
LookUp ==
  /\ http.at = "loop"
  /\ IF running THEN Http("accept") ELSE Http("ended")
  /\ KeepsMain /\ UNCHANGED api

Accept ==
  /\ http.at = "accept" /\ listening /\ requests < MaxRequests
  /\ Http("read") /\ requests' = requests + 1
  /\ KeepsMain /\ UNCHANGED <<posted, orphans>>

AcceptFails ==
  /\ http.at = "accept" /\ ~listening /\ Http("loop")
  /\ KeepsMain /\ UNCHANGED api

\* A client may fall silent or send a head that is too long or cannot be parsed;
\* its content length may be none (then 0) or no number, and its body cut short.
Connections ==
  [head : {"parsed", "broken", "too long", "silent"},
   method : {"GET", "POST", "OPTIONS", "other"},
   length : {"no number", "too large", "fits"}, body : {"whole", "cut"}]

Served(c) ==
  /\ c.head = "parsed" /\ c.method \in {"GET", "POST"}
  /\ c.length = "fits" /\ c.body = "whole"

\* Some operations need nothing of the main loop, a benchmark sleeps in between.
Operations ==
  [at : {"op"}, hops : 1..MaxHops, slices : {0, Slices}] \union {At("write")}

\* Who sends no head is turned away without an answer.  What is not served is answered
\* with an error, and a preflight needs no handler either.
Handle ==
  /\ http.at = "read"
  /\ \E c \in Connections :
       http' \in CASE Served(c)         -> Operations
                   [] c.head = "silent" -> {At("loop")}
                   [] OTHER             -> {At("write")}
  /\ KeepsMain /\ UNCHANGED api

\* on_main_loop looks at loop_running_.
Decide ==
  /\ http.at = "op"
  /\ IF loopFlag THEN Http("post") ELSE Http("inline")
  /\ KeepsMain /\ UNCHANGED api

\* g_main_context_invoke_full: with nobody in the loop the caller takes it over.
Post ==
  /\ http.at = "post"
  /\ IF stage = "looping" THEN Http("wait") /\ posted' = TRUE
                          ELSE Http("inline") /\ UNCHANGED posted
  /\ KeepsMain /\ UNCHANGED <<orphans, requests>>

\* A benchmark sleeps between its first operation and the next; others go on to
\* their next operation or to their answer.
Onward ==
  http' = [http EXCEPT !.hops = @ - 1,
                       !.at = IF http.slices > 0 THEN "sleep"
                              ELSE IF http.hops > 1 THEN "op" ELSE "write"]

Inline ==
  /\ http.at = "inline" /\ Onward
  /\ KeepsMain /\ UNCHANGED api

Answered ==
  /\ http.at = "wait" /\ ~posted /\ Onward
  /\ KeepsMain /\ UNCHANGED api

\* Faulty: the caller waits until its closure has run.
Patient == FALSE

\* Five seconds pass only where the loop is held up or has ended.
MayTimeOut == stalled \/ stage # "looping"

TimeOut ==
  /\ http.at = "wait" /\ posted /\ MayTimeOut
  /\ posted' = FALSE /\ orphans' = orphans + 1 /\ Onward
  /\ KeepsMain /\ UNCHANGED requests

\* The window of a benchmark ends early when the server is told to stop.
SleepsOn == http.slices > 0 /\ ~stopping

Awake == [http EXCEPT !.at = IF http.hops > 0 THEN "op" ELSE "write", !.slices = 0]

Sleep ==
  /\ http.at = "sleep"
  /\ http' = IF SleepsOn THEN [http EXCEPT !.slices = @ - 1] ELSE Awake
  /\ KeepsMain /\ UNCHANGED api

\* The answer is written by one write(2).  Only reading has a time-out: where the
\* client does not take what does not fit the socket's buffer, the thread is blocked.
Respond ==
  /\ http.at = "write" /\ (Http("loop") \/ Http("blocked"))
  /\ KeepsMain /\ UNCHANGED api

\* The client reads on, or its end of the connection goes away.
Unblock ==
  /\ http.at = "blocked" /\ Http("loop")
  /\ KeepsMain /\ UNCHANGED api

Api ==
  \/ LookUp \/ AcceptFails \/ Decide \/ Post \/ Inline \/ Answered \/ TimeOut \/ Sleep
  \/ Handle \/ Respond

------------------------------------------------------------------------------
(* The other threads *)

Elsewhere == UNCHANGED <<doc, stage, http, api, stops, loop>>

EnterProbe ==
  /\ flow = "idle" /\ probed /\ flow' = "probe"
  /\ Elsewhere /\ UNCHANGED <<signalled, parts, probed, workers>>

LeaveProbe ==
  /\ flow = "probe" /\ flow' = "idle"
  /\ Elsewhere /\ UNCHANGED <<signalled, parts, probed, workers>>

Take ==
  /\ workers = "idle" /\ workers' = "busy"
  /\ Elsewhere /\ UNCHANGED <<signalled, parts, flow, probed>>

Done ==
  /\ workers \in {"busy", "last"}
  /\ workers' = IF workers = "busy" THEN "idle" ELSE "none"
  /\ Elsewhere /\ UNCHANGED <<signalled, parts, flow, probed>>

Signal ==
  /\ stage \notin {"load", "exited"} /\ ~signalled /\ signalled' = TRUE
  /\ Elsewhere /\ UNCHANGED pipe

------------------------------------------------------------------------------
Init ==
  /\ doc \in Documents
  /\ stage = "load" /\ parts = {} /\ flow = "none" /\ probed = FALSE
  /\ workers = "none"
  /\ loopFlag = FALSE /\ stalled = FALSE /\ stalls = 0 /\ signalled = FALSE
  /\ http = [at |-> "off", hops |-> 0, slices |-> 0]
  /\ posted = FALSE /\ orphans = 0 /\ requests = 0
  /\ running = FALSE /\ listening = FALSE /\ stopping = FALSE

Next ==
  \/ Main \/ LoopEnds \/ Stall
  \/ Api \/ Accept \/ Unblock
  \/ EnterProbe \/ LeaveProbe \/ Take \/ Done \/ Signal

\* The threads run, and once state NULL is asked for the pads take no further data, so
\* that the probe is left for good; connections, stalls, signals and the ends of
\* streams need not happen.  A client that keeps silent is turned away by the read
\* timeout; nothing turns away one that does not read, which need not ever unblock.
Spec ==
  /\ Init /\ [][Next]_vars
  /\ WF_vars(Main) /\ SF_vars(Halt) /\ WF_vars(Api) /\ WF_vars(LeaveProbe) /\ WF_vars(Done)

------------------------------------------------------------------------------
(* Properties *)

\* Nothing is taken down under somebody who uses it, however far the build came
\* and wherever the end of the run finds the other threads: an operation of the
\* control API needs the pipeline, the event probe the engine and the log, a
\* worker the router.  main.cpp:118 says "stopped before the pipeline teardown".
UsedThingsExist ==
  /\ http.at \in {"inline", "wait"} =>
       {"pipeline", "sources", "timers"} \subseteq parts
  /\ flow = "probe" => "engine" \in parts
  /\ workers # "none" => "router" \in parts

\* A signal ends the run, whatever waits for the main loop and however far the build
\* came; all that can keep the end is a client that stays for ever without reading its
\* answer, and then in the join of the accept thread, behind which nothing is freed yet.
SignalEndsRun ==
  signalled ~> \/ stage = "exited"
               \/ [](stage = "join" /\ http.at = "blocked")
=============================================================================
