------------------------------- MODULE LlmRouter -------------------------------
(***************************************************************************)
(* LlmRouter: the streaming threads and the main loop that submit          *)
(* requests, the bounded priority queue, the worker threads with the two   *)
(* circuit breakers and the one HTTP handle they share, and stop().        *)
(*                                                                         *)
(* A request is reduced to its priority, which determines its provider:    *)
(* route_event gives Qwen events High or Normal, the metrics analysis is   *)
(* Low and goes to DeepSeek.  Requests of one priority leave the queue in  *)
(* the order they entered and are alike otherwise, so the queue is the     *)
(* number of requests it holds of each priority.                           *)
(*                                                                         *)
(* Left out: prompts, response bodies and statistics counters.  An answer  *)
(* is "ok" (HTTP 200 and schema-valid), "transient" (the client retries)   *)
(* or "bad" (any other failure, an invalid body included).                 *)
(***************************************************************************)
EXTENDS CircuitBreaker, FiniteSets

CONSTANTS
  Workers,    \* the worker threads
  Priorities, \* the request priorities in use
  MaxSize,    \* capacity of the queue (queue.max_size)
  MaxRetries, \* retries of a transient failure
  Keyed       \* the providers with an API key; it cannot change while running

High == 0
Normal == 1
Low == 2
NoRequest == 3

Providers == {"qwen", "deepseek"}
ProviderOf(p) == IF p = Low THEN "deepseek" ELSE "qwen"

ASSUME RouterAssumption ==
  /\ IsFiniteSet(Workers)
  /\ Priorities \subseteq {High, Normal, Low}
  /\ MaxSize \in Nat \ {0}
  /\ MaxRetries \in Nat
  /\ Keyed \subseteq Providers

VARIABLES
  queue,   \* queued requests, a number for each priority
  breaker, \* cb_qwen_ and cb_deepseek_
  pc,      \* where each worker is
  req,     \* the request a worker processes, NoRequest between two
  attempt, \* retries its HTTP call has used so far
  stopper  \* the thread in stop(): not there yet, or its next step

vars == <<queue, breaker, pc, req, attempt, stopper>>

\* Faulty: stop() does not clear the flag.
StillRunning == stopper # "stopped"

Running == stopper = "idle"                     \* running_
ShutDown == stopper \in {"join", "stopped"}     \* queue_->shutdown_

InCall == {"lock", "perform", "succeeded", "failed"}
Locations == {"loop", "dequeue", "gate", "exited"} \union InCall

------------------------------------------------------------------------------
(* The queue *)

Queues == [Priorities -> Nat]
Size(q) == (IF High \in Priorities THEN q[High] ELSE 0)
             + (IF Normal \in Priorities THEN q[Normal] ELSE 0)
             + (IF Low \in Priorities THEN q[Low] ELSE 0)

IsEmpty(q) == \A p \in Priorities : q[p] = 0

\* The request on top of the heap: the most urgent, a lower number first.
Top(q) ==
  CHOOSE p \in Priorities : q[p] > 0 /\ \A r \in Priorities : q[r] > 0 => p <= r

Pop(q) == [q EXCEPT ![Top(q)] = @ - 1]

\* Faulty: makes room one request too late.
PushOffByOne(q, p) ==
  LET room == IF Size(q) > MaxSize THEN Pop(q) ELSE q
  IN  [room EXCEPT ![p] = @ + 1]

\* A full queue pops the top of the heap to make room.
Push(q, p) ==
  LET room == IF Size(q) >= MaxSize THEN Pop(q) ELSE q
  IN  [room EXCEPT ![p] = @ + 1]

\* enqueue_event, enqueue_metrics_analysis.  After the shutdown enqueue
\* refuses the request and only the statistics change.
Submit(p) ==
  /\ ~ShutDown
  /\ queue' = Push(queue, p)
  /\ UNCHANGED <<breaker, pc, req, attempt, stopper>>

------------------------------------------------------------------------------
(* A worker *)

GoTo(w, l) == pc' = [pc EXCEPT ![w] = l]

\* process_request returns.
Return(w) == GoTo(w, "loop") /\ req' = [req EXCEPT ![w] = NoRequest]

\* The test of the loop in worker_loop.
Loop(w) ==
  /\ pc[w] = "loop"
  /\ GoTo(w, IF Running THEN "dequeue" ELSE "exited")
  /\ UNCHANGED <<queue, breaker, req, attempt, stopper>>

\* The worker may wait on the condition variable first; what it does when it
\* has the mutex again is the same.
Dequeue(w) ==
  /\ pc[w] = "dequeue"
  /\ ~IsEmpty(queue) /\ ~ShutDown
  /\ req' = [req EXCEPT ![w] = Top(queue)]
  /\ queue' = Pop(queue)
  /\ GoTo(w, "gate")
  /\ UNCHANGED <<breaker, attempt, stopper>>

DequeueNothing(w) ==
  /\ pc[w] = "dequeue"
  /\ IsEmpty(queue) \/ ShutDown
  /\ GoTo(w, "loop")
  /\ UNCHANGED <<queue, breaker, req, attempt, stopper>>

\* The circuit breaker gate of process_request, and the lookup of the key.
Gate(w) ==
  LET p == ProviderOf(req[w])
  IN  /\ pc[w] = "gate"
      /\ breaker' = [breaker EXCEPT ![p] = AfterAsked(@)]
      /\ IF Allows(breaker[p]) /\ p \in Keyed
           THEN GoTo(w, "lock") /\ UNCHANGED req
           ELSE Return(w)
      /\ UNCHANGED <<queue, attempt, stopper>>

HandleFree == \A v \in Workers : pc[v] # "perform"

\* post_raw locks the handle for one attempt at a time.
Lock(w) ==
  /\ pc[w] = "lock"
  /\ HandleFree
  /\ GoTo(w, "perform")
  /\ UNCHANGED <<queue, breaker, req, attempt, stopper>>

\* The attempt ends and the handle is released; a retry sleeps, then locks again.
Perform(w, answer) ==
  /\ pc[w] = "perform"
  /\ \/ /\ answer = "ok"
        /\ GoTo(w, "succeeded")
        /\ attempt' = [attempt EXCEPT ![w] = 0]
     \/ /\ answer = "transient" /\ attempt[w] < MaxRetries
        /\ GoTo(w, "lock")
        /\ attempt' = [attempt EXCEPT ![w] = @ + 1]
     \/ /\ answer = "bad" \/ (answer = "transient" /\ attempt[w] >= MaxRetries)
        /\ GoTo(w, "failed")
        /\ attempt' = [attempt EXCEPT ![w] = 0]
  /\ UNCHANGED <<queue, breaker, req, stopper>>

\* The outcome steps the breaker, then write_cloud_result appends it to the
\* analysis file, which nothing else touches before the workers are joined.
Record(w) ==
  LET p == ProviderOf(req[w])
  IN  /\ \/ /\ pc[w] = "succeeded"
            /\ breaker' = [breaker EXCEPT ![p] = RecordSuccess(@)]
         \/ /\ pc[w] = "failed"
            /\ breaker' = [breaker EXCEPT ![p] = RecordFailure(@)]
      /\ Return(w)
      /\ UNCHANGED <<queue, attempt, stopper>>

Answers == {"ok", "transient", "bad"}

Step(w) ==
  \/ Loop(w) \/ Dequeue(w) \/ DequeueNothing(w) \/ Gate(w) \/ Lock(w)
  \/ \E answer \in Answers : Perform(w, answer)
  \/ Record(w)

------------------------------------------------------------------------------
(* stop() *)

Stop ==
  /\ stopper = "idle"
  /\ stopper' = "shutdown"
  /\ UNCHANGED <<queue, breaker, pc, req, attempt>>

ShutDownQueue ==
  /\ stopper = "shutdown"
  /\ stopper' = "join"
  /\ UNCHANGED <<queue, breaker, pc, req, attempt>>

\* Every worker joined, the analysis file is closed.
Join ==
  /\ stopper = "join"
  /\ \A w \in Workers : pc[w] = "exited"
  /\ stopper' = "stopped"
  /\ UNCHANGED <<queue, breaker, pc, req, attempt>>

\* Time passes for the open breakers.
Elapse ==
  /\ breaker' = [p \in Providers |-> Aged(breaker[p])]
  /\ UNCHANGED <<queue, pc, req, attempt, stopper>>

------------------------------------------------------------------------------
Init ==
  /\ queue = [p \in Priorities |-> 0]
  /\ breaker = [p \in Providers |-> NewBreaker]
  /\ pc = [w \in Workers |-> "loop"]
  /\ req = [w \in Workers |-> NoRequest]
  /\ attempt = [w \in Workers |-> 0]
  /\ stopper = "idle"

Next ==
  \/ \E p \in Priorities : Submit(p)
  \/ \E w \in Workers : Step(w)
  \/ Stop \/ ShutDownQueue \/ Join
  \/ Elapse

\* Threads run, calls return (libcurl's timeouts), time passes.  A thread that
\* waits for the handle gets it in the end although others want it too: every
\* release wakes a waiter, and the thread that released it still has to record,
\* write and dequeue, or to sleep.
Fairness ==
  /\ \A w \in Workers : WF_vars(Step(w)) /\ SF_vars(Lock(w))
  /\ WF_vars(ShutDownQueue) /\ WF_vars(Join)
  /\ WF_vars(Elapse)

Spec == Init /\ [][Next]_vars /\ Fairness

------------------------------------------------------------------------------
(* Properties *)

InFlight(p) == {w \in Workers : pc[w] \in InCall /\ ProviderOf(req[w]) = p}

\* Types; the queue never holds more than its capacity.
TypeOK ==
  /\ queue \in Queues /\ Size(queue) <= MaxSize
  /\ breaker \in [Providers -> Breakers]
  /\ pc \in [Workers -> Locations]
  /\ req \in [Workers -> Priorities \union {NoRequest}]
  /\ attempt \in [Workers -> 0..MaxRetries]
  /\ stopper \in {"idle", "shutdown", "join", "stopped"}

\* A half-open breaker cannot get stuck without an outcome to come: of the
\* probes it has let through, each one has reported a success or is still in
\* flight, whatever the other workers' late outcomes did to the breaker.
NoProbeLost ==
  \A p \in Providers :
    breaker[p].state = "HALF_OPEN" =>
      breaker[p].used <= breaker[p].successes + Cardinality(InFlight(p))

ReachesGate(p) == \E w \in Workers : pc[w] = "gate" /\ ProviderOf(req[w]) = p

\* An HTTP attempt at p ends with one of these answers.
Answered(p, answers) ==
  \E w \in Workers : ProviderOf(req[w]) = p /\ \E a \in answers : Perform(w, a)

\* A provider that answers well from some moment on gets its circuit closed
\* for good, as long as requests for it keep coming: no late failure, lost
\* probe or race of two workers leaves the breaker open or half-open.
GoodProviderCloses ==
  \A p \in Providers :
    (<>[][~Answered(p, {"transient", "bad"})]_vars /\ []<>ReachesGate(p))
      => <>[](breaker[p].state = "CLOSED")

\* A provider that never answers well again is cut off for good, probes apart.
DeadProviderIsCutOff ==
  \A p \in Keyed :
    (<>[][~Answered(p, {"ok"})]_vars /\ []<>ReachesGate(p))
      => <>[](breaker[p].state # "CLOSED")

\* stop() returns: no worker waits for ever, on the queue or on the handle.
StopReturns == (stopper = "shutdown") ~> (stopper = "stopped")

\* What request_queue.h says of a full queue: "the lowest-priority (then
\* oldest) item is shed to make room".  A submission removes no request while
\* a less urgent one is queued.
ShedsLeastUrgent ==
  [][\A p, urgent, other \in Priorities :
       Submit(p) /\ urgent < other /\ queue[other] > 0
         => queue'[urgent] >= queue[urgent]]_vars
=============================================================================
